------------------------------ MODULE MCServices -----------------------------
(***************************************************************************)
(* Small instances of ServiceRPC and Streaming, with the fairness of each. *)
(* They share no state, so each behaviour is one of one of them: of the    *)
(* part that is chosen initially, while the other stays as it is.          *)
(***************************************************************************)
EXTENDS ServiceRPC, Streaming

CONSTANT Parts
VARIABLE part

parts == <<part, vars, strVars>>

ServicesInit == part \in Parts /\ Init /\ StrInit
ServicesNext ==
    /\ part' = part
    /\ \/ part = "supervisor" /\ Next /\ UNCHANGED strVars
       \/ part = "streaming" /\ StrNext /\ UNCHANGED vars

\* The fairness of the parts; the one that was not chosen does not step.
Supervised(A) == part = "supervisor" /\ A
ServicesSpec ==
    /\ ServicesInit /\ [][ServicesNext]_parts
    /\ \A r \in Rpcs : WF_vars(Supervised(Sent(r))) /\ WF_vars(Supervised(Expire(r))) /\ WF_vars(Supervised(Get(r)))
    /\ WF_strVars(part = "streaming" /\ WorkerStep(1))

\* The second streamer triggers together with the first.
WithFirst == [i \in Streamers |-> IF i = 1 THEN 0 ELSE NULL]

(***************************************************************************)
(* Properties.                                                             *)
(***************************************************************************)



\* send_rpc() returns, and what is to be streamed is streamed or fails
\* (ServiceManager.send_rpc, StreamManagerSubsystem).
EveryRequestEnds == EverySendReturns /\ EveryStreamingEnds
=============================================================================
