------------------------------ MODULE MCEmulator -----------------------------
(***************************************************************************)
(* Small instances of RPCQueue and DeviceReset, with the fairness of each. *)
(* They are modelled without shared state (DeviceReset has a dispatcher of *)
(* its own, whose handlers take no time), so each behaviour is one of one  *)
(* of them: of the part that is chosen initially, while the other stays as *)
(* it is.                                                                  *)
(***************************************************************************)
EXTENDS RPCQueue, DeviceReset

CONSTANT Parts
VARIABLE part

parts == <<part, vars, dvVars>>

EmulatorInit == part \in Parts /\ Init /\ DvInit
EmulatorNext ==
    /\ part' = part
    /\ \/ part = "rpcs" /\ Next /\ UNCHANGED dvVars
       \/ part = "reset" /\ DvNext /\ UNCHANGED vars

\* The fairness of the parts; the one that was not chosen does not step.
Dispatched(A) == part = "rpcs" /\ A
EmulatorSpec ==
    /\ EmulatorInit /\ [][EmulatorNext]_parts
    /\ WF_vars(Dispatched(Start)) /\ WF_vars(Dispatched(DispatcherStep))
    /\ \A c \in Calls : WF_vars(Dispatched(Return(c))) /\ WF_vars(Dispatched(Timeout(c)))
    /\ \A t \in Targets : WF_vars(Dispatched(FinishAsync(t)))
    /\ WF_dvVars(part = "reset" /\ DvLoop)

CONSTANTS t1, t2, r1, r2, c1, c2, c3, u1, u2

OneTile == <<11>>

\* The liveness of both (RPCQueue._rpc_dispatch_task, ReferenceDevice.start): as long as no
\* caller inside the loop gives up, every call is answered and wait_idle() returns; the
\* device comes up again after a reset.
EmulationGoesOn == []<>(IF part = "rpcs" THEN Done ELSE DvIsUp)
=============================================================================
