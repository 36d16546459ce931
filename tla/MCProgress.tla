------------------------------ MODULE MCProgress -----------------------------
(***************************************************************************)
(* Small instances of NativeBLE, BLED112 and EventLoop, with the fairness  *)
(* of each.  They share no state, so each behaviour is one of *)
(* one of them: of the part that is chosen initially, while the others     *)
(* stay as they are.                                                       *)
(***************************************************************************)
EXTENDS NativeBLE, BLED112, EventLoop

CONSTANT Parts
VARIABLE part

parts == <<part, bleVars, b112Vars, elVars>>

ProgressInit == part \in Parts /\ BleInit /\ B112Init /\ ELInit
ProgressNext ==
    /\ part' = part
    /\ \/ part = "ble" /\ BleNext /\ UNCHANGED <<b112Vars, elVars>>
       \/ part = "bled112" /\ B112Next /\ UNCHANGED <<bleVars, elVars>>
       \/ part = "loop" /\ ELNext /\ UNCHANGED <<bleVars, b112Vars>>

\* The fairness of the parts; those that were not chosen do not step.
BleGoesOn ==
    /\ WF_bleVars(part = "ble" /\ Loop)
    /\ \A c \in BleConns : WF_bleVars(part = "ble" /\ Expire(c))
    /\ \A c \in BleConns, k \in BleCalls : WF_bleVars(part = "ble" /\ Ends(c, k))
B112GoesOn ==
    /\ WF_b112Vars(part = "bled112" /\ HandleEvent) /\ WF_b112Vars(part = "bled112" /\ B112Take)
    /\ WF_b112Vars(part = "bled112" /\ CommandEnds)
    /\ \A k \in B112Calls : WF_b112Vars(part = "bled112" /\ GoOnConnecting(k))
LoopOn(A) == part = "loop" /\ A
ELGoesOn ==
    /\ \A t \in ELThreads :
         /\ WF_elVars(LoopOn(Submit(t))) /\ WF_elVars(LoopOn(Register(t) \/ RegisterSubtask(t)))
         /\ WF_elVars(LoopOn(StopEnds(t))) /\ WF_elVars(LoopOn(TaskMustEnd(t)))
    /\ WF_elVars(LoopOn(Call)) /\ WF_elVars(LoopOn(Sweep)) /\ WF_elVars(LoopOn(Halt))
    /\ WF_elVars(LoopOn(LoopHalts)) /\ WF_elVars(LoopOn(LoopCloses))
    /\ WF_elVars(LoopOn(AStopBegins)) /\ WF_elVars(LoopOn(AStopTimesOut)) /\ WF_elVars(LoopOn(AStopFinishes))

ProgressSpec ==
    /\ ProgressInit /\ [][ProgressNext]_parts
    /\ BleGoesOn /\ B112GoesOn /\ ELGoesOn

(***************************************************************************)
(* The instances.                                                          *)
(***************************************************************************)

CONSTANTS c1, t1, t2, t3

TwoCalls == 1 .. 2
ThreeCalls == 1 .. 3

(***************************************************************************)
(* Properties.                                                             *)
(***************************************************************************)

\* On a connection on which nothing went wrong an operation is given its own result, and
\* what is listed as idle is linked (connection_manager.py:322-640).
BleAgrees == BleTypeOK /\ BleAnswersAreOwn /\ BleIdleMeansLinked

\* Whoever blocks on the call of a legacy adapter is released (legacy.py:136-165).
BlockedReturns == BleBlockedReturns /\ B112BlockedReturns
=============================================================================
