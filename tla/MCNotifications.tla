-------------------------- MODULE MCNotifications --------------------------
(***************************************************************************)
(* Small instances of Notifications and OperationManager: what adapters    *)
(* tell and what waits for messages.  They share no state, so each         *)
(* behaviour is one of one of them: of the part that is chosen initially,  *)
(* while the other stays as it is.                                         *)
(***************************************************************************)
EXTENDS Notifications, OperationManager

CONSTANT Parts
VARIABLE part

parts == <<part, notificationVars, opVars>>

PartsInit == part \in Parts /\ Init /\ OpInit
PartsNext ==
    /\ part' = part
    /\ \/ part = "notifications" /\ Next /\ UNCHANGED opVars
       \/ part = "operations" /\ OpNext /\ UNCHANGED notificationVars
PartsSpec == PartsInit /\ [][PartsNext]_parts

CONSTANTS d1, e1, h1, h2, n1, n2, k1, k2, f1, f2, c1, g1, t1

MonitorSymmetry == Permutations(Handles) \cup Permutations(Notifiers)
=============================================================================
