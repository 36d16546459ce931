------------------------------ MODULE MCDevices -----------------------------
(***************************************************************************)
(* Small instances of Gateway and DeviceServer.  They share no state, so   *)
(* each behaviour is one of one of them: of the part that is chosen        *)
(* initially, while the other stays as it is.                              *)
(***************************************************************************)
EXTENDS Gateway, DeviceServer

CONSTANT Parts
VARIABLE part

parts == <<part, gwVars, vars>>

DevicesInit == part \in Parts /\ GwInit /\ ServerInit
DevicesNext ==
    /\ part' = part
    /\ \/ part = "gateway" /\ GwNext /\ UNCHANGED vars
       \/ part = "server" /\ ServerNext /\ UNCHANGED gwVars
DevicesSpec == DevicesInit /\ [][DevicesNext]_parts

(***************************************************************************)
(* The instances.                                                          *)
(***************************************************************************)

CONSTANTS d1, d2, c1, c2, n1, o1, o2, i1, i2

\* Both adapters of the gateway call a device by the same string, such as its address.
SameString(a, d) == d

Symmetry == Permutations(Ops) \cup Permutations(Clients) \cup Permutations(Devices) \cup Permutations(GwConnIds)
=============================================================================
