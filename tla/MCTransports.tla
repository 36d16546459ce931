---------------------------- MODULE MCTransports ----------------------------
(***************************************************************************)
(* Small instances of JLink, AWSGateway, PacketQueue, BLED112,             *)
(* HardwareManager and RemoteAdapter.  They share no state, so each        *)
(* behaviour is one of one of them: of the part that is chosen initially,  *)
(* while the others stay as they are.                                      *)
(***************************************************************************)
EXTENDS JLink, AWSGateway, PacketQueue, BLED112, HardwareManager, RemoteAdapter

CONSTANT Parts
VARIABLE part

parts == <<part, jlVars, awVars, pqVars, b112Vars, hwVars, remVars>>

TransportsInit ==
    /\ part \in Parts /\ JLInit /\ AWInit /\ PQInit /\ B112Init /\ HwInit /\ RemInit
    /\ part = "jlink" \/ jlDevice.firmware
TransportsNext ==
    /\ part' = part
    /\ \/ part = "jlink" /\ JLNext /\ UNCHANGED <<awVars, pqVars, b112Vars, hwVars, remVars>>
       \/ part = "aws" /\ AWNext /\ UNCHANGED <<jlVars, pqVars, b112Vars, hwVars, remVars>>
       \/ part = "packets" /\ PQNext /\ UNCHANGED <<jlVars, awVars, b112Vars, hwVars, remVars>>
       \/ part = "bled112" /\ B112Next /\ UNCHANGED <<jlVars, awVars, pqVars, hwVars, remVars>>
       \/ part = "manager" /\ HwNext /\ UNCHANGED <<jlVars, awVars, pqVars, b112Vars, remVars>>
       \/ part = "remote" /\ RemNext /\ UNCHANGED <<jlVars, awVars, pqVars, b112Vars, hwVars>>
TransportsSpec == TransportsInit /\ [][TransportsNext]_parts

(***************************************************************************)
(* The instances.                                                          *)
(***************************************************************************)

\* The connections of JLink, the clients of AWSGateway and the devices of HardwareManager are
\* the same two values, which none of them tells apart, so that one permutation does for all.
CONSTANTS x1, x2, r1

JLKindsSmall ==
    << {"connect"}, {"rpc"}, {"tracing", "streaming", "script", "call", "reset", "probe", "connect", "flash"},
       {"disconnect"} >>
AWKindsSmall == << {"connect"}, {"disconnect"}, {"connect", "disconnect", "rpc", "send_script"}, {"open_interface"} >>
AWKindsForeign == << {"connect"}, {"disconnect"}, {"connect"}, {"rpc"}, {"rpc"} >>
RemKindsSmall == << {"connect"}, {"disconnect", "operate", "probe"}, {"connect", "disconnect"} >>
Tasks == 1 .. 2
ThreeCalls == 1 .. 3
FourCalls == 1 .. 4
FiveCalls == 1 .. 5
TwoOfThem == {x1, x2}
Symmetry == Permutations(TwoOfThem)

(***************************************************************************)
(* Properties.                                                             *)
(***************************************************************************)

\* A call that succeeds was answered by the device's or the agent's response to itself, as
\* long as nothing of the connection timed out or was cut off
\* (jlink_background.py:92-104, awsiot device_adapter.py:456-505); what the answer says of a
\* connection is so at the other end of the socket (socket_lib device_adapter.py:80-106).
AnswersAreOwn == JLAnswersAreOwn /\ AWAnswersAreOwn /\ RemoteAgrees

\* What is delivered comes in the order in which it was sent and never twice: the traces of a
\* J-Link device, of which some may be missing (jlink_background.py:459-529); the messages of a
\* topic and the events of a socket, of which none is left out.  Of the messages none is held
\* back either, and one at which the callback raised stays in its place, to be given to it once
\* more (packet_queue.py:48-70).
DeliveredInOrder == JLTypeOK /\ JLTracesInOrder /\ PQInOrder /\ PQNothingHeld /\ RemEventsInOrder
=============================================================================
