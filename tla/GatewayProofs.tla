---------------------------- MODULE GatewayProofs ----------------------------
(***************************************************************************)
(* The gateway's table of connections and the links of its adapters are    *)
(* for each other, proved for all adapters, devices, connection ids and    *)
(* ways in which adapters call devices, two of them by the same string     *)
(* included.  Of the constants only GatewayAssumption is assumed.          *)
(*                                                                         *)
(* And the copies of the services that the clients of the supervisor keep  *)
(* are the server's, proved for all clients, services, statuses, texts and *)
(* bounds: ExpectedAssumption and BoundAssumption are all that is assumed. *)
(***************************************************************************)
EXTENDS Gateway, ServiceSync, FiniteSetTheorems, SequenceTheorems, WellFoundedInduction, TLAPS

\* Before connect() has come back from the adapter there is no link.
UnlinkedAtFirst == \A i \in GwConnIds : user[i] \in {"unused", "connecting"} => links[i] = NULL

\* A connection that its user believes to have is linked, or was dropped: what
\* EntriesAreUsed says of the connection once disconnect() is over.
InUseIsLinked ==
    \A i \in GwConnIds :
        user[i] \in {"linked", "connected", "disconnecting"} => links[i] # NULL \/ i \in dropped

\* The entries of a device are finitely many adapters.
SeenIsFinite == \A d \in GwDevices : IsFiniteSet(SeenBy(d))

Connections == [adapter : Adapters, device : GwDevices, translate : BOOLEAN]
Links == [adapter : Adapters, device : GwDevices]

\* The part of the inductive invariant that is about connections.
ConnectionsInv ==
    /\ gwConnections \in [GwConnIds -> Connections \cup {NULL}]
    /\ reverse \in [Strings -> GwConnIds \cup {NULL}]
    /\ links \in [GwConnIds -> Links \cup {NULL}]
    /\ user \in [GwConnIds -> {"unused", "connecting", "linked", "connected", "disconnecting", "closed", "KeyError"}]
    /\ LinksAreKnown /\ ReportsAreNamed /\ EntriesAreUsed /\ UnlinkedAtFirst /\ InUseIsLinked

\* Inductive.
SeenInv ==
    /\ devices \in [GwDevices -> Seq(Entries)]
    /\ \A d \in GwDevices : Cardinality(SeenBy(d)) = Len(devices[d])
    /\ SeenIsFinite

\* Two connections with one string have shared it; a connection is in the table before
\* its link is made, and not before it is begun.
HoldersShare ==
    \A i, j \in GwConnIds :
        i # j /\ gwConnections[i] # NULL /\ gwConnections[j] # NULL /\ StringOf(i) = StringOf(j) => i \in sharing
BegunIsEntered ==
    \A i \in GwConnIds :
        /\ user[i] = "unused" => gwConnections[i] = NULL
        /\ user[i] = "connecting" => gwConnections[i] # NULL

\* The part that is about the strings.
FoundInv == EntriesAreFound /\ HoldersShare /\ BegunIsEntered /\ sharing \subseteq GwConnIds

GwInv == SeenInv /\ ConnectionsInv /\ FoundInv

-----------------------------------------------------------------------------

\* _track_device_seen keeps one entry per adapter, whatever it is told.
LEMMA TrackKeepsOneEntry ==
  ASSUME SeenInv, NEW a \in Adapters, NEW d \in GwDevices, NEW s \in Signals,
         DeviceSeen(a, d, s)
  PROVE  SeenInv'
<1> DEFINE old == devices[d]
           new == Track(a, d, s)
           seen(l) == {l[n].adapter : n \in 1 .. Len(l)}
<1>1. old \in Seq(Entries) /\ [adapter |-> a, signal |-> s] \in Entries
  BY DEF SeenInv, Entries
<1>2. new \in Seq(Entries) /\ IsFiniteSet(seen(new)) /\ Cardinality(seen(new)) = Len(new)
  <2>1. CASE a \in SeenBy(d)
    <3>1. new = [n \in 1 .. Len(old) |->
                  IF old[n].adapter = a THEN [adapter |-> a, signal |-> s] ELSE old[n]]
      BY <2>1 DEF Track
    <3> HIDE DEF new
    <3>2. new \in Seq(Entries) /\ Len(new) = Len(old)
      BY <1>1, <3>1
    <3>3. \A n \in 1 .. Len(old) : new[n].adapter = old[n].adapter
      BY <1>1, <3>1
    <3>4. seen(new) = SeenBy(d)
      BY <3>2, <3>3 DEF SeenBy
    <3> QED
      BY <3>2, <3>4 DEF SeenInv, SeenIsFinite
  <2>2. CASE a \notin SeenBy(d)
    <3>1. new = Append(old, [adapter |-> a, signal |-> s])
      BY <2>2 DEF Track
    <3> HIDE DEF new
    <3>2. new \in Seq(Entries) /\ Len(new) = Len(old) + 1
      BY <1>1, <3>1
    <3>3. /\ \A n \in 1 .. Len(old) : new[n] = old[n]
          /\ new[Len(old) + 1].adapter = a
      BY <1>1, <3>1
    <3>4. 1 .. Len(new) = (1 .. Len(old)) \cup {Len(old) + 1}
      BY <1>1, <3>2
    <3>5. seen(new) = SeenBy(d) \cup {a}
      BY <3>3, <3>4 DEF SeenBy
    <3>6. IsFiniteSet(SeenBy(d)) /\ Cardinality(SeenBy(d)) = Len(old)
      BY DEF SeenInv, SeenIsFinite
    <3>7. IsFiniteSet(seen(new)) /\ Cardinality(seen(new)) = Len(old) + 1
      BY <3>5, <3>6, <2>2, FS_AddElement
    <3> QED
      BY <3>2, <3>7
  <2> QED
    BY <2>1, <2>2
<1>3. devices \in [GwDevices -> Seq(Entries)] /\ devices' = [devices EXCEPT ![d] = new]
  BY DEF SeenInv, DeviceSeen
<1> HIDE DEF new
<1>4. \A e \in GwDevices : devices'[e] = IF e = d THEN new ELSE devices[e]
  BY <1>3
<1>5. \A e \in GwDevices : IsFiniteSet(SeenBy(e)') /\ Cardinality(SeenBy(e)') = Len(devices'[e])
  <2> SUFFICES ASSUME NEW e \in GwDevices
               PROVE  IsFiniteSet(SeenBy(e)') /\ Cardinality(SeenBy(e)') = Len(devices'[e])
    OBVIOUS
  <2>1. CASE e = d
    <3>1. SeenBy(e)' = seen(new)
      BY <2>1, <1>4 DEF SeenBy
    <3> QED
      BY <3>1, <2>1, <1>2, <1>4
  <2>2. CASE e # d
    <3>1. SeenBy(e)' = SeenBy(e)
      BY <2>2, <1>4 DEF SeenBy
    <3> QED
      BY <3>1, <2>2, <1>4 DEF SeenInv, SeenIsFinite
  <2> QED
    BY <2>1, <2>2
<1> QED
  BY <1>2, <1>3, <1>5 DEF SeenInv, SeenIsFinite

\* Every other action leaves what was seen as it is.
LEMMA SeenIsLeftAlone ==
  ASSUME SeenInv, UNCHANGED devices
  PROVE  SeenInv'
  BY DEF SeenInv, SeenIsFinite, SeenBy

-----------------------------------------------------------------------------

LEMMA GwInitInv == GwInit => GwInv
<1> SUFFICES ASSUME GwInit PROVE GwInv
  OBVIOUS
<1>1. \A d \in GwDevices : SeenBy(d) = {} /\ Len(devices[d]) = 0 /\ devices[d] \in Seq(Entries)
  BY DEF GwInit, SeenBy
<1>2. \A d \in GwDevices : IsFiniteSet(SeenBy(d)) /\ Cardinality(SeenBy(d)) = 0
  BY <1>1, FS_EmptySet
<1>3. SeenIsFinite /\ devices \in [GwDevices -> Seq(Entries)]
  BY <1>1, <1>2 DEF GwInit, SeenIsFinite
<1>4. ConnectionsInv
  BY DEF GwInit, ConnectionsInv, LinksAreKnown, ReportsAreNamed, EntriesAreUsed, UnlinkedAtFirst, InUseIsLinked
<1>5. FoundInv
  BY DEF GwInit, FoundInv, EntriesAreFound, HoldersShare, BegunIsEntered
<1> QED
  BY <1>1, <1>2, <1>3, <1>4, <1>5 DEF GwInv, SeenInv

-----------------------------------------------------------------------------
(* The steps of connections. *)

LEMMA BeginKeeps ==
  ASSUME ConnectionsInv, NEW i \in GwConnIds, NEW a \in Adapters, NEW d \in GwDevices,
         NEW t \in BOOLEAN, GwBegin(i, a, d, t)
  PROVE  ConnectionsInv'
<1> DEFINE c == [adapter |-> a, device |-> d, translate |-> t]
<1>1. c \in Connections /\ Local(a, d) \in Strings
  BY DEF Connections, Strings
<1>2. /\ user[i] = "unused" /\ links[i] = NULL
      /\ gwConnections' = [gwConnections EXCEPT ![i] = c]
      /\ reverse' = [reverse EXCEPT ![Local(a, d)] = i]
      /\ user' = [user EXCEPT ![i] = "connecting"]
      /\ event' = NULL /\ links' = links /\ dropped' = dropped
  BY DEF GwBegin, Setup, ConnectionsInv, UnlinkedAtFirst
<1> HIDE DEF c
<1>3. /\ \A j \in GwConnIds : gwConnections'[j] = IF j = i THEN c ELSE gwConnections[j]
      /\ \A j \in GwConnIds : user'[j] = IF j = i THEN "connecting" ELSE user[j]
  BY <1>2 DEF ConnectionsInv
<1>4. ReportsAreNamed' /\ LinksAreKnown'
  BY <1>2, <1>3 DEF ConnectionsInv, ReportsAreNamed, LinksAreKnown
<1>5. EntriesAreUsed' /\ UnlinkedAtFirst' /\ InUseIsLinked'
  BY <1>2, <1>3 DEF ConnectionsInv, EntriesAreUsed, UnlinkedAtFirst, InUseIsLinked
<1> QED
  BY <1>1, <1>2, <1>4, <1>5 DEF ConnectionsInv

LEMMA LinkUpKeeps ==
  ASSUME ConnectionsInv, NEW i \in GwConnIds, LinkUp(i)
  PROVE  ConnectionsInv'
<1> DEFINE c == gwConnections[i]
           l == [adapter |-> c.adapter, device |-> c.device]
<1>1. c \in Connections /\ c # NULL /\ l \in Links /\ l # NULL
  BY GatewayAssumption DEF Connections, Links, LinkUp, ConnectionsInv
<1>2. /\ user[i] = "connecting"
      /\ links' = [links EXCEPT ![i] = l]
      /\ user' = [user EXCEPT ![i] = "linked"]
      /\ event' = NULL /\ gwConnections' = gwConnections /\ reverse' = reverse /\ dropped' = dropped
  BY DEF LinkUp
<1>3. l.adapter = gwConnections[i].adapter /\ l.device = gwConnections[i].device
  OBVIOUS
<1> HIDE DEF l, c
<1>4. /\ \A j \in GwConnIds : links'[j] = IF j = i THEN l ELSE links[j]
      /\ \A j \in GwConnIds : user'[j] = IF j = i THEN "linked" ELSE user[j]
  BY <1>2 DEF ConnectionsInv
<1>5. ReportsAreNamed' /\ LinksAreKnown'
  BY <1>1, <1>2, <1>3, <1>4 DEF ConnectionsInv, ReportsAreNamed, LinksAreKnown, c
<1>6. EntriesAreUsed' /\ UnlinkedAtFirst' /\ InUseIsLinked'
  BY <1>1, <1>2, <1>4 DEF ConnectionsInv, EntriesAreUsed, UnlinkedAtFirst, InUseIsLinked
<1> QED
  BY <1>1, <1>2, <1>5, <1>6 DEF ConnectionsInv

\* A connection that ends without a link, or with the one it had: the entry goes first.
LEMMA TeardownKeeps ==
  ASSUME ConnectionsInv, NEW i \in GwConnIds, NEW u \in {"closed", "KeyError"},
         Teardown(i), user' = [user EXCEPT ![i] = u], event' = NULL, dropped' = dropped,
         links' = [links EXCEPT ![i] = NULL]
  PROVE  ConnectionsInv'
<1>1. gwConnections' = [gwConnections EXCEPT ![i] = NULL]
  BY DEF Teardown
<1>2. reverse' \in [Strings -> GwConnIds \cup {NULL}]
  BY DEF Teardown, ConnectionsInv
<1>3. \A j \in GwConnIds : /\ links'[j] = IF j = i THEN NULL ELSE links[j]
                           /\ gwConnections'[j] = IF j = i THEN NULL ELSE gwConnections[j]
                           /\ user'[j] = IF j = i THEN u ELSE user[j]
  BY <1>1 DEF ConnectionsInv
<1>4. ReportsAreNamed' /\ LinksAreKnown'
  BY <1>3 DEF ConnectionsInv, ReportsAreNamed, LinksAreKnown
<1>5. EntriesAreUsed' /\ UnlinkedAtFirst' /\ InUseIsLinked'
  BY <1>3 DEF ConnectionsInv, EntriesAreUsed, UnlinkedAtFirst, InUseIsLinked
<1> QED
  BY <1>1, <1>2, <1>4, <1>5 DEF ConnectionsInv

\* connect() and disconnect() go on, or a disconnect() fails: what the user knows
\* changes, the tables do not.
LEMMA UserGoesOn ==
  ASSUME ConnectionsInv, NEW i \in GwConnIds, GwConnectReturns(i) \/ GwDisconnect(i) \/ DisconnectFails(i)
  PROVE  ConnectionsInv'
<1>1. PICK u \in {"connected", "disconnecting", "closed"} : user' = [user EXCEPT ![i] = u]
  BY DEF GwConnectReturns, GwDisconnect, DisconnectFails
<1>2. /\ user[i] \in {"linked", "connected", "disconnecting"}
      /\ event' = NULL /\ UNCHANGED <<gwConnections, reverse, links, dropped>>
  BY DEF GwConnectReturns, GwDisconnect, DisconnectFails
<1>3. \A j \in GwConnIds : user'[j] = IF j = i THEN u ELSE user[j]
  BY <1>1 DEF ConnectionsInv
<1>4. ReportsAreNamed' /\ LinksAreKnown'
  BY <1>2 DEF ConnectionsInv, ReportsAreNamed, LinksAreKnown
<1>5. EntriesAreUsed' /\ UnlinkedAtFirst' /\ InUseIsLinked'
  BY <1>2, <1>3 DEF ConnectionsInv, EntriesAreUsed, UnlinkedAtFirst, InUseIsLinked
<1> QED
  BY <1>1, <1>2, <1>4, <1>5 DEF ConnectionsInv

LEMMA EventKeeps ==
  ASSUME ConnectionsInv, NEW i \in GwConnIds, Report(i) \/ Drop(i)
  PROVE  ConnectionsInv'
<1>1. CASE Report(i)
  <2>1. ReportsAreNamed'
    BY <1>1, GatewayAssumption DEF Report, Notify, Name, ReportsAreNamed
  <2> QED
    BY <2>1, <1>1 DEF Report, ConnectionsInv, LinksAreKnown, EntriesAreUsed, UnlinkedAtFirst, InUseIsLinked
<1>2. CASE Drop(i)
  <2>1. \A j \in GwConnIds : links'[j] = IF j = i THEN NULL ELSE links[j]
    BY <1>2 DEF Drop, ConnectionsInv
  <2>2. event'.kind = "disconnection" /\ dropped' = dropped \cup {i} /\ UNCHANGED <<gwConnections, reverse, user>>
    BY <1>2 DEF Drop, Notify
  <2>3. ReportsAreNamed' /\ LinksAreKnown'
    BY <2>1, <2>2 DEF ConnectionsInv, ReportsAreNamed, LinksAreKnown
  <2>4. EntriesAreUsed' /\ UnlinkedAtFirst' /\ InUseIsLinked'
    BY <2>1, <2>2 DEF ConnectionsInv, EntriesAreUsed, UnlinkedAtFirst, InUseIsLinked
  <2>5. links' \in [GwConnIds -> Links \cup {NULL}]
    BY <1>2 DEF Drop, ConnectionsInv
  <2> QED
    BY <2>2, <2>3, <2>4, <2>5 DEF ConnectionsInv
<1> QED
  BY <1>1, <1>2

-----------------------------------------------------------------------------
(* The steps of the strings. *)

\* A new entry takes its string over; whoever else has that has shared it from then on.
LEMMA BeginFinds ==
  ASSUME ConnectionsInv, FoundInv, NEW i \in GwConnIds, NEW a \in Adapters, NEW d \in GwDevices,
         NEW t \in BOOLEAN, GwBegin(i, a, d, t)
  PROVE  FoundInv'
<1> DEFINE c == [adapter |-> a, device |-> d, translate |-> t]
           new == Local(a, d)
           others == Holders(new)
<1>1. c # NULL /\ c.adapter = a /\ c.device = d
  BY GatewayAssumption
<1>2. /\ user[i] = "unused"
      /\ gwConnections' = [gwConnections EXCEPT ![i] = c]
      /\ reverse' = [reverse EXCEPT ![new] = i]
      /\ user' = [user EXCEPT ![i] = "connecting"]
      /\ sharing' = sharing \cup IF others = {} THEN {} ELSE others \cup {i}
  BY DEF GwBegin, Setup
<1>3. gwConnections[i] = NULL
  BY <1>2, Zenon DEF FoundInv, BegunIsEntered
<1>4. others \subseteq GwConnIds /\ \A j \in others : gwConnections[j] # NULL /\ StringOf(j) = new
  BY DEF Holders
<1>5. \A j \in GwConnIds \ others : gwConnections[j] # NULL => StringOf(j) # new
  BY DEF Holders
<1>6. new \in Strings
  BY DEF Strings
<1>7. gwConnections'[i] = c /\ StringOf(i)' = new
  BY <1>1, <1>2 DEF ConnectionsInv, StringOf
<1>8. \A j \in GwConnIds \ {i} : gwConnections'[j] = gwConnections[j] /\ StringOf(j)' = StringOf(j) /\ user'[j] = user[j]
  BY <1>2 DEF ConnectionsInv, StringOf
<1>9. user'[i] = "connecting"
  BY <1>2 DEF ConnectionsInv
<1>10. reverse'[new] = i /\ \A s \in Strings \ {new} : reverse'[s] = reverse[s]
  BY <1>2, <1>6 DEF ConnectionsInv
<1>11. sharing \subseteq sharing' /\ others \subseteq sharing' /\ (others # {} => i \in sharing')
  BY <1>2
<1> HIDE DEF c, new, others
<1>12. ASSUME NEW s \in Strings, reverse'[s] # NULL PROVE reverse'[s] \in Holders(s)'
  <2>1. CASE s = new
    BY <1>1, <1>7, <1>10, <2>1 DEF Holders
  <2>2. CASE s # new
    <3>1. reverse'[s] = reverse[s] /\ reverse[s] # NULL
      BY <1>10, <1>12, <2>2
    <3>2. reverse[s] \in GwConnIds /\ gwConnections[reverse[s]] # NULL /\ StringOf(reverse[s]) = s
      BY <3>1 DEF FoundInv, EntriesAreFound, Holders
    <3>3. reverse[s] # i
      BY <1>3, <3>2
    <3> QED
      BY <1>8, <3>1, <3>2, <3>3 DEF Holders
  <2> QED
    BY <2>1, <2>2
<1>13. ASSUME NEW j \in GwConnIds \ sharing'
       PROVE  user'[j] # "KeyError" /\ (gwConnections'[j] # NULL => reverse'[StringOf(j)'] = j)
  <2>1. CASE j = i
    BY <1>7, <1>9, <1>10, <2>1
  <2>2. CASE j # i
    <3>1. j \in GwConnIds \ sharing /\ j \notin others
      BY <1>11, <1>13
    <3>2. user[j] # "KeyError" /\ (gwConnections[j] # NULL => reverse[StringOf(j)] = j)
      BY <3>1 DEF FoundInv, EntriesAreFound
    <3>3. gwConnections[j] # NULL => StringOf(j) \in Strings \ {new}
      BY <1>5, <3>1 DEF ConnectionsInv, Connections, Strings, StringOf
    <3> QED
      BY <1>8, <1>10, <2>2, <3>2, <3>3
  <2> QED
    BY <2>1, <2>2
<1>14. EntriesAreFound'
  BY <1>12, <1>13 DEF EntriesAreFound
<1>15. HoldersShare'
  <2> SUFFICES ASSUME NEW j \in GwConnIds, NEW k \in GwConnIds, j # k, gwConnections'[j] # NULL,
                      gwConnections'[k] # NULL, StringOf(j)' = StringOf(k)'
               PROVE  j \in sharing'
    BY DEF HoldersShare
  <2>1. CASE j = i
    <3>1. k \in others
      BY <1>5, <1>7, <1>8, <2>1
    <3> QED
      BY <1>11, <2>1, <3>1
  <2>2. CASE k = i
    <3>1. j \in others
      BY <1>5, <1>7, <1>8, <2>2
    <3> QED
      BY <1>11, <3>1
  <2>3. CASE j # i /\ k # i
    BY <1>8, <1>11, <2>3 DEF FoundInv, HoldersShare
  <2> QED
    BY <2>1, <2>2, <2>3
<1>16. BegunIsEntered'
  BY <1>1, <1>7, <1>8, <1>9 DEF FoundInv, BegunIsEntered
<1>17. sharing' \subseteq GwConnIds
  BY <1>2, <1>4 DEF FoundInv
<1> QED
  BY <1>14, <1>15, <1>16, <1>17 DEF FoundInv

\* An entry goes with its string: of those that have not shared theirs, only its own.
LEMMA TeardownFinds ==
  ASSUME ConnectionsInv, FoundInv, NEW i \in GwConnIds, NEW u \in {"closed", "KeyError"},
         gwConnections[i] # NULL, Teardown(i), user' = [user EXCEPT ![i] = u], sharing' = sharing,
         u = "KeyError" => i \in sharing
  PROVE  FoundInv'
<1> DEFINE old == StringOf(i)
<1>1. old \in Strings
  BY DEF ConnectionsInv, Connections, Strings, StringOf
<1>2. gwConnections'[i] = NULL /\ user'[i] = u
  BY DEF Teardown, ConnectionsInv
<1>3. \A j \in GwConnIds \ {i} : gwConnections'[j] = gwConnections[j] /\ StringOf(j)' = StringOf(j) /\ user'[j] = user[j]
  BY DEF Teardown, ConnectionsInv, StringOf
<1>4. reverse'[old] = NULL /\ \A s \in Strings \ {old} : reverse'[s] = reverse[s]
  BY <1>1 DEF Teardown, ConnectionsInv
<1>5. ASSUME NEW s \in Strings, reverse'[s] # NULL PROVE reverse'[s] \in Holders(s)'
  <2>1. s # old /\ reverse'[s] = reverse[s] /\ reverse[s] # NULL
    BY <1>4, <1>5
  <2>2. reverse[s] \in GwConnIds /\ gwConnections[reverse[s]] # NULL /\ StringOf(reverse[s]) = s
    BY <2>1 DEF FoundInv, EntriesAreFound, Holders
  <2> QED
    BY <1>3, <2>1, <2>2 DEF Holders
<1>6. ASSUME NEW j \in GwConnIds \ sharing
      PROVE  user'[j] # "KeyError" /\ (gwConnections'[j] # NULL => reverse'[StringOf(j)'] = j)
  <2>1. CASE j = i
    BY <1>2, <1>6, <2>1
  <2>2. CASE j # i
    <3>1. user[j] # "KeyError" /\ (gwConnections[j] # NULL => reverse[StringOf(j)] = j)
      BY <1>6 DEF FoundInv, EntriesAreFound
    <3>2. gwConnections[j] # NULL => StringOf(j) \in Strings
      BY DEF ConnectionsInv, Connections, Strings, StringOf
    <3>3. gwConnections[j] # NULL => StringOf(j) # old
      BY <1>6, <2>2 DEF FoundInv, HoldersShare
    <3> QED
      BY <1>3, <1>4, <2>2, <3>1, <3>2, <3>3
  <2> QED
    BY <2>1, <2>2
<1>7. EntriesAreFound'
  BY <1>5, <1>6 DEF EntriesAreFound
<1>8. HoldersShare' /\ BegunIsEntered'
  BY <1>2, <1>3 DEF FoundInv, HoldersShare, BegunIsEntered
<1> QED
  BY <1>7, <1>8 DEF FoundInv

\* The rest leaves the tables as they are.
LEMMA OthersFind ==
  ASSUME ConnectionsInv, FoundInv, UNCHANGED <<gwConnections, reverse, sharing>>,
         \A j \in GwConnIds : user'[j] \in {user[j], "linked", "connected", "disconnecting", "closed"}
  PROVE  FoundInv'
<1>1. \A j \in GwConnIds : StringOf(j)' = StringOf(j)
  BY DEF StringOf
<1>2. \A s : Holders(s)' = Holders(s)
  BY <1>1 DEF Holders
<1>3. EntriesAreFound'
  BY <1>1, <1>2 DEF FoundInv, EntriesAreFound
<1>4. HoldersShare' /\ BegunIsEntered'
  BY <1>1 DEF FoundInv, HoldersShare, BegunIsEntered
<1> QED
  BY <1>3, <1>4 DEF FoundInv

-----------------------------------------------------------------------------

LEMMA GwNextInv == GwInv /\ [GwNext]_gwVars => GwInv'
<1> SUFFICES ASSUME GwInv, [GwNext]_gwVars PROVE GwInv'
  OBVIOUS
<1> USE DEF GwInv
<1>1. ASSUME NEW a \in Adapters, NEW d \in GwDevices, NEW s \in Signals, DeviceSeen(a, d, s)
      PROVE  GwInv'
  <2>1. SeenInv'
    BY <1>1, TrackKeepsOneEntry
  <2>2. ConnectionsInv'
    BY <1>1 DEF DeviceSeen, ConnectionsInv, LinksAreKnown, ReportsAreNamed, EntriesAreUsed, UnlinkedAtFirst, InUseIsLinked
  <2>3. FoundInv'
    BY <1>1, OthersFind DEF DeviceSeen
  <2> QED
    BY <2>1, <2>2, <2>3
<1>2. ASSUME NEW i \in GwConnIds, NEW d \in GwDevices, GwConnect(i, d)
      PROVE  GwInv'
  <2>1. PICK n \in 1 .. Len(devices[d]) : GwBegin(i, devices[d][n].adapter, d, TRUE)
    BY <1>2 DEF GwConnect, Usable
  <2>2. devices[d][n].adapter \in Adapters
    <3>1. devices[d] \in Seq(Entries)
      BY DEF SeenInv
    <3>2. devices[d][n] \in Entries
      BY <3>1
    <3> QED
      BY <3>2 DEF Entries
  <2> QED
    BY <2>1, <2>2, BeginKeeps, BeginFinds, SeenIsLeftAlone DEF GwBegin
<1>3. ASSUME NEW i \in GwConnIds, NEW d \in GwDevices, NEW a \in Adapters, ConnectThrough(i, a, d)
      PROVE  GwInv'
  BY <1>3, BeginKeeps, BeginFinds, SeenIsLeftAlone DEF ConnectThrough, GwBegin
<1>4. ASSUME NEW i \in GwConnIds, LinkUp(i)
      PROVE  GwInv'
  <2>1. UNCHANGED <<gwConnections, reverse, sharing>> /\ \A j \in GwConnIds : user'[j] \in {user[j], "linked"}
    BY <1>4 DEF LinkUp, ConnectionsInv
  <2> QED
    BY <1>4, <2>1, LinkUpKeeps, OthersFind, SeenIsLeftAlone DEF LinkUp
<1>5. ASSUME NEW i \in GwConnIds, ConnectFails(i)
      PROVE  GwInv'
  <2>1. links' = [links EXCEPT ![i] = NULL]
    BY <1>5 DEF ConnectFails, ConnectionsInv, UnlinkedAtFirst
  <2> QED
    BY <1>5, <2>1, TeardownKeeps, TeardownFinds, SeenIsLeftAlone DEF ConnectFails, FoundInv, BegunIsEntered
<1>6. ASSUME NEW i \in GwConnIds, GwDisconnectReturns(i)
      PROVE  GwInv'
  <2>1. PICK u \in {"closed", "KeyError"} :
            user' = [user EXCEPT ![i] = u] /\ (u = "KeyError" => KeyErrorIn(i))
    BY <1>6 DEF GwDisconnectReturns
  <2>3. gwConnections[i] # NULL
    BY <1>6 DEF GwDisconnectReturns, ConnectionsInv, LinksAreKnown
  <2>4. u = "KeyError" => i \in sharing
    BY <2>1, <2>3, GatewayAssumption DEF KeyErrorIn, FoundInv, EntriesAreFound
  <2>5. sharing' = sharing
    BY <1>6 DEF GwDisconnectReturns
  <2>2. /\ Teardown(i) /\ event' = NULL /\ dropped' = dropped /\ devices' = devices
        /\ links' = [links EXCEPT ![i] = NULL]
    BY <1>6, Zenon DEF GwDisconnectReturns
  <2> QED
    BY <2>1, <2>2, <2>3, <2>4, <2>5, TeardownKeeps, TeardownFinds, SeenIsLeftAlone
<1>7. ASSUME NEW i \in GwConnIds, GwConnectReturns(i) \/ GwDisconnect(i) \/ DisconnectFails(i)
      PROVE  GwInv'
  <2>1. /\ UNCHANGED <<gwConnections, reverse, sharing>>
        /\ \A j \in GwConnIds : user'[j] \in {user[j], "connected", "disconnecting", "closed"}
    BY <1>7 DEF GwConnectReturns, GwDisconnect, DisconnectFails, ConnectionsInv
  <2> QED
    BY <1>7, <2>1, UserGoesOn, OthersFind, SeenIsLeftAlone DEF GwConnectReturns, GwDisconnect, DisconnectFails
<1>8. ASSUME NEW i \in GwConnIds, Report(i) \/ Drop(i)
      PROVE  GwInv'
  BY <1>8, EventKeeps, OthersFind, SeenIsLeftAlone DEF Report, Drop
<1>9. CASE UNCHANGED gwVars
  BY <1>9, OthersFind, SeenIsLeftAlone DEF gwVars, ConnectionsInv, LinksAreKnown, ReportsAreNamed, EntriesAreUsed,
                               UnlinkedAtFirst, InUseIsLinked
<1> QED
  BY <1>1, <1>2, <1>3, <1>4, <1>5, <1>6, <1>7, <1>8, <1>9 DEF GwNext

\* Whatever the users of the gateway, its adapters and the devices do, in any order:
\* a link of an adapter is a connection that the gateway knows, through that adapter
\* and to that device; reports carry the name the user connected by; nothing is kept
\* of a connection that is over unless its device dropped it; and an entry is found by its
\* string unless another has had the same (AggregatingDeviceAdapter).
THEOREM EntriesAreLinksAlways == GwSpec => []EntriesAreLinks
<1>1. GwInv => EntriesAreLinks
  BY DEF GwInv, SeenInv, ConnectionsInv, FoundInv, EntriesAreLinks, GwTypeOK, Connections, Links
<1> QED
  BY GwInitInv, GwNextInv, <1>1, PTL DEF GwSpec

-----------------------------------------------------------------------------
(* Natural numbers. *)

LEMMA LeastNat ==
  ASSUME NEW T \in SUBSET Nat, T # {}
  PROVE  \E x \in T : \A y \in T : x <= y
<1> DEFINE F == {0 .. x : x \in T}
           R == StrictSubsetOrdering(Nat)
<1>1. F \subseteq FiniteSubsetsOf(Nat) /\ F # {}
  <2>1. \A x \in T : 0 .. x \in SUBSET Nat /\ IsFiniteSet(0 .. x)
    BY FS_Interval
  <2> QED
    BY <2>1 DEF FiniteSubsetsOf
<1>2. IsWellFoundedOn(R, FiniteSubsetsOf(Nat))
  BY FS_StrictSubsetOrderingWellFounded
<1> HIDE DEF R, F
<1>3. PICK A \in F : \A B \in F : ~ (<<B, A>> \in R)
  BY <1>1, <1>2, WFMin
<1>4. PICK x \in T : A = 0 .. x
  BY DEF F
<1>5. ASSUME NEW y \in T, y < x PROVE FALSE
  <2>1. 0 .. y \in F /\ 0 .. y \subseteq 0 .. x /\ x \in 0 .. x /\ x \notin 0 .. y
    BY <1>5 DEF F
  <2>2. <<0 .. y, 0 .. x>> \in (SUBSET Nat) \X (SUBSET Nat) /\ 0 .. y # 0 .. x
    BY <2>1
  <2>3. <<0 .. y, 0 .. x>> \in R
    BY <2>1, <2>2 DEF R, StrictSubsetOrdering
  <2> QED
    BY <1>3, <1>4, <2>1, <2>3
<1> QED
  BY <1>5


\* Induction on the numbers in a set.
LEMMA AllNat ==
  ASSUME NEW S, 0 \in S, \A k \in Nat : k \in S => k + 1 \in S
  PROVE  Nat \subseteq S
<1> SUFFICES ASSUME Nat \ S # {} PROVE FALSE
  OBVIOUS
<1>1. PICK m \in Nat \ S : \A k \in Nat \ S : m <= k
  BY LeastNat
<1>2. m # 0 /\ m - 1 \in Nat /\ (m - 1) + 1 = m
  BY <1>1
<1>3. m - 1 \in S
  BY <1>1, <1>2
<1> QED
  BY <1>1, <1>2, <1>3

-----------------------------------------------------------------------------
(* The copies that the clients of the supervisor keep. *)

Copies == {r \in StateRecords : Len(r.messages) <= MaxMessages}
Fields == {"state", "messages", "headline"}

Changed(kind, values) == [kind : {kind}, service : Services, value : values]
SyncEvents ==
    Changed("state", States) \cup Changed("messages", Texts) \cup Changed("headline", Headlines)
        \cup Changed("added", {NULL})
Replies == [kind : {"list"}, names : Seq(Services)] \cup [kind : {"reply"}, query : Fields, value : Copies]
SyncCalls == [event : SyncEvents, by : Clients, at : Nat]

TheList == [query |-> "list", service |-> NULL]
Asked(names) == [query : Fields, service : names]

\* A client that asks has something to ask.
IsSync(x) ==
    /\ x = [pc |-> x.pc, names |-> x.names, todo |-> x.todo, info |-> x.info]
    /\ x.pc \in {"none", "asking", "waiting", "built", "synced"}
    /\ x.info \in [Services -> Copies]
    /\ x.pc \in {"asking", "waiting"} => x.todo \in Seq(Asked(Services) \cup {TheList}) /\ x.todo # <<>>

IsLocal(l) == l = [names |-> l.names, info |-> l.info, map |-> l.map] /\ l.info \in [Services -> Copies]

SyTypes ==
    /\ order \in Seq(Services) /\ info \in [Services -> Copies]
    /\ monitors \in Seq(Clients) /\ clients \in [Clients -> {"none", "connected", "gone"}]
    /\ notifying \in Seq(SyncCalls)
    /\ channel \in [Clients -> Seq(SyncEvents \cup Replies)]
    /\ DOMAIN sync = Clients /\ sync = [c \in Clients |-> sync[c]] /\ \A c \in Clients : IsSync(sync[c])
    /\ DOMAIN local = Clients /\ local = [c \in Clients |-> local[c]] /\ \A c \in Clients : IsLocal(local[c])

\* Each service is registered once, and nobody says anything of one that is not.
OrderInv == IsInjective(order) /\ \A s \in Services \ Registered : info[s] = New

MonitorsInv == IsInjective(monitors) /\ ToSet(monitors) = {c \in Clients : clients[c] # "none"}

\* The calls in progress are suspended in the send to somebody who is connected, and no
\* call has overtaken an older one.
CallsInOrder ==
    /\ \A k \in DOMAIN notifying : notifying[k].at \in DOMAIN monitors /\ monitors[notifying[k].at] \in Connected
    /\ \A j, k \in DOMAIN notifying : j < k => notifying[j].at >= notifying[k].at

\* A reply is on its way to a client only if it waits for one.
ReplyKinds == {"list", "reply"}
OneReply ==
    \A c \in Clients : \A i \in DOMAIN channel[c] : channel[c][i].kind \in ReplyKinds =>
        /\ sync[c].pc = "waiting"
        /\ \A j \in DOMAIN channel[c] \ {i} : channel[c][j].kind \notin ReplyKinds

AbsentInv ==
    \A c \in Clients :
        IF c \in Connected THEN sync[c].pc # "none"
        ELSE sync[c] = NotSyncing /\ local[c] = Nobody /\ channel[c] = <<>>

\* What a client that syncs has not asked yet is all that it does not know.
KnowsRest(x) ==
    /\ \A s \in Services \ Registered : x.info[s] = New
    /\ \/ x.todo = <<TheList>> /\ x.pc # "built" /\ x.info = [s \in Services |-> New]
       \/ /\ x.names = order /\ ToSet(x.todo) \subseteq Asked(Registered)
          /\ x.pc = "built" => x.todo = <<>>
          /\ \A s \in Registered, q \in Fields :
                x.info[s][q] = info[s][q] \/ [query |-> q, service |-> s] \in ToSet(x.todo)

SyncsInPeace(c) ==
    /\ notifying = <<>> /\ local[c] = Nobody /\ KnowsRest(sync[c])
    /\ channel[c] = IF sync[c].pc = "waiting" THEN <<Reply(Head(sync[c].todo))>> ELSE <<>>

PeaceInv == \A c \in Connected \ disturbed : sync[c].pc # "synced" => SyncsInPeace(c)

OnEvent(l, e) == IF e.kind = "added" THEN OnServiceAdded(l, e.service) ELSE OnUpdate(l, e)
ServerCopy == [names |-> order, info |-> info, map |-> order]

\* The calls from the m-th on have not come to the client yet.
ComeFrom(c, m) ==
    \A k \in DOMAIN notifying, i \in DOMAIN monitors : monitors[i] = c => (notifying[k].at < i <=> k >= m)

\* What is in the channel, and then the calls from the m-th on, turn the copy l into the
\* server's: h are the copies on the way.
Leads(l, sent, calls, m, h, copy) ==
    /\ h[0] = l
    /\ \A i \in 1 .. Len(sent) : h[i] = OnEvent(h[i - 1], sent[i])
    /\ \A j \in 1 .. (Len(calls) - m + 1) : h[Len(sent) + j] = OnEvent(h[Len(sent) + j - 1], calls[m + j - 1].event)
    /\ h[Len(sent) + (Len(calls) - m + 1)] = copy

Follows(c) ==
    \E m \in 1 .. (Len(notifying) + 1) :
        ComeFrom(c, m) /\ \E h : Leads(local[c], channel[c], notifying, m, h, ServerCopy)

FollowInv == \A c \in Connected \ (untold \cup disturbed) : sync[c].pc = "synced" => Follows(c)

SyInv ==
    /\ SyTypes /\ OrderInv /\ MonitorsInv /\ CallsInOrder
    /\ OneReply /\ AbsentInv /\ PeaceInv /\ FollowInv

-----------------------------------------------------------------------------
(* Copies, events and replies. *)

LEMMA NewIsACopy == New \in Copies
  BY BoundAssumption DEF Copies, StateRecords, New

LEMMA CopyFields ==
  ASSUME NEW r \in Copies
  PROVE  /\ r = [state |-> r.state, messages |-> r.messages, headline |-> r.headline]
         /\ r.state \in States /\ r.headline \in Headlines \cup {NULL}
         /\ r.messages \in Seq([text : Texts, count : Nat \ {0}]) /\ Len(r.messages) <= MaxMessages
  BY DEF Copies, StateRecords

LEMMA PostIsACopy ==
  ASSUME NEW r \in Copies, NEW text \in Texts
  PROVE  PostMessage(r, text) \in Copies
<1> DEFINE M == [text : Texts, count : Nat \ {0}]
           n == Len(r.messages)
           one == [text |-> text, count |-> 1]
           m == Append(r.messages, one)
<1>1. /\ r = [state |-> r.state, messages |-> r.messages, headline |-> r.headline]
      /\ r.state \in States /\ r.headline \in Headlines \cup {NULL}
      /\ r.messages \in Seq(M) /\ n <= MaxMessages
  BY CopyFields
<1>2. one \in M /\ n \in Nat /\ MaxMessages \in Nat \ {0}
  BY <1>1, BoundAssumption
<1>3. m \in Seq(M) /\ Len(m) = n + 1 /\ m # <<>>
  BY <1>1, <1>2, SMTT(30)
<1>4. Tail(m) \in Seq(M) /\ Len(Tail(m)) = n
  BY <1>3, HeadTailProperties
<1>5. CASE n > 0 /\ r.messages[n].text = text
  <2> DEFINE last == r.messages[n]
             ms == [r.messages EXCEPT ![n] = [text |-> last.text, count |-> last.count + 1]]
  <2> HIDE DEF M
  <2>0. n \in 1 .. n /\ last \in M
    BY <1>1, <1>2, <1>5
  <2> USE DEF M
  <2>1. n \in 1 .. n /\ last \in M /\ last = [text |-> last.text, count |-> last.count]
    BY <2>0
  <2>2. [text |-> last.text, count |-> last.count + 1] \in M
    BY <2>1
  <2>3. ms \in Seq(M) /\ Len(ms) = n
    BY <1>1, <2>1, <2>2, ExceptSeq
  <2>4. [r.messages EXCEPT ![n].count = @ + 1] = ms
    BY <2>1, SMTT(30)
  <2>5. PostMessage(r, text) = [r EXCEPT !.messages[n].count = @ + 1]
    BY <1>5 DEF PostMessage
  <2>6. [r EXCEPT !.messages[n].count = @ + 1] = [r EXCEPT !.messages = ms]
    BY <2>4
  <2>7. PostMessage(r, text) = [state |-> r.state, messages |-> ms, headline |-> r.headline]
    BY <1>1, <2>5, <2>6
  <2> HIDE DEF ms
  <2> QED
    BY <1>1, <2>3, <2>7 DEF Copies, StateRecords
<1>6. CASE ~(n > 0 /\ r.messages[n].text = text)
  <2> DEFINE ms == IF Len(m) > MaxMessages THEN Tail(m) ELSE m
  <2>1. PostMessage(r, text) = [r EXCEPT !.messages = ms]
    BY <1>6 DEF PostMessage
  <2>2. ms \in Seq(M) /\ Len(ms) <= MaxMessages
    <3> HIDE DEF m, M
    <3>1. CASE Len(m) > MaxMessages
      BY <1>1, <1>4, <3>1
    <3>2. CASE ~(Len(m) > MaxMessages)
      BY <1>2, <1>3, <3>2
    <3> QED
      BY <3>1, <3>2
  <2> HIDE DEF ms
  <2>3. PostMessage(r, text) = [state |-> r.state, messages |-> ms, headline |-> r.headline]
    BY <1>1, <2>1
  <2> QED
    BY <1>1, <2>2, <2>3 DEF Copies, StateRecords
<1> QED
  BY <1>5, <1>6

LEMMA EventFields ==
  ASSUME NEW e \in SyncEvents
  PROVE  /\ e.kind \in {"state", "messages", "headline", "added"} /\ e.service \in Services
         /\ e = [kind |-> e.kind, service |-> e.service, value |-> e.value]
         /\ e.kind = "state" => e.value \in States
         /\ e.kind = "messages" => e.value \in Texts
         /\ e.kind = "headline" => e.value \in Headlines
         /\ e.kind \notin ReplyKinds
  BY DEF SyncEvents, Changed, ReplyKinds

LEMMA AppliedIsACopy ==
  ASSUME NEW r \in Copies, NEW e \in SyncEvents, e.kind # "added"
  PROVE  Applied(r, e) \in Copies
<1>1. CASE e.kind = "state"
  BY <1>1, CopyFields, EventFields DEF Applied, SetState, Copies, StateRecords
<1>2. CASE e.kind = "messages"
  BY <1>2, PostIsACopy, EventFields DEF Applied
<1>3. CASE e.kind = "headline"
  BY <1>3, CopyFields, EventFields DEF Applied, SetHeadline, Copies, StateRecords
<1> QED
  BY <1>1, <1>2, <1>3, EventFields

LEMMA EventKeepsLocal ==
  ASSUME NEW l, IsLocal(l), NEW e \in SyncEvents
  PROVE  IsLocal(OnEvent(l, e))
<1>1. e.service \in Services
  BY EventFields
<1>2. CASE e.kind = "added"
  <2>1. CASE e.service \in ToSet(l.names)
    BY <1>2, <2>1 DEF OnEvent, OnServiceAdded
  <2>2. CASE e.service \notin ToSet(l.names)
    <3>1. [l.info EXCEPT ![e.service] = New] \in [Services -> Copies]
      BY <1>1, NewIsACopy DEF IsLocal
    <3> QED
      BY <1>2, <2>2, <3>1 DEF OnEvent, OnServiceAdded, IsLocal
  <2> QED
    BY <2>1, <2>2
<1>3. CASE e.kind # "added"
  <2>1. CASE e.service \notin ToSet(l.names)
    BY <1>3, <2>1 DEF OnEvent, OnUpdate
  <2>2. CASE e.service \in ToSet(l.names)
    <3>1. Applied(l.info[e.service], e) \in Copies
      BY <1>1, <1>3, AppliedIsACopy DEF IsLocal
    <3>2. [l.info EXCEPT ![e.service] = Applied(@, e)] \in [Services -> Copies]
      BY <1>1, <3>1 DEF IsLocal
    <3>3. OnEvent(l, e) = [names |-> l.names, info |-> [l.info EXCEPT ![e.service] = Applied(@, e)], map |-> l.map]
      BY <1>3, <2>2 DEF OnEvent, OnUpdate, IsLocal
    <3> QED
      BY <3>2, <3>3 DEF IsLocal
  <2> QED
    BY <2>1, <2>2
<1> QED
  BY <1>2, <1>3

\* The questions are about every service and each of its fields.
LEMMA QuestionsAre ==
  ASSUME NEW S, NEW names \in Seq(S)
  PROVE  /\ Questions(names) \in Seq(Asked(ToSet(names)))
         /\ \A s \in ToSet(names), q \in Fields : [query |-> q, service |-> s] \in ToSet(Questions(names))
<1> DEFINE n == Len(names)
<1>1. Len(Queries) = 3 /\ Queries[1] = "state" /\ Queries[2] = "messages" /\ Queries[3] = "headline"
  BY DEF Queries
<1>2. Questions(names) = [i \in 1 .. 3 * n |->
          [query |-> Queries[((i - 1) % 3) + 1], service |-> names[((i - 1) \div 3) + 1]]]
  BY <1>1 DEF Questions
<1>3. n \in Nat /\ 3 * n \in Nat
  OBVIOUS
<1>4. ASSUME NEW i \in 1 .. 3 * n
      PROVE  [query |-> Queries[((i - 1) % 3) + 1], service |-> names[((i - 1) \div 3) + 1]] \in Asked(ToSet(names))
  <2>1. ((i - 1) % 3) + 1 \in 1 .. 3 /\ ((i - 1) \div 3) + 1 \in 1 .. n
    BY <1>3
  <2>2. Queries[((i - 1) % 3) + 1] \in Fields
    BY <1>1, <2>1 DEF Fields
  <2>3. names[((i - 1) \div 3) + 1] \in ToSet(names)
    BY <2>1 DEF ToSet
  <2> QED
    BY <2>2, <2>3 DEF Asked
<1>5. Questions(names) \in Seq(Asked(ToSet(names)))
  BY <1>2, <1>3, <1>4, IsASeq
<1>6. ASSUME NEW k \in 1 .. n, NEW t \in 1 .. 3
      PROVE  [query |-> Queries[t], service |-> names[k]] \in ToSet(Questions(names))
  <2> DEFINE i == 3 * (k - 1) + t
  <2>1. i \in 1 .. 3 * n /\ (i - 1) % 3 = t - 1 /\ (i - 1) \div 3 = k - 1
    BY <1>3
  <2> HIDE DEF i
  <2>2. Questions(names)[i] = [query |-> Queries[t], service |-> names[k]] /\ i \in DOMAIN Questions(names)
    BY <1>2, <2>1
  <2> QED
    BY <2>2 DEF ToSet
<1>7. ASSUME NEW s \in ToSet(names), NEW q \in Fields
      PROVE  [query |-> q, service |-> s] \in ToSet(Questions(names))
  <2>1. PICK k \in 1 .. n : names[k] = s
    BY DEF ToSet
  <2>2. PICK t \in 1 .. 3 : Queries[t] = q
    BY <1>1 DEF Fields
  <2> QED
    BY <1>6, <2>1, <2>2
<1> QED
  BY <1>5, <1>7

-----------------------------------------------------------------------------
(* What is on the way to a client. *)

\* The calls of D from its n-th on say what those of C say from the m-th on.
SayTheSame(C, m, D, n) ==
    /\ Len(D) - n = Len(C) - m
    /\ \A j \in 1 .. (Len(C) - m + 1) : D[n + j - 1].event = C[m + j - 1].event

LEMMA LeadsAlike ==
  ASSUME NEW l, NEW sent, NEW C, NEW m, NEW h, NEW copy, Leads(l, sent, C, m, h, copy),
         NEW D, NEW n, Len(C) \in Nat, Len(D) \in Nat, m \in Nat, n \in Nat, SayTheSame(C, m, D, n)
  PROVE  Leads(l, sent, D, n, h, copy)
<1>1. Len(D) - n + 1 = Len(C) - m + 1
  BY DEF SayTheSame
<1>2. ASSUME NEW j \in 1 .. (Len(D) - n + 1)
      PROVE  h[Len(sent) + j] = OnEvent(h[Len(sent) + j - 1], D[n + j - 1].event)
  <2>1. h[Len(sent) + j] = OnEvent(h[Len(sent) + j - 1], C[m + j - 1].event)
    BY <1>1 DEF Leads
  <2>2. D[n + j - 1].event = C[m + j - 1].event
    BY <1>1 DEF SayTheSame
  <2> QED
    BY <2>1, <2>2
<1>3. h[Len(sent) + (Len(D) - n + 1)] = copy
  BY <1>1 DEF Leads
<1> QED
  BY <1>2, <1>3 DEF Leads

\* An event is sent to a client whom all of the calls have come to.
LEMMA LeadsSent ==
  ASSUME NEW S, NEW sent \in Seq(S), NEW l, NEW C, Len(C) \in Nat, NEW h, NEW copy, NEW D, Len(D) \in Nat,
         Leads(l, sent, C, Len(C) + 1, h, copy), NEW e \in S
  PROVE  \E g : Leads(l, Append(sent, e), D, Len(D) + 1, g, OnEvent(copy, e))
<1> DEFINE n == Len(sent)
           last == OnEvent(copy, e)
           more == Append(sent, e)
           g == [i \in 0 .. n + 1 |-> IF i = n + 1 THEN last ELSE h[i]]
<1>1. n \in Nat /\ Len(more) = n + 1 /\ more[n + 1] = e /\ \A i \in 1 .. n : more[i] = sent[i]
  OBVIOUS
<1>2. Len(C) - (Len(C) + 1) + 1 = 0 /\ Len(D) - (Len(D) + 1) + 1 = 0
  OBVIOUS
<1>3. h[0] = l /\ h[n] = copy /\ \A i \in 1 .. n : h[i] = OnEvent(h[i - 1], sent[i])
  <2>1. h[n + 0] = copy
    BY <1>2 DEF Leads
  <2> QED
    BY <1>1, <2>1 DEF Leads
<1> HIDE DEF last, more
<1>4. g[0] = l /\ g[n + 1] = last /\ g[n] = copy
  BY <1>1, <1>3
<1>5. ASSUME NEW i \in 1 .. (n + 1) PROVE g[i] = OnEvent(g[i - 1], more[i])
  <2>1. CASE i = n + 1
    <3>1. i - 1 = n
      BY <1>1, <2>1
    <3> HIDE DEF g
    <3> QED
      BY <1>1, <1>4, <2>1, <3>1 DEF last
  <2>2. CASE i # n + 1
    <3>1. i \in 1 .. n /\ g[i] = h[i] /\ g[i - 1] = h[i - 1]
      BY <1>1, <2>2
    <3> HIDE DEF g
    <3> QED
      BY <1>1, <1>3, <3>1
  <2> QED
    BY <2>1, <2>2
<1> HIDE DEF g
<1>6. g[Len(more) + (Len(D) - (Len(D) + 1) + 1)] = last
  BY <1>1, <1>2, <1>4
<1>7. Leads(l, more, D, Len(D) + 1, g, last)
  BY <1>1, <1>2, <1>4, <1>5, <1>6 DEF Leads
<1> QED
  BY <1>7 DEF last, more

\* A call begins that has not come to the client.
LEMMA LeadsCalled ==
  ASSUME NEW l, NEW sent, Len(sent) \in Nat, NEW S, NEW C \in Seq(S), NEW m \in 1 .. Len(C) + 1, NEW h, NEW copy,
         Leads(l, sent, C, m, h, copy), NEW n \in S
  PROVE  \E g : Leads(l, sent, Append(C, n), m, g, OnEvent(copy, n.event))
<1> DEFINE p == Len(sent)
           r == Len(C) - m + 1
           last == OnEvent(copy, n.event)
           D == Append(C, n)
           g == [i \in 0 .. p + r + 1 |-> IF i = p + r + 1 THEN last ELSE h[i]]
<1>1. /\ p \in Nat /\ r \in Nat /\ Len(C) \in Nat /\ Len(D) = Len(C) + 1 /\ D[Len(C) + 1] = n
      /\ \A i \in 1 .. Len(C) : D[i] = C[i]
  OBVIOUS
<1>2. Len(D) - m + 1 = r + 1 /\ m + (r + 1) - 1 = Len(C) + 1 /\ \A j \in 1 .. r : m + j - 1 \in 1 .. Len(C)
  BY <1>1
<1>3. /\ h[0] = l /\ h[p + r] = copy /\ \A i \in 1 .. p : h[i] = OnEvent(h[i - 1], sent[i])
      /\ \A j \in 1 .. r : h[p + j] = OnEvent(h[p + j - 1], C[m + j - 1].event)
  BY DEF Leads
<1> HIDE DEF last, D, r
<1>4. /\ g[0] = l /\ g[p + (r + 1)] = last /\ g[p + (r + 1) - 1] = copy
      /\ \A i \in 0 .. p + r : g[i] = h[i]
  BY <1>1, <1>3
<1> HIDE DEF g
<1>5. ASSUME NEW i \in 1 .. p PROVE g[i] = OnEvent(g[i - 1], sent[i])
  <2>1. i \in 0 .. p + r /\ i - 1 \in 0 .. p + r
    BY <1>1
  <2> QED
    BY <1>3, <1>4, <2>1
<1>6. ASSUME NEW j \in 1 .. (r + 1) PROVE g[p + j] = OnEvent(g[p + j - 1], D[m + j - 1].event)
  <2>1. CASE j = r + 1
    <3>1. D[m + j - 1] = n
      BY <1>1, <1>2, <2>1
    <3> QED
      BY <1>4, <2>1, <3>1 DEF last
  <2>2. CASE j # r + 1
    <3>1. j \in 1 .. r /\ p + j \in 0 .. p + r /\ p + j - 1 \in 0 .. p + r
      BY <1>1, <2>2
    <3>2. D[m + j - 1] = C[m + j - 1]
      BY <1>1, <1>2, <3>1
    <3>3. g[p + j] = h[p + j] /\ g[p + j - 1] = h[p + j - 1]
      BY <1>4, <3>1
    <3> QED
      BY <1>3, <3>1, <3>2, <3>3
  <2> QED
    BY <2>1, <2>2
<1>7. Leads(l, sent, D, m, g, last)
  BY <1>2, <1>4, <1>5, <1>6 DEF Leads
<1> QED
  BY <1>7 DEF last, D

\* The client receives an event.
LEMMA LeadsReceived ==
  ASSUME NEW l, NEW S, NEW sent \in Seq(S), sent # <<>>, NEW C, NEW m, NEW h, NEW copy,
         Len(C) \in Nat, m \in 1 .. Len(C) + 1, Leads(l, sent, C, m, h, copy)
  PROVE  \E g : Leads(OnEvent(l, Head(sent)), Tail(sent), C, m, g, copy)
<1> DEFINE p == Len(sent)
           r == Len(C) - m + 1
           t == Tail(sent)
           g == [i \in 0 .. p + r - 1 |-> h[i + 1]]
<1>1. /\ p \in Nat /\ p >= 1 /\ r \in Nat /\ Len(t) = p - 1 /\ Head(sent) = sent[1]
      /\ \A i \in 1 .. (p - 1) : t[i] = sent[i + 1]
  BY HeadTailProperties
<1>2. /\ h[0] = l /\ h[p + r] = copy /\ \A i \in 1 .. p : h[i] = OnEvent(h[i - 1], sent[i])
      /\ \A j \in 1 .. r : h[p + j] = OnEvent(h[p + j - 1], C[m + j - 1].event)
  BY DEF Leads
<1>3. h[1] = OnEvent(l, Head(sent))
  <2>1. 1 \in 1 .. p /\ 1 - 1 = 0
    BY <1>1
  <2> QED
    BY <1>1, <1>2, <2>1
<1> HIDE DEF t, r
<1>4. \A i \in 0 .. p + r - 1 : g[i] = h[i + 1]
  OBVIOUS
<1> HIDE DEF g
<1>5. g[0] = OnEvent(l, Head(sent))
  <2>1. 0 \in 0 .. p + r - 1 /\ 0 + 1 = 1
    BY <1>1
  <2> QED
    BY <1>3, <1>4, <2>1
<1>6. ASSUME NEW i \in 1 .. Len(t) PROVE g[i] = OnEvent(g[i - 1], t[i])
  <2>1. i \in 0 .. p + r - 1 /\ i - 1 \in 0 .. p + r - 1 /\ (i - 1) + 1 = i /\ i + 1 \in 1 .. p /\ (i + 1) - 1 = i
    BY <1>1
  <2>2. h[i + 1] = OnEvent(h[i], sent[i + 1])
    BY <1>2, <2>1
  <2>3. g[i] = h[i + 1] /\ g[i - 1] = h[i] /\ t[i] = sent[i + 1]
    BY <1>1, <1>4, <2>1
  <2> QED
    BY <2>2, <2>3
<1>7. ASSUME NEW j \in 1 .. r PROVE g[Len(t) + j] = OnEvent(g[Len(t) + j - 1], C[m + j - 1].event)
  <2>1. /\ Len(t) + j \in 0 .. p + r - 1 /\ (Len(t) + j) + 1 = p + j
        /\ Len(t) + j - 1 \in 0 .. p + r - 1 /\ (Len(t) + j - 1) + 1 = p + j - 1
    BY <1>1
  <2> QED
    BY <1>2, <1>4, <2>1
<1>8. g[Len(t) + r] = copy
  <2>1. Len(t) + r \in 0 .. p + r - 1 /\ (Len(t) + r) + 1 = p + r
    BY <1>1
  <2> QED
    BY <1>2, <1>4, <2>1
<1>9. Leads(OnEvent(l, Head(sent)), t, C, m, g, copy)
  BY <1>5, <1>6, <1>7, <1>8 DEF Leads, r
<1> QED
  BY <1>9 DEF t

\* The oldest call that had not come to the client has come to it.
LEMMA LeadsCome ==
  ASSUME NEW l, NEW S, NEW sent \in Seq(S), NEW C, NEW m, NEW h, NEW copy, Leads(l, sent, C, m, h, copy),
         Len(C) \in Nat, m \in 1 .. Len(C), NEW D, Len(D) \in Nat, SayTheSame(C, m, D, m), C[m].event \in S
  PROVE  Leads(l, Append(sent, C[m].event), D, m + 1, h, copy)
<1> DEFINE p == Len(sent)
           r == Len(C) - m + 1
           more == Append(sent, C[m].event)
<1>1. /\ p \in Nat /\ r \in Nat /\ r >= 1 /\ Len(more) = p + 1 /\ more[p + 1] = C[m].event
      /\ \A i \in 1 .. p : more[i] = sent[i]
  OBVIOUS
<1>2. /\ h[0] = l /\ h[p + r] = copy /\ \A i \in 1 .. p : h[i] = OnEvent(h[i - 1], sent[i])
      /\ \A j \in 1 .. r : h[p + j] = OnEvent(h[p + j - 1], C[m + j - 1].event)
  BY DEF Leads
<1>3. Len(D) = Len(C) /\ \A j \in 1 .. r : D[m + j - 1].event = C[m + j - 1].event
  <2>1. Len(D) - m = Len(C) - m /\ m \in Int
    BY DEF SayTheSame
  <2>2. Len(D) = Len(C)
    BY <2>1
  <2>3. \A j \in 1 .. r : D[m + j - 1].event = C[m + j - 1].event
    BY DEF SayTheSame
  <2> QED
    BY <2>2, <2>3
<1>0. Len(D) - (m + 1) + 1 = r - 1 /\ (p + 1) + (r - 1) = p + r
  BY <1>1, <1>3
<1> HIDE DEF more, r
<1>4. ASSUME NEW i \in 1 .. Len(more) PROVE h[i] = OnEvent(h[i - 1], more[i])
  <2>1. CASE i = p + 1
    <3>1. 1 \in 1 .. r /\ p + 1 - 1 = i - 1 /\ m + 1 - 1 = m
      BY <1>1, <2>1
    <3>2. h[p + 1] = OnEvent(h[i - 1], C[m].event)
      BY <1>2, <3>1
    <3> QED
      BY <1>1, <2>1, <3>2
  <2>2. CASE i # p + 1
    <3>1. i \in 1 .. p
      BY <1>1, <2>2
    <3> QED
      BY <1>1, <1>2, <3>1
  <2> QED
    BY <2>1, <2>2
<1>5. ASSUME NEW j \in 1 .. (r - 1)
      PROVE  h[Len(more) + j] = OnEvent(h[Len(more) + j - 1], D[(m + 1) + j - 1].event)
  <2>1. j + 1 \in 1 .. r /\ Len(more) + j = p + (j + 1) /\ (m + 1) + j - 1 = m + (j + 1) - 1
    BY <1>1
  <2>2. h[p + (j + 1)] = OnEvent(h[p + (j + 1) - 1], C[m + (j + 1) - 1].event)
    BY <1>2, <2>1
  <2>3. D[m + (j + 1) - 1].event = C[m + (j + 1) - 1].event
    BY <1>3, <2>1
  <2> QED
    BY <2>1, <2>2, <2>3, SMTT(30)
<1>6. h[Len(more) + (r - 1)] = copy
  BY <1>0, <1>1, <1>2
<1>7. Leads(l, more, D, m + 1, h, copy)
  BY <1>0, <1>2, <1>4, <1>5, <1>6 DEF Leads
<1> QED
  BY <1>7 DEF more

-----------------------------------------------------------------------------
(* The calls in progress. *)

LEMMA StopIs ==
  ASSUME SyTypes, NEW i \in Nat, NEW j
  PROVE  j \in StopsAfter(i) <=> j \in DOMAIN monitors /\ j > i /\ monitors[j] \in Connected
<1>1. DOMAIN monitors = 1 .. Len(monitors) /\ Len(monitors) \in Nat
  BY DEF SyTypes
<1> QED
  BY <1>1 DEF StopsAfter

\* A call goes on to the next client that is connected, if there is one.
GoesOn(n, stop) ==
    /\ stop \in StopsAfter(n.at) /\ \A j \in StopsAfter(n.at) : stop <= j
    /\ GoOn(n).next = <<[n EXCEPT !.at = stop]>>
    /\ GoOn(n).channel = [channel EXCEPT ![monitors[stop]] = Append(@, n.event)]

GoesNowhere(n) == StopsAfter(n.at) = {} /\ GoOn(n).next = <<>> /\ GoOn(n).channel = channel

LEMMA GoOnIs ==
  ASSUME SyTypes, NEW n, n.at \in Nat
  PROVE  GoesNowhere(n) \/ \E stop : GoesOn(n, stop)
<1> DEFINE stops == StopsAfter(n.at)
           stop == CHOOSE j \in stops : \A k \in stops : j <= k
<1>1. CASE stops = {}
  BY <1>1 DEF GoOn, GoesNowhere
<1>2. CASE stops # {}
  <2>1. stops \in SUBSET Nat
    <3>1. Len(monitors) \in Nat
      BY DEF SyTypes
    <3> QED
      BY <3>1 DEF StopsAfter
  <2>2. \E x \in stops : \A y \in stops : x <= y
    <3> HIDE DEF stops
    <3> QED
      BY <1>2, <2>1, LeastNat
  <2>3. stop \in stops /\ \A k \in stops : stop <= k
    BY <2>2
  <2>4. /\ GoOn(n).next = <<[n EXCEPT !.at = stop]>>
        /\ GoOn(n).channel = [channel EXCEPT ![monitors[stop]] = Append(@, n.event)]
    BY <1>2 DEF GoOn
  <2> HIDE DEF stop
  <2> QED
    BY <2>3, <2>4 DEF GoesOn
<1> QED
  BY <1>1, <1>2

\* f is what is left of the first calls, up to n of them, without those of client c.
ThinsBy(calls, c, n, f) ==
    f = [k \in 0 .. n |-> IF k = 0 THEN <<>>
                          ELSE IF calls[k].by = c THEN f[k - 1] ELSE Append(f[k - 1], calls[k])]

Thins(calls, c, f, k) == f[k] = IF calls[k].by = c THEN f[k - 1] ELSE Append(f[k - 1], calls[k])

LEMMA ThinsSteps ==
  ASSUME NEW calls, NEW c, NEW n \in Nat, NEW f, ThinsBy(calls, c, n, f)
  PROVE  f[0] = <<>> /\ \A k \in 1 .. n : Thins(calls, c, f, k)
<1>1. \A k \in 0 .. n : f[k] = IF k = 0 THEN <<>>
                               ELSE IF calls[k].by = c THEN f[k - 1] ELSE Append(f[k - 1], calls[k])
  BY DEF ThinsBy
<1> QED
  BY <1>1 DEF Thins

LEMMA ThinsExist ==
  ASSUME NEW calls, NEW c
  PROVE  \A n \in Nat : \E f : ThinsBy(calls, c, n, f)
<1> DEFINE S == {n \in Nat : \E f : ThinsBy(calls, c, n, f)}
<1>1. 0 \in S
  <2>1. ThinsBy(calls, c, 0, [k \in 0 .. 0 |-> <<>>])
    BY DEF ThinsBy
  <2> QED
    BY <2>1
<1>2. ASSUME NEW m \in Nat, m \in S PROVE m + 1 \in S
  <2>1. PICK f : ThinsBy(calls, c, m, f)
    BY <1>2
  <2> DEFINE last == IF calls[m + 1].by = c THEN f[m] ELSE Append(f[m], calls[m + 1])
             g == [k \in 0 .. m + 1 |-> IF k = m + 1 THEN last ELSE f[k]]
  <2>2. f[0] = <<>> /\ \A k \in 1 .. m : Thins(calls, c, f, k)
    BY <2>1, ThinsSteps
  <2> HIDE DEF last
  <2>3. ASSUME NEW k \in 0 .. m + 1
        PROVE  g[k] = IF k = 0 THEN <<>> ELSE IF calls[k].by = c THEN g[k - 1] ELSE Append(g[k - 1], calls[k])
    <3>1. CASE k = m + 1
      <4>1. g[k] = last /\ g[k - 1] = f[m] /\ k # 0
        BY <3>1
      <4> QED
        BY <3>1, <4>1 DEF last
    <3>2. CASE k # m + 1 /\ k # 0
      <4>1. k \in 1 .. m /\ g[k] = f[k] /\ g[k - 1] = f[k - 1]
        BY <3>2
      <4>2. f[k] = IF calls[k].by = c THEN f[k - 1] ELSE Append(f[k - 1], calls[k])
        BY <2>2, <4>1 DEF Thins
      <4> HIDE DEF g
      <4> QED
        BY <3>2, <4>1, <4>2
    <3>3. CASE k = 0
      BY <2>2, <3>3
    <3> QED
      BY <3>1, <3>2, <3>3
  <2>4. ThinsBy(calls, c, m + 1, g)
    <3>1. g = [k \in 0 .. m + 1 |-> g[k]]
      OBVIOUS
    <3> HIDE DEF g
    <3> QED
      BY <2>3, <3>1 DEF ThinsBy
  <2> QED
    BY <2>4
<1> HIDE DEF S
<1>3. Nat \subseteq S
  BY <1>1, <1>2, AllNat
<1> QED
  BY <1>3 DEF S

LEMMA NotByIs ==
  ASSUME NEW calls, NEW c, NEW n \in Nat, Len(calls) = n
  PROVE  \E f : ThinsBy(calls, c, n, f) /\ NotBy(calls, c) = f[n]
<1> DEFINE f == CHOOSE f : ThinsBy(calls, c, Len(calls), f)
<1>1. ThinsBy(calls, c, n, f)
  BY ThinsExist
<1>2. NotBy(calls, c) = f[n]
  BY DEF NotBy, ThinsBy
<1> HIDE DEF f
<1> QED
  BY <1>1, <1>2

InOrder(calls) == \A j, k \in DOMAIN calls : j < k => calls[j].at >= calls[k].at

\* r has some of the first k calls of q, in order.
Thin(q, k, r) ==
    /\ r \in Seq(SyncCalls) /\ \A i \in 1 .. Len(r) : \E j \in 1 .. k : r[i] = q[j]
    /\ \A i, j \in 1 .. Len(r) : i < j => r[i].at >= r[j].at

\* And of those from the m-th on it has all.
ThinTail(q, m, k, r) ==
    \E z \in Nat :
        /\ Len(r) = z + (k - m + 1) /\ \A j \in 1 .. (k - m + 1) : r[z + j] = q[m + j - 1]
        /\ \A i \in 1 .. z : \E j \in 1 .. (m - 1) : r[i] = q[j]

LEMMA AppendThin ==
  ASSUME NEW q \in Seq(SyncCalls), InOrder(q), NEW k \in Nat, k + 1 <= Len(q), NEW r, Thin(q, k, r)
  PROVE  Thin(q, k + 1, r) /\ Thin(q, k + 1, Append(r, q[k + 1]))
<1> DEFINE s == Append(r, q[k + 1])
           n == Len(r)
<1>1. r \in Seq(SyncCalls) /\ \A i \in 1 .. n : \E j \in 1 .. k : r[i] = q[j]
  BY DEF Thin
<1>2. k + 1 \in 1 .. Len(q) /\ q[k + 1] \in SyncCalls /\ DOMAIN q = 1 .. Len(q) /\ Len(q) \in Nat
  OBVIOUS
<1>3. s \in Seq(SyncCalls) /\ Len(s) = n + 1 /\ s[n + 1] = q[k + 1] /\ \A i \in 1 .. n : s[i] = r[i]
  BY <1>1, <1>2
<1>4. \A i \in 1 .. n : \E j \in 1 .. (k + 1) : r[i] = q[j]
  BY <1>1
<1>5. Thin(q, k + 1, r)
  BY <1>4 DEF Thin
<1> HIDE DEF s
<1>6. ASSUME NEW i \in 1 .. Len(s) PROVE \E j \in 1 .. (k + 1) : s[i] = q[j]
  <2>1. CASE i = n + 1
    BY <1>2, <1>3, <2>1
  <2>2. CASE i # n + 1
    <3>1. i \in 1 .. n
      BY <1>1, <1>3, <2>2
    <3> QED
      BY <1>3, <1>4, <3>1
  <2> QED
    BY <2>1, <2>2
<1>7. ASSUME NEW i \in 1 .. Len(s), NEW j \in 1 .. Len(s), i < j PROVE s[i].at >= s[j].at
  <2>1. n \in Nat /\ i \in 1 .. n
    BY <1>1, <1>3, <1>7
  <2>2. CASE j = n + 1
    <3>1. PICK x \in 1 .. k : r[i] = q[x]
      BY <1>1, <2>1
    <3>2. x \in DOMAIN q /\ k + 1 \in DOMAIN q /\ x < k + 1
      BY <1>2
    <3>3. q[x].at >= q[k + 1].at
      BY <3>2 DEF InOrder
    <3> QED
      BY <1>3, <2>1, <2>2, <3>1, <3>3
  <2>3. CASE j # n + 1
    <3>1. j \in 1 .. n
      BY <1>3, <2>1, <2>3
    <3> QED
      BY <1>3, <1>7, <2>1, <3>1 DEF Thin
  <2> QED
    BY <2>2, <2>3
<1>8. Thin(q, k + 1, s)
  BY <1>3, <1>6, <1>7 DEF Thin
<1> QED
  BY <1>5, <1>8 DEF s

LEMMA AppendThinTail ==
  ASSUME NEW q, NEW r \in Seq(SyncCalls), NEW k \in Nat, NEW m \in Nat \ {0}, k >= m - 1,
         ThinTail(q, m, k, r), q[k + 1] \in SyncCalls
  PROVE  ThinTail(q, m, k + 1, Append(r, q[k + 1]))
<1> DEFINE s == Append(r, q[k + 1])
<1>1. PICK z \in Nat :
          /\ Len(r) = z + (k - m + 1) /\ \A j \in 1 .. (k - m + 1) : r[z + j] = q[m + j - 1]
          /\ \A i \in 1 .. z : \E j \in 1 .. (m - 1) : r[i] = q[j]
  BY DEF ThinTail
<1>2. Len(s) = Len(r) + 1 /\ s[Len(r) + 1] = q[k + 1] /\ \A i \in 1 .. Len(r) : s[i] = r[i]
  OBVIOUS
<1> HIDE DEF s
<1>3. Len(s) = z + ((k + 1) - m + 1)
  BY <1>1, <1>2
<1>4. ASSUME NEW j \in 1 .. ((k + 1) - m + 1) PROVE s[z + j] = q[m + j - 1]
  <2>1. CASE j = (k + 1) - m + 1
    <3>1. z + j = Len(r) + 1 /\ m + j - 1 = k + 1
      BY <1>1, <2>1
    <3> QED
      BY <1>2, <3>1
  <2>2. CASE j # (k + 1) - m + 1
    <3>1. j \in 1 .. (k - m + 1) /\ z + j \in 1 .. Len(r)
      BY <1>1, <2>2
    <3> QED
      BY <1>1, <1>2, <3>1
  <2> QED
    BY <2>1, <2>2
<1>5. ASSUME NEW i \in 1 .. z PROVE \E j \in 1 .. (m - 1) : s[i] = q[j]
  <2>1. i \in 1 .. Len(r)
    BY <1>1
  <2> QED
    BY <1>1, <1>2, <2>1
<1>6. ThinTail(q, m, k + 1, s)
  BY <1>3, <1>4, <1>5 DEF ThinTail
<1> QED
  BY <1>6 DEF s

LEMMA NotByThins ==
  ASSUME NEW q \in Seq(SyncCalls), InOrder(q), NEW c
  PROVE  /\ Thin(q, Len(q), NotBy(q, c))
         /\ \A m \in 1 .. (Len(q) + 1) :
                (\A k \in m .. Len(q) : q[k].by # c) => ThinTail(q, m, Len(q), NotBy(q, c))
<1> DEFINE n == Len(q)
<1>0. n \in Nat /\ \A k \in 1 .. n : q[k] \in SyncCalls
  OBVIOUS
<1>1. PICK f : ThinsBy(q, c, n, f) /\ NotBy(q, c) = f[n]
  BY <1>0, NotByIs
<1>2. f[0] = <<>> /\ \A k \in 1 .. n : Thins(q, c, f, k)
  BY <1>0, <1>1, ThinsSteps
<1> DEFINE S == {k \in Nat : k <= n => Thin(q, k, f[k])}
<1>3. 0 \in S
  <2>1. <<>> \in Seq(SyncCalls) /\ Len(<<>>) = 0 /\ 1 .. 0 = {}
    OBVIOUS
  <2>2. Thin(q, 0, <<>>)
    BY <2>1 DEF Thin
  <2> QED
    BY <1>2, <2>2
<1>4. ASSUME NEW k \in Nat, k \in S PROVE k + 1 \in S
  <2> SUFFICES ASSUME k + 1 <= n PROVE Thin(q, k + 1, f[k + 1])
    OBVIOUS
  <2>1. k <= n /\ k + 1 \in 1 .. n /\ (k + 1) - 1 = k
    BY <1>0
  <2>2. Thin(q, k, f[k])
    BY <1>4, <2>1
  <2>3. Thin(q, k + 1, f[k]) /\ Thin(q, k + 1, Append(f[k], q[k + 1]))
    BY <2>2, AppendThin
  <2>4. f[k + 1] = IF q[k + 1].by = c THEN f[k] ELSE Append(f[k], q[k + 1])
    BY <1>2, <2>1 DEF Thins
  <2> QED
    BY <2>3, <2>4
<1>5. \A k \in Nat : k <= n => Thin(q, k, f[k])
  <2> HIDE DEF S
  <2>1. Nat \subseteq S
    BY <1>3, <1>4, AllNat
  <2> QED
    BY <2>1 DEF S
<1>6. ASSUME NEW m \in 1 .. (n + 1), \A k \in m .. n : q[k].by # c
      PROVE  ThinTail(q, m, n, f[n])
  <2> DEFINE T == {k \in Nat : k <= n /\ k >= m - 1 => ThinTail(q, m, k, f[k])}
  <2>1. \A k \in Nat : k <= n /\ k = m - 1 => ThinTail(q, m, k, f[k])
    <3> SUFFICES ASSUME NEW k \in Nat, k <= n, k = m - 1 PROVE ThinTail(q, m, k, f[k])
      OBVIOUS
    <3>1. f[k] \in Seq(SyncCalls) /\ \A i \in 1 .. Len(f[k]) : \E j \in 1 .. k : f[k][i] = q[j]
      BY <1>5 DEF Thin
    <3>2. Len(f[k]) \in Nat /\ Len(f[k]) = Len(f[k]) + (k - m + 1) /\ 1 .. (k - m + 1) = {} /\ m - 1 = k
      BY <3>1
    <3> QED
      BY <3>1, <3>2 DEF ThinTail
  <2>2. 0 \in T
    <3>1. 0 \in Nat /\ (0 >= m - 1 => 0 = m - 1)
      OBVIOUS
    <3> QED
      BY <2>1, <3>1
  <2>3. ASSUME NEW k \in Nat, k \in T PROVE k + 1 \in T
    <3> SUFFICES ASSUME k + 1 <= n, k + 1 >= m - 1 PROVE ThinTail(q, m, k + 1, f[k + 1])
      OBVIOUS
    <3>1. CASE k + 1 = m - 1
      BY <2>1, <3>1
    <3>2. CASE k + 1 # m - 1
      <4>1. k <= n /\ k >= m - 1 /\ k + 1 \in m .. n /\ k + 1 \in 1 .. n /\ (k + 1) - 1 = k /\ m \in Nat \ {0}
        BY <1>0, <3>2
      <4>2. ThinTail(q, m, k, f[k]) /\ f[k] \in Seq(SyncCalls) /\ q[k + 1] \in SyncCalls
        BY <1>0, <1>5, <2>3, <4>1 DEF Thin
      <4>3. f[k + 1] = Append(f[k], q[k + 1])
        BY <1>2, <1>6, <4>1 DEF Thins
      <4> QED
        BY <4>1, <4>2, <4>3, AppendThinTail
    <3> QED
      BY <3>1, <3>2
  <2> HIDE DEF T
  <2>4. n \in T
    BY <1>0, <2>2, <2>3, AllNat
  <2> QED
    BY <1>0, <2>4 DEF T
<1> QED
  BY <1>0, <1>1, <1>5, <1>6

\* Call k of q has been replaced, or has ended.
\* The k-th of q gives way to n.
With(q, k, n) == SubSeq(q, 1, k - 1) \o <<n>> \o SubSeq(q, k + 1, Len(q))

IsWith(r, q, k, n) == Len(r) = Len(q) /\ \A j \in 1 .. Len(q) : r[j] = IF j = k THEN n ELSE q[j]

LEMMA Replaced ==
  ASSUME NEW S, NEW q \in Seq(S), NEW k \in 1 .. Len(q), NEW n \in S
  PROVE  With(q, k, n) \in Seq(S) /\ IsWith(With(q, k, n), q, k, n)
<1> DEFINE a == SubSeq(q, 1, k - 1)
           b == SubSeq(q, k + 1, Len(q))
<1>1. /\ a \in Seq(S) /\ Len(a) = k - 1 /\ \A j \in 1 .. (k - 1) : a[j] = q[j]
      /\ b \in Seq(S) /\ Len(b) = Len(q) - k /\ \A j \in 1 .. (Len(q) - k) : b[j] = q[k + j]
  OBVIOUS
<1> HIDE DEF a, b
<1>2. /\ a \o <<n>> \in Seq(S) /\ Len(a \o <<n>>) = k
      /\ \A j \in 1 .. k : (a \o <<n>>)[j] = IF j = k THEN n ELSE a[j]
  BY <1>1
<1> DEFINE d == a \o <<n>>
<1> HIDE DEF d
<1>5. d \in Seq(S) /\ Len(d) = k
  BY <1>2 DEF d
<1>3. d \o b \in Seq(S) /\ Len(d \o b) = Len(q) /\ \A j \in 1 .. Len(q) : (d \o b)[j] = IF j <= k THEN d[j] ELSE b[j - k]
  <2>1. d \o b \in Seq(S) /\ Len(d \o b) = Len(d) + Len(b)
        /\ \A j \in 1 .. Len(d) + Len(b) : (d \o b)[j] = IF j <= Len(d) THEN d[j] ELSE b[j - Len(d)]
    BY <1>1, <1>5, ConcatProperties
  <2>2. Len(d) + Len(b) = Len(q)
    BY <1>1, <1>5
  <2> QED
    BY <1>5, <2>1, <2>2
<1>4. ASSUME NEW j \in 1 .. Len(q) PROVE (d \o b)[j] = IF j = k THEN n ELSE q[j]
  <2>1. CASE j <= k
    <3>1. j \in 1 .. k /\ (j # k => j \in 1 .. (k - 1))
      BY <2>1
    <3>2. d[j] = IF j = k THEN n ELSE a[j]
      BY <1>2, <3>1 DEF d
    <3> QED
      BY <1>1, <1>3, <2>1, <3>1, <3>2
  <2>2. CASE ~(j <= k)
    <3>1. j - k \in 1 .. (Len(q) - k) /\ k + (j - k) = j
      BY <2>2
    <3>2. (d \o b)[j] = b[j - k]
      BY <1>3, <2>2
    <3>3. b[j - k] = q[j]
      BY <1>1, <3>1
    <3> QED
      BY <2>2, <3>2, <3>3
  <2> QED
    BY <2>1, <2>2
<1>6. With(q, k, n) = d \o b
  BY DEF With, a, b, d
<1> QED
  BY <1>3, <1>4, <1>6 DEF IsWith



LEMMA Dropped ==
  ASSUME NEW S, NEW q \in Seq(S), NEW k \in 1 .. Len(q)
  PROVE  LET r == SubSeq(q, 1, k - 1) \o <<>> \o SubSeq(q, k + 1, Len(q))
         IN  r \in Seq(S) /\ Len(r) = Len(q) - 1 /\ \A j \in 1 .. (Len(q) - 1) : r[j] = IF j < k THEN q[j] ELSE q[j + 1]
<1> DEFINE a == SubSeq(q, 1, k - 1)
           b == SubSeq(q, k + 1, Len(q))
<1>1. /\ a \in Seq(S) /\ Len(a) = k - 1 /\ \A j \in 1 .. (k - 1) : a[j] = q[j]
      /\ b \in Seq(S) /\ Len(b) = Len(q) - k /\ \A j \in 1 .. (Len(q) - k) : b[j] = q[k + j]
  OBVIOUS
<1> HIDE DEF a, b
<1>2. a \o <<>> = a
  BY <1>1, ConcatEmptySeq
<1>3. /\ a \o b \in Seq(S) /\ Len(a \o b) = Len(q) - 1
      /\ \A j \in 1 .. (Len(q) - 1) : (a \o b)[j] = IF j <= k - 1 THEN a[j] ELSE b[j - (k - 1)]
  <2>1. a \o b \in Seq(S) /\ Len(a \o b) = Len(a) + Len(b)
        /\ \A j \in 1 .. Len(a) + Len(b) : (a \o b)[j] = IF j <= Len(a) THEN a[j] ELSE b[j - Len(a)]
    BY <1>1, ConcatProperties
  <2>2. Len(a) + Len(b) = Len(q) - 1
    BY <1>1
  <2> QED
    BY <1>1, <2>1, <2>2
<1>4. ASSUME NEW j \in 1 .. (Len(q) - 1) PROVE (a \o b)[j] = IF j < k THEN q[j] ELSE q[j + 1]
  <2>1. CASE j < k
    <3>1. j \in 1 .. (k - 1)
      BY <2>1
    <3> QED
      BY <1>1, <1>3, <2>1, <3>1
  <2>2. CASE ~(j < k)
    <3>1. j - (k - 1) \in 1 .. (Len(q) - k) /\ k + (j - (k - 1)) = j + 1 /\ ~(j <= k - 1)
      BY <2>2
    <3> QED
      BY <1>1, <1>3, <2>2, <3>1
  <2> QED
    BY <2>1, <2>2
<1> QED
  BY <1>2, <1>3, <1>4 DEF a, b

LEMMA Inserted ==
  ASSUME NEW S, NEW q \in Seq(S), NEW k \in 1 .. (Len(q) + 1), NEW n \in S
  PROVE  /\ InsertAt(q, k, n) \in Seq(S) /\ Len(InsertAt(q, k, n)) = Len(q) + 1
         /\ \A j \in 1 .. (Len(q) + 1) :
                InsertAt(q, k, n)[j] = IF j = k THEN n ELSE IF j < k THEN q[j] ELSE q[j - 1]
<1> DEFINE a == SubSeq(q, 1, k - 1)
           b == SubSeq(q, k, Len(q))
           d == a \o <<n>>
<1>1. /\ a \in Seq(S) /\ Len(a) = k - 1 /\ \A j \in 1 .. (k - 1) : a[j] = q[j]
      /\ b \in Seq(S) /\ Len(b) = Len(q) - k + 1 /\ \A j \in 1 .. (Len(q) - k + 1) : b[j] = q[k + j - 1]
  OBVIOUS
<1> HIDE DEF a, b
<1>2. /\ d \in Seq(S) /\ Len(d) = k
      /\ \A j \in 1 .. k : d[j] = IF j = k THEN n ELSE a[j]
  BY <1>1
<1> HIDE DEF d
<1>5. d \in Seq(S) /\ Len(d) = k
  BY <1>2
<1>3. d \o b \in Seq(S) /\ Len(d \o b) = Len(q) + 1
      /\ \A j \in 1 .. (Len(q) + 1) : (d \o b)[j] = IF j <= k THEN d[j] ELSE b[j - k]
  <2>1. d \o b \in Seq(S) /\ Len(d \o b) = Len(d) + Len(b)
        /\ \A j \in 1 .. Len(d) + Len(b) : (d \o b)[j] = IF j <= Len(d) THEN d[j] ELSE b[j - Len(d)]
    BY <1>1, <1>5, ConcatProperties
  <2>2. Len(d) + Len(b) = Len(q) + 1
    BY <1>1, <1>2
  <2> QED
    BY <1>2, <2>1, <2>2
<1>4. ASSUME NEW j \in 1 .. (Len(q) + 1)
      PROVE  (d \o b)[j] = IF j = k THEN n ELSE IF j < k THEN q[j] ELSE q[j - 1]
  <2>1. CASE j <= k
    <3>1. j \in 1 .. k /\ (j # k => j < k /\ j \in 1 .. (k - 1))
      BY <2>1
    <3> QED
      BY <1>1, <1>2, <1>3, <2>1, <3>1
  <2>2. CASE ~(j <= k)
    <3>1. j - k \in 1 .. (Len(q) - k + 1) /\ k + (j - k) - 1 = j - 1 /\ j # k /\ ~(j < k)
      BY <2>2
    <3> QED
      BY <1>1, <1>3, <2>2, <3>1
  <2> QED
    BY <2>1, <2>2
<1>6. InsertAt(q, k, n) = d \o b
  BY DEF InsertAt, a, b, d
<1> QED
  BY <1>3, <1>4, <1>6

-----------------------------------------------------------------------------
(* The steps of a client. *)

LEMMA ClientSteps ==
  ASSUME SyInv, NEW c \in Connected, UNCHANGED <<serverVars, monitors, clients, notifying, untold, disturbed>>,
         NEW ch \in Seq(SyncEvents \cup Replies), NEW x, IsSync(x), NEW l, IsLocal(l),
         channel' = [channel EXCEPT ![c] = ch], sync' = [sync EXCEPT ![c] = x], local' = [local EXCEPT ![c] = l],
         x.pc # "none",
         \A i \in DOMAIN ch : ch[i].kind \in ReplyKinds =>
             x.pc = "waiting" /\ \A j \in DOMAIN ch \ {i} : ch[j].kind \notin ReplyKinds,
         c \notin disturbed /\ x.pc # "synced" =>
             /\ notifying = <<>> /\ l = Nobody /\ KnowsRest(x)
             /\ ch = IF x.pc = "waiting" THEN <<Reply(Head(x.todo))>> ELSE <<>>,
         c \notin untold \cup disturbed /\ x.pc = "synced" =>
             \E m \in 1 .. (Len(notifying) + 1) : ComeFrom(c, m) /\ \E h : Leads(l, ch, notifying, m, h, ServerCopy)
  PROVE  SyInv'
<1>1. UNCHANGED <<order, info, monitors, clients, notifying, untold, disturbed>>
  BY DEF serverVars
<1>2. Connected' = Connected /\ Connected \subseteq Clients /\ Registered' = Registered /\ ServerCopy' = ServerCopy
  BY <1>1 DEF Connected, Registered, ServerCopy
<1>3. c \in Clients
  BY <1>2
<1>4. /\ channel'[c] = ch /\ \A d \in Clients \ {c} : channel'[d] = channel[d]
      /\ sync'[c] = x /\ \A d \in Clients \ {c} : sync'[d] = sync[d]
      /\ local'[c] = l /\ \A d \in Clients \ {c} : local'[d] = local[d]
  BY <1>3 DEF SyInv, SyTypes
<1>5. SyTypes'
  <2>1. channel' \in [Clients -> Seq(SyncEvents \cup Replies)]
    BY <1>3 DEF SyInv, SyTypes
  <2>2. DOMAIN sync' = Clients /\ sync' = [d \in Clients |-> sync'[d]] /\ \A d \in Clients : IsSync(sync'[d])
    BY <1>3, <1>4 DEF SyInv, SyTypes
  <2>3. DOMAIN local' = Clients /\ local' = [d \in Clients |-> local'[d]] /\ \A d \in Clients : IsLocal(local'[d])
    BY <1>3, <1>4 DEF SyInv, SyTypes
  <2> QED
    BY <1>1, <2>1, <2>2, <2>3 DEF SyInv, SyTypes
<1>6. OrderInv' /\ MonitorsInv' /\ CallsInOrder'
  BY <1>1, <1>2 DEF SyInv, OrderInv, MonitorsInv, CallsInOrder
<1>7. OneReply'
  <2> SUFFICES ASSUME NEW d \in Clients, NEW i \in DOMAIN channel'[d], channel'[d][i].kind \in ReplyKinds
               PROVE  /\ sync'[d].pc = "waiting"
                      /\ \A j \in DOMAIN channel'[d] \ {i} : channel'[d][j].kind \notin ReplyKinds
    BY DEF OneReply
  <2>1. CASE d = c
    BY <1>4, <2>1
  <2>2. CASE d # c
    BY <1>4, <2>2 DEF SyInv, OneReply
  <2> QED
    BY <2>1, <2>2
<1>8. AbsentInv'
  <2>1. \A d \in Clients : IF d \in Connected THEN sync'[d].pc # "none"
                           ELSE sync'[d] = NotSyncing /\ local'[d] = Nobody /\ channel'[d] = <<>>
    BY <1>4 DEF SyInv, AbsentInv
  <2> QED
    BY <1>2, <2>1 DEF AbsentInv
<1>9. PeaceInv'
  <2> SUFFICES ASSUME NEW d \in Connected \ disturbed, sync'[d].pc # "synced" PROVE SyncsInPeace(d)'
    BY <1>1, <1>2 DEF PeaceInv
  <2>3. CASE d = c
    <3>1. notifying' = <<>> /\ local'[d] = Nobody /\ KnowsRest(sync'[d])
          /\ channel'[d] = IF sync'[d].pc = "waiting" THEN <<Reply(Head(sync'[d].todo))>> ELSE <<>>
      BY <1>1, <1>4, <2>3
    <3>2. \A y : KnowsRest(y)' <=> KnowsRest(y)
      BY <1>1 DEF KnowsRest, Registered
    <3>3. \A y : Reply(y)' = Reply(y)
      BY <1>1 DEF Reply
    <3> QED
      BY <3>1, <3>2, <3>3 DEF SyncsInPeace
  <2>4. CASE d # c
    <3>1. sync'[d] = sync[d] /\ local'[d] = local[d] /\ channel'[d] = channel[d] /\ notifying' = notifying
      BY <1>1, <1>2, <1>4, <2>4
    <3>2. SyncsInPeace(d)
      BY <3>1 DEF SyInv, PeaceInv
    <3> QED
      BY <1>1, <1>2, <3>1, <3>2 DEF SyncsInPeace, KnowsRest, Reply
  <2> QED
    BY <2>3, <2>4
<1>10. FollowInv'
  <2> SUFFICES ASSUME NEW d \in Connected \ (untold \cup disturbed), sync'[d].pc = "synced" PROVE Follows(d)'
    BY <1>1, <1>2 DEF FollowInv
  <2>1. \A m : ComeFrom(d, m)' <=> ComeFrom(d, m)
    BY <1>1 DEF ComeFrom
  <2>2a. PICK m \in 1 .. (Len(notifying) + 1) :
            ComeFrom(d, m) /\ \E h : Leads(local'[d], channel'[d], notifying, m, h, ServerCopy)
    <3>1. CASE d = c
      BY <1>4, <3>1
    <3>2. CASE d # c
      <4>1. sync'[d] = sync[d] /\ local'[d] = local[d] /\ channel'[d] = channel[d]
        BY <1>2, <1>4, <3>2
      <4>2. Follows(d)
        BY <4>1 DEF SyInv, FollowInv
      <4> QED
        BY <4>1, <4>2 DEF Follows
    <3> QED
      BY <3>1, <3>2
  <2>2. PICK h : ComeFrom(d, m) /\ Leads(local'[d], channel'[d], notifying, m, h, ServerCopy)
    BY <2>2a
  <2>3. Leads(local'[d], channel'[d], notifying', m, h, ServerCopy') /\ ComeFrom(d, m)'
        /\ m \in 1 .. (Len(notifying') + 1)
    BY <1>1, <1>2, <2>1, <2>2
  <2> QED
    BY <2>3 DEF Follows
<1> QED
  BY <1>5, <1>6, <1>7, <1>8, <1>9, <1>10 DEF SyInv

LEMMA SyncIs ==
  ASSUME SyInv, NEW c \in Clients
  PROVE  /\ IsSync(sync[c]) /\ IsLocal(local[c]) /\ channel[c] \in Seq(SyncEvents \cup Replies)
         /\ sync[c].pc # "none" \/ channel[c] # <<>> => c \in Connected
<1>1. NotSyncing.pc = "none"
  BY DEF NotSyncing
<1> QED
  BY <1>1 DEF SyInv, SyTypes, AbsentInv

\* One field of a copy is replaced by what another copy has.
LEMMA OneField ==
  ASSUME NEW r \in Copies, NEW other \in Copies, NEW q \in Fields, NEW v, v = other[q]
  PROVE  /\ [r EXCEPT ![q] = v] \in Copies
         /\ \A p \in Fields : [r EXCEPT ![q] = v][p] = IF p = q THEN v ELSE r[p]
<1>1. PICK a, b, d : r = [state |-> a, messages |-> b, headline |-> d]
  BY CopyFields
<1>2. /\ a \in States /\ d \in Headlines \cup {NULL}
      /\ b \in Seq([text : Texts, count : Nat \ {0}]) /\ Len(b) <= MaxMessages
  BY <1>1, CopyFields
<1>3. PICK a2, b2, d2 : other = [state |-> a2, messages |-> b2, headline |-> d2]
  BY CopyFields
<1>4. /\ a2 \in States /\ d2 \in Headlines \cup {NULL}
      /\ b2 \in Seq([text : Texts, count : Nat \ {0}]) /\ Len(b2) <= MaxMessages
  BY <1>3, CopyFields
<1>5. CASE q = "state"
  <2>1. [r EXCEPT ![q] = v] = [state |-> v, messages |-> b, headline |-> d] /\ v = a2
    BY <1>1, <1>3, <1>5
  <2> QED
    BY <1>1, <1>2, <1>4, <1>5, <2>1 DEF Fields, Copies, StateRecords
<1>6. CASE q = "messages"
  <2>1. [r EXCEPT ![q] = v] = [state |-> a, messages |-> v, headline |-> d] /\ v = b2
    BY <1>1, <1>3, <1>6
  <2> QED
    BY <1>1, <1>2, <1>4, <1>6, <2>1 DEF Fields, Copies, StateRecords
<1>7. CASE q = "headline"
  <2>1. [r EXCEPT ![q] = v] = [state |-> a, messages |-> b, headline |-> v] /\ v = d2
    BY <1>1, <1>3, <1>7
  <2> QED
    BY <1>1, <1>2, <1>4, <1>7, <2>1 DEF Fields, Copies, StateRecords
<1> QED
  BY <1>5, <1>6, <1>7 DEF Fields

LEMMA ReplyIs ==
  ASSUME SyTypes, NEW q \in Asked(Services) \cup {TheList}
  PROVE  /\ Reply(q) \in Replies /\ Reply(q).kind \in ReplyKinds
         /\ q = TheList => Reply(q).kind = "list" /\ Reply(q).names = order
         /\ q # TheList => /\ q.query \in Fields /\ q.service \in Services /\ Reply(q).kind = "reply"
                           /\ Reply(q).query = q.query /\ Reply(q).value[q.query] = info[q.service][q.query]
<1>1. CASE q = TheList
  <2>1. Reply(q) = [kind |-> "list", names |-> order]
    BY <1>1 DEF Reply, TheList
  <2> QED
    BY <1>1, <2>1 DEF SyTypes, Replies, ReplyKinds
<1>2. CASE q # TheList
  <2>1. q.query \in Fields /\ q.service \in Services /\ q.query # "list"
    BY <1>2 DEF Asked, Fields
  <2>2. info[q.service] \in Copies
    BY <2>1 DEF SyTypes
  <2> DEFINE v == [New EXCEPT ![q.query] = info[q.service][q.query]]
  <2>3. v \in Copies /\ v[q.query] = info[q.service][q.query]
    <3>1. PICK f : f = q.query
      OBVIOUS
    <3>2. PICK w : w = info[q.service][f]
      OBVIOUS
    <3>3. [New EXCEPT ![f] = w] \in Copies /\ \A p \in Fields : [New EXCEPT ![f] = w][p] = IF p = f THEN w ELSE New[p]
      BY <2>1, <2>2, <3>1, <3>2, NewIsACopy, OneField
    <3>4. v = [New EXCEPT ![f] = w]
      BY <3>1, <3>2
    <3> QED
      BY <2>1, <3>1, <3>2, <3>3, <3>4
  <2>4. Reply(q) = [kind |-> "reply", query |-> q.query, value |-> v]
    BY <2>1 DEF Reply
  <2> HIDE DEF v
  <2> QED
    BY <1>2, <2>1, <2>3, <2>4 DEF Replies, ReplyKinds
<1> QED
  BY <1>1, <1>2

LEMMA AnswerInv ==
  ASSUME SyInv, NEW c \in Clients, Answer(c)
  PROVE  SyInv'
<1> DEFINE todo == sync[c].todo
           rep == Reply(Head(todo))
           ch == Append(channel[c], rep)
           x == [pc |-> "waiting", names |-> sync[c].names, todo |-> todo, info |-> sync[c].info]
<1>1. /\ sync[c].pc = "asking" /\ channel' = [channel EXCEPT ![c] = ch]
      /\ sync' = [sync EXCEPT ![c].pc = "waiting"]
      /\ UNCHANGED <<serverVars, monitors, clients, notifying, local, untold, disturbed>>
  BY DEF Answer
<1>2. IsSync(sync[c]) /\ IsLocal(local[c]) /\ channel[c] \in Seq(SyncEvents \cup Replies) /\ c \in Connected
  BY <1>1, SyncIs
<1>3. todo \in Seq(Asked(Services) \cup {TheList}) /\ todo # <<>>
  BY <1>1, <1>2 DEF IsSync
<1>4. rep \in Replies /\ rep.kind \in ReplyKinds
  <2>1. Head(todo) \in Asked(Services) \cup {TheList}
    BY <1>3
  <2> QED
    BY <2>1, ReplyIs DEF SyInv
<1>5. IsSync(x) /\ x.pc = "waiting" /\ x.todo = todo
  BY <1>2, <1>3 DEF IsSync
<1>6. sync' = [sync EXCEPT ![c] = x]
  <2>1. [sync[c] EXCEPT !.pc = "waiting"] = x
    BY <1>2 DEF IsSync
  <2> QED
    BY <1>1, <2>1
<1>7. local' = [local EXCEPT ![c] = local[c]]
  BY <1>1 DEF SyInv, SyTypes
<1> HIDE DEF rep, todo, x
<1>8. ch \in Seq(SyncEvents \cup Replies) /\ DOMAIN ch = 1 .. (Len(channel[c]) + 1) /\ ch[Len(channel[c]) + 1] = rep
      /\ \A i \in 1 .. Len(channel[c]) : ch[i] = channel[c][i]
  BY <1>2, <1>4
<1>9. \A i \in DOMAIN channel[c] : channel[c][i].kind \notin ReplyKinds
  BY <1>1 DEF SyInv, OneReply
<1>10. ASSUME NEW i \in DOMAIN ch, ch[i].kind \in ReplyKinds
       PROVE  x.pc = "waiting" /\ \A j \in DOMAIN ch \ {i} : ch[j].kind \notin ReplyKinds
  <2>0. DOMAIN channel[c] = 1 .. Len(channel[c]) /\ Len(channel[c]) \in Nat
    BY <1>2
  <2>1. \A j \in DOMAIN ch : j # Len(channel[c]) + 1 => j \in DOMAIN channel[c]
    BY <1>8, <2>0
  <2>2. \A j \in DOMAIN ch : j # Len(channel[c]) + 1 => ch[j].kind \notin ReplyKinds
    BY <1>8, <1>9, <2>0, <2>1
  <2> QED
    BY <1>5, <1>10, <2>2
<1>11. c \notin disturbed =>
             /\ notifying = <<>> /\ local[c] = Nobody /\ KnowsRest(x)
             /\ ch = <<Reply(Head(x.todo))>>
  <2> SUFFICES ASSUME c \notin disturbed
               PROVE  notifying = <<>> /\ local[c] = Nobody /\ KnowsRest(x) /\ ch = <<Reply(Head(x.todo))>>
    OBVIOUS
  <2>1. SyncsInPeace(c)
    BY <1>1, <1>2 DEF SyInv, PeaceInv
  <2>2. channel[c] = <<>>
    BY <1>1, <2>1 DEF SyncsInPeace
  <2>3. ch = <<rep>>
    BY <2>2
  <2>4. KnowsRest(x)
    BY <1>1, <2>1 DEF SyncsInPeace, KnowsRest, x, todo
  <2> QED
    BY <1>5, <2>1, <2>3, <2>4 DEF SyncsInPeace, rep
<1> HIDE DEF ch
<1>12. c \notin disturbed /\ x.pc # "synced" =>
             /\ notifying = <<>> /\ local[c] = Nobody /\ KnowsRest(x)
             /\ ch = IF x.pc = "waiting" THEN <<Reply(Head(x.todo))>> ELSE <<>>
  BY <1>5, <1>11
<1>13. x.pc # "none" /\ x.pc # "synced"
  BY <1>5
<1>14. UNCHANGED <<serverVars, monitors, clients, notifying, untold, disturbed>>
  BY <1>1
<1>15. channel' = [channel EXCEPT ![c] = ch]
  BY <1>1
<1> QED
  BY <1>2, <1>5, <1>6, <1>7, <1>8, <1>10, <1>12, <1>13, <1>14, <1>15, ClientSteps

LEMMA RestOfChannel ==
  ASSUME SyInv, NEW c \in Clients, channel[c] # <<>>
  PROVE  /\ Tail(channel[c]) \in Seq(SyncEvents \cup Replies) /\ Head(channel[c]) \in SyncEvents \cup Replies
         /\ \A i \in DOMAIN Tail(channel[c]) : Tail(channel[c])[i].kind \in ReplyKinds =>
                /\ Head(channel[c]).kind \notin ReplyKinds /\ sync[c].pc = "waiting"
                /\ \A j \in DOMAIN Tail(channel[c]) \ {i} : Tail(channel[c])[j].kind \notin ReplyKinds
         /\ Head(channel[c]).kind \in ReplyKinds => sync[c].pc = "waiting" /\ Head(channel[c]) \in Replies
         /\ Head(channel[c]).kind \notin ReplyKinds => Head(channel[c]) \in SyncEvents
<1> DEFINE q == channel[c]
           t == Tail(channel[c])
<1>1. q \in Seq(SyncEvents \cup Replies)
  BY SyncIs
<1>2. /\ t \in Seq(SyncEvents \cup Replies) /\ Head(q) = q[1] /\ Head(q) \in SyncEvents \cup Replies
      /\ DOMAIN q = 1 .. Len(q) /\ Len(q) \in Nat /\ Len(q) >= 1 /\ DOMAIN t = 1 .. (Len(q) - 1)
      /\ \A i \in 1 .. (Len(q) - 1) : t[i] = q[i + 1]
  BY <1>1, HeadTailProperties
<1>3. \A i \in DOMAIN q : q[i].kind \in ReplyKinds =>
          sync[c].pc = "waiting" /\ \A j \in DOMAIN q \ {i} : q[j].kind \notin ReplyKinds
  BY DEF SyInv, OneReply
<1> HIDE DEF q, t
<1>4. ASSUME NEW i \in DOMAIN t, t[i].kind \in ReplyKinds
      PROVE  /\ Head(q).kind \notin ReplyKinds /\ sync[c].pc = "waiting"
             /\ \A j \in DOMAIN t \ {i} : t[j].kind \notin ReplyKinds
  <2>1. i + 1 \in DOMAIN q /\ q[i + 1].kind \in ReplyKinds /\ 1 \in DOMAIN q \ {i + 1}
    BY <1>2, <1>4
  <2>2. sync[c].pc = "waiting" /\ \A j \in DOMAIN q \ {i + 1} : q[j].kind \notin ReplyKinds
    BY <1>3, <2>1
  <2>3. \A j \in DOMAIN t \ {i} : j + 1 \in DOMAIN q \ {i + 1} /\ t[j] = q[j + 1]
    BY <1>2
  <2> QED
    BY <1>2, <2>1, <2>2, <2>3
<1>5. Head(q).kind \in ReplyKinds => sync[c].pc = "waiting"
  <2>1. 1 \in DOMAIN q
    BY <1>2
  <2> QED
    BY <1>2, <1>3, <2>1
<1>6. (Head(q).kind \in ReplyKinds => Head(q) \in Replies) /\ (Head(q).kind \notin ReplyKinds => Head(q) \in SyncEvents)
  <2>1. \A e \in SyncEvents : e.kind \notin ReplyKinds
    BY EventFields
  <2>2. \A e \in Replies : e.kind \in ReplyKinds
    BY DEF Replies, ReplyKinds
  <2> QED
    BY <1>2, <2>1, <2>2
<1> QED
  BY <1>2, <1>4, <1>5, <1>6 DEF q, t

LEMMA ReceiveEventInv ==
  ASSUME SyInv, NEW c \in Clients, ReceiveEvent(c)
  PROVE  SyInv'
<1> DEFINE e == Head(channel[c])
           ch == Tail(channel[c])
           l == OnEvent(local[c], e)
<1>1. /\ channel[c] # <<>> /\ e.kind \notin ReplyKinds
      /\ local' = [local EXCEPT ![c] = l] /\ channel' = [channel EXCEPT ![c] = ch]
      /\ UNCHANGED <<serverVars, monitors, clients, notifying, sync, untold, disturbed>>
  BY DEF ReceiveEvent, ReplyKinds, OnEvent
<1>2. /\ IsSync(sync[c]) /\ IsLocal(local[c]) /\ channel[c] \in Seq(SyncEvents \cup Replies) /\ c \in Connected
      /\ sync[c].pc # "none"
  BY <1>1, SyncIs DEF SyInv, AbsentInv
<1>3. /\ ch \in Seq(SyncEvents \cup Replies) /\ e \in SyncEvents
      /\ \A i \in DOMAIN ch : ch[i].kind \in ReplyKinds =>
             sync[c].pc = "waiting" /\ \A j \in DOMAIN ch \ {i} : ch[j].kind \notin ReplyKinds
  BY <1>1, RestOfChannel
<1>4. IsLocal(l)
  BY <1>2, <1>3, EventKeepsLocal
<1>5. sync' = [sync EXCEPT ![c] = sync[c]]
  BY <1>1 DEF SyInv, SyTypes
<1>6. ~(c \notin disturbed /\ sync[c].pc # "synced")
  <2> SUFFICES ASSUME c \notin disturbed, sync[c].pc # "synced" PROVE FALSE
    OBVIOUS
  <2>1. SyncsInPeace(c)
    BY <1>2 DEF SyInv, PeaceInv
  <2>2. sync[c].pc = "waiting" /\ channel[c] = <<Reply(Head(sync[c].todo))>>
    BY <1>1, <2>1 DEF SyncsInPeace
  <2>3. Head(sync[c].todo) \in Asked(Services) \cup {TheList}
    BY <1>2, <2>2 DEF IsSync
  <2>4. Reply(Head(sync[c].todo)).kind \in ReplyKinds
    BY <2>3, ReplyIs DEF SyInv
  <2>5. e = Reply(Head(sync[c].todo))
    BY <2>2
  <2> QED
    BY <1>1, <2>4, <2>5
<1>7. ASSUME c \notin untold \cup disturbed, sync[c].pc = "synced"
      PROVE  \E m \in 1 .. (Len(notifying) + 1) : ComeFrom(c, m) /\ \E h : Leads(l, ch, notifying, m, h, ServerCopy)
  <2>1a. PICK m \in 1 .. (Len(notifying) + 1) :
            ComeFrom(c, m) /\ \E h : Leads(local[c], channel[c], notifying, m, h, ServerCopy)
    BY <1>2, <1>7 DEF SyInv, FollowInv, Follows
  <2>1. PICK h : ComeFrom(c, m) /\ Leads(local[c], channel[c], notifying, m, h, ServerCopy)
    BY <2>1a
  <2>2. Len(notifying) \in Nat
    BY DEF SyInv, SyTypes
  <2>3. \E g : Leads(l, ch, notifying, m, g, ServerCopy)
    BY <1>1, <1>2, <2>1, <2>2, LeadsReceived
  <2> QED
    BY <2>1, <2>3
<1> HIDE DEF e, ch, l
<1> QED
  BY <1>1, <1>2, <1>3, <1>4, <1>5, <1>6, <1>7, ClientSteps

\* What is asked of a server that has only registered services is answered by it.
LEMMA KnowsMore ==
  ASSUME SyTypes, OrderInv, NEW x, KnowsRest(x), IsSync(x), x.pc = "waiting", NEW q, q = Head(x.todo),
         NEW y, y.names = IF q = TheList THEN order ELSE x.names,
         y.todo = IF q = TheList THEN Questions(order) ELSE Tail(x.todo),
         y.info = IF q = TheList THEN x.info
                  ELSE [x.info EXCEPT ![q.service] = [x.info[q.service] EXCEPT ![q.query] = info[q.service][q.query]]],
         y.pc = IF y.todo = <<>> THEN "built" ELSE "asking"
  PROVE  KnowsRest(y)
<1>1. x.todo \in Seq(Asked(Services) \cup {TheList}) /\ x.todo # <<>> /\ x.info \in [Services -> Copies]
  BY DEF IsSync
<1>2. /\ x.todo = <<q>> \o Tail(x.todo) /\ ToSet(x.todo) = {q} \cup ToSet(Tail(x.todo)) /\ q \in ToSet(x.todo)
  <2>1. /\ DOMAIN x.todo = 1 .. Len(x.todo) /\ Len(x.todo) \in Nat /\ Len(x.todo) >= 1 /\ q = x.todo[1]
        /\ DOMAIN Tail(x.todo) = 1 .. (Len(x.todo) - 1)
        /\ \A i \in 1 .. (Len(x.todo) - 1) : Tail(x.todo)[i] = x.todo[i + 1]
    BY <1>1, HeadTailProperties
  <2>2. ToSet(x.todo) \subseteq {q} \cup ToSet(Tail(x.todo))
    <3> SUFFICES ASSUME NEW i \in DOMAIN x.todo, i # 1 PROVE x.todo[i] \in ToSet(Tail(x.todo))
      BY <2>1 DEF ToSet
    <3>1. i - 1 \in 1 .. (Len(x.todo) - 1) /\ (i - 1) + 1 = i
      BY <2>1, SMTT(30)
    <3>2. Tail(x.todo)[i - 1] = x.todo[i] /\ i - 1 \in DOMAIN Tail(x.todo)
      BY <2>1, <3>1
    <3> QED
      BY <3>2 DEF ToSet
  <2>3. {q} \cup ToSet(Tail(x.todo)) \subseteq ToSet(x.todo)
    <3>0. 1 \in DOMAIN x.todo
      BY <2>1
    <3>1. q \in ToSet(x.todo)
      <4>1. x.todo[1] \in ToSet(x.todo)
        BY <3>0 DEF ToSet
      <4> QED
        BY <2>1, <4>1
    <3>2. ASSUME NEW i \in DOMAIN Tail(x.todo) PROVE Tail(x.todo)[i] \in ToSet(x.todo)
      <4>1. i + 1 \in DOMAIN x.todo /\ Tail(x.todo)[i] = x.todo[i + 1]
        BY <2>1, SMTT(30)
      <4> QED
        BY <4>1 DEF ToSet
    <3> QED
      BY <3>1, <3>2 DEF ToSet
  <2>4. x.todo = <<q>> \o Tail(x.todo)
    BY <1>1
  <2> QED
    BY <2>2, <2>3, <2>4
<1>3. order \in Seq(Services) /\ Registered \subseteq Services
  BY DEF SyTypes, Registered, ToSet
<1>4. TheList \notin Asked(Services)
  BY DEF TheList, Asked, Fields
<1>5. CASE x.todo = <<TheList>> /\ x.info = [s \in Services |-> New]
  <2>1. q = TheList
    BY <1>5
  <2>2. Questions(order) \in Seq(Asked(Registered))
        /\ \A s \in Registered, p \in Fields : [query |-> p, service |-> s] \in ToSet(Questions(order))
    BY <1>3, QuestionsAre DEF Registered
  <2>3. ToSet(Questions(order)) \subseteq Asked(Registered)
    BY <2>2 DEF ToSet
  <2>4. y.pc = "built" => y.todo = <<>>
    OBVIOUS
  <2> QED
    BY <1>5, <2>1, <2>2, <2>3, <2>4 DEF KnowsRest
<1>6. CASE /\ x.names = order /\ ToSet(x.todo) \subseteq Asked(Registered)
           /\ \A s \in Registered, p \in Fields :
                 x.info[s][p] = info[s][p] \/ [query |-> p, service |-> s] \in ToSet(x.todo)
  <2>1. q \in Asked(Registered) /\ q # TheList
    BY <1>2, <1>3, <1>4, <1>6 DEF Asked
  <2>2. PICK f \in Fields, t \in Registered : q = [query |-> f, service |-> t]
    BY <2>1 DEF Asked
  <2>3. PICK w : w = info[t][f]
    OBVIOUS
  <2> DEFINE r == x.info[t]
  <2>4. r \in Copies /\ info[t] \in Copies /\ t \in Services
    BY <1>1, <1>3 DEF SyTypes
  <2>5. \A p \in Fields : [r EXCEPT ![f] = w][p] = IF p = f THEN w ELSE r[p]
    <3> HIDE DEF r
    <3>1. PICK o \in Copies : o = info[t]
      BY <2>4
    <3>2. PICK old \in Copies : old = r
      BY <2>4
    <3>3. w = o[f] /\ f \in Fields
      BY <2>2, <2>3, <3>1
    <3>4. [old EXCEPT ![f] = w] \in Copies
          /\ \A p \in Fields : [old EXCEPT ![f] = w][p] = IF p = f THEN w ELSE old[p]
      BY <3>1, <3>2, <3>3, OneField
    <3> QED
      BY <3>2, <3>4
  <2>6. y.info = [x.info EXCEPT ![t] = [r EXCEPT ![f] = w]] /\ y.todo = Tail(x.todo) /\ y.names = order
    BY <1>6, <2>1, <2>2, <2>3
  <2>7. y.info[t] = [r EXCEPT ![f] = w] /\ \A s \in Services \ {t} : y.info[s] = x.info[s]
    BY <1>1, <2>4, <2>6
  <2>8. \A s \in Services \ Registered : y.info[s] = New
    BY <2>7 DEF KnowsRest
  <2>9. ASSUME NEW s \in Registered, NEW p \in Fields
        PROVE  y.info[s][p] = info[s][p] \/ [query |-> p, service |-> s] \in ToSet(y.todo)
    <3>1. CASE s = t /\ p = f
      BY <2>3, <2>5, <2>7, <3>1
    <3>2. CASE ~(s = t /\ p = f)
      <4>1. [query |-> p, service |-> s] # q
        BY <2>2, <3>2
      <4>2. x.info[s][p] = info[s][p] \/ [query |-> p, service |-> s] \in ToSet(y.todo)
        BY <1>2, <1>6, <2>6, <4>1
      <4>3. y.info[s][p] = x.info[s][p]
        <5>1. CASE s = t
          BY <2>5, <2>7, <3>2, <5>1
        <5>2. CASE s # t
          BY <1>3, <2>7, <5>2
        <5> QED
          BY <5>1, <5>2
      <4> QED
        BY <4>2, <4>3
    <3> QED
      BY <3>1, <3>2
  <2>10. ToSet(y.todo) \subseteq Asked(Registered)
    BY <1>2, <1>6, <2>6
  <2> QED
    BY <2>6, <2>8, <2>9, <2>10 DEF KnowsRest
<1> QED
  BY <1>5, <1>6 DEF KnowsRest

LEMMA ReceiveReplyInv ==
  ASSUME SyInv, NEW c \in Clients, ReceiveReply(c)
  PROVE  SyInv'
<1> DEFINE m == Head(channel[c])
           ch == Tail(channel[c])
           q == Head(sync[c].todo)
           names == IF m.kind = "list" THEN m.names ELSE sync[c].names
           todo == IF m.kind = "list" THEN Questions(m.names) ELSE Tail(sync[c].todo)
           known == IF m.kind = "list" THEN sync[c].info
                    ELSE [sync[c].info EXCEPT ![q.service][m.query] = m.value[m.query]]
           x == [pc |-> IF todo = <<>> THEN "built" ELSE "asking", names |-> names, todo |-> todo, info |-> known]
<1>1. /\ channel[c] # <<>> /\ m.kind \in ReplyKinds
      /\ sync' = [sync EXCEPT ![c] = x] /\ channel' = [channel EXCEPT ![c] = ch]
      /\ UNCHANGED <<serverVars, monitors, clients, notifying, local, untold, disturbed>>
  BY DEF ReceiveReply, ReplyKinds
<1>2. IsSync(sync[c]) /\ IsLocal(local[c]) /\ channel[c] \in Seq(SyncEvents \cup Replies) /\ c \in Connected
  BY <1>1, SyncIs
<1>3. /\ ch \in Seq(SyncEvents \cup Replies) /\ m \in Replies /\ sync[c].pc = "waiting"
      /\ \A i \in DOMAIN ch : ch[i].kind \notin ReplyKinds
  BY <1>1, RestOfChannel
<1>4. sync[c].todo \in Seq(Asked(Services) \cup {TheList}) /\ sync[c].todo # <<>> /\ sync[c].info \in [Services -> Copies]
  BY <1>2, <1>3 DEF IsSync
<1>5. known = IF m.kind = "list" THEN sync[c].info
              ELSE [sync[c].info EXCEPT ![q.service] = [sync[c].info[q.service] EXCEPT ![m.query] = m.value[m.query]]]
  OBVIOUS
<1>6. known \in [Services -> Copies]
  <2>1. CASE m.kind = "list"
    BY <1>4, <2>1
  <2>2. CASE m.kind # "list"
    <3>1. m.query \in Fields /\ m.value \in Copies
      BY <1>3, <2>2 DEF Replies
    <3>2. CASE q.service \in Services
      <4>1. PICK f, w : f = m.query /\ w = m.value[f]
        OBVIOUS
      <4>2. sync[c].info[q.service] \in Copies
        BY <1>4, <3>2
      <4>3. [sync[c].info[q.service] EXCEPT ![f] = w] \in Copies
        BY <3>1, <4>1, <4>2, OneField
      <4> QED
        BY <1>4, <1>5, <2>2, <3>2, <4>1, <4>3
    <3>3. CASE q.service \notin Services
      <4>1. known = sync[c].info
        BY <1>4, <1>5, <2>2, <3>3
      <4> QED
        BY <1>4, <4>1
    <3> QED
      BY <3>2, <3>3
  <2> QED
    BY <2>1, <2>2
<1>7. todo \in Seq(Asked(Services) \cup {TheList})
  <2>1. CASE m.kind = "list"
    <3>1. m.names \in Seq(Services)
      BY <1>3, <2>1 DEF Replies
    <3>2. Questions(m.names) \in Seq(Asked(ToSet(m.names)))
      BY <3>1, QuestionsAre
    <3>3. Asked(ToSet(m.names)) \subseteq Asked(Services) \cup {TheList}
      BY <3>1 DEF Asked, ToSet
    <3>4. Questions(m.names) \in Seq(Asked(Services) \cup {TheList})
      BY <3>2, <3>3, SeqMonotonic
    <3> QED
      BY <2>1, <3>4
  <2>2. CASE m.kind # "list"
    BY <1>4, <2>2
  <2> QED
    BY <2>1, <2>2
<1>8. ASSUME c \notin disturbed
      PROVE  notifying = <<>> /\ local[c] = Nobody /\ KnowsRest(x) /\ ch = <<>>
  <2>1. SyncsInPeace(c)
    BY <1>2, <1>3, <1>8 DEF SyInv, PeaceInv
  <2>2. KnowsRest(sync[c]) /\ channel[c] = <<Reply(q)>>
    BY <1>3, <2>1 DEF SyncsInPeace
  <2>3. m = Reply(q) /\ ch = <<>>
    BY <2>2
  <2>4. q \in Asked(Services) \cup {TheList}
    BY <1>4
  <2>5. /\ q = TheList => m.kind = "list" /\ m.names = order
        /\ q # TheList => m.kind = "reply" /\ m.query = q.query /\ m.value[q.query] = info[q.service][q.query]
    BY <2>3, <2>4, ReplyIs DEF SyInv
  <2>6. /\ x.names = IF q = TheList THEN order ELSE sync[c].names
        /\ x.todo = IF q = TheList THEN Questions(order) ELSE Tail(sync[c].todo)
        /\ x.pc = IF x.todo = <<>> THEN "built" ELSE "asking"
    BY <2>5
  <2>7. x.info = IF q = TheList THEN sync[c].info
                 ELSE [sync[c].info EXCEPT ![q.service] = [sync[c].info[q.service] EXCEPT ![q.query] = info[q.service][q.query]]]
    BY <1>5, <2>5
  <2>8. KnowsRest(x)
    <3>1. PICK s, p, y : s = sync[c] /\ p = q /\ y = x
      OBVIOUS
    <3> HIDE DEF x, q
    <3>2. KnowsRest(y)
      BY <1>2, <1>3, <2>2, <2>6, <2>7, <3>1, KnowsMore DEF SyInv, q
    <3> QED
      BY <3>1, <3>2
  <2> QED
    BY <2>1, <2>3, <2>8 DEF SyncsInPeace
<1>9. IsSync(x) /\ x.pc \in {"built", "asking"}
  <2>1. x.pc = "asking" => x.todo # <<>>
    OBVIOUS
  <2>2. x.pc \in {"built", "asking"} /\ x.info = known /\ x.todo = todo
    OBVIOUS
  <2>3. x = [pc |-> x.pc, names |-> x.names, todo |-> x.todo, info |-> x.info]
    OBVIOUS
  <2> HIDE DEF x, known, todo
  <2> QED
    BY <1>6, <1>7, <2>1, <2>2, <2>3 DEF IsSync
<1>10. local' = [local EXCEPT ![c] = local[c]]
  BY <1>1 DEF SyInv, SyTypes
<1> HIDE DEF x, ch
<1>11. c \notin disturbed /\ x.pc # "synced" =>
             /\ notifying = <<>> /\ local[c] = Nobody /\ KnowsRest(x)
             /\ ch = IF x.pc = "waiting" THEN <<Reply(Head(x.todo))>> ELSE <<>>
  BY <1>8, <1>9
<1>12. x.pc # "none" /\ x.pc # "synced"
  BY <1>9
<1>13. UNCHANGED <<serverVars, monitors, clients, notifying, untold, disturbed>>
  BY <1>1
<1>14. channel' = [channel EXCEPT ![c] = ch] /\ sync' = [sync EXCEPT ![c] = x]
  BY <1>1
<1>15. \A i \in DOMAIN ch : ch[i].kind \in ReplyKinds =>
             x.pc = "waiting" /\ \A j \in DOMAIN ch \ {i} : ch[j].kind \notin ReplyKinds
  BY <1>3
<1> QED
  BY <1>2, <1>3, <1>9, <1>10, <1>11, <1>12, <1>13, <1>14, <1>15, ClientSteps

\* A client that has asked everything in peace has the server's state.
LEMMA KnowsAll ==
  ASSUME SyTypes, OrderInv, NEW x, KnowsRest(x), IsSync(x), x.pc = "built"
  PROVE  x.names = order /\ x.info = info
<1>1. /\ x.names = order /\ x.todo = <<>> /\ \A s \in Services \ Registered : x.info[s] = New
      /\ \A s \in Registered, q \in Fields :
            x.info[s][q] = info[s][q] \/ [query |-> q, service |-> s] \in ToSet(x.todo)
  BY DEF KnowsRest
<1>2. ToSet(x.todo) = {}
  BY <1>1 DEF ToSet
<1>3. ASSUME NEW s \in Services PROVE x.info[s] = info[s]
  <2>1. CASE s \in Registered
    <3>1. x.info[s] \in Copies /\ info[s] \in Copies
      BY DEF IsSync, SyTypes
    <3>2. PICK a, b, d : x.info[s] = [state |-> a, messages |-> b, headline |-> d]
      BY <3>1, CopyFields
    <3>3. PICK a2, b2, d2 : info[s] = [state |-> a2, messages |-> b2, headline |-> d2]
      BY <3>1, CopyFields
    <3>4. /\ x.info[s]["state"] = info[s]["state"] /\ x.info[s]["messages"] = info[s]["messages"]
          /\ x.info[s]["headline"] = info[s]["headline"]
      BY <1>1, <1>2, <2>1 DEF Fields
    <3>5. a = a2 /\ b = b2 /\ d = d2
      BY <3>2, <3>3, <3>4
    <3> QED
      BY <3>2, <3>3, <3>5
  <2>2. CASE s \notin Registered
    BY <1>1, <2>2 DEF OrderInv
  <2> QED
    BY <2>1, <2>2
<1>4. x.info = info
  BY <1>3 DEF IsSync, SyTypes
<1> QED
  BY <1>1, <1>4

LEMMA PopulateInv ==
  ASSUME SyInv, NEW c \in Clients, Populate(c)
  PROVE  SyInv'
<1> DEFINE n == sync[c].names
           old == local[c].map
           map == n \o SubSeq(old, Len(n) + 1, Len(old))
           l == [names |-> n, info |-> sync[c].info, map |-> map]
           x == [NotSyncing EXCEPT !.pc = "synced"]
<1>1. /\ sync[c].pc = "built" /\ local' = [local EXCEPT ![c] = l] /\ sync' = [sync EXCEPT ![c] = x]
      /\ UNCHANGED <<serverVars, monitors, clients, notifying, channel, untold, disturbed>>
  <2>1. sync[c].pc = "built"
        /\ UNCHANGED <<serverVars, monitors, clients, notifying, channel, untold, disturbed>>
        /\ sync' = [sync EXCEPT ![c] = x]
    BY DEF Populate
  <2>2. local' = [local EXCEPT ![c] = l]
    BY DEF Populate
  <2> QED
    BY <2>1, <2>2
<1>2. IsSync(sync[c]) /\ channel[c] \in Seq(SyncEvents \cup Replies) /\ c \in Connected
  BY <1>1, SyncIs
<1>3. IsLocal(l)
  BY <1>2 DEF IsSync, IsLocal
<1>4. x = [pc |-> "synced", names |-> <<>>, todo |-> <<>>, info |-> [s \in Services |-> New]]
  BY DEF NotSyncing
<1>5. IsSync(x) /\ x.pc = "synced"
  BY <1>4, NewIsACopy DEF IsSync
<1>6. \A i \in DOMAIN channel[c] : channel[c][i].kind \notin ReplyKinds
  BY <1>1 DEF SyInv, OneReply
<1>7. channel' = [channel EXCEPT ![c] = channel[c]]
  BY <1>1 DEF SyInv, SyTypes
<1>8. ASSUME c \notin disturbed
      PROVE  notifying = <<>> /\ channel[c] = <<>> /\ l = ServerCopy
  <2>1. SyncsInPeace(c)
    BY <1>1, <1>2, <1>8 DEF SyInv, PeaceInv
  <2>2. notifying = <<>> /\ channel[c] = <<>> /\ local[c] = Nobody /\ KnowsRest(sync[c])
    BY <1>1, <2>1 DEF SyncsInPeace
  <2>3. n = order /\ sync[c].info = info
    BY <1>1, <1>2, <2>2, KnowsAll DEF SyInv
  <2>4. old = <<>>
    BY <2>2 DEF Nobody
  <2>5. order \in Seq(Services)
    BY DEF SyInv, SyTypes
  <2>6. map = order
    <3>1. Len(order) \in Nat /\ Len(old) = 0
      BY <2>4, <2>5
    <3>2. SubSeq(old, Len(order) + 1, 0) = <<>>
      BY <3>1, <2>4
    <3>3. order \o <<>> = order
      BY <2>5, ConcatEmptySeq
    <3> QED
      BY <2>3, <3>1, <3>2, <3>3
  <2> QED
    BY <2>2, <2>3, <2>6 DEF ServerCopy
<1> HIDE DEF l, x, map
<1>9. ASSUME c \notin untold \cup disturbed, x.pc = "synced"
      PROVE  \E m \in 1 .. (Len(notifying) + 1) : ComeFrom(c, m) /\ \E h : Leads(l, channel[c], notifying, m, h, ServerCopy)
  <2>1. notifying = <<>> /\ channel[c] = <<>> /\ l = ServerCopy /\ Len(<<>>) = 0
    BY <1>8, <1>9
  <2>2. 1 \in 1 .. (Len(notifying) + 1) /\ ComeFrom(c, 1)
    BY <2>1 DEF ComeFrom
  <2>3. Leads(l, channel[c], notifying, 1, [i \in {0} |-> l], ServerCopy)
    <3> DEFINE h == [i \in {0} |-> l]
    <3>1. h[0] = l /\ 0 + (0 - 1 + 1) = 0 /\ 1 .. 0 = {} /\ 0 - 1 + 1 = 0
      OBVIOUS
    <3> HIDE DEF h
    <3> QED
      BY <2>1, <3>1 DEF Leads
  <2> QED
    BY <2>2, <2>3
<1>10. c \notin disturbed /\ x.pc # "synced" =>
             /\ notifying = <<>> /\ l = Nobody /\ KnowsRest(x)
             /\ channel[c] = IF x.pc = "waiting" THEN <<Reply(Head(x.todo))>> ELSE <<>>
  BY <1>5
<1>11. UNCHANGED <<serverVars, monitors, clients, notifying, untold, disturbed>>
  BY <1>1
<1>12. \A i \in DOMAIN channel[c] : channel[c][i].kind \in ReplyKinds =>
             x.pc = "waiting" /\ \A j \in DOMAIN channel[c] \ {i} : channel[c][j].kind \notin ReplyKinds
  BY <1>6
<1>13. x.pc # "none"
  BY <1>5
<1> QED
  BY <1>1, <1>2, <1>3, <1>5, <1>7, <1>9, <1>10, <1>11, <1>12, <1>13, ClientSteps

-----------------------------------------------------------------------------
(* The steps of the server. *)

LEMMA Positions ==
  ASSUME SyTypes, MonitorsInv
  PROVE  /\ Len(monitors) \in Nat /\ DOMAIN monitors = 1 .. Len(monitors)
         /\ \A i \in DOMAIN monitors : monitors[i] \in Clients
         /\ \A c \in Connected : \E i \in DOMAIN monitors : monitors[i] = c
         /\ \A i, j \in DOMAIN monitors : monitors[i] = monitors[j] => i = j
<1>1. Len(monitors) \in Nat /\ DOMAIN monitors = 1 .. Len(monitors) /\ \A i \in DOMAIN monitors : monitors[i] \in Clients
  BY DEF SyTypes
<1>2. \A c \in Connected : c \in ToSet(monitors)
  BY DEF MonitorsInv, Connected
<1> QED
  BY <1>1, <1>2 DEF MonitorsInv, ToSet, IsInjective

LEMMA CallIs ==
  ASSUME SyTypes, CallsInOrder, NEW k \in DOMAIN notifying
  PROVE  /\ DOMAIN notifying = 1 .. Len(notifying) /\ Len(notifying) \in Nat /\ notifying[k] \in SyncCalls
         /\ notifying[k] = [event |-> notifying[k].event, by |-> notifying[k].by, at |-> notifying[k].at]
         /\ notifying[k].event \in SyncEvents /\ notifying[k].by \in Clients
         /\ notifying[k].at \in DOMAIN monitors /\ monitors[notifying[k].at] \in Connected /\ notifying[k].at \in Nat
<1>1. DOMAIN notifying = 1 .. Len(notifying) /\ Len(notifying) \in Nat /\ notifying[k] \in SyncCalls
  BY DEF SyTypes
<1> QED
  BY <1>1 DEF CallsInOrder, SyncCalls

LEMMA ChangeInv ==
  ASSUME SyInv, NEW c \in Clients, NEW e \in SyncEvents, Change(c, e),
         order' \in Seq(Services), info' \in [Services -> Copies], OrderInv', OnEvent(ServerCopy, e) = ServerCopy'
  PROVE  SyInv'
<1> DEFINE start == [event |-> e, by |-> c, at |-> 0]
<1>1. /\ c \in Connected /\ changes' = changes + 1 /\ disturbed' = disturbed \cup Syncing
      /\ notifying' = notifying \o GoOn(start).next /\ channel' = GoOn(start).channel
      /\ UNCHANGED <<monitors, clients, sync, local, untold>>
  BY DEF Change, NotifyUpdate
<1>2. start.at = 0 /\ start.event = e /\ start.by = c
  OBVIOUS
<1>3. SyTypes /\ MonitorsInv /\ CallsInOrder
  BY DEF SyInv
<1>4. PICK stop : GoesOn(start, stop)
  <2>1. PICK i \in DOMAIN monitors : monitors[i] = c
    BY <1>1, <1>3, Positions
  <2>2. i \in StopsAfter(0)
    <3>1. i > 0
      BY <1>3, <2>1, Positions
    <3> QED
      BY <1>1, <1>3, <2>1, <3>1, StopIs
  <2>3. start.at \in Nat /\ ~GoesNowhere(start)
    BY <1>2, <2>2 DEF GoesNowhere
  <2> HIDE DEF start
  <2> QED
    BY <1>3, <2>3, GoOnIs
<1> DEFINE d == monitors[stop]
           n == [event |-> e, by |-> c, at |-> stop]
           ch == Append(channel[d], e)
<1>5. /\ stop \in DOMAIN monitors /\ stop > 0 /\ d \in Connected /\ d \in Clients /\ stop \in Nat
      /\ \A j \in DOMAIN monitors : monitors[j] \in Connected => stop <= j
  <2>1. stop \in StopsAfter(0) /\ \A j \in StopsAfter(0) : stop <= j
    BY <1>2, <1>4 DEF GoesOn
  <2>2. /\ stop \in DOMAIN monitors /\ stop > 0 /\ d \in Connected
        /\ \A j \in DOMAIN monitors : j > 0 /\ monitors[j] \in Connected => j \in StopsAfter(0)
    BY <1>3, <2>1, StopIs
  <2>3. d \in Clients /\ stop \in Nat /\ \A j \in DOMAIN monitors : j > 0
    BY <1>3, <2>2, Positions
  <2> QED
    BY <2>1, <2>2, <2>3
<1>6. /\ notifying' = Append(notifying, n) /\ channel' = [channel EXCEPT ![d] = ch]
  <2>1. GoOn(start).next = <<[start EXCEPT !.at = stop]>>
        /\ GoOn(start).channel = [channel EXCEPT ![d] = Append(@, e)]
    BY <1>2, <1>4 DEF GoesOn
  <2>2. [start EXCEPT !.at = stop] = n
    OBVIOUS
  <2> HIDE DEF start
  <2>3. notifying \in Seq(SyncCalls) /\ n \in SyncCalls
    BY <1>3, <1>5 DEF SyTypes, SyncCalls
  <2>4. channel' = [channel EXCEPT ![d] = ch]
    BY <1>1, <2>1
  <2>5. notifying' = notifying \o <<n>>
    BY <1>1, <2>1, <2>2
  <2> HIDE DEF n, d, ch
  <2>6. notifying' = Append(notifying, n)
    BY <2>3, <2>5, AppendIsConcat
  <2> QED
    BY <2>4, <2>6
<1> HIDE DEF start
<1>7. n \in SyncCalls /\ n.at = stop /\ n.event = e /\ n.by = c
  BY <1>5 DEF SyncCalls
<1>8. /\ notifying' \in Seq(SyncCalls) /\ Len(notifying') = Len(notifying) + 1 /\ Len(notifying) \in Nat
      /\ DOMAIN notifying = 1 .. Len(notifying) /\ DOMAIN notifying' = 1 .. (Len(notifying) + 1)
      /\ notifying'[Len(notifying) + 1] = n /\ \A k \in 1 .. Len(notifying) : notifying'[k] = notifying[k]
  <2>1. notifying \in Seq(SyncCalls)
    BY <1>3 DEF SyTypes
  <2> HIDE DEF n
  <2> QED
    BY <1>6, <1>7, <2>1
<1>9. /\ channel'[d] = ch /\ \A f \in Clients \ {d} : channel'[f] = channel[f]
      /\ channel[d] \in Seq(SyncEvents \cup Replies)
  BY <1>3, <1>5, <1>6 DEF SyTypes
<1>10. /\ ch \in Seq(SyncEvents \cup Replies) /\ DOMAIN ch = 1 .. (Len(channel[d]) + 1)
       /\ ch[Len(channel[d]) + 1] = e /\ \A i \in 1 .. Len(channel[d]) : ch[i] = channel[d][i]
       /\ DOMAIN channel[d] = 1 .. Len(channel[d]) /\ Len(channel[d]) \in Nat
  BY <1>9
<1> HIDE DEF ch, n, d
<1>11. Connected' = Connected /\ Connected \subseteq Clients
  BY <1>1 DEF Connected
<1>12. SyTypes'
  <2>1. channel' \in [Clients -> Seq(SyncEvents \cup Replies)]
    BY <1>3, <1>5, <1>6, <1>10 DEF SyTypes
  <2> QED
    BY <1>1, <1>3, <1>8, <2>1 DEF SyTypes
<1>13. MonitorsInv'
  BY <1>1, <1>3 DEF MonitorsInv
<1>14. \A k \in DOMAIN notifying : stop <= notifying[k].at
  BY <1>3, <1>5, CallIs
<1>15. CallsInOrder'
  <2>1. ASSUME NEW k \in DOMAIN notifying'
        PROVE  notifying'[k].at \in DOMAIN monitors' /\ monitors'[notifying'[k].at] \in Connected'
    <3>1. CASE k = Len(notifying) + 1
      BY <1>1, <1>5, <1>7, <1>8, <1>11, <3>1 DEF d
    <3>2. CASE k # Len(notifying) + 1
      <4>1. k \in DOMAIN notifying /\ notifying'[k] = notifying[k]
        BY <1>8, <3>2
      <4> QED
        BY <1>1, <1>3, <1>11, <4>1, CallIs
    <3> QED
      BY <3>1, <3>2
  <2>2. ASSUME NEW j \in DOMAIN notifying', NEW k \in DOMAIN notifying', j < k
        PROVE  notifying'[j].at >= notifying'[k].at
    <3>1. j \in DOMAIN notifying /\ notifying'[j] = notifying[j]
      BY <1>8, <2>2
    <3>2. CASE k = Len(notifying) + 1
      <4>1. notifying[j].at \in Nat /\ stop <= notifying[j].at
        BY <1>3, <1>14, <3>1, CallIs
      <4> QED
        BY <1>5, <1>7, <1>8, <3>1, <3>2, <4>1
    <3>3. CASE k # Len(notifying) + 1
      <4>1. k \in DOMAIN notifying /\ notifying'[k] = notifying[k]
        BY <1>8, <3>3
      <4> QED
        BY <1>3, <2>2, <3>1, <4>1 DEF CallsInOrder
    <3> QED
      BY <3>2, <3>3
  <2> QED
    BY <2>1, <2>2 DEF CallsInOrder
<1>16. e.kind \notin ReplyKinds
  BY EventFields
<1>17. OneReply'
  <2> SUFFICES ASSUME NEW f \in Clients, NEW i \in DOMAIN channel'[f], channel'[f][i].kind \in ReplyKinds
               PROVE  /\ sync[f].pc = "waiting"
                      /\ \A j \in DOMAIN channel'[f] \ {i} : channel'[f][j].kind \notin ReplyKinds
    BY <1>1 DEF OneReply
  <2>1. CASE f # d
    <3>1. channel'[f] = channel[f]
      BY <1>9, <2>1
    <3> QED
      BY <3>1 DEF SyInv, OneReply
  <2>2. CASE f = d
    <3>1. \A j \in DOMAIN channel'[f] : j # Len(channel[d]) + 1 => j \in DOMAIN channel[d] /\ channel'[f][j] = channel[d][j]
      BY <1>9, <1>10, <2>2
    <3>2. channel'[f][Len(channel[d]) + 1].kind \notin ReplyKinds
      BY <1>9, <1>10, <1>16, <2>2
    <3>3. i \in DOMAIN channel[d] /\ channel[d][i].kind \in ReplyKinds
      BY <3>1, <3>2
    <3>4. sync[d].pc = "waiting" /\ \A j \in DOMAIN channel[d] \ {i} : channel[d][j].kind \notin ReplyKinds
      BY <1>5, <3>3 DEF SyInv, OneReply
    <3> QED
      BY <2>2, <3>1, <3>2, <3>4
  <2> QED
    BY <2>1, <2>2
<1>18. AbsentInv'
  <2>1. \A f \in Clients : f \notin Connected => channel'[f] = channel[f]
    BY <1>5, <1>9
  <2>2. \A f \in Clients : IF f \in Connected THEN sync[f].pc # "none"
                           ELSE sync[f] = NotSyncing /\ local[f] = Nobody /\ channel'[f] = <<>>
    BY <2>1 DEF SyInv, AbsentInv
  <2> QED
    BY <1>1, <1>11, <2>2 DEF AbsentInv
<1>19. PeaceInv'
  BY <1>1, <1>11 DEF PeaceInv, Syncing
<1>20. FollowInv'
  <2> SUFFICES ASSUME NEW f \in Connected \ (untold \cup disturbed), sync[f].pc = "synced"
               PROVE  \E m \in 1 .. (Len(notifying') + 1) :
                          /\ ComeFrom(f, m)'
                          /\ \E h : Leads(local[f], channel'[f], notifying', m, h, OnEvent(ServerCopy, e))
    BY <1>1, <1>11 DEF FollowInv, Follows
  <2>1a. PICK m \in 1 .. (Len(notifying) + 1) :
            ComeFrom(f, m) /\ \E h : Leads(local[f], channel[f], notifying, m, h, ServerCopy)
    BY DEF SyInv, FollowInv, Follows
  <2>1. PICK h : ComeFrom(f, m) /\ Leads(local[f], channel[f], notifying, m, h, ServerCopy)
    BY <2>1a
  <2>2. PICK i \in DOMAIN monitors : monitors[i] = f /\ \A j \in DOMAIN monitors : monitors[j] = f => j = i
    BY <1>3, Positions
  <2>3. i \in Nat /\ stop <= i /\ m \in Nat
    BY <1>3, <1>5, <1>8, <2>1, <2>2, Positions
  <2>4. \A k \in DOMAIN notifying : notifying[k].at < i <=> k >= m
    BY <2>1, <2>2 DEF ComeFrom
  <2>5. \A x : (\A k \in DOMAIN notifying' : notifying'[k].at < i <=> k >= x) => ComeFrom(f, x)'
    BY <1>1, <2>2 DEF ComeFrom
  <2>6. CASE i = stop
    <3>1. f = d
      BY <2>2, <2>6 DEF d
    <3>2. \A k \in DOMAIN notifying : ~(notifying[k].at < i) /\ notifying[k].at \in Nat
      BY <1>3, <1>14, <2>3, <2>6, CallIs
    <3>3. m = Len(notifying) + 1
      <4> SUFFICES ASSUME m # Len(notifying) + 1 PROVE FALSE
        OBVIOUS
      <4>1. m \in DOMAIN notifying /\ m >= m
        BY <1>8, <2>3
      <4> QED
        BY <2>4, <3>2, <4>1
    <3>4. \A k \in DOMAIN notifying' : ~(notifying'[k].at < i)
      <4> SUFFICES ASSUME NEW k \in DOMAIN notifying' PROVE ~(notifying'[k].at < i)
        OBVIOUS
      <4>1. CASE k = Len(notifying) + 1
        BY <1>7, <1>8, <2>3, <2>6, <4>1
      <4>2. CASE k # Len(notifying) + 1
        BY <1>8, <3>2, <4>2
      <4> QED
        BY <4>1, <4>2
    <3>6. e \in SyncEvents \cup Replies
      OBVIOUS
    <3>7. \E g : Leads(local[f], Append(channel[f], e), notifying', Len(notifying') + 1, g, OnEvent(ServerCopy, e))
      <4>1. PICK D : D = notifying'
        OBVIOUS
      <4>2. Len(D) \in Nat
        BY <1>8, <4>1
      <4>3. channel[f] \in Seq(SyncEvents \cup Replies) /\ Leads(local[f], channel[f], notifying, Len(notifying) + 1, h, ServerCopy)
        BY <1>9, <2>1, <3>1, <3>3
      <4>4. \E g : Leads(local[f], Append(channel[f], e), D, Len(D) + 1, g, OnEvent(ServerCopy, e))
        BY <1>8, <3>6, <4>2, <4>3, LeadsSent
      <4> QED
        BY <4>1, <4>4
    <3>8. channel'[f] = Append(channel[f], e) /\ Len(notifying') + 1 \in 1 .. (Len(notifying') + 1)
      BY <1>8, <1>9, <3>1 DEF ch
    <3>9. PICK x : x = Len(notifying') + 1
      OBVIOUS
    <3>10. \A k \in DOMAIN notifying' : ~(k >= x)
      BY <1>8, <3>9
    <3>11. ComeFrom(f, x)'
      BY <2>5, <3>4, <3>10
    <3> QED
      BY <3>7, <3>8, <3>9, <3>11
  <2>7. CASE i # stop
    <3>1. f # d
      BY <1>5, <2>2, <2>7 DEF d
    <3>2. stop < i
      BY <1>5, <2>3, <2>7
    <3>3. \A k \in DOMAIN notifying' : notifying'[k].at < i <=> k >= m
      <4> SUFFICES ASSUME NEW k \in DOMAIN notifying' PROVE notifying'[k].at < i <=> k >= m
        OBVIOUS
      <4>1. CASE k = Len(notifying) + 1
        BY <1>7, <1>8, <2>3, <3>2, <4>1
      <4>2. CASE k # Len(notifying) + 1
        BY <1>8, <2>4, <4>2
      <4> QED
        BY <4>1, <4>2
    <3>4. ComeFrom(f, m)'
      BY <2>5, <3>3
    <3>5. channel'[f] = channel[f] /\ channel[f] \in Seq(SyncEvents \cup Replies)
      BY <1>3, <1>9, <1>11, <3>1 DEF SyTypes
    <3>6. \E g : Leads(local[f], channel[f], Append(notifying, n), m, g, OnEvent(ServerCopy, n.event))
      <4>1. notifying \in Seq(SyncCalls) /\ Len(channel[f]) \in Nat
        BY <1>3, <3>5 DEF SyTypes
      <4> QED
        BY <1>7, <2>1, <4>1, LeadsCalled
    <3> QED
      BY <1>6, <1>7, <1>8, <3>4, <3>5, <3>6
  <2> QED
    BY <2>6, <2>7
<1> QED
  BY <1>12, <1>13, <1>15, <1>17, <1>18, <1>19, <1>20 DEF SyInv

LEMMA UpdateIs ==
  ASSUME SyInv, NEW s \in Registered, NEW e \in SyncEvents, e.service = s, e.kind # "added",
         info' = [info EXCEPT ![s] = Applied(@, e)], order' = order
  PROVE  order' \in Seq(Services) /\ info' \in [Services -> Copies] /\ OrderInv' /\ OnEvent(ServerCopy, e) = ServerCopy'
<1>1. s \in Services /\ info \in [Services -> Copies] /\ order \in Seq(Services)
  BY EventFields DEF SyInv, SyTypes
<1>2. Applied(info[s], e) \in Copies
  BY <1>1, AppliedIsACopy
<1>3. info' \in [Services -> Copies]
  BY <1>1, <1>2
<1>4. OrderInv'
  BY <1>1 DEF SyInv, OrderInv, Registered
<1>5. OnEvent(ServerCopy, e) = ServerCopy'
  BY DEF OnEvent, OnUpdate, ServerCopy, Registered
<1> QED
  BY <1>1, <1>3, <1>4, <1>5

LEMMA PostsInv ==
  ASSUME SyInv, NEW c \in Clients, NEW s \in Services, Posts(c, s)
  PROVE  SyInv'
<1> DEFINE Said(e) == e \in SyncEvents /\ e.service = s /\ e.kind # "added" /\ s \in Registered /\ order' = order
                      /\ info' = [info EXCEPT ![s] = Applied(@, e)] /\ Change(c, e)
<1>1. ASSUME NEW st \in States, UpdateState(c, s, st) PROVE \E e : Said(e)
  <2> DEFINE e == Event("state", s, st)
  <2>1. e \in SyncEvents /\ e.service = s /\ e.kind # "added"
    BY DEF Event, SyncEvents, Changed
  <2>2. \A r : Applied(r, e) = SetState(r, st)
    BY DEF Event, Applied
  <2> QED
    BY <1>1, <2>1, <2>2 DEF UpdateState
<1>2. ASSUME NEW text \in Texts, SendMessage(c, s, text) PROVE \E e : Said(e)
  <2> DEFINE e == Event("messages", s, text)
  <2>1. e \in SyncEvents /\ e.service = s /\ e.kind # "added"
    BY DEF Event, SyncEvents, Changed
  <2>2. \A r : Applied(r, e) = PostMessage(r, text)
    BY DEF Event, Applied
  <2> QED
    BY <1>2, <2>1, <2>2 DEF SendMessage
<1>3. ASSUME NEW text \in Headlines, SendHeadline(c, s, text) PROVE \E e : Said(e)
  <2> DEFINE e == Event("headline", s, text)
  <2>1. e \in SyncEvents /\ e.service = s /\ e.kind # "added"
    BY DEF Event, SyncEvents, Changed
  <2>2. \A r : Applied(r, e) = SetHeadline(r, text)
    BY DEF Event, Applied
  <2> QED
    BY <1>3, <2>1, <2>2 DEF SendHeadline
<1>4. PICK e : Said(e)
  <2> HIDE DEF Said
  <2> QED
    BY <1>1, <1>2, <1>3 DEF Posts
<1>5. order' \in Seq(Services) /\ info' \in [Services -> Copies] /\ OrderInv' /\ OnEvent(ServerCopy, e) = ServerCopy'
  BY <1>4, UpdateIs
<1> QED
  BY <1>4, <1>5, ChangeInv

LEMMA AddServiceInv ==
  ASSUME SyInv, NEW c \in Clients, NEW s \in Services, AddService(c, s)
  PROVE  SyInv'
<1> DEFINE e == Event("added", s, NULL)
<1>1. s \notin Registered /\ order' = Append(order, s) /\ Change(c, e) /\ info' = info
  BY DEF AddService
<1>2. e \in SyncEvents /\ e.kind = "added" /\ e.service = s
  BY DEF Event, SyncEvents, Changed
<1>3. /\ order \in Seq(Services) /\ info \in [Services -> Copies] /\ OrderInv
      /\ DOMAIN order = 1 .. Len(order) /\ Len(order) \in Nat
  BY DEF SyInv, SyTypes
<1>4. /\ order' \in Seq(Services) /\ Len(order') = Len(order) + 1 /\ order'[Len(order) + 1] = s
      /\ \A i \in 1 .. Len(order) : order'[i] = order[i]
      /\ DOMAIN order' = 1 .. (Len(order) + 1)
  BY <1>1, <1>3
<1>5. \A i \in DOMAIN order : order[i] # s
  BY <1>1 DEF Registered, ToSet
<1>6. IsInjective(order')
  <2> SUFFICES ASSUME NEW i \in DOMAIN order', NEW j \in DOMAIN order', order'[i] = order'[j] PROVE i = j
    BY DEF IsInjective
  <2>1. CASE i = Len(order) + 1
    BY <1>3, <1>4, <1>5, <2>1
  <2>2. CASE j = Len(order) + 1
    BY <1>3, <1>4, <1>5, <2>2
  <2>3. CASE i # Len(order) + 1 /\ j # Len(order) + 1
    <3>1. i \in DOMAIN order /\ j \in DOMAIN order /\ order[i] = order[j]
      BY <1>3, <1>4, <2>3
    <3> QED
      BY <1>3, <3>1 DEF OrderInv, IsInjective
  <2> QED
    BY <2>1, <2>2, <2>3
<1>7. Registered \subseteq Registered'
  <2> SUFFICES ASSUME NEW i \in DOMAIN order PROVE order[i] \in ToSet(order')
    BY DEF Registered, ToSet
  <2>1. i \in DOMAIN order' /\ order'[i] = order[i]
    BY <1>3, <1>4
  <2> QED
    BY <2>1 DEF ToSet
<1>8. OrderInv'
  BY <1>1, <1>3, <1>6, <1>7 DEF OrderInv
<1>9. OnEvent(ServerCopy, e) = ServerCopy'
  <2>1. info[s] = New /\ [info EXCEPT ![s] = New] = info
    BY <1>1, <1>3 DEF OrderInv
  <2>2. ~(Len(order) < Len(order)) /\ s \notin ToSet(order)
    BY <1>1, <1>3 DEF Registered
  <2> QED
    BY <1>1, <1>2, <2>1, <2>2 DEF OnEvent, OnServiceAdded, ServerCopy
<1> HIDE DEF e
<1> QED
  BY <1>1, <1>2, <1>3, <1>4, <1>8, <1>9, ChangeInv

\* A call ends whose way leads to no more clients, or one comes to the next client.
LEMMA EndsInv ==
  ASSUME SyInv, NEW k \in 1 .. Len(notifying), GoesNowhere(notifying[k]),
         notifying' = SubSeq(notifying, 1, k - 1) \o <<>> \o SubSeq(notifying, k + 1, Len(notifying)),
         UNCHANGED <<serverVars, monitors, clients, sync, local, untold, disturbed, channel>>
  PROVE  SyInv'
<1>1. SyTypes /\ MonitorsInv /\ CallsInOrder
  BY DEF SyInv
<1>2. notifying \in Seq(SyncCalls) /\ Len(notifying) \in Nat /\ DOMAIN notifying = 1 .. Len(notifying)
  BY <1>1 DEF SyTypes
<1>3. /\ notifying' \in Seq(SyncCalls) /\ Len(notifying') = Len(notifying) - 1
      /\ DOMAIN notifying' = 1 .. (Len(notifying) - 1)
      /\ \A j \in 1 .. (Len(notifying) - 1) : notifying'[j] = IF j < k THEN notifying[j] ELSE notifying[j + 1]
  <2>1. PICK q : q = notifying'
    OBVIOUS
  <2>2. q \in Seq(SyncCalls) /\ Len(q) = Len(notifying) - 1
        /\ \A j \in 1 .. (Len(notifying) - 1) : q[j] = IF j < k THEN notifying[j] ELSE notifying[j + 1]
    BY <1>2, <2>1, Dropped
  <2>3. DOMAIN q = 1 .. Len(q)
    BY <2>2
  <2> QED
    BY <2>1, <2>2, <2>3
<1>4. \A j \in DOMAIN notifying' : \E i \in DOMAIN notifying :
          notifying'[j] = notifying[i] /\ i = IF j < k THEN j ELSE j + 1
  <2> SUFFICES ASSUME NEW j \in DOMAIN notifying'
               PROVE  \E i \in DOMAIN notifying : notifying'[j] = notifying[i] /\ i = IF j < k THEN j ELSE j + 1
    OBVIOUS
  <2>1. j \in 1 .. (Len(notifying) - 1)
    BY <1>3
  <2>2. j \in DOMAIN notifying /\ j + 1 \in DOMAIN notifying
    BY <1>2, <2>1
  <2> QED
    BY <1>3, <2>1, <2>2
<1>5. UNCHANGED <<order, info, monitors, clients, sync, local, untold, disturbed, channel>>
  BY DEF serverVars
<1>6. Connected' = Connected
  BY <1>5 DEF Connected
<1>7. SyTypes' /\ OrderInv' /\ MonitorsInv' /\ OneReply' /\ AbsentInv'
  BY <1>3, <1>5, <1>6 DEF SyInv, SyTypes, OrderInv, Registered, MonitorsInv, OneReply, AbsentInv
<1>8. CallsInOrder'
  <2>1. ASSUME NEW j \in DOMAIN notifying'
        PROVE  notifying'[j].at \in DOMAIN monitors' /\ monitors'[notifying'[j].at] \in Connected'
    BY <1>1, <1>4, <1>5, <1>6, CallIs
  <2>2. ASSUME NEW i \in DOMAIN notifying', NEW j \in DOMAIN notifying', i < j
        PROVE  notifying'[i].at >= notifying'[j].at
    <3>1. PICK x \in DOMAIN notifying : notifying'[i] = notifying[x] /\ x = IF i < k THEN i ELSE i + 1
      BY <1>4
    <3>2. PICK y \in DOMAIN notifying : notifying'[j] = notifying[y] /\ y = IF j < k THEN j ELSE j + 1
      BY <1>4
    <3>3. x < y
      BY <1>3, <2>2, <3>1, <3>2
    <3> QED
      BY <1>1, <3>1, <3>2, <3>3 DEF CallsInOrder
  <2> QED
    BY <2>1, <2>2 DEF CallsInOrder
<1>9. PeaceInv'
  <2>1. notifying # <<>>
    BY <1>2
  <2> QED
    BY <1>5, <1>6, <2>1 DEF SyInv, PeaceInv, SyncsInPeace
<1>10. FollowInv'
  <2> SUFFICES ASSUME NEW f \in Connected \ (untold \cup disturbed), sync[f].pc = "synced"
               PROVE  \E m \in 1 .. (Len(notifying') + 1) :
                          ComeFrom(f, m)' /\ \E h : Leads(local[f], channel[f], notifying', m, h, ServerCopy)
    BY <1>5, <1>6 DEF FollowInv, Follows, ServerCopy
  <2>1a. PICK m \in 1 .. (Len(notifying) + 1) :
            ComeFrom(f, m) /\ \E h : Leads(local[f], channel[f], notifying, m, h, ServerCopy)
    BY DEF SyInv, FollowInv, Follows
  <2>1. PICK h : ComeFrom(f, m) /\ Leads(local[f], channel[f], notifying, m, h, ServerCopy)
    BY <2>1a
  <2>2. PICK i \in DOMAIN monitors : monitors[i] = f /\ \A j \in DOMAIN monitors : monitors[j] = f => j = i
    BY <1>1, Positions
  <2>3. i \in Nat /\ m \in Nat
    BY <1>1, <1>2, <2>1, <2>2, Positions
  <2>4. \A j \in DOMAIN notifying : notifying[j].at < i <=> j >= m
    BY <2>1, <2>2 DEF ComeFrom
  <2>5. k < m
    <3> SUFFICES ASSUME k >= m PROVE FALSE
      BY <2>3
    <3>1. k \in DOMAIN notifying /\ notifying[k].at < i
      BY <1>2, <2>4
    <3>2. notifying[k].at \in Nat
      BY <1>1, <3>1, CallIs
    <3>3. i \in StopsAfter(notifying[k].at)
      BY <1>1, <2>2, <2>3, <3>1, <3>2, StopIs
    <3> QED
      BY <3>3 DEF GoesNowhere
  <2>6. m - 1 \in 1 .. (Len(notifying') + 1)
    <3>1. PICK new, old : new = Len(notifying') /\ old = Len(notifying)
      OBVIOUS
    <3>2. new = old - 1 /\ old \in Nat
      BY <1>2, <1>3, <3>1
    <3>3. m - 1 \in 1 .. old /\ m \in Nat
      BY <1>2, <2>1, <2>3, <2>5, <3>1
    <3>4. m - 1 \in 1 .. (new + 1)
      BY ONLY <3>2, <3>3
    <3> QED
      BY <3>1, <3>4
  <2>7. ASSUME NEW j \in DOMAIN notifying' PROVE notifying'[j].at < i <=> j >= m - 1
    <3>1. PICK x \in DOMAIN notifying : notifying'[j] = notifying[x] /\ x = IF j < k THEN j ELSE j + 1
      BY <1>4
    <3>2. x >= m <=> j >= m - 1
      BY <1>3, <2>3, <2>5, <3>1
    <3> QED
      BY <2>4, <3>1, <3>2
  <2>8. PICK x : x = m - 1
    OBVIOUS
  <2>9. ComeFrom(f, x)'
    BY <1>5, <2>2, <2>7, <2>8 DEF ComeFrom
  <2>10. PICK D : D = notifying'
    OBVIOUS
  <2>11. SayTheSame(notifying, m, D, x)
    <3>0. Len(D) = Len(notifying) - 1
      BY <1>3, <2>10
    <3>1. Len(D) - x = Len(notifying) - m
      BY <1>2, <2>3, <2>8, <3>0
    <3>2. ASSUME NEW j \in 1 .. (Len(notifying) - m + 1)
          PROVE  D[x + j - 1].event = notifying[m + j - 1].event
      <4>1. x + j - 1 \in 1 .. (Len(notifying) - 1) /\ ~(x + j - 1 < k) /\ (x + j - 1) + 1 = m + j - 1
        BY <1>2, <2>3, <2>5, <2>8
      <4> QED
        BY <1>3, <2>10, <4>1
    <3> QED
      BY <3>1, <3>2 DEF SayTheSame
  <2>12. Leads(local[f], channel[f], D, x, h, ServerCopy)
    <3>0. Len(D) = Len(notifying) - 1
      BY <1>3, <2>10
    <3>1. Len(D) \in Nat /\ x \in Nat
      BY <1>2, <2>3, <2>5, <2>8, <3>0
    <3> QED
      BY <1>2, <2>1, <2>3, <2>11, <3>1, LeadsAlike
  <2> QED
    BY <2>6, <2>8, <2>9, <2>10, <2>12
<1> QED
  BY <1>7, <1>8, <1>9, <1>10 DEF SyInv

LEMMA CallAt ==
  ASSUME NEW n \in SyncCalls, NEW at
  PROVE  [n EXCEPT !.at = at] = [event |-> n.event, by |-> n.by, at |-> at]
  BY DEF SyncCalls

LEMMA ComesInv ==
  ASSUME SyInv, NEW k \in 1 .. Len(notifying), NEW stop, GoesOn(notifying[k], stop),
         \A j \in 1 .. (k - 1) : notifying[j].at > notifying[k].at,
         notifying' = SubSeq(notifying, 1, k - 1) \o GoOn(notifying[k]).next \o SubSeq(notifying, k + 1, Len(notifying)),
         channel' = GoOn(notifying[k]).channel,
         UNCHANGED <<serverVars, monitors, clients, sync, local, untold, disturbed>>
  PROVE  SyInv'
<1>1. SyTypes /\ MonitorsInv /\ CallsInOrder
  BY DEF SyInv
<1>2. notifying \in Seq(SyncCalls) /\ Len(notifying) \in Nat /\ DOMAIN notifying = 1 .. Len(notifying)
  BY <1>1 DEF SyTypes
<1>3. PICK n : n = notifying[k]
  OBVIOUS
<1>4. /\ n \in SyncCalls /\ n.event \in SyncEvents /\ n.by \in Clients
      /\ n.at \in DOMAIN monitors /\ monitors[n.at] \in Connected /\ n.at \in Nat
  BY <1>1, <1>2, <1>3, CallIs
<1>5. /\ stop \in DOMAIN monitors /\ stop > n.at /\ monitors[stop] \in Connected /\ stop \in Nat
      /\ \A j \in DOMAIN monitors : j > n.at /\ monitors[j] \in Connected => stop <= j
  <2>1. PICK a : a = n.at
    OBVIOUS
  <2>2. stop \in StopsAfter(a) /\ \A j \in StopsAfter(a) : stop <= j
    BY <1>3, <2>1 DEF GoesOn
  <2>3. \A j : j \in StopsAfter(a) <=> j \in DOMAIN monitors /\ j > a /\ monitors[j] \in Connected
    BY <1>1, <1>4, <2>1, StopIs
  <2>4. stop \in DOMAIN monitors /\ stop > a /\ monitors[stop] \in Connected
    BY <2>2, <2>3
  <2>5. stop \in Nat
    BY <1>1, <2>4, Positions
  <2> QED
    BY <2>1, <2>2, <2>3, <2>4, <2>5
<1>6. PICK c : c = monitors[stop]
  OBVIOUS
<1>7. PICK on : on = [event |-> n.event, by |-> n.by, at |-> stop]
  OBVIOUS
<1>8. on \in SyncCalls /\ on.at = stop /\ on.event = n.event
  BY <1>4, <1>5, <1>7 DEF SyncCalls
<1>9. c \in Connected /\ c \in Clients
  BY <1>5, <1>6 DEF Connected
<1>10. [n EXCEPT !.at = stop] = on
  BY <1>4, <1>7, CallAt
<1>11. PICK D : D = notifying'
  OBVIOUS
<1>12. /\ D \in Seq(SyncCalls) /\ Len(D) = Len(notifying) /\ DOMAIN D = 1 .. Len(notifying)
       /\ \A j \in 1 .. Len(notifying) : D[j] = IF j = k THEN on ELSE notifying[j]
  <2>1. D = With(notifying, k, on)
    BY <1>3, <1>10, <1>11 DEF GoesOn, With
  <2>2. D \in Seq(SyncCalls) /\ IsWith(D, notifying, k, on)
    <3>1. notifying \in Seq(SyncCalls) /\ on \in SyncCalls
      BY <1>2, <1>8
    <3>2. With(notifying, k, on) \in Seq(SyncCalls) /\ IsWith(With(notifying, k, on), notifying, k, on)
      BY <3>1, Replaced
    <3> QED
      BY <2>1, <3>2
  <2>3. Len(D) = Len(notifying) /\ \A j \in 1 .. Len(notifying) : D[j] = IF j = k THEN on ELSE notifying[j]
    BY <2>2 DEF IsWith
  <2> QED
    BY <1>2, <2>2, <2>3
<1>13. channel[c] \in Seq(SyncEvents \cup Replies)
  BY <1>1, <1>9 DEF SyTypes
<1>14. PICK more : more = Append(channel[c], n.event)
  OBVIOUS
<1>15. /\ more \in Seq(SyncEvents \cup Replies) /\ Len(more) = Len(channel[c]) + 1 /\ Len(channel[c]) \in Nat
       /\ DOMAIN more = 1 .. (Len(channel[c]) + 1) /\ DOMAIN channel[c] = 1 .. Len(channel[c])
       /\ more[Len(channel[c]) + 1] = n.event /\ \A j \in 1 .. Len(channel[c]) : more[j] = channel[c][j]
  <2>1. PICK q, e : q = channel[c] /\ e = n.event
    OBVIOUS
  <2>2. q \in Seq(SyncEvents \cup Replies) /\ e \in SyncEvents \cup Replies /\ more = Append(q, e)
    BY <1>4, <1>13, <1>14, <2>1
  <2>3. /\ more \in Seq(SyncEvents \cup Replies) /\ Len(more) = Len(q) + 1 /\ Len(q) \in Nat
        /\ DOMAIN more = 1 .. (Len(q) + 1) /\ DOMAIN q = 1 .. Len(q)
        /\ more[Len(q) + 1] = e /\ \A j \in 1 .. Len(q) : more[j] = q[j]
    BY <2>2
  <2> QED
    BY <2>1, <2>3
<1>16. channel' = [channel EXCEPT ![c] = more]
  BY <1>3, <1>6, <1>14 DEF GoesOn
<1>17. /\ channel' \in [Clients -> Seq(SyncEvents \cup Replies)] /\ channel'[c] = more
       /\ \A e \in Clients \ {c} : channel'[e] = channel[e]
  BY <1>1, <1>9, <1>15, <1>16 DEF SyTypes
<1>18. UNCHANGED <<order, info, monitors, clients, sync, local, untold, disturbed>>
  BY DEF serverVars
<1>19. Connected' = Connected /\ Connected \subseteq Clients
  BY <1>18 DEF Connected
<1>20. SyTypes' /\ OrderInv' /\ MonitorsInv'
  BY <1>1, <1>11, <1>12, <1>17, <1>18 DEF SyInv, SyTypes, OrderInv, Registered, MonitorsInv
<1>21. OneReply'
  <2> SUFFICES ASSUME NEW e \in Clients, NEW i \in DOMAIN channel'[e], channel'[e][i].kind \in ReplyKinds
               PROVE  sync[e].pc = "waiting" /\ \A j \in DOMAIN channel'[e] \ {i} : channel'[e][j].kind \notin ReplyKinds
    BY <1>18 DEF OneReply
  <2>1. CASE e # c
    <3>1. channel'[e] = channel[e]
      BY <1>17, <2>1
    <3> QED
      BY <3>1 DEF SyInv, OneReply
  <2>2. CASE e = c
    <3>1. n.event.kind \notin ReplyKinds
      BY <1>4, EventFields
    <3>2. i \in DOMAIN channel[c] /\ channel[c][i].kind \in ReplyKinds
      BY <1>15, <1>17, <2>2, <3>1, SMTT(30)
    <3>3. sync[c].pc = "waiting" /\ \A j \in DOMAIN channel[c] \ {i} : channel[c][j].kind \notin ReplyKinds
      BY <1>9, <3>2 DEF SyInv, OneReply
    <3>4. ASSUME NEW j \in DOMAIN more, j # i PROVE more[j].kind \notin ReplyKinds
      <4>1. CASE j = Len(channel[c]) + 1
        BY <1>15, <3>1, <4>1
      <4>2. CASE j # Len(channel[c]) + 1
        <5>1. j \in 1 .. Len(channel[c])
          BY <1>15, <4>2
        <5> QED
          BY <1>15, <3>3, <3>4, <5>1
      <4> QED
        BY <4>1, <4>2
    <3> QED
      BY <1>17, <2>2, <3>3, <3>4
  <2> QED
    BY <2>1, <2>2
<1>22. AbsentInv'
  BY <1>9, <1>17, <1>18, <1>19 DEF SyInv, AbsentInv
<1>23. ASSUME NEW j \in DOMAIN notifying
       PROVE  notifying[j].at \in Nat /\ notifying[j].at \in DOMAIN monitors /\ monitors[notifying[j].at] \in Connected
  BY <1>1, CallIs
<1>24. \A j \in DOMAIN notifying : j < k => notifying[j].at >= stop
  <2> SUFFICES ASSUME NEW j \in DOMAIN notifying, j < k PROVE notifying[j].at >= stop
    OBVIOUS
  <2>1. notifying[j].at > n.at
    BY <1>2, <1>3
  <2> QED
    BY <1>5, <1>23, <2>1
<1>25. CallsInOrder'
  <2>1. ASSUME NEW j \in DOMAIN D
        PROVE  D[j].at \in DOMAIN monitors /\ monitors[D[j].at] \in Connected
    BY <1>2, <1>5, <1>8, <1>12, <1>23
  <2>2. ASSUME NEW i \in DOMAIN D, NEW j \in DOMAIN D, i < j
        PROVE  D[i].at >= D[j].at
    <3>1. i \in DOMAIN notifying /\ j \in DOMAIN notifying /\ notifying[i].at >= notifying[j].at
      BY <1>1, <1>2, <1>12, <2>2 DEF CallsInOrder
    <3>2. CASE i = k
      <4>2. j # k /\ i \in 1 .. Len(notifying) /\ j \in 1 .. Len(notifying)
        BY <1>12, <2>2, <3>2
      <4>3. D[i] = on /\ D[j] = notifying[j]
        BY <1>12, <3>2, <4>2
      <4>1. n.at >= notifying[j].at /\ D[i].at = stop /\ D[j].at = notifying[j].at
        BY <1>3, <1>8, <3>1, <3>2, <4>3
      <4> QED
        BY <1>4, <1>5, <1>23, <3>1, <4>1
    <3>3. CASE j = k
      <4>2. i # k /\ i \in 1 .. Len(notifying) /\ j \in 1 .. Len(notifying) /\ i < k
        BY <1>12, <2>2, <3>3
      <4>3. D[j] = on /\ D[i] = notifying[i]
        BY <1>12, <3>3, <4>2
      <4>1. notifying[i].at >= stop /\ D[i].at = notifying[i].at /\ D[j].at = stop
        BY <1>8, <1>24, <3>1, <4>2, <4>3
      <4> QED
        BY <4>1
    <3>4. CASE i # k /\ j # k
      BY <1>2, <1>12, <3>1, <3>4
    <3> QED
      BY <3>2, <3>3, <3>4
  <2> QED
    BY <1>11, <1>18, <1>19, <2>1, <2>2 DEF CallsInOrder
<1>26. PeaceInv'
  <2>1. notifying # <<>>
    BY <1>2
  <2> QED
    BY <1>18, <1>19, <2>1 DEF SyInv, PeaceInv, SyncsInPeace
<1>27. FollowInv'
  <2> SUFFICES ASSUME NEW f \in Connected \ (untold \cup disturbed), sync[f].pc = "synced"
               PROVE  \E m \in 1 .. (Len(D) + 1) :
                          (\A j \in DOMAIN D, i \in DOMAIN monitors : monitors[i] = f => (D[j].at < i <=> j >= m))
                          /\ \E h : Leads(local[f], channel'[f], D, m, h, ServerCopy)
    <3>1. ServerCopy' = ServerCopy
      BY <1>18 DEF ServerCopy
    <3>2. ASSUME NEW f, NEW m PROVE ComeFrom(f, m)' <=>
              \A j \in DOMAIN D, i \in DOMAIN monitors : monitors[i] = f => (D[j].at < i <=> j >= m)
      BY <1>11, <1>18 DEF ComeFrom
    <3>3. FollowInv' <=> \A f \in Connected \ (untold \cup disturbed) : sync[f].pc = "synced" =>
              \E m \in 1 .. (Len(D) + 1) : ComeFrom(f, m)' /\ \E h : Leads(local[f], channel'[f], D, m, h, ServerCopy)
      BY <1>11, <1>18, <1>19, <3>1 DEF FollowInv, Follows
    <3> QED
      BY <3>2, <3>3
  <2>1a. PICK m \in 1 .. (Len(notifying) + 1) :
            ComeFrom(f, m) /\ \E h : Leads(local[f], channel[f], notifying, m, h, ServerCopy)
    BY DEF SyInv, FollowInv, Follows
  <2>1. PICK h : ComeFrom(f, m) /\ Leads(local[f], channel[f], notifying, m, h, ServerCopy)
    BY <2>1a
  <2>2. PICK i \in DOMAIN monitors : monitors[i] = f /\ \A j \in DOMAIN monitors : monitors[j] = f => j = i
    BY <1>1, Positions
  <2>3. i \in Nat /\ m \in Nat /\ k \in Nat /\ f \in Clients
    BY <1>1, <1>2, <1>19, <2>1, <2>2, Positions
  <2>4. \A j \in DOMAIN notifying : notifying[j].at < i <=> j >= m
    BY <2>1, <2>2 DEF ComeFrom
  <2>5. SayTheSame(notifying, m, D, m)
    <3>1. ASSUME NEW j \in 1 .. (Len(notifying) - m + 1)
          PROVE  D[m + j - 1].event = notifying[m + j - 1].event
      <4>1. m + j - 1 \in 1 .. Len(notifying)
        BY <1>2, <2>3, <2>1
      <4> QED
        BY <1>3, <1>8, <1>12, <4>1
    <3>2. Len(D) - m = Len(notifying) - m
      BY <1>12
    <3> QED
      BY <3>1, <3>2 DEF SayTheSame
  <2>6. CASE i # stop
    <3>1. f # c
      BY <1>5, <1>6, <2>2, <2>6
    <3>8. n.at < i => stop <= i
      BY <1>4, <1>5, <2>2, <2>3
    <3>2. n.at < i <=> stop < i
      <4>1. n.at \in Nat /\ stop \in Nat /\ stop > n.at
        BY <1>4, <1>5
      <4>2. PICK a : a = n.at
        OBVIOUS
      <4> QED
        BY <2>3, <2>6, <3>8, <4>1, <4>2
    <3>3. ASSUME NEW j \in DOMAIN D PROVE D[j].at < i <=> j >= m
      BY <1>2, <1>3, <1>8, <1>12, <2>4, <3>2
    <3>4. Len(D) \in Nat /\ m \in 1 .. (Len(D) + 1)
      BY <1>2, <1>12, <2>1
    <3>5. Leads(local[f], channel[f], D, m, h, ServerCopy)
      BY <1>2, <2>1, <2>3, <2>5, <3>4, LeadsAlike
    <3>6. channel'[f] = channel[f]
      BY <1>17, <2>3, <3>1
    <3>7. \A j \in DOMAIN D, x \in DOMAIN monitors : monitors[x] = f => (D[j].at < x <=> j >= m)
      BY <2>2, <3>3
    <3> QED
      BY <3>4, <3>5, <3>6, <3>7
  <2>7. CASE i = stop
    <3>1. f = c
      BY <1>6, <2>2, <2>7
    <3>2. k >= m
      BY <1>2, <1>3, <1>5, <2>4, <2>7
    <3>3. m = k
      <4> SUFFICES ASSUME m # k PROVE FALSE
        OBVIOUS
      <4>1. m \in DOMAIN notifying /\ m < k
        BY <1>2, <2>3, <2>1, <3>2
      <4>2. notifying[m].at < i /\ notifying[m].at >= stop
        BY <1>24, <2>3, <2>4, <4>1
      <4> QED
        BY <1>23, <2>3, <2>7, <4>1, <4>2
    <3>4. ASSUME NEW j \in DOMAIN D PROVE D[j].at < i <=> j >= m + 1
      <4>1. CASE j = k
        <5>1. D[j].at = i /\ ~(i < i) /\ ~(j >= m + 1)
          BY <1>2, <1>8, <1>12, <2>3, <2>7, <3>3, <4>1
        <5> QED
          BY <5>1
      <4>2. CASE j # k
        <5>1. j \in DOMAIN notifying /\ D[j] = notifying[j] /\ j \in Nat
          BY <1>2, <1>12, <4>2
        <5>2. j >= m <=> j >= m + 1
          BY <2>3, <3>3, <4>2, <5>1
        <5> QED
          BY <2>4, <5>1, <5>2
      <4> QED
        BY <4>1, <4>2
    <3>5. Len(D) \in Nat /\ m + 1 \in 1 .. (Len(D) + 1) /\ m \in 1 .. Len(notifying)
      BY <1>2, <1>12, <2>1, <3>3
    <3>6. notifying[m].event = n.event /\ notifying[m].event \in SyncEvents \cup Replies
      BY <1>3, <1>4, <3>3
    <3>7. Leads(local[f], channel[f], notifying, m, h, ServerCopy) /\ channel[f] \in Seq(SyncEvents \cup Replies)
      BY <1>13, <2>1, <3>1
    <3>8. Leads(local[f], Append(channel[f], notifying[m].event), D, m + 1, h, ServerCopy)
      BY <1>2, <2>5, <3>5, <3>6, <3>7, LeadsCome
    <3>9. channel'[f] = Append(channel[f], notifying[m].event)
      BY <1>14, <1>17, <3>1, <3>6
    <3>10. \A j \in DOMAIN D, x \in DOMAIN monitors : monitors[x] = f => (D[j].at < x <=> j >= m + 1)
      BY <2>2, <3>4
    <3> QED
      BY <3>5, <3>8, <3>9, <3>10
  <2> QED
    BY <2>6, <2>7
<1> QED
  BY <1>20, <1>21, <1>22, <1>25, <1>26, <1>27 DEF SyInv

LEMMA AdvanceInv ==
  ASSUME SyInv, NEW k \in 1 .. Len(notifying), Advance(k)
  PROVE  SyInv'
<1>1. /\ \A j \in 1 .. (k - 1) : notifying[j].at > notifying[k].at
      /\ notifying' = SubSeq(notifying, 1, k - 1) \o GoOn(notifying[k]).next \o SubSeq(notifying, k + 1, Len(notifying))
      /\ channel' = GoOn(notifying[k]).channel
      /\ UNCHANGED <<serverVars, monitors, clients, sync, local, untold, disturbed>>
  BY DEF Advance
<1>2. SyTypes /\ CallsInOrder /\ k \in DOMAIN notifying
  BY DEF SyInv, SyTypes
<1>3. notifying[k].at \in Nat
  BY <1>2, CallIs
<1>4. CASE GoesNowhere(notifying[k])
  <2>1. notifying' = SubSeq(notifying, 1, k - 1) \o <<>> \o SubSeq(notifying, k + 1, Len(notifying))
    BY <1>1, <1>4 DEF GoesNowhere
  <2>2. UNCHANGED <<serverVars, monitors, clients, sync, local, untold, disturbed, channel>>
    BY <1>1, <1>4 DEF GoesNowhere
  <2> QED
    BY <1>4, <2>1, <2>2, EndsInv
<1>5. ASSUME NEW stop, GoesOn(notifying[k], stop) PROVE SyInv'
  BY <1>1, <1>5, ComesInv
<1> QED
  BY <1>2, <1>3, <1>4, <1>5, GoOnIs

-----------------------------------------------------------------------------
(* Clients come and go. *)

\* Whom a call has not come to yet it would still come to.
LEMMA ToldIs ==
  ASSUME SyTypes, MonitorsInv, CallsInOrder, NEW k \in DOMAIN notifying, NEW i \in DOMAIN monitors,
         monitors[i] \in Connected, notifying[k].at < i
  PROVE  monitors[i] \in Told(notifying[k].at)
<1>1. PICK a : a = notifying[k].at
  OBVIOUS
<1>2. a \in Nat
  BY <1>1, CallIs
<1>3. i \in StopsAfter(a)
  BY <1>1, <1>2, StopIs, Positions
<1> QED
  BY <1>1, <1>3 DEF Told

\* The members of a sequence.
LEMMA ToSetIs ==
  ASSUME NEW q, NEW k \in DOMAIN q
  PROVE  q[k] \in ToSet(q)
  BY DEF ToSet

LEMMA FirstQuestion ==
  [[NotSyncing EXCEPT !.pc = "asking"] EXCEPT !.todo = <<TheList>>]
      = [pc |-> "asking", names |-> NotSyncing.names, todo |-> <<TheList>>, info |-> NotSyncing.info]
<1>1. PICK I, t : I = [s \in Services |-> New] /\ t = <<TheList>>
  OBVIOUS
<1>2. NotSyncing = [pc |-> "none", names |-> <<>>, todo |-> <<>>, info |-> I]
  BY <1>1 DEF NotSyncing
<1>3. [NotSyncing EXCEPT !.pc = "asking"] = [pc |-> "asking", names |-> <<>>, todo |-> <<>>, info |-> I]
  BY <1>2
<1>4. [[pc |-> "asking", names |-> <<>>, todo |-> <<>>, info |-> I] EXCEPT !.todo = t]
          = [pc |-> "asking", names |-> <<>>, todo |-> t, info |-> I]
  OBVIOUS
<1>5. NotSyncing.names = <<>> /\ NotSyncing.info = I
  BY <1>2
<1> QED
  BY <1>1, <1>3, <1>4, <1>5

LEMMA ConnectInv ==
  ASSUME SyInv, NEW c \in Clients, Connect(c)
  PROVE  SyInv'
<1>1. SyTypes /\ MonitorsInv /\ CallsInOrder
  BY DEF SyInv
<1>0. PICK x : x = [pc |-> "asking", names |-> sync[c].names, todo |-> <<TheList>>, info |-> sync[c].info]
  OBVIOUS
<1>2. /\ clients[c] = "none" /\ clients' = [clients EXCEPT ![c] = "connected"] /\ notifying' = <<>>
      /\ untold' = untold \cup Abandoned(ToSet(notifying))
      /\ UNCHANGED <<order, info, channel, local, disturbed>>
  BY DEF Connect, serverVars
<1>3. c \notin Connected /\ sync[c] = NotSyncing /\ local[c] = Nobody /\ channel[c] = <<>>
  BY <1>2 DEF SyInv, AbsentInv, Connected
<1>4. sync' = [sync EXCEPT ![c] = x]
  <2>1. sync' = [sync EXCEPT ![c].pc = "asking", ![c].todo = <<TheList>>]
    BY DEF Connect, TheList
  <2>2. DOMAIN sync = Clients
    BY <1>1 DEF SyTypes
  <2>3. [[sync[c] EXCEPT !.pc = "asking"] EXCEPT !.todo = <<TheList>>] = x
    BY <1>0, <1>3, FirstQuestion
  <2> QED
    BY <2>1, <2>2, <2>3
<1>5. x.pc = "asking" /\ x.todo = <<TheList>> /\ x.info = [s \in Services |-> New]
  BY <1>0, <1>3 DEF NotSyncing
<1>6. IsSync(x)
  <2>1. <<TheList>> \in Seq(Asked(Services) \cup {TheList}) /\ <<TheList>> # <<>>
    OBVIOUS
  <2>2. x.info \in [Services -> Copies]
    BY <1>5, NewIsACopy
  <2> QED
    BY <1>0, <1>5, <2>1, <2>2 DEF IsSync
<1>7. PICK i \in 1 .. (Len(monitors) + 1) : monitors' = InsertAt(monitors, i, c)
  BY DEF Connect
<1>8. PICK mons : mons = monitors'
  OBVIOUS
<1>9. mons \in Seq(Clients) /\ Len(mons) = Len(monitors) + 1
  BY <1>1, <1>7, <1>8, Inserted DEF SyTypes
<1>10. ASSUME NEW j \in 1 .. (Len(monitors) + 1)
       PROVE  mons[j] = IF j = i THEN c ELSE IF j < i THEN monitors[j] ELSE monitors[j - 1]
  <2>1. monitors \in Seq(Clients)
    BY <1>1 DEF SyTypes
  <2>2. InsertAt(monitors, i, c)[j] = IF j = i THEN c ELSE IF j < i THEN monitors[j] ELSE monitors[j - 1]
    BY <2>1, Inserted
  <2> QED
    BY <1>7, <1>8, <2>2
<1>11. /\ Len(monitors) \in Nat /\ DOMAIN monitors = 1 .. Len(monitors) /\ DOMAIN mons = 1 .. (Len(monitors) + 1)
       /\ \A j, y \in DOMAIN monitors : monitors[j] = monitors[y] => j = y
  <2>1. DOMAIN mons = 1 .. Len(mons)
    BY <1>9
  <2> QED
    BY <1>1, <1>9, <2>1, Positions
<1>12. \A j \in DOMAIN monitors : monitors[j] # c
  BY <1>1, <1>2 DEF MonitorsInv, ToSet
<1>13. ASSUME NEW j \in DOMAIN mons, j # i
       PROVE  \E y \in DOMAIN monitors : mons[j] = monitors[y] /\ y = IF j < i THEN j ELSE j - 1
  <2>1. CASE j < i
    <3>1. j \in DOMAIN monitors
      BY <1>11, <2>1
    <3> QED
      BY <1>10, <1>11, <2>1, <3>1
  <2>2. CASE ~(j < i)
    <3>1. j - 1 \in DOMAIN monitors
      BY <1>11, <1>13, <2>2
    <3> QED
      BY <1>10, <1>11, <1>13, <2>2, <3>1
  <2> QED
    BY <2>1, <2>2
<1>14. i \in DOMAIN mons /\ mons[i] = c
  BY <1>10, <1>11
<1>15. IsInjective(mons)
  <2> SUFFICES ASSUME NEW j \in DOMAIN mons, NEW y \in DOMAIN mons, mons[j] = mons[y] PROVE j = y
    BY DEF IsInjective
  <2>1. CASE j = i
    BY <1>12, <1>13, <1>14, <2>1
  <2>2. CASE y = i
    BY <1>12, <1>13, <1>14, <2>2
  <2>3. CASE j # i /\ y # i
    <3>1. PICK v \in DOMAIN monitors : mons[j] = monitors[v] /\ v = IF j < i THEN j ELSE j - 1
      BY <1>13, <2>3
    <3>2. PICK w \in DOMAIN monitors : mons[y] = monitors[w] /\ w = IF y < i THEN y ELSE y - 1
      BY <1>13, <2>3
    <3>3. v = w
      BY <1>11, <3>1, <3>2
    <3> QED
      BY <1>11, <2>3, <3>1, <3>2, <3>3
  <2> QED
    BY <2>1, <2>2, <2>3
<1>16. \A y \in DOMAIN monitors : \E j \in DOMAIN mons : mons[j] = monitors[y]
  <2> SUFFICES ASSUME NEW y \in DOMAIN monitors PROVE \E j \in DOMAIN mons : mons[j] = monitors[y]
    OBVIOUS
  <2>1. CASE y < i
    <3>1. y \in DOMAIN mons /\ y # i
      BY <1>11, <2>1
    <3> QED
      BY <1>13, <2>1, <3>1
  <2>2. CASE ~(y < i)
    <3>1. y + 1 \in DOMAIN mons /\ y + 1 # i /\ ~(y + 1 < i) /\ (y + 1) - 1 = y
      BY <1>11, <2>2
    <3> QED
      BY <1>13, <3>1
  <2> QED
    BY <2>1, <2>2
<1>17. ToSet(mons) = ToSet(monitors) \cup {c}
  BY <1>13, <1>14, <1>16 DEF ToSet
<1>18. clients \in [Clients -> {"none", "connected", "gone"}]
  BY <1>1 DEF SyTypes
<1>19. clients' \in [Clients -> {"none", "connected", "gone"}] /\ Connected' = Connected \cup {c}
       /\ {e \in Clients : clients'[e] # "none"} = {e \in Clients : clients[e] # "none"} \cup {c}
  BY <1>2, <1>18 DEF Connected
<1>20. MonitorsInv'
  BY <1>1, <1>8, <1>15, <1>17, <1>19 DEF MonitorsInv
<1>21. /\ DOMAIN sync' = Clients /\ sync' = [e \in Clients |-> sync'[e]] /\ sync'[c] = x
       /\ \A e \in Clients \ {c} : sync'[e] = sync[e]
  BY <1>1, <1>4 DEF SyTypes
<1>22. SyTypes'
  <2>1. \A e \in Clients : IsSync(sync'[e])
    BY <1>1, <1>6, <1>21 DEF SyTypes
  <2>2. <<>> \in Seq(SyncCalls)
    OBVIOUS
  <2> QED
    BY <1>1, <1>2, <1>8, <1>9, <1>19, <1>21, <2>1, <2>2 DEF SyTypes
<1>23. OrderInv'
  BY <1>2 DEF SyInv, OrderInv, Registered
<1>24. CallsInOrder'
  BY <1>2 DEF CallsInOrder
<1>25. OneReply'
  <2> SUFFICES ASSUME NEW e \in Clients, NEW j \in DOMAIN channel[e], channel[e][j].kind \in ReplyKinds
               PROVE  sync'[e].pc = "waiting" /\ \A y \in DOMAIN channel[e] \ {j} : channel[e][y].kind \notin ReplyKinds
    BY <1>2 DEF OneReply
  <2>1. e # c
    BY <1>3
  <2> QED
    BY <1>21, <2>1 DEF SyInv, OneReply
<1>26. AbsentInv'
  BY <1>2, <1>5, <1>19, <1>21 DEF SyInv, AbsentInv
<1>27. PeaceInv'
  <2> SUFFICES ASSUME NEW e \in Connected' \ disturbed, sync'[e].pc # "synced" PROVE SyncsInPeace(e)'
    BY <1>2 DEF PeaceInv
  <2>1. CASE e = c
    <3>1. KnowsRest(x)'
      BY <1>5 DEF KnowsRest
    <3> QED
      BY <1>2, <1>3, <1>5, <1>21, <2>1, <3>1 DEF SyncsInPeace
  <2>2. CASE e # c
    <3>1. e \in Connected /\ e \in Clients /\ sync'[e] = sync[e]
      BY <1>19, <1>21, <2>2 DEF Connected
    <3>2. SyncsInPeace(e)
      BY <3>1 DEF SyInv, PeaceInv
    <3>3. \A y : KnowsRest(y)' <=> KnowsRest(y)
      BY <1>2 DEF KnowsRest, Registered
    <3>4. \A y : Reply(y)' = Reply(y)
      BY <1>2 DEF Reply
    <3> QED
      BY <1>2, <3>1, <3>2, <3>3, <3>4 DEF SyncsInPeace
  <2> QED
    BY <2>1, <2>2
<1>28. FollowInv'
  <2>1. ServerCopy' = ServerCopy
    BY <1>2 DEF ServerCopy
  <2> SUFFICES ASSUME NEW f \in Connected' \ (untold' \cup disturbed), sync'[f].pc = "synced"
               PROVE  ComeFrom(f, 1)' /\ \E h : Leads(local[f], channel[f], <<>>, 1, h, ServerCopy)
    BY <1>2, <2>1 DEF FollowInv, Follows
  <2>2. f # c
    BY <1>5, <1>21
  <2>3. f \in Connected \ (untold \cup disturbed) /\ sync[f].pc = "synced"
    BY <1>2, <1>19, <1>21, <2>2 DEF Connected
  <2>4a. PICK m \in 1 .. (Len(notifying) + 1) :
            ComeFrom(f, m) /\ \E h : Leads(local[f], channel[f], notifying, m, h, ServerCopy)
    BY <2>3 DEF SyInv, FollowInv, Follows
  <2>4. PICK h : ComeFrom(f, m) /\ Leads(local[f], channel[f], notifying, m, h, ServerCopy)
    BY <2>4a
  <2>5. PICK p \in DOMAIN monitors : monitors[p] = f
    BY <1>1, <2>3, Positions
  <2>6. Len(notifying) \in Nat /\ DOMAIN notifying = 1 .. Len(notifying)
    BY <1>1 DEF SyTypes
  <2>7. m = Len(notifying) + 1
    <3> SUFFICES ASSUME m # Len(notifying) + 1 PROVE FALSE
      OBVIOUS
    <3>1. m \in DOMAIN notifying /\ m >= m
      BY <2>4, <2>6
    <3>2. notifying[m].at < p
      BY <2>4, <2>5, <3>1 DEF ComeFrom
    <3>3. f \in Told(notifying[m].at)
      BY <1>1, <2>3, <2>5, <3>1, <3>2, ToldIs
    <3>4. notifying[m] \in ToSet(notifying)
      BY <3>1, ToSetIs
    <3>5. f \in Abandoned(ToSet(notifying))
      BY <3>3, <3>4 DEF Abandoned
    <3> QED
      BY <1>2, <3>5
  <2>8. SayTheSame(notifying, m, <<>>, 1)
    BY <2>6, <2>7 DEF SayTheSame
  <2>9. PICK D : D = <<>>
    OBVIOUS
  <2>10. Len(D) \in Nat /\ m \in Nat /\ SayTheSame(notifying, m, D, 1)
    BY <2>6, <2>7, <2>8, <2>9
  <2>11. Leads(local[f], channel[f], D, 1, h, ServerCopy)
    BY <2>4, <2>6, <2>10, LeadsAlike
  <2>12. ComeFrom(f, 1)'
    BY <1>2 DEF ComeFrom
  <2> QED
    BY <2>9, <2>11, <2>12
<1> QED
  BY <1>20, <1>22, <1>23, <1>24, <1>25, <1>26, <1>27, <1>28 DEF SyInv

\* A connection that ends leaves no reply on its way, and takes the calls it caused with it
\* or none.
LEMMA DisconnectInv ==
  ASSUME SyInv, NEW c \in Clients, Disconnect(c)
  PROVE  SyInv'
<1>1. SyTypes /\ MonitorsInv /\ CallsInOrder
  BY DEF SyInv
<1>2. /\ c \in Connected /\ clients' = [clients EXCEPT ![c] = "gone"] /\ channel' = [channel EXCEPT ![c] = <<>>]
      /\ sync' = [sync EXCEPT ![c] = NotSyncing] /\ local' = [local EXCEPT ![c] = Nobody]
      /\ UNCHANGED <<order, info, monitors, disturbed>>
      /\ \A n \in ToSet(notifying) : monitors[n.at] # c
  BY DEF Disconnect, serverVars
<1>3. notifying \in Seq(SyncCalls) /\ Len(notifying) \in Nat /\ DOMAIN notifying = 1 .. Len(notifying)
  BY <1>1 DEF SyTypes
<1>4. PICK D : D = notifying'
  OBVIOUS
<1> DEFINE mine == {n \in ToSet(notifying) : n.by = c}
<1>5. \/ D = NotBy(notifying, c) /\ untold' = untold \cup (Abandoned(mine) \ {c})
      \/ D = notifying /\ untold' = untold
  BY <1>4 DEF Disconnect
<1> HIDE DEF mine
<1>6. Thin(notifying, Len(notifying), NotBy(notifying, c))
      /\ \A m \in 1 .. (Len(notifying) + 1) :
            (\A k \in m .. Len(notifying) : notifying[k].by # c) => ThinTail(notifying, m, Len(notifying), NotBy(notifying, c))
  <2>1. InOrder(notifying)
    BY <1>1 DEF CallsInOrder, InOrder
  <2> QED
    BY <1>3, <2>1, NotByThins
<1>7. Thin(notifying, Len(notifying), D)
  <2>1. Thin(notifying, Len(notifying), notifying)
    BY <1>1, <1>3 DEF Thin, CallsInOrder
  <2> QED
    BY <1>5, <1>6, <2>1
<1>8. D \in Seq(SyncCalls) /\ Len(D) \in Nat /\ DOMAIN D = 1 .. Len(D)
  BY <1>7 DEF Thin
<1>9. ASSUME NEW k \in DOMAIN notifying
      PROVE  notifying[k].at \in DOMAIN monitors /\ monitors[notifying[k].at] \in Connected \ {c}
  <2>1. notifying[k] \in ToSet(notifying)
    BY <1>9, ToSetIs
  <2> QED
    BY <1>1, <1>2, <2>1, CallIs
<1>10. clients \in [Clients -> {"none", "connected", "gone"}]
  BY <1>1 DEF SyTypes
<1>11. clients' \in [Clients -> {"none", "connected", "gone"}] /\ Connected' = Connected \ {c}
       /\ {e \in Clients : clients'[e] # "none"} = {e \in Clients : clients[e] # "none"}
  BY <1>2, <1>10 DEF Connected
<1>12. /\ DOMAIN sync' = Clients /\ sync' = [e \in Clients |-> sync'[e]] /\ sync'[c] = NotSyncing
       /\ DOMAIN local' = Clients /\ local' = [e \in Clients |-> local'[e]] /\ local'[c] = Nobody
       /\ \A e \in Clients \ {c} : sync'[e] = sync[e] /\ local'[e] = local[e]
  BY <1>1, <1>2 DEF SyTypes
<1>13. /\ channel' \in [Clients -> Seq(SyncEvents \cup Replies)] /\ channel'[c] = <<>>
       /\ \A e \in Clients \ {c} : channel'[e] = channel[e]
  <2>1. <<>> \in Seq(SyncEvents \cup Replies)
    OBVIOUS
  <2> QED
    BY <1>1, <1>2, <2>1 DEF SyTypes
<1>14. IsSync(NotSyncing) /\ IsLocal(Nobody)
  <2>1. [s \in Services |-> New] \in [Services -> Copies]
    BY NewIsACopy
  <2>2. IsSync(NotSyncing)
    BY <2>1 DEF IsSync, NotSyncing
  <2>3. IsLocal(Nobody)
    BY <2>1 DEF IsLocal, Nobody
  <2> QED
    BY <2>2, <2>3
<1>15. SyTypes'
  <2>1. \A e \in Clients : IsSync(sync'[e]) /\ IsLocal(local'[e])
    BY <1>1, <1>12, <1>14 DEF SyTypes
  <2> QED
    BY <1>1, <1>2, <1>4, <1>8, <1>11, <1>12, <1>13, <2>1 DEF SyTypes
<1>16. OrderInv'
  BY <1>2 DEF SyInv, OrderInv, Registered
<1>17. MonitorsInv'
  BY <1>1, <1>2, <1>11 DEF MonitorsInv
<1>18. CallsInOrder'
  <2>1. ASSUME NEW j \in DOMAIN D PROVE D[j].at \in DOMAIN monitors /\ monitors[D[j].at] \in Connected \ {c}
    <3>1. PICK k \in 1 .. Len(notifying) : D[j] = notifying[k]
      BY <1>7, <1>8 DEF Thin
    <3> QED
      BY <1>3, <1>9, <3>1
  <2>2. \A i, j \in DOMAIN D : i < j => D[i].at >= D[j].at
    BY <1>7, <1>8 DEF Thin
  <2> QED
    BY <1>2, <1>4, <1>11, <2>1, <2>2 DEF CallsInOrder
<1>19. OneReply'
  <2> SUFFICES ASSUME NEW e \in Clients, NEW j \in DOMAIN channel'[e], channel'[e][j].kind \in ReplyKinds
               PROVE  sync'[e].pc = "waiting" /\ \A y \in DOMAIN channel'[e] \ {j} : channel'[e][y].kind \notin ReplyKinds
    BY DEF OneReply
  <2>1. e # c
    BY <1>13
  <2>2. channel'[e] = channel[e] /\ sync'[e] = sync[e]
    BY <1>12, <1>13, <2>1
  <2> QED
    BY <2>2 DEF SyInv, OneReply
<1>20. AbsentInv'
  BY <1>11, <1>12, <1>13 DEF SyInv, AbsentInv
<1>21. PeaceInv'
  <2> SUFFICES ASSUME NEW e \in Connected' \ disturbed, sync'[e].pc # "synced" PROVE SyncsInPeace(e)'
    BY <1>2 DEF PeaceInv
  <2>1. e \in Connected /\ e \in Clients /\ e # c /\ sync'[e] = sync[e] /\ local'[e] = local[e] /\ channel'[e] = channel[e]
    BY <1>11, <1>12, <1>13 DEF Connected
  <2>2. SyncsInPeace(e)
    BY <2>1 DEF SyInv, PeaceInv
  <2>3. notifying = <<>>
    BY <2>2 DEF SyncsInPeace
  <2>4. D = <<>>
    <3>1. Len(notifying) = 0
      BY <2>3
    <3>2. Len(D) = 0
      BY <1>7, <1>8, <3>1 DEF Thin
    <3> QED
      BY <1>8, <3>2
  <2>5. \A y : KnowsRest(y)' <=> KnowsRest(y)
    BY <1>2 DEF KnowsRest, Registered
  <2>6. \A y : Reply(y)' = Reply(y)
    BY <1>2 DEF Reply
  <2> QED
    BY <1>4, <2>1, <2>2, <2>4, <2>5, <2>6 DEF SyncsInPeace
<1>22. FollowInv'
  <2>1. ServerCopy' = ServerCopy
    BY <1>2 DEF ServerCopy
  <2>2. \A f, m : ComeFrom(f, m)' <=>
            \A j \in DOMAIN D, i \in DOMAIN monitors : monitors[i] = f => (D[j].at < i <=> j >= m)
    BY <1>2, <1>4 DEF ComeFrom
  <2> SUFFICES ASSUME NEW f \in Connected' \ (untold' \cup disturbed), sync'[f].pc = "synced"
               PROVE  \E m \in 1 .. (Len(D) + 1) : ComeFrom(f, m)' /\ \E h : Leads(local'[f], channel'[f], D, m, h, ServerCopy)
    BY <1>2, <1>4, <2>1 DEF FollowInv, Follows
  <2>3. f \in Connected \ (untold \cup disturbed) /\ f # c /\ f \in Clients
    BY <1>5, <1>11 DEF Connected
  <2>4. sync[f].pc = "synced" /\ local'[f] = local[f] /\ channel'[f] = channel[f]
    BY <1>12, <1>13, <2>3
  <2>5a. PICK m \in 1 .. (Len(notifying) + 1) :
            ComeFrom(f, m) /\ \E h : Leads(local[f], channel[f], notifying, m, h, ServerCopy)
    BY <2>3, <2>4 DEF SyInv, FollowInv, Follows
  <2>5. PICK h : ComeFrom(f, m) /\ Leads(local[f], channel[f], notifying, m, h, ServerCopy)
    BY <2>5a
  <2>6. CASE D = notifying
    <3>1. ComeFrom(f, m)'
      BY <2>2, <2>5, <2>6 DEF ComeFrom
    <3> QED
      BY <2>4, <2>5, <2>6, <3>1
  <2>7. CASE D = NotBy(notifying, c) /\ untold' = untold \cup (Abandoned(mine) \ {c})
    <3>1. PICK p \in DOMAIN monitors : monitors[p] = f /\ \A j \in DOMAIN monitors : monitors[j] = f => j = p
      BY <1>1, <2>3, Positions
    <3>2. \A j \in DOMAIN notifying : notifying[j].at < p <=> j >= m
      BY <2>5, <3>1 DEF ComeFrom
    <3>3. ASSUME NEW k \in m .. Len(notifying) PROVE notifying[k].by # c
      <4> SUFFICES ASSUME notifying[k].by = c PROVE FALSE
        OBVIOUS
      <4>1. k \in DOMAIN notifying /\ k >= m
        BY <1>3, <2>5
      <4>2. f \in Told(notifying[k].at)
        BY <1>1, <2>3, <3>1, <3>2, <4>1, ToldIs
      <4>3. notifying[k] \in mine
        BY <4>1, ToSetIs DEF mine
      <4>4. f \in Abandoned(mine)
        BY <4>2, <4>3 DEF Abandoned
      <4> QED
        BY <2>3, <2>7, <4>4
    <3>4. ThinTail(notifying, m, Len(notifying), D)
      BY <1>6, <2>7, <3>3
    <3>5. PICK z \in Nat :
              /\ Len(D) = z + (Len(notifying) - m + 1)
              /\ \A j \in 1 .. (Len(notifying) - m + 1) : D[z + j] = notifying[m + j - 1]
              /\ \A i \in 1 .. z : \E j \in 1 .. (m - 1) : D[i] = notifying[j]
      BY <3>4 DEF ThinTail
    <3>6. z + 1 \in 1 .. (Len(D) + 1) /\ m \in Nat
      BY <1>3, <2>5, <3>5
    <3>7. ASSUME NEW j \in DOMAIN D PROVE D[j].at < p <=> j >= z + 1
      <4>1. CASE j >= z + 1
        <5>1. j - z \in 1 .. (Len(notifying) - m + 1) /\ z + (j - z) = j
          BY <1>3, <1>8, <2>5, <3>5, <4>1
        <5>2. m + (j - z) - 1 \in DOMAIN notifying /\ m + (j - z) - 1 >= m
          BY <1>3, <2>5, <5>1
        <5>3. D[j] = notifying[m + (j - z) - 1]
          BY <3>5, <5>1
        <5> QED
          BY <3>2, <4>1, <5>2, <5>3
      <4>2. CASE ~(j >= z + 1)
        <5>1. j \in 1 .. z
          BY <1>8, <3>5, <4>2
        <5>2. PICK y \in 1 .. (m - 1) : D[j] = notifying[y]
          BY <3>5, <5>1
        <5>3. y \in DOMAIN notifying /\ ~(y >= m)
          BY <1>3, <2>5
        <5> QED
          BY <3>2, <4>2, <5>2, <5>3
      <4> QED
        BY <4>1, <4>2
    <3>8. SayTheSame(notifying, m, D, z + 1)
      <4>1. Len(D) - (z + 1) = Len(notifying) - m
        BY <1>3, <2>5, <3>5
      <4>2. ASSUME NEW j \in 1 .. (Len(notifying) - m + 1)
            PROVE  D[(z + 1) + j - 1].event = notifying[m + j - 1].event
        <5>1. (z + 1) + j - 1 = z + j
          BY <1>3, <2>5
        <5> QED
          BY <3>5, <5>1
      <4> QED
        BY <4>1, <4>2 DEF SayTheSame
    <3>9. PICK x : x = z + 1
      OBVIOUS
    <3>10. x \in Nat /\ SayTheSame(notifying, m, D, x)
      BY <3>8, <3>9
    <3>11. Leads(local[f], channel[f], D, x, h, ServerCopy)
      BY <1>3, <1>8, <2>5, <3>6, <3>10, LeadsAlike
    <3>12. ComeFrom(f, x)'
      BY <2>2, <3>1, <3>7, <3>9
    <3> QED
      BY <2>4, <3>6, <3>9, <3>11, <3>12
  <2> QED
    BY <1>5, <2>6, <2>7
<1> QED
  BY <1>15, <1>16, <1>17, <1>18, <1>19, <1>20, <1>21, <1>22 DEF SyInv

-----------------------------------------------------------------------------
(* The copies of the services. *)

LEMMA SyInitInv ==
  ASSUME Init
  PROVE  SyInv
<1>1. /\ order = Expected /\ info = [s \in Services |-> New] /\ monitors = <<>>
      /\ clients = [c \in Clients |-> "none"] /\ notifying = <<>> /\ channel = [c \in Clients |-> <<>>]
      /\ sync = [c \in Clients |-> NotSyncing] /\ local = [c \in Clients |-> Nobody]
  BY DEF Init
<1>2. [s \in Services |-> New] \in [Services -> Copies]
  BY NewIsACopy
<1>3. IsSync(NotSyncing)
  BY <1>2 DEF IsSync, NotSyncing
<1>4. IsLocal(Nobody)
  BY <1>2 DEF IsLocal, Nobody
<1>5. SyTypes
  <2>1. \A c \in Clients : IsSync(sync[c]) /\ IsLocal(local[c])
    BY <1>1, <1>3, <1>4
  <2>2. monitors \in Seq(Clients) /\ notifying \in Seq(SyncCalls) /\ channel \in [Clients -> Seq(SyncEvents \cup Replies)]
    BY <1>1
  <2> QED
    BY <1>1, <1>2, <2>1, <2>2, ExpectedAssumption DEF SyTypes
<1>6. OrderInv
  BY <1>1, ExpectedAssumption DEF OrderInv
<1>7. Connected = {}
  BY <1>1 DEF Connected
<1>8. MonitorsInv
  <2>1. DOMAIN monitors = {}
    BY <1>1
  <2> QED
    BY <1>1, <2>1 DEF MonitorsInv, ToSet, IsInjective
<1>9. CallsInOrder
  BY <1>1 DEF CallsInOrder
<1>10. OneReply
  BY <1>1 DEF OneReply
<1>11. AbsentInv
  BY <1>1, <1>7 DEF AbsentInv
<1> QED
  BY <1>5, <1>6, <1>7, <1>8, <1>9, <1>10, <1>11 DEF SyInv, PeaceInv, FollowInv

LEMMA SyNextInv ==
  ASSUME SyInv, [Next]_vars
  PROVE  SyInv'
<1>1. ASSUME NEW c \in Clients, Connect(c) PROVE SyInv'
  BY <1>1, ConnectInv
<1>2. ASSUME NEW c \in Clients, Disconnect(c) PROVE SyInv'
  BY <1>2, DisconnectInv
<1>3. ASSUME NEW c \in Clients, Answer(c) PROVE SyInv'
  BY <1>3, AnswerInv
<1>4. ASSUME NEW c \in Clients, ReceiveReply(c) PROVE SyInv'
  BY <1>4, ReceiveReplyInv
<1>5. ASSUME NEW c \in Clients, Populate(c) PROVE SyInv'
  BY <1>5, PopulateInv
<1>6. ASSUME NEW c \in Clients, ReceiveEvent(c) PROVE SyInv'
  BY <1>6, ReceiveEventInv
<1>7. ASSUME NEW c \in Clients, NEW s \in Services, AddService(c, s) PROVE SyInv'
  BY <1>7, AddServiceInv
<1>8. ASSUME NEW c \in Clients, NEW s \in Services, Posts(c, s) PROVE SyInv'
  BY <1>8, PostsInv
<1>9. ASSUME NEW k \in 1 .. Len(notifying), Advance(k) PROVE SyInv'
  BY <1>9, AdvanceInv
<1>10. ASSUME UNCHANGED vars PROVE SyInv'
  <2>1. UNCHANGED <<order, info, monitors, clients, notifying, channel, sync, local, untold, disturbed>>
    BY <1>10 DEF vars
  <2>2. SyTypes' /\ OrderInv' /\ MonitorsInv'
    BY <2>1 DEF SyInv, SyTypes, OrderInv, Registered, MonitorsInv
  <2>3. Connected' = Connected
    BY <2>1 DEF Connected
  <2>4. CallsInOrder' /\ OneReply' /\ AbsentInv'
    BY <2>1, <2>3 DEF SyInv, CallsInOrder, OneReply, AbsentInv
  <2>5. PeaceInv'
    <3>1. \A y : KnowsRest(y)' <=> KnowsRest(y)
      BY <2>1 DEF KnowsRest, Registered
    <3>2. \A y : Reply(y)' = Reply(y)
      BY <2>1 DEF Reply
    <3> QED
      BY <2>1, <2>3, <3>1, <3>2 DEF SyInv, PeaceInv, SyncsInPeace
  <2>6. FollowInv'
    <3>1. ServerCopy' = ServerCopy
      BY <2>1 DEF ServerCopy
    <3>2. \A f, m : ComeFrom(f, m)' <=> ComeFrom(f, m)
      BY <2>1 DEF ComeFrom
    <3> QED
      BY <2>1, <2>3, <3>1, <3>2 DEF SyInv, FollowInv, Follows
  <2> QED
    BY <2>2, <2>4, <2>5, <2>6 DEF SyInv
<1> QED
  BY <1>1, <1>2, <1>3, <1>4, <1>5, <1>6, <1>7, <1>8, <1>9, <1>10 DEF Next

LEMMA SyInvImplies ==
  ASSUME SyInv
  PROVE  CopiesAgree
<1>1. SyTypes /\ OrderInv /\ MonitorsInv /\ CallsInOrder
  BY DEF SyInv
<1>2. TypeOK
  <2>1. \A c \in Clients : IsSync(sync[c]) /\ IsLocal(local[c])
    BY <1>1 DEF SyTypes
  <2>2. order \in Seq(Services) /\ IsInjective(order) /\ ToSet(monitors) = {c \in Clients : clients[c] # "none"}
    BY <1>1 DEF SyTypes, OrderInv, MonitorsInv
  <2>3. ASSUME NEW r \in {info[s] : s \in Services} \cup {local[c].info[s] : c \in Clients, s \in Services}
        PROVE  r \in Copies
    <3>1. \A s \in Services : info[s] \in Copies
      BY <1>1 DEF SyTypes
    <3>2. ASSUME NEW c \in Clients, NEW s \in Services PROVE local[c].info[s] \in Copies
      <4>1. PICK l : l = local[c]
        OBVIOUS
      <4>2. IsLocal(l)
        BY <2>1, <4>1
      <4>3. l.info \in [Services -> Copies]
        BY <4>2 DEF IsLocal
      <4> QED
        BY <4>1, <4>3
    <3> QED
      BY <3>1, <3>2
  <2>4. \A c \in Clients : sync[c].pc \in {"none", "asking", "waiting", "built", "synced"}
    BY <2>1 DEF IsSync
  <2>5. ASSUME NEW n \in ToSet(notifying) PROVE n.at \in 1 .. Len(monitors)
    <3>1. PICK k \in DOMAIN notifying : n = notifying[k]
      BY DEF ToSet
    <3> QED
      BY <1>1, <3>1, CallIs, Positions
  <2> QED
    BY <2>2, <2>3, <2>4, <2>5 DEF TypeOK, Copies
<1>3. ASSUME NEW c \in Connected \ (untold \cup disturbed), Quiet(c) PROVE UpToDate(c)
  <2>1. sync[c].pc = "synced" /\ channel[c] = <<>> /\ notifying = <<>>
    BY <1>3 DEF Quiet
  <2>2a. PICK m \in 1 .. (Len(notifying) + 1) :
            \E h : Leads(local[c], channel[c], notifying, m, h, ServerCopy)
    BY <2>1 DEF SyInv, FollowInv, Follows
  <2>2. PICK h : Leads(local[c], channel[c], notifying, m, h, ServerCopy)
    BY <2>2a
  <2>3. Len(notifying) = 0 /\ Len(channel[c]) = 0
    BY <2>1
  <2>4. m = 1
    BY <2>2, <2>3
  <2>5. local[c] = ServerCopy
    <3>1. h[0] = local[c] /\ h[Len(channel[c]) + (Len(notifying) - m + 1)] = ServerCopy
      BY <2>2 DEF Leads
    <3>2. Len(channel[c]) + (Len(notifying) - m + 1) = 0
      BY <2>3, <2>4
    <3> QED
      BY <3>1, <3>2
  <2>6. local[c].names = order /\ local[c].map = order /\ local[c].info = info
    BY <2>5 DEF ServerCopy
  <2>7. ASSUME NEW i \in DOMAIN order
        PROVE  local_service(local[c], order[i]) = info[order[i]] /\ numbered_service(local[c], i) = info[order[i]]
    <3>1. order[i] \in ToSet(order)
      BY ToSetIs
    <3>2. local_service(local[c], order[i]) = info[order[i]]
      BY <2>6, <3>1 DEF local_service
    <3> QED
      BY <2>6, <3>2 DEF numbered_service
  <2> QED
    BY <2>6, <2>7 DEF UpToDate, local_services
<1> QED
  BY <1>2, <1>3 DEF CopiesAgree, InSyncWhenQuiet

\* The copies of the services are well formed, and those of a client that synced in peace
\* and that no notification failed to reach are the server's once nothing is on its way to
\* it: names, numbers, statuses, messages with their counts and headlines (ServiceManager,
\* _notify_update and AsyncSupervisorClient), for any clients, services and notifications.
THEOREM CopiesAlwaysAgree == Spec => []CopiesAgree
<1>1. Init => SyInv
  BY SyInitInv
<1>2. SyInv /\ [Next]_vars => SyInv'
  BY SyNextInv
<1>3. SyInv => CopiesAgree
  BY SyInvImplies
<1> QED
  BY <1>1, <1>2, <1>3, PTL DEF Spec
=============================================================================
