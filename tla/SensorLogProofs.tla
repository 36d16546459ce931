--------------------------- MODULE SensorLogProofs ---------------------------
(***************************************************************************)
(* What the two areas of the sensor log hold, proved for all streams,      *)
(* selectors, walkers and sizes.  None of it depends on the walkers: even  *)
(* a push that dies half way leaves the areas bounded and in order.        *)
(***************************************************************************)
EXTENDS SensorLog, SequenceTheorems, TLAPS

\* The part of the state these proofs are about.
AreasType ==
    /\ data \in [Areas -> Seq([stream : BufferedStreams, tag : Nat])]
    /\ nextId \in Nat

\* Inductive: bounded, sorted by id, every id below nextId, each reading in the
\* area of its stream, and no id in both areas.
AreasInv == AreasType /\ BoundedAreas /\ UniqueIdsInOrder

StoredReading == [stream : BufferedStreams, tag : Nat]

-----------------------------------------------------------------------------

LEMMA AreaOfStream == \A s \in BufferedStreams : AreaOf(s) \in Areas
  BY DEF AreaOf, Areas

LEMMA CapacityIsNat == \A a \in Areas : Capacity(a) \in Nat /\ EraseSize <= Capacity(a)
  BY SizesAssumption DEF Capacity, Areas

LEMMA TagsAreNat ==
  ASSUME AreasType, NEW a \in Areas, NEW i \in DOMAIN data[a]
  PROVE  data[a][i].tag \in Nat
<1>1. data[a] \in Seq(StoredReading)
  BY DEF AreasType, StoredReading
<1>2. data[a][i] \in StoredReading
  BY <1>1
<1> QED
  BY <1>2 DEF StoredReading

\* What _erase_buffer keeps: readings EraseSize+1 onwards.
LEMMA KeptReadings ==
  ASSUME NEW S, NEW d \in Seq(S), NEW n \in Nat, n <= Len(d)
  PROVE  LET kept == SubSeq(d, n + 1, Len(d)) IN
         /\ kept \in Seq(S)
         /\ Len(kept) = Len(d) - n
         /\ \A i \in 1 .. Len(d) - n : kept[i] = d[n + i]
  OBVIOUS

\* Appending a reading with the next id to the newest readings of its own area,
\* all but the oldest n, keeps both areas in order.
AppendsNewest(s, n) ==
    LET d == data[AreaOf(s)] IN
    /\ n <= Len(d) /\ Len(d) - n < Capacity(AreaOf(s))
    /\ data' = [data EXCEPT ![AreaOf(s)] = Append(SubSeq(d, n + 1, Len(d)), NewReading(s))]
    /\ nextId' = nextId + 1

LEMMA AppendKeepsOrder ==
  ASSUME AreasInv, NEW s \in BufferedStreams, NEW n \in Nat, AppendsNewest(s, n)
  PROVE  AreasInv'
<1> DEFINE a == AreaOf(s)
           d == data[a]
           kept == SubSeq(d, n + 1, Len(d))
<1>1. a \in Areas
  BY AreaOfStream
<1>2. /\ d \in Seq(StoredReading) /\ NewReading(s) \in StoredReading
      /\ NewReading(s).tag = nextId /\ NewReading(s).stream = s
  BY <1>1 DEF AreasInv, AreasType, StoredReading, NewReading
<1>3. /\ kept \in Seq(StoredReading) /\ Len(kept) = Len(d) - n
      /\ \A i \in 1 .. Len(d) - n : kept[i] = d[n + i]
  BY <1>2, KeptReadings, Zenon DEF AppendsNewest
<1> DEFINE new == Append(kept, NewReading(s))
<1>0. Len(d) \in Nat /\ n <= Len(d) /\ Len(d) - n < Capacity(a)
  BY <1>2 DEF AppendsNewest
<1>4. /\ new \in Seq(StoredReading) /\ Len(new) = Len(d) - n + 1
      /\ \A i \in 1 .. Len(d) - n : new[i] = d[n + i]
      /\ new[Len(d) - n + 1] = NewReading(s)
  BY <1>0, <1>2, <1>3
<1>5. /\ data'[a] = new
      /\ \A b \in Areas : b # a => data'[b] = data[b]
  BY <1>1 DEF AreasInv, AreasType, AppendsNewest
<1> HIDE DEF new, kept, d
<1>6. AreasType'
  <2>1. data' \in [Areas -> Seq(StoredReading)]
    BY <1>4, <1>5, <1>1 DEF AreasInv, AreasType, StoredReading, AppendsNewest
  <2>2. nextId' \in Nat
    BY DEF AreasInv, AreasType, AppendsNewest
  <2> QED
    BY <2>1, <2>2 DEF AreasType, StoredReading
<1>7. BoundedAreas'
  <2>1. Len(d) \in Nat /\ Capacity(a) \in Nat
    BY <1>0, <1>1, CapacityIsNat
  <2>2. Len(data'[a]) <= Capacity(a)
    BY <2>1, <1>0, <1>4, <1>5
  <2> QED
    BY <2>2, <1>5 DEF AreasInv, BoundedAreas, Capacity
<1>8. UniqueIdsInOrder'
  <2>1. /\ \A i \in DOMAIN d : AreaOf(d[i].stream) = a /\ d[i].tag < nextId
        /\ \A i, j \in DOMAIN d : i < j => d[i].tag < d[j].tag
        /\ \A i \in DOMAIN d : d[i].tag \in Nat
    BY <1>1, TagsAreNat DEF AreasInv, UniqueIdsInOrder, d
  <2>2. DOMAIN d = 1 .. Len(d) /\ DOMAIN new = 1 .. Len(d) - n + 1 /\ Len(d) \in Nat
    BY <1>0, <1>2, <1>4
  <2>3. nextId \in Nat /\ nextId' = nextId + 1
    BY DEF AreasInv, AreasType, AppendsNewest
  <2>4. \A i \in DOMAIN new :
            \/ i <= Len(d) - n /\ n + i \in DOMAIN d /\ new[i] = d[n + i]
            \/ i = Len(d) - n + 1 /\ new[i].tag = nextId /\ new[i].stream = s
    BY <2>2, <1>0, <1>4, <1>2
  <2>5. \A i, j \in DOMAIN new :
            /\ AreaOf(new[i].stream) = a
            /\ new[i].tag < nextId + 1
            /\ i < j => new[i].tag < new[j].tag
    <3> SUFFICES ASSUME NEW i \in DOMAIN new, NEW j \in DOMAIN new
                 PROVE  /\ AreaOf(new[i].stream) = a
                        /\ new[i].tag < nextId + 1
                        /\ i < j => new[i].tag < new[j].tag
      OBVIOUS
    <3> i \in Nat /\ j \in Nat
      BY <2>2, <1>0
    <3>1. CASE i <= Len(d) - n /\ n + i \in DOMAIN d /\ new[i] = d[n + i]
      <4>1. AreaOf(new[i].stream) = a /\ new[i].tag < nextId /\ new[i].tag \in Nat
        BY <3>1, <2>1
      <4>2. ASSUME i < j PROVE new[i].tag < new[j].tag
        BY <3>1, <4>1, <4>2, <2>1, <2>4
      <4> QED
        BY <4>1, <4>2, <2>3
    <3>2. CASE i = Len(d) - n + 1 /\ new[i].tag = nextId /\ new[i].stream = s
      BY <3>2, <2>2, <2>3, <1>0
    <3> QED
      BY <3>1, <3>2, <2>4
  <2>6. \A b \in Areas : \A i, j \in DOMAIN data'[b] :
            /\ AreaOf(data'[b][i].stream) = b
            /\ data'[b][i].tag < nextId'
            /\ i < j => data'[b][i].tag < data'[b][j].tag
    <3> SUFFICES ASSUME NEW b \in Areas
                 PROVE  \A i, j \in DOMAIN data'[b] :
                          /\ AreaOf(data'[b][i].stream) = b
                          /\ data'[b][i].tag < nextId'
                          /\ i < j => data'[b][i].tag < data'[b][j].tag
      OBVIOUS
    <3>1. CASE b = a
      BY <3>1, <2>5, <2>3, <1>5
    <3>2. CASE b # a
      <4>1. data'[b] = data[b]
        BY <3>2, <1>5
      <4>2. \A i \in DOMAIN data[b] : data[b][i].tag \in Nat
        BY TagsAreNat DEF AreasInv
      <4> QED
        BY <4>1, <4>2, <2>3 DEF AreasInv, UniqueIdsInOrder
    <3> QED
      BY <3>1, <3>2
  <2>7. \A b \in Areas : b # a =>
            \A i \in DOMAIN new, j \in DOMAIN data[b] : new[i].tag # data[b][j].tag
    <3> SUFFICES ASSUME NEW b \in Areas, b # a, NEW i \in DOMAIN new, NEW j \in DOMAIN data[b]
                 PROVE  new[i].tag # data[b][j].tag
      OBVIOUS
    <3>1. data[b][j].tag < nextId /\ data[b][j].tag \in Nat
      BY TagsAreNat DEF AreasInv, UniqueIdsInOrder
    <3>2. \A m \in DOMAIN d : d[m].tag # data[b][j].tag
      BY <1>1 DEF AreasInv, UniqueIdsInOrder, Areas, d
    <3> QED
      BY <3>1, <3>2, <2>4, <2>3
  <2>8. \A i \in DOMAIN data'["storage"], j \in DOMAIN data'["streaming"] :
            data'["storage"][i].tag # data'["streaming"][j].tag
    <3>1. CASE a = "storage"
      BY <3>1, <2>7, <1>5 DEF Areas
    <3>2. CASE a = "streaming"
      BY <3>2, <2>7, <1>5 DEF Areas
    <3> QED
      BY <3>1, <3>2, <1>1 DEF Areas
  <2> QED
    BY <2>6, <2>8 DEF UniqueIdsInOrder, AreaOf
<1> QED
  BY <1>6, <1>7, <1>8 DEF AreasInv
-----------------------------------------------------------------------------

LEMMA AreasInit == Init => AreasInv
  BY SizesAssumption DEF Init, AreasInv, AreasType, BoundedAreas, UniqueIdsInOrder, Areas, Capacity

DropsOldest(a, n) ==
    /\ n <= Len(data[a])
    /\ data' = [data EXCEPT ![a] = SubSeq(data[a], n + 1, Len(data[a]))]
    /\ nextId' = nextId + 1

LEMMA DroppingKeepsOrder ==
  ASSUME AreasInv, NEW a \in Areas, NEW n \in Nat, DropsOldest(a, n)
  PROVE  AreasInv'
<1> DEFINE d == data[a]
           kept == SubSeq(d, n + 1, Len(d))
<1>1. d \in Seq(StoredReading)
  BY DEF AreasInv, AreasType, StoredReading
<1>2. /\ kept \in Seq(StoredReading) /\ Len(kept) = Len(d) - n
      /\ \A i \in 1 .. Len(d) - n : kept[i] = d[n + i]
  BY <1>1, KeptReadings, Zenon DEF DropsOldest
<1>3. /\ data'[a] = kept
      /\ \A b \in Areas : b # a => data'[b] = data[b]
  BY DEF AreasInv, AreasType, DropsOldest
<1>4. nextId \in Nat /\ nextId' = nextId + 1 /\ n <= Len(d)
  BY DEF AreasInv, AreasType, DropsOldest
<1>5. data' \in [Areas -> Seq(StoredReading)]
  BY <1>2, <1>3 DEF AreasInv, AreasType, StoredReading, DropsOldest
<1> HIDE DEF kept
\* Every reading left in an area was there before, at most n places later.
<1>6. \A b \in Areas : \E m \in Nat :
        \A i \in DOMAIN data'[b] : m + i \in DOMAIN data[b] /\ data'[b][i] = data[b][m + i] /\ i \in Nat
  <2> SUFFICES ASSUME NEW b \in Areas
               PROVE \E m \in Nat : \A i \in DOMAIN data'[b] :
                        m + i \in DOMAIN data[b] /\ data'[b][i] = data[b][m + i] /\ i \in Nat
    OBVIOUS
  <2>1. CASE b = a
    <3>1. \A i \in DOMAIN kept : n + i \in DOMAIN d /\ kept[i] = d[n + i] /\ i \in Nat
      BY <1>1, <1>2
    <3> QED
      BY <3>1, <2>1, <1>3
  <2>2. CASE b # a
    <3>1. data[b] \in Seq(StoredReading) /\ data'[b] = data[b]
      BY <2>2, <1>3 DEF AreasInv, AreasType, StoredReading
    <3>2. \A i \in DOMAIN data[b] : 0 + i \in DOMAIN data[b] /\ data[b][i] = data[b][0 + i] /\ i \in Nat
      BY <3>1
    <3> QED
      BY <3>1, <3>2
  <2> QED
    BY <2>1, <2>2
<1>7. BoundedAreas'
  <2>1. Len(kept) <= Len(d) /\ Len(d) <= Capacity(a) /\ Len(d) \in Nat /\ Capacity(a) \in Nat
    BY <1>1, <1>2, CapacityIsNat DEF AreasInv, BoundedAreas
  <2>2. \A b \in Areas : Len(data'[b]) <= Capacity(b)
    BY <2>1, <1>2, <1>3 DEF AreasInv, BoundedAreas
  <2> QED
    BY <2>2 DEF BoundedAreas, Capacity
<1>8. UniqueIdsInOrder'
  <2>1. \A b \in Areas : \A i, j \in DOMAIN data'[b] :
            /\ AreaOf(data'[b][i].stream) = b
            /\ data'[b][i].tag < nextId'
            /\ i < j => data'[b][i].tag < data'[b][j].tag
    <3> SUFFICES ASSUME NEW b \in Areas, NEW i \in DOMAIN data'[b], NEW j \in DOMAIN data'[b]
                 PROVE  /\ AreaOf(data'[b][i].stream) = b
                        /\ data'[b][i].tag < nextId'
                        /\ i < j => data'[b][i].tag < data'[b][j].tag
      OBVIOUS
    <3>1. PICK m \in Nat : \A k \in DOMAIN data'[b] :
              m + k \in DOMAIN data[b] /\ data'[b][k] = data[b][m + k] /\ k \in Nat
      BY <1>6
    <3>2. /\ AreaOf(data[b][m + i].stream) = b
          /\ data[b][m + i].tag < nextId /\ data[b][m + i].tag \in Nat
          /\ m + i < m + j => data[b][m + i].tag < data[b][m + j].tag
      BY <3>1, TagsAreNat DEF AreasInv, UniqueIdsInOrder
    <3>3. /\ i \in Nat /\ j \in Nat /\ m + j \in DOMAIN data[b]
          /\ data'[b][i] = data[b][m + i] /\ data'[b][j] = data[b][m + j]
      BY <3>1
    <3>4. i < j => m + i < m + j
      BY <3>3
    <3> QED
      BY <3>2, <3>3, <3>4, <1>4
  <2>2. \A i \in DOMAIN data'["storage"], j \in DOMAIN data'["streaming"] :
            data'["storage"][i].tag # data'["streaming"][j].tag
    BY <1>6 DEF AreasInv, UniqueIdsInOrder, Areas
  <2> QED
    BY <2>1, <2>2 DEF UniqueIdsInOrder, AreaOf
<1>9. nextId' \in Nat
  BY <1>4
<1> QED
  BY <1>5, <1>7, <1>8, <1>9 DEF AreasInv, AreasType, StoredReading

\* The five ways a push ends, and the one other call that touches the areas.
LEMMA CallsKeepAreas ==
  ASSUME AreasInv, Push \/ Configure \/ (\E w \in Walkers : Walk(w)) \/ UNCHANGED vars
  PROVE  AreasInv'
<1>0. ASSUME UNCHANGED <<data, nextId>> PROVE AreasInv'
  BY <1>0 DEF AreasInv, AreasType, BoundedAreas, UniqueIdsInOrder, Capacity, AreaOf
<1>1. ASSUME NEW s \in BufferedStreams, PushStored(s) PROVE AreasInv'
  <2>1. AreaOf(s) \in Areas /\ data[AreaOf(s)] \in Seq(StoredReading)
    BY AreaOfStream DEF AreasInv, AreasType, StoredReading
  <2>2. SubSeq(data[AreaOf(s)], 0 + 1, Len(data[AreaOf(s)])) = data[AreaOf(s)]
    BY <2>1
  <2>3. Len(data[AreaOf(s)]) - 0 < Capacity(AreaOf(s))
    BY <1>1, <2>1, CapacityIsNat DEF PushStored, Full, AreasInv, BoundedAreas
  <2>4. AppendsNewest(s, 0)
    <3>1. Len(data[AreaOf(s)]) \in Nat
      BY <2>1
    <3>2. /\ data' = [data EXCEPT ![AreaOf(s)] = Append(data[AreaOf(s)], NewReading(s))]
          /\ nextId' = nextId + 1
      BY <1>1 DEF PushStored, Store
    <3>3. data' = [data EXCEPT ![AreaOf(s)] =
                Append(SubSeq(data[AreaOf(s)], 0 + 1, Len(data[AreaOf(s)])), NewReading(s))]
      BY <3>2, <2>2, Zenon
    <3>4. 0 <= Len(data[AreaOf(s)])
      BY <3>1
    <3> QED
      BY <3>2, <3>3, <3>4, <2>3, Zenon DEF AppendsNewest
  <2> QED
    BY <2>4, AppendKeepsOrder
<1>2. ASSUME NEW s \in BufferedStreams, PushRefused(s) PROVE AreasInv'
  <2>1. \A b \in Areas : \A i \in DOMAIN data[b] : data[b][i].tag < nextId + 1
    <3>1. nextId \in Nat
      BY DEF AreasInv, AreasType
    <3> QED
      BY <3>1, TagsAreNat DEF AreasInv, UniqueIdsInOrder
  <2>2. data' = data /\ nextId' = nextId + 1
    BY <1>2 DEF PushRefused
  <2>3. AreasType' /\ BoundedAreas'
    <3>1. nextId' \in Nat
      BY <2>2 DEF AreasInv, AreasType
    <3>2. AreasType'
      BY <3>1, <2>2, Zenon DEF AreasInv, AreasType
    <3> QED
      BY <3>2, <2>2 DEF AreasInv, BoundedAreas, Capacity
  <2>4. UniqueIdsInOrder'
    BY <2>1, <2>2 DEF AreasInv, UniqueIdsInOrder, AreaOf
  <2> QED
    BY <2>3, <2>4 DEF AreasInv
<1>3. ASSUME NEW s \in BufferedStreams, PushRollover(s) PROVE AreasInv'
  <2>1. AreaOf(s) \in Areas /\ Len(data[AreaOf(s)]) = Capacity(AreaOf(s))
    BY <1>3, AreaOfStream DEF PushRollover, Full
  <2>2. EraseSize \in Nat /\ EraseSize >= 1 /\ Capacity(AreaOf(s)) \in Nat
        /\ EraseSize <= Capacity(AreaOf(s))
    BY <2>1, CapacityIsNat, SizesAssumption
  <2>3. AppendsNewest(s, EraseSize)
    BY <1>3, <2>1, <2>2 DEF AppendsNewest, PushRollover, Store
  <2> QED
    BY <2>2, <2>3, AppendKeepsOrder
<1>4. ASSUME NEW s \in BufferedStreams, PushOutOfSync(s) PROVE AreasInv'
  <2>1. AreaOf(s) \in Areas /\ Len(data[AreaOf(s)]) = Capacity(AreaOf(s))
    BY <1>4, AreaOfStream DEF PushOutOfSync, Full
  <2>2. EraseSize \in Nat /\ EraseSize <= Len(data[AreaOf(s)])
    BY <2>1, CapacityIsNat, SizesAssumption
  <2>3. DropsOldest(AreaOf(s), EraseSize)
    BY <1>4, <2>2 DEF PushOutOfSync, DropsOldest
  <2> QED
    BY <2>1, <2>2, <2>3, DroppingKeepsOrder
<1>5. CASE Clear
  BY <1>5, SizesAssumption DEF Clear, AreasInv, AreasType, BoundedAreas, UniqueIdsInOrder, Areas, Capacity
<1>6. ASSUME NEW s \in VirtualStreams, NEW v \in Values, PushVirtual(s, v) PROVE AreasInv'
  BY <1>6, <1>0 DEF PushVirtual
<1>7. ASSUME NEW a \in Areas, NEW e \in BOOLEAN, SetRollover(a, e) PROVE AreasInv'
  BY <1>7, <1>0 DEF SetRollover
<1>8. CASE DestroyAllWalkers
  BY <1>8, <1>0 DEF DestroyAllWalkers
<1>9. ASSUME NEW w \in Walkers, Walk(w) PROVE AreasInv'
  <2>1. UNCHANGED <<data, nextId>>
    BY <1>9 DEF Walk, CreateWalker, DestroyWalker, PopBuffered, PeekBuffered, PopVirtual,
                PeekVirtual, SkipAll, SeekOffset, SeekId
  <2> QED
    BY <2>1, <1>0
<1>10. CASE UNCHANGED vars
  BY <1>10, <1>0 DEF vars
<1> QED
  BY <1>1, <1>2, <1>3, <1>4, <1>5, <1>6, <1>7, <1>8, <1>9, <1>10 DEF Push, Configure

LEMMA AreasStep == AreasInv /\ [Next]_vars => AreasInv'
  BY CallsKeepAreas DEF Next

\* For all streams, walkers and sizes, neither area ever outgrows the device
\* model, and the ids in the two areas are distinct and in order, through every
\* sequence of push(), rollover, failed rollover, clear() and walker calls.
THEOREM AreasAreBoundedAndOrdered == Spec => [](BoundedAreas /\ UniqueIdsInOrder)
<1>1. AreasInv => BoundedAreas /\ UniqueIdsInOrder
  BY DEF AreasInv
<1> QED
  BY <1>1, AreasInit, AreasStep, PTL DEF Spec
-----------------------------------------------------------------------------
(* What a step may take away from an area. *)

LEMMA KeepsKept ==
  ASSUME NEW S, NEW d \in Seq(S), NEW n \in Nat, n <= Len(d)
  PROVE  KeepsSuffix(d, SubSeq(d, n + 1, Len(d)), n)
<1> DEFINE kept == SubSeq(d, n + 1, Len(d))
<1>1. kept \in Seq(S) /\ Len(kept) = Len(d) - n
  BY KeptReadings, Zenon
<1>2. SubSeq(kept, 1, Len(kept)) = kept
  BY <1>1
<1>3. Len(d) - n \in Nat
  OBVIOUS
<1> HIDE DEF kept
<1>4. SubSeq(kept, 1, Len(d) - n) = kept /\ Len(kept) >= Len(d) - n
  BY <1>1, <1>2, <1>3
<1> QED
  BY <1>4 DEF KeepsSuffix, kept

LEMMA KeepsAppended ==
  ASSUME NEW S, NEW d \in Seq(S), NEW n \in Nat, n <= Len(d), NEW r \in S
  PROVE  KeepsSuffix(d, Append(SubSeq(d, n + 1, Len(d)), r), n)
<1> DEFINE kept == SubSeq(d, n + 1, Len(d))
           new == Append(kept, r)
<1>1. kept \in Seq(S) /\ Len(kept) = Len(d) - n
  BY KeptReadings, Zenon
<1> HIDE DEF kept
<1>2. new \in Seq(S) /\ Len(new) = Len(d) - n + 1 /\ Len(d) - n \in Nat
  BY <1>1
<1>3. SubSeq(new, 1, Len(kept)) = kept
  BY <1>1
<1>4. SubSeq(new, 1, Len(d) - n) = kept /\ Len(new) >= Len(d) - n
  BY <1>1, <1>2, <1>3
<1> QED
  BY <1>4 DEF KeepsSuffix, kept

LEMMA KeepsAll ==
  ASSUME NEW S, NEW d \in Seq(S) PROVE KeepsSuffix(d, d, 0)
  BY DEF KeepsSuffix

LosesLittle ==
    \/ data' = [a \in Areas |-> <<>>]
    \/ \A a \in Areas :
        \E n \in (IF Full(a) /\ rollover[a] THEN {0, EraseSize} ELSE {0}) :
            KeepsSuffix(data[a], data'[a], n)

LEMMA StepsLoseLittle == AreasInv /\ [Next]_vars => LosesLittle
<1> SUFFICES ASSUME AreasInv, [Next]_vars PROVE LosesLittle
  OBVIOUS
<1>a. \A a \in Areas : data[a] \in Seq(StoredReading)
  BY DEF AreasInv, AreasType, StoredReading
<1>b. ASSUME NEW b \in Areas,
             NEW n \in (IF Full(b) /\ rollover[b] THEN {0, EraseSize} ELSE {0}),
             KeepsSuffix(data[b], data'[b], n),
             \A a \in Areas : a # b => data'[a] = data[a]
      PROVE  LosesLittle
  <2> SUFFICES ASSUME NEW a \in Areas
               PROVE  \E m \in (IF Full(a) /\ rollover[a] THEN {0, EraseSize} ELSE {0}) :
                        KeepsSuffix(data[a], data'[a], m)
    BY DEF LosesLittle
  <2>1. CASE a = b
    BY <2>1, <1>b
  <2>2. CASE a # b
    <3>1. KeepsSuffix(data[a], data'[a], 0)
      BY <2>2, <1>a, <1>b, KeepsAll
    <3> QED
      BY <3>1
  <2> QED
    BY <2>1, <2>2
<1>0. ASSUME UNCHANGED data PROVE LosesLittle
  <2>1. \A a \in Areas : KeepsSuffix(data[a], data'[a], 0)
    BY <1>0, <1>a, KeepsAll
  <2> QED
    BY <2>1 DEF LosesLittle
<1>c. ASSUME NEW s \in BufferedStreams PROVE NewReading(s) \in StoredReading
  BY DEF NewReading, StoredReading, AreasInv, AreasType
<1>1. ASSUME NEW s \in BufferedStreams, PushStored(s) PROVE LosesLittle
  <2> DEFINE a == AreaOf(s)
  <2>1. a \in Areas /\ data[a] \in Seq(StoredReading)
    BY AreaOfStream, <1>a
  <2>2. data' = [data EXCEPT ![a] = Append(data[a], NewReading(s))]
    BY <1>1 DEF PushStored, Store
  <2>3. SubSeq(data[a], 0 + 1, Len(data[a])) = data[a] /\ 0 <= Len(data[a])
    BY <2>1
  <2>4. KeepsSuffix(data[a], Append(SubSeq(data[a], 0 + 1, Len(data[a])), NewReading(s)), 0)
    BY <2>1, <2>3, <1>c, KeepsAppended
  <2>5. KeepsSuffix(data[a], Append(data[a], NewReading(s)), 0)
    BY <2>3, <2>4, Zenon
  <2>6. /\ data'[a] = Append(data[a], NewReading(s))
        /\ \A b \in Areas : b # a => data'[b] = data[b]
    BY <2>1, <2>2 DEF AreasInv, AreasType
  <2> QED
    BY <2>1, <2>5, <2>6, <1>b
<1>2. ASSUME NEW s \in BufferedStreams, PushRefused(s) PROVE LosesLittle
  BY <1>2, <1>0 DEF PushRefused
<1>3. ASSUME NEW s \in BufferedStreams, PushRollover(s) PROVE LosesLittle
  <2> DEFINE a == AreaOf(s)
             new == Append(SubSeq(data[a], EraseSize + 1, Len(data[a])), NewReading(s))
  <2>1. a \in Areas /\ Full(a) /\ rollover[a] /\ data' = [data EXCEPT ![a] = new]
    BY <1>3, AreaOfStream DEF PushRollover, Store, FillStop
  <2>2. EraseSize \in Nat /\ EraseSize <= Len(data[a])
    BY <2>1, CapacityIsNat, SizesAssumption DEF Full
  <2>3. KeepsSuffix(data[a], new, EraseSize)
    BY <2>1, <2>2, <1>a, <1>c, KeepsAppended
  <2>4. data'[a] = new /\ \A b \in Areas : b # a => data'[b] = data[b]
    BY <2>1 DEF AreasInv, AreasType
  <2> HIDE DEF new, a
  <2>5. KeepsSuffix(data[a], data'[a], EraseSize)
    BY <2>3, <2>4, Zenon
  <2> QED
    BY <2>1, <2>4, <2>5, <1>b
<1>4. ASSUME NEW s \in BufferedStreams, PushOutOfSync(s) PROVE LosesLittle
  <2> DEFINE a == AreaOf(s)
             new == SubSeq(data[a], EraseSize + 1, Len(data[a]))
  <2>1. a \in Areas /\ Full(a) /\ rollover[a] /\ data' = [data EXCEPT ![a] = new]
    BY <1>4, AreaOfStream DEF PushOutOfSync, FillStop
  <2>2. EraseSize \in Nat /\ EraseSize <= Len(data[a])
    BY <2>1, CapacityIsNat, SizesAssumption DEF Full
  <2>3. KeepsSuffix(data[a], new, EraseSize)
    BY <2>1, <2>2, <1>a, KeepsKept
  <2>4. data'[a] = new /\ \A b \in Areas : b # a => data'[b] = data[b]
    BY <2>1 DEF AreasInv, AreasType
  <2> HIDE DEF new, a
  <2>5. KeepsSuffix(data[a], data'[a], EraseSize)
    BY <2>3, <2>4, Zenon
  <2> QED
    BY <2>1, <2>4, <2>5, <1>b
<1>5. CASE Clear
  BY <1>5 DEF Clear, LosesLittle
<1>6. ASSUME NEW s \in VirtualStreams, NEW v \in Values, PushVirtual(s, v) PROVE LosesLittle
  BY <1>6, <1>0 DEF PushVirtual
<1>7. ASSUME NEW a \in Areas, NEW e \in BOOLEAN, SetRollover(a, e) PROVE LosesLittle
  BY <1>7, <1>0 DEF SetRollover
<1>8. CASE DestroyAllWalkers
  BY <1>8, <1>0 DEF DestroyAllWalkers
<1>9. ASSUME NEW w \in Walkers, Walk(w) PROVE LosesLittle
  <2>1. UNCHANGED data
    BY <1>9 DEF Walk, CreateWalker, DestroyWalker, PopBuffered, PeekBuffered, PopVirtual,
                PeekVirtual, SkipAll, SeekOffset, SeekId
  <2> QED
    BY <2>1, <1>0
<1>10. CASE UNCHANGED vars
  BY <1>10, <1>0 DEF vars
<1> QED
  BY <1>1, <1>2, <1>3, <1>4, <1>5, <1>6, <1>7, <1>8, <1>9, <1>10 DEF Next, Push, Configure

\* In fill-stop mode no stored reading is ever lost but by clear(); in ring-buffer
\* mode a push to a full area takes the oldest EraseSize readings and no others,
\* also when notify_rollover() raises in the middle of it.
THEOREM LossIsBounded == Spec => OnlyRolloverLosesReadings
<1>1. AreasInv /\ [Next]_vars => [LosesLittle]_vars
  BY StepsLoseLittle
<1>2. Spec => [][LosesLittle]_vars
  BY <1>1, AreasInit, AreasStep, PTL DEF Spec
<1> QED
  BY <1>2 DEF LosesLittle, OnlyRolloverLosesReadings
=============================================================================
