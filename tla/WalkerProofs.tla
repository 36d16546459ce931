----------------------------- MODULE WalkerProofs -----------------------------
(***************************************************************************)
(* The buffered walkers of the sensor log, proved for all streams,         *)
(* selectors, walkers and sizes: their counts agree with what is stored    *)
(* until a rollover breaks them, and as long as they do each walker is the *)
(* private FIFO of module WalkerFifo; and what a restore gives back of a   *)
(* dump, whatever happened to the log in between.                          *)
(***************************************************************************)
EXTENDS SensorLogProofs, SensorLogDump, FiniteSetTheorems

-----------------------------------------------------------------------------
(* Numbers: a least and a greatest one. *)

LEMMA LeastNat ==
  ASSUME NEW T \in SUBSET Nat, T # {}
  PROVE  \E x \in T : \A y \in T : x <= y
<1> DEFINE F == {0 .. x : x \in T}
           R == StrictSubsetOrdering(Nat)
<1>1. F \subseteq FiniteSubsetsOf(Nat) /\ F # {}
  <2>1. \A x \in T : 0 .. x \in SUBSET Nat /\ IsFiniteSet(0 .. x)
    BY FS_Interval
  <2> QED
    BY <2>1 DEF FiniteSubsetsOf
<1>2. IsWellFoundedOn(R, FiniteSubsetsOf(Nat))
  BY FS_StrictSubsetOrderingWellFounded
<1> HIDE DEF R, F
<1>3. PICK A \in F : \A B \in F : ~ (<<B, A>> \in R)
  BY <1>1, <1>2, WFMin
<1>4. PICK x \in T : A = 0 .. x
  BY DEF F
<1>5. ASSUME NEW y \in T, y < x PROVE FALSE
  <2>1. 0 .. y \in F /\ 0 .. y \subseteq 0 .. x /\ x \in 0 .. x /\ x \notin 0 .. y
    BY <1>5 DEF F
  <2>2. <<0 .. y, 0 .. x>> \in (SUBSET Nat) \X (SUBSET Nat) /\ 0 .. y # 0 .. x
    BY <2>1
  <2>3. <<0 .. y, 0 .. x>> \in R
    BY <2>1, <2>2 DEF R, StrictSubsetOrdering
  <2> QED
    BY <1>3, <1>4, <2>1, <2>3
<1> QED
  BY <1>5

LEMMA LeastInt ==
  ASSUME NEW k \in Int, NEW T \in SUBSET Int, T # {}, \A i \in T : k <= i
  PROVE  Min(T) \in T /\ \A i \in T : Min(T) <= i
<1> DEFINE D == {i \in Nat : k + i \in T}
<1>1. PICK t \in T : TRUE
  OBVIOUS
<1>2. D \in SUBSET Nat /\ t - k \in D
  OBVIOUS
<1>3. PICK x \in D : \A y \in D : x <= y
  BY <1>2, LeastNat
<1>4. \A i \in T : i - k \in D
  OBVIOUS
<1>5. k + x \in T /\ \A i \in T : k + x <= i
  BY <1>3, <1>4
<1> QED
  BY <1>5 DEF Min

LEMMA GreatestNat ==
  ASSUME NEW n \in Nat, NEW T \in SUBSET (0 .. n - 1), T # {}
  PROVE  \E x \in T : \A y \in T : y <= x
<1> DEFINE D == {i \in Nat : \A y \in T : y < i}
<1>1. D \in SUBSET Nat /\ n \in D
  OBVIOUS
<1>2. PICK m \in D : \A i \in D : m <= i
  BY <1>1, LeastNat
<1>3. PICK t \in T : TRUE
  OBVIOUS
<1>4. m >= 1 /\ m - 1 \in Nat /\ m - 1 \notin D
  BY <1>2, <1>3
<1>5. PICK x \in T : ~(x < m - 1)
  BY <1>4
<1>6. \A y \in T : y < m
  BY <1>2
<1>7. x = m - 1
  BY <1>2, <1>5, <1>6
<1> QED
  BY <1>6, <1>7

-----------------------------------------------------------------------------
(* Counting the readings that a walker has ahead. *)

LEMMA CountIsNat ==
  ASSUME NEW S, NEW d \in Seq(S), NEW k \in Int, NEW sel
  PROVE  /\ Hits(sel, d, k) \in SUBSET Int /\ \A i \in Hits(sel, d, k) : k <= i
         /\ IsFiniteSet(Hits(sel, d, k))
         /\ CountMatching(sel, d, k) = Cardinality(Hits(sel, d, k))
         /\ CountMatching(sel, d, k) \in Nat
         /\ CountMatching(sel, d, k) = 0 <=> Hits(sel, d, k) = {}
<1>1. Hits(sel, d, k) \in SUBSET (k .. Len(d) - 1) /\ Len(d) - 1 \in Int
  BY DEF Hits
<1>2. IsFiniteSet(Hits(sel, d, k))
  BY <1>1, FS_Interval, FS_Subset
<1>3. CountMatching(sel, d, k) = Cardinality(Hits(sel, d, k))
  BY DEF CountMatching, Hits
<1>4. Hits(sel, d, k) \in SUBSET Int /\ \A i \in Hits(sel, d, k) : k <= i
  BY <1>1
<1> HIDE DEF Hits, CountMatching
<1> QED
  BY <1>2, <1>3, <1>4, FS_CardinalityType, FS_EmptySet

LEMMA CountIsNatFromStart ==
  ASSUME NEW S
  PROVE  \A d \in Seq(S) : \A sel : CountMatching(sel, d, 0) \in Nat
<1> SUFFICES ASSUME NEW d \in Seq(S), NEW sel PROVE CountMatching(sel, d, 0) \in Nat
  OBVIOUS
<1>1. 0 \in Int
  OBVIOUS
<1> QED
  BY <1>1, CountIsNat

\* From the first reading on a place is an offset, and At finds the reading there.
LEMMA HitsAhead ==
  ASSUME NEW S, NEW d \in Seq(S), NEW k \in Nat, NEW sel
  PROVE  \A i : i \in Hits(sel, d, k) <=> i \in k .. Len(d) - 1 /\ d[i + 1].stream \in sel
  BY DEF Hits, At

LEMMA CountAfterAppend ==
  ASSUME NEW S, NEW d \in Seq(S), NEW r \in S, NEW k \in 0 .. Len(d), NEW sel
  PROVE  CountMatching(sel, Append(d, r), k) =
           IF r.stream \in sel THEN CountMatching(sel, d, k) + 1 ELSE CountMatching(sel, d, k)
<1> DEFINE e == Append(d, r)
<1>1. /\ e \in Seq(S) /\ Len(e) = Len(d) + 1 /\ Len(d) \in Nat /\ k \in Nat
      /\ \A i \in 1 .. Len(d) : e[i] = d[i]
      /\ e[Len(d) + 1] = r
  OBVIOUS
<1> HIDE DEF e
<1>2. \A i : i \in Hits(sel, e, k) <=> i \in k .. Len(d) /\ e[i + 1].stream \in sel
  BY <1>1, HitsAhead
<1>3. \A i : i \in Hits(sel, d, k) <=> i \in k .. Len(d) - 1 /\ d[i + 1].stream \in sel
  BY <1>1, HitsAhead
<1>4. \A i \in k .. Len(d) : i = Len(d) \/ (i \in k .. Len(d) - 1 /\ i + 1 \in 1 .. Len(d))
  BY <1>1
<1>5. Len(d) \in k .. Len(d) /\ Len(d) \notin k .. Len(d) - 1 /\ \A i \in k .. Len(d) - 1 : i \in k .. Len(d)
  BY <1>1
<1>6. /\ r.stream \in sel => Hits(sel, e, k) = Hits(sel, d, k) \cup {Len(d)}
      /\ r.stream \notin sel => Hits(sel, e, k) = Hits(sel, d, k)
  <2>1. \A i \in k .. Len(d) - 1 : e[i + 1] = d[i + 1]
    BY <1>1
  <2>2. \A i : i \in Hits(sel, e, k) <=> i \in Hits(sel, d, k) \/ (i = Len(d) /\ r.stream \in sel)
    BY <1>1, <1>2, <1>3, <1>4, <1>5, <2>1, Zenon
  <2> QED
    BY <2>2
<1>7. Len(d) \notin Hits(sel, d, k)
  BY <1>3, <1>5
<1>8. /\ IsFiniteSet(Hits(sel, d, k))
      /\ CountMatching(sel, d, k) = Cardinality(Hits(sel, d, k))
      /\ CountMatching(sel, e, k) = Cardinality(Hits(sel, e, k))
  BY <1>1, CountIsNat
<1>9. Cardinality(Hits(sel, d, k) \cup {Len(d)}) = Cardinality(Hits(sel, d, k)) + 1
  BY <1>7, <1>8, FS_AddElement
<1> QED
  BY <1>6, <1>8, <1>9 DEF e

LEMMA CountAfterDrop ==
  ASSUME NEW S, NEW d \in Seq(S), NEW n \in Nat, NEW k \in Nat, n <= k, k <= Len(d), NEW sel
  PROVE  CountMatching(sel, SubSeq(d, n + 1, Len(d)), k - n) = CountMatching(sel, d, k)
<1> DEFINE e == SubSeq(d, n + 1, Len(d))
           f == [i \in Hits(sel, d, k) |-> i - n]
<1>0. n <= Len(d)
  OBVIOUS
<1>1. e \in Seq(S) /\ Len(e) = Len(d) - n /\ \A i \in 1 .. Len(d) - n : e[i] = d[n + i]
  BY <1>0, KeptReadings, Zenon
<1>2. Len(d) \in Nat /\ k - n \in Nat /\ Len(e) \in Nat
  BY <1>1
<1> HIDE DEF e
<1>3. \A i : i \in Hits(sel, d, k) <=> i \in k .. Len(d) - 1 /\ d[i + 1].stream \in sel
  BY HitsAhead
<1>4. \A i : i \in Hits(sel, e, k - n) <=> i \in k - n .. Len(d) - n - 1 /\ e[i + 1].stream \in sel
  BY <1>1, <1>2, HitsAhead
<1>5. \A i \in k - n .. Len(d) - n - 1 : e[i + 1] = d[i + n + 1] /\ i + n \in k .. Len(d) - 1
  BY <1>1, <1>2
<1>6. \A i \in Hits(sel, e, k - n) : i \in Int /\ i + n \in Hits(sel, d, k)
  <2> SUFFICES ASSUME NEW i \in Hits(sel, e, k - n) PROVE i \in Int /\ i + n \in Hits(sel, d, k)
    OBVIOUS
  <2>1. i \in k - n .. Len(d) - n - 1 /\ e[i + 1].stream \in sel
    BY <1>4
  <2>2. e[i + 1] = d[i + n + 1] /\ i + n \in k .. Len(d) - 1
    BY <1>5, <2>1
  <2>3. i \in Int
    BY <1>2, <2>1
  <2> QED
    BY <1>3, <2>1, <2>2, <2>3
<1>7. \A i \in Hits(sel, d, k) : i \in Int /\ i - n \in Hits(sel, e, k - n)
  <2> SUFFICES ASSUME NEW i \in Hits(sel, d, k) PROVE i \in Int /\ i - n \in Hits(sel, e, k - n)
    OBVIOUS
  <2>1. i \in k .. Len(d) - 1 /\ d[i + 1].stream \in sel
    BY <1>3
  <2>2. i - n \in k - n .. Len(d) - n - 1 /\ i - n + n + 1 = i + 1 /\ i \in Int
    BY <1>2, <2>1
  <2>3. e[i - n + 1] = d[i + 1]
    <3>1. e[i - n + 1] = d[i - n + n + 1]
      BY <1>5, <2>2
    <3> QED
      BY <2>2, <3>1
  <2> QED
    BY <1>4, <2>1, <2>2, <2>3
<1>8. f \in Bijection(Hits(sel, d, k), Hits(sel, e, k - n))
  <2>1. f \in [Hits(sel, d, k) -> Hits(sel, e, k - n)]
    BY <1>7
  <2>2. \A i, j \in Hits(sel, d, k) : f[i] = f[j] => i = j
    BY <1>7
  <2>3. \A i \in Hits(sel, e, k - n) : \E j \in Hits(sel, d, k) : f[j] = i
    BY <1>6
  <2> QED
    BY <2>1, <2>2, <2>3 DEF Bijection, Injection, Surjection, IsInjective
<1>9. /\ IsFiniteSet(Hits(sel, d, k))
      /\ CountMatching(sel, d, k) = Cardinality(Hits(sel, d, k))
      /\ CountMatching(sel, e, k - n) = Cardinality(Hits(sel, e, k - n))
  BY <1>1, <1>2, CountIsNat
<1>10. Cardinality(Hits(sel, e, k - n)) = Cardinality(Hits(sel, d, k))
  BY <1>8, <1>9, FS_Bijection DEF ExistsBijection
<1> QED
  BY <1>9, <1>10 DEF e

\* The matching readings of d are all counted by the last of them.
LEMMA LastIsCounted ==
  ASSUME NEW S, NEW d \in Seq(S), NEW sel, CountMatching(sel, d, 0) # 0
  PROVE  \E j \in 1 .. Len(d) : /\ d[j].stream \in sel
                                /\ CountMatching(sel, SubSeq(d, 1, j), 0) = CountMatching(sel, d, 0)
<1>1. Len(d) \in Nat /\ Hits(sel, d, 0) # {}
  BY CountIsNat
<1>2. \A i : i \in Hits(sel, d, 0) <=> i \in 0 .. Len(d) - 1 /\ d[i + 1].stream \in sel
  BY HitsAhead
<1>3. Hits(sel, d, 0) \in SUBSET (0 .. Len(d) - 1)
  BY <1>2
<1>4. PICK m \in Hits(sel, d, 0) : \A i \in Hits(sel, d, 0) : i <= m
  BY <1>1, <1>3, GreatestNat
<1>5. m \in 0 .. Len(d) - 1 /\ m + 1 \in 1 .. Len(d) /\ d[m + 1].stream \in sel /\ m + 1 \in Nat
  BY <1>1, <1>2
<1> DEFINE e == SubSeq(d, 1, m + 1)
<1>6. e \in Seq(S) /\ Len(e) = m + 1 /\ \A i \in 1 .. m + 1 : e[i] = d[i]
  BY <1>5
<1> HIDE DEF e
<1>7. \A i : i \in Hits(sel, e, 0) <=> i \in 0 .. m + 1 - 1 /\ e[i + 1].stream \in sel
  BY <1>6, HitsAhead
<1>8. Hits(sel, e, 0) = Hits(sel, d, 0)
  <2>1. ASSUME NEW i \in Hits(sel, e, 0) PROVE i \in Hits(sel, d, 0)
    <3>1. i \in 0 .. m + 1 - 1 /\ e[i + 1].stream \in sel
      BY <1>7
    <3>2. i \in 0 .. Len(d) - 1 /\ i + 1 \in 1 .. m + 1
      BY <1>1, <1>5, <3>1
    <3> QED
      BY <1>2, <1>6, <3>1, <3>2
  <2>2. ASSUME NEW i \in Hits(sel, d, 0) PROVE i \in Hits(sel, e, 0)
    <3>1. i \in 0 .. Len(d) - 1 /\ d[i + 1].stream \in sel /\ i <= m
      BY <1>2, <1>4
    <3>2. i \in 0 .. m + 1 - 1 /\ i + 1 \in 1 .. m + 1
      BY <1>1, <1>5, <3>1
    <3> QED
      BY <1>6, <1>7, <3>1, <3>2
  <2> QED
    BY <2>1, <2>2
<1>9. CountMatching(sel, e, 0) = CountMatching(sel, d, 0)
  BY <1>6, <1>8, CountIsNat
<1> QED
  BY <1>5, <1>9 DEF e

\* A walker that no call of notify_rollover finds out of sync has counted what is erased.
LEMMA NoCountIsExceeded ==
  ASSUME NEW S, NEW d \in Seq(S), NEW sel, NEW n \in 0 .. Len(d), NEW count \in Nat,
         \A j \in 1 .. n : d[j].stream \in sel => CountMatching(sel, SubSeq(d, 1, j), 0) <= count
  PROVE  count - CountMatching(sel, SubSeq(d, 1, n), 0) \in Nat
<1> DEFINE e == SubSeq(d, 1, n)
<1>1. e \in Seq(S) /\ Len(e) = n /\ n \in Nat /\ \A i \in 1 .. n : e[i] = d[i]
  OBVIOUS
<1>2. \A j \in 1 .. n : SubSeq(e, 1, j) = SubSeq(d, 1, j)
  OBVIOUS
<1> HIDE DEF e
<1>3. CountMatching(sel, e, 0) \in Nat
  BY <1>1, CountIsNat
<1>4. CASE CountMatching(sel, e, 0) = 0
  BY <1>4 DEF e
<1>5. CASE CountMatching(sel, e, 0) # 0
  <2>1. PICK j \in 1 .. n : e[j].stream \in sel /\ CountMatching(sel, SubSeq(e, 1, j), 0) = CountMatching(sel, e, 0)
    BY <1>1, <1>5, LastIsCounted
  <2>2. CountMatching(sel, e, 0) <= count
    BY <1>1, <1>2, <2>1
  <2> QED
    BY <1>3, <2>2 DEF e
<1> QED
  BY <1>4, <1>5

-----------------------------------------------------------------------------
(* The walkers as FIFOs: what is unread, and how each call changes it. *)

\* The readings of d from offset k on that sel matches.
Ahead(sel, d, k) == {d[i] : i \in {j \in k + 1 .. Len(d) : d[j].stream \in sel}}

LEMMA UnreadIsAhead ==
  ASSUME NEW w
  PROVE  UnreadBy(w) = IF w \in Elements(queueWalkers) \ rolled
                       THEN Ahead(wk[w].sel, data[AreaOfSelector(wk[w].sel)], wk[w].offset)
                       ELSE {}
  BY DEF UnreadBy, Ahead

LEMMA UnreadIsAheadNext ==
  ASSUME NEW w
  PROVE  UnreadBy(w)' = IF w \in Elements(queueWalkers') \ rolled'
                        THEN Ahead(wk'[w].sel, data'[AreaOfSelector(wk'[w].sel)], wk'[w].offset)
                        ELSE {}
  BY DEF UnreadBy, Ahead, Elements, AreaOfSelector

LEMMA AheadAfterAppend ==
  ASSUME NEW S, NEW d \in Seq(S), NEW r \in S, NEW k \in 0 .. Len(d), NEW sel
  PROVE  Ahead(sel, Append(d, r), k) =
           IF r.stream \in sel THEN Ahead(sel, d, k) \cup {r} ELSE Ahead(sel, d, k)
<1> DEFINE e == Append(d, r)
           D == {j \in k + 1 .. Len(d) : d[j].stream \in sel}
           E == {j \in k + 1 .. Len(e) : e[j].stream \in sel}
<1>1. /\ Len(e) = Len(d) + 1 /\ Len(d) \in Nat /\ k \in Nat
      /\ \A i \in 1 .. Len(d) : e[i] = d[i]
      /\ e[Len(d) + 1] = r
  OBVIOUS
<1> HIDE DEF e
<1>2. /\ \A i \in k + 1 .. Len(d) : i \in k + 1 .. Len(e) /\ i \in 1 .. Len(d)
      /\ \A i \in k + 1 .. Len(e) : i \in k + 1 .. Len(d) \/ i = Len(d) + 1
      /\ Len(d) + 1 \in k + 1 .. Len(e)
  BY <1>1
<1>3. \A i \in D : i \in E /\ e[i] = d[i]
  BY <1>1, <1>2
<1>4. \A i \in E : (i \in D /\ e[i] = d[i]) \/ (i = Len(d) + 1 /\ e[i] = r /\ r.stream \in sel)
  BY <1>1, <1>2
<1>5. r.stream \in sel => Len(d) + 1 \in E
  BY <1>1, <1>2
<1>6. Ahead(sel, d, k) = {d[i] : i \in D} /\ Ahead(sel, e, k) = {e[i] : i \in E}
  BY DEF Ahead
<1> HIDE DEF D, E
<1>7. CASE r.stream \in sel
  <2>1. \A x \in {e[i] : i \in E} : x \in {d[i] : i \in D} \cup {r}
    BY <1>4
  <2>2. \A x \in {d[i] : i \in D} \cup {r} : x \in {e[i] : i \in E}
    BY <1>1, <1>3, <1>5, <1>7
  <2> QED
    BY <1>6, <1>7, <2>1, <2>2 DEF e
<1>8. CASE r.stream \notin sel
  <2>1. \A x \in {e[i] : i \in E} : x \in {d[i] : i \in D}
    BY <1>4, <1>8
  <2>2. \A x \in {d[i] : i \in D} : x \in {e[i] : i \in E}
    BY <1>3
  <2> QED
    BY <1>6, <1>8, <2>1, <2>2 DEF e
<1> QED
  BY <1>7, <1>8

LEMMA AheadAfterDrop ==
  ASSUME NEW S, NEW d \in Seq(S), NEW n \in Nat, NEW k \in Nat, n <= k, k <= Len(d), NEW sel
  PROVE  Ahead(sel, SubSeq(d, n + 1, Len(d)), k - n) = Ahead(sel, d, k)
<1> DEFINE e == SubSeq(d, n + 1, Len(d))
           D == {j \in k + 1 .. Len(d) : d[j].stream \in sel}
           E == {j \in k - n + 1 .. Len(e) : e[j].stream \in sel}
<1>0. n <= Len(d) /\ Len(d) \in Nat
  OBVIOUS
<1>1. Len(e) = Len(d) - n /\ \A i \in 1 .. Len(d) - n : e[i] = d[n + i]
  BY <1>0, KeptReadings, Zenon
<1> HIDE DEF e
<1>2. \A i \in k - n + 1 .. Len(e) : i + n \in k + 1 .. Len(d) /\ e[i] = d[i + n]
  BY <1>0, <1>1
<1>3. \A i \in k + 1 .. Len(d) : i - n \in k - n + 1 .. Len(e) /\ e[i - n] = d[i]
  BY <1>0, <1>1
<1>4. \A i \in E : i + n \in D /\ e[i] = d[i + n]
  BY <1>2
<1>5. \A i \in D : i - n \in E /\ e[i - n] = d[i]
  BY <1>3
<1>6. Ahead(sel, d, k) = {d[i] : i \in D} /\ Ahead(sel, e, k - n) = {e[i] : i \in E}
  BY DEF Ahead
<1> HIDE DEF D, E
<1>7. \A x \in {e[i] : i \in E} : x \in {d[i] : i \in D}
  BY <1>4
<1>8. \A x \in {d[i] : i \in D} : x \in {e[i] : i \in E}
  BY <1>5
<1> QED
  BY <1>6, <1>7, <1>8 DEF e

\* Of readings in order of their tags the first one ahead has the least tag.
LEMMA AheadAfterTake ==
  ASSUME NEW S, NEW d \in Seq(S), NEW k \in Nat, NEW sel, NEW m \in Hits(sel, d, k),
         \A i \in Hits(sel, d, k) : m <= i,
         \A i \in DOMAIN d : d[i].tag \in Nat,
         \A i, j \in DOMAIN d : i < j => d[i].tag < d[j].tag
  PROVE  /\ d[m + 1] \in Ahead(sel, d, k)
         /\ \A q \in Ahead(sel, d, k) : d[m + 1].tag <= q.tag
         /\ Ahead(sel, d, m + 1) = Ahead(sel, d, k) \ {d[m + 1]}
<1> DEFINE D == {j \in k + 1 .. Len(d) : d[j].stream \in sel}
           E == {j \in m + 1 + 1 .. Len(d) : d[j].stream \in sel}
<1>1. \A i : i \in Hits(sel, d, k) <=> i \in k .. Len(d) - 1 /\ d[i + 1].stream \in sel
  BY HitsAhead
<1>2. m \in k .. Len(d) - 1 /\ d[m + 1].stream \in sel /\ Len(d) \in Nat /\ DOMAIN d = 1 .. Len(d)
  BY <1>1
<1>3. m + 1 \in D /\ m + 1 \in DOMAIN d
  BY <1>2
<1>4. \A j \in D : j \in DOMAIN d /\ m + 1 <= j
  <2> SUFFICES ASSUME NEW j \in D PROVE j \in DOMAIN d /\ m + 1 <= j
    OBVIOUS
  <2>1. j \in k + 1 .. Len(d) /\ d[j].stream \in sel
    OBVIOUS
  <2>2. j - 1 \in k .. Len(d) - 1 /\ j - 1 + 1 = j /\ j \in DOMAIN d
    BY <1>2, <2>1
  <2>3. j - 1 \in Hits(sel, d, k)
    BY <1>1, <2>1, <2>2
  <2>4. m <= j - 1
    BY <2>3
  <2> QED
    BY <1>2, <2>1, <2>2, <2>4
<1>5. \A j \in D : j # m + 1 => d[m + 1].tag < d[j].tag /\ j \in E
  <2> SUFFICES ASSUME NEW j \in D, j # m + 1 PROVE d[m + 1].tag < d[j].tag /\ j \in E
    OBVIOUS
  <2>1. j \in Int /\ m + 1 < j /\ j <= Len(d) /\ d[j].stream \in sel
    BY <1>2, <1>4
  <2> QED
    BY <1>2, <1>3, <1>4, <2>1
<1>6. \A j \in E : j \in D /\ j # m + 1
  BY <1>2
<1>7. Ahead(sel, d, k) = {d[i] : i \in D} /\ Ahead(sel, d, m + 1) = {d[i] : i \in E}
  BY DEF Ahead
<1> HIDE DEF D, E
<1>8. \A j \in D : d[j].tag \in Nat
  BY <1>4
<1>9. \A x \in {d[i] : i \in D} : d[m + 1].tag <= x.tag
  BY <1>3, <1>5, <1>8
<1>10. \A x \in {d[i] : i \in E} : x \in {d[i] : i \in D} /\ x # d[m + 1]
  BY <1>3, <1>5, <1>6, <1>8
<1>11. \A x \in {d[i] : i \in D} : x # d[m + 1] => x \in {d[i] : i \in E}
  BY <1>5
<1>12. {d[i] : i \in E} = {d[i] : i \in D} \ {d[m + 1]}
  BY <1>10, <1>11
<1> QED
  BY <1>3, <1>7, <1>9, <1>12

LEMMA AheadIsStored ==
  ASSUME NEW S, NEW d \in Seq(S), NEW k \in Nat, NEW sel
  PROVE  /\ Ahead(sel, d, k) \in SUBSET S
         /\ \A q \in Ahead(sel, d, k) : \E i \in DOMAIN d : q = d[i]
         /\ Hits(sel, d, k) = {} => Ahead(sel, d, k) = {}
<1>1. \A j \in k + 1 .. Len(d) : j \in DOMAIN d /\ d[j] \in S /\ j - 1 \in k .. Len(d) - 1 /\ j - 1 + 1 = j
  OBVIOUS
<1>2. \A i : i \in Hits(sel, d, k) <=> i \in k .. Len(d) - 1 /\ d[i + 1].stream \in sel
  BY HitsAhead
<1>3. \A q \in Ahead(sel, d, k) : \E j \in k + 1 .. Len(d) : d[j].stream \in sel /\ q = d[j]
  BY DEF Ahead
<1>4. \A j \in k + 1 .. Len(d) : d[j].stream \in sel => j - 1 \in Hits(sel, d, k)
  BY <1>1, <1>2
<1> QED
  BY <1>1, <1>3, <1>4

-----------------------------------------------------------------------------
(* The invariant. *)

Stored == [stream : BufferedStreams, tag : 1 .. MaxId]

\* What TypeOK says of the log and its walkers.
LogTypes ==
    /\ data \in [Areas -> Seq(Reading)]
    /\ rollover \in [Areas -> BOOLEAN]
    /\ queueWalkers \in Seq(Walkers)
    /\ virtualWalkers \in Seq(Walkers)
    /\ wk \in [Walkers -> Walker]
    /\ lastValues \in [VirtualStreams -> Reading \cup {NULL}]
    /\ nextId \in 1 .. MaxId + 1
    /\ outcome \in [error : Errors, reading : Reading \cup {NULL}]
    /\ rolled \subseteq Walkers

\* Every walker is on one list and once, with the selector it was created with, and
\* none but these holds anything.
WalkersPlaced ==
    /\ \A i, j \in DOMAIN queueWalkers : queueWalkers[i] = queueWalkers[j] => i = j
    /\ \A i, j \in DOMAIN virtualWalkers : virtualWalkers[i] = virtualWalkers[j] => i = j
    /\ \A w \in Elements(queueWalkers) : wk[w].sel \in Selectors /\ Buffered(wk[w].sel)
    /\ \A w \in Elements(virtualWalkers) : wk[w].sel \in Selectors /\ ~Buffered(wk[w].sel)
    /\ \A w \in Walkers : w \notin Attached => wk[w] = Unused
    /\ \A w \in Walkers : wk[w].reading # NULL => wk[w].reading.stream \in wk[w].sel

\* Inductive.
WalkersInv ==
    /\ AreasInv
    /\ LogTypes /\ data \in [Areas -> Seq(Stored)]
    /\ WalkersPlaced
    /\ WalkersInSync

LEMMA StoredIsReading == Stored \subseteq Reading /\ Stored \subseteq StoredReading /\ NULL \in Reading \cup {NULL}
  BY SizesAssumption DEF Stored, StoredReading, Reading, Streams

LEMMA SelectorHasArea == \A sel : AreaOfSelector(sel) \in Areas
  BY DEF AreaOfSelector, Areas

\* A buffered selector that matches a stream is on the area of that stream.
LEMMA MatchesOwnArea ==
  ASSUME NEW sel \in Selectors, NEW s \in BufferedStreams, s \in sel, Buffered(sel)
  PROVE  AreaOfSelector(sel) = AreaOf(s)
  BY StreamsAssumption, SelectorsAssumption DEF AreaOfSelector, AreaOf, Buffered, BufferedStreams

LEMMA QueueFacts ==
  ASSUME WalkersInv, NEW w \in Elements(queueWalkers)
  PROVE  /\ w \in Walkers /\ wk[w] \in Walker /\ wk[w].sel \in Selectors /\ Buffered(wk[w].sel)
         /\ AreaOfSelector(wk[w].sel) \in Areas
         /\ data[AreaOfSelector(wk[w].sel)] \in Seq(Stored)
<1>1. queueWalkers \in Seq(Walkers) /\ wk \in [Walkers -> Walker]
  BY DEF WalkersInv, LogTypes
<1>2. w \in Walkers
  BY <1>1 DEF Elements
<1> QED
  BY <1>1, <1>2, SelectorHasArea DEF WalkersInv, WalkersPlaced

\* A walker that matches a buffered stream is on the queue of the log.
LEMMA MatchIsQueued ==
  ASSUME WalkersInv, NEW w \in Walkers, NEW s \in BufferedStreams, s \in wk[w].sel
  PROVE  w \in Elements(queueWalkers)
<1>1. wk[w].sel # {} /\ wk[w] # Unused
  BY DEF Unused
<1>2. w \in Elements(queueWalkers) \/ w \in Elements(virtualWalkers)
  BY <1>1 DEF WalkersInv, WalkersPlaced, Attached
<1>3. CASE w \in Elements(virtualWalkers)
  <2>1. wk[w].sel \in Selectors /\ ~Buffered(wk[w].sel)
    BY <1>3 DEF WalkersInv, WalkersPlaced
  <2>2. PICK v \in VirtualStreams : wk[w].sel = {v}
    BY <2>1, SelectorsAssumption DEF Buffered, BufferedStreams
  <2> QED
    BY <2>2, StreamsAssumption
<1> QED
  BY <1>2, <1>3

\* In sync: what WalkersInSync says of one walker.
LEMMA InSyncFacts ==
  ASSUME WalkersInv, NEW w \in Elements(queueWalkers), w \notin rolled
  PROVE  LET v == wk[w]  d == data[AreaOfSelector(v.sel)] IN
         v.offset \in 0 .. Len(d) /\ v.count = CountMatching(v.sel, d, v.offset)
  BY DEF WalkersInv, WalkersInSync

\* A walker with some of its fields set.
LEMMA WalkerFields ==
  ASSUME NEW v \in Walker, NEW k \in Int, NEW n \in Nat, NEW r \in Reading \cup {NULL}
  PROVE  /\ [v EXCEPT !.count = n] \in Walker
         /\ [v EXCEPT !.offset = k] \in Walker
         /\ [v EXCEPT !.offset = k, !.count = n] \in Walker
         /\ [v EXCEPT !.reading = r] \in Walker
         /\ [v EXCEPT !.count = n] = [sel |-> v.sel, offset |-> v.offset, count |-> n, reading |-> v.reading]
         /\ [v EXCEPT !.offset = k] = [sel |-> v.sel, offset |-> k, count |-> v.count, reading |-> v.reading]
         /\ [v EXCEPT !.offset = k, !.count = n] = [sel |-> v.sel, offset |-> k, count |-> n, reading |-> v.reading]
         /\ [v EXCEPT !.reading = r] = [sel |-> v.sel, offset |-> v.offset, count |-> v.count, reading |-> r]
<1>0. /\ v = [sel |-> v.sel, offset |-> v.offset, count |-> v.count, reading |-> v.reading]
      /\ v.sel \in Selectors \cup {{}} /\ v.offset \in Int /\ v.count \in Nat /\ v.reading \in Reading \cup {NULL}
  BY DEF Walker
<1>1. [v EXCEPT !.count = n] = [sel |-> v.sel, offset |-> v.offset, count |-> n, reading |-> v.reading]
  BY <1>0
<1>2. [v EXCEPT !.offset = k] = [sel |-> v.sel, offset |-> k, count |-> v.count, reading |-> v.reading]
  BY <1>0
<1>3. [v EXCEPT !.offset = k, !.count = n] = [sel |-> v.sel, offset |-> k, count |-> n, reading |-> v.reading]
  <2>1. [v EXCEPT !.offset = k, !.count = n] = [[v EXCEPT !.offset = k] EXCEPT !.count = n]
    OBVIOUS
  <2>2. [[sel |-> v.sel, offset |-> k, count |-> v.count, reading |-> v.reading] EXCEPT !.count = n]
          = [sel |-> v.sel, offset |-> k, count |-> n, reading |-> v.reading]
    OBVIOUS
  <2> QED
    BY <1>2, <2>1, <2>2, Zenon
<1>4. [v EXCEPT !.reading = r] = [sel |-> v.sel, offset |-> v.offset, count |-> v.count, reading |-> r]
  BY <1>0
<1> QED
  BY <1>0, <1>1, <1>2, <1>3, <1>4 DEF Walker

\* Nothing is attached or detached, and selectors stay what they are.
SameWalkers ==
    /\ UNCHANGED <<queueWalkers, virtualWalkers>>
    /\ wk' \in [Walkers -> Walker]
    /\ \A w \in Walkers : /\ wk'[w].sel = wk[w].sel
                          /\ w \notin Attached => wk'[w] = wk[w]
                          /\ wk'[w].reading # NULL => wk'[w].reading.stream \in wk'[w].sel

LEMMA PlacedStays ==
  ASSUME WalkersInv, SameWalkers
  PROVE  WalkersPlaced'
<1>1. UNCHANGED <<queueWalkers, virtualWalkers>> /\ Attached' = Attached
  BY DEF SameWalkers, Attached, Elements
<1>2. /\ \A w \in Elements(queueWalkers) : w \in Walkers
      /\ \A w \in Elements(virtualWalkers) : w \in Walkers
  <2>1. queueWalkers \in Seq(Walkers) /\ virtualWalkers \in Seq(Walkers)
    BY DEF WalkersInv, LogTypes
  <2> QED
    BY <2>1 DEF Elements
<1>3. /\ Elements(queueWalkers)' = Elements(queueWalkers)
      /\ Elements(virtualWalkers)' = Elements(virtualWalkers)
  BY <1>1 DEF Elements
<1> QED
  BY <1>1, <1>2, <1>3 DEF WalkersInv, WalkersPlaced, SameWalkers, Buffered

\* The walkers not in W keep their selector and what they have yet to read.
Undisturbed(W) ==
    \A x \in Walkers \ W : wk'[x].sel = wk[x].sel /\ UnreadBy(x)' = UnreadBy(x)

LEMMA UndisturbedIf ==
  ASSUME NEW W,
         \A x \in Walkers \ W :
            /\ wk'[x].sel = wk[x].sel
            /\ x \in Elements(queueWalkers') <=> x \in Elements(queueWalkers)
            /\ x \in rolled' <=> x \in rolled
            /\ x \in Elements(queueWalkers) =>
                  /\ wk'[x].offset = wk[x].offset
                  /\ data'[AreaOfSelector(wk[x].sel)] = data[AreaOfSelector(wk[x].sel)]
  PROVE  Undisturbed(W)
<1> SUFFICES ASSUME NEW x \in Walkers \ W
             PROVE  wk'[x].sel = wk[x].sel /\ UnreadBy(x)' = UnreadBy(x)
  BY DEF Undisturbed
<1>1. UnreadBy(x) = IF x \in Elements(queueWalkers) \ rolled
                    THEN Ahead(wk[x].sel, data[AreaOfSelector(wk[x].sel)], wk[x].offset) ELSE {}
  BY UnreadIsAhead
<1>2. UnreadBy(x)' = IF x \in Elements(queueWalkers') \ rolled'
                     THEN Ahead(wk'[x].sel, data'[AreaOfSelector(wk'[x].sel)], wk'[x].offset) ELSE {}
  BY UnreadIsAheadNext
<1>3. wk'[x].sel = wk[x].sel
  OBVIOUS
<1>4. UnreadBy(x)' = UnreadBy(x)
  <2>1. CASE x \in Elements(queueWalkers) \ rolled
    BY <1>1, <1>2, <1>3, <2>1
  <2>2. CASE x \notin Elements(queueWalkers) \ rolled
    BY <1>1, <1>2, <2>2
  <2> QED
    BY <2>1, <2>2
<1> QED
  BY <1>3, <1>4

\* A reading that is stored reaches the walkers that match it and are not broken.
Arrives(s) ==
    \A x \in Walkers :
        /\ wk'[x].sel = wk[x].sel
        /\ UnreadBy(x)' = IF x \in rolled' THEN {}
                          ELSE IF s \in wk[x].sel THEN UnreadBy(x) \cup {NewReading(s)} ELSE UnreadBy(x)

\* Walkers that keep their place and count over readings that stay, stay in sync.
LEMMA SyncStays ==
  ASSUME WalkersInv, UNCHANGED <<data, queueWalkers>>,
         \A w \in Elements(queueWalkers) : w \notin rolled' => w \notin rolled /\ wk'[w] = wk[w]
  PROVE  WalkersInSync'
<1>1. Elements(queueWalkers)' = Elements(queueWalkers) /\ data' = data
  BY DEF Elements
<1>2. \A w \in Elements(queueWalkers) : w \notin rolled' =>
        LET v == wk'[w]  d == data[AreaOfSelector(v.sel)] IN
        v.offset \in 0 .. Len(d) /\ v.count = CountMatching(v.sel, d, v.offset)
  BY InSyncFacts
<1> QED
  BY <1>1, <1>2 DEF WalkersInSync, AreaOfSelector, CountMatching, At

-----------------------------------------------------------------------------
(* Pushing. *)

LEMMA NotifiedWalker ==
  ASSUME NEW f \in [Walkers -> Walker], NEW s, NEW w \in Walkers
  PROVE  LET v == NotifyAdded(f, s)[w] IN
         /\ v \in Walker /\ v.sel = f[w].sel /\ v.offset = f[w].offset /\ v.reading = f[w].reading
         /\ w \in OnArea(AreaOf(s)) /\ s \in f[w].sel => v.count = f[w].count + 1
         /\ ~(w \in OnArea(AreaOf(s)) /\ s \in f[w].sel) => v = f[w]
<1>1. NotifyAdded(f, s)[w] = IF w \in OnArea(AreaOf(s)) /\ s \in f[w].sel
                             THEN [f[w] EXCEPT !.count = f[w].count + 1] ELSE f[w]
  BY DEF NotifyAdded
<1>2. f[w] \in Walker /\ f[w].count \in Nat /\ f[w].count + 1 \in Nat
  BY DEF Walker
<1>3. /\ [f[w] EXCEPT !.count = f[w].count + 1] \in Walker
      /\ [f[w] EXCEPT !.count = f[w].count + 1] =
            [sel |-> f[w].sel, offset |-> f[w].offset, count |-> f[w].count + 1, reading |-> f[w].reading]
  <2>1. 0 \in Int /\ NULL \in Reading \cup {NULL}
    OBVIOUS
  <2> QED
    BY <1>2, <2>1, WalkerFields
<1>4. CASE w \in OnArea(AreaOf(s)) /\ s \in f[w].sel
  BY <1>1, <1>3, <1>4
<1>5. CASE ~(w \in OnArea(AreaOf(s)) /\ s \in f[w].sel)
  BY <1>1, <1>2, <1>5
<1> QED
  BY <1>4, <1>5

\* A reading is stored after all but the oldest n; f are the walkers once they have heard of
\* those, of which the ones that are not broken have moved n readings back.
LEMMA StoreKeeps ==
  ASSUME WalkersInv, NEW s \in BufferedStreams, NEW n \in Nat, n <= Len(data[AreaOf(s)]),
         NEW f \in [Walkers -> Walker],
         \A w \in Walkers : /\ f[w].sel = wk[w].sel /\ f[w].reading = wk[w].reading
                            /\ w \notin OnArea(AreaOf(s)) => f[w] = wk[w],
         \A w \in OnArea(AreaOf(s)) : w \notin rolled' =>
            n <= wk[w].offset /\ f[w].offset = wk[w].offset - n /\ f[w].count = wk[w].count,
         rolled \subseteq rolled', nextId <= MaxId,
         Store(AreaOf(s), SubSeq(data[AreaOf(s)], n + 1, Len(data[AreaOf(s)])), f, NewReading(s)),
         UNCHANGED <<queueWalkers, virtualWalkers>>
  PROVE  /\ SameWalkers /\ WalkersPlaced' /\ WalkersInSync' /\ Arrives(s)
         /\ data' \in [Areas -> Seq(Stored)]
         /\ outcome' = Returned(NULL)
<1> DEFINE a == AreaOf(s)
           d == data[a]
           r == NewReading(s)
           kept == SubSeq(d, n + 1, Len(d))
           new == Append(kept, r)
<1>0. a \in Areas /\ data \in [Areas -> Seq(Stored)] /\ d \in Seq(Stored)
  BY AreaOfStream DEF WalkersInv
<1>1. data' = [data EXCEPT ![a] = new] /\ wk' = NotifyAdded(f, r.stream) /\ outcome' = Returned(NULL)
  BY DEF Store
<1>2. r \in Stored /\ r.stream = s
  BY DEF NewReading, Stored, WalkersInv, LogTypes
<1>3. kept \in Seq(Stored) /\ Len(kept) = Len(d) - n /\ Len(d) \in Nat /\ n <= Len(d)
  <2>1. n <= Len(d) /\ Len(d) \in Nat
    BY <1>0
  <2> QED
    BY <1>0, <2>1, KeptReadings, Zenon
<1> HIDE DEF kept
<1>4. new \in Seq(Stored) /\ Len(new) = Len(d) - n + 1
  BY <1>2, <1>3, SMTT(30)
<1>5. /\ data'[a] = new /\ \A b \in Areas : b # a => data'[b] = data[b]
      /\ data' \in [Areas -> Seq(Stored)]
  BY <1>0, <1>1, <1>4
<1>6. \A w \in Walkers :
        /\ wk'[w] \in Walker /\ wk'[w].sel = wk[w].sel
        /\ wk'[w].offset = f[w].offset /\ wk'[w].reading = wk[w].reading
        /\ w \in OnArea(a) /\ s \in wk[w].sel => wk'[w].count = f[w].count + 1
        /\ ~(w \in OnArea(a) /\ s \in wk[w].sel) => wk'[w] = f[w]
  <2> SUFFICES ASSUME NEW w \in Walkers
               PROVE  /\ wk'[w] \in Walker /\ wk'[w].sel = wk[w].sel
                      /\ wk'[w].offset = f[w].offset /\ wk'[w].reading = wk[w].reading
                      /\ w \in OnArea(a) /\ s \in wk[w].sel => wk'[w].count = f[w].count + 1
                      /\ ~(w \in OnArea(a) /\ s \in wk[w].sel) => wk'[w] = f[w]
    OBVIOUS
  <2>1. wk'[w] = NotifyAdded(f, s)[w]
    BY <1>1, <1>2
  <2>2. f[w].sel = wk[w].sel /\ f[w].reading = wk[w].reading
    OBVIOUS
  <2> HIDE DEF a
  <2> QED
    BY <2>1, <2>2, NotifiedWalker DEF a
<1>7. SameWalkers
  <2>1. wk' \in [Walkers -> Walker]
    <3>1. wk' = [w \in Walkers |-> wk'[w]]
      BY <1>1 DEF NotifyAdded
    <3> QED
      BY <1>6, <3>1
  <2>2. \A w \in Walkers : w \notin Attached => w \notin OnArea(a)
    BY DEF Attached, OnArea
  <2> QED
    BY <1>6, <2>1, <2>2 DEF SameWalkers, WalkersInv, WalkersPlaced
<1>8. WalkersPlaced'
  BY <1>7, PlacedStays
<1>9. ASSUME NEW w \in Elements(queueWalkers), w \notin rolled'
      PROVE  /\ LET e == data'[AreaOfSelector(wk'[w].sel)] IN
                /\ wk'[w].offset \in 0 .. Len(e)
                /\ wk'[w].count = CountMatching(wk'[w].sel, e, wk'[w].offset)
             /\ UnreadBy(w)' = IF s \in wk[w].sel THEN UnreadBy(w) \cup {NewReading(s)} ELSE UnreadBy(w)
  <2> DEFINE sel == wk[w].sel
             k == wk[w].offset
  <2>1. /\ w \in Walkers /\ sel \in Selectors /\ Buffered(sel) /\ AreaOfSelector(sel) \in Areas
        /\ wk'[w].sel = sel /\ w \notin rolled
    BY <1>9, <1>6, QueueFacts
  <2>2. LET e == data[AreaOfSelector(sel)] IN k \in 0 .. Len(e) /\ wk[w].count = CountMatching(sel, e, k)
    BY <1>9, <2>1, InSyncFacts
  <2>5. /\ UnreadBy(w) = Ahead(sel, data[AreaOfSelector(sel)], k)
        /\ UnreadBy(w)' = Ahead(wk'[w].sel, data'[AreaOfSelector(wk'[w].sel)], wk'[w].offset)
    BY <1>9, <2>1, UnreadIsAhead, UnreadIsAheadNext
  <2>3. CASE AreaOfSelector(sel) # a
    <3>1. wk'[w] = wk[w] /\ data'[AreaOfSelector(sel)] = data[AreaOfSelector(sel)]
      BY <1>5, <1>6, <2>1, <2>3 DEF OnArea
    <3>2. s \notin sel
      BY <2>1, <2>3, MatchesOwnArea
    <3>3. UnreadBy(w)' = UnreadBy(w)
      BY <2>1, <2>5, <3>1
    <3> QED
      BY <2>1, <2>2, <3>1, <3>2, <3>3
  <2>4. CASE AreaOfSelector(sel) = a
    <3>1. /\ w \in OnArea(a) /\ n <= k /\ wk'[w].offset = k - n /\ f[w].count = wk[w].count
          /\ wk'[w].count = IF s \in sel THEN wk[w].count + 1 ELSE wk[w].count
      <4>1. w \in OnArea(a)
        BY <2>1, <2>4 DEF OnArea
      <4>2. n <= k /\ f[w].offset = k - n /\ f[w].count = wk[w].count
        BY <1>9, <4>1
      <4>3. wk'[w].offset = f[w].offset
        BY <1>6, <2>1
      <4>4. CASE s \in sel
        BY <1>6, <2>1, <4>1, <4>2, <4>3, <4>4
      <4>5. CASE s \notin sel
        BY <1>6, <2>1, <4>1, <4>2, <4>3, <4>5
      <4> QED
        BY <4>4, <4>5
    <3>2. k \in 0 .. Len(d) /\ wk[w].count = CountMatching(sel, d, k)
      BY <2>2, <2>4
    <3>3. k \in Nat /\ k - n \in 0 .. Len(kept)
      BY <1>3, <3>1, <3>2
    <3> HIDE DEF a, d, r, new, sel, k
    <3>4. CountMatching(sel, kept, k - n) = CountMatching(sel, d, k)
      <4>1. k <= Len(d) /\ n <= k
        BY <1>3, <3>1, <3>2
      <4> QED
        BY <1>0, <3>3, <4>1, CountAfterDrop DEF kept
    <3>5. CountMatching(sel, new, k - n) =
            IF s \in sel THEN CountMatching(sel, kept, k - n) + 1 ELSE CountMatching(sel, kept, k - n)
      BY <1>2, <1>3, <3>3, CountAfterAppend DEF new
    <3>6. k - n \in 0 .. Len(new)
      BY <1>3, <1>4, <3>3
    <3>7. LET e == data'[AreaOfSelector(wk'[w].sel)] IN
          /\ wk'[w].offset \in 0 .. Len(e)
          /\ wk'[w].count = CountMatching(wk'[w].sel, e, wk'[w].offset)
      BY <1>5, <2>1, <2>4, <3>1, <3>2, <3>4, <3>5, <3>6
    <3>8. Ahead(sel, kept, k - n) = Ahead(sel, d, k)
      <4>1. k <= Len(d) /\ n <= k
        BY <1>3, <3>1, <3>2
      <4> QED
        BY <1>0, <3>3, <4>1, AheadAfterDrop DEF kept
    <3>9. Ahead(sel, new, k - n) =
            IF s \in sel THEN Ahead(sel, kept, k - n) \cup {r} ELSE Ahead(sel, kept, k - n)
      <4>1. Ahead(sel, new, k - n) =
              IF r.stream \in sel THEN Ahead(sel, kept, k - n) \cup {r} ELSE Ahead(sel, kept, k - n)
        <5> DEFINE m == k - n
        <5>1. m \in 0 .. Len(kept) /\ kept \in Seq(Stored) /\ r \in Stored
          BY <1>2, <1>3, <3>3
        <5> HIDE DEF m
        <5>2. Ahead(sel, Append(kept, r), m) =
                IF r.stream \in sel THEN Ahead(sel, kept, m) \cup {r} ELSE Ahead(sel, kept, m)
          BY <5>1, AheadAfterAppend
        <5> QED
          BY <5>2 DEF m, new
      <4> QED
        BY <1>2, <4>1
    <3>10. UnreadBy(w) = Ahead(sel, d, k) /\ UnreadBy(w)' = Ahead(sel, new, k - n)
      BY <1>5, <2>1, <2>4, <2>5, <3>1 DEF d
    <3>11. UnreadBy(w)' = IF s \in sel THEN UnreadBy(w) \cup {r} ELSE UnreadBy(w)
      BY <3>8, <3>9, <3>10
    <3> QED
      BY <3>7, <3>11 DEF sel, r
  <2> QED
    BY <2>3, <2>4
<1>10. WalkersInSync'
  <2>1. Elements(queueWalkers)' = Elements(queueWalkers)
    BY DEF Elements
  <2> QED
    BY <1>9, <2>1 DEF WalkersInSync, AreaOfSelector, CountMatching, At
<1>11. Arrives(s)
  <2> SUFFICES ASSUME NEW w \in Walkers
               PROVE  UnreadBy(w)' = IF w \in rolled' THEN {}
                                     ELSE IF s \in wk[w].sel THEN UnreadBy(w) \cup {NewReading(s)} ELSE UnreadBy(w)
    BY <1>6 DEF Arrives
  <2>1. CASE w \in rolled'
    BY <2>1, UnreadIsAheadNext
  <2>2. CASE w \notin rolled' /\ w \in Elements(queueWalkers)
    BY <1>9, <2>2
  <2>3. CASE w \notin rolled' /\ w \notin Elements(queueWalkers)
    <3>1. s \notin wk[w].sel
      BY <2>3, MatchIsQueued
    <3>2. UnreadBy(w)' = {} /\ UnreadBy(w) = {}
      BY <2>3, UnreadIsAhead, UnreadIsAheadNext
    <3> QED
      BY <2>3, <3>1, <3>2
  <2> QED
    BY <2>1, <2>2, <2>3
<1> QED
  BY <1>1, <1>5, <1>7, <1>8, <1>10, <1>11

\* What a push leaves in type besides.
LEMMA PushTypes ==
  ASSUME WalkersInv, SameWalkers, data' \in [Areas -> Seq(Stored)],
         nextId <= MaxId, nextId' = nextId + 1,
         outcome' = Returned(NULL) \/ outcome' = Raised("StorageFull") \/ outcome' = Raised("OutOfSync"),
         rolled' \subseteq Walkers, UNCHANGED <<rollover, lastValues>>
  PROVE  LogTypes'
<1>1. data' \in [Areas -> Seq(Reading)]
  <2>1. Seq(Stored) \subseteq Seq(Reading)
    BY StoredIsReading
  <2> QED
    BY <2>1
<1>2. nextId' \in 1 .. MaxId + 1
  BY SizesAssumption DEF WalkersInv, LogTypes
<1>3. outcome' \in [error : Errors, reading : Reading \cup {NULL}]
  BY DEF Returned, Raised, Errors
<1> QED
  BY <1>1, <1>2, <1>3 DEF WalkersInv, LogTypes, SameWalkers

LEMMA RolledWalker ==
  ASSUME NEW v \in Walker, NEW old \in Seq(Stored), NEW k \in 0 .. Len(old)
  PROVE  LET u == Roll(v, old, k)  n == v.count - CountMatching(v.sel, SubSeq(old, 1, k), 0) IN
         /\ u = [sel |-> v.sel, offset |-> v.offset - k, count |-> n, reading |-> v.reading]
         /\ n \in Nat => u \in Walker
         /\ [u EXCEPT !.count = 0] = [sel |-> v.sel, offset |-> v.offset - k, count |-> 0, reading |-> v.reading]
         /\ [u EXCEPT !.count = 0] \in Walker
<1> DEFINE n == v.count - CountMatching(v.sel, SubSeq(old, 1, k), 0)
           x == v.offset - k
<1>1. /\ v = [sel |-> v.sel, offset |-> v.offset, count |-> v.count, reading |-> v.reading]
      /\ v.sel \in Selectors \cup {{}} /\ v.offset \in Int /\ v.reading \in Reading \cup {NULL}
      /\ x \in Int
  BY DEF Walker
<1>2. Roll(v, old, k) = [[v EXCEPT !.offset = x] EXCEPT !.count = n]
  BY DEF Roll
<1> HIDE DEF n, x
<1>3. [v EXCEPT !.offset = x] = [sel |-> v.sel, offset |-> x, count |-> v.count, reading |-> v.reading]
  BY <1>1
<1>4. [[sel |-> v.sel, offset |-> x, count |-> v.count, reading |-> v.reading] EXCEPT !.count = n]
         = [sel |-> v.sel, offset |-> x, count |-> n, reading |-> v.reading]
  OBVIOUS
<1>5. Roll(v, old, k) = [sel |-> v.sel, offset |-> x, count |-> n, reading |-> v.reading]
  BY <1>2, <1>3, <1>4, Zenon
<1>6. [[sel |-> v.sel, offset |-> x, count |-> n, reading |-> v.reading] EXCEPT !.count = 0]
         = [sel |-> v.sel, offset |-> x, count |-> 0, reading |-> v.reading]
  OBVIOUS
<1>7. [Roll(v, old, k) EXCEPT !.count = 0] = [sel |-> v.sel, offset |-> x, count |-> 0, reading |-> v.reading]
  BY <1>5, <1>6, Zenon
<1>8. /\ n \in Nat => [sel |-> v.sel, offset |-> x, count |-> n, reading |-> v.reading] \in Walker
      /\ [sel |-> v.sel, offset |-> x, count |-> 0, reading |-> v.reading] \in Walker
  BY <1>1 DEF Walker
<1>9. n \in Nat => Roll(v, old, k) \in Walker
  BY <1>5, <1>8, Zenon
<1>10. [Roll(v, old, k) EXCEPT !.count = 0] \in Walker
  BY <1>7, <1>8, Zenon
<1> QED
  BY <1>5, <1>7, <1>9, <1>10, Zenon DEF n, x

\* The oldest readings of a full area, which are about to be erased.
LEMMA OldReadings ==
  ASSUME WalkersInv, NEW a \in Areas, Full(a)
  PROVE  LET old == SubSeq(data[a], 1, EraseSize) IN
         /\ old \in Seq(Stored) /\ Len(old) = EraseSize /\ SubSeq(old, 1, EraseSize) = old
         /\ EraseSize \in Nat /\ EraseSize >= 1 /\ EraseSize <= Len(data[a])
<1>1. data[a] \in Seq(Stored) /\ Len(data[a]) \in Nat
  BY DEF WalkersInv
<1>2. EraseSize \in Nat /\ EraseSize >= 1 /\ EraseSize <= Len(data[a])
  BY CapacityIsNat, SizesAssumption DEF Full
<1> QED
  BY <1>1, <1>2

LEMMA PushStoredKeeps ==
  ASSUME WalkersInv, NEW s \in BufferedStreams, PushStored(s)
  PROVE  WalkersInv' /\ Arrives(s)
<1> DEFINE d == data[AreaOf(s)]
<1>1. d \in Seq(Stored) /\ SubSeq(d, 0 + 1, Len(d)) = d /\ 0 <= Len(d)
  <2>1. d \in Seq(Stored)
    BY AreaOfStream DEF WalkersInv
  <2> QED
    BY <2>1
<1>2. /\ nextId <= MaxId /\ nextId' = nextId + 1
      /\ Store(AreaOf(s), d, wk, NewReading(s))
      /\ UNCHANGED <<rollover, queueWalkers, virtualWalkers, lastValues, rolled>>
  BY DEF PushStored
<1>3. Store(AreaOf(s), SubSeq(d, 0 + 1, Len(d)), wk, NewReading(s))
  BY <1>1, <1>2, Zenon
<1>4. \A w \in OnArea(AreaOf(s)) : w \notin rolled' =>
         0 <= wk[w].offset /\ wk[w].offset = wk[w].offset - 0
  <2> SUFFICES ASSUME NEW w \in Elements(queueWalkers), w \notin rolled
               PROVE  0 <= wk[w].offset /\ wk[w].offset = wk[w].offset - 0
    BY <1>2 DEF OnArea
  <2>1. \E m : wk[w].offset \in 0 .. m
    BY InSyncFacts
  <2> QED
    BY <2>1
<1>5. wk \in [Walkers -> Walker] /\ rolled \subseteq rolled' /\ rolled' \subseteq Walkers
  BY <1>2 DEF WalkersInv, LogTypes
<1> HIDE DEF d
<1>6. /\ SameWalkers /\ WalkersPlaced' /\ WalkersInSync' /\ Arrives(s)
      /\ data' \in [Areas -> Seq(Stored)] /\ outcome' = Returned(NULL)
  BY <1>1, <1>2, <1>3, <1>4, <1>5, StoreKeeps DEF d
<1>7. LogTypes'
  BY <1>2, <1>5, <1>6, PushTypes
<1>8. AreasInv'
  BY CallsKeepAreas DEF WalkersInv, Push
<1> QED
  BY <1>6, <1>7, <1>8 DEF WalkersInv

LEMMA PushRefusedKeeps ==
  ASSUME WalkersInv, NEW s \in BufferedStreams, PushRefused(s)
  PROVE  WalkersInv'
<1>1. /\ nextId <= MaxId /\ nextId' = nextId + 1 /\ outcome' = Raised("StorageFull")
      /\ UNCHANGED <<data, rollover, queueWalkers, virtualWalkers, wk, lastValues, rolled>>
  BY DEF PushRefused
<1>2. SameWalkers
  BY <1>1 DEF SameWalkers, WalkersInv, LogTypes, WalkersPlaced
<1>3. WalkersPlaced' /\ WalkersInSync'
  BY <1>1, <1>2, PlacedStays, SyncStays
<1>4. LogTypes' /\ data' \in [Areas -> Seq(Stored)]
  BY <1>1, <1>2, PushTypes DEF WalkersInv, LogTypes
<1>5. AreasInv'
  BY CallsKeepAreas DEF WalkersInv, Push
<1> QED
  BY <1>3, <1>4, <1>5 DEF WalkersInv

LEMMA PushRolloverKeeps ==
  ASSUME WalkersInv, NEW s \in BufferedStreams, PushRollover(s)
  PROVE  WalkersInv' /\ Arrives(s)
<1> DEFINE a == AreaOf(s)
           d == data[a]
           old == SubSeq(d, 1, EraseSize)
           kept == SubSeq(d, EraseSize + 1, Len(d))
           f == [w \in Walkers |-> IF w \in OnArea(a) THEN Roll(wk[w], old, EraseSize) ELSE wk[w]]
<1>1. /\ nextId <= MaxId /\ nextId' = nextId + 1 /\ Full(a)
      /\ OutOfSyncCalls(a, old) = {}
      /\ Store(a, kept, f, NewReading(s))
      /\ rolled' = rolled \cup {w \in OnArea(a) : LosesSync(wk[w], old, EraseSize)}
      /\ UNCHANGED <<rollover, queueWalkers, virtualWalkers, lastValues>>
  BY DEF PushRollover
<1>2. /\ a \in Areas /\ old \in Seq(Stored) /\ Len(old) = EraseSize /\ SubSeq(old, 1, EraseSize) = old
      /\ EraseSize \in Nat /\ EraseSize >= 1 /\ EraseSize <= Len(d)
  BY <1>1, AreaOfStream, OldReadings
<1> HIDE DEF old
<1>3. \A w \in OnArea(a) : w \in Elements(queueWalkers) /\ w \in Walkers /\ wk[w] \in Walker
  BY QueueFacts DEF OnArea
<1>4. ASSUME NEW w \in OnArea(a) PROVE wk[w].count - CountMatching(wk[w].sel, old, 0) \in Nat
  <2>1. PICK m \in 1 .. Len(queueWalkers) : queueWalkers[m] = w
    <3>1. queueWalkers \in Seq(Walkers)
      BY DEF WalkersInv, LogTypes
    <3> QED
      BY <1>3, <3>1 DEF Elements
  <2>2. \A j \in 1 .. EraseSize : old[j].stream \in wk[w].sel =>
            CountMatching(wk[w].sel, SubSeq(old, 1, j), 0) <= wk[w].count
    <3> SUFFICES ASSUME NEW j \in 1 .. EraseSize, old[j].stream \in wk[w].sel,
                        CountMatching(wk[w].sel, SubSeq(old, 1, j), 0) > wk[w].count
                 PROVE  FALSE
      <4>1. \A j \in 1 .. EraseSize : CountMatching(wk[w].sel, SubSeq(old, 1, j), 0) \in Nat
        <5> SUFFICES ASSUME NEW j \in 1 .. EraseSize
                     PROVE  CountMatching(wk[w].sel, SubSeq(old, 1, j), 0) \in Nat
          OBVIOUS
        <5>1. SubSeq(old, 1, j) \in Seq(Stored)
          BY <1>2
        <5> QED
          BY <5>1, CountIsNatFromStart, Zenon
      <4>2. wk[w].count \in Nat
        BY <1>3 DEF Walker
      <4> QED
        BY <4>1, <4>2
    <3>1. <<j, m>> \in OutOfSyncCalls(a, old)
      BY <1>2, <2>1 DEF OutOfSyncCalls
    <3> QED
      BY <1>1, <3>1
  <2>3. wk[w].count \in Nat /\ EraseSize \in 0 .. Len(old)
    BY <1>2, <1>3 DEF Walker
  <2>4. wk[w].count - CountMatching(wk[w].sel, SubSeq(old, 1, EraseSize), 0) \in Nat
    BY <1>2, <2>2, <2>3, NoCountIsExceeded
  <2> QED
    BY <1>2, <2>4
<1>f. /\ f = [w \in Walkers |-> f[w]]
      /\ \A w \in OnArea(a) : f[w] = Roll(wk[w], old, EraseSize)
      /\ \A w \in Walkers : w \notin OnArea(a) => f[w] = wk[w]
  BY <1>3
<1> HIDE DEF f
<1>5. ASSUME NEW w \in OnArea(a)
      PROVE  /\ f[w].sel = wk[w].sel /\ f[w].offset = wk[w].offset - EraseSize
             /\ f[w].count = wk[w].count - CountMatching(wk[w].sel, old, 0) /\ f[w].reading = wk[w].reading
             /\ f[w] \in Walker
  <2>2. EraseSize \in 0 .. Len(old) /\ wk[w] \in Walker
    BY <1>2, <1>3
  <2>3. wk[w].count - CountMatching(wk[w].sel, SubSeq(old, 1, EraseSize), 0) \in Nat
    BY <1>2, <1>4
  <2>4. Roll(wk[w], old, EraseSize) =
          [sel |-> wk[w].sel, offset |-> wk[w].offset - EraseSize,
           count |-> wk[w].count - CountMatching(wk[w].sel, SubSeq(old, 1, EraseSize), 0), reading |-> wk[w].reading]
    BY <1>2, <2>2, RolledWalker
  <2>5. Roll(wk[w], old, EraseSize) \in Walker
    BY <1>2, <2>2, <2>3, RolledWalker
  <2>6. f[w] = [sel |-> wk[w].sel, offset |-> wk[w].offset - EraseSize,
                count |-> wk[w].count - CountMatching(wk[w].sel, old, 0), reading |-> wk[w].reading]
    BY <1>2, <1>f, <2>4, Zenon
  <2>7. f[w].sel = wk[w].sel /\ f[w].offset = wk[w].offset - EraseSize
        /\ f[w].count = wk[w].count - CountMatching(wk[w].sel, old, 0) /\ f[w].reading = wk[w].reading
    BY <2>6
  <2> QED
    BY <1>f, <2>5, <2>7
<1>6. \A w \in Walkers : w \notin OnArea(a) => f[w] = wk[w] /\ f[w] \in Walker
  BY <1>f DEF WalkersInv, LogTypes
<1>7. f \in [Walkers -> Walker]
  BY <1>f, <1>5, <1>6
<1>8. \A w \in OnArea(a) : w \notin rolled' =>
         EraseSize <= wk[w].offset /\ f[w].offset = wk[w].offset - EraseSize /\ f[w].count = wk[w].count
  <2> SUFFICES ASSUME NEW w \in OnArea(a), w \notin rolled'
               PROVE  EraseSize <= wk[w].offset /\ f[w].offset = wk[w].offset - EraseSize /\ f[w].count = wk[w].count
    OBVIOUS
  <2>1. ~(wk[w].offset < EraseSize) /\ ~(CountMatching(wk[w].sel, old, 0) > 0)
    BY <1>1, <1>2 DEF LosesSync
  <2>2. wk[w].offset \in Int /\ wk[w].count \in Nat /\ CountMatching(wk[w].sel, old, 0) \in Nat
    <3>1. wk[w] \in Walker
      BY <1>3
    <3>2. CountMatching(wk[w].sel, old, 0) \in Nat
      BY <1>2, CountIsNatFromStart, Zenon
    <3> QED
      BY <3>1, <3>2 DEF Walker
  <2>3. f[w].offset = wk[w].offset - EraseSize /\ f[w].count = wk[w].count - CountMatching(wk[w].sel, old, 0)
    BY <1>5
  <2> QED
    BY <1>2, <2>1, <2>2, <2>3
<1>9. \A w \in Walkers : /\ f[w].sel = wk[w].sel /\ f[w].reading = wk[w].reading
                         /\ w \notin OnArea(a) => f[w] = wk[w]
  BY <1>5, <1>6
<1>10. rolled \subseteq rolled' /\ rolled' \subseteq Walkers
  BY <1>1, <1>3 DEF WalkersInv, LogTypes
<1>11. /\ SameWalkers /\ WalkersPlaced' /\ WalkersInSync' /\ Arrives(s)
       /\ data' \in [Areas -> Seq(Stored)] /\ outcome' = Returned(NULL)
  BY <1>1, <1>2, <1>7, <1>8, <1>9, <1>10, StoreKeeps
<1>12. LogTypes'
  BY <1>1, <1>10, <1>11, PushTypes
<1>13. AreasInv'
  BY CallsKeepAreas DEF WalkersInv, Push
<1> QED
  BY <1>11, <1>12, <1>13 DEF WalkersInv

LEMMA FirstCallIsFirst ==
  ASSUME NEW calls \in SUBSET (Nat \X Nat), calls # {}
  PROVE  /\ FirstCall(calls) \in calls
         /\ \A d \in calls : \/ FirstCall(calls)[1] < d[1]
                             \/ FirstCall(calls)[1] = d[1] /\ FirstCall(calls)[2] <= d[2]
<1> DEFINE A == {i \in Nat : \E j \in Nat : <<i, j>> \in calls}
<1>1. PICK p \in calls : TRUE
  OBVIOUS
<1>2. \A d \in calls : d = <<d[1], d[2]>> /\ d[1] \in Nat /\ d[2] \in Nat
  OBVIOUS
<1>3. A \in SUBSET Nat /\ \A d \in calls : d[1] \in A
  BY <1>2
<1> HIDE DEF A
<1>4. PICK x \in A : \A i \in A : x <= i
  BY <1>1, <1>3, LeastNat
<1> DEFINE B == {j \in Nat : <<x, j>> \in calls}
<1>5. B \in SUBSET Nat /\ B # {}
  BY DEF A
<1> HIDE DEF B
<1>6. PICK y \in B : \A j \in B : y <= j
  BY <1>5, LeastNat
<1>7. <<x, y>> \in calls /\ x \in Nat /\ y \in Nat
  BY <1>3 DEF B
<1>8. \A d \in calls : x < d[1] \/ (x = d[1] /\ y <= d[2])
  <2> SUFFICES ASSUME NEW d \in calls, ~(x < d[1]) PROVE x = d[1] /\ y <= d[2]
    OBVIOUS
  <2>1. d[1] \in A /\ x <= d[1] /\ d[1] \in Nat /\ d[2] \in Nat /\ d = <<d[1], d[2]>>
    BY <1>2, <1>3, <1>4
  <2>2. x = d[1]
    BY <1>7, <2>1
  <2>3. d[2] \in B
    BY <2>1, <2>2 DEF B
  <2> QED
    BY <1>6, <2>2, <2>3
<1>9. \E c \in calls : \A d \in calls : c[1] < d[1] \/ (c[1] = d[1] /\ c[2] <= d[2])
  <2> DEFINE c == <<x, y>>
  <2>1. c \in calls /\ c[1] = x /\ c[2] = y
    BY <1>7
  <2> HIDE DEF c
  <2>2. \A d \in calls : c[1] < d[1] \/ (c[1] = d[1] /\ c[2] <= d[2])
    BY <1>8, <2>1
  <2> QED
    BY <2>1, <2>2
<1> QED
  BY <1>9 DEF FirstCall

\* The walker whose call raises is left with a count of 0, and no other counts below it.
LEMMA PushOutOfSyncKeeps ==
  ASSUME WalkersInv, NEW s \in BufferedStreams, PushOutOfSync(s)
  PROVE  WalkersInv' /\ Undisturbed(rolled') /\ \A w \in Walkers : wk'[w].sel = wk[w].sel
<1> DEFINE a == AreaOf(s)
           d == data[a]
           old == SubSeq(d, 1, EraseSize)
           kept == SubSeq(d, EraseSize + 1, Len(d))
           calls == OutOfSyncCalls(a, old)
           c == FirstCall(calls)
<1>1. /\ nextId <= MaxId /\ nextId' = nextId + 1 /\ Full(a) /\ calls # {}
      /\ data' = [data EXCEPT ![a] = kept]
      /\ wk' = [w \in Walkers |->
                  IF w \notin OnArea(a) THEN wk[w]
                  ELSE IF w = queueWalkers[c[2]] THEN [Roll(wk[w], old, RolledTo(c, w)) EXCEPT !.count = 0]
                  ELSE Roll(wk[w], old, RolledTo(c, w))]
      /\ rolled' = rolled \cup OnArea(a) /\ outcome' = Raised("OutOfSync")
      /\ UNCHANGED <<rollover, queueWalkers, virtualWalkers, lastValues>>
  BY DEF PushOutOfSync
<1>2. /\ a \in Areas /\ old \in Seq(Stored) /\ Len(old) = EraseSize
      /\ EraseSize \in Nat /\ EraseSize <= Len(d) /\ d \in Seq(Stored)
  <2>1. a \in Areas /\ d \in Seq(Stored)
    BY AreaOfStream DEF WalkersInv
  <2> QED
    BY <1>1, <2>1, OldReadings
<1>0. queueWalkers \in Seq(Walkers)
  BY DEF WalkersInv, LogTypes
<1> HIDE DEF old
<1>3. \A w \in OnArea(a) : w \in Elements(queueWalkers) /\ w \in Walkers /\ wk[w] \in Walker
  BY QueueFacts DEF OnArea
<1>4. /\ c \in calls
      /\ \A x \in calls : c[1] < x[1] \/ (c[1] = x[1] /\ c[2] <= x[2])
  <2>1. calls \in SUBSET (Nat \X Nat)
    BY <1>0, <1>2 DEF OutOfSyncCalls
  <2> HIDE DEF calls
  <2> QED
    BY <1>1, <2>1, FirstCallIsFirst
<1>5. c[1] \in 1 .. EraseSize /\ c[2] \in 1 .. Len(queueWalkers)
  BY <1>2, <1>4 DEF OutOfSyncCalls
<1> HIDE DEF c
<1>6. ASSUME NEW w \in OnArea(a)
      PROVE  LET k == RolledTo(c, w) IN
             /\ k \in 0 .. Len(old)
             /\ w # queueWalkers[c[2]] => wk[w].count - CountMatching(wk[w].sel, SubSeq(old, 1, k), 0) \in Nat
  <2> DEFINE k == RolledTo(c, w)
  <2>1. k \in {c[1], c[1] - 1} /\ k \in 0 .. Len(old)
    BY <1>2, <1>5 DEF RolledTo
  <2>2. k = c[1] => \E j \in 1 .. c[2] : queueWalkers[j] = w
    BY <1>5 DEF RolledTo
  <2> HIDE DEF k
  <2>3. PICK m \in 1 .. Len(queueWalkers) : queueWalkers[m] = w
    BY <1>0, <1>3 DEF Elements
  <2>4. ASSUME w # queueWalkers[c[2]], NEW j \in 1 .. k, old[j].stream \in wk[w].sel
        PROVE  CountMatching(wk[w].sel, SubSeq(old, 1, j), 0) <= wk[w].count
    <3>1. j \in 1 .. Len(old) /\ j <= k /\ k <= c[1] /\ j \in Nat
      BY <1>5, <2>1
    <3>2. SubSeq(old, 1, j) \in Seq(Stored)
      BY <1>2, <3>1
    <3>3. CountMatching(wk[w].sel, SubSeq(old, 1, j), 0) \in Nat /\ wk[w].count \in Nat
      <4>1. wk[w] \in Walker
        BY <1>3
      <4> QED
        BY <3>2, <4>1, CountIsNatFromStart, Zenon DEF Walker
    <3>4. ASSUME CountMatching(wk[w].sel, SubSeq(old, 1, j), 0) > wk[w].count PROVE FALSE
      <4>1. <<j, m>> \in calls
        BY <1>2, <2>3, <2>4, <3>1, <3>4 DEF OutOfSyncCalls
      <4>2. c[1] < j \/ (c[1] = j /\ c[2] <= m)
        BY <1>4, <4>1
      <4>3. c[1] = j /\ k = c[1] /\ c[2] <= m
        BY <1>5, <2>1, <3>1, <4>2
      <4>4. PICK i \in 1 .. c[2] : queueWalkers[i] = w
        BY <2>2, <4>3
      <4>5. i = m
        BY <1>0, <1>5, <2>3, <4>4 DEF WalkersInv, WalkersPlaced
      <4>6. m = c[2]
        BY <1>5, <4>3, <4>4, <4>5
      <4> QED
        BY <2>3, <2>4, <4>6
    <3> QED
      BY <3>3, <3>4
  <2>5. wk[w].count \in Nat
    <3>1. wk[w] \in Walker
      BY <1>3
    <3> QED
      BY <3>1 DEF Walker
  <2>6. w # queueWalkers[c[2]] => wk[w].count - CountMatching(wk[w].sel, SubSeq(old, 1, k), 0) \in Nat
    BY <1>2, <2>1, <2>4, <2>5, NoCountIsExceeded
  <2> QED
    BY <2>1, <2>6 DEF k
<1>7. \A w \in Walkers : /\ wk'[w] \in Walker /\ wk'[w].sel = wk[w].sel /\ wk'[w].reading = wk[w].reading
                         /\ w \notin OnArea(a) => wk'[w] = wk[w]
  <2> SUFFICES ASSUME NEW w \in Walkers
               PROVE  /\ wk'[w] \in Walker /\ wk'[w].sel = wk[w].sel /\ wk'[w].reading = wk[w].reading
                      /\ w \notin OnArea(a) => wk'[w] = wk[w]
    OBVIOUS
  <2> DEFINE k == RolledTo(c, w)
             u == Roll(wk[w], old, k)
  <2>0. wk[w] \in Walker
    BY DEF WalkersInv, LogTypes
  <2>1. CASE w \notin OnArea(a)
    BY <1>1, <2>0, <2>1
  <2>2. CASE w \in OnArea(a) /\ w = queueWalkers[c[2]]
    <3>1. wk'[w] = [u EXCEPT !.count = 0]
      BY <1>1, <2>2
    <3>2. k \in 0 .. Len(old)
      BY <1>6, <2>2
    <3> HIDE DEF k
    <3>3. /\ [u EXCEPT !.count = 0] = [sel |-> wk[w].sel, offset |-> wk[w].offset - k, count |-> 0, reading |-> wk[w].reading]
          /\ [u EXCEPT !.count = 0] \in Walker
      BY <1>2, <2>0, <3>2, RolledWalker
    <3> HIDE DEF u
    <3>4. wk'[w].sel = wk[w].sel /\ wk'[w].reading = wk[w].reading
      BY <3>1, <3>3
    <3> QED
      BY <2>2, <3>1, <3>3, <3>4
  <2>3. CASE w \in OnArea(a) /\ w # queueWalkers[c[2]]
    <3>1. wk'[w] = u
      BY <1>1, <2>3
    <3>2. k \in 0 .. Len(old) /\ wk[w].count - CountMatching(wk[w].sel, SubSeq(old, 1, k), 0) \in Nat
      BY <1>6, <2>3
    <3> HIDE DEF k
    <3>3. u = [sel |-> wk[w].sel, offset |-> wk[w].offset - k,
               count |-> wk[w].count - CountMatching(wk[w].sel, SubSeq(old, 1, k), 0), reading |-> wk[w].reading]
      BY <1>2, <2>0, <3>2, RolledWalker
    <3>4. u \in Walker
      BY <1>2, <2>0, <3>2, RolledWalker
    <3> HIDE DEF u
    <3>5. wk'[w].sel = wk[w].sel /\ wk'[w].reading = wk[w].reading
      BY <3>1, <3>3
    <3> QED
      BY <2>3, <3>1, <3>4, <3>5
  <2> QED
    BY <2>1, <2>2, <2>3
<1>8. SameWalkers
  <2>1. wk' \in [Walkers -> Walker]
    <3>1. wk' = [w \in Walkers |-> wk'[w]]
      BY <1>1
    <3> QED
      BY <1>7, <3>1
  <2>2. \A w \in Walkers : w \notin Attached => w \notin OnArea(a)
    BY DEF Attached, OnArea
  <2> QED
    BY <1>1, <1>7, <2>1, <2>2 DEF SameWalkers, WalkersInv, WalkersPlaced
<1>9. data' \in [Areas -> Seq(Stored)] /\ \A b \in Areas : b # a => data'[b] = data[b]
  <2>1. kept \in Seq(Stored)
    BY <1>2, KeptReadings, Zenon
  <2> QED
    BY <1>1, <1>2, <2>1 DEF WalkersInv
<1>10. WalkersInSync'
  <2> SUFFICES ASSUME NEW w \in Elements(queueWalkers), w \notin rolled'
               PROVE  LET e == data'[AreaOfSelector(wk'[w].sel)] IN
                      /\ wk'[w].offset \in 0 .. Len(e)
                      /\ wk'[w].count = CountMatching(wk'[w].sel, e, wk'[w].offset)
    <3>1. Elements(queueWalkers)' = Elements(queueWalkers)
      BY <1>1 DEF Elements
    <3> QED
      BY <3>1 DEF WalkersInSync, AreaOfSelector, CountMatching, At
  <2>1. w \in Walkers /\ AreaOfSelector(wk[w].sel) \in Areas
    BY QueueFacts
  <2>2. w \notin OnArea(a) /\ w \notin rolled /\ AreaOfSelector(wk[w].sel) # a
    BY <1>1 DEF OnArea
  <2>3. wk'[w] = wk[w] /\ data'[AreaOfSelector(wk[w].sel)] = data[AreaOfSelector(wk[w].sel)]
    BY <1>7, <1>9, <2>1, <2>2
  <2> QED
    BY <2>2, <2>3, InSyncFacts
<1>11. rolled' \subseteq Walkers
  BY <1>1, <1>3 DEF WalkersInv, LogTypes
<1>12. WalkersPlaced' /\ LogTypes'
  BY <1>1, <1>8, <1>9, <1>11, PlacedStays, PushTypes
<1>13. AreasInv'
  BY CallsKeepAreas DEF WalkersInv, Push
<1>14. Undisturbed(rolled')
  <2>1. \A w \in Walkers : w \notin rolled' => /\ w \notin OnArea(a) /\ w \notin rolled
                                               /\ wk'[w] = wk[w]
    BY <1>1, <1>7
  <2>2. \A w \in Elements(queueWalkers) : w \notin OnArea(a) => data'[AreaOfSelector(wk[w].sel)] = data[AreaOfSelector(wk[w].sel)]
    BY <1>9, QueueFacts DEF OnArea
  <2> QED
    BY <1>1, <2>1, <2>2, UndisturbedIf
<1> QED
  BY <1>7, <1>9, <1>10, <1>12, <1>13, <1>14 DEF WalkersInv

-----------------------------------------------------------------------------
(* Calls of one walker. *)

LEMMA AreasStay ==
  ASSUME AreasInv, UNCHANGED <<data, nextId>>
  PROVE  AreasInv'
  BY DEF AreasInv, AreasType, BoundedAreas, UniqueIdsInOrder, Capacity, AreaOf

LEMMA StoredStays ==
  ASSUME WalkersInv, UNCHANGED data
  PROVE  data' \in [Areas -> Seq(Stored)] /\ data' \in [Areas -> Seq(Reading)]
  BY DEF WalkersInv, LogTypes

LEMMA OutcomeTypes ==
  ASSUME NEW r \in Reading \cup {NULL}, NEW e \in Errors
  PROVE  /\ Returned(r) \in [error : Errors, reading : Reading \cup {NULL}]
         /\ Returned(NULL) \in [error : Errors, reading : Reading \cup {NULL}]
         /\ Raised(e) \in [error : Errors, reading : Reading \cup {NULL}]
  BY DEF Returned, Raised, Errors

\* Walker w moves, stays where it is or is emptied; no other walker is disturbed.
Moves(w, v) ==
    /\ v \in Walker /\ v.sel = wk[w].sel /\ v.reading \in {wk[w].reading, NULL}
    /\ wk' = [wk EXCEPT ![w] = v]
    /\ rolled' \subseteq rolled /\ rolled \ {w} \subseteq rolled'
    /\ outcome' \in [error : Errors, reading : Reading \cup {NULL}]
    /\ UNCHANGED <<data, rollover, queueWalkers, virtualWalkers, lastValues, nextId>>

LEMMA MovesKeep ==
  ASSUME WalkersInv, NEW w \in Attached, NEW v, Moves(w, v),
         w \in Elements(queueWalkers) /\ w \notin rolled' =>
            LET d == data[AreaOfSelector(v.sel)] IN
            v.offset \in 0 .. Len(d) /\ v.count = CountMatching(v.sel, d, v.offset)
  PROVE  WalkersInv' /\ Undisturbed({w}) /\ wk'[w].sel = wk[w].sel
<1>1. queueWalkers \in Seq(Walkers) /\ virtualWalkers \in Seq(Walkers) /\ wk \in [Walkers -> Walker]
  BY DEF WalkersInv, LogTypes
<1>2. w \in Walkers
  BY <1>1 DEF Attached, Elements
<1>3. wk'[w] = v /\ \A x \in Walkers : x # w => wk'[x] = wk[x]
  BY <1>1, <1>2 DEF Moves
<1>4. wk' \in [Walkers -> Walker]
  BY <1>1, <1>2 DEF Moves
<1>5. \A x \in Walkers : x # w => x \in rolled' <=> x \in rolled
  BY DEF Moves
<1>6. SameWalkers
  <2>1. wk[w].reading # NULL => wk[w].reading.stream \in wk[w].sel
    BY <1>2 DEF WalkersInv, WalkersPlaced
  <2> QED
    BY <1>3, <1>4, <2>1 DEF SameWalkers, Moves, WalkersInv, WalkersPlaced
<1>7. WalkersPlaced'
  BY <1>6, PlacedStays
<1>8. WalkersInSync'
  <2> SUFFICES ASSUME NEW x \in Elements(queueWalkers), x \notin rolled'
               PROVE  LET e == data[AreaOfSelector(wk'[x].sel)] IN
                      /\ wk'[x].offset \in 0 .. Len(e)
                      /\ wk'[x].count = CountMatching(wk'[x].sel, e, wk'[x].offset)
    <3>1. Elements(queueWalkers)' = Elements(queueWalkers) /\ data' = data
      BY DEF Elements, Moves
    <3> QED
      BY <3>1 DEF WalkersInSync, AreaOfSelector, CountMatching, At
  <2>1. x \in Walkers
    BY QueueFacts
  <2>2. CASE x = w
    BY <1>3, <2>2
  <2>3. CASE x # w
    <3>1. x \notin rolled /\ wk'[x] = wk[x]
      BY <1>3, <1>5, <2>1, <2>3
    <3> QED
      BY <3>1, InSyncFacts
  <2> QED
    BY <2>2, <2>3
<1>9. LogTypes' /\ data' \in [Areas -> Seq(Stored)]
  BY <1>4, StoredStays DEF Moves, WalkersInv, LogTypes
<1>10. AreasInv'
  BY AreasStay DEF Moves, WalkersInv
<1>11. Undisturbed({w})
  BY <1>3, <1>5, UndisturbedIf DEF Moves
<1> QED
  BY <1>3, <1>7, <1>8, <1>9, <1>10, <1>11 DEF WalkersInv, Moves

\* A walker that stops at the first reading ahead has one less to go.
LEMMA CountAfterTake ==
  ASSUME NEW S, NEW d \in Seq(S), NEW k \in Nat, NEW sel, NEW m \in Hits(sel, d, k),
         \A i \in Hits(sel, d, k) : m <= i
  PROVE  /\ m \in Nat /\ m + 1 \in 0 .. Len(d)
         /\ Hits(sel, d, m + 1) = Hits(sel, d, k) \ {m}
         /\ CountMatching(sel, d, m + 1) = CountMatching(sel, d, k) - 1
<1>1. \A i : i \in Hits(sel, d, k) <=> i \in k .. Len(d) - 1 /\ d[i + 1].stream \in sel
  BY HitsAhead
<1>2. m \in k .. Len(d) - 1 /\ m \in Nat /\ m + 1 \in Nat /\ m + 1 \in 0 .. Len(d) /\ Len(d) \in Nat
  BY <1>1
<1>3. \A i : i \in Hits(sel, d, m + 1) <=> i \in m + 1 .. Len(d) - 1 /\ d[i + 1].stream \in sel
  BY <1>2, HitsAhead
<1>4. \A i \in k .. Len(d) - 1 : m <= i /\ i # m => i \in m + 1 .. Len(d) - 1
  BY <1>2
<1>5. \A i \in m + 1 .. Len(d) - 1 : i # m /\ i \in k .. Len(d) - 1
  BY <1>2
<1>6. Hits(sel, d, m + 1) = Hits(sel, d, k) \ {m}
  <2>1. \A i \in Hits(sel, d, m + 1) : i \in Hits(sel, d, k) /\ i # m
    BY <1>1, <1>3, <1>5
  <2>2. \A i \in Hits(sel, d, k) : i # m => i \in Hits(sel, d, m + 1)
    BY <1>1, <1>3, <1>4
  <2> QED
    BY <2>1, <2>2
<1>7. k \in Int /\ m + 1 \in Int
  BY <1>2
<1>8. /\ IsFiniteSet(Hits(sel, d, k))
      /\ CountMatching(sel, d, k) = Cardinality(Hits(sel, d, k))
      /\ CountMatching(sel, d, m + 1) = Cardinality(Hits(sel, d, m + 1))
  BY <1>7, CountIsNat
<1>9. Cardinality(Hits(sel, d, k) \ {m}) = Cardinality(Hits(sel, d, k)) - 1
  BY <1>8, FS_RemoveElement
<1> QED
  BY <1>2, <1>6, <1>8, <1>9

\* What pop() and peek() find, for any walker and for one that no rollover has broken.
LEMMA FoundFacts ==
  ASSUME WalkersInv, NEW w \in Elements(queueWalkers)
  PROVE  LET v == wk[w]
             d == data[AreaOfSelector(v.sel)]
             f == Found(v)
         IN  /\ f.error \in {"none", "StreamEmpty", "IndexError"} /\ f.at \in Int
             /\ f.error = "none" => /\ v.count # 0 /\ f.at \in Hits(v.sel, d, v.offset)
                                    /\ \A i \in Hits(v.sel, d, v.offset) : f.at <= i
                                    /\ ReadingAt(v, f.at) \in Stored
                                    /\ ReadingAt(v, f.at).stream \in v.sel
             /\ w \notin rolled /\ f.error # "none" =>
                    f.error = "StreamEmpty" /\ f.at = v.offset /\ Hits(v.sel, d, v.offset) = {}
             /\ w \notin rolled /\ f.error = "none" =>
                    /\ f.at \in Nat /\ f.at + 1 \in 0 .. Len(d) /\ ReadingAt(v, f.at) = d[f.at + 1]
                    /\ v.count - 1 = CountMatching(v.sel, d, f.at + 1)
<1> DEFINE v == wk[w]
           d == data[AreaOfSelector(v.sel)]
           H == Hits(v.sel, d, v.offset)
           f == Found(v)
<1>1. v \in Walker /\ v.offset \in Int /\ v.count \in Nat /\ d \in Seq(Stored) /\ Len(d) \in Nat
  <2>1. v \in Walker /\ d \in Seq(Stored)
    BY QueueFacts
  <2> QED
    BY <2>1 DEF Walker
<1>2. w \notin rolled => v.offset \in 0 .. Len(d) /\ v.count = CountMatching(v.sel, d, v.offset)
  BY InSyncFacts
<1> HIDE DEF v, d
<1>3. /\ H \in SUBSET Int /\ \A i \in H : v.offset <= i
      /\ CountMatching(v.sel, d, v.offset) = 0 <=> H = {}
  BY <1>1, CountIsNat
<1>4. H # {} => Min(H) \in H /\ \A i \in H : Min(H) <= i
  <2> HIDE DEF H
  <2> QED
    BY <1>1, <1>3, LeastInt
<1>5. \A i \in H : i \in v.offset .. Len(d) - 1 /\ At(d, i).stream \in v.sel
  BY DEF Hits
<1>6. /\ v.count = 0 => f = [error |-> "StreamEmpty", at |-> v.offset]
      /\ v.count # 0 /\ v.offset < -Len(d) => f = [error |-> "IndexError", at |-> v.offset]
      /\ v.count # 0 /\ v.offset >= -Len(d) /\ H = {} =>
            f = [error |-> "StreamEmpty", at |-> IF v.offset > Len(d) THEN v.offset ELSE Len(d)]
      /\ v.count # 0 /\ v.offset >= -Len(d) /\ H # {} => f = [error |-> "none", at |-> Min(H)]
  <2>1. ~(v.offset >= -Len(d) /\ v.offset < -Len(d)) /\ (v.offset >= -Len(d) \/ v.offset < -Len(d))
    BY <1>1
  <2>2. f = CASE v.count = 0 -> [error |-> "StreamEmpty", at |-> v.offset]
              [] v.count # 0 /\ v.offset < -Len(d) -> [error |-> "IndexError", at |-> v.offset]
              [] v.count # 0 /\ v.offset >= -Len(d) /\ H = {} ->
                    [error |-> "StreamEmpty", at |-> IF v.offset > Len(d) THEN v.offset ELSE Len(d)]
              [] OTHER -> [error |-> "none", at |-> Min(H)]
    BY DEF Found, d
  <2> HIDE DEF f, H
  <2> QED
    BY <2>1, <2>2
<1> HIDE DEF f
<1>7. f.error \in {"none", "StreamEmpty", "IndexError"} /\ f.at \in Int
  <2> HIDE DEF H
  <2>1. H # {} => Min(H) \in Int
    BY <1>3, <1>4
  <2>2. v.offset >= -Len(d) \/ v.offset < -Len(d)
    BY <1>1
  <2>3. CASE v.count = 0
    BY <1>1, <1>6, <2>3
  <2>4. CASE v.count # 0 /\ v.offset < -Len(d)
    BY <1>1, <1>6, <2>4
  <2>5. CASE v.count # 0 /\ v.offset >= -Len(d) /\ H = {}
    BY <1>1, <1>6, <2>5
  <2>6. CASE v.count # 0 /\ v.offset >= -Len(d) /\ H # {}
    BY <1>6, <2>1, <2>6
  <2> QED
    BY <2>2, <2>3, <2>4, <2>5, <2>6
<1>8. f.error = "none" => /\ v.count # 0 /\ v.offset >= -Len(d) /\ H # {} /\ f.at = Min(H)
  <2> HIDE DEF H
  <2>1. v.offset >= -Len(d) \/ v.offset < -Len(d)
    BY <1>1
  <2> QED
    BY <1>6, <2>1
<1>9. ASSUME f.error = "none"
      PROVE  ReadingAt(v, f.at) \in Stored /\ ReadingAt(v, f.at).stream \in v.sel
  <2>1. f.at \in v.offset .. Len(d) - 1 /\ At(d, f.at).stream \in v.sel /\ v.offset >= -Len(d)
    BY <1>4, <1>5, <1>8, <1>9
  <2>2. ReadingAt(v, f.at) = At(d, f.at)
    BY DEF ReadingAt, d
  <2>3. At(d, f.at) \in Stored
    <3>1. CASE f.at >= 0
      BY <1>1, <2>1, <3>1 DEF At
    <3>2. CASE ~(f.at >= 0)
      BY <1>1, <2>1, <3>2 DEF At
    <3> QED
      BY <3>1, <3>2
  <2> QED
    BY <2>1, <2>2, <2>3
<1>10. ASSUME w \notin rolled, f.error # "none"
       PROVE  f.error = "StreamEmpty" /\ f.at = v.offset /\ H = {}
  <2>1. v.offset >= -Len(d)
    BY <1>1, <1>2, <1>10
  <2>2. v.count = 0 <=> H = {}
    BY <1>2, <1>3, <1>10
  <2> HIDE DEF H
  <2> QED
    BY <1>6, <1>10, <2>1, <2>2
<1>11. ASSUME w \notin rolled, f.error = "none"
       PROVE  /\ f.at \in Nat /\ f.at + 1 \in 0 .. Len(d) /\ ReadingAt(v, f.at) = d[f.at + 1]
              /\ v.count - 1 = CountMatching(v.sel, d, f.at + 1)
  <2>1. v.offset \in Nat /\ f.at \in H /\ \A i \in H : f.at <= i
    BY <1>1, <1>2, <1>4, <1>8, <1>11
  <2>2. /\ f.at \in Nat /\ f.at + 1 \in 0 .. Len(d)
        /\ CountMatching(v.sel, d, f.at + 1) = CountMatching(v.sel, d, v.offset) - 1
    BY <1>1, <2>1, CountAfterTake
  <2>3. ReadingAt(v, f.at) = d[f.at + 1]
    BY <2>2 DEF ReadingAt, At, d
  <2> QED
    BY <1>2, <1>11, <2>2, <2>3
<1>12. f.error = "none" => v.count # 0 /\ f.at \in H /\ \A i \in H : f.at <= i
  BY <1>4, <1>8
<1> QED
  BY <1>7, <1>9, <1>10, <1>11, <1>12 DEF v, d, f, H

LEMMA PopBufferedMoves ==
  ASSUME WalkersInv, NEW w \in Elements(queueWalkers), PopBuffered(w)
  PROVE  LET v == wk[w]  d == data[AreaOfSelector(v.sel)]  f == Found(v) IN
         \E k \in Int, n \in Nat :
            /\ Moves(w, [v EXCEPT !.offset = k, !.count = n]) /\ rolled' = rolled
            /\ f.error = "none" => k = f.at + 1 /\ n = v.count - 1 /\ outcome' = Returned(ReadingAt(v, f.at))
            /\ f.error # "none" => k = f.at /\ n = v.count /\ outcome' = Raised(f.error)
<1> DEFINE v == wk[w]
           f == Found(v)
           P(k, n) == /\ Moves(w, [v EXCEPT !.offset = k, !.count = n]) /\ rolled' = rolled
                      /\ f.error = "none" => k = f.at + 1 /\ n = v.count - 1 /\ outcome' = Returned(ReadingAt(v, f.at))
                      /\ f.error # "none" => k = f.at /\ n = v.count /\ outcome' = Raised(f.error)
<1>1. /\ w \in Walkers /\ v \in Walker /\ v.count \in Nat
      /\ v = [sel |-> v.sel, offset |-> v.offset, count |-> v.count, reading |-> v.reading]
      /\ wk \in [Walkers -> Walker]
  <2>1. w \in Walkers /\ v \in Walker
    BY QueueFacts
  <2> QED
    BY <2>1 DEF Walker, WalkersInv, LogTypes
<1>2. /\ f.error \in {"none", "StreamEmpty", "IndexError"} /\ f.at \in Int
      /\ f.error = "none" => v.count # 0 /\ ReadingAt(v, f.at) \in Stored
  BY FoundFacts
<1>3. /\ f.error = "none" => /\ wk' = [wk EXCEPT ![w].offset = f.at + 1, ![w].count = @ - 1]
                             /\ outcome' = Returned(ReadingAt(v, f.at))
      /\ f.error # "none" => /\ wk' = [wk EXCEPT ![w].offset = f.at]
                             /\ outcome' = Raised(f.error)
      /\ UNCHANGED <<data, rollover, queueWalkers, virtualWalkers, lastValues, nextId, rolled>>
  BY DEF PopBuffered
<1> HIDE DEF f
<1>4. ASSUME f.error = "none" PROVE \E k \in Int, n \in Nat : P(k, n)
  <2> DEFINE k == f.at + 1
             n == v.count - 1
             u == [v EXCEPT !.offset = k, !.count = n]
  <2>1. k \in Int /\ n \in Nat /\ NULL \in Reading \cup {NULL}
    BY <1>1, <1>2, <1>4
  <2>2. wk' = [wk EXCEPT ![w] = u]
    <3>1. wk' = [[wk EXCEPT ![w].offset = k] EXCEPT ![w].count = @ - 1]
      BY <1>3, <1>4
    <3>2. [wk EXCEPT ![w].offset = k] = [wk EXCEPT ![w] = [v EXCEPT !.offset = k]]
      BY <1>1
    <3>3. [[wk EXCEPT ![w] = [v EXCEPT !.offset = k]] EXCEPT ![w].count = @ - 1]
            = [wk EXCEPT ![w] = [[v EXCEPT !.offset = k] EXCEPT !.count = [v EXCEPT !.offset = k].count - 1]]
      BY <1>1
    <3>4. [v EXCEPT !.offset = k].count = v.count
      BY <1>1
    <3> QED
      BY <3>1, <3>2, <3>3, <3>4, Zenon
  <2> HIDE DEF k, n
  <2>3. u \in Walker /\ u = [sel |-> v.sel, offset |-> k, count |-> n, reading |-> v.reading]
    BY <1>1, <2>1, WalkerFields
  <2> HIDE DEF u
  <2>4. u.sel = v.sel /\ u.reading = v.reading
    BY <2>3
  <2>5. outcome' \in [error : Errors, reading : Reading \cup {NULL}]
    BY <1>2, <1>3, <1>4, StoredIsReading DEF Returned, Errors
  <2>6. Moves(w, u) /\ rolled' = rolled
    BY <1>3, <2>2, <2>3, <2>4, <2>5 DEF Moves
  <2>7. P(k, n)
    BY <1>3, <1>4, <2>6 DEF k, n, u
  <2> HIDE DEF P
  <2> QED
    BY <2>1, <2>7
<1>5. ASSUME f.error # "none" PROVE \E k \in Int, n \in Nat : P(k, n)
  <2> DEFINE k == f.at
             n == v.count
             u == [v EXCEPT !.offset = k, !.count = n]
  <2>1. k \in Int /\ n \in Nat /\ NULL \in Reading \cup {NULL}
    BY <1>1, <1>2, <1>5
  <2>2. wk' = [wk EXCEPT ![w] = [v EXCEPT !.offset = k]]
    BY <1>1, <1>3, <1>5
  <2>3. u \in Walker /\ u = [sel |-> v.sel, offset |-> k, count |-> n, reading |-> v.reading]
    BY <1>1, <2>1, WalkerFields
  <2>4. [v EXCEPT !.offset = k] = [sel |-> v.sel, offset |-> k, count |-> v.count, reading |-> v.reading]
    BY <1>1, <2>1, WalkerFields
  <2>5. [v EXCEPT !.offset = k] = u
    BY <2>3, <2>4
  <2>6. wk' = [wk EXCEPT ![w] = u]
    BY <2>2, <2>5, Zenon
  <2> HIDE DEF u
  <2>7. u.sel = v.sel /\ u.reading = v.reading
    BY <2>3
  <2>8. outcome' \in [error : Errors, reading : Reading \cup {NULL}]
    BY <1>2, <1>3, <1>5 DEF Raised, Errors
  <2>9. Moves(w, u) /\ rolled' = rolled
    BY <1>3, <2>3, <2>6, <2>7, <2>8 DEF Moves
  <2>10. P(k, n)
    BY <1>3, <1>5, <2>9 DEF u
  <2> HIDE DEF P
  <2> QED
    BY <2>1, <2>10
<1> QED
  BY <1>4, <1>5 DEF f

\* A walker at place k with n readings to go: MovesKeep for a buffered walker.
LEMMA PlacesKeep ==
  ASSUME WalkersInv, NEW w \in Elements(queueWalkers), NEW k \in Int, NEW n \in Nat,
         Moves(w, [wk[w] EXCEPT !.offset = k, !.count = n]),
         w \notin rolled' =>
            LET d == data[AreaOfSelector(wk[w].sel)] IN
            k \in 0 .. Len(d) /\ n = CountMatching(wk[w].sel, d, k)
  PROVE  /\ WalkersInv' /\ Undisturbed({w})
         /\ wk'[w].sel = wk[w].sel /\ wk'[w].offset = k
<1> DEFINE v == wk[w]
           u == [v EXCEPT !.offset = k, !.count = n]
<1>1. v \in Walker
  BY QueueFacts
<1>2. u = [sel |-> v.sel, offset |-> k, count |-> n, reading |-> v.reading]
  <2>1. NULL \in Reading \cup {NULL}
    OBVIOUS
  <2> QED
    BY <1>1, <2>1, WalkerFields
<1>3. w \in Attached
  BY DEF Attached
<1> HIDE DEF u, v
<1>4. u.sel = v.sel /\ u.offset = k /\ u.count = n
  BY <1>2
<1>5. w \notin rolled' =>
            LET d == data[AreaOfSelector(u.sel)] IN
            u.offset \in 0 .. Len(d) /\ u.count = CountMatching(u.sel, d, u.offset)
  BY <1>4 DEF v
<1>6. w \in Walkers /\ wk \in [Walkers -> Walker]
  BY QueueFacts DEF WalkersInv, LogTypes
<1>7. wk'[w] = u
  BY <1>6 DEF Moves, u, v
<1>8. WalkersInv' /\ Undisturbed({w}) /\ wk'[w].sel = v.sel
  BY <1>3, <1>5, MovesKeep DEF u, v
<1> QED
  BY <1>4, <1>7, <1>8 DEF v

LEMMA PopBufferedKeeps ==
  ASSUME WalkersInv, NEW w \in Walkers, PopBuffered(w)
  PROVE  /\ WalkersInv' /\ Undisturbed({w}) /\ wk'[w].sel = wk[w].sel
         /\ LET f == Found(wk[w]) IN wk'[w].offset = IF f.error = "none" THEN f.at + 1 ELSE f.at
<1> DEFINE v == wk[w]
           f == Found(v)
           d == data[AreaOfSelector(v.sel)]
<1>1. w \in Elements(queueWalkers)
  BY DEF PopBuffered
<1>2. PICK k \in Int, n \in Nat :
            /\ Moves(w, [v EXCEPT !.offset = k, !.count = n]) /\ rolled' = rolled
            /\ f.error = "none" => k = f.at + 1 /\ n = v.count - 1
            /\ f.error # "none" => k = f.at /\ n = v.count
  <2> HIDE DEF f
  <2> QED
    BY <1>1, PopBufferedMoves DEF f
<1>3. w \notin rolled => /\ f.error # "none" => f.at = v.offset
                         /\ f.error = "none" => f.at + 1 \in 0 .. Len(d) /\ v.count - 1 = CountMatching(v.sel, d, f.at + 1)
  <2> HIDE DEF f
  <2> QED
    BY <1>1, FoundFacts DEF f
<1>4. w \notin rolled => v.offset \in 0 .. Len(d) /\ v.count = CountMatching(v.sel, d, v.offset)
  BY <1>1, InSyncFacts
<1> HIDE DEF f
<1>5. w \notin rolled' => k \in 0 .. Len(d) /\ n = CountMatching(v.sel, d, k)
  BY <1>2, <1>3, <1>4
<1>6. WalkersInv' /\ Undisturbed({w}) /\ wk'[w].sel = v.sel /\ wk'[w].offset = k
  BY <1>1, <1>2, <1>5, PlacesKeep
<1>7. wk'[w].offset = IF f.error = "none" THEN f.at + 1 ELSE f.at
  BY <1>2, <1>6
<1> QED
  BY <1>6, <1>7 DEF f

\* Nothing but the outcome changes.
LEMMA LooksKeep ==
  ASSUME WalkersInv, outcome' \in [error : Errors, reading : Reading \cup {NULL}],
         UNCHANGED <<data, rollover, queueWalkers, virtualWalkers, wk, lastValues, nextId, rolled>>
  PROVE  WalkersInv' /\ Undisturbed({})
<1>1. SameWalkers
  BY DEF SameWalkers, WalkersInv, LogTypes, WalkersPlaced
<1>2. WalkersPlaced' /\ WalkersInSync'
  BY <1>1, PlacedStays, SyncStays
<1>3. LogTypes' /\ data' \in [Areas -> Seq(Stored)]
  BY StoredStays DEF WalkersInv, LogTypes
<1>4. AreasInv'
  BY AreasStay DEF WalkersInv
<1>5. Undisturbed({})
  BY UndisturbedIf
<1> QED
  BY <1>2, <1>3, <1>4, <1>5 DEF WalkersInv

LEMMA PeekBufferedKeeps ==
  ASSUME WalkersInv, NEW w \in Walkers, PeekBuffered(w)
  PROVE  WalkersInv' /\ Undisturbed({})
<1> DEFINE f == Found(wk[w])
<1>1. /\ w \in Elements(queueWalkers)
      /\ f.error = "none" => outcome' = Returned(ReadingAt(wk[w], f.at))
      /\ f.error # "none" => outcome' = Raised(f.error)
      /\ UNCHANGED <<data, rollover, queueWalkers, virtualWalkers, wk, lastValues, nextId, rolled>>
  BY DEF PeekBuffered
<1> HIDE DEF f
<1>2. /\ f.error \in {"none", "StreamEmpty", "IndexError"}
      /\ f.error = "none" => ReadingAt(wk[w], f.at) \in Stored
  BY <1>1, FoundFacts DEF f
<1>3. outcome' \in [error : Errors, reading : Reading \cup {NULL}]
  BY <1>1, <1>2, StoredIsReading DEF Returned, Raised, Errors
<1> QED
  BY <1>1, <1>3, LooksKeep

LEMMA VirtualFacts ==
  ASSUME WalkersInv, NEW w \in Elements(virtualWalkers)
  PROVE  /\ w \in Walkers /\ w \in Attached /\ w \notin Elements(queueWalkers)
         /\ wk[w] \in Walker /\ wk[w].sel \in Selectors /\ ~Buffered(wk[w].sel)
         /\ wk[w].count \in Nat /\ wk[w].reading \in Reading \cup {NULL}
         /\ wk[w].reading # NULL => wk[w].reading.stream \in wk[w].sel
<1>1. virtualWalkers \in Seq(Walkers) /\ wk \in [Walkers -> Walker]
  BY DEF WalkersInv, LogTypes
<1>2. w \in Walkers
  BY <1>1 DEF Elements
<1>3. wk[w] \in Walker
  BY <1>1, <1>2
<1> QED
  BY <1>2, <1>3 DEF WalkersInv, WalkersPlaced, Attached, Walker

LEMMA PopVirtualKeeps ==
  ASSUME WalkersInv, NEW w \in Walkers, PopVirtual(w)
  PROVE  WalkersInv' /\ Undisturbed({})
<1> DEFINE v == wk[w]
           counter == v.sel \subseteq CounterStreams
           empty == IF counter THEN v.count = 0 ELSE v.reading = NULL
<1>1. /\ w \in Elements(virtualWalkers)
      /\ outcome' = Raised("StreamEmpty") \/ outcome' = Returned(v.reading)
      /\ UNCHANGED <<data, rollover, queueWalkers, virtualWalkers, lastValues, nextId, rolled>>
  BY DEF PopVirtual
<1>2. /\ v \in Walker /\ w \notin Elements(queueWalkers) /\ w \in Attached
      /\ v.count \in Nat /\ v.reading \in Reading \cup {NULL} /\ NULL \in Reading \cup {NULL}
      /\ v = [sel |-> v.sel, offset |-> v.offset, count |-> v.count, reading |-> v.reading]
      /\ v.offset \in Int /\ wk \in [Walkers -> Walker]
  BY <1>1, VirtualFacts DEF Walker, WalkersInv, LogTypes
<1>3. outcome' \in [error : Errors, reading : Reading \cup {NULL}]
  BY <1>1, <1>2 DEF Raised, Returned, Errors
<1>4. \/ wk' = wk
      \/ v.count # 0 /\ wk' = [wk EXCEPT ![w].count = @ - 1]
      \/ wk' = [wk EXCEPT ![w].reading = NULL]
  <2>1. wk' = CASE empty \/ v.sel \subseteq ConstantStreams -> wk
                [] ~empty /\ counter -> [wk EXCEPT ![w].count = @ - 1]
                [] OTHER -> [wk EXCEPT ![w].reading = NULL]
    BY DEF PopVirtual
  <2>2. /\ ~empty /\ counter => wk[w].count # 0
        /\ empty \in BOOLEAN /\ counter \in BOOLEAN
    OBVIOUS
  <2> HIDE DEF counter, empty
  <2>3. CASE empty \/ v.sel \subseteq ConstantStreams
    BY <2>1, <2>2, <2>3
  <2>4. CASE ~(empty \/ v.sel \subseteq ConstantStreams) /\ counter
    BY <2>1, <2>2, <2>4
  <2>5. CASE ~(empty \/ v.sel \subseteq ConstantStreams) /\ ~counter
    BY <2>1, <2>2, <2>5
  <2> QED
    BY <2>3, <2>4, <2>5
<1>8. Undisturbed({w}) /\ wk'[w].sel = v.sel => Undisturbed({})
  <2>1. UnreadBy(w) = {} /\ UnreadBy(w)' = {}
    BY <1>1, <1>2, UnreadIsAhead, UnreadIsAheadNext
  <2> QED
    BY <2>1 DEF Undisturbed
<1>5. CASE wk' = wk
  BY <1>1, <1>3, <1>5, LooksKeep
<1>6. CASE v.count # 0 /\ wk' = [wk EXCEPT ![w].count = @ - 1]
  <2> DEFINE u == [v EXCEPT !.count = v.count - 1]
  <2>1. wk' = [wk EXCEPT ![w] = u]
    BY <1>2, <1>6
  <2>2. u \in Walker /\ u.sel = v.sel /\ u.reading = v.reading
    <3>1. v.count - 1 \in Nat /\ 0 \in Int
      BY <1>2, <1>6
    <3>2. u \in Walker /\ u = [sel |-> v.sel, offset |-> v.offset, count |-> v.count - 1, reading |-> v.reading]
      BY <1>2, <3>1, WalkerFields
    <3> HIDE DEF u
    <3>3. u.sel = v.sel /\ u.reading = v.reading
      BY <3>2
    <3> QED
      BY <3>2, <3>3
  <2> HIDE DEF u
  <2>3. Moves(w, u)
    BY <1>1, <1>3, <2>1, <2>2 DEF Moves
  <2> QED
    BY <1>8, <1>2, <2>3, MovesKeep
<1>7. CASE wk' = [wk EXCEPT ![w].reading = NULL]
  <2> DEFINE u == [v EXCEPT !.reading = NULL]
  <2>1. wk' = [wk EXCEPT ![w] = u]
    BY <1>2, <1>7
  <2>2. u \in Walker /\ u.sel = v.sel /\ u.reading = NULL
    <3>1. 0 \in Int /\ 0 \in Nat
      OBVIOUS
    <3>2. u \in Walker /\ u = [sel |-> v.sel, offset |-> v.offset, count |-> v.count, reading |-> NULL]
      BY <1>2, <3>1, WalkerFields
    <3> HIDE DEF u
    <3>3. u.sel = v.sel /\ u.reading = NULL
      BY <3>2
    <3> QED
      BY <3>2, <3>3
  <2> HIDE DEF u
  <2>3. Moves(w, u)
    BY <1>1, <1>3, <2>1, <2>2 DEF Moves
  <2> QED
    BY <1>8, <1>2, <2>3, MovesKeep
<1> QED
  BY <1>4, <1>5, <1>6, <1>7

LEMMA PeekVirtualKeeps ==
  ASSUME WalkersInv, NEW w \in Walkers, PeekVirtual(w)
  PROVE  WalkersInv' /\ Undisturbed({})
<1>1. /\ w \in Elements(virtualWalkers)
      /\ outcome' = Raised("StreamEmpty") \/ outcome' = Returned(wk[w].reading)
      /\ UNCHANGED <<data, rollover, queueWalkers, virtualWalkers, wk, lastValues, nextId, rolled>>
  BY DEF PeekVirtual
<1>2. wk[w].reading \in Reading \cup {NULL}
  BY <1>1, VirtualFacts
<1>3. outcome' \in [error : Errors, reading : Reading \cup {NULL}]
  BY <1>1, <1>2 DEF Raised, Returned, Errors
<1> QED
  BY <1>1, <1>3, LooksKeep

LEMMA HeardWalker ==
  ASSUME NEW v \in Walker, NEW n \in Nat, NEW r \in Reading \cup {NULL}
  PROVE  /\ [v EXCEPT !.reading = r, !.count = n] \in Walker
         /\ [v EXCEPT !.reading = r, !.count = n] =
               [sel |-> v.sel, offset |-> v.offset, count |-> n, reading |-> r]
<1>1. /\ v = [sel |-> v.sel, offset |-> v.offset, count |-> v.count, reading |-> v.reading]
      /\ v.sel \in Selectors \cup {{}} /\ v.offset \in Int
  BY DEF Walker
<1>2. [v EXCEPT !.reading = r] = [sel |-> v.sel, offset |-> v.offset, count |-> v.count, reading |-> r]
  BY <1>1
<1>3. [[sel |-> v.sel, offset |-> v.offset, count |-> v.count, reading |-> r] EXCEPT !.count = n]
        = [sel |-> v.sel, offset |-> v.offset, count |-> n, reading |-> r]
  OBVIOUS
<1>4. [v EXCEPT !.reading = r, !.count = n] = [[v EXCEPT !.reading = r] EXCEPT !.count = n]
  OBVIOUS
<1>5. [v EXCEPT !.reading = r, !.count = n] = [sel |-> v.sel, offset |-> v.offset, count |-> n, reading |-> r]
  BY <1>2, <1>3, <1>4, Zenon
<1> QED
  BY <1>1, <1>5 DEF Walker

\* push() of a virtual stream: each walker on it holds the reading, and counts it or does not.
LEMMA PushVirtualKeeps ==
  ASSUME WalkersInv, NEW s \in VirtualStreams, NEW x \in Values, PushVirtual(s, x)
  PROVE  WalkersInv' /\ Undisturbed({})
<1> DEFINE r == [stream |-> s, tag |-> x]
           Hears(w) == w \in Elements(virtualWalkers) /\ s \in wk[w].sel
           Bump == IF s \in CounterStreams THEN 1 ELSE 0
           u(w) == [wk[w] EXCEPT !.reading = r, !.count = wk[w].count + Bump]
<1>1. /\ wk' = [w \in Walkers |-> IF Hears(w) THEN u(w) ELSE wk[w]]
      /\ lastValues' = [lastValues EXCEPT ![s] = r]
      /\ outcome' = Returned(NULL)
      /\ UNCHANGED <<data, rollover, queueWalkers, virtualWalkers, nextId, rolled>>
  BY DEF PushVirtual
<1>2. r \in Reading \cup {NULL} /\ r.stream = s /\ Bump \in Nat
  BY ValuesAssumption DEF Reading, Streams
<1>3. wk \in [Walkers -> Walker]
  BY DEF WalkersInv, LogTypes
<1> HIDE DEF r, Bump
<1>4. \A w \in Walkers : u(w) \in Walker /\ u(w).sel = wk[w].sel /\ u(w).reading = r
  <2> SUFFICES ASSUME NEW w \in Walkers PROVE u(w) \in Walker /\ u(w).sel = wk[w].sel /\ u(w).reading = r
    OBVIOUS
  <2> DEFINE n == wk[w].count + Bump
             v == wk[w]
  <2>1. wk[w] \in Walker /\ n \in Nat /\ 0 \in Int
    BY <1>2, <1>3 DEF Walker
  <2> HIDE DEF n, v
  <2>2. /\ [v EXCEPT !.reading = r, !.count = n] \in Walker
        /\ [v EXCEPT !.reading = r, !.count = n] =
              [sel |-> v.sel, offset |-> v.offset, count |-> n, reading |-> r]
    <3>1. v \in Walker /\ 0 \in Int /\ n \in Nat /\ r \in Reading \cup {NULL}
      BY <1>2, <2>1 DEF v
    <3> QED
      BY <3>1, HeardWalker
  <2>3. u(w) = [v EXCEPT !.reading = r, !.count = n]
    BY DEF n, v
  <2> HIDE DEF u
  <2>4. u(w) \in Walker /\ u(w) = [sel |-> wk[w].sel, offset |-> wk[w].offset, count |-> n, reading |-> r]
    BY <2>2, <2>3 DEF v
  <2> QED
    BY <2>4
<1>5. \A w \in Walkers : Hears(w) => wk'[w] = u(w)
  BY <1>1
<1>6. \A w \in Walkers : ~Hears(w) => wk'[w] = wk[w]
  BY <1>1
<1>7. wk' = [w \in Walkers |-> wk'[w]]
  BY <1>1
<1> HIDE DEF u
<1>8. SameWalkers
  <2>1. wk' \in [Walkers -> Walker]
    BY <1>3, <1>4, <1>5, <1>6, <1>7
  <2>2. ASSUME NEW w \in Walkers
        PROVE  /\ wk'[w].sel = wk[w].sel
               /\ w \notin Attached => wk'[w] = wk[w]
               /\ wk'[w].reading # NULL => wk'[w].reading.stream \in wk'[w].sel
    <3>1. CASE Hears(w)
      BY <1>2, <1>4, <1>5, <3>1 DEF Attached
    <3>2. CASE ~Hears(w)
      BY <1>6, <3>2 DEF WalkersInv, WalkersPlaced
    <3> QED
      BY <3>1, <3>2
  <2> QED
    BY <1>1, <2>1, <2>2 DEF SameWalkers
<1>9. \A w \in Elements(queueWalkers) : w \notin rolled' => w \notin rolled /\ wk'[w] = wk[w]
  <2> SUFFICES ASSUME NEW w \in Elements(queueWalkers) PROVE wk'[w] = wk[w]
    BY <1>1
  <2>1. w \in Walkers /\ ~Hears(w)
    BY QueueFacts, VirtualFacts
  <2> QED
    BY <1>6, <2>1
<1>10. WalkersPlaced' /\ WalkersInSync'
  BY <1>1, <1>8, <1>9, PlacedStays, SyncStays
<1>11. data' \in [Areas -> Seq(Stored)] /\ LogTypes'
  <2>1. lastValues' \in [VirtualStreams -> Reading \cup {NULL}]
    BY <1>1, <1>2 DEF WalkersInv, LogTypes
  <2>2. outcome' \in [error : Errors, reading : Reading \cup {NULL}]
    BY <1>1 DEF Returned, Errors
  <2> QED
    BY <1>1, <1>8, <2>1, <2>2, StoredStays DEF WalkersInv, LogTypes, SameWalkers
<1>12. AreasInv'
  BY <1>1, AreasStay DEF WalkersInv
<1>13. Undisturbed({})
  <2>1. \A w \in Elements(queueWalkers) : wk'[w] = wk[w]
    <3> SUFFICES ASSUME NEW w \in Elements(queueWalkers) PROVE wk'[w] = wk[w]
      OBVIOUS
    <3>1. w \in Walkers /\ ~Hears(w)
      BY QueueFacts, VirtualFacts
    <3> QED
      BY <1>6, <3>1
  <2> QED
    BY <1>1, <1>8, <2>1, UndisturbedIf DEF SameWalkers
<1> QED
  BY <1>10, <1>11, <1>12, <1>13 DEF WalkersInv

LEMMA NothingAheadAtEnd ==
  ASSUME NEW S, NEW d \in Seq(S), NEW sel
  PROVE  /\ Len(d) \in Nat /\ Len(d) \in 0 .. Len(d)
         /\ Hits(sel, d, Len(d)) = {} /\ CountMatching(sel, d, Len(d)) = 0
<1>1. Len(d) \in Nat /\ Len(d) \in 0 .. Len(d) /\ Len(d) \in Int
  OBVIOUS
<1>2. Hits(sel, d, Len(d)) = {}
  <2>1. \A i : i \in Hits(sel, d, Len(d)) <=> i \in Len(d) .. Len(d) - 1 /\ d[i + 1].stream \in sel
    BY <1>1, HitsAhead
  <2>2. Len(d) .. Len(d) - 1 = {}
    BY <1>1
  <2> QED
    BY <2>1, <2>2
<1> QED
  BY <1>1, <1>2, CountIsNat

LEMMA SkippedWalker ==
  ASSUME WalkersInv, NEW w \in Attached, NEW e \in [Areas -> Seq(Stored)]
  PROVE  LET v == wk[w]  u == Skipped(v, e)  k == Len(e[AreaOfSelector(v.sel)]) IN
         /\ u \in Walker /\ u.sel = v.sel /\ u.reading \in {v.reading, NULL}
         /\ w \in Elements(queueWalkers) => u = [v EXCEPT !.offset = k, !.count = 0] /\ u.offset = k /\ u.count = 0
         /\ k \in Nat
<1> DEFINE v == wk[w]
           u == Skipped(v, e)
           k == Len(e[AreaOfSelector(v.sel)])
<1>1. v \in Walker /\ w \in Walkers
  BY QueueFacts, VirtualFacts DEF Attached
<1>2. k \in Nat /\ k \in Int /\ 0 \in Nat /\ NULL \in Reading \cup {NULL} /\ 0 \in Int
  <2>1. AreaOfSelector(v.sel) \in Areas
    BY SelectorHasArea
  <2>2. e[AreaOfSelector(v.sel)] \in Seq(Stored)
    BY <2>1
  <2> QED
    BY <2>2
<1> HIDE DEF v, k
<1>3. u = CASE Buffered(v.sel) -> [v EXCEPT !.offset = k, !.count = 0]
            [] v.sel \subseteq CounterStreams -> [v EXCEPT !.count = 0]
            [] v.sel \subseteq UnbufferedStreams -> [v EXCEPT !.reading = NULL]
            [] OTHER -> v
  BY DEF Skipped, k
<1>4. /\ [v EXCEPT !.offset = k, !.count = 0] \in Walker
      /\ [v EXCEPT !.offset = k, !.count = 0] = [sel |-> v.sel, offset |-> k, count |-> 0, reading |-> v.reading]
      /\ [v EXCEPT !.count = 0] \in Walker
      /\ [v EXCEPT !.count = 0] = [sel |-> v.sel, offset |-> v.offset, count |-> 0, reading |-> v.reading]
      /\ [v EXCEPT !.reading = NULL] \in Walker
      /\ [v EXCEPT !.reading = NULL] = [sel |-> v.sel, offset |-> v.offset, count |-> v.count, reading |-> NULL]
  BY <1>1, <1>2, WalkerFields
<1>5. Buffered(v.sel) \/ u \in {[v EXCEPT !.count = 0], [v EXCEPT !.reading = NULL], v}
  <2> HIDE DEF u
  <2>1. (v.sel \subseteq CounterStreams) \in BOOLEAN /\ (v.sel \subseteq UnbufferedStreams) \in BOOLEAN
    OBVIOUS
  <2> QED
    BY <1>3, <2>1, Zenon DEF Buffered
<1>6. Buffered(v.sel) => u = [v EXCEPT !.offset = k, !.count = 0]
  <2>1. ASSUME Buffered(v.sel), v.sel \subseteq CounterStreams \/ v.sel \subseteq UnbufferedStreams
        PROVE  v.sel = {}
    BY <2>1, StreamsAssumption DEF Buffered, VirtualStreams
  <2>2. w \in Attached /\ (w \in Elements(queueWalkers) \/ w \in Elements(virtualWalkers))
    BY DEF Attached
  <2>3. v.sel \in Selectors
    BY <2>2, QueueFacts, VirtualFacts DEF v
  <2>4. v.sel # {}
    BY <2>3, SelectorsAssumption
  <2>5. ASSUME Buffered(v.sel)
        PROVE  u = [v EXCEPT !.offset = k, !.count = 0]
    <3>1. ~(v.sel \subseteq CounterStreams) /\ ~(v.sel \subseteq UnbufferedStreams)
      BY <2>1, <2>4, <2>5
    <3> HIDE DEF u
    <3> QED
      BY <1>3, <2>5, <3>1
  <2> QED
    BY <2>5
<1> HIDE DEF u
<1>7. w \in Elements(queueWalkers) => Buffered(v.sel)
  BY QueueFacts DEF v
<1>8. u \in Walker /\ u.sel = v.sel /\ u.reading \in {v.reading, NULL}
  <2>1. CASE Buffered(v.sel)
    BY <1>4, <1>6, <2>1
  <2>2. CASE u = [v EXCEPT !.count = 0]
    BY <1>4, <2>2
  <2>3. CASE u = [v EXCEPT !.reading = NULL]
    BY <1>4, <2>3
  <2>4. CASE u = v
    BY <1>1, <2>4
  <2> QED
    BY <1>5, <2>1, <2>2, <2>3, <2>4
<1>9. w \in Elements(queueWalkers) => u = [v EXCEPT !.offset = k, !.count = 0] /\ u.offset = k /\ u.count = 0
  BY <1>4, <1>6, <1>7
<1> QED
  BY <1>2, <1>8, <1>9 DEF u, v, k

LEMMA SkipAllKeeps ==
  ASSUME WalkersInv, NEW w \in Walkers, SkipAll(w)
  PROVE  WalkersInv' /\ Undisturbed({w})
<1> DEFINE v == wk[w]
           u == Skipped(v, data)
           d == data[AreaOfSelector(v.sel)]
<1>1. /\ w \in Attached /\ wk' = [wk EXCEPT ![w] = u] /\ rolled' = rolled \ {w} /\ outcome' = Returned(NULL)
      /\ UNCHANGED <<data, rollover, queueWalkers, virtualWalkers, lastValues, nextId>>
  BY DEF SkipAll
<1>2. data \in [Areas -> Seq(Stored)]
  BY DEF WalkersInv
<1>3. /\ u \in Walker /\ u.sel = v.sel /\ u.reading \in {v.reading, NULL}
      /\ w \in Elements(queueWalkers) => u.offset = Len(d) /\ u.count = 0
  <2> HIDE DEF u
  <2> QED
    BY <1>1, <1>2, SkippedWalker DEF u
<1> HIDE DEF u
<1>4. w \in Elements(queueWalkers) =>
         LET e == data[AreaOfSelector(u.sel)] IN
         u.offset \in 0 .. Len(e) /\ u.count = CountMatching(u.sel, e, u.offset)
  <2> SUFFICES ASSUME w \in Elements(queueWalkers)
               PROVE  u.offset \in 0 .. Len(d) /\ u.count = CountMatching(v.sel, d, u.offset)
    BY <1>3
  <2>1. d \in Seq(Stored)
    BY QueueFacts
  <2> HIDE DEF d
  <2>2. Len(d) \in 0 .. Len(d) /\ CountMatching(v.sel, d, Len(d)) = 0
    BY <2>1, NothingAheadAtEnd
  <2> QED
    BY <1>3, <2>2
<1>5. outcome' \in [error : Errors, reading : Reading \cup {NULL}]
  BY <1>1 DEF Returned, Errors
<1>6. Moves(w, u)
  BY <1>1, <1>3, <1>5 DEF Moves
<1> QED
  BY <1>1, <1>4, <1>6, MovesKeep

\* What a seek does, and a seek that does not find its place.
LEMMA SeekToMoves ==
  ASSUME WalkersInv, NEW w \in Elements(queueWalkers), NEW k \in Nat,
         k < Len(data[AreaOfSelector(wk[w].sel)]), SeekTo(w, k),
         UNCHANGED <<data, rollover, queueWalkers, virtualWalkers, lastValues, nextId>>
  PROVE  /\ Moves(w, [wk[w] EXCEPT !.offset = k,
                                   !.count = CountMatching(wk[w].sel, data[AreaOfSelector(wk[w].sel)], k)])
         /\ CountMatching(wk[w].sel, data[AreaOfSelector(wk[w].sel)], k) \in Nat
         /\ rolled' = rolled \ {w} /\ WalkersInv' /\ Undisturbed({w})
         /\ wk'[w].sel = wk[w].sel /\ wk'[w].offset = k
<1> DEFINE v == wk[w]
           d == data[AreaOfSelector(v.sel)]
           n == CountMatching(v.sel, d, k)
           u == [v EXCEPT !.offset = k, !.count = n]
<1>1. wk' = [wk EXCEPT ![w] = u] /\ rolled' = rolled \ {w} /\ outcome' = Returned(NULL)
  BY DEF SeekTo, Sought
<1>2. v \in Walker /\ w \in Walkers /\ d \in Seq(Stored) /\ k \in Int
  BY QueueFacts
<1>3. n \in Nat /\ NULL \in Reading \cup {NULL}
  <2> HIDE DEF d
  <2> QED
    BY <1>2, CountIsNat
<1> HIDE DEF n
<1>4. u \in Walker /\ u = [sel |-> v.sel, offset |-> k, count |-> n, reading |-> v.reading]
  BY <1>2, <1>3, WalkerFields
<1>5. outcome' \in [error : Errors, reading : Reading \cup {NULL}]
  BY <1>1 DEF Returned, Errors
<1> HIDE DEF u
<1>6. u.sel = v.sel /\ u.reading = v.reading
  BY <1>4
<1>7. Moves(w, u)
  BY <1>1, <1>4, <1>5, <1>6 DEF Moves
<1>8. k \in 0 .. Len(d)
  BY <1>2
<1>9. WalkersInv' /\ Undisturbed({w})
  <2>1. k \in 0 .. Len(d) /\ n = CountMatching(v.sel, d, k)
    BY <1>8 DEF n
  <2> QED
    BY <1>2, <1>3, <1>7, <2>1, PlacesKeep DEF u
<1>10. wk'[w].sel = v.sel /\ wk'[w].offset = k
  <2>1. wk \in [Walkers -> Walker]
    BY DEF WalkersInv, LogTypes
  <2>2. wk'[w] = u
    BY <1>1, <1>2, <2>1
  <2> QED
    BY <1>4, <2>2
<1> QED
  BY <1>1, <1>3, <1>7, <1>9, <1>10 DEF u, n

LEMMA SeeksKeep ==
  ASSUME WalkersInv, NEW w \in Walkers,
         (\E k \in Nat : SeekOffset(w, k)) \/ (\E id : SeekId(w, id))
  PROVE  /\ WalkersInv'
         /\ \/ Undisturbed({}) /\ outcome' = Raised("Unresolved") /\ rolled' = rolled
            \/ /\ Undisturbed({w}) /\ outcome' = Returned(NULL) /\ rolled' = rolled \ {w}
               /\ wk'[w].sel = wk[w].sel
               /\ \E k \in 0 .. Len(data[AreaOfSelector(wk[w].sel)]) - 1 : wk'[w].offset = k
<1> DEFINE d == data[AreaOfSelector(wk[w].sel)]
           Stays == /\ outcome' = Raised("Unresolved")
                    /\ UNCHANGED <<data, rollover, queueWalkers, virtualWalkers, wk, lastValues, nextId, rolled>>
           Goes(k) == /\ k < Len(d) /\ SeekTo(w, k)
                      /\ UNCHANGED <<data, rollover, queueWalkers, virtualWalkers, lastValues, nextId>>
<1>1. w \in Elements(queueWalkers)
  BY DEF SeekOffset, SeekId
<1>2. d \in Seq(Stored) /\ Len(d) \in Nat
  <2>1. d \in Seq(Stored)
    BY <1>1, QueueFacts
  <2> QED
    BY <2>1
<1>3. Stays \/ \E k \in Nat : Goes(k)
  <2>1. CASE \E k \in Nat : SeekOffset(w, k)
    <3>1. PICK k \in Nat : SeekOffset(w, k)
      BY <2>1
    <3>2. /\ k >= Len(d) => outcome' = Raised("Unresolved") /\ UNCHANGED <<wk, rolled>>
          /\ ~(k >= Len(d)) => SeekTo(w, k)
          /\ UNCHANGED <<data, rollover, queueWalkers, virtualWalkers, lastValues, nextId>>
      BY <3>1 DEF SeekOffset
    <3>3. CASE k >= Len(d)
      BY <3>2, <3>3
    <3>4. CASE ~(k >= Len(d))
      <4>1. k < Len(d)
        BY <1>2, <3>4
      <4>2. Goes(k)
        BY <3>2, <3>4, <4>1
      <4> HIDE DEF Goes
      <4> QED
        BY <4>2
    <3> QED
      BY <3>3, <3>4
  <2>2. CASE \E id : SeekId(w, id)
    <3>1. PICK id : SeekId(w, id)
      BY <2>2
    <3> DEFINE offsets == OffsetsOfId(AreaOfSelector(wk[w].sel), id)
    <3>2. /\ offsets = {} => outcome' = Raised("Unresolved") /\ UNCHANGED <<wk, rolled>>
          /\ ~(offsets = {}) => SeekTo(w, Min(offsets))
          /\ UNCHANGED <<data, rollover, queueWalkers, virtualWalkers, lastValues, nextId>>
      BY <3>1 DEF SeekId
    <3>3. \A k \in offsets : k \in 0 .. Len(d) - 1
      BY DEF OffsetsOfId
    <3> HIDE DEF offsets, d
    <3>4. CASE offsets = {}
      BY <3>2, <3>4
    <3>5. CASE offsets # {}
      <4>1. offsets \in SUBSET Int /\ 0 \in Int /\ \A k \in offsets : 0 <= k
        BY <1>2, <3>3
      <4>2. Min(offsets) \in offsets
        BY <3>5, <4>1, LeastInt
      <4>3. Min(offsets) \in Nat /\ Min(offsets) < Len(d)
        BY <1>2, <3>3, <4>2
      <4>4. Goes(Min(offsets))
        BY <3>2, <3>5, <4>3
      <4> HIDE DEF Goes
      <4> QED
        BY <4>3, <4>4
    <3> QED
      BY <3>4, <3>5
  <2> QED
    BY <2>1, <2>2
<1>4. CASE Stays
  <2>1. outcome' \in [error : Errors, reading : Reading \cup {NULL}]
    BY <1>4 DEF Raised, Errors
  <2>2. WalkersInv' /\ Undisturbed({})
    BY <1>4, <2>1, LooksKeep
  <2> QED
    BY <1>4, <2>2
<1>5. CASE \E k \in Nat : Goes(k)
  <2>1. PICK k \in Nat : Goes(k)
    BY <1>5
  <2>2. /\ WalkersInv' /\ Undisturbed({w}) /\ rolled' = rolled \ {w}
        /\ wk'[w].sel = wk[w].sel /\ wk'[w].offset = k
    BY <1>1, <2>1, SeekToMoves
  <2>3. outcome' = Returned(NULL)
    BY <2>1 DEF SeekTo
  <2>4. k \in 0 .. Len(d) - 1
    BY <1>2, <2>1
  <2> QED
    BY <2>2, <2>3, <2>4
<1> QED
  BY <1>3, <1>4, <1>5

-----------------------------------------------------------------------------
(* Walkers come and go. *)

\* The lists of walkers change over readings that stay.
LEMMA ListsKeep ==
  ASSUME WalkersInv,
         UNCHANGED <<data, rollover, lastValues, nextId>>,
         outcome' \in [error : Errors, reading : Reading \cup {NULL}],
         rolled' \subseteq Walkers, wk' \in [Walkers -> Walker],
         queueWalkers' \in Seq(Walkers), virtualWalkers' \in Seq(Walkers),
         \A i, j \in DOMAIN queueWalkers' : queueWalkers'[i] = queueWalkers'[j] => i = j,
         \A i, j \in DOMAIN virtualWalkers' : virtualWalkers'[i] = virtualWalkers'[j] => i = j,
         \A w \in Elements(queueWalkers') :
            /\ wk'[w].sel \in Selectors /\ Buffered(wk'[w].sel)
            /\ w \notin rolled' =>
                LET d == data[AreaOfSelector(wk'[w].sel)] IN
                wk'[w].offset \in 0 .. Len(d) /\ wk'[w].count = CountMatching(wk'[w].sel, d, wk'[w].offset),
         \A w \in Elements(virtualWalkers') : wk'[w].sel \in Selectors /\ ~Buffered(wk'[w].sel),
         \A w \in Walkers :
            /\ w \notin Elements(queueWalkers') /\ w \notin Elements(virtualWalkers') => wk'[w] = Unused
            /\ wk'[w].reading # NULL => wk'[w].reading.stream \in wk'[w].sel
  PROVE  WalkersInv'
<1>1. /\ Elements(queueWalkers)' = Elements(queueWalkers')
      /\ Elements(virtualWalkers)' = Elements(virtualWalkers')
      /\ Attached' = Elements(queueWalkers') \cup Elements(virtualWalkers')
  BY DEF Elements, Attached
<1>2. WalkersPlaced'
  BY <1>1 DEF WalkersPlaced, Buffered, Unused
<1>3. WalkersInSync'
  <2> SUFFICES ASSUME NEW w \in Elements(queueWalkers'), w \notin rolled'
               PROVE  LET d == data'[AreaOfSelector(wk'[w].sel)] IN
                      /\ wk'[w].offset \in 0 .. Len(d)
                      /\ wk'[w].count = CountMatching(wk'[w].sel, d, wk'[w].offset)
    BY <1>1 DEF WalkersInSync, AreaOfSelector, CountMatching, At
  <2>1. data' = data
    OBVIOUS
  <2> QED
    BY <2>1
<1>4. LogTypes' /\ data' \in [Areas -> Seq(Stored)]
  BY StoredStays DEF WalkersInv, LogTypes
<1>5. AreasInv'
  BY AreasStay DEF WalkersInv
<1> QED
  BY <1>2, <1>3, <1>4, <1>5 DEF WalkersInv

LEMMA AppendedIsElement ==
  ASSUME NEW S, NEW q \in Seq(S), NEW w \in S, w \notin Elements(q),
         \A i, j \in DOMAIN q : q[i] = q[j] => i = j
  PROVE  LET p == Append(q, w) IN
         /\ p \in Seq(S) /\ Elements(p) = Elements(q) \cup {w}
         /\ \A i, j \in DOMAIN p : p[i] = p[j] => i = j
<1> DEFINE p == Append(q, w)
<1>1. /\ p \in Seq(S) /\ DOMAIN p = 1 .. Len(q) + 1 /\ DOMAIN q = 1 .. Len(q) /\ Len(q) \in Nat
      /\ \A i \in 1 .. Len(q) : p[i] = q[i]
      /\ p[Len(q) + 1] = w
  OBVIOUS
<1> HIDE DEF p
<1>2. \A i \in DOMAIN p : i \in DOMAIN q \/ i = Len(q) + 1
  BY <1>1
<1>3. \A i \in DOMAIN q : i \in DOMAIN p /\ p[i] = q[i] /\ q[i] # w
  BY <1>1 DEF Elements
<1>4. Len(q) + 1 \in DOMAIN p
  BY <1>1
<1>5. Elements(p) = Elements(q) \cup {w}
  <2>1. \A x \in Elements(p) : x \in Elements(q) \/ x = w
    BY <1>1, <1>2, <1>3 DEF Elements
  <2>2. \A x \in Elements(q) : x \in Elements(p)
    BY <1>3 DEF Elements
  <2>3. w \in Elements(p)
    BY <1>1, <1>4 DEF Elements
  <2> QED
    BY <2>1, <2>2, <2>3
<1>6. \A i, j \in DOMAIN p : p[i] = p[j] => i = j
  BY <1>1, <1>2, <1>3
<1> QED
  BY <1>1, <1>5, <1>6 DEF p

\* What a new walker is.
LEMMA NewWalkerFacts ==
  ASSUME WalkersInv, NEW sel \in Selectors, NEW skip \in BOOLEAN
  PROVE  LET v == NewWalker(sel, skip)  d == data[AreaOfSelector(sel)] IN
         /\ v \in Walker /\ v.sel = sel /\ v.reading = NULL
         /\ Buffered(sel) => v.offset \in 0 .. Len(d) /\ v.count = CountMatching(sel, d, v.offset)
<1> DEFINE v == NewWalker(sel, skip)
           d == data[AreaOfSelector(sel)]
<1>1. d \in Seq(Stored)
  BY SelectorHasArea DEF WalkersInv
<1> HIDE DEF d
<1>2. Len(d) \in Nat /\ CountMatching(sel, d, 0) \in Nat /\ CountMatching(sel, d, Len(d)) = 0
  <2>1. 0 \in Int
    OBVIOUS
  <2> QED
    BY <1>1, <2>1, CountIsNat, NothingAheadAtEnd
<1>3. CASE Buffered(sel) /\ skip
  <2>1. v = [sel |-> sel, reading |-> NULL, offset |-> Len(d), count |-> 0]
    BY <1>3 DEF NewWalker, d
  <2> HIDE DEF v
  <2>2. v \in Walker /\ v.sel = sel /\ v.reading = NULL /\ v.offset = Len(d) /\ v.count = 0
    BY <1>2, <2>1 DEF Walker
  <2>3. v.offset \in 0 .. Len(d) /\ v.count = CountMatching(sel, d, v.offset)
    BY <1>2, <2>2
  <2> QED
    BY <2>2, <2>3 DEF d, v
<1>4. CASE Buffered(sel) /\ ~skip
  <2>1. v = [sel |-> sel, reading |-> NULL, offset |-> 0, count |-> CountMatching(sel, d, 0)]
    BY <1>4 DEF NewWalker, d
  <2> HIDE DEF v
  <2>2. v \in Walker /\ v.sel = sel /\ v.reading = NULL /\ v.offset = 0 /\ v.count = CountMatching(sel, d, 0)
    BY <1>2, <2>1 DEF Walker
  <2>3. v.offset \in 0 .. Len(d) /\ v.count = CountMatching(sel, d, v.offset)
    BY <1>2, <2>2
  <2> QED
    BY <2>2, <2>3 DEF d, v
<1>5. CASE ~Buffered(sel)
  <2>1. v = [sel |-> sel, reading |-> NULL, offset |-> 0, count |-> 0]
    BY <1>5 DEF NewWalker
  <2> HIDE DEF v
  <2>2. v \in Walker /\ v.sel = sel /\ v.reading = NULL
    BY <2>1 DEF Walker
  <2> QED
    BY <1>5, <2>2 DEF v
<1> QED
  BY <1>3, <1>4, <1>5

LEMMA CreateWalkerKeeps ==
  ASSUME WalkersInv, NEW w \in Walkers, NEW sel \in Selectors, NEW skip \in BOOLEAN,
         CreateWalker(w, sel, skip)
  PROVE  WalkersInv' /\ Undisturbed({w})
<1> DEFINE u == NewWalker(sel, skip)
<1>1. /\ w \notin Elements(queueWalkers) /\ w \notin Elements(virtualWalkers)
      /\ wk' = [wk EXCEPT ![w] = u]
      /\ Buffered(sel) => queueWalkers' = Append(queueWalkers, w) /\ virtualWalkers' = virtualWalkers
      /\ ~Buffered(sel) => queueWalkers' = queueWalkers /\ virtualWalkers' = Append(virtualWalkers, w)
      /\ rolled' = rolled \ {w} /\ outcome' = Returned(NULL)
      /\ UNCHANGED <<data, rollover, lastValues, nextId>>
  BY DEF CreateWalker, Attached
<1>2. /\ queueWalkers \in Seq(Walkers) /\ virtualWalkers \in Seq(Walkers) /\ wk \in [Walkers -> Walker]
      /\ \A i, j \in DOMAIN queueWalkers : queueWalkers[i] = queueWalkers[j] => i = j
      /\ \A i, j \in DOMAIN virtualWalkers : virtualWalkers[i] = virtualWalkers[j] => i = j
      /\ rolled \subseteq Walkers
  BY DEF WalkersInv, WalkersPlaced, LogTypes
<1>3. /\ u \in Walker /\ u.sel = sel /\ u.reading = NULL
      /\ Buffered(sel) => LET d == data[AreaOfSelector(sel)] IN
                          u.offset \in 0 .. Len(d) /\ u.count = CountMatching(sel, d, u.offset)
  <2> HIDE DEF u
  <2> QED
    BY NewWalkerFacts DEF u
<1> HIDE DEF u
<1>4. /\ queueWalkers' \in Seq(Walkers) /\ virtualWalkers' \in Seq(Walkers)
      /\ \A i, j \in DOMAIN queueWalkers' : queueWalkers'[i] = queueWalkers'[j] => i = j
      /\ \A i, j \in DOMAIN virtualWalkers' : virtualWalkers'[i] = virtualWalkers'[j] => i = j
      /\ Elements(queueWalkers') = IF Buffered(sel) THEN Elements(queueWalkers) \cup {w} ELSE Elements(queueWalkers)
      /\ Elements(virtualWalkers') = IF Buffered(sel) THEN Elements(virtualWalkers) ELSE Elements(virtualWalkers) \cup {w}
  <2> DEFINE p == Append(queueWalkers, w)
             q == Append(virtualWalkers, w)
  <2>3. /\ p \in Seq(Walkers) /\ Elements(p) = Elements(queueWalkers) \cup {w}
        /\ \A i, j \in DOMAIN p : p[i] = p[j] => i = j
    BY <1>1, <1>2, AppendedIsElement
  <2>4. /\ q \in Seq(Walkers) /\ Elements(q) = Elements(virtualWalkers) \cup {w}
        /\ \A i, j \in DOMAIN q : q[i] = q[j] => i = j
    BY <1>1, <1>2, AppendedIsElement
  <2>5. /\ Buffered(sel) => queueWalkers' = p /\ virtualWalkers' = virtualWalkers
        /\ ~Buffered(sel) => queueWalkers' = queueWalkers /\ virtualWalkers' = q
    BY <1>1
  <2> HIDE DEF p, q
  <2>1. CASE Buffered(sel)
    BY <1>2, <2>1, <2>3, <2>5
  <2>2. CASE ~Buffered(sel)
    BY <1>2, <2>2, <2>4, <2>5
  <2> QED
    BY <2>1, <2>2
<1>5. wk' \in [Walkers -> Walker] /\ wk'[w] = u /\ \A x \in Walkers : x # w => wk'[x] = wk[x]
  BY <1>1, <1>2, <1>3
<1>6. \A x \in Elements(queueWalkers') :
            /\ wk'[x].sel \in Selectors /\ Buffered(wk'[x].sel)
            /\ x \notin rolled' =>
                LET d == data[AreaOfSelector(wk'[x].sel)] IN
                wk'[x].offset \in 0 .. Len(d) /\ wk'[x].count = CountMatching(wk'[x].sel, d, wk'[x].offset)
  <2> SUFFICES ASSUME NEW x \in Elements(queueWalkers')
               PROVE  /\ wk'[x].sel \in Selectors /\ Buffered(wk'[x].sel)
                      /\ x \notin rolled' =>
                            LET d == data[AreaOfSelector(wk'[x].sel)] IN
                            wk'[x].offset \in 0 .. Len(d) /\ wk'[x].count = CountMatching(wk'[x].sel, d, wk'[x].offset)
    OBVIOUS
  <2>1. CASE x = w
    <3>1. Buffered(sel)
      BY <1>1, <1>4, <2>1
    <3> QED
      BY <1>3, <1>5, <2>1, <3>1
  <2>2. CASE x # w
    <3>1. x \in Elements(queueWalkers)
      BY <1>4, <2>2
    <3>2. x \in Walkers /\ wk[x].sel \in Selectors /\ Buffered(wk[x].sel)
      BY <3>1, QueueFacts
    <3>3. wk'[x] = wk[x] /\ (x \notin rolled' => x \notin rolled)
      BY <1>1, <1>5, <2>2, <3>2
    <3> QED
      BY <3>1, <3>2, <3>3, InSyncFacts
  <2> QED
    BY <2>1, <2>2
<1>7. \A x \in Elements(virtualWalkers') : wk'[x].sel \in Selectors /\ ~Buffered(wk'[x].sel)
  <2> SUFFICES ASSUME NEW x \in Elements(virtualWalkers')
               PROVE  wk'[x].sel \in Selectors /\ ~Buffered(wk'[x].sel)
    OBVIOUS
  <2>1. CASE x = w
    <3>1. ~Buffered(sel)
      BY <1>1, <1>4, <2>1
    <3> QED
      BY <1>3, <1>5, <2>1, <3>1
  <2>2. CASE x # w
    <3>1. x \in Elements(virtualWalkers)
      BY <1>4, <2>2
    <3> QED
      BY <1>5, <2>2, <3>1, VirtualFacts
  <2> QED
    BY <2>1, <2>2
<1>8. \A x \in Walkers :
            /\ x \notin Elements(queueWalkers') /\ x \notin Elements(virtualWalkers') => wk'[x] = Unused
            /\ wk'[x].reading # NULL => wk'[x].reading.stream \in wk'[x].sel
  <2> SUFFICES ASSUME NEW x \in Walkers
               PROVE  /\ x \notin Elements(queueWalkers') /\ x \notin Elements(virtualWalkers') => wk'[x] = Unused
                      /\ wk'[x].reading # NULL => wk'[x].reading.stream \in wk'[x].sel
    OBVIOUS
  <2>1. CASE x = w
    BY <1>3, <1>4, <1>5, <2>1
  <2>2. CASE x # w
    <3>1. wk'[x] = wk[x]
      BY <1>5, <2>2
    <3>2. x \notin Elements(queueWalkers') /\ x \notin Elements(virtualWalkers') => x \notin Attached
      BY <1>4, <2>2 DEF Attached
    <3> QED
      BY <3>1, <3>2 DEF WalkersInv, WalkersPlaced
  <2> QED
    BY <2>1, <2>2
<1>9. outcome' \in [error : Errors, reading : Reading \cup {NULL}] /\ rolled' \subseteq Walkers
  BY <1>1, <1>2 DEF Returned, Errors
<1>10. Undisturbed({w})
  BY <1>1, <1>4, <1>5, UndisturbedIf
<1> QED
  BY <1>1, <1>4, <1>5, <1>6, <1>7, <1>8, <1>9, <1>10, ListsKeep

\* list.remove() of an element that occurs once.
LEMMA WithoutIs ==
  ASSUME NEW S, NEW q \in Seq(S), NEW w, \A i, j \in DOMAIN q : q[i] = q[j] => i = j
  PROVE  LET p == Without(q, w) IN
         /\ p \in Seq(S) /\ Elements(p) = Elements(q) \ {w}
         /\ \A i, j \in DOMAIN p : p[i] = p[j] => i = j
<1> DEFINE p == Without(q, w)
<1>0. DOMAIN q = 1 .. Len(q) /\ Len(q) \in Nat
  OBVIOUS
<1>1. CASE w \notin Elements(q)
  BY <1>1 DEF Without
<1>2. CASE w \in Elements(q)
  <2> DEFINE First(i) == q[i] = w /\ \A j \in 1 .. i - 1 : q[j] # w
             n == CHOOSE i \in DOMAIN q : First(i)
  <2>1. PICK m \in DOMAIN q : q[m] = w
    BY <1>2 DEF Elements
  <2>2. \A j \in 1 .. m - 1 : j \in DOMAIN q /\ j # m
    BY <1>0, <2>1
  <2>3. First(m)
    BY <2>1, <2>2
  <2>4. n \in DOMAIN q /\ q[n] = w
    <3>1. \E i \in DOMAIN q : First(i)
      BY <2>1, <2>3
    <3>2. n \in DOMAIN q /\ First(n)
      <4> HIDE DEF First
      <4> QED
        BY <3>1
    <3> QED
      BY <3>2
  <2>5. p = [i \in 1 .. Len(q) - 1 |-> IF i < n THEN q[i] ELSE q[i + 1]]
    BY <1>2 DEF Without
  <2> HIDE DEF n, p
  <2>6. n \in 1 .. Len(q) /\ Len(q) - 1 \in Nat
    BY <1>0, <2>4
  <2>7. /\ \A i \in 1 .. Len(q) - 1 : i < n => p[i] = q[i] /\ i \in DOMAIN q /\ i # n
        /\ \A i \in 1 .. Len(q) - 1 : ~(i < n) => p[i] = q[i + 1] /\ i + 1 \in DOMAIN q /\ i + 1 # n
    BY <1>0, <2>5, <2>6
  <2>8. p \in Seq(S) /\ DOMAIN p = 1 .. Len(q) - 1
    <3>1. \A i \in 1 .. Len(q) - 1 : p[i] \in S
      BY <1>0, <2>7
    <3>2. p = [i \in 1 .. Len(q) - 1 |-> p[i]]
      BY <2>5
    <3>3. p \in [1 .. Len(q) - 1 -> S]
      BY <3>1, <3>2, Zenon
    <3> QED
      BY <2>6, <3>3
  <2>9. \A i \in DOMAIN q : i # n => q[i] # w
    BY <2>4
  <2>10. \A i \in DOMAIN q : i # n => \E j \in DOMAIN p : p[j] = q[i]
    <3> SUFFICES ASSUME NEW i \in DOMAIN q, i # n PROVE \E j \in DOMAIN p : p[j] = q[i]
      OBVIOUS
    <3>1. CASE i < n
      <4>1. i \in 1 .. Len(q) - 1
        BY <1>0, <2>6, <3>1
      <4> QED
        BY <2>7, <2>8, <3>1, <4>1
    <3>2. CASE ~(i < n)
      <4>1. i - 1 \in 1 .. Len(q) - 1 /\ ~(i - 1 < n) /\ i - 1 + 1 = i
        BY <1>0, <2>6, <3>2
      <4>2. p[i - 1] = q[i]
        BY <2>7, <4>1
      <4> QED
        BY <2>8, <4>1, <4>2
    <3> QED
      BY <3>1, <3>2
  <2>11. \A j \in DOMAIN p : \E i \in DOMAIN q : i # n /\ p[j] = q[i]
    BY <2>7, <2>8
  <2>12. Elements(p) = Elements(q) \ {w}
    <3>1. \A x \in Elements(p) : x \in Elements(q) /\ x # w
      BY <2>9, <2>11 DEF Elements
    <3>2. \A x \in Elements(q) : x # w => x \in Elements(p)
      BY <2>4, <2>10 DEF Elements
    <3> QED
      BY <3>1, <3>2
  <2>13. \A i, j \in DOMAIN p : p[i] = p[j] => i = j
    <3> SUFFICES ASSUME NEW i \in DOMAIN p, NEW j \in DOMAIN p, p[i] = p[j] PROVE i = j
      OBVIOUS
    <3> DEFINE At1(x) == IF x < n THEN x ELSE x + 1
    <3>1. \A x \in DOMAIN p : At1(x) \in DOMAIN q /\ p[x] = q[At1(x)]
      BY <2>7, <2>8
    <3>2. At1(i) = At1(j)
      <4> HIDE DEF At1
      <4> QED
        BY <3>1
    <3>3. i \in Int /\ j \in Int /\ n \in Int
      BY <2>6, <2>8
    <3> QED
      BY <3>2, <3>3
  <2> QED
    BY <2>8, <2>12, <2>13 DEF p
<1> QED
  BY <1>1, <1>2

LEMMA DestroyWalkerKeeps ==
  ASSUME WalkersInv, NEW w \in Walkers, DestroyWalker(w)
  PROVE  WalkersInv' /\ Undisturbed({w})
<1>1. /\ queueWalkers' = Without(queueWalkers, w) /\ virtualWalkers' = Without(virtualWalkers, w)
      /\ wk' = [wk EXCEPT ![w] = Unused]
      /\ rolled' = rolled \ {w} /\ outcome' = Returned(NULL)
      /\ UNCHANGED <<data, rollover, lastValues, nextId>>
  BY DEF DestroyWalker
<1>2. /\ queueWalkers \in Seq(Walkers) /\ virtualWalkers \in Seq(Walkers) /\ wk \in [Walkers -> Walker]
      /\ \A i, j \in DOMAIN queueWalkers : queueWalkers[i] = queueWalkers[j] => i = j
      /\ \A i, j \in DOMAIN virtualWalkers : virtualWalkers[i] = virtualWalkers[j] => i = j
      /\ rolled \subseteq Walkers
  BY DEF WalkersInv, WalkersPlaced, LogTypes
<1>3. /\ queueWalkers' \in Seq(Walkers) /\ Elements(queueWalkers') = Elements(queueWalkers) \ {w}
      /\ \A i, j \in DOMAIN queueWalkers' : queueWalkers'[i] = queueWalkers'[j] => i = j
  BY <1>1, <1>2, WithoutIs
<1>4. /\ virtualWalkers' \in Seq(Walkers) /\ Elements(virtualWalkers') = Elements(virtualWalkers) \ {w}
      /\ \A i, j \in DOMAIN virtualWalkers' : virtualWalkers'[i] = virtualWalkers'[j] => i = j
  BY <1>1, <1>2, WithoutIs
<1>5. /\ wk' \in [Walkers -> Walker] /\ wk'[w] = Unused /\ Unused.reading = NULL
      /\ \A x \in Walkers : x # w => wk'[x] = wk[x]
  BY <1>1, <1>2 DEF Unused, Walker
<1>6. \A x \in Elements(queueWalkers') :
            /\ wk'[x].sel \in Selectors /\ Buffered(wk'[x].sel)
            /\ x \notin rolled' =>
                LET d == data[AreaOfSelector(wk'[x].sel)] IN
                wk'[x].offset \in 0 .. Len(d) /\ wk'[x].count = CountMatching(wk'[x].sel, d, wk'[x].offset)
  <2> SUFFICES ASSUME NEW x \in Elements(queueWalkers')
               PROVE  /\ wk'[x].sel \in Selectors /\ Buffered(wk'[x].sel)
                      /\ x \notin rolled' =>
                            LET d == data[AreaOfSelector(wk'[x].sel)] IN
                            wk'[x].offset \in 0 .. Len(d) /\ wk'[x].count = CountMatching(wk'[x].sel, d, wk'[x].offset)
    OBVIOUS
  <2>1. x \in Elements(queueWalkers) /\ x # w
    BY <1>3
  <2>2. x \in Walkers /\ wk[x].sel \in Selectors /\ Buffered(wk[x].sel)
    BY <2>1, QueueFacts
  <2>3. wk'[x] = wk[x] /\ (x \notin rolled' => x \notin rolled)
    BY <1>1, <1>5, <2>1, <2>2
  <2> QED
    BY <2>1, <2>2, <2>3, InSyncFacts
<1>7. \A x \in Elements(virtualWalkers') : wk'[x].sel \in Selectors /\ ~Buffered(wk'[x].sel)
  <2> SUFFICES ASSUME NEW x \in Elements(virtualWalkers')
               PROVE  wk'[x].sel \in Selectors /\ ~Buffered(wk'[x].sel)
    OBVIOUS
  <2>1. x \in Elements(virtualWalkers) /\ x # w
    BY <1>4
  <2> QED
    BY <1>5, <2>1, VirtualFacts
<1>8. \A x \in Walkers :
            /\ x \notin Elements(queueWalkers') /\ x \notin Elements(virtualWalkers') => wk'[x] = Unused
            /\ wk'[x].reading # NULL => wk'[x].reading.stream \in wk'[x].sel
  BY <1>3, <1>4, <1>5 DEF WalkersInv, WalkersPlaced, Attached
<1>9. outcome' \in [error : Errors, reading : Reading \cup {NULL}] /\ rolled' \subseteq Walkers
  BY <1>1, <1>2 DEF Returned, Errors
<1>10. Undisturbed({w})
  BY <1>1, <1>3, <1>5, UndisturbedIf
<1> QED
  BY <1>1, <1>3, <1>4, <1>5, <1>6, <1>7, <1>8, <1>9, <1>10, ListsKeep

LEMMA DestroyAllWalkersKeeps ==
  ASSUME WalkersInv, DestroyAllWalkers
  PROVE  WalkersInv'
<1>1. /\ queueWalkers' = <<>> /\ virtualWalkers' = <<>> /\ rolled' = {}
      /\ wk' = [w \in Walkers |-> Unused] /\ outcome' = Returned(NULL)
      /\ UNCHANGED <<data, rollover, lastValues, nextId>>
  BY DEF DestroyAllWalkers
<1>2. /\ Elements(queueWalkers') = {} /\ Elements(virtualWalkers') = {}
      /\ DOMAIN queueWalkers' = {} /\ DOMAIN virtualWalkers' = {}
      /\ queueWalkers' \in Seq(Walkers) /\ virtualWalkers' \in Seq(Walkers)
  BY <1>1 DEF Elements
<1>3. wk' \in [Walkers -> Walker] /\ \A w \in Walkers : wk'[w] = Unused /\ wk'[w].reading = NULL
  BY <1>1 DEF Unused, Walker
<1>4. outcome' \in [error : Errors, reading : Reading \cup {NULL}] /\ rolled' \subseteq Walkers
  BY <1>1 DEF Returned, Errors
<1> QED
  BY <1>1, <1>2, <1>3, <1>4, ListsKeep

LEMMA SetRolloverKeeps ==
  ASSUME WalkersInv, NEW a \in Areas, NEW enabled \in BOOLEAN, SetRollover(a, enabled)
  PROVE  WalkersInv' /\ Undisturbed({})
<1>1. /\ rollover' = [rollover EXCEPT ![a] = enabled] /\ outcome' = Returned(NULL)
      /\ UNCHANGED <<data, queueWalkers, virtualWalkers, wk, lastValues, nextId, rolled>>
  BY DEF SetRollover
<1>2. SameWalkers
  BY <1>1 DEF SameWalkers, WalkersInv, LogTypes, WalkersPlaced
<1>3. WalkersPlaced' /\ WalkersInSync'
  BY <1>1, <1>2, PlacedStays, SyncStays
<1>4. LogTypes' /\ data' \in [Areas -> Seq(Stored)]
  <2>1. rollover' \in [Areas -> BOOLEAN]
    BY <1>1 DEF WalkersInv, LogTypes
  <2>2. outcome' \in [error : Errors, reading : Reading \cup {NULL}]
    BY <1>1 DEF Returned, Errors
  <2> QED
    BY <1>1, <2>1, <2>2, StoredStays DEF WalkersInv, LogTypes
<1>5. AreasInv'
  BY <1>1, AreasStay DEF WalkersInv
<1>6. Undisturbed({})
  BY <1>1, UndisturbedIf
<1> QED
  BY <1>3, <1>4, <1>5, <1>6 DEF WalkersInv

LEMMA ClearKeeps ==
  ASSUME WalkersInv, Clear
  PROVE  WalkersInv' /\ Undisturbed(Attached)
<1> DEFINE e == [a \in Areas |-> <<>>]
<1>1. /\ data' = e /\ wk' = Cleared(wk) /\ lastValues' = [s \in VirtualStreams |-> NULL]
      /\ rolled' = rolled \ Attached /\ outcome' = Returned(NULL)
      /\ UNCHANGED <<rollover, queueWalkers, virtualWalkers, nextId>>
  BY DEF Clear
<1>2. e \in [Areas -> Seq(Stored)] /\ \A a \in Areas : e[a] = <<>> /\ Len(e[a]) = 0
  OBVIOUS
<1>3. /\ \A w \in Walkers : w \in Attached => wk'[w] = Skipped(wk[w], e)
      /\ \A w \in Walkers : w \notin Attached => wk'[w] = wk[w]
      /\ wk' = [w \in Walkers |-> wk'[w]]
  BY <1>1 DEF Cleared
<1> HIDE DEF e
<1>4. wk \in [Walkers -> Walker] /\ \A w \in Attached : w \in Walkers
  BY QueueFacts, VirtualFacts DEF Attached, WalkersInv, LogTypes
<1>5. \A w \in Attached : /\ wk'[w] \in Walker /\ wk'[w].sel = wk[w].sel /\ wk'[w].reading \in {wk[w].reading, NULL}
                          /\ w \in Elements(queueWalkers) => wk'[w].offset = 0 /\ wk'[w].count = 0
  <2> SUFFICES ASSUME NEW w \in Attached
               PROVE  /\ wk'[w] \in Walker /\ wk'[w].sel = wk[w].sel /\ wk'[w].reading \in {wk[w].reading, NULL}
                      /\ w \in Elements(queueWalkers) => wk'[w].offset = 0 /\ wk'[w].count = 0
    OBVIOUS
  <2>1. wk'[w] = Skipped(wk[w], e)
    BY <1>3, <1>4
  <2>2. Len(e[AreaOfSelector(wk[w].sel)]) = 0
    BY <1>2, SelectorHasArea
  <2> DEFINE u == Skipped(wk[w], e)
  <2>3. /\ u \in Walker /\ u.sel = wk[w].sel /\ u.reading \in {wk[w].reading, NULL}
        /\ w \in Elements(queueWalkers) => u.offset = Len(e[AreaOfSelector(wk[w].sel)]) /\ u.count = 0
    <3> HIDE DEF u
    <3> QED
      BY <1>2, SkippedWalker DEF u
  <2> HIDE DEF u
  <2>4. wk'[w] = u
    BY <2>1 DEF u
  <2> QED
    BY <2>2, <2>3, <2>4
<1>6. SameWalkers
  <2>1. wk' \in [Walkers -> Walker]
    BY <1>3, <1>4, <1>5
  <2>2. \A w \in Walkers : wk[w].reading # NULL => wk[w].reading.stream \in wk[w].sel
    BY DEF WalkersInv, WalkersPlaced
  <2>3. \A w \in Walkers : /\ wk'[w].sel = wk[w].sel
                           /\ w \notin Attached => wk'[w] = wk[w]
                           /\ wk'[w].reading # NULL => wk'[w].reading.stream \in wk'[w].sel
    BY <1>3, <1>5, <2>2
  <2> QED
    BY <1>1, <2>1, <2>3 DEF SameWalkers
<1>7. WalkersPlaced'
  BY <1>6, PlacedStays
<1>8. WalkersInSync'
  <2> SUFFICES ASSUME NEW w \in Elements(queueWalkers)
               PROVE  LET d == e[AreaOfSelector(wk'[w].sel)] IN
                      /\ wk'[w].offset \in 0 .. Len(d)
                      /\ wk'[w].count = CountMatching(wk'[w].sel, d, wk'[w].offset)
    <3>1. Elements(queueWalkers)' = Elements(queueWalkers)
      BY <1>1 DEF Elements
    <3> QED
      <4>1. \A w \in Elements(queueWalkers) \ rolled' :
              LET d == e[AreaOfSelector(wk'[w].sel)] IN
              wk'[w].offset \in 0 .. Len(d) /\ wk'[w].count = CountMatching(wk'[w].sel, d, wk'[w].offset)
        OBVIOUS
      <4> QED
        BY <1>1, <3>1, <4>1, Zenon DEF WalkersInSync
  <2> DEFINE d == e[AreaOfSelector(wk'[w].sel)]
  <2>1. d \in Seq(Stored) /\ Len(d) = 0
    BY <1>2, SelectorHasArea
  <2> HIDE DEF d
  <2>2. CountMatching(wk'[w].sel, d, 0) = 0
    BY <2>1, NothingAheadAtEnd
  <2>3. wk'[w].offset = 0 /\ wk'[w].count = 0
    BY <1>5 DEF Attached
  <2> QED
    BY <2>1, <2>2, <2>3 DEF d
<1>9. LogTypes' /\ data' \in [Areas -> Seq(Stored)]
  <2>1. data' \in [Areas -> Seq(Reading)]
    <3>1. Seq(Stored) \subseteq Seq(Reading)
      BY StoredIsReading
    <3> QED
      BY <1>1, <1>2, <3>1
  <2>2. outcome' \in [error : Errors, reading : Reading \cup {NULL}]
    BY <1>1 DEF Returned, Errors
  <2>3. lastValues' \in [VirtualStreams -> Reading \cup {NULL}] /\ rolled' \subseteq Walkers
    BY <1>1 DEF WalkersInv, LogTypes
  <2> QED
    BY <1>1, <1>2, <1>6, <2>1, <2>2, <2>3 DEF WalkersInv, LogTypes, SameWalkers
<1>10. AreasInv'
  BY CallsKeepAreas DEF WalkersInv, Configure
<1>11. Undisturbed(Attached)
  BY <1>1, <1>3, UndisturbedIf DEF Attached
<1> QED
  BY <1>7, <1>8, <1>9, <1>10, <1>11 DEF WalkersInv

-----------------------------------------------------------------------------
(* The invariant holds of every behaviour. *)

LEMMA WalkersInit == Init => WalkersInv
<1> SUFFICES ASSUME Init PROVE WalkersInv
  OBVIOUS
<1>1. AreasInv
  BY AreasInit
<1>2. queueWalkers = <<>> /\ virtualWalkers = <<>> /\ Elements(queueWalkers) = {} /\ Elements(virtualWalkers) = {}
  BY DEF Init, Elements
<1>3. wk \in [Walkers -> Walker] /\ \A w \in Walkers : wk[w] = Unused /\ wk[w].reading = NULL
  BY DEF Init, Unused, Walker
<1>4. LogTypes /\ data \in [Areas -> Seq(Stored)]
  <2>1. nextId \in 1 .. MaxId + 1
    BY SizesAssumption DEF Init
  <2>2. outcome \in [error : Errors, reading : Reading \cup {NULL}]
    BY DEF Init, Returned, Errors
  <2>3. data \in [Areas -> Seq(Stored)] /\ data \in [Areas -> Seq(Reading)]
    BY DEF Init
  <2>4. queueWalkers \in Seq(Walkers) /\ virtualWalkers \in Seq(Walkers)
    BY <1>2
  <2>5. /\ rollover \in [Areas -> BOOLEAN] /\ rolled \subseteq Walkers
        /\ lastValues \in [VirtualStreams -> Reading \cup {NULL}]
    BY DEF Init
  <2> QED
    BY <1>3, <2>1, <2>2, <2>3, <2>4, <2>5 DEF LogTypes
<1>5. WalkersPlaced
  BY <1>2, <1>3 DEF WalkersPlaced
<1>6. WalkersInSync
  BY <1>2 DEF WalkersInSync
<1> QED
  BY <1>1, <1>4, <1>5, <1>6 DEF WalkersInv

LEMMA SeekPlacesAreNat == 0 .. Max({MaxStorage, MaxStreaming}) \subseteq Nat
<1>1. MaxStorage \in Nat /\ MaxStreaming \in Nat
  BY SizesAssumption
<1>2. \E x \in {MaxStorage, MaxStreaming} : \A y \in {MaxStorage, MaxStreaming} : x >= y
  BY <1>1
<1>3. Max({MaxStorage, MaxStreaming}) \in {MaxStorage, MaxStreaming}
  BY <1>2 DEF Max
<1> QED
  BY <1>1, <1>3

LEMMA WalkersStep == WalkersInv /\ [Next]_vars => WalkersInv'
<1> SUFFICES ASSUME WalkersInv, [Next]_vars PROVE WalkersInv'
  OBVIOUS
<1>1. ASSUME NEW s \in BufferedStreams,
             PushStored(s) \/ PushRefused(s) \/ PushRollover(s) \/ PushOutOfSync(s)
      PROVE  WalkersInv'
  BY <1>1, PushStoredKeeps, PushRefusedKeeps, PushRolloverKeeps, PushOutOfSyncKeeps
<1>2. ASSUME NEW s \in VirtualStreams, NEW x \in Values, PushVirtual(s, x) PROVE WalkersInv'
  BY <1>2, PushVirtualKeeps
<1>3. ASSUME NEW a \in Areas, NEW enabled \in BOOLEAN, SetRollover(a, enabled) PROVE WalkersInv'
  BY <1>3, SetRolloverKeeps
<1>4. CASE Clear
  BY <1>4, ClearKeeps
<1>5. CASE DestroyAllWalkers
  BY <1>5, DestroyAllWalkersKeeps
<1>6. ASSUME NEW w \in Walkers, Walk(w) PROVE WalkersInv'
  <2>1. CASE \E sel \in Selectors, skip \in BOOLEAN : CreateWalker(w, sel, skip)
    BY <2>1, CreateWalkerKeeps
  <2>2. CASE DestroyWalker(w)
    BY <2>2, DestroyWalkerKeeps
  <2>3. CASE PopBuffered(w) \/ PeekBuffered(w)
    BY <2>3, PopBufferedKeeps, PeekBufferedKeeps
  <2>4. CASE PopVirtual(w) \/ PeekVirtual(w)
    BY <2>4, PopVirtualKeeps, PeekVirtualKeeps
  <2>5. CASE SkipAll(w)
    BY <2>5, SkipAllKeeps
  <2>6. CASE \E k \in 0 .. Max({MaxStorage, MaxStreaming}) : SeekOffset(w, k)
    BY <2>6, SeeksKeep, SeekPlacesAreNat
  <2>7. CASE \E id \in 1 .. MaxId : SeekId(w, id)
    BY <2>7, SeeksKeep
  <2> QED
    BY <1>6, <2>1, <2>2, <2>3, <2>4, <2>5, <2>6, <2>7 DEF Walk
<1>7. CASE UNCHANGED vars
  <2>1. outcome' \in [error : Errors, reading : Reading \cup {NULL}]
    BY <1>7 DEF vars, WalkersInv, LogTypes
  <2> QED
    BY <1>7, <2>1, LooksKeep DEF vars
<1> QED
  BY <1>1, <1>2, <1>3, <1>4, <1>5, <1>6, <1>7 DEF Next, Push, Configure

LEMMA WalkersAlways == Spec => []WalkersInv
  BY WalkersInit, WalkersStep, PTL DEF Spec

\* Every variable of the log stays in its type; in particular notify_rollover, which checks
\* a count before it takes one off, never leaves a walker with a negative count.
THEOREM SensorLogTypes == Spec => []TypeOK
<1> DEFINE Caller == caller \in Walkers \cup {NULL}
<1>1. Init => Caller
  BY DEF Init
<1>2. Caller /\ [Next]_vars => Caller'
  BY DEF Next, vars
<1>3. WalkersInv /\ Caller => TypeOK
  BY DEF WalkersInv, LogTypes, TypeOK
<1> QED
  BY <1>1, <1>2, <1>3, WalkersAlways, PTL DEF Spec

\* Offsets and counts: the offset that a walker keeps and the count that the log keeps for it
\* agree with the readings stored, unless a rollover erased one it selects or had not passed.
THEOREM CountsAgreeWithStorage == Spec => []WalkersInSync
<1>1. WalkersInv => WalkersInSync
  BY DEF WalkersInv
<1> QED
  BY <1>1, WalkersAlways, PTL

-----------------------------------------------------------------------------
(* The walkers are FIFOs. *)

\* What is in the log.
LEMMA InLogIs == \A q : q \in InLog <=> \E a \in Areas : \E i \in DOMAIN data[a] : q = data[a][i]
  BY DEF InLog, Elements

LEMMA InLogIsNext == \A q : q \in InLog' <=> \E a \in Areas : \E i \in DOMAIN data'[a] : q = data'[a][i]
  BY DEF InLog, Elements

LEMMA LogFacts ==
  ASSUME WalkersInv
  PROVE  InLog \subseteq Stored /\ \A q \in InLog : q.tag < nextId
<1> SUFFICES ASSUME NEW q \in InLog PROVE q \in Stored /\ q.tag < nextId
  OBVIOUS
<1>1. PICK a \in Areas : \E i \in DOMAIN data[a] : q = data[a][i]
  BY InLogIs
<1>2. PICK i \in DOMAIN data[a] : q = data[a][i]
  BY <1>1
<1>3. data[a] \in Seq(Stored)
  BY DEF WalkersInv
<1>4. data[a][i].tag < nextId
  BY DEF WalkersInv, AreasInv, UniqueIdsInOrder
<1> QED
  BY <1>2, <1>3, <1>4

\* What a walker has yet to return is in the log.
UnreadIsThere == \A w \in Walkers : UnreadBy(w) \subseteq InLog

LEMMA UnreadIsInLog == WalkersInv => UnreadIsThere
<1> SUFFICES ASSUME WalkersInv, NEW w \in Walkers PROVE UnreadBy(w) \subseteq InLog
  BY DEF UnreadIsThere
<1>1. CASE w \notin Elements(queueWalkers) \ rolled
  BY <1>1, UnreadIsAhead
<1>2. CASE w \in Elements(queueWalkers) \ rolled
  <2>1. PICK a, d, k : a = AreaOfSelector(wk[w].sel) /\ d = data[a] /\ k = wk[w].offset
    OBVIOUS
  <2>2. a \in Areas /\ d \in Seq(Stored)
    BY <1>2, <2>1, QueueFacts
  <2>3. k \in 0 .. Len(d)
    BY <1>2, <2>1, InSyncFacts
  <2>4. k \in Nat
    BY <2>2, <2>3
  <2>5. UnreadBy(w) = Ahead(wk[w].sel, d, k)
    BY <1>2, <2>1, UnreadIsAhead
  <2>6. \A q \in Ahead(wk[w].sel, d, k) : \E i \in DOMAIN d : q = d[i]
    BY <2>2, <2>4, AheadIsStored
  <2> QED
    BY <2>1, <2>2, <2>5, <2>6, InLogIs
<1> QED
  BY <1>1, <1>2

LEMMA UnreadIsInLogNext == WalkersInv' => UnreadIsThere'
  BY UnreadIsInLog, PTL

\* The readings from offset k on that a selector matches are those of the log that are no older.
LEMMA AheadIsMatching ==
  ASSUME WalkersInv, NEW sel \in Selectors, Buffered(sel)
  PROVE  LET d == data[AreaOfSelector(sel)] IN
         /\ Ahead(sel, d, 0) = {r \in InLog : r.stream \in sel}
         /\ \A k \in 0 .. Len(d) - 1 :
                Ahead(sel, d, k) = {r \in InLog : r.stream \in sel /\ d[k + 1].tag <= r.tag}
<1>1. PICK a, d : a = AreaOfSelector(sel) /\ d = data[a]
  OBVIOUS
<1>2. a \in Areas /\ d \in Seq(Stored) /\ Len(d) \in Nat
  <2>1. a \in Areas
    BY <1>1, SelectorHasArea
  <2>2. d \in Seq(Stored)
    BY <1>1, <2>1 DEF WalkersInv
  <2> QED
    BY <2>1, <2>2
<1>3. /\ \A i \in DOMAIN d : d[i].tag \in Nat
      /\ \A i, j \in DOMAIN d : i < j => d[i].tag < d[j].tag
      /\ DOMAIN d = 1 .. Len(d)
  BY <1>1, <1>2, TagsAreNat DEF WalkersInv, AreasInv, UniqueIdsInOrder
<1>4. ASSUME NEW k \in Nat, NEW q \in Ahead(sel, d, k)
      PROVE  q \in InLog /\ q.stream \in sel /\ (k < Len(d) => d[k + 1].tag <= q.tag)
  <2>1. PICK i \in k + 1 .. Len(d) : d[i].stream \in sel /\ q = d[i]
    BY <1>4 DEF Ahead
  <2>2. i \in DOMAIN d /\ (k < Len(d) => k + 1 \in DOMAIN d /\ (k + 1 = i \/ k + 1 < i))
    BY <1>2, <1>3
  <2>3. k < Len(d) => d[k + 1].tag <= d[i].tag
    BY <1>3, <2>2
  <2> QED
    BY <1>1, <1>2, <2>1, <2>2, <2>3, InLogIs
<1>5. ASSUME NEW q \in InLog, q.stream \in sel
      PROVE  \E i \in DOMAIN d : q = d[i]
  <2>1. PICK b \in Areas : \E i \in DOMAIN data[b] : q = data[b][i]
    BY <1>5, InLogIs
  <2>2. PICK i \in DOMAIN data[b] : q = data[b][i]
    BY <2>1
  <2>3. AreaOf(q.stream) = b
    BY <2>2 DEF WalkersInv, AreasInv, UniqueIdsInOrder
  <2>4. q.stream \in BufferedStreams
    BY <1>5, LogFacts DEF Stored
  <2>5. a = b
    BY <1>1, <1>5, <2>3, <2>4, MatchesOwnArea
  <2> QED
    BY <1>1, <2>2, <2>5
<1>6. Ahead(sel, d, 0) = {r \in InLog : r.stream \in sel}
  <2>1. ASSUME NEW q \in InLog, q.stream \in sel PROVE q \in Ahead(sel, d, 0)
    <3>1. PICK i \in DOMAIN d : q = d[i]
      BY <1>5, <2>1
    <3>2. i \in 0 + 1 .. Len(d)
      BY <1>2, <1>3
    <3> QED
      BY <2>1, <3>1, <3>2 DEF Ahead
  <2>2. \A q \in Ahead(sel, d, 0) : q \in InLog /\ q.stream \in sel
    BY <1>4
  <2> QED
    BY <2>1, <2>2
<1>7. ASSUME NEW k \in 0 .. Len(d) - 1
      PROVE  Ahead(sel, d, k) = {r \in InLog : r.stream \in sel /\ d[k + 1].tag <= r.tag}
  <2>1. k \in Nat /\ k < Len(d) /\ k + 1 \in DOMAIN d
    BY <1>2, <1>3
  <2>2. ASSUME NEW q \in InLog, q.stream \in sel, d[k + 1].tag <= q.tag PROVE q \in Ahead(sel, d, k)
    <3>1. PICK i \in DOMAIN d : q = d[i]
      BY <1>5, <2>2
    <3>2. i \in Nat /\ i <= Len(d) /\ ~(i < k + 1)
      <4>1. i < k + 1 => d[i].tag < d[k + 1].tag
        BY <1>3, <2>1
      <4>2. d[i].tag \in Nat /\ d[k + 1].tag \in Nat
        BY <1>3, <2>1
      <4> QED
        BY <1>2, <1>3, <2>2, <3>1, <4>1, <4>2
    <3>3. i \in k + 1 .. Len(d)
      BY <1>2, <2>1, <3>2
    <3> QED
      BY <2>2, <3>1, <3>3 DEF Ahead
  <2>3. \A q \in Ahead(sel, d, k) : q \in InLog /\ q.stream \in sel /\ d[k + 1].tag <= q.tag
    BY <1>4, <2>1
  <2> QED
    BY <2>2, <2>3
<1> QED
  BY <1>1, <1>6, <1>7

\* The walkers that a rollover has broken are on the queue of the log.
BrokenAreQueued == rolled \subseteq Elements(queueWalkers)

LEMMA BrokenInit == Init => BrokenAreQueued
  BY DEF Init, BrokenAreQueued

LEMMA BrokenStep == WalkersInv /\ BrokenAreQueued /\ [Next]_vars => BrokenAreQueued'
<1> SUFFICES ASSUME WalkersInv, BrokenAreQueued, [Next]_vars PROVE BrokenAreQueued'
  OBVIOUS
<1>1. queueWalkers \in Seq(Walkers) /\ \A i, j \in DOMAIN queueWalkers : queueWalkers[i] = queueWalkers[j] => i = j
  BY DEF WalkersInv, LogTypes, WalkersPlaced
<1>2. ASSUME rolled' \subseteq rolled \cup Elements(queueWalkers), queueWalkers' = queueWalkers PROVE BrokenAreQueued'
  BY <1>2 DEF BrokenAreQueued, Elements
<1>3. \A a : OnArea(a) \subseteq Elements(queueWalkers)
  BY DEF OnArea
<1>4. CASE Push
  <2>1. rolled' \subseteq rolled \cup Elements(queueWalkers) /\ queueWalkers' = queueWalkers
    BY <1>3, <1>4 DEF Push, PushStored, PushRefused, PushRollover, PushOutOfSync, PushVirtual
  <2> QED
    BY <1>2, <2>1
<1>5. CASE Configure
  <2>1. CASE DestroyAllWalkers
    BY <2>1 DEF DestroyAllWalkers, BrokenAreQueued
  <2>2. CASE Clear \/ \E a \in Areas, enabled \in BOOLEAN : SetRollover(a, enabled)
    BY <1>2, <2>2 DEF Clear, SetRollover
  <2> QED
    BY <1>5, <2>1, <2>2 DEF Configure
<1>6. ASSUME NEW w \in Walkers, Walk(w) PROVE BrokenAreQueued'
  <2>1. CASE \E sel \in Selectors, skip \in BOOLEAN : CreateWalker(w, sel, skip)
    <3>1. /\ w \notin Elements(queueWalkers) /\ rolled' = rolled \ {w}
          /\ queueWalkers' = queueWalkers \/ queueWalkers' = Append(queueWalkers, w)
      BY <2>1 DEF CreateWalker, Attached
    <3>2. Elements(Append(queueWalkers, w)) = Elements(queueWalkers) \cup {w}
      BY <1>1, <3>1, AppendedIsElement
    <3>3. Elements(queueWalkers)' = Elements(queueWalkers')
      BY DEF Elements
    <3> QED
      BY <3>1, <3>2, <3>3 DEF BrokenAreQueued
  <2>2. CASE DestroyWalker(w)
    <3>1. queueWalkers' = Without(queueWalkers, w) /\ rolled' = rolled \ {w}
      BY <2>2 DEF DestroyWalker
    <3>2. Elements(Without(queueWalkers, w)) = Elements(queueWalkers) \ {w}
      BY <1>1, WithoutIs
    <3>3. Elements(queueWalkers)' = Elements(queueWalkers')
      BY DEF Elements
    <3> QED
      BY <3>1, <3>2, <3>3 DEF BrokenAreQueued
  <2>3. CASE PopBuffered(w) \/ PeekBuffered(w) \/ PopVirtual(w) \/ PeekVirtual(w) \/ SkipAll(w)
    BY <1>2, <2>3 DEF PopBuffered, PeekBuffered, PopVirtual, PeekVirtual, SkipAll
  <2>4. CASE (\E k \in 0 .. Max({MaxStorage, MaxStreaming}) : SeekOffset(w, k)) \/ \E id \in 1 .. MaxId : SeekId(w, id)
    BY <1>2, <2>4 DEF SeekOffset, SeekId, SeekTo
  <2> QED
    BY <1>6, <2>1, <2>2, <2>3, <2>4 DEF Walk
<1>7. CASE UNCHANGED vars
  BY <1>2, <1>7 DEF vars
<1> QED
  BY <1>4, <1>5, <1>6, <1>7 DEF Next

LEMMA FifoInit == Init => Fifo!Init
<1> SUFFICES ASSUME Init PROVE Fifo!Init
  OBVIOUS
<1>1. \A w \in Walkers : wk[w].sel = {} /\ UnreadBy(w) = {}
  <2>1. Elements(queueWalkers) = {}
    BY DEF Init, Elements
  <2> QED
    BY <2>1, UnreadIsAhead DEF Init, Unused
<1>2. rolled = {} /\ outcome = [error |-> "none", reading |-> NULL] /\ caller = NULL /\ nextId = 1
  BY DEF Init, Returned
<1>3. InLog = {}
  <2>1. \A a \in Areas : DOMAIN data[a] = {}
    BY DEF Init
  <2> QED
    BY <2>1, InLogIs
<1> QED
  BY <1>1, <1>2, <1>3 DEF Fifo!Init

\* Where nobody is disturbed, the walkers look the same.
LEMMA NobodyIsDisturbed ==
  ASSUME Undisturbed({})
  PROVE  /\ [w \in Walkers |-> wk[w].sel]' = [w \in Walkers |-> wk[w].sel]
         /\ [w \in Walkers |-> UnreadBy(w)]' = [w \in Walkers |-> UnreadBy(w)]
  BY DEF Undisturbed

\* Where w alone is disturbed, the others look the same.
LEMMA OthersAreUndisturbed ==
  ASSUME NEW w \in Walkers, Undisturbed({w})
  PROVE  /\ [x \in Walkers |-> wk[x].sel]' = [[x \in Walkers |-> wk[x].sel] EXCEPT ![w] = wk'[w].sel]
         /\ [x \in Walkers |-> UnreadBy(x)]' = [[x \in Walkers |-> UnreadBy(x)] EXCEPT ![w] = UnreadBy(w)']
         /\ wk'[w].sel = wk[w].sel => [x \in Walkers |-> wk[x].sel]' = [x \in Walkers |-> wk[x].sel]
  BY DEF Undisturbed

-----------------------------------------------------------------------------
(* What a push adds to the log, and what a rollover takes from it. *)

StreamsIn(a) == IF a = "streaming" THEN OutputStreams ELSE StorageStreams

LEMMA OnAreaIsOfStore ==
  ASSUME WalkersInv, NEW a \in Areas, NEW w \in OnArea(a)
  PROVE  wk[w].sel \subseteq StreamsIn(a)
<1>1. w \in Elements(queueWalkers) /\ AreaOfSelector(wk[w].sel) = a
  BY DEF OnArea
<1>2. wk[w].sel \in Selectors /\ Buffered(wk[w].sel)
  BY <1>1, QueueFacts
<1>3. wk[w].sel \subseteq StorageStreams \/ wk[w].sel \subseteq OutputStreams
  <2>1. ASSUME NEW s \in VirtualStreams, wk[w].sel = {s} PROVE FALSE
    BY <1>2, <2>1, StreamsAssumption DEF Buffered
  <2> QED
    BY <1>2, <2>1, SelectorsAssumption
<1> QED
  BY <1>1, <1>3 DEF AreaOfSelector, StreamsIn

\* Area a becomes e, which is what follows its n oldest readings and then X; the other area stays.
AreaBecomes(a, e, n, X) ==
    /\ data' = [data EXCEPT ![a] = e]
    /\ \A j \in DOMAIN e : e[j] \in X \/ \E i \in DOMAIN data[a] : n < i /\ e[j] = data[a][i]

LEMMA AreaChanges ==
  ASSUME WalkersInv, NEW a \in Areas, NEW e, NEW n, NEW X, AreaBecomes(a, e, n, X)
  PROVE  /\ InLog' \subseteq InLog \cup X
         /\ \A j \in DOMAIN e : e[j] \in InLog'
         /\ \A q \in InLog \ InLog' : q.stream \in StreamsIn(a)
<1>1. /\ data \in [Areas -> Seq(Stored)]
      /\ data'[a] = e /\ \A b \in Areas : b # a => data'[b] = data[b]
      /\ \A j \in DOMAIN e : e[j] \in X \/ \E i \in DOMAIN data[a] : e[j] = data[a][i]
  BY DEF WalkersInv, AreaBecomes
<1>2. ASSUME NEW q \in InLog' PROVE q \in InLog \cup X
  <2>1. PICK b \in Areas : \E i \in DOMAIN data'[b] : q = data'[b][i]
    BY <1>2, InLogIsNext
  <2>2. CASE b = a
    BY <1>1, <2>1, <2>2, InLogIs
  <2>3. CASE b # a
    BY <1>1, <2>1, <2>3, InLogIs
  <2> QED
    BY <2>2, <2>3
<1>3. ASSUME NEW q \in InLog, q \notin InLog' PROVE q.stream \in StreamsIn(a)
  <2>1. PICK b \in Areas : \E i \in DOMAIN data[b] : q = data[b][i]
    BY <1>3, InLogIs
  <2>2. b = a
    BY <1>1, <1>3, <2>1, InLogIsNext
  <2>3. AreaOf(q.stream) = a
    BY <2>1, <2>2 DEF WalkersInv, AreasInv, UniqueIdsInOrder
  <2>4. q.stream \in BufferedStreams
    BY <1>3, LogFacts DEF Stored
  <2> QED
    BY <2>3, <2>4 DEF AreaOf, StreamsIn, BufferedStreams
<1>4. \A j \in DOMAIN e : e[j] \in InLog'
  BY <1>1, InLogIsNext
<1> QED
  BY <1>2, <1>3, <1>4

\* The oldest reading of an area is in the log once.
LEMMA OldestIsDropped ==
  ASSUME WalkersInv, NEW a \in Areas, NEW n \in Nat, 1 <= n, n <= Len(data[a]), NEW e,
         NEW X, \A q \in X : q.tag = nextId, AreaBecomes(a, e, n, X)
  PROVE  data[a][1] \in InLog \ InLog'
<1>1. /\ data \in [Areas -> Seq(Stored)] /\ data[a] \in Seq(Stored)
      /\ data' = [data EXCEPT ![a] = e]
      /\ \A j \in DOMAIN e : e[j] \in X \/ \E i \in DOMAIN data[a] : n < i /\ e[j] = data[a][i]
  BY DEF WalkersInv, AreaBecomes
<1>2. 1 \in DOMAIN data[a] /\ 1 < n + 1
  BY <1>1
<1>3. PICK q : q = data[a][1]
  OBVIOUS
<1>4. q \in InLog /\ q.tag \in Nat /\ q.tag < nextId
  <2>1. q \in InLog
    BY <1>2, <1>3, InLogIs
  <2> QED
    BY <1>2, <1>3, <2>1, LogFacts, TagsAreNat DEF WalkersInv, AreasInv
<1>5. ASSUME q \in InLog' PROVE FALSE
  <2>1. PICK b \in Areas : \E i \in DOMAIN data'[b] : q = data'[b][i]
    BY <1>5, InLogIsNext
  <2>2. CASE b = a
    <3>1. PICK j \in DOMAIN e : q = e[j]
      BY <1>1, <2>1, <2>2
    <3>2. q \notin X
      BY <1>4
    <3>3. PICK i \in DOMAIN data[a] : n < i /\ q = data[a][i]
      BY <1>1, <3>1, <3>2
    <3>4. 1 < i
      BY <1>1, <3>3
    <3>5. q.tag < data[a][i].tag
      BY <1>2, <1>3, <3>4 DEF WalkersInv, AreasInv, UniqueIdsInOrder
    <3> QED
      BY <1>4, <3>3, <3>5
  <2>3. CASE b # a
    <3>1. PICK i \in DOMAIN data[b] : q = data[b][i]
      BY <1>1, <2>1, <2>3
    <3>2. data[b][i].tag # data[a][1].tag
      <4>1. (a = "storage" /\ b = "streaming") \/ (a = "streaming" /\ b = "storage")
        BY <2>3 DEF Areas
      <4> QED
        BY <1>2, <3>1, <4>1 DEF WalkersInv, AreasInv, UniqueIdsInOrder
    <3> QED
      BY <1>3, <3>1, <3>2
  <2> QED
    BY <2>2, <2>3
<1> QED
  BY <1>3, <1>4, <1>5

-----------------------------------------------------------------------------
(* Each call of the log is one that the FIFOs allow. *)

LEMMA StoreIsFifoStore == ASSUME NEW a \in Areas PROVE StreamsIn(a) \in {StorageStreams, OutputStreams}
  BY DEF StreamsIn

LEMMA ArrivalIsAllowed ==
  ASSUME WalkersInv, NEW s \in BufferedStreams, PushStored(s) \/ PushRollover(s), caller' = NULL
  PROVE  Fifo!Next
<1>1. PICK a, d, r : a = AreaOf(s) /\ d = data[a] /\ r = NewReading(s)
  OBVIOUS
<1>2. /\ rolled \subseteq rolled' /\ outcome' = Returned(NULL) /\ nextId <= MaxId /\ nextId' = nextId + 1
      /\ rolled' \subseteq rolled \cup OnArea(a)
  BY <1>1 DEF PushStored, PushRollover, Store
<1>3. r \in Stored /\ r.stream = s /\ r.tag = nextId /\ nextId \in Nat
  BY <1>1, <1>2 DEF NewReading, Stored, WalkersInv, LogTypes
<1>4. a \in Areas /\ d \in Seq(Stored) /\ Len(d) \in Nat /\ DOMAIN d = 1 .. Len(d)
  <2>1. a \in Areas
    BY <1>1, AreaOfStream
  <2>2. d \in Seq(Stored)
    BY <1>1, <2>1 DEF WalkersInv
  <2> QED
    BY <2>1, <2>2
<1> DEFINE Erases(n, kept) == /\ n <= Len(d) /\ kept = SubSeq(d, n + 1, Len(d))
                              /\ data' = [data EXCEPT ![a] = Append(kept, r)]
                              /\ n = 0 => rolled' = rolled
<1>5. \E n \in Nat : \E kept : Erases(n, kept)
  <2>1. CASE PushStored(s)
    <3>1. SubSeq(d, 0 + 1, Len(d)) = d
      BY <1>4
    <3>2. data' = [data EXCEPT ![a] = Append(d, r)] /\ rolled' = rolled
      BY <1>1, <2>1 DEF PushStored, Store
    <3>3. Erases(0, d)
      BY <1>4, <3>1, <3>2
    <3> QED
      BY <3>3
  <2>2. CASE PushRollover(s)
    <3>1. data' = [data EXCEPT ![a] = Append(SubSeq(d, EraseSize + 1, Len(d)), r)] /\ Full(a)
      BY <1>1, <2>2 DEF PushRollover, Store
    <3>2. EraseSize \in Nat /\ EraseSize >= 1 /\ EraseSize <= Len(d)
      BY <1>1, <1>4, <3>1, OldReadings
    <3>3. Erases(EraseSize, SubSeq(d, EraseSize + 1, Len(d)))
      BY <3>1, <3>2
    <3> HIDE DEF Erases
    <3> QED
      BY <3>2, <3>3
  <2> QED
    BY <2>1, <2>2
<1>6a. PICK n \in Nat : \E kept : Erases(n, kept)
  BY <1>5
<1>6b. PICK kept : Erases(n, kept)
  BY <1>6a
<1>6. PICK e : Erases(n, kept) /\ e = Append(kept, r)
  BY <1>6b
<1>7. kept \in Seq(Stored) /\ Len(kept) = Len(d) - n /\ \A i \in 1 .. Len(d) - n : kept[i] = d[n + i]
  BY <1>4, <1>6, KeptReadings
<1>8. /\ DOMAIN e = 1 .. Len(d) - n + 1 /\ Len(d) - n + 1 \in DOMAIN e /\ DOMAIN e \subseteq Nat
      /\ e[Len(d) - n + 1] = r /\ \A j \in 1 .. Len(d) - n : e[j] = kept[j]
  <2>1. Len(d) - n \in Nat /\ e = Append(kept, r)
    BY <1>4, <1>6
  <2>2. DOMAIN kept = 1 .. Len(d) - n
    BY <1>7
  <2> HIDE DEF Erases
  <2>3. /\ Len(e) = Len(d) - n + 1 /\ e \in Seq(Stored)
        /\ e[Len(d) - n + 1] = r /\ \A j \in 1 .. Len(d) - n : e[j] = kept[j]
    BY <1>3, <1>7, <2>1
  <2> QED
    BY <2>1, <2>3
<1>9. \A j \in DOMAIN e : e[j] = r \/ \E i \in DOMAIN d : n < i /\ e[j] = d[i]
  <2> SUFFICES ASSUME NEW j \in DOMAIN e, j # Len(d) - n + 1 PROVE \E i \in DOMAIN d : n < i /\ e[j] = d[i]
    BY <1>8
  <2>1. j \in 1 .. Len(d) - n /\ n + j \in DOMAIN d /\ n < n + j
    BY <1>4, <1>6, <1>8
  <2> QED
    BY <1>7, <1>8, <2>1
<1>10. data' = [data EXCEPT ![a] = e] /\ n <= Len(d) /\ (n = 0 => rolled' = rolled)
  BY <1>6
<1> HIDE DEF Erases
<1>11a. AreaBecomes(a, e, n, {r})
  BY <1>1, <1>9, <1>10 DEF AreaBecomes
<1>11. /\ InLog' \subseteq InLog \cup {r} /\ r \in InLog'
       /\ \A q \in InLog \ InLog' : q.stream \in StreamsIn(a)
  <2>1. /\ InLog' \subseteq InLog \cup {r} /\ \A j \in DOMAIN e : e[j] \in InLog'
        /\ \A q \in InLog \ InLog' : q.stream \in StreamsIn(a)
    BY <1>4, <1>11a, AreaChanges, Zenon
  <2> QED
    BY <1>8, <2>1
<1>12. InLog \ InLog' = {} => rolled' = rolled
  <2>1. CASE n = 0
    BY <1>10, <2>1
  <2>2. CASE n # 0
    <3>1. 1 <= n /\ n <= Len(data[a]) /\ \A q \in {r} : q.tag = nextId
      BY <1>1, <1>3, <1>10, <2>2
    <3>2. data[a][1] \in InLog \ InLog'
      BY <1>4, <1>11a, <3>1, OldestIsDropped
    <3> QED
      BY <3>2
  <2> QED
    BY <2>1, <2>2
<1>13. Arrives(s) /\ WalkersInv'
  BY PushStoredKeeps, PushRolloverKeeps
<1>14. [w \in Walkers |-> wk[w].sel]' = [w \in Walkers |-> wk[w].sel]
  BY <1>13 DEF Arrives
<1>15. [w \in Walkers |-> UnreadBy(w)]' =
          [w \in Walkers |-> IF w \in rolled' THEN {}
                             ELSE IF r.stream \in wk[w].sel THEN UnreadBy(w) \cup {r} ELSE UnreadBy(w)]
  BY <1>1, <1>3, <1>13 DEF Arrives
<1>16. \A w \in Walkers : UnreadBy(w)' \subseteq InLog'
  BY <1>13, UnreadIsInLogNext DEF UnreadIsThere
<1>17. \A w \in rolled' \ rolled : w \in Walkers /\ wk[w].sel \subseteq StreamsIn(a)
  <2>1. rolled' \subseteq Walkers
    BY <1>13 DEF WalkersInv, LogTypes
  <2> QED
    BY <1>2, <1>4, <2>1, OnAreaIsOfStore
<1>18. Fifo!Dropping(StreamsIn(a))
  BY <1>2, <1>11, <1>12, <1>16, <1>17 DEF Fifo!Dropping
<1>19. r.stream \in StreamsIn(a) /\ StreamsIn(a) \in {StorageStreams, OutputStreams}
  BY <1>1, <1>3, <1>4, StoreIsFifoStore DEF AreaOf, StreamsIn, BufferedStreams
<1>20. nextId' - 1 = (nextId - 1) + 1 /\ r.tag = (nextId - 1) + 1
  BY <1>2, <1>3
<1>21. Fifo!Arrive(r)
  <2>1. Fifo!LogCalled("none")
    BY <1>2 DEF Fifo!LogCalled, Returned
  <2>2. \A w \in Walkers : /\ [x \in Walkers |-> wk[x].sel][w] = wk[w].sel
                           /\ [x \in Walkers |-> UnreadBy(x)][w] = UnreadBy(w)
    OBVIOUS
  <2>3. [w \in Walkers |-> UnreadBy(w)]' =
          [w \in Walkers |-> IF w \in rolled' THEN {}
                             ELSE IF r.stream \in [x \in Walkers |-> wk[x].sel][w]
                                  THEN [x \in Walkers |-> UnreadBy(x)][w] \cup {r}
                                  ELSE [x \in Walkers |-> UnreadBy(x)][w]]
    BY <1>15, <2>2
  <2> QED
    BY <1>11, <1>14, <1>18, <1>19, <1>20, <2>1, <2>3 DEF Fifo!Arrive
<1> QED
  BY <1>3, <1>21 DEF Fifo!Next, Stored

LEMMA FailureIsAllowed ==
  ASSUME WalkersInv, NEW s \in BufferedStreams, PushOutOfSync(s), caller' = NULL
  PROVE  Fifo!Next
<1>1. PICK a, d, e : a = AreaOf(s) /\ d = data[a] /\ e = SubSeq(d, EraseSize + 1, Len(d))
  OBVIOUS
<1>2. /\ rolled' = rolled \cup OnArea(a) /\ outcome' = Raised("OutOfSync")
      /\ data' = [data EXCEPT ![a] = e] /\ nextId' = nextId + 1 /\ Full(a)
  BY <1>1 DEF PushOutOfSync
<1>3. a \in Areas /\ d \in Seq(Stored) /\ Len(d) \in Nat /\ DOMAIN d = 1 .. Len(d)
  <2>1. a \in Areas
    BY <1>1, AreaOfStream
  <2>2. d \in Seq(Stored)
    BY <1>1, <2>1 DEF WalkersInv
  <2> QED
    BY <2>1, <2>2
<1>4. EraseSize \in Nat /\ EraseSize >= 1 /\ EraseSize <= Len(d)
  BY <1>1, <1>2, <1>3, OldReadings
<1>5. e \in Seq(Stored) /\ Len(e) = Len(d) - EraseSize /\ \A i \in 1 .. Len(d) - EraseSize : e[i] = d[EraseSize + i]
  <2>1. PICK k : k = SubSeq(d, EraseSize + 1, Len(d))
    OBVIOUS
  <2>2. k \in Seq(Stored) /\ Len(k) = Len(d) - EraseSize /\ \A i \in 1 .. Len(d) - EraseSize : k[i] = d[EraseSize + i]
    BY <1>3, <1>4, <2>1, KeptReadings
  <2>3. e = k
    BY <1>1, <2>1
  <2> QED
    BY <2>2, <2>3, Zenon
<1>6. AreaBecomes(a, e, EraseSize, {})
  <2>1. DOMAIN e = 1 .. Len(d) - EraseSize
    BY <1>5
  <2>2. ASSUME NEW j \in DOMAIN e PROVE \E i \in DOMAIN d : EraseSize < i /\ e[j] = d[i]
    <3>1. j \in 1 .. Len(d) - EraseSize /\ EraseSize + j \in DOMAIN d /\ EraseSize < EraseSize + j
      BY <1>3, <1>4, <2>1
    <3> QED
      BY <1>5, <3>1
  <2>3. data[a] = d
    BY <1>1
  <2>4. \A j \in DOMAIN e : e[j] \in {} \/ \E i \in DOMAIN data[a] : EraseSize < i /\ e[j] = data[a][i]
    BY <2>2, <2>3, Zenon
  <2> QED
    BY <1>2, <2>4, Zenon DEF AreaBecomes
<1>7. InLog' \subseteq InLog /\ \A q \in InLog \ InLog' : q.stream \in StreamsIn(a)
  <2>1. InLog' \subseteq InLog \cup {} /\ \A q \in InLog \ InLog' : q.stream \in StreamsIn(a)
    BY <1>3, <1>6, AreaChanges, Zenon
  <2> QED
    BY <2>1
<1>8. InLog \ InLog' # {}
  <2>1. 1 <= EraseSize /\ EraseSize <= Len(data[a]) /\ EraseSize \in Nat /\ \A q \in {} : q.tag = nextId
    BY <1>1, <1>4
  <2>2. data[a][1] \in InLog \ InLog'
    BY <1>3, <1>6, <2>1, OldestIsDropped
  <2> QED
    BY <2>2
<1>9. WalkersInv' /\ Undisturbed(rolled') /\ \A w \in Walkers : wk'[w].sel = wk[w].sel
  BY PushOutOfSyncKeeps
<1>10. \A w \in Walkers : UnreadBy(w)' = IF w \in rolled' THEN {} ELSE UnreadBy(w)
  BY <1>9, UnreadIsAheadNext DEF Undisturbed
<1>11. \A w \in Walkers : UnreadBy(w)' \subseteq InLog'
  BY <1>9, UnreadIsInLogNext DEF UnreadIsThere
<1>12. \A w \in rolled' \ rolled : w \in Walkers /\ wk[w].sel \subseteq StreamsIn(a)
  <2>1. rolled' \subseteq Walkers
    BY <1>9 DEF WalkersInv, LogTypes
  <2> QED
    BY <1>2, <1>3, <2>1, OnAreaIsOfStore
<1>13. Fifo!Dropping(StreamsIn(a)) /\ StreamsIn(a) \in {StorageStreams, OutputStreams}
  BY <1>2, <1>3, <1>7, <1>8, <1>11, <1>12, StoreIsFifoStore DEF Fifo!Dropping
<1>14. nextId' - 1 = (nextId - 1) + 1
  BY <1>2 DEF WalkersInv, LogTypes
<1>15. Fifo!Fail
  <2>1. [w \in Walkers |-> wk[w].sel]' = [w \in Walkers |-> wk[w].sel]
    BY <1>9
  <2>2. \A w \in Walkers : [x \in Walkers |-> UnreadBy(x)][w] = UnreadBy(w)
    OBVIOUS
  <2>3. [w \in Walkers |-> UnreadBy(w)]' =
          [w \in Walkers |-> IF w \in rolled' THEN {} ELSE [x \in Walkers |-> UnreadBy(x)][w]]
    BY <1>10, <2>2
  <2>4. Fifo!LogCalled("OutOfSync")
    BY <1>2 DEF Fifo!LogCalled, Raised
  <2> QED
    BY <1>7, <1>13, <1>14, <2>1, <2>3, <2>4 DEF Fifo!Fail
<1> QED
  BY <1>15 DEF Fifo!Next

\* Calls of the log that change nothing but its configuration, or nothing at all.
LEMMA QuietIsAllowed ==
  ASSUME Undisturbed({}), rolled' = rolled, outcome' = Returned(NULL), caller' = NULL, UNCHANGED <<data, nextId>>
  PROVE  Fifo!Next
<1>1. InLog' = InLog /\ nextId' - 1 = nextId - 1
  BY DEF InLog, Elements
<1>2. Fifo!Quiet
  BY <1>1, NobodyIsDisturbed DEF Fifo!Quiet, Fifo!LogCalled, Returned
<1> QED
  BY <1>2 DEF Fifo!Next

LEMMA RefusalIsAllowed ==
  ASSUME WalkersInv, NEW s \in BufferedStreams, PushRefused(s), caller' = NULL
  PROVE  Fifo!Next
<1>1. outcome' = Raised("StorageFull") /\ nextId' = nextId + 1 /\ UNCHANGED <<data, queueWalkers, wk, rolled>>
  BY DEF PushRefused
<1>2. Undisturbed({})
  BY <1>1, UndisturbedIf
<1>3. InLog' = InLog
  BY <1>1 DEF InLog, Elements
<1>4. nextId' - 1 = (nextId - 1) + 1
  BY <1>1 DEF WalkersInv, LogTypes
<1>5. Fifo!Refuse
  BY <1>1, <1>2, <1>3, <1>4, NobodyIsDisturbed DEF Fifo!Refuse, Fifo!LogCalled, Raised
<1> QED
  BY <1>5 DEF Fifo!Next

LEMMA ClearIsAllowed ==
  ASSUME WalkersInv, BrokenAreQueued, Clear, caller' = NULL
  PROVE  Fifo!Next
<1>1. /\ outcome' = Returned(NULL) /\ rolled' = rolled \ Attached /\ nextId' = nextId
      /\ data' = [a \in Areas |-> <<>>]
  BY DEF Clear
<1>2. rolled' = {}
  BY <1>1 DEF BrokenAreQueued, Attached
<1>3. InLog' = {}
  <2>1. \A a \in Areas : DOMAIN data'[a] = {}
    BY <1>1
  <2> QED
    BY <2>1, InLogIsNext
<1>4. WalkersInv' /\ \A w \in Walkers : wk'[w].sel = wk[w].sel
  <2>1. WalkersInv' /\ wk' = Cleared(wk)
    BY ClearKeeps DEF Clear
  <2>2. ASSUME NEW w \in Walkers PROVE wk'[w].sel = wk[w].sel
    <3>1. CASE w \notin Attached
      BY <2>1, <3>1 DEF Cleared
    <3>2. CASE w \in Attached
      <4>1. PICK e : e = [a \in Areas |-> <<>>]
        OBVIOUS
      <4>2. e \in [Areas -> Seq(Stored)]
        BY <4>1
      <4>3. wk'[w] = Skipped(wk[w], e)
        BY <2>1, <3>2, <4>1 DEF Cleared
      <4> QED
        BY <3>2, <4>2, <4>3, SkippedWalker
    <3> QED
      BY <3>1, <3>2
  <2> QED
    BY <2>1, <2>2
<1>5. \A w \in Walkers : UnreadBy(w)' = {}
  BY <1>3, <1>4, UnreadIsInLogNext DEF UnreadIsThere
<1>6. Fifo!Empty
  BY <1>1, <1>2, <1>3, <1>4, <1>5 DEF Fifo!Empty, Fifo!LogCalled, Returned
<1> QED
  BY <1>6 DEF Fifo!Next

LEMMA DestroyAllIsAllowed ==
  ASSUME WalkersInv, DestroyAllWalkers, caller' = NULL
  PROVE  Fifo!Next
<1>1. /\ outcome' = Returned(NULL) /\ rolled' = {} /\ UNCHANGED <<nextId, data>>
      /\ wk' = [w \in Walkers |-> Unused] /\ queueWalkers' = <<>>
  BY DEF DestroyAllWalkers
<1>2. InLog' = InLog
  BY <1>1 DEF InLog, Elements
<1>3. \A w \in Walkers : wk'[w].sel = {}
  BY <1>1 DEF Unused
<1>4. \A w \in Walkers : UnreadBy(w)' = {}
  <2>1. Elements(queueWalkers') = {}
    BY <1>1 DEF Elements
  <2> QED
    BY <2>1, UnreadIsAheadNext
<1>5. Fifo!DestroyAll
  BY <1>1, <1>2, <1>3, <1>4 DEF Fifo!DestroyAll, Fifo!LogCalled, Returned
<1> QED
  BY <1>5 DEF Fifo!Next

-----------------------------------------------------------------------------
(* ... and so is each call of a walker. *)

\* w is created, destroyed or moved.
MayBePlaced(w) ==
    \/ \E s \in Selectors : Fifo!Create(w, s)
    \/ Fifo!Destroy(w) \/ Fifo!SkipAll(w) \/ Fifo!SeekNowhere(w)
    \/ \E q \in InLog : Fifo!Seek(w, q)

LEMMA PlacingIsAllowed == ASSUME NEW w \in Walkers, MayBePlaced(w) PROVE Fifo!Next
  BY DEF MayBePlaced, Fifo!Next, Fifo!Call

LEMMA WalkerIsPlaced ==
  ASSUME NEW w \in Walkers, caller' = w, Undisturbed({w}), outcome' = Returned(NULL),
         rolled' = rolled \ {w}, UNCHANGED <<data, nextId>>
  PROVE  /\ Fifo!Called(w, "none", NULL)
         /\ Fifo!Placed(w, UnreadBy(w)')
         /\ InLog' = InLog
         /\ [x \in Walkers |-> wk[x].sel]' = [[x \in Walkers |-> wk[x].sel] EXCEPT ![w] = wk'[w].sel]
         /\ wk'[w].sel = wk[w].sel => [x \in Walkers |-> wk[x].sel]' = [x \in Walkers |-> wk[x].sel]
<1>1. InLog' = InLog /\ nextId' - 1 = nextId - 1
  BY DEF InLog, Elements
<1>2. Fifo!Called(w, "none", NULL)
  BY <1>1 DEF Fifo!Called, Returned
<1>3. Fifo!Placed(w, UnreadBy(w)')
  BY OthersAreUndisturbed DEF Fifo!Placed
<1> QED
  BY <1>1, <1>2, <1>3, OthersAreUndisturbed

LEMMA CreateIsAllowed ==
  ASSUME WalkersInv, NEW w \in Walkers, NEW sel \in Selectors, NEW skip \in BOOLEAN,
         CreateWalker(w, sel, skip), caller' = w
  PROVE  Fifo!Next
<1>1. /\ w \notin Attached /\ outcome' = Returned(NULL) /\ rolled' = rolled \ {w}
      /\ wk' = [wk EXCEPT ![w] = NewWalker(sel, skip)] /\ UNCHANGED <<data, nextId>>
      /\ queueWalkers' = IF Buffered(sel) THEN Append(queueWalkers, w) ELSE queueWalkers
  BY DEF CreateWalker
<1>2. wk \in [Walkers -> Walker] /\ wk[w].sel = {}
  BY <1>1 DEF WalkersInv, LogTypes, WalkersPlaced, Unused
<1>3. PICK v : v = NewWalker(sel, skip)
  OBVIOUS
<1>4. wk'[w] = v /\ v.sel = sel
  BY <1>1, <1>2, <1>3, NewWalkerFacts
<1>5. WalkersInv' /\ Undisturbed({w})
  BY CreateWalkerKeeps
<1>6. UnreadBy(w)' = {} \/ UnreadBy(w)' = {q \in InLog : q.stream \in sel}
  <2>1. CASE ~Buffered(sel)
    <3>1. w \notin Elements(queueWalkers')
      BY <1>1, <2>1 DEF Attached
    <3> QED
      BY <3>1, UnreadIsAheadNext
  <2>2. CASE Buffered(sel)
    <3>1. PICK d : d = data[AreaOfSelector(sel)]
      OBVIOUS
    <3>2. d \in Seq(Stored)
      BY <3>1, SelectorHasArea DEF WalkersInv
    <3>3. UnreadBy(w)' = {} \/ UnreadBy(w)' = Ahead(sel, d, v.offset)
      BY <1>1, <1>4, <3>1, UnreadIsAheadNext
    <3>4. v.offset = IF skip THEN Len(d) ELSE 0
      BY <1>3, <2>2, <3>1 DEF NewWalker
    <3>5. CASE skip
      <4>1. Len(d) \in Nat /\ Hits(sel, d, Len(d)) = {}
        BY <3>2, NothingAheadAtEnd
      <4>2. Ahead(sel, d, Len(d)) = {}
        BY <3>2, <4>1, AheadIsStored
      <4> QED
        BY <3>3, <3>4, <3>5, <4>2
    <3>6. CASE ~skip
      BY <2>2, <3>1, <3>3, <3>4, <3>6, AheadIsMatching
    <3> QED
      BY <3>5, <3>6
  <2> QED
    BY <2>1, <2>2
<1>7. /\ Fifo!Called(w, "none", NULL) /\ Fifo!Placed(w, UnreadBy(w)')
      /\ [x \in Walkers |-> wk[x].sel]' = [[x \in Walkers |-> wk[x].sel] EXCEPT ![w] = sel]
  BY <1>1, <1>4, <1>5, WalkerIsPlaced
<1>8. Fifo!Placed(w, {}) \/ Fifo!Placed(w, Fifo!Matching(sel))
  BY <1>6, <1>7 DEF Fifo!Matching
<1>9. Fifo!Create(w, sel)
  BY <1>2, <1>7, <1>8 DEF Fifo!Create
<1> QED
  BY <1>9, PlacingIsAllowed DEF MayBePlaced

LEMMA DestroyIsAllowed ==
  ASSUME WalkersInv, NEW w \in Walkers, DestroyWalker(w), caller' = w
  PROVE  Fifo!Next
<1>1. /\ outcome' = Returned(NULL) /\ rolled' = rolled \ {w} /\ UNCHANGED <<data, nextId>>
      /\ queueWalkers' = Without(queueWalkers, w) /\ wk' = [wk EXCEPT ![w] = Unused]
  BY DEF DestroyWalker
<1>2. wk'[w].sel = {}
  BY <1>1 DEF WalkersInv, LogTypes, Unused
<1>3. UnreadBy(w)' = {}
  <2>1. queueWalkers \in Seq(Walkers) /\ \A i, j \in DOMAIN queueWalkers : queueWalkers[i] = queueWalkers[j] => i = j
    BY DEF WalkersInv, LogTypes, WalkersPlaced
  <2>2. w \notin Elements(queueWalkers')
    BY <1>1, <2>1, WithoutIs
  <2> QED
    BY <2>2, UnreadIsAheadNext
<1>4. /\ Fifo!Called(w, "none", NULL) /\ Fifo!Placed(w, {})
      /\ [x \in Walkers |-> wk[x].sel]' = [[x \in Walkers |-> wk[x].sel] EXCEPT ![w] = {}]
  BY <1>1, <1>2, <1>3, DestroyWalkerKeeps, WalkerIsPlaced
<1>5. Fifo!Destroy(w)
  BY <1>4 DEF Fifo!Destroy
<1> QED
  BY <1>5, PlacingIsAllowed DEF MayBePlaced

LEMMA SkipIsAllowed ==
  ASSUME WalkersInv, NEW w \in Walkers, SkipAll(w), caller' = w
  PROVE  Fifo!Next
<1>1. /\ w \in Attached /\ outcome' = Returned(NULL) /\ rolled' = rolled \ {w}
      /\ UNCHANGED <<data, nextId, queueWalkers>> /\ wk' = [wk EXCEPT ![w] = Skipped(wk[w], data)]
  BY DEF SkipAll
<1>2. data \in [Areas -> Seq(Stored)] /\ wk \in [Walkers -> Walker]
  BY DEF WalkersInv, LogTypes
<1>3. PICK u, k : u = Skipped(wk[w], data) /\ k = Len(data[AreaOfSelector(wk[w].sel)])
  OBVIOUS
<1>4. u.sel = wk[w].sel /\ (w \in Elements(queueWalkers) => u.offset = k)
  BY <1>1, <1>2, <1>3, SkippedWalker
<1>5. wk'[w] = u
  BY <1>1, <1>2, <1>3
<1>6. UnreadBy(w)' = {}
  <2>1. CASE w \notin Elements(queueWalkers)
    <3>1. w \notin Elements(queueWalkers')
      BY <1>1, <2>1
    <3> QED
      BY <3>1, UnreadIsAheadNext
  <2>2. CASE w \in Elements(queueWalkers)
    <3>1. PICK sel, d : sel = wk[w].sel /\ d = data[AreaOfSelector(sel)]
      OBVIOUS
    <3>2. d \in Seq(Stored)
      BY <2>2, <3>1, QueueFacts
    <3>3. Len(d) \in Nat /\ Hits(sel, d, Len(d)) = {}
      BY <3>2, NothingAheadAtEnd
    <3>4. Ahead(sel, d, Len(d)) = {}
      BY <3>2, <3>3, AheadIsStored
    <3>5. UnreadBy(w)' = {} \/ UnreadBy(w)' = Ahead(sel, d, Len(d))
      BY <1>1, <1>3, <1>4, <1>5, <2>2, <3>1, UnreadIsAheadNext
    <3> QED
      BY <3>4, <3>5
  <2> QED
    BY <2>1, <2>2
<1>7. /\ Fifo!Called(w, "none", NULL) /\ Fifo!Placed(w, {})
      /\ [x \in Walkers |-> wk[x].sel]' = [x \in Walkers |-> wk[x].sel]
  BY <1>1, <1>4, <1>5, <1>6, SkipAllKeeps, WalkerIsPlaced
<1>8. Fifo!SkipAll(w)
  BY <1>7 DEF Fifo!SkipAll
<1> QED
  BY <1>8, PlacingIsAllowed DEF MayBePlaced

LEMMA SeekIsAllowed ==
  ASSUME WalkersInv, NEW w \in Walkers, caller' = w,
         (\E k \in Nat : SeekOffset(w, k)) \/ (\E id : SeekId(w, id))
  PROVE  Fifo!Next
<1>1. w \in Elements(queueWalkers) /\ UNCHANGED <<data, nextId, queueWalkers>>
  BY DEF SeekOffset, SeekId
<1>2. CASE Undisturbed({}) /\ outcome' = Raised("Unresolved") /\ rolled' = rolled
  <2>1. InLog' = InLog /\ nextId' - 1 = nextId - 1
    BY <1>1 DEF InLog, Elements
  <2>2. Fifo!SeekNowhere(w)
    BY <1>2, <2>1, NobodyIsDisturbed DEF Fifo!SeekNowhere, Fifo!Called, Raised
  <2> QED
    BY <2>2, PlacingIsAllowed DEF MayBePlaced
<1>3. CASE /\ Undisturbed({w}) /\ outcome' = Returned(NULL) /\ rolled' = rolled \ {w}
           /\ wk'[w].sel = wk[w].sel
           /\ \E k \in 0 .. Len(data[AreaOfSelector(wk[w].sel)]) - 1 : wk'[w].offset = k
  <2>1. PICK sel, a, d : sel = wk[w].sel /\ a = AreaOfSelector(sel) /\ d = data[a]
    OBVIOUS
  <2>2. PICK k \in 0 .. Len(d) - 1 : wk'[w].offset = k
    BY <1>3, <2>1
  <2>3. sel \in Selectors /\ Buffered(sel) /\ a \in Areas /\ d \in Seq(Stored)
    BY <1>1, <2>1, QueueFacts
  <2>4. UnreadBy(w)' = {r \in InLog : r.stream \in sel /\ d[k + 1].tag <= r.tag}
    <3>1. w \in Elements(queueWalkers') \ rolled'
      BY <1>1, <1>3
    <3>2. UnreadBy(w)' = Ahead(sel, d, k)
      BY <1>1, <1>3, <2>1, <2>2, <3>1, UnreadIsAheadNext
    <3> QED
      BY <2>1, <2>3, <3>2, AheadIsMatching
  <2>5. d[k + 1] \in InLog
    <3>1. k + 1 \in DOMAIN d
      BY <2>3
    <3> QED
      BY <2>1, <2>3, <3>1, InLogIs
  <2>6. /\ Fifo!Called(w, "none", NULL) /\ Fifo!Placed(w, UnreadBy(w)')
        /\ [x \in Walkers |-> wk[x].sel]' = [x \in Walkers |-> wk[x].sel]
    BY <1>1, <1>3, WalkerIsPlaced
  <2>7. PICK q : q = d[k + 1]
    OBVIOUS
  <2>8. {r \in Fifo!Matching([x \in Walkers |-> wk[x].sel][w]) : q.tag <= r.tag} = UnreadBy(w)'
    BY <2>1, <2>4, <2>7 DEF Fifo!Matching
  <2>9. Fifo!Seek(w, q)
    BY <2>6, <2>8 DEF Fifo!Seek
  <2> QED
    BY <2>5, <2>7, <2>9, PlacingIsAllowed DEF MayBePlaced
<1> QED
  BY <1>2, <1>3, SeeksKeep


\* What pop() and peek() of a walker that is not broken find is what its FIFO holds.
LEMMA FoundIsOldest ==
  ASSUME WalkersInv, NEW w \in Elements(queueWalkers), w \notin rolled
  PROVE  LET f == Found(wk[w])  r == ReadingAt(wk[w], f.at)  d == data[AreaOfSelector(wk[w].sel)] IN
         /\ f.error # "none" => /\ f.error = "StreamEmpty" /\ f.at = wk[w].offset /\ UnreadBy(w) = {}
         /\ f.error = "none" => /\ r \in UnreadBy(w) /\ \A q \in UnreadBy(w) : r.tag <= q.tag
                                /\ Ahead(wk[w].sel, d, f.at + 1) = UnreadBy(w) \ {r}
<1> DEFINE v == wk[w]
           d == data[AreaOfSelector(v.sel)]
           H == Hits(v.sel, d, v.offset)
           f == Found(v)
           r == ReadingAt(v, f.at)
<1>1. d \in Seq(Stored) /\ AreaOfSelector(v.sel) \in Areas
  BY QueueFacts
<1>2. v.offset \in 0 .. Len(d)
  BY InSyncFacts
<1>3. UnreadBy(w) = Ahead(v.sel, d, v.offset)
  BY UnreadIsAhead
<1>4. /\ \A i \in DOMAIN d : d[i].tag \in Nat
      /\ \A i, j \in DOMAIN d : i < j => d[i].tag < d[j].tag
  BY <1>1, TagsAreNat DEF WalkersInv, AreasInv, UniqueIdsInOrder
<1>5. /\ f.error # "none" => f.error = "StreamEmpty" /\ f.at = v.offset /\ H = {}
      /\ f.error = "none" => f.at \in H /\ (\A i \in H : f.at <= i) /\ r = d[f.at + 1]
  <2> HIDE DEF f, H
  <2> QED
    BY FoundFacts DEF f, H
<1> HIDE DEF v, d, f, r
<1>6. v.offset \in Nat
  BY <1>1, <1>2
<1>7. CASE f.error # "none"
  <2>1. H = {}
    BY <1>5, <1>7
  <2>2. Ahead(v.sel, d, v.offset) = {}
    BY <1>1, <1>6, <2>1, AheadIsStored
  <2> QED
    BY <1>3, <1>5, <1>7, <2>2 DEF v, d, f, r
<1>8. CASE f.error = "none"
  <2>1. /\ d[f.at + 1] \in Ahead(v.sel, d, v.offset)
        /\ \A q \in Ahead(v.sel, d, v.offset) : d[f.at + 1].tag <= q.tag
        /\ Ahead(v.sel, d, f.at + 1) = Ahead(v.sel, d, v.offset) \ {d[f.at + 1]}
    BY <1>1, <1>4, <1>5, <1>6, <1>8, AheadAfterTake
  <2>2. r = d[f.at + 1]
    BY <1>5, <1>8
  <2> QED
    BY <1>3, <1>8, <2>1, <2>2 DEF v, d, f, r
<1> QED
  BY <1>7, <1>8

\* What a walker may return or raise when it is read.
MayBeRead(w) ==
    \/ \E r \in UnreadBy(w) : Fifo!Take(r, w) \/ Fifo!Look(r, w)
    \/ Fifo!Starve(w) \/ Fifo!ReadBroken(w) \/ Fifo!ReadOther(w)

LEMMA ReadingIsAllowed == ASSUME NEW w \in Walkers, MayBeRead(w) PROVE Fifo!Next
<1>1. [x \in Walkers |-> UnreadBy(x)][w] = UnreadBy(w)
  OBVIOUS
<1>2. Fifo!Call(w)
  BY <1>1 DEF MayBeRead, Fifo!Call
<1> QED
  BY <1>2 DEF Fifo!Next

LEMMA ReadsAreCalls ==
  ASSUME NEW w \in Walkers, caller' = w, UNCHANGED <<data, nextId>>, NEW error, NEW reading,
         outcome' = [error |-> error, reading |-> reading]
  PROVE  Fifo!Called(w, error, reading) /\ Fifo!Called(w, outcome'.error, outcome'.reading)
<1>1. InLog' = InLog /\ nextId' - 1 = nextId - 1
  BY DEF InLog, Elements
<1>2. outcome'.error = error /\ outcome'.reading = reading
  OBVIOUS
<1> QED
  BY <1>1, <1>2 DEF Fifo!Called

LEMMA PeekIsAllowed ==
  ASSUME WalkersInv, NEW w \in Walkers, PeekBuffered(w), caller' = w
  PROVE  Fifo!Next
<1> DEFINE f == Found(wk[w])
           r == ReadingAt(wk[w], f.at)
<1>1. /\ w \in Elements(queueWalkers) /\ rolled' = rolled /\ UNCHANGED <<data, nextId>>
      /\ f.error = "none" => outcome' = [error |-> "none", reading |-> r]
      /\ f.error # "none" => outcome' = [error |-> f.error, reading |-> NULL]
  BY DEF PeekBuffered, Returned, Raised
<1>2. /\ [x \in Walkers |-> wk[x].sel]' = [x \in Walkers |-> wk[x].sel]
      /\ [x \in Walkers |-> UnreadBy(x)]' = [x \in Walkers |-> UnreadBy(x)]
  BY PeekBufferedKeeps, NobodyIsDisturbed
<1>3. w \notin rolled =>
         /\ f.error # "none" => f.error = "StreamEmpty" /\ UnreadBy(w) = {}
         /\ f.error = "none" => r \in UnreadBy(w) /\ \A q \in UnreadBy(w) : r.tag <= q.tag
  <2> HIDE DEF f, r
  <2> QED
    BY <1>1, FoundIsOldest DEF f, r
<1>4. [x \in Walkers |-> UnreadBy(x)][w] = UnreadBy(w)
  OBVIOUS
<1> HIDE DEF f, r
<1>5. /\ f.error = "none" => Fifo!Called(w, "none", r)
      /\ f.error # "none" => Fifo!Called(w, f.error, NULL)
      /\ Fifo!Called(w, outcome'.error, outcome'.reading)
  BY <1>1, ReadsAreCalls
<1>6. CASE w \in rolled
  <2>1. Fifo!ReadBroken(w)
    BY <1>1, <1>2, <1>5, <1>6 DEF Fifo!ReadBroken
  <2> QED
    BY <2>1, ReadingIsAllowed DEF MayBeRead
<1>7. CASE w \notin rolled /\ f.error = "none"
  <2>1. Fifo!Look(r, w) /\ r \in UnreadBy(w)
    BY <1>1, <1>2, <1>3, <1>4, <1>5, <1>7 DEF Fifo!Look, Fifo!Oldest
  <2> QED
    BY <2>1, ReadingIsAllowed DEF MayBeRead
<1>8. CASE w \notin rolled /\ f.error # "none"
  <2>1. Fifo!Starve(w)
    BY <1>1, <1>2, <1>3, <1>4, <1>5, <1>8 DEF Fifo!Starve
  <2> QED
    BY <2>1, ReadingIsAllowed DEF MayBeRead
<1> QED
  BY <1>6, <1>7, <1>8

LEMMA PopIsAllowed ==
  ASSUME WalkersInv, NEW w \in Walkers, PopBuffered(w), caller' = w
  PROVE  Fifo!Next
<1> DEFINE f == Found(wk[w])
           r == ReadingAt(wk[w], f.at)
           d == data[AreaOfSelector(wk[w].sel)]
<1>1. /\ w \in Elements(queueWalkers) /\ UNCHANGED <<data, nextId, queueWalkers, rolled>>
      /\ f.error = "none" => outcome' = [error |-> "none", reading |-> r]
      /\ f.error # "none" => outcome' = [error |-> f.error, reading |-> NULL]
  BY DEF PopBuffered, Returned, Raised
<1>2. /\ Undisturbed({w}) /\ wk'[w].sel = wk[w].sel
      /\ wk'[w].offset = IF f.error = "none" THEN f.at + 1 ELSE f.at
  <2> HIDE DEF f
  <2> QED
    BY PopBufferedKeeps DEF f
<1>3. w \notin rolled =>
         /\ f.error # "none" => f.error = "StreamEmpty" /\ f.at = wk[w].offset /\ UnreadBy(w) = {}
         /\ f.error = "none" => /\ r \in UnreadBy(w) /\ \A q \in UnreadBy(w) : r.tag <= q.tag
                                /\ Ahead(wk[w].sel, d, f.at + 1) = UnreadBy(w) \ {r}
  <2> HIDE DEF f, r, d
  <2> QED
    BY <1>1, FoundIsOldest DEF f, r, d
<1> HIDE DEF f, r
<1>4. UnreadBy(w)' = IF w \in rolled THEN {} ELSE Ahead(wk[w].sel, d, wk'[w].offset)
  BY <1>1, <1>2, UnreadIsAheadNext
<1>5. w \notin rolled => UnreadBy(w) = Ahead(wk[w].sel, d, wk[w].offset)
  BY <1>1, UnreadIsAhead
<1>6. w \in rolled => UnreadBy(w) = {}
  BY UnreadIsAhead
<1> HIDE DEF d
<1>7. /\ [x \in Walkers |-> wk[x].sel]' = [x \in Walkers |-> wk[x].sel]
      /\ [x \in Walkers |-> UnreadBy(x)]' = [[x \in Walkers |-> UnreadBy(x)] EXCEPT ![w] = UnreadBy(w)']
      /\ [x \in Walkers |-> UnreadBy(x)][w] = UnreadBy(w)
  BY <1>2, OthersAreUndisturbed
<1>8. UnreadBy(w)' = UnreadBy(w) => [x \in Walkers |-> UnreadBy(x)]' = [x \in Walkers |-> UnreadBy(x)]
  BY <1>2 DEF Undisturbed
<1>9. /\ f.error = "none" => Fifo!Called(w, "none", r)
      /\ f.error # "none" => Fifo!Called(w, f.error, NULL)
      /\ Fifo!Called(w, outcome'.error, outcome'.reading)
  BY <1>1, ReadsAreCalls
<1>10. CASE w \in rolled
  <2>1. [x \in Walkers |-> UnreadBy(x)]' = [x \in Walkers |-> UnreadBy(x)]
    BY <1>4, <1>6, <1>8, <1>10
  <2>2. Fifo!ReadBroken(w)
    BY <1>1, <1>7, <1>9, <1>10, <2>1 DEF Fifo!ReadBroken
  <2> QED
    BY <2>2, ReadingIsAllowed DEF MayBeRead
<1>11. CASE w \notin rolled /\ f.error = "none"
  <2>1. UnreadBy(w)' = UnreadBy(w) \ {r}
    BY <1>2, <1>3, <1>4, <1>11
  <2>2. [x \in Walkers |-> UnreadBy(x)]' = [[x \in Walkers |-> UnreadBy(x)] EXCEPT ![w] = @ \ {r}]
    BY <1>7, <2>1
  <2>3. Fifo!Take(r, w) /\ r \in UnreadBy(w)
    BY <1>1, <1>3, <1>7, <1>9, <1>11, <2>2 DEF Fifo!Take, Fifo!Oldest
  <2> QED
    BY <2>3, ReadingIsAllowed DEF MayBeRead
<1>12. CASE w \notin rolled /\ f.error # "none"
  <2>1. UnreadBy(w)' = UnreadBy(w)
    BY <1>2, <1>3, <1>4, <1>5, <1>12
  <2>2. Fifo!Starve(w)
    BY <1>1, <1>3, <1>7, <1>8, <1>9, <1>12, <2>1 DEF Fifo!Starve
  <2> QED
    BY <2>2, ReadingIsAllowed DEF MayBeRead
<1> QED
  BY <1>10, <1>11, <1>12

LEMMA VirtualReadIsAllowed ==
  ASSUME WalkersInv, NEW w \in Walkers, PopVirtual(w) \/ PeekVirtual(w), caller' = w
  PROVE  Fifo!Next
<1>1. /\ w \in Elements(virtualWalkers) /\ rolled' = rolled /\ UNCHANGED <<data, nextId>>
      /\ \/ outcome' = [error |-> "StreamEmpty", reading |-> NULL]
         \/ outcome' = [error |-> "none", reading |-> wk[w].reading]
  BY DEF PopVirtual, PeekVirtual, Raised, Returned
<1>2. wk[w].sel \in Selectors /\ ~Buffered(wk[w].sel)
      /\ (wk[w].reading = NULL \/ wk[w].reading.stream \in wk[w].sel)
  BY <1>1, VirtualFacts
<1>3. /\ [x \in Walkers |-> wk[x].sel]' = [x \in Walkers |-> wk[x].sel]
      /\ [x \in Walkers |-> UnreadBy(x)]' = [x \in Walkers |-> UnreadBy(x)]
      /\ [x \in Walkers |-> wk[x].sel][w] = wk[w].sel
  BY PopVirtualKeeps, PeekVirtualKeeps, NobodyIsDisturbed
<1>4. \/ Fifo!Called(w, "StreamEmpty", NULL)
      \/ Fifo!Called(w, "none", outcome'.reading) /\ outcome'.reading = wk[w].reading
  <2>1. CASE outcome' = [error |-> "StreamEmpty", reading |-> NULL]
    BY <1>1, <2>1, ReadsAreCalls
  <2>2. CASE outcome' = [error |-> "none", reading |-> wk[w].reading]
    <3>1. outcome'.reading = wk[w].reading
      BY <2>2
    <3>2. Fifo!Called(w, "none", wk[w].reading)
      BY <1>1, <2>2, ReadsAreCalls
    <3> QED
      BY <3>1, <3>2
  <2> QED
    BY <1>1, <2>1, <2>2
<1>5. Fifo!ReadOther(w)
  BY <1>1, <1>2, <1>3, <1>4 DEF Fifo!ReadOther
<1> QED
  BY <1>5, ReadingIsAllowed DEF MayBeRead

LEMMA FifoStep == WalkersInv /\ BrokenAreQueued /\ [Next]_vars => [Fifo!Next]_(Fifo!vars)
<1> SUFFICES ASSUME WalkersInv, BrokenAreQueued, [Next]_vars PROVE [Fifo!Next]_(Fifo!vars)
  OBVIOUS
<1>1. CASE Push /\ caller' = NULL
  <2>1. ASSUME NEW s \in BufferedStreams,
               PushStored(s) \/ PushRefused(s) \/ PushRollover(s) \/ PushOutOfSync(s)
        PROVE  Fifo!Next
    BY <1>1, <2>1, ArrivalIsAllowed, RefusalIsAllowed, FailureIsAllowed
  <2>2. ASSUME NEW s \in VirtualStreams, NEW x \in Values, PushVirtual(s, x) PROVE Fifo!Next
    <3>1. outcome' = Returned(NULL) /\ rolled' = rolled /\ UNCHANGED <<data, nextId>>
      BY <2>2 DEF PushVirtual
    <3>2. Undisturbed({})
      BY <2>2, PushVirtualKeeps
    <3> QED
      BY <1>1, <3>1, <3>2, QuietIsAllowed
  <2> QED
    BY <1>1, <2>1, <2>2 DEF Push
<1>2. CASE Configure /\ caller' = NULL
  <2>1. ASSUME NEW a \in Areas, NEW enabled \in BOOLEAN, SetRollover(a, enabled) PROVE Fifo!Next
    <3>1. outcome' = Returned(NULL) /\ rolled' = rolled /\ UNCHANGED <<data, nextId>>
      BY <2>1 DEF SetRollover
    <3>2. Undisturbed({})
      BY <2>1, SetRolloverKeeps
    <3> QED
      BY <1>2, <3>1, <3>2, QuietIsAllowed
  <2> QED
    BY <1>2, <2>1, ClearIsAllowed, DestroyAllIsAllowed DEF Configure
<1>3. ASSUME NEW w \in Walkers, Walk(w), caller' = w PROVE Fifo!Next
  <2>1. CASE \E sel \in Selectors, skip \in BOOLEAN : CreateWalker(w, sel, skip)
    BY <1>3, <2>1, CreateIsAllowed
  <2>2. CASE DestroyWalker(w) \/ SkipAll(w)
    BY <1>3, <2>2, DestroyIsAllowed, SkipIsAllowed
  <2>3. CASE PopBuffered(w) \/ PeekBuffered(w) \/ PopVirtual(w) \/ PeekVirtual(w)
    BY <1>3, <2>3, PopIsAllowed, PeekIsAllowed, VirtualReadIsAllowed
  <2>4. CASE \E k \in 0 .. Max({MaxStorage, MaxStreaming}) : SeekOffset(w, k)
    BY <1>3, <2>4, SeekIsAllowed, SeekPlacesAreNat
  <2>5. CASE \E id \in 1 .. MaxId : SeekId(w, id)
    BY <1>3, <2>5, SeekIsAllowed
  <2> QED
    BY <1>3, <2>1, <2>2, <2>3, <2>4, <2>5 DEF Walk
<1>4. CASE UNCHANGED vars
  <2>1. UNCHANGED <<data, queueWalkers, wk, rolled, outcome, caller, nextId>>
    BY <1>4 DEF vars
  <2>2. Undisturbed({})
    BY <2>1, UndisturbedIf
  <2>3. InLog' = InLog /\ nextId' - 1 = nextId - 1
    BY <2>1 DEF InLog, Elements
  <2>4. UNCHANGED Fifo!vars
    BY <2>1, <2>2, <2>3, NobodyIsDisturbed DEF Fifo!vars
  <2> QED
    BY <2>4
<1> QED
  BY <1>1, <1>2, <1>3, <1>4 DEF Next

\* Whatever the streams, selectors, walkers and sizes: each reading that is stored arrives at
\* every walker that matches it, once; pop() and peek() of a walker return these, oldest
\* first, and raise StreamEmptyError only when none is left; nothing but its own calls,
\* clear() and destroy_all_walkers() changes what a walker has yet to return, until
\* a rollover breaks it.
THEOREM WalkersImplementFifos == Spec => WalkersAreFifos
<1>1. Spec => []WalkersInv
  BY WalkersAlways
<1>2. Spec => [](WalkersInv /\ BrokenAreQueued)
  BY <1>1, BrokenInit, BrokenStep, PTL DEF Spec
<1> QED
  BY <1>2, FifoInit, FifoStep, PTL DEF Spec, WalkersAreFifos, Fifo!Spec

-----------------------------------------------------------------------------
(* Saving and restoring the log. *)

\* What a walker does not use stays as it was made: a buffered one holds no reading, a
\* virtual one no offset and, unless it is a counter, no count.
Plain(v) ==
    /\ Buffered(v.sel) => v.reading = NULL
    /\ ~Buffered(v.sel) => v.offset = 0
    /\ ~Buffered(v.sel) /\ ~(v.sel \subseteq CounterStreams) => v.count = 0
WalkersPlain == \A w \in Walkers : Plain(wk[w])

\* What VirtualReadingIsLast says of one walker.
Holds(v, last) ==
    \A s \in v.sel : \/ v.reading = NULL \/ v.reading = last[s]
                     \/ s \notin UnbufferedStreams /\ last[s] = NULL

LEMMA HoldsIsLast ==
  VirtualReadingIsLast <=> \A w \in Elements(virtualWalkers) \ passed : Holds(wk[w], lastValues)
  BY DEF VirtualReadingIsLast, Holds

\* What a call does that pushes nothing to a virtual stream: a buffered walker keeps its
\* reading, a virtual one its offset, and any walker may be emptied.
QuietOn(x) ==
    \/ wk'[x] = wk[x]
    \/ x \in Elements(queueWalkers) /\ wk'[x].sel = wk[x].sel /\ wk'[x].reading = wk[x].reading
    \/ /\ x \in Elements(virtualWalkers)
       /\ wk'[x].sel = wk[x].sel /\ wk'[x].offset = wk[x].offset /\ wk'[x].reading \in {wk[x].reading, NULL}
       /\ wk'[x].count \in {wk[x].count, 0} \/ wk[x].sel \subseteq CounterStreams
    \/ Plain(wk'[x]) /\ wk'[x].reading = NULL
Quiet ==
    /\ lastValues' = lastValues
    /\ \A x \in Elements(virtualWalkers') : x \in Elements(virtualWalkers) \/ wk'[x].reading = NULL
    /\ \A x \in Walkers : QuietOn(x)

PassedStays == passed' = {w \in passed : wk'[w] # Unused}

\* A walker on a virtual stream that was not put back, and is no longer known as such, is new.
LEMMA StillPassed ==
  ASSUME WalkersInv', PassedStays, NEW x \in Elements(virtualWalkers') \ passed'
  PROVE  x \in Walkers /\ x \notin passed
<1>1. virtualWalkers' \in Seq(Walkers)
  BY DEF WalkersInv, LogTypes
<1>2. x \in Walkers
  BY <1>1 DEF Elements
<1>3. wk'[x].sel \in Selectors
  <2>1. x \in Elements(virtualWalkers)'
    BY DEF Elements
  <2> QED
    BY <2>1 DEF WalkersInv, WalkersPlaced
<1>4. wk'[x] # Unused
  BY <1>3, SelectorsAssumption DEF Unused
<1> QED
  BY <1>2, <1>4 DEF PassedStays

LEMMA QuietKeeps ==
  ASSUME WalkersInv, WalkersInv', WalkersPlain, VirtualReadingIsLast, Quiet, PassedStays
  PROVE  WalkersPlain' /\ VirtualReadingIsLast'
<1>1. ASSUME NEW x \in Walkers PROVE Plain(wk'[x])
  <2>1. QuietOn(x) /\ Plain(wk[x])
    BY DEF Quiet, WalkersPlain
  <2>2. x \in Elements(queueWalkers) => Buffered(wk[x].sel)
    BY DEF WalkersInv, WalkersPlaced
  <2>3. x \in Elements(virtualWalkers) => ~Buffered(wk[x].sel)
    BY DEF WalkersInv, WalkersPlaced
  <2> QED
    BY <2>1, <2>2, <2>3 DEF QuietOn, Plain
<1>2. ASSUME NEW x \in Elements(virtualWalkers') \ passed' PROVE Holds(wk'[x], lastValues')
  <2>1. x \in Walkers /\ x \notin passed
    BY StillPassed
  <2>2. lastValues' = lastValues /\ QuietOn(x) /\ (x \in Elements(virtualWalkers) \/ wk'[x].reading = NULL)
    BY <2>1 DEF Quiet
  <2>3. CASE wk'[x].reading = NULL
    BY <2>3 DEF Holds
  <2>4. CASE x \in Elements(virtualWalkers) /\ wk'[x].reading # NULL
    <3>1. Holds(wk[x], lastValues) /\ x \notin Elements(queueWalkers)
      BY <2>1, <2>4, HoldsIsLast, VirtualFacts
    <3> QED
      BY <2>2, <2>4, <3>1 DEF Holds, QuietOn
  <2> QED
    BY <2>2, <2>3, <2>4
<1>3. VirtualReadingIsLast'
  <2>1. Elements(virtualWalkers)' = Elements(virtualWalkers')
    BY DEF Elements
  <2> QED
    BY <1>2, <2>1 DEF VirtualReadingIsLast, Holds
<1> QED
  BY <1>1, <1>3 DEF WalkersPlain, Plain, Buffered

\* Setting the place of a walker leaves its selector and its reading alone.
LEMMA PlaceOnly ==
  ASSUME NEW v \in Walker, NEW k, NEW n
  PROVE  /\ [v EXCEPT !.offset = k].sel = v.sel /\ [v EXCEPT !.offset = k].reading = v.reading
         /\ [v EXCEPT !.offset = k, !.count = n].sel = v.sel
         /\ [v EXCEPT !.offset = k, !.count = n].reading = v.reading
<1>1. v = [sel |-> v.sel, offset |-> v.offset, count |-> v.count, reading |-> v.reading]
  BY DEF Walker
<1>2. [v EXCEPT !.offset = k] = [sel |-> v.sel, offset |-> k, count |-> v.count, reading |-> v.reading]
  BY <1>1
<1>3. [[sel |-> v.sel, offset |-> k, count |-> v.count, reading |-> v.reading] EXCEPT !.count = n]
         = [sel |-> v.sel, offset |-> k, count |-> n, reading |-> v.reading]
  OBVIOUS
<1>4. [v EXCEPT !.offset = k, !.count = n] = [[v EXCEPT !.offset = k] EXCEPT !.count = n]
  OBVIOUS
<1>5. [v EXCEPT !.offset = k, !.count = n] = [sel |-> v.sel, offset |-> k, count |-> n, reading |-> v.reading]
  BY <1>2, <1>3, <1>4, Zenon
<1>6. /\ [sel |-> v.sel, offset |-> k, count |-> n, reading |-> v.reading].sel = v.sel
      /\ [sel |-> v.sel, offset |-> k, count |-> n, reading |-> v.reading].reading = v.reading
      /\ [sel |-> v.sel, offset |-> k, count |-> v.count, reading |-> v.reading].sel = v.sel
      /\ [sel |-> v.sel, offset |-> k, count |-> v.count, reading |-> v.reading].reading = v.reading
  OBVIOUS
<1> QED
  BY <1>2, <1>5, <1>6, Zenon

\* A call that concerns buffered walkers only.
OnQueueOnly ==
    /\ UNCHANGED <<virtualWalkers, lastValues>>
    /\ \A x \in Walkers : \/ wk'[x] = wk[x]
                          \/ /\ x \in Elements(queueWalkers)
                             /\ wk'[x].sel = wk[x].sel /\ wk'[x].reading = wk[x].reading

LEMMA QueueIsQuiet == OnQueueOnly => Quiet
  BY DEF OnQueueOnly, Quiet, QuietOn, Elements

LEMMA PushStoredIsQuiet ==
  ASSUME WalkersInv, NEW s \in BufferedStreams, PushStored(s) \/ PushRefused(s)
  PROVE  Quiet
<1>0. wk \in [Walkers -> Walker]
  BY DEF WalkersInv, LogTypes
<1>1. CASE PushRefused(s)
  BY <1>1, QueueIsQuiet DEF PushRefused, OnQueueOnly
<1>2. CASE PushStored(s)
  <2>1. wk' = NotifyAdded(wk, s) /\ UNCHANGED <<virtualWalkers, lastValues>>
    BY <1>2 DEF PushStored, Store, NewReading
  <2>2. ASSUME NEW x \in Walkers
        PROVE  /\ wk'[x].sel = wk[x].sel /\ wk'[x].reading = wk[x].reading
               /\ wk'[x] = wk[x] \/ x \in Elements(queueWalkers)
    BY <1>0, <2>1, NotifiedWalker DEF OnArea
  <2> QED
    BY <2>1, <2>2, QueueIsQuiet DEF OnQueueOnly
<1> QED
  BY <1>1, <1>2

LEMMA PushRolloverIsQuiet ==
  ASSUME WalkersInv, NEW s \in BufferedStreams, PushRollover(s) \/ PushOutOfSync(s)
  PROVE  Quiet
<1> DEFINE a == AreaOf(s)
           old == SubSeq(data[a], 1, EraseSize)
<1>0. wk \in [Walkers -> Walker] /\ OnArea(a) \subseteq Elements(queueWalkers)
  BY DEF WalkersInv, LogTypes, OnArea
<1>1. Full(a) /\ UNCHANGED <<virtualWalkers, lastValues>> /\ a \in Areas
  BY AreaOfStream DEF PushRollover, PushOutOfSync
<1>2. old \in Seq(Stored) /\ Len(old) = EraseSize /\ EraseSize \in Nat /\ EraseSize \in 0 .. Len(old)
  <2>1. old \in Seq(Stored) /\ Len(old) = EraseSize /\ EraseSize \in Nat
    BY <1>1, OldReadings
  <2> QED
    BY <2>1
<1>3. CASE PushRollover(s)
  <2> DEFINE f == [w \in Walkers |-> IF w \in OnArea(a) THEN Roll(wk[w], old, EraseSize) ELSE wk[w]]
  <2>1. wk' = NotifyAdded(f, s)
    BY <1>3 DEF PushRollover, Store, NewReading
  <2> HIDE DEF old
  <2>2. ASSUME NEW x \in Walkers PROVE wk'[x] = wk[x] \/ (x \in OnArea(a) /\ wk'[x].sel = wk[x].sel /\ wk'[x].reading = wk[x].reading)
    <3>1. wk'[x] = IF x \in OnArea(a) /\ s \in f[x].sel THEN [f[x] EXCEPT !.count = @ + 1] ELSE f[x]
      BY <2>1 DEF NotifyAdded
    <3>2. CASE x \notin OnArea(a)
      BY <3>1, <3>2
    <3>3. CASE x \in OnArea(a)
      <4> DEFINE n == wk[x].count - CountMatching(wk[x].sel, SubSeq(old, 1, EraseSize), 0)
                 u == [sel |-> wk[x].sel, offset |-> wk[x].offset - EraseSize, count |-> n, reading |-> wk[x].reading]
      <4>1. f[x] = u
        BY <1>0, <1>2, <3>3, RolledWalker
      <4> HIDE DEF n, f
      <4>2. u.sel = wk[x].sel /\ u.reading = wk[x].reading
        OBVIOUS
      <4>3. [u EXCEPT !.count = @ + 1].sel = wk[x].sel /\ [u EXCEPT !.count = @ + 1].reading = wk[x].reading
        OBVIOUS
      <4> HIDE DEF u
      <4> QED
        BY <3>1, <3>3, <4>1, <4>2, <4>3
    <3> QED
      BY <3>2, <3>3
  <2> QED
    BY <1>0, <1>1, <2>2, QueueIsQuiet DEF OnQueueOnly
<1>4. CASE PushOutOfSync(s)
  <2> DEFINE c == FirstCall(OutOfSyncCalls(a, old))
  <2>1. wk' = [w \in Walkers |->
                  IF w \notin OnArea(a) THEN wk[w]
                  ELSE IF w = queueWalkers[c[2]] THEN [Roll(wk[w], old, RolledTo(c, w)) EXCEPT !.count = 0]
                  ELSE Roll(wk[w], old, RolledTo(c, w))]
    BY <1>4 DEF PushOutOfSync
  <2> HIDE DEF old, c
  <2>2. ASSUME NEW x \in Walkers PROVE wk'[x] = wk[x] \/ (x \in OnArea(a) /\ wk'[x].sel = wk[x].sel /\ wk'[x].reading = wk[x].reading)
    <3>1. CASE x \notin OnArea(a)
      BY <2>1, <3>1
    <3>2. CASE x \in OnArea(a)
      <4> DEFINE k == RolledTo(c, x)
                 u == Roll(wk[x], old, k)
      <4>1. wk'[x] = u \/ wk'[x] = [u EXCEPT !.count = 0]
        BY <2>1, <3>2
      <4>2. u.sel = wk[x].sel /\ u.reading = wk[x].reading
        BY <1>0, PlaceOnly DEF Roll
      <4>3. [u EXCEPT !.count = 0].sel = wk[x].sel /\ [u EXCEPT !.count = 0].reading = wk[x].reading
        BY <1>0, PlaceOnly DEF Roll, Walker
      <4> QED
        BY <3>2, <4>1, <4>2, <4>3
    <3> QED
      BY <3>1, <3>2
  <2> QED
    BY <1>0, <1>1, <2>2, QueueIsQuiet DEF OnQueueOnly
<1> QED
  BY <1>3, <1>4

LEMMA ReadIsQuiet ==
  ASSUME WalkersInv, NEW w \in Walkers, PopBuffered(w) \/ PeekBuffered(w) \/ PeekVirtual(w)
  PROVE  Quiet
<1>0. wk \in [Walkers -> Walker]
  BY DEF WalkersInv, LogTypes
<1>1. CASE PeekBuffered(w) \/ PeekVirtual(w)
  BY <1>1, QueueIsQuiet DEF PeekBuffered, PeekVirtual, OnQueueOnly
<1>2. CASE PopBuffered(w)
  <2>1. w \in Elements(queueWalkers)
    BY <1>2 DEF PopBuffered
  <2>2. PICK k \in Int, n \in Nat : Moves(w, [wk[w] EXCEPT !.offset = k, !.count = n])
    BY <1>2, <2>1, PopBufferedMoves
  <2> DEFINE u == [wk[w] EXCEPT !.offset = k, !.count = n]
  <2>3. u.sel = wk[w].sel /\ u.reading = wk[w].reading
    BY <1>0, PlaceOnly
  <2> HIDE DEF u
  <2>4. wk' = [wk EXCEPT ![w] = u] /\ UNCHANGED <<virtualWalkers, lastValues>>
    BY <2>2 DEF Moves, u
  <2> QED
    BY <1>0, <2>1, <2>3, <2>4, QueueIsQuiet DEF OnQueueOnly
<1> QED
  BY <1>1, <1>2

LEMMA SeekIsQuiet ==
  ASSUME WalkersInv, NEW w \in Walkers, (\E k : SeekOffset(w, k)) \/ (\E id : SeekId(w, id))
  PROVE  Quiet
<1>0. wk \in [Walkers -> Walker]
  BY DEF WalkersInv, LogTypes
<1>1. /\ w \in Elements(queueWalkers) /\ UNCHANGED <<virtualWalkers, lastValues>>
      /\ wk' = wk \/ \E k : SeekTo(w, k)
  BY Zenon DEF SeekOffset, SeekId
<1>2. CASE wk' = wk
  BY <1>1, <1>2, QueueIsQuiet DEF OnQueueOnly
<1>3. ASSUME NEW k, SeekTo(w, k) PROVE Quiet
  <2> DEFINE n == CountMatching(wk[w].sel, data[AreaOfSelector(wk[w].sel)], k)
             u == [wk[w] EXCEPT !.offset = k, !.count = n]
  <2>1. wk' = [wk EXCEPT ![w] = u]
    BY <1>3 DEF SeekTo, Sought
  <2> HIDE DEF n
  <2>2. u.sel = wk[w].sel /\ u.reading = wk[w].reading
    BY <1>0, PlaceOnly
  <2> HIDE DEF u
  <2> QED
    BY <1>0, <1>1, <2>1, <2>2, QueueIsQuiet DEF OnQueueOnly
<1> QED
  BY <1>1, <1>2, <1>3

LEMMA PopVirtualIsQuiet ==
  ASSUME WalkersInv, NEW w \in Walkers, PopVirtual(w)
  PROVE  Quiet
<1> DEFINE v == wk[w]
<1>1. /\ w \in Elements(virtualWalkers) /\ UNCHANGED <<virtualWalkers, lastValues>>
      /\ \/ wk' = wk
         \/ v.sel \subseteq CounterStreams /\ wk' = [wk EXCEPT ![w].count = @ - 1]
         \/ wk' = [wk EXCEPT ![w].reading = NULL]
  BY DEF PopVirtual
<1>2. wk \in [Walkers -> Walker] /\ v \in Walker
      /\ v = [sel |-> v.sel, offset |-> v.offset, count |-> v.count, reading |-> v.reading]
  <2>1. wk \in [Walkers -> Walker]
    BY DEF WalkersInv, LogTypes
  <2> QED
    BY <2>1 DEF Walker
<1>3. QuietOn(w) /\ \A x \in Walkers : x # w => wk'[x] = wk[x]
  <2>1. CASE wk' = wk
    BY <2>1 DEF QuietOn
  <2>2. CASE v.sel \subseteq CounterStreams /\ wk' = [wk EXCEPT ![w].count = @ - 1]
    <3> DEFINE u == [sel |-> v.sel, offset |-> v.offset, count |-> v.count - 1, reading |-> v.reading]
    <3>1. [v EXCEPT !.count = @ - 1] = u
      BY <1>2
    <3>2. wk' = [wk EXCEPT ![w] = u]
      BY <1>2, <2>2, <3>1
    <3>3. u.sel = v.sel /\ u.offset = v.offset /\ u.reading = v.reading
      OBVIOUS
    <3> HIDE DEF u
    <3> QED
      BY <1>1, <1>2, <2>2, <3>2, <3>3 DEF QuietOn
  <2>3. CASE wk' = [wk EXCEPT ![w].reading = NULL]
    <3> DEFINE u == [sel |-> v.sel, offset |-> v.offset, count |-> v.count, reading |-> NULL]
    <3>1. [v EXCEPT !.reading = NULL] = u
      BY <1>2
    <3>2. wk' = [wk EXCEPT ![w] = u]
      BY <1>2, <2>3, <3>1
    <3>3. u.sel = v.sel /\ u.offset = v.offset /\ u.reading = NULL /\ u.count = v.count
      OBVIOUS
    <3> HIDE DEF u
    <3> QED
      BY <1>1, <1>2, <2>3, <3>2, <3>3 DEF QuietOn
  <2> QED
    BY <1>1, <2>1, <2>2, <2>3
<1> QED
  BY <1>1, <1>3 DEF Quiet, QuietOn, Elements

\* Skipping everything, with e the buffered readings at that moment.
LEMMA SkippedOn ==
  ASSUME WalkersInv, WalkersPlain, NEW w \in Attached, NEW e \in [Areas -> Seq(Stored)], wk'[w] = Skipped(wk[w], e)
  PROVE  QuietOn(w) /\ (wk[w].sel \subseteq UnbufferedStreams => wk'[w].reading = NULL)
<1> DEFINE v == wk[w]
<1>1. /\ v \in Walker /\ w \in Walkers
      /\ v = [sel |-> v.sel, offset |-> v.offset, count |-> v.count, reading |-> v.reading]
  <2>1. v \in Walker /\ w \in Walkers
    BY QueueFacts, VirtualFacts DEF Attached
  <2> QED
    BY <2>1 DEF Walker
<1>2. CASE w \in Elements(queueWalkers)
  <2>1. Buffered(v.sel) /\ v.sel \in Selectors /\ v.reading = NULL
    BY <1>2, QueueFacts, <1>1 DEF WalkersPlain, Plain
  <2>a. ~(v.sel \subseteq CounterStreams) /\ ~(v.sel \subseteq UnbufferedStreams)
    BY <2>1, SelectorsAssumption, StreamsAssumption DEF Buffered, VirtualStreams
  <2>2. wk'[w] = [v EXCEPT !.offset = Len(e[AreaOfSelector(v.sel)]), !.count = 0]
    BY <2>1, <2>a, Zenon DEF Skipped
  <2>3. wk'[w].sel = v.sel /\ wk'[w].reading = v.reading
    BY <1>1, <2>2, PlaceOnly
  <2> QED
    BY <1>2, <2>1, <2>3 DEF QuietOn
<1>3. CASE w \in Elements(virtualWalkers)
  <2>1. ~Buffered(v.sel) /\ v.sel \in Selectors
    BY <1>3, VirtualFacts
  <2>2. PICK s \in VirtualStreams : v.sel = {s}
    BY <2>1, SelectorsAssumption DEF Buffered, BufferedStreams
  <2>3. CASE v.sel \subseteq CounterStreams
    <3>1. wk'[w] = [v EXCEPT !.count = 0] /\ ~(v.sel \subseteq UnbufferedStreams)
      BY <2>1, <2>2, <2>3, StreamsAssumption DEF Skipped
    <3>2. [v EXCEPT !.count = 0] = [sel |-> v.sel, offset |-> v.offset, count |-> 0, reading |-> v.reading]
      BY <1>1
    <3>3. wk'[w].sel = v.sel /\ wk'[w].offset = v.offset /\ wk'[w].reading = v.reading
      BY <3>1, <3>2
    <3> QED
      BY <1>3, <2>3, <3>1, <3>3 DEF QuietOn
  <2>4. CASE v.sel \subseteq UnbufferedStreams
    <3>1. wk'[w] = [v EXCEPT !.reading = NULL]
      BY <2>1, <2>2, <2>4, StreamsAssumption DEF Skipped
    <3>2. [v EXCEPT !.reading = NULL] = [sel |-> v.sel, offset |-> v.offset, count |-> v.count, reading |-> NULL]
      BY <1>1
    <3>3. wk'[w].sel = v.sel /\ wk'[w].offset = v.offset /\ wk'[w].count = v.count /\ wk'[w].reading = NULL
      BY <3>1, <3>2
    <3> QED
      BY <1>3, <3>3 DEF QuietOn
  <2>5. CASE ~(v.sel \subseteq CounterStreams) /\ ~(v.sel \subseteq UnbufferedStreams)
    <3>1. wk'[w] = v
      BY <2>1, <2>5 DEF Skipped
    <3> QED
      BY <2>5, <3>1 DEF QuietOn
  <2> QED
    BY <2>3, <2>4, <2>5
<1> QED
  BY <1>2, <1>3 DEF Attached

LEMMA SkipAllIsQuiet ==
  ASSUME WalkersInv, WalkersPlain, NEW w \in Walkers, SkipAll(w)
  PROVE  Quiet
<1>1. /\ w \in Attached /\ wk' = [wk EXCEPT ![w] = Skipped(wk[w], data)]
      /\ UNCHANGED <<virtualWalkers, lastValues>>
  BY DEF SkipAll
<1>2. wk \in [Walkers -> Walker] /\ data \in [Areas -> Seq(Stored)]
  BY DEF WalkersInv, LogTypes
<1>3. wk'[w] = Skipped(wk[w], data) /\ \A x \in Walkers : x # w => wk'[x] = wk[x]
  BY <1>1, <1>2
<1>4. QuietOn(w)
  BY <1>1, <1>2, <1>3, SkippedOn
<1> QED
  BY <1>1, <1>3, <1>4 DEF Quiet, QuietOn, Elements

LEMMA UnusedIsPlain == Plain(Unused) /\ Unused.reading = NULL
  BY DEF Plain, Unused, Buffered

LEMMA CreateIsQuiet ==
  ASSUME WalkersInv, NEW w \in Walkers, NEW sel \in Selectors, NEW skip \in BOOLEAN,
         CreateWalker(w, sel, skip)
  PROVE  Quiet
<1> DEFINE u == NewWalker(sel, skip)
<1>1. /\ wk' = [wk EXCEPT ![w] = u] /\ lastValues' = lastValues
      /\ virtualWalkers' = virtualWalkers \/ virtualWalkers' = Append(virtualWalkers, w)
  BY DEF CreateWalker
<1>2. wk \in [Walkers -> Walker] /\ virtualWalkers \in Seq(Walkers)
  BY DEF WalkersInv, LogTypes
<1>3. Plain(u) /\ u.reading = NULL
  <2>1. /\ u.sel = sel /\ u.reading = NULL
        /\ ~Buffered(sel) => u.offset = 0 /\ u.count = 0
    BY DEF NewWalker
  <2> HIDE DEF u
  <2> QED
    BY <2>1 DEF Plain
<1> HIDE DEF u
<1>4. wk'[w] = u /\ \A x \in Walkers : x # w => wk'[x] = wk[x]
  BY <1>1, <1>2
<1>5. \A x \in Elements(virtualWalkers') : x \in Elements(virtualWalkers) \/ x = w
  <2>1. CASE virtualWalkers' = virtualWalkers
    BY <2>1
  <2>2. CASE virtualWalkers' = Append(virtualWalkers, w)
    <3> SUFFICES ASSUME NEW i \in DOMAIN virtualWalkers'
                 PROVE  virtualWalkers'[i] \in Elements(virtualWalkers) \/ virtualWalkers'[i] = w
      BY DEF Elements
    <3>1. i \in 1 .. Len(virtualWalkers) + 1 /\ Len(virtualWalkers) \in Nat /\ DOMAIN virtualWalkers = 1 .. Len(virtualWalkers)
      BY <1>2, <2>2
    <3>2. CASE i = Len(virtualWalkers) + 1
      BY <1>2, <2>2, <3>2
    <3>3. CASE i \in DOMAIN virtualWalkers
      BY <1>2, <2>2, <3>3 DEF Elements
    <3> QED
      BY <3>1, <3>2, <3>3
  <2> QED
    BY <1>1, <2>1, <2>2
<1> QED
  BY <1>1, <1>3, <1>4, <1>5 DEF Quiet, QuietOn

LEMMA DestroyIsQuiet ==
  ASSUME WalkersInv, (\E w \in Walkers : DestroyWalker(w)) \/ DestroyAllWalkers
  PROVE  Quiet
<1>0. wk \in [Walkers -> Walker] /\ virtualWalkers \in Seq(Walkers)
      /\ \A i, j \in DOMAIN virtualWalkers : virtualWalkers[i] = virtualWalkers[j] => i = j
  BY DEF WalkersInv, LogTypes, WalkersPlaced
<1>1. ASSUME NEW w \in Walkers, DestroyWalker(w) PROVE Quiet
  <2>1. wk' = [wk EXCEPT ![w] = Unused] /\ lastValues' = lastValues /\ virtualWalkers' = Without(virtualWalkers, w)
    BY <1>1 DEF DestroyWalker
  <2>2. Elements(virtualWalkers') \subseteq Elements(virtualWalkers)
    BY <1>0, <2>1, WithoutIs
  <2>3. \A x \in Walkers : wk'[x] = wk[x] \/ wk'[x] = Unused
    BY <1>0, <2>1
  <2> QED
    BY <2>1, <2>2, <2>3, UnusedIsPlain DEF Quiet, QuietOn
<1>2. CASE DestroyAllWalkers
  <2>1. wk' = [w \in Walkers |-> Unused] /\ lastValues' = lastValues /\ virtualWalkers' = <<>>
    BY <1>2 DEF DestroyAllWalkers
  <2> QED
    BY <2>1, UnusedIsPlain DEF Quiet, QuietOn, Elements
<1> QED
  BY <1>1, <1>2

\* A call of the log keeps its virtual walkers what they are.
LEMMA CallsKeepPlain ==
  ASSUME WalkersInv, WalkersInv', WalkersPlain, VirtualReadingIsLast, PassedStays, Quiet \/ Push \/ Clear
  PROVE  WalkersPlain' /\ VirtualReadingIsLast'
<1>0. /\ wk \in [Walkers -> Walker] /\ lastValues \in [VirtualStreams -> Reading \cup {NULL}]
      /\ virtualWalkers \in Seq(Walkers)
  BY DEF WalkersInv, LogTypes
<1>1. CASE Quiet
  BY <1>1, QuietKeeps
<1>2. ASSUME NEW s \in BufferedStreams, PushStored(s) \/ PushRefused(s) \/ PushRollover(s) \/ PushOutOfSync(s)
      PROVE  WalkersPlain' /\ VirtualReadingIsLast'
  BY <1>2, PushStoredIsQuiet, PushRolloverIsQuiet, QuietKeeps
<1>3. ASSUME NEW s \in VirtualStreams, NEW n \in Values, PushVirtual(s, n)
      PROVE  WalkersPlain' /\ VirtualReadingIsLast'
  <2> DEFINE r == [stream |-> s, tag |-> n]
             Hears(w) == w \in Elements(virtualWalkers) /\ s \in wk[w].sel
             Bump == IF s \in CounterStreams THEN 1 ELSE 0
  <2>1. /\ wk' = [w \in Walkers |->
                    IF Hears(w) THEN [wk[w] EXCEPT !.reading = r, !.count = @ + Bump] ELSE wk[w]]
        /\ lastValues' = [lastValues EXCEPT ![s] = r]
        /\ virtualWalkers' = virtualWalkers
    BY <1>3 DEF PushVirtual
  <2> HIDE DEF r
  <2>2. lastValues'[s] = r /\ \A t \in VirtualStreams : t # s => lastValues'[t] = lastValues[t]
    BY <1>0, <2>1
  <2>3. ASSUME NEW w \in Walkers, Hears(w)
        PROVE  /\ wk'[w].sel = wk[w].sel /\ wk'[w].offset = wk[w].offset /\ wk'[w].reading = r
               /\ s \notin CounterStreams => wk'[w].count = wk[w].count
               /\ wk[w].sel = {s} /\ ~Buffered(wk[w].sel)
    <3> DEFINE v == wk[w]
               m == v.count + Bump
               u == [sel |-> v.sel, offset |-> v.offset, count |-> m, reading |-> r]
    <3>1. v = [sel |-> v.sel, offset |-> v.offset, count |-> v.count, reading |-> v.reading]
          /\ v.count \in Nat /\ v.sel \in Selectors /\ ~Buffered(v.sel)
      BY <1>0, <2>3, VirtualFacts DEF Walker
    <3>2. [v EXCEPT !.reading = r, !.count = m] = u
      <4>1. [v EXCEPT !.reading = r] = [sel |-> v.sel, offset |-> v.offset, count |-> v.count, reading |-> r]
        BY <3>1
      <4> HIDE DEF m, v
      <4>2. [[sel |-> v.sel, offset |-> v.offset, count |-> v.count, reading |-> r] EXCEPT !.count = m] = u
        OBVIOUS
      <4>3. [v EXCEPT !.reading = r, !.count = m] = [[v EXCEPT !.reading = r] EXCEPT !.count = m]
        OBVIOUS
      <4> QED
        BY <4>1, <4>2, <4>3, Zenon
    <3>3. wk'[w] = u
      <4>1. wk'[w] = [v EXCEPT !.reading = r, !.count = m]
        BY <2>1, <2>3
      <4> QED
        BY <3>2, <4>1, Zenon
    <3>4. v.sel = {s}
      BY <2>3, <3>1, SelectorsAssumption DEF Buffered, BufferedStreams
    <3>5. s \notin CounterStreams => m = v.count
      BY <3>1
    <3> HIDE DEF m
    <3> QED
      BY <3>1, <3>3, <3>4, <3>5
  <2>4. \A w \in Walkers : ~Hears(w) => wk'[w] = wk[w]
    BY <2>1
  <2>5. ASSUME NEW x \in Walkers PROVE Plain(wk'[x])
    BY <2>3, <2>4, SMT DEF WalkersPlain, Plain
  <2>6. ASSUME NEW x \in Elements(virtualWalkers') \ passed' PROVE Holds(wk'[x], lastValues')
    <3>1. x \in Walkers /\ x \notin passed /\ x \in Elements(virtualWalkers)
      BY <2>1, StillPassed
    <3>2. CASE s \in wk[x].sel
      BY <2>2, <2>3, <3>1, <3>2 DEF Holds
    <3>3. CASE s \notin wk[x].sel
      <4>1. wk'[x] = wk[x] /\ Holds(wk[x], lastValues)
        BY <2>4, <3>1, <3>3, HoldsIsLast
      <4>2. wk[x].sel \subseteq VirtualStreams
        BY <3>1, VirtualFacts, SelectorsAssumption DEF Buffered, BufferedStreams
      <4> QED
        BY <2>2, <3>3, <4>1, <4>2 DEF Holds
    <3> QED
      BY <3>2, <3>3
  <2>7. Elements(virtualWalkers)' = Elements(virtualWalkers')
    BY DEF Elements
  <2> QED
    BY <2>5, <2>6, <2>7 DEF WalkersPlain, VirtualReadingIsLast, Holds, Plain, Buffered
<1>4. CASE Clear
  <2> DEFINE e == [a \in Areas |-> <<>>]
  <2>1. /\ \A w \in Walkers : wk'[w] = IF w \in Attached THEN Skipped(wk[w], e) ELSE wk[w]
        /\ lastValues' = [s \in VirtualStreams |-> NULL]
        /\ virtualWalkers' = virtualWalkers
    BY <1>4 DEF Clear, Cleared
  <2>2. e \in [Areas -> Seq(Stored)]
    OBVIOUS
  <2> HIDE DEF e
  <2>3. ASSUME NEW w \in Walkers
        PROVE  /\ QuietOn(w)
               /\ w \in Attached /\ wk[w].sel \subseteq UnbufferedStreams => wk'[w].reading = NULL
    BY <2>1, <2>2, SkippedOn DEF QuietOn
  <2>4. ASSUME NEW x \in Walkers PROVE Plain(wk'[x])
    <3>1. QuietOn(x) /\ Plain(wk[x])
      BY <2>3 DEF WalkersPlain
    <3>2. x \in Elements(queueWalkers) => Buffered(wk[x].sel)
      BY DEF WalkersInv, WalkersPlaced
    <3>3. x \in Elements(virtualWalkers) => ~Buffered(wk[x].sel)
      BY DEF WalkersInv, WalkersPlaced
    <3> QED
      BY <3>1, <3>2, <3>3 DEF QuietOn, Plain
  <2>5. ASSUME NEW x \in Elements(virtualWalkers') \ passed' PROVE Holds(wk'[x], lastValues')
    <3>1. x \in Walkers /\ x \in Elements(virtualWalkers)
      BY <2>1, StillPassed
    <3>2. /\ wk[x].sel \in Selectors /\ ~Buffered(wk[x].sel) /\ x \in Attached /\ x \notin Elements(queueWalkers)
      BY <3>1, VirtualFacts
    <3>3. PICK s \in VirtualStreams : wk[x].sel = {s}
      BY <3>2, SelectorsAssumption DEF Buffered, BufferedStreams
    <3>4. lastValues'[s] = NULL
      BY <2>1
    <3>5. wk'[x].reading = NULL \/ wk'[x].sel = wk[x].sel
      BY <2>3, <3>1, <3>2 DEF QuietOn
    <3>6. s \in UnbufferedStreams => wk'[x].reading = NULL
      BY <2>3, <3>1, <3>2, <3>3
    <3> QED
      BY <3>3, <3>4, <3>5, <3>6 DEF Holds
  <2>7. Elements(virtualWalkers)' = Elements(virtualWalkers')
    BY DEF Elements
  <2> QED
    BY <2>4, <2>5, <2>7 DEF WalkersPlain, VirtualReadingIsLast, Holds, Plain, Buffered
<1> QED
  BY <1>1, <1>2, <1>3, <1>4 DEF Push

-----------------------------------------------------------------------------
(* The dump. *)

\* A walker as a dump finds it.
Kept(v) ==
    /\ v \in Walker /\ v.sel \in Selectors /\ Plain(v)
    /\ v.reading # NULL => v.reading.stream \in v.sel
    /\ ~Buffered(v.sel) => Holds(v, saved.lastValues)

\* The readings of a dump, of which none has an id that is still to be handed out.
SavedReadings(d, limit) ==
    /\ d \in [Areas -> Seq(Stored)]
    /\ \A a \in Areas : Len(d[a]) <= Capacity(a)
    /\ \A a \in Areas : \A i, j \in DOMAIN d[a] :
            /\ AreaOf(d[a][i].stream) = a
            /\ d[a][i].tag < limit
            /\ i < j => d[a][i].tag < d[a][j].tag
    /\ \A i \in DOMAIN d["storage"], j \in DOMAIN d["streaming"] : d["storage"][i].tag # d["streaming"][j].tag

\* A dump holds, for each selector that was walked, one of the walkers that were on it.
SavedInv ==
    /\ saved = NULL => passed = {}
    /\ saved # NULL =>
        /\ SavedReadings(saved.data, nextId)
        /\ saved.rollover \in [Areas -> BOOLEAN]
        /\ saved.lastValues \in [VirtualStreams -> Reading \cup {NULL}]
        /\ \A v \in DOMAIN past : Kept(past[v])
        /\ DOMAIN saved.walkers = {past[v].sel : v \in DOMAIN past}
        /\ \A v \in DOMAIN past : \E u \in DOMAIN past :
                past[u].sel = past[v].sel /\ saved.walkers[past[v].sel] = DumpWalker(past[u])

\* Inductive.
DumpInv == WalkersInv /\ WalkersPlain /\ VirtualReadingIsLast /\ SavedInv

LEMMA AreasAreSaved == WalkersInv => SavedReadings(data, nextId)
  BY DEF WalkersInv, AreasInv, BoundedAreas, UniqueIdsInOrder, SavedReadings

\* No operation of the log takes an id back.
LEMMA IdsGrow ==
  ASSUME WalkersInv, Operate
  PROVE  nextId' = nextId \/ nextId' = nextId + 1
<1>1. CASE Push
  BY <1>1 DEF Push, PushStored, PushRefused, PushRollover, PushOutOfSync, PushVirtual
<1>2. ASSUME NEW w \in Walkers, Walk(w) PROVE nextId' = nextId
  BY <1>2 DEF Walk, CreateWalker, DestroyWalker, PopBuffered, PeekBuffered, PopVirtual, PeekVirtual,
              SkipAll, SeekOffset, SeekId
<1>3. CASE (\E a, enabled : SetRollover(a, enabled)) \/ Clear \/ DestroyAllWalkers
  BY <1>3 DEF SetRollover, Clear, DestroyAllWalkers
<1> QED
  BY <1>1, <1>2, <1>3 DEF Operate

LEMMA OperateIsNext == Operate => Next
<1> SUFFICES ASSUME Operate PROVE Next
  OBVIOUS
<1>1. ASSUME NEW a \in {AreaOf(s) : s \in BufferedStreams}, NEW enabled \in BOOLEAN, SetRollover(a, enabled),
             caller' = NULL
      PROVE  Next
  BY <1>1, AreaOfStream DEF Next, Configure
<1> QED
  BY <1>1 DEF Operate, Next, Configure

LEMMA OperateKeepsSaved ==
  ASSUME DumpInv, Operate
  PROVE  SavedInv'
<1>1. UNCHANGED <<saved, past>> /\ passed' = {w \in passed : wk'[w] # Unused}
  BY DEF Operate
<1>2. nextId' = nextId \/ nextId' = nextId + 1
  BY IdsGrow DEF DumpInv
<1>3. nextId \in Nat
  BY SizesAssumption DEF DumpInv, WalkersInv, LogTypes
<1>4. CASE saved = NULL
  BY <1>1, <1>4 DEF SavedInv, DumpInv
<1>5. CASE saved # NULL
  <2>1. SavedReadings(saved.data, nextId')
    <3>1. SavedReadings(saved.data, nextId)
      BY <1>5 DEF DumpInv, SavedInv
    <3>2. ASSUME NEW a \in Areas, NEW i \in DOMAIN saved.data[a] PROVE saved.data[a][i].tag < nextId'
      <4>1. saved.data[a] \in Seq(Stored) /\ saved.data[a][i].tag < nextId
        BY <3>1 DEF SavedReadings
      <4>2. saved.data[a][i] \in Stored
        BY <4>1
      <4>3. saved.data[a][i].tag \in Int
        BY <4>2, SizesAssumption DEF Stored
      <4> QED
        BY <1>2, <1>3, <4>1, <4>3
    <3> QED
      BY <3>1, <3>2 DEF SavedReadings
  <2>2. SavedReadings(saved.data, nextId)'
    BY <1>1, <2>1 DEF SavedReadings
  <2>3. \A v : Kept(v) => Kept(v)'
    BY <1>1 DEF Kept, Holds
  <2>4. \A v : DumpWalker(v)' = DumpWalker(v)
    OBVIOUS
  <2> QED
    BY <1>1, <1>5, <2>2, <2>3, <2>4 DEF DumpInv, SavedInv
<1> QED
  BY <1>4, <1>5

LEMMA OperateKeeps == ASSUME DumpInv, Operate PROVE DumpInv'
<1>1. WalkersInv'
  BY OperateIsNext, WalkersStep DEF DumpInv
<1>2. PassedStays
  BY DEF Operate, PassedStays
<1>3. Quiet \/ Push \/ Clear
  <2>1. ASSUME NEW a, NEW enabled, SetRollover(a, enabled) PROVE Quiet
    BY <2>1, QueueIsQuiet DEF SetRollover, OnQueueOnly
  <2>2. ASSUME NEW w \in Walkers, Walk(w) PROVE Quiet
    <3>1. CASE \E sel \in Selectors, skip \in BOOLEAN : CreateWalker(w, sel, skip)
      BY <3>1, CreateIsQuiet DEF DumpInv
    <3>2. CASE DestroyWalker(w)
      BY <3>2, DestroyIsQuiet DEF DumpInv
    <3>3. CASE PopBuffered(w) \/ PeekBuffered(w) \/ PeekVirtual(w)
      BY <3>3, ReadIsQuiet DEF DumpInv
    <3>4. CASE PopVirtual(w)
      BY <3>4, PopVirtualIsQuiet DEF DumpInv
    <3>5. CASE SkipAll(w)
      BY <3>5, SkipAllIsQuiet DEF DumpInv
    <3>6. CASE (\E k : SeekOffset(w, k)) \/ (\E id : SeekId(w, id))
      BY <3>6, SeekIsQuiet DEF DumpInv
    <3> QED
      BY <2>2, <3>1, <3>2, <3>3, <3>4, <3>5, <3>6 DEF Walk
  <2>3. CASE DestroyAllWalkers
    BY <2>3, DestroyIsQuiet DEF DumpInv
  <2> QED
    BY <2>1, <2>2, <2>3 DEF Operate
<1>4. WalkersPlain' /\ VirtualReadingIsLast'
  BY <1>1, <1>2, <1>3, CallsKeepPlain DEF DumpInv
<1> QED
  BY <1>1, <1>4, OperateKeepsSaved DEF DumpInv

LEMMA ElementsOfBoth ==
  ASSUME NEW S, NEW p \in Seq(S), NEW q \in Seq(S)
  PROVE  p \o q \in Seq(S) /\ Elements(p \o q) = Elements(p) \cup Elements(q)
<1> DEFINE r == p \o q
<1>1. /\ r \in Seq(S) /\ DOMAIN r = 1 .. Len(p) + Len(q) /\ Len(p) \in Nat /\ Len(q) \in Nat
      /\ DOMAIN p = 1 .. Len(p) /\ DOMAIN q = 1 .. Len(q)
      /\ \A i \in 1 .. Len(p) + Len(q) : r[i] = IF i <= Len(p) THEN p[i] ELSE q[i - Len(p)]
  OBVIOUS
<1> HIDE DEF r
<1>2. ASSUME NEW i \in DOMAIN r PROVE r[i] \in Elements(p) \cup Elements(q)
  <2>1. CASE i <= Len(p)
    BY <1>1, <2>1 DEF Elements
  <2>2. CASE ~(i <= Len(p))
    <3>1. i - Len(p) \in DOMAIN q /\ r[i] = q[i - Len(p)]
      BY <1>1, <2>2
    <3> QED
      BY <3>1 DEF Elements
  <2> QED
    BY <2>1, <2>2
<1>3. ASSUME NEW i \in DOMAIN p PROVE p[i] \in Elements(r)
  <2>1. i \in DOMAIN r /\ r[i] = p[i]
    BY <1>1
  <2> QED
    BY <2>1 DEF Elements
<1>4. ASSUME NEW i \in DOMAIN q PROVE q[i] \in Elements(r)
  <2>1. i + Len(p) \in DOMAIN r /\ r[i + Len(p)] = q[i]
    BY <1>1
  <2> QED
    BY <2>1 DEF Elements
<1>5. Elements(r) = Elements(p) \cup Elements(q)
  BY <1>2, <1>3, <1>4 DEF Elements
<1> QED
  BY <1>1, <1>5 DEF r

\* The walker that a dump keeps for a selector is one on that selector.
LEMMA LastOnIs ==
  ASSUME WalkersInv, NEW sel \in SelectorsOf(Attached)
  PROVE  LastOn(sel) \in Attached /\ wk[LastOn(sel)].sel = sel
<1> DEFINE q == AllWalkers
           T == {n \in 1 .. Len(q) : wk[q[n]].sel = sel}
<1>1. q \in Seq(Walkers) /\ Elements(q) = Attached
  <2>1. queueWalkers \in Seq(Walkers) /\ virtualWalkers \in Seq(Walkers)
    BY DEF WalkersInv, LogTypes
  <2> QED
    BY <2>1, ElementsOfBoth DEF AllWalkers, Attached
<1> HIDE DEF q
<1>2. DOMAIN q = 1 .. Len(q) /\ Len(q) \in Nat /\ Len(q) + 1 \in Nat
  BY <1>1
<1>3. T # {}
  BY <1>1, <1>2 DEF SelectorsOf, Elements
<1>4. T \in SUBSET (0 .. (Len(q) + 1) - 1)
  BY <1>2
<1>5. PICK x \in T : \A y \in T : y <= x
  <2> HIDE DEF T
  <2> QED
    BY <1>2, <1>3, <1>4, GreatestNat
<1>6. \A y \in T : x >= y
  BY <1>2, <1>5
<1>7. Max(T) \in T
  <2> HIDE DEF T
  <2> QED
    BY <1>5, <1>6 DEF Max
<1>8. LastOn(sel) = q[Max(T)]
  BY DEF LastOn, q
<1>9. \A m \in T : q[m] \in Attached /\ wk[q[m]].sel = sel
  BY <1>1, <1>2 DEF Elements
<1> QED
  BY <1>7, <1>8, <1>9

LEMMA DumpKeeps == ASSUME DumpInv, Dump PROVE DumpInv'
<1>1. /\ saved = NULL
      /\ saved' = [data |-> data, rollover |-> rollover, lastValues |-> lastValues,
                   walkers |-> [sel \in SelectorsOf(Attached) |-> DumpWalker(wk[LastOn(sel)])]]
      /\ past' = [w \in Attached |-> wk[w]]
      /\ outcome' = Returned(NULL)
      /\ UNCHANGED <<data, rollover, queueWalkers, virtualWalkers, wk, lastValues, nextId, rolled, passed>>
  BY DEF Dump
<1>2. WalkersInv /\ WalkersPlain /\ VirtualReadingIsLast /\ passed = {}
  BY <1>1 DEF DumpInv, SavedInv
<1>3. WalkersInv'
  <2>1. outcome' \in [error : Errors, reading : Reading \cup {NULL}]
    BY <1>1 DEF Returned, Errors
  <2> QED
    BY <1>1, <1>2, <2>1, LooksKeep
<1>4. WalkersPlain' /\ VirtualReadingIsLast'
  BY <1>1, <1>2 DEF WalkersPlain, Plain, VirtualReadingIsLast, Elements, Buffered
<1>5. /\ saved'.data = data /\ saved'.rollover = rollover /\ saved'.lastValues = lastValues
      /\ DOMAIN saved'.walkers = SelectorsOf(Attached)
      /\ \A sel \in SelectorsOf(Attached) : saved'.walkers[sel] = DumpWalker(wk[LastOn(sel)])
      /\ DOMAIN past' = Attached /\ \A w \in Attached : past'[w] = wk[w]
  BY <1>1
<1>6. /\ rollover \in [Areas -> BOOLEAN] /\ lastValues \in [VirtualStreams -> Reading \cup {NULL}]
      /\ SavedReadings(data, nextId)
  BY <1>2, AreasAreSaved DEF WalkersInv, LogTypes
<1>7. ASSUME NEW w \in Attached
      PROVE  /\ w \in Walkers /\ wk[w] \in Walker /\ wk[w].sel \in Selectors /\ Plain(wk[w])
             /\ wk[w].reading # NULL => wk[w].reading.stream \in wk[w].sel
             /\ ~Buffered(wk[w].sel) => Holds(wk[w], lastValues)
  <2>1. w \in Walkers /\ wk[w] \in Walker /\ wk[w].sel \in Selectors
    BY <1>2, QueueFacts, VirtualFacts DEF Attached
  <2>2. ~Buffered(wk[w].sel) => w \in Elements(virtualWalkers)
    BY <1>2, QueueFacts DEF Attached
  <2> QED
    BY <1>2, <2>1, <2>2, HoldsIsLast DEF WalkersPlain, WalkersInv, WalkersPlaced
<1>8. \A w \in Attached : Kept(past[w])'
  <2> SUFFICES ASSUME NEW w \in Attached PROVE Kept(past[w])'
    OBVIOUS
  <2>1. past'[w] = wk[w] /\ saved'.lastValues = lastValues
    BY <1>5
  <2> QED
    BY <1>7, <2>1 DEF Kept, Holds
<1>9. \A w \in Attached : /\ LastOn(wk[w].sel) \in Attached /\ wk[LastOn(wk[w].sel)].sel = wk[w].sel
                          /\ wk[w].sel \in SelectorsOf(Attached)
  BY <1>2, LastOnIs DEF SelectorsOf
<1>10. SavedInv'
  <2>1. SavedReadings(saved.data, nextId)'
    BY <1>1, <1>5, <1>6 DEF SavedReadings
  <2>2. \A v : DumpWalker(v)' = DumpWalker(v)
    OBVIOUS
  <2>3. DOMAIN saved'.walkers = {past'[v].sel : v \in DOMAIN past'}
    BY <1>5 DEF SelectorsOf
  <2>4. \A v \in DOMAIN past' : \E u \in DOMAIN past' :
            past'[u].sel = past'[v].sel /\ saved'.walkers[past'[v].sel] = DumpWalker(past'[u])
    BY <1>5, <1>9
  <2> QED
    BY <1>1, <1>2, <1>5, <1>6, <1>8, <2>1, <2>2, <2>3, <2>4 DEF SavedInv
<1> QED
  BY <1>3, <1>4, <1>10 DEF DumpInv

-----------------------------------------------------------------------------
(* The restore. *)

\* What a walker that is found in the dump is given: a walker that was on its selector.
LEMMA GivenWalker ==
  ASSUME DumpInv, saved # NULL, NEW w \in Walkers, Known(w)
  PROVE  \E u \in DOMAIN past :
            /\ Kept(past[u]) /\ past[u].sel = wk[w].sel /\ saved.walkers[wk[w].sel] = DumpWalker(past[u])
<1>1. PICK v \in DOMAIN past : past[v].sel = wk[w].sel
  BY DEF DumpInv, SavedInv, Known
<1> QED
  BY <1>1 DEF DumpInv, SavedInv

LEMMA GivenFields ==
  ASSUME DumpInv, NEW p, Kept(p)
  PROVE  /\ DumpWalker(p).offset \in Int /\ DumpWalker(p).count \in Nat
         /\ DumpWalker(p).reading = p.reading /\ p.reading \in Reading \cup {NULL}
         /\ Buffered(p.sel) => DumpWalker(p).offset = p.offset
         /\ ~Buffered(p.sel) => DumpWalker(p).count = p.count /\ p.offset = 0
<1>1. p \in Walker /\ p.count \in Nat /\ p.offset \in Int /\ p.reading \in Reading \cup {NULL}
  BY DEF Kept, Walker
<1>2. /\ ~Buffered(p.sel) => p.offset = 0
      /\ ~Buffered(p.sel) /\ ~(p.sel \subseteq CounterStreams) => p.count = 0
  BY DEF Kept, Plain
<1> QED
  BY <1>1, <1>2 DEF DumpWalker

RestoreErrors == {"none", "Argument", "Unresolved", "IndexError"}

LEMMA RestoreErrorIs ==
  ASSUME NEW w, NEW permissive
  PROVE  /\ RestoreError(w, permissive) \in RestoreErrors
         /\ RestoreError(w, permissive) = "IndexError" => Known(w) /\ Buffered(wk[w].sel)
         /\ Known(w) /\ RestoreError(w, permissive) = "none" /\ Buffered(wk[w].sel) =>
               LET k == saved.walkers[wk[w].sel].offset
                   n == Len(saved.data[AreaOfSelector(wk[w].sel)])
               IN  ~(k >= n) /\ ~(k < -n)
<1> DEFINE sel == wk[w].sel
           n == Len(saved.data[AreaOfSelector(sel)])
           k == saved.walkers[sel].offset
<1> HIDE DEF n, k
<1>1. RestoreError(w, permissive) =
        CASE ~Known(w) -> (IF permissive THEN "none" ELSE "Argument")
          [] Known(w) /\ Buffered(sel) /\ k >= n -> "Unresolved"
          [] Known(w) /\ Buffered(sel) /\ k < -n -> "IndexError"
          [] OTHER -> "none"
  BY DEF RestoreError, n, k
<1>2. CASE ~Known(w)
  BY <1>1, <1>2 DEF RestoreErrors
<1>3. CASE Known(w) /\ ~Buffered(sel)
  BY <1>1, <1>3 DEF RestoreErrors
<1>4. CASE Known(w) /\ Buffered(sel)
  BY <1>1, <1>4 DEF RestoreErrors, n, k
<1> QED
  BY <1>2, <1>3, <1>4

\* A walker that is put back.
LEMMA RestoredWalker ==
  ASSUME DumpInv, saved # NULL, NEW w \in Attached, Known(w), NEW permissive,
         RestoreError(w, permissive) = "none"
  PROVE  LET v == RestoreWalker(w)  d == saved.data[AreaOfSelector(v.sel)] IN
         /\ v \in Walker /\ v.sel = wk[w].sel /\ Plain(v)
         /\ v.reading # NULL => v.reading.stream \in v.sel
         /\ ~Buffered(v.sel) => Holds(v, saved.lastValues)
         /\ Buffered(v.sel) /\ v.offset >= 0 => v.offset \in 0 .. Len(d) /\ v.count = CountMatching(v.sel, d, v.offset)
<1> DEFINE x == wk[w]
           s == saved.walkers[x.sel]
           d == saved.data[AreaOfSelector(x.sel)]
<1>1. /\ w \in Walkers /\ x \in Walker /\ x.sel \in Selectors
      /\ x = [sel |-> x.sel, offset |-> x.offset, count |-> x.count, reading |-> x.reading]
      /\ Plain(x)
  <2>1. w \in Walkers /\ x \in Walker /\ x.sel \in Selectors
    BY QueueFacts, VirtualFacts DEF Attached, DumpInv
  <2> QED
    BY <2>1 DEF Walker, DumpInv, WalkersPlain
<1>2. PICK u \in DOMAIN past : Kept(past[u]) /\ past[u].sel = x.sel /\ s = DumpWalker(past[u])
  BY <1>1, GivenWalker
<1>3. /\ s.offset \in Int /\ s.count \in Nat /\ s.reading = past[u].reading /\ s.reading \in Reading \cup {NULL}
      /\ ~Buffered(x.sel) => s.count = past[u].count
  BY <1>2, GivenFields
<1>4. d \in Seq(Stored) /\ Len(d) \in Nat
  <2>1. AreaOfSelector(x.sel) \in Areas /\ saved.data \in [Areas -> Seq(Stored)]
    BY SelectorHasArea DEF DumpInv, SavedInv, SavedReadings
  <2>2. d \in Seq(Stored)
    BY <2>1
  <2> QED
    BY <2>2
<1>5. CASE Buffered(x.sel)
  <2> DEFINE n == CountMatching(x.sel, d, s.offset)
             v == [sel |-> x.sel, offset |-> s.offset, count |-> n, reading |-> x.reading]
  <2>1. n \in Nat
    <3> HIDE DEF d, s
    <3> QED
      BY <1>3, <1>4, CountIsNat
  <2>2. RestoreWalker(w) = [x EXCEPT !.offset = s.offset, !.count = n]
    BY <1>5 DEF RestoreWalker, Sought
  <2>3. [x EXCEPT !.offset = s.offset, !.count = n] = v /\ [x EXCEPT !.offset = s.offset, !.count = n] \in Walker
    <3>1. NULL \in Reading \cup {NULL}
      OBVIOUS
    <3> HIDE DEF n, x, s
    <3> QED
      BY <1>1, <1>3, <2>1, <3>1, WalkerFields
  <2>4. s.offset >= 0 => s.offset \in 0 .. Len(d)
    BY <1>1, <1>3, <1>4, <1>5, RestoreErrorIs
  <2>5. x.reading = NULL
    BY <1>1, <1>5 DEF Plain
  <2>6. /\ v.sel = x.sel /\ v.offset = s.offset /\ v.count = n /\ v.reading = NULL
    BY <2>5
  <2> HIDE DEF v, n
  <2>7. v \in Walker /\ RestoreWalker(w) = v
    BY <2>2, <2>3
  <2> QED
    BY <1>5, <2>4, <2>6, <2>7 DEF Plain, n
<1>6. CASE ~Buffered(x.sel)
  <2> DEFINE v == [sel |-> x.sel, offset |-> x.offset, count |-> s.count, reading |-> s.reading]
  <2>1. RestoreWalker(w) = [x EXCEPT !.reading = s.reading, !.count = s.count]
    BY <1>6 DEF RestoreWalker
  <2>2. [x EXCEPT !.reading = s.reading, !.count = s.count] = v /\ [x EXCEPT !.reading = s.reading, !.count = s.count] \in Walker
    <3> DEFINE r == s.reading
               m == s.count
    <3>1. x \in Walker /\ m \in Nat /\ r \in Reading \cup {NULL}
      BY <1>1, <1>3
    <3> HIDE DEF x, s, r, m
    <3>2. /\ [x EXCEPT !.reading = r, !.count = m] \in Walker
          /\ [x EXCEPT !.reading = r, !.count = m] = [sel |-> x.sel, offset |-> x.offset, count |-> m, reading |-> r]
      BY <3>1, HeardWalker
    <3> QED
      BY <3>2 DEF r, m
  <2>3. v.sel = x.sel /\ v.offset = x.offset /\ v.count = s.count /\ v.reading = s.reading
    OBVIOUS
  <2> HIDE DEF v
  <2>4. v \in Walker /\ RestoreWalker(w) = v
    BY <2>1, <2>2
  <2>5. Plain(v)
    BY <1>1, <1>2, <1>3, <1>6, <2>3 DEF Plain, Kept
  <2>6. Holds(v, saved.lastValues) /\ (v.reading # NULL => v.reading.stream \in v.sel)
    BY <1>2, <1>3, <1>6, <2>3 DEF Kept, Holds
  <2> QED
    BY <1>6, <2>3, <2>4, <2>5, <2>6
<1> QED
  BY <1>5, <1>6

\* A walker that cannot be put back.
LEMMA FailedWalker ==
  ASSUME DumpInv, saved # NULL, NEW w \in Attached, NEW permissive
  PROVE  LET v == FailWalker(w, RestoreError(w, permissive)) IN
         /\ v \in Walker /\ v.sel = wk[w].sel /\ v.reading = wk[w].reading /\ Plain(v)
<1> DEFINE x == wk[w]
<1>1. w \in Walkers /\ x \in Walker /\ Plain(x)
  <2>1. w \in Walkers /\ x \in Walker
    BY QueueFacts, VirtualFacts DEF Attached, DumpInv
  <2> QED
    BY <2>1 DEF DumpInv, WalkersPlain
<1>2. CASE RestoreError(w, permissive) # "IndexError"
  BY <1>1, <1>2 DEF FailWalker
<1>3. CASE RestoreError(w, permissive) = "IndexError"
  <2> DEFINE k == saved.walkers[x.sel].offset
             v == [sel |-> x.sel, offset |-> k, count |-> x.count, reading |-> x.reading]
  <2>1. Known(w) /\ Buffered(x.sel)
    BY <1>3, RestoreErrorIs
  <2>2. k \in Int
    BY <1>1, <2>1, GivenWalker, GivenFields
  <2>3. FailWalker(w, RestoreError(w, permissive)) = [x EXCEPT !.offset = k]
    BY <1>3 DEF FailWalker
  <2> HIDE DEF k
  <2>4. [x EXCEPT !.offset = k] = v /\ [x EXCEPT !.offset = k] \in Walker
    <3>1. 0 \in Nat /\ NULL \in Reading \cup {NULL}
      OBVIOUS
    <3> HIDE DEF x
    <3> QED
      BY <1>1, <2>2, <3>1, WalkerFields
  <2>5. v.sel = x.sel /\ v.reading = x.reading
    OBVIOUS
  <2> HIDE DEF v
  <2>6. v \in Walker /\ FailWalker(w, RestoreError(w, permissive)) = v
    BY <2>3, <2>4
  <2> QED
    BY <1>1, <2>1, <2>5, <2>6 DEF Plain
<1> QED
  BY <1>2, <1>3

\* What a restore does: to the walkers it puts back and to the one that stops it.
RestoresAs(permissive, Back, Failed) ==
    /\ Back \subseteq Attached /\ Failed \subseteq Attached
    /\ \A w \in Back : Known(w) /\ RestoreError(w, permissive) = "none"
    /\ \A w \in Failed : RestoreError(w, permissive) # "none"
    /\ \A w \in Walkers : wk'[w] = IF w \in Back THEN RestoreWalker(w)
                                  ELSE IF w \in Failed THEN FailWalker(w, RestoreError(w, permissive))
                                  ELSE wk[w]
    /\ DOMAIN wk' = Walkers /\ wk' = [w \in Walkers |-> wk'[w]]
    /\ data' = saved.data /\ rollover' = saved.rollover /\ lastValues' = saved.lastValues
    /\ rolled' = {w \in Back : wk'[w].offset < 0} \cup (Elements(queueWalkers) \ Back)
    /\ passed' = Elements(virtualWalkers) \ Back
    /\ \/ outcome' = Returned(NULL) /\ \A w \in Attached : Known(w) => w \in Back
       \/ \E w \in Attached : RestoreError(w, permissive) # "none"
                              /\ outcome' = Raised(RestoreError(w, permissive))
    /\ UNCHANGED <<queueWalkers, virtualWalkers, nextId, saved, past>>

LEMMA RestoreIs ==
  ASSUME WalkersInv, NEW permissive, Restore(permissive)
  PROVE  \E Back, Failed : RestoresAs(permissive, Back, Failed)
<1> DEFINE order == RestoreOrder
           Fails == {n \in 1 .. Len(order) : RestoreError(order[n], permissive) # "none"}
           first == IF Fails = {} THEN Len(order) + 1 ELSE Min(Fails)
           Done == {order[n] : n \in 1 .. first - 1}
           Back == {w \in Done : Known(w)}
           Failed == {order[n] : n \in Fails \cap {first}}
<1>1. order \in Seq(Walkers) /\ Elements(order) = Attached
  <2>1. queueWalkers \in Seq(Walkers) /\ virtualWalkers \in Seq(Walkers)
    BY DEF WalkersInv, LogTypes
  <2> QED
    BY <2>1, ElementsOfBoth DEF RestoreOrder, Attached
<1>2. /\ data' = saved.data /\ rollover' = saved.rollover /\ lastValues' = saved.lastValues
      /\ wk' = [w \in Walkers |-> CASE w \in Back -> RestoreWalker(w)
                                    [] w \in Failed -> FailWalker(w, RestoreError(w, permissive))
                                    [] OTHER -> wk[w]]
      /\ outcome' = IF Fails = {} THEN Returned(NULL) ELSE Raised(RestoreError(order[first], permissive))
      /\ rolled' = {w \in Back : wk'[w].offset < 0} \cup (Elements(queueWalkers) \ Back)
      /\ passed' = Elements(virtualWalkers) \ Back
      /\ UNCHANGED <<queueWalkers, virtualWalkers, nextId, saved, past>>
  BY DEF Restore
<1> HIDE DEF order
<1>3. DOMAIN order = 1 .. Len(order) /\ Len(order) \in Nat
  BY <1>1
<1>4. \A n \in 1 .. Len(order) : order[n] \in Attached
  BY <1>1, <1>3 DEF Elements
<1>5. \A w \in Attached : \E n \in 1 .. Len(order) : order[n] = w
  BY <1>1, <1>3 DEF Elements
<1>6. /\ Fails # {} => first \in Fails /\ \A n \in Fails : first <= n
      /\ Fails = {} => first = Len(order) + 1
      /\ first \in 1 .. Len(order) + 1
  <2>1. CASE Fails = {}
    BY <1>3, <2>1
  <2>2. CASE Fails # {}
    <3>1. Fails \in SUBSET Int /\ 1 \in Int /\ \A n \in Fails : 1 <= n
      BY <1>3
    <3> HIDE DEF Fails
    <3>2. Min(Fails) \in Fails /\ \A n \in Fails : Min(Fails) <= n
      BY <2>2, <3>1, LeastInt
    <3>3. first \in Fails /\ \A n \in Fails : first <= n
      BY <2>2, <3>2
    <3>4. first \in 1 .. Len(order) + 1
      BY <1>3, <3>3 DEF Fails
    <3> QED
      BY <2>2, <3>3, <3>4
  <2> QED
    BY <2>1, <2>2
<1> HIDE DEF first
<1>7. ASSUME NEW n \in 1 .. first - 1
      PROVE  order[n] \in Attached /\ RestoreError(order[n], permissive) = "none"
  <2>1. n \in 1 .. Len(order)
    BY <1>3, <1>6
  <2>2. n \notin Fails
    <3> HIDE DEF Fails
    <3> QED
      BY <1>3, <1>6
  <2> QED
    BY <1>4, <2>1, <2>2
<1>8. /\ Back \subseteq Attached /\ \A w \in Back : Known(w) /\ RestoreError(w, permissive) = "none"
  BY <1>7
<1>9. Failed \subseteq Attached /\ \A w \in Failed : RestoreError(w, permissive) # "none"
  BY <1>4
<1>10. \/ outcome' = Returned(NULL) /\ \A w \in Attached : Known(w) => w \in Back
       \/ \E w \in Attached : RestoreError(w, permissive) # "none"
                              /\ outcome' = Raised(RestoreError(w, permissive))
  <2>1. CASE Fails = {}
    <3>1. outcome' = Returned(NULL) /\ first - 1 = Len(order)
      BY <1>2, <1>3, <1>6, <2>1
    <3>2. Done = Attached
      BY <1>4, <1>5, <3>1
    <3> HIDE DEF Done
    <3> QED
      BY <3>1, <3>2
  <2>2. CASE Fails # {}
    <3>1. first \in 1 .. Len(order) /\ RestoreError(order[first], permissive) # "none"
      BY <1>6, <2>2
    <3> QED
      BY <1>2, <1>4, <2>2, <3>1
  <2> QED
    BY <2>1, <2>2
<1> HIDE DEF Back, Failed
<1>11. ASSUME NEW w \in Walkers
       PROVE  wk'[w] = IF w \in Back THEN RestoreWalker(w)
                       ELSE IF w \in Failed THEN FailWalker(w, RestoreError(w, permissive))
                       ELSE wk[w]
  <2>1. ~(w \in Back /\ w \in Failed)
    BY <1>8, <1>9
  <2> QED
    BY <1>2, <2>1
<1>12. DOMAIN wk' = Walkers /\ wk' = [w \in Walkers |-> wk'[w]]
  BY <1>2
<1> QED
  BY <1>2, <1>8, <1>9, <1>10, <1>11, <1>12 DEF RestoresAs

LEMMA RestoreKeeps ==
  ASSUME DumpInv, NEW permissive, Restore(permissive)
  PROVE  DumpInv'
<1>0. saved # NULL /\ WalkersInv
  BY DEF Restore, DumpInv
<1>1. PICK Back, Failed : RestoresAs(permissive, Back, Failed)
  BY <1>0, RestoreIs
<1>2. /\ UNCHANGED <<queueWalkers, virtualWalkers, nextId, saved, past>>
      /\ data' = saved.data /\ rollover' = saved.rollover /\ lastValues' = saved.lastValues
      /\ SavedReadings(saved.data, nextId) /\ saved.rollover \in [Areas -> BOOLEAN]
      /\ saved.lastValues \in [VirtualStreams -> Reading \cup {NULL}]
  BY <1>0, <1>1 DEF RestoresAs, DumpInv, SavedInv
<1>3. ASSUME NEW w \in Back
      PROVE  LET v == wk'[w]  d == data'[AreaOfSelector(v.sel)] IN
             /\ v \in Walker /\ v.sel = wk[w].sel /\ Plain(v)
             /\ v.reading # NULL => v.reading.stream \in v.sel
             /\ ~Buffered(v.sel) => Holds(v, lastValues')
             /\ Buffered(v.sel) /\ v.offset >= 0 => v.offset \in 0 .. Len(d) /\ v.count = CountMatching(v.sel, d, v.offset)
  <2>1. w \in Attached /\ Known(w) /\ RestoreError(w, permissive) = "none"
    BY <1>1 DEF RestoresAs
  <2>2. w \in Walkers
    BY <1>0, <2>1, QueueFacts, VirtualFacts DEF Attached
  <2>3. wk'[w] = RestoreWalker(w)
    BY <1>1, <2>2 DEF RestoresAs
  <2> QED
    BY <1>0, <1>2, <2>1, <2>3, RestoredWalker
<1>4. ASSUME NEW w \in Walkers, w \notin Back
      PROVE  wk'[w] \in Walker /\ wk'[w].sel = wk[w].sel /\ wk'[w].reading = wk[w].reading /\ Plain(wk'[w])
             /\ (w \notin Attached => wk'[w] = wk[w])
  <2>1. CASE w \in Failed
    BY <1>0, <1>1, <1>4, <2>1, FailedWalker DEF RestoresAs
  <2>2. CASE w \notin Failed
    BY <1>1, <1>4, <2>2 DEF RestoresAs, DumpInv, WalkersPlain, WalkersInv, LogTypes
  <2> QED
    BY <2>1, <2>2
<1>5. Back \subseteq Attached /\ Attached \subseteq Walkers
  BY <1>0, <1>1, QueueFacts, VirtualFacts DEF RestoresAs, Attached
<1>6. SameWalkers
  <2>1. wk' \in [Walkers -> Walker]
    BY <1>1, <1>3, <1>4 DEF RestoresAs
  <2>2. ASSUME NEW w \in Walkers
        PROVE  /\ wk'[w].sel = wk[w].sel
               /\ w \notin Attached => wk'[w] = wk[w]
               /\ wk'[w].reading # NULL => wk'[w].reading.stream \in wk'[w].sel
    <3>1. wk[w].reading # NULL => wk[w].reading.stream \in wk[w].sel
      BY <1>0 DEF WalkersInv, WalkersPlaced
    <3> QED
      BY <1>3, <1>4, <1>5, <3>1
  <2> QED
    BY <1>2, <2>1, <2>2 DEF SameWalkers
<1>7. WalkersPlaced'
  BY <1>0, <1>6, PlacedStays
<1>8. outcome' \in [error : Errors, reading : Reading \cup {NULL}]
  <2>1. CASE outcome' = Returned(NULL)
    BY <2>1 DEF Returned, Errors
  <2>2. ASSUME NEW w, outcome' = Raised(RestoreError(w, permissive))
        PROVE  outcome' \in [error : Errors, reading : Reading \cup {NULL}]
    BY <2>2, RestoreErrorIs DEF Raised, Errors, RestoreErrors
  <2> QED
    BY <1>1, <2>1, <2>2 DEF RestoresAs
<1>9. LogTypes' /\ data' \in [Areas -> Seq(Stored)]
  <2>1. data' \in [Areas -> Seq(Stored)]
    BY <1>2 DEF SavedReadings
  <2>2. data' \in [Areas -> Seq(Reading)]
    <3>1. Seq(Stored) \subseteq Seq(Reading)
      BY StoredIsReading
    <3> QED
      BY <2>1, <3>1
  <2>3. rolled' \subseteq Walkers
    BY <1>1, <1>5 DEF RestoresAs, Attached
  <2>4. wk' \in [Walkers -> Walker]
    BY <1>6 DEF SameWalkers
  <2> QED
    BY <1>0, <1>2, <1>8, <2>1, <2>2, <2>3, <2>4 DEF WalkersInv, LogTypes
<1>10. AreasInv'
  <2>1. AreasType'
    <3>1. data' \in [Areas -> Seq(StoredReading)]
      <4>1. Seq(Stored) \subseteq Seq(StoredReading)
        BY StoredIsReading
      <4> QED
        BY <1>9, <4>1
    <3> QED
      BY <1>0, <1>2, <3>1 DEF AreasType, StoredReading, WalkersInv, AreasInv
  <2> QED
    BY <1>2, <2>1 DEF AreasInv, BoundedAreas, UniqueIdsInOrder, SavedReadings
<1>11. WalkersInSync'
  <2> SUFFICES ASSUME NEW w \in Elements(queueWalkers), w \notin rolled'
               PROVE  LET v == wk'[w]  d == data'[AreaOfSelector(v.sel)] IN
                      v.offset \in 0 .. Len(d) /\ v.count = CountMatching(v.sel, d, v.offset)
    <3>1. Elements(queueWalkers)' = Elements(queueWalkers)
      BY <1>2 DEF Elements
    <3> QED
      BY <3>1 DEF WalkersInSync, CountMatching, At, AreaOfSelector
  <2>1. w \in Back /\ ~(wk'[w].offset < 0)
    BY <1>1 DEF RestoresAs
  <2>2. wk'[w].offset >= 0
    BY <1>3, <2>1 DEF Walker
  <2>3. Buffered(wk[w].sel)
    BY <1>0, QueueFacts
  <2> QED
    BY <1>3, <2>1, <2>2, <2>3
<1>12. WalkersPlain'
  <2>1. \A w \in Walkers : Plain(wk'[w])
    BY <1>3, <1>4
  <2> QED
    BY <2>1 DEF WalkersPlain, Plain, Buffered
<1>13. VirtualReadingIsLast'
  <2>1. ASSUME NEW w \in Elements(virtualWalkers) \ passed' PROVE Holds(wk'[w], lastValues')
    <3>1. w \in Back
      BY <1>1 DEF RestoresAs
    <3>2. ~Buffered(wk[w].sel)
      BY <1>0, VirtualFacts
    <3> QED
      BY <1>3, <3>1, <3>2
  <2>2. Elements(virtualWalkers)' = Elements(virtualWalkers)
    BY <1>2 DEF Elements
  <2> QED
    BY <2>1, <2>2 DEF VirtualReadingIsLast, Holds
<1>14. SavedInv'
  <2>1. SavedReadings(saved.data, nextId)' /\ \A v : Kept(v) => Kept(v)'
    BY <1>2 DEF SavedReadings, Kept, Holds
  <2>2. \A v : DumpWalker(v)' = DumpWalker(v)
    OBVIOUS
  <2> QED
    BY <1>0, <1>2, <2>1, <2>2 DEF DumpInv, SavedInv
<1> QED
  BY <1>7, <1>9, <1>10, <1>11, <1>12, <1>13, <1>14 DEF DumpInv, WalkersInv

LEMMA DumpInit0 == DumpInit => DumpInv
<1> SUFFICES ASSUME DumpInit PROVE DumpInv
  OBVIOUS
<1>1. WalkersInv
  BY WalkersInit DEF DumpInit
<1>2. wk = [w \in Walkers |-> Unused] /\ virtualWalkers = <<>> /\ saved = NULL /\ passed = {}
  BY DEF DumpInit, Init
<1>3. WalkersPlain /\ VirtualReadingIsLast /\ SavedInv
  BY <1>2, UnusedIsPlain DEF WalkersPlain, VirtualReadingIsLast, Elements, SavedInv
<1> QED
  BY <1>1, <1>3 DEF DumpInv

LEMMA DumpStep == DumpInv /\ [DumpNext]_dumpVars => DumpInv'
<1> SUFFICES ASSUME DumpInv, [DumpNext]_dumpVars PROVE DumpInv'
  OBVIOUS
<1>1. CASE UNCHANGED dumpVars
  <2>1. WalkersInv'
    BY <1>1, WalkersStep DEF DumpInv, dumpVars
  <2>2. WalkersPlain' /\ VirtualReadingIsLast'
    BY <1>1 DEF DumpInv, dumpVars, vars, WalkersPlain, Plain, VirtualReadingIsLast, Elements, Buffered
  <2>3. UNCHANGED <<saved, past, passed, nextId>>
    BY <1>1 DEF dumpVars, vars
  <2>4. /\ \A d : SavedReadings(d, nextId)' <=> SavedReadings(d, nextId)
        /\ \A v : Kept(v) => Kept(v)'
        /\ \A v : DumpWalker(v)' = DumpWalker(v)
    BY <2>3 DEF SavedReadings, Kept, Holds
  <2>5. SavedReadings(saved.data, nextId)' <=> SavedReadings(saved.data, nextId)
    BY <2>3, <2>4 DEF SavedReadings
  <2> QED
    BY <2>1, <2>2, <2>3, <2>4, <2>5 DEF DumpInv, SavedInv
<1>2. CASE Operate
  BY <1>2, OperateKeeps
<1>3. CASE Dump
  BY <1>3, DumpKeeps
<1>4. CASE \E permissive \in BOOLEAN : Restore(permissive)
  BY <1>4, RestoreKeeps
<1> QED
  BY <1>1, <1>2, <1>3, <1>4 DEF DumpNext

LEMMA DumpAlways == DumpSpec => []DumpInv
  BY DumpInit0, DumpStep, PTL DEF DumpSpec

\* Walkers fit the log that is under them, whenever it is dumped and restored: restore() counts
\* again what a dump does not hold, and puts back readings that the streams last held.
THEOREM WalkersFitAfterRestore == DumpSpec => []RestoredWalkersFit
<1>1. DumpInv => RestoredWalkersFit
  BY DEF DumpInv, WalkersInv, RestoredWalkersFit
<1> QED
  BY <1>1, DumpAlways, PTL

\* A walker that was alone on its selector, and unbroken, is again what it was.
LEMMA AloneIsGivenBack ==
  ASSUME DumpInv, saved # NULL, NEW w \in DOMAIN past \cap Attached,
         wk[w].sel = past[w].sel, Alone(w), Whole(w)
  PROVE  Known(w) /\ RestoreWalker(w) = past[w]
<1> DEFINE x == wk[w]
           p == past[w]
           s == saved.walkers[x.sel]
<1>1. w \in Walkers /\ x \in Walker /\ Plain(x)
  <2>1. w \in Walkers /\ x \in Walker
    BY QueueFacts, VirtualFacts DEF Attached, DumpInv
  <2> QED
    BY <2>1 DEF DumpInv, WalkersPlain
<1>2. Known(w) /\ Kept(p)
  BY DEF DumpInv, SavedInv, Known
<1>3. s = DumpWalker(p)
  BY <1>1, <1>2, GivenWalker DEF Alone
<1>4. /\ s.reading = p.reading
      /\ Buffered(p.sel) => s.offset = p.offset
      /\ ~Buffered(p.sel) => s.count = p.count /\ p.offset = 0
  BY <1>2, <1>3, GivenFields
<1>5. /\ p = [sel |-> p.sel, offset |-> p.offset, count |-> p.count, reading |-> p.reading]
      /\ x = [sel |-> p.sel, offset |-> x.offset, count |-> x.count, reading |-> x.reading]
  BY <1>1, <1>2 DEF Kept, Walker
<1>6. CASE Buffered(p.sel)
  <2>1. RestoreWalker(w) = [x EXCEPT !.offset = p.offset, !.count = p.count]
    BY <1>4, <1>6 DEF RestoreWalker, Sought, Whole
  <2>2. x.reading = NULL /\ p.reading = NULL
    BY <1>1, <1>2, <1>6 DEF Plain, Kept
  <2>3. [x EXCEPT !.offset = p.offset] = [sel |-> p.sel, offset |-> p.offset, count |-> x.count, reading |-> x.reading]
    <3> HIDE DEF x, p
    <3> QED
      BY <1>5
  <2>4. [[sel |-> p.sel, offset |-> p.offset, count |-> x.count, reading |-> x.reading] EXCEPT !.count = p.count]
          = [sel |-> p.sel, offset |-> p.offset, count |-> p.count, reading |-> x.reading]
    OBVIOUS
  <2>5. [x EXCEPT !.offset = p.offset, !.count = p.count] = [[x EXCEPT !.offset = p.offset] EXCEPT !.count = p.count]
    OBVIOUS
  <2> HIDE DEF x, p
  <2>6. RestoreWalker(w) = [sel |-> p.sel, offset |-> p.offset, count |-> p.count, reading |-> p.reading]
    BY <2>1, <2>2, <2>3, <2>4, <2>5, Zenon
  <2>7. RestoreWalker(w) = p
    BY <1>5, <2>6, Zenon
  <2> QED
    BY <1>2, <2>7 DEF p
<1>7. CASE ~Buffered(p.sel)
  <2>1. RestoreWalker(w) = [x EXCEPT !.reading = p.reading, !.count = p.count]
    BY <1>4, <1>7 DEF RestoreWalker
  <2>2. x.offset = 0 /\ p.offset = 0
    BY <1>1, <1>2, <1>7 DEF Plain, Kept
  <2>3. [x EXCEPT !.reading = p.reading] = [sel |-> p.sel, offset |-> x.offset, count |-> x.count, reading |-> p.reading]
    <3> HIDE DEF x, p
    <3> QED
      BY <1>5
  <2>4. [[sel |-> p.sel, offset |-> x.offset, count |-> x.count, reading |-> p.reading] EXCEPT !.count = p.count]
          = [sel |-> p.sel, offset |-> x.offset, count |-> p.count, reading |-> p.reading]
    OBVIOUS
  <2>5. [x EXCEPT !.reading = p.reading, !.count = p.count] = [[x EXCEPT !.reading = p.reading] EXCEPT !.count = p.count]
    OBVIOUS
  <2> HIDE DEF x, p
  <2>6. RestoreWalker(w) = [sel |-> p.sel, offset |-> p.offset, count |-> p.count, reading |-> p.reading]
    BY <2>1, <2>2, <2>3, <2>4, <2>5, Zenon
  <2>7. RestoreWalker(w) = p
    BY <1>5, <2>6, Zenon
  <2> QED
    BY <1>2, <2>7 DEF p
<1> QED
  BY <1>6, <1>7

GivesBack ==
    Restores /\ outcome'.error = "none" =>
        /\ data' = saved.data /\ rollover' = saved.rollover /\ lastValues' = saved.lastValues
        /\ \A w \in DOMAIN past \cap Attached :
                wk[w].sel = past[w].sel /\ Alone(w) /\ Whole(w) => wk'[w] = past[w]

LEMMA RestoresGiveBack == DumpInv => GivesBack
<1> SUFFICES ASSUME DumpInv, NEW permissive \in BOOLEAN, Restore(permissive), outcome'.error = "none"
             PROVE  /\ data' = saved.data /\ rollover' = saved.rollover /\ lastValues' = saved.lastValues
                    /\ \A w \in DOMAIN past \cap Attached :
                            wk[w].sel = past[w].sel /\ Alone(w) /\ Whole(w) => wk'[w] = past[w]
  BY DEF GivesBack, Restores
<1>1. saved # NULL /\ WalkersInv
  BY DEF Restore, DumpInv
<1>2. PICK Back, Failed : RestoresAs(permissive, Back, Failed)
  BY <1>1, RestoreIs
<1>3. \A w \in Attached : Known(w) => w \in Back
  BY <1>2 DEF RestoresAs, Raised
<1>4. ASSUME NEW w \in DOMAIN past \cap Attached, wk[w].sel = past[w].sel, Alone(w), Whole(w)
      PROVE  wk'[w] = past[w]
  <2>1. Known(w) /\ RestoreWalker(w) = past[w]
    BY <1>1, <1>4, AloneIsGivenBack
  <2>2. w \in Walkers
    BY <1>1, QueueFacts, VirtualFacts DEF Attached
  <2> QED
    BY <1>2, <1>3, <2>1, <2>2 DEF RestoresAs
<1> QED
  BY <1>2, <1>4 DEF RestoresAs

\* A restore that does not raise gives the log back as it was dumped, with every walker that
\* had its selector for itself, whatever was pushed, popped, sought or cleared in between.
THEOREM DumpsAreRestored == DumpSpec => RestoreGivesBack
<1>1. DumpInv /\ [DumpNext]_dumpVars => [GivesBack]_dumpVars
  BY RestoresGiveBack
<1>2. DumpSpec => [][GivesBack]_dumpVars
  BY <1>1, DumpInit0, DumpStep, PTL DEF DumpSpec
<1> QED
  BY <1>2 DEF GivesBack, RestoreGivesBack

Succeeds ==
    /\ Restores
    /\ SelectorsOf(Attached) = DOMAIN saved.walkers
    /\ \A w \in DOMAIN past : Whole(w) /\ (Buffered(past[w].sel) => past[w].count > 0)
    => outcome'.error = "none"

\* From the end of an area on, nothing is counted.
LEMMA NothingFromTheEndOn ==
  ASSUME NEW S, NEW d \in Seq(S), NEW k \in Int, NEW sel, CountMatching(sel, d, k) # 0
  PROVE  k < Len(d)
<1>1. CountMatching(sel, d, k) = 0 <=> Hits(sel, d, k) = {}
  BY CountIsNat
<1>2. PICK i : i \in Hits(sel, d, k)
  BY <1>1
<1>3. i \in k .. Len(d) - 1 /\ Len(d) \in Nat
  BY <1>2 DEF Hits
<1> QED
  BY <1>3

LEMMA RestoresSucceed == DumpInv => Succeeds
<1> SUFFICES ASSUME DumpInv, NEW permissive \in BOOLEAN, Restore(permissive),
                    SelectorsOf(Attached) = DOMAIN saved.walkers,
                    \A w \in DOMAIN past : Whole(w) /\ (Buffered(past[w].sel) => past[w].count > 0)
             PROVE  outcome'.error = "none"
  BY DEF Succeeds, Restores
<1>1. saved # NULL /\ WalkersInv
  BY DEF Restore, DumpInv
<1>2. PICK Back, Failed : RestoresAs(permissive, Back, Failed)
  BY <1>1, RestoreIs
<1>3. ASSUME NEW w \in Attached PROVE RestoreError(w, permissive) = "none"
  <2>1. Known(w) /\ w \in Walkers
    BY <1>1, QueueFacts, VirtualFacts DEF Known, SelectorsOf, Attached
  <2>2. PICK u \in DOMAIN past : Kept(past[u]) /\ past[u].sel = wk[w].sel
                                 /\ saved.walkers[wk[w].sel] = DumpWalker(past[u])
    BY <1>1, <2>1, GivenWalker
  <2>3. CASE ~Buffered(wk[w].sel)
    BY <2>1, <2>3 DEF RestoreError
  <2>4. CASE Buffered(wk[w].sel)
    <3> DEFINE sel == wk[w].sel
               d == saved.data[AreaOfSelector(sel)]
               k == past[u].offset
    <3>1. k \in Int /\ k >= 0 /\ CountMatching(sel, d, k) > 0
      BY <2>2, <2>4 DEF Whole, Kept, Walker
    <3>2. d \in Seq(Stored) /\ Len(d) \in Nat
      <4>1. AreaOfSelector(sel) \in Areas /\ saved.data \in [Areas -> Seq(Stored)]
        BY <1>1, SelectorHasArea DEF DumpInv, SavedInv, SavedReadings
      <4>2. d \in Seq(Stored)
        BY <4>1
      <4> QED
        BY <4>2
    <3>3. k < Len(d)
      <4> HIDE DEF d, k, sel
      <4>1. CountMatching(sel, d, k) # 0
        BY <3>1
      <4> QED
        BY <3>1, <3>2, <4>1, NothingFromTheEndOn
    <3>4. saved.walkers[sel].offset = k
      BY <2>2, <2>4, GivenFields
    <3>5. ~(k >= Len(d)) /\ ~(k < -Len(d))
      BY <3>1, <3>2, <3>3
    <3> QED
      BY <2>1, <3>4, <3>5 DEF RestoreError
  <2> QED
    BY <2>3, <2>4
<1>4. outcome' = Returned(NULL)
  BY <1>2, <1>3 DEF RestoresAs
<1> QED
  BY <1>4 DEF Returned

\* A dump of walkers that all had something left to read is restored without an error into any
\* later state of the log, if the same selectors are walked there.
THEOREM RestoresOfUnreadSucceed == DumpSpec => RestoreSucceeds
<1>1. DumpInv /\ [DumpNext]_dumpVars => [Succeeds]_dumpVars
  BY RestoresSucceed
<1>2. DumpSpec => [][Succeeds]_dumpVars
  BY <1>1, DumpInit0, DumpStep, PTL DEF DumpSpec
<1> QED
  BY <1>2 DEF Succeeds, RestoreSucceeds
=============================================================================
