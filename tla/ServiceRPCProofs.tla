-------------------------- MODULE ServiceRPCProofs --------------------------
(***************************************************************************)
(* Proofs about ServiceRPC, for any clients, services and RPCs: the answer *)
(* that comes in time wins over the timeout, and get() leaves no key.  And *)
(* about Streaming, for any streamers and readings: nothing that was not   *)
(* acknowledged is skipped, and no acknowledgement is undone.              *)
(***************************************************************************)
EXTENDS ServiceRPC, Streaming, FiniteSetTheorems, SequenceTheorems, TLAPS

\* What the future of an RPC, the sender and the recorded answer know of each other.
Consistent(r) ==
    /\ send[r].pc = "idle" => results[r] = "absent" /\ r \notin inFlight /\ answered[r] = NULL
    /\ send[r].pc \in {"sending", "waiting"} => results[r] \in {"pending", "service_not_found"} \cup Results
    /\ send[r].pc = "expiring" => results[r] = "cancelled"
    /\ send[r].pc = "done" /\ send[r].outcome \notin {"error", "cancelled"} => results[r] = "absent"
    /\ results[r] \in {"pending", "cancelled", "service_not_found"} => answered[r] = NULL
    /\ results[r] \in Results => answered[r] = results[r]
    /\ send[r].pc # "done" => send[r].outcome = NULL
    /\ send[r].pc = "done" => send[r].outcome # NULL

Settled(r) ==
    send[r].pc = "done" =>
        IF answered[r] # NULL THEN send[r].outcome \in {answered[r], "cancelled", "error"}
                              ELSE send[r].outcome \notin Results

IInv == TypeOK /\ \A r \in Rpcs : Consistent(r) /\ Settled(r)

USE ResultsAssumption, NullAssumption

Calls == [pc : {"idle", "sending", "waiting", "expiring", "done"},
          caller : Clients \cup {NULL}, outcome : Outcomes \cup {NULL}]

\* The initial state satisfies the invariant (ServiceManager.__init__).
LEMMA InitIInv == Init => IInv
BY DEF Init, IInv, TypeOK, Consistent, Settled, Unsent, Keys, Outcomes

\* How a call of send_rpc() returns, in the terms of its record.
LEMMA ReturnType ==
    ASSUME send \in [Rpcs -> Calls], NEW r \in Rpcs, NEW o \in Outcomes
    PROVE  /\ Return(send, r, o) \in [Rpcs -> Calls]
           /\ Return(send, r, o)[r] \in Calls
           /\ Return(send, r, o)[r].pc = "done"
           /\ Return(send, r, o)[r].outcome = o
           /\ \A q \in Rpcs : q # r => Return(send, r, o)[q] = send[q]
BY DEF Return, Calls

\* Every step keeps the variables in their types.
LEMMA StepTypeOK == TypeOK /\ IInv /\ [Next]_vars => TypeOK'
<1> SUFFICES ASSUME TypeOK, IInv, [Next]_vars PROVE TypeOK'
  OBVIOUS
<1> USE DEF Keys, Outcomes
<1>send. send \in [Rpcs -> Calls]
  BY DEF TypeOK, Calls
<1>1. ASSUME NEW c \in Clients, Connect(c) PROVE TypeOK'
  <2>1. send' \in [Rpcs -> Calls]
    BY <1>1, <1>send, ReturnType DEF Connect, InterruptNotifications
  <2> QED
    BY <1>1, <2>1 DEF TypeOK, Connect, Calls
<1>2. ASSUME NEW c \in Clients, Disconnect(c) PROVE TypeOK'
  <2>1. send' \in [Rpcs -> Calls]
    <3>1. PICK swallowed \in BOOLEAN :
         send' = [r \in Rpcs |->
                    CASE r \in Of(c, {"waiting", "expiring"}) -> Return(send, r, "cancelled")[r]
                      [] r \in Of(c, {"sending"}) /\ ~swallowed -> Return(send, r, "cancelled")[r]
                      [] r \in Of(c, {"sending"}) /\ swallowed -> [send[r] EXCEPT !.pc = "waiting"]
                      [] OTHER -> send[r]]
      BY <1>2 DEF Disconnect
    <3>2. ASSUME NEW r \in Rpcs PROVE /\ Return(send, r, "cancelled")[r] \in Calls
                                      /\ [send[r] EXCEPT !.pc = "waiting"] \in Calls
                                      /\ send[r] \in Calls
      <4>1. "cancelled" \in Outcomes
        OBVIOUS
      <4>2. Return(send, r, "cancelled")[r] \in Calls
        BY <1>send, <4>1, ReturnType
      <4> QED
        BY <1>send, <4>2 DEF Calls
    <3> QED
      BY <3>1, <3>2
  <2> QED
    BY <1>2, <2>1 DEF TypeOK, Disconnect, Calls
<1>3. ASSUME NEW c \in Clients, NEW s \in Services, SetAgent(s, c) PROVE TypeOK'
  BY <1>3 DEF TypeOK, SetAgent
<1>4. ASSUME NEW c \in Clients, NEW s \in Services, NEW r \in Rpcs, Send(r, s, c) PROVE TypeOK'
  <2>1. send' \in [Rpcs -> Calls]
    BY <1>4, <1>send DEF Send, Calls
  <2>2. commands' \in [Clients -> SUBSET Rpcs]
    BY <1>4 DEF TypeOK, Send
  <2> QED
    BY <1>4, <2>1, <2>2 DEF TypeOK, Send, Calls
<1>5. ASSUME NEW r \in Rpcs, Sent(r) PROVE TypeOK'
  BY <1>5, SMTT(30) DEF TypeOK, Sent
<1>6. ASSUME NEW r \in Rpcs, Expire(r) PROVE TypeOK'
  BY <1>6 DEF TypeOK, Expire
<1>7. ASSUME NEW r \in Rpcs, Get(r) PROVE TypeOK'
  <2>1. results[r] # "absent" \/ send[r].pc # "waiting"
    BY DEF IInv, Consistent
  <2>2. send' \in [Rpcs -> Calls]
    BY <1>7, <1>send, <2>1, ReturnType DEF Get, TypeOK
  <2> QED
    BY <1>7, <2>2 DEF TypeOK, Get, Removed, Calls
<1>8. ASSUME NEW a \in Clients, NEW r \in Rpcs, NEW v \in Results, Respond(a, r, v) PROVE TypeOK'
  BY <1>8 DEF TypeOK, Respond, SendRPCResponse, SetResult
<1>9. CASE UNCHANGED vars
  BY <1>9 DEF TypeOK, vars
<1> QED
  BY <1>1, <1>2, <1>3, <1>4, <1>5, <1>6, <1>7, <1>8, <1>9 DEF Next

\* The calls that an action leaves alone stay consistent if what they depend on does.
LEMMA Untouched ==
    ASSUME NEW r \in Rpcs, Consistent(r), Settled(r),
           send'[r] = send[r], results'[r] = results[r], answered'[r] = answered[r],
           r \in inFlight' => r \in inFlight
    PROVE  Consistent(r)' /\ Settled(r)'
BY DEF Consistent, Settled

\* Every step keeps each RPC consistent.
LEMMA StepConsistent ==
    ASSUME IInv, [Next]_vars, NEW q \in Rpcs
    PROVE  Consistent(q)' /\ Settled(q)'
<1> USE DEF Keys, Outcomes
<1>send. send \in [Rpcs -> Calls]
  BY DEF IInv, TypeOK, Calls
<1>q. Consistent(q) /\ Settled(q)
  BY DEF IInv
<1>out. {"error", "cancelled", "timeout"} \subseteq Outcomes
  OBVIOUS
<1>1. ASSUME NEW c \in Clients, Connect(c) PROVE Consistent(q)' /\ Settled(q)'
  <2>1. CASE q \in Sending
    <3>1. send'[q].pc = "done" /\ send'[q].outcome = "error"
      BY <1>1, <1>send, <1>out, <2>1, ReturnType DEF Connect, InterruptNotifications
    <3> QED
      BY <1>1, <1>q, <2>1, <3>1 DEF Connect, Consistent, Settled, Sending
  <2>2. CASE q \notin Sending
    BY <1>1, <1>q, <2>2, Untouched DEF Connect, InterruptNotifications
  <2> QED
    BY <2>1, <2>2
<1>2. ASSUME NEW c \in Clients, Disconnect(c) PROVE Consistent(q)' /\ Settled(q)'
  <2>0. PICK swallowed \in BOOLEAN :
         send' = [r \in Rpcs |->
                    CASE r \in Of(c, {"waiting", "expiring"}) -> Return(send, r, "cancelled")[r]
                      [] r \in Of(c, {"sending"}) /\ ~swallowed -> Return(send, r, "cancelled")[r]
                      [] r \in Of(c, {"sending"}) /\ swallowed -> [send[r] EXCEPT !.pc = "waiting"]
                      [] OTHER -> send[r]]
    BY <1>2 DEF Disconnect
  <2>c. Return(send, q, "cancelled")[q].pc = "done" /\ Return(send, q, "cancelled")[q].outcome = "cancelled"
    BY <1>send, <1>out, ReturnType
  <2>same. inFlight' = inFlight /\ answered' = answered
    BY <1>2 DEF Disconnect
  <2>res. results'[q] = IF q \in Of(c, {"waiting", "expiring"}) THEN "absent" ELSE results[q]
    BY <1>2 DEF Disconnect
  <2>disjoint. q \in Of(c, {"waiting", "expiring"}) => q \notin Of(c, {"sending"})
    BY DEF Of
  <2>1. CASE q \in Of(c, {"waiting", "expiring"})
    <3>1. send'[q] = Return(send, q, "cancelled")[q]
      BY <2>0, <2>1, <2>disjoint
    <3>2. results'[q] = "absent"
      BY <2>res, <2>1
    <3> QED
      BY <2>c, <2>same, <3>1, <3>2 DEF Consistent, Settled
  <2>2. CASE q \in Of(c, {"sending"}) /\ ~swallowed
    <3>1. send'[q] = Return(send, q, "cancelled")[q]
      BY <2>0, <2>2, <2>disjoint
    <3>2. results'[q] = results[q]
      BY <2>res, <2>2, <2>disjoint
    <3> QED
      BY <1>q, <2>2, <2>c, <2>same, <3>1, <3>2 DEF Consistent, Settled, Of
  <2>3. CASE q \in Of(c, {"sending"}) /\ swallowed
    <3>1. send'[q] = [send[q] EXCEPT !.pc = "waiting"]
      BY <2>0, <2>3, <2>disjoint
    <3>2. results'[q] = results[q]
      BY <2>res, <2>3, <2>disjoint
    <3>3. send'[q].pc = "waiting" /\ send'[q].outcome = send[q].outcome
      BY <1>send, <3>1 DEF Calls
    <3> QED
      BY <1>q, <2>3, <2>same, <3>2, <3>3 DEF Consistent, Settled, Of
  <2>4. CASE q \notin Of(c, {"waiting", "expiring"}) /\ q \notin Of(c, {"sending"})
    <3>1. send'[q] = send[q]
      BY <2>0, <2>4
    <3> QED
      BY <1>q, <2>4, <2>same, <2>res, <3>1, Untouched
  <2> QED
    BY <2>1, <2>2, <2>3, <2>4
<1>3. ASSUME NEW c \in Clients, NEW s \in Services, SetAgent(s, c) PROVE Consistent(q)' /\ Settled(q)'
  BY <1>3, <1>q, Untouched DEF SetAgent
<1>4. ASSUME NEW c \in Clients, NEW s \in Services, NEW r \in Rpcs, Send(r, s, c)
      PROVE  Consistent(q)' /\ Settled(q)'
  <2>1. CASE q = r
    <3>1. send'[q].pc \in {"sending", "waiting"} /\ send'[q].outcome = NULL
      BY <1>4, <1>send, <2>1 DEF Send
    <3>2. results'[q] \in {"pending", "service_not_found"} /\ answered'[q] = NULL
      BY <1>4, <1>q, <2>1 DEF Send, Consistent, IInv, TypeOK
    <3> QED
      BY <3>1, <3>2 DEF Consistent, Settled
  <2>2. CASE q # r
    <3>1. send'[q] = send[q] /\ results'[q] = results[q] /\ answered' = answered
      BY <1>4, <2>2 DEF Send, IInv, TypeOK
    <3>2. q \in inFlight' => q \in inFlight
      BY <1>4, <2>2 DEF Send
    <3> QED
      BY <1>q, <3>1, <3>2, Untouched
  <2> QED
    BY <2>1, <2>2
<1>5. ASSUME NEW r \in Rpcs, Sent(r) PROVE Consistent(q)' /\ Settled(q)'
  <2>1. CASE q = r
    <3>1. send'[q].pc = "waiting" /\ send'[q].outcome = send[q].outcome
      BY <1>5, <1>send, <2>1 DEF Sent, Calls
    <3> QED
      BY <1>5, <1>q, <2>1, <3>1 DEF Sent, Consistent, Settled
  <2>2. CASE q # r
    <3>1. send'[q] = send[q]
      BY <1>5, <2>2, <1>send DEF Sent
    <3> QED
      BY <1>5, <1>q, <3>1, Untouched DEF Sent
  <2> QED
    BY <2>1, <2>2
<1>6. ASSUME NEW r \in Rpcs, Expire(r) PROVE Consistent(q)' /\ Settled(q)'
  <2>1. CASE q = r
    <3>1. send'[q].pc = "expiring" /\ send'[q].outcome = send[q].outcome
      BY <1>6, <1>send, <2>1 DEF Expire, Calls
    <3>2. results'[q] = "cancelled"
      BY <1>6, <2>1 DEF Expire, IInv, TypeOK
    <3> QED
      BY <1>6, <1>q, <2>1, <3>1, <3>2 DEF Expire, Consistent, Settled
  <2>2. CASE q # r
    <3>1. send'[q] = send[q] /\ results'[q] = results[q]
      BY <1>6, <2>2, <1>send DEF Expire, IInv, TypeOK
    <3> QED
      BY <1>6, <1>q, <3>1, Untouched DEF Expire
  <2> QED
    BY <2>1, <2>2
<1>7. ASSUME NEW r \in Rpcs, Get(r) PROVE Consistent(q)' /\ Settled(q)'
  <2>same. inFlight' = inFlight /\ answered' = answered
    BY <1>7 DEF Get
  <2>res. results' = [results EXCEPT ![r] = "absent"]
    BY <1>7 DEF Get, Removed
  <2>1. CASE q # r
    <3>1. send'[q] = send[q]
      BY <1>7, <2>1, <1>send DEF Get, Return
    <3> QED
      BY <1>q, <2>1, <2>same, <2>res, <3>1, Untouched DEF IInv, TypeOK
  <2>2. CASE q = r
    <3>0. results'[q] = "absent"
      BY <2>res, <2>2 DEF IInv, TypeOK
    <3>1. CASE send[r].pc = "waiting" /\ results[r] \notin {"pending", "cancelled"} /\ send' = Return(send, r, results[r])
      <4>1. results[q] \in {"service_not_found"} \cup Results
        BY <1>q, <2>2, <3>1 DEF Consistent
      <4>2. send'[q].pc = "done" /\ send'[q].outcome = results[q]
        BY <1>send, <2>2, <3>1, <4>1, ReturnType
      <4> QED
        BY <1>q, <2>same, <3>0, <4>1, <4>2 DEF Consistent, Settled
    <3>2. CASE send[r].pc = "expiring" /\ send' = Return(send, r, "timeout")
      <4>1. send'[q].pc = "done" /\ send'[q].outcome = "timeout"
        BY <1>send, <1>out, <2>2, <3>2, ReturnType
      <4> QED
        BY <1>q, <2>2, <2>same, <3>0, <3>2, <4>1 DEF Consistent, Settled
    <3> QED
      BY <1>7, <3>1, <3>2 DEF Get
  <2> QED
    BY <2>1, <2>2
<1>8. ASSUME NEW a \in Clients, NEW r \in Rpcs, NEW v \in Results, Respond(a, r, v)
      PROVE  Consistent(q)' /\ Settled(q)'
  <2>send. send' = send
    BY <1>8 DEF Respond
  <2>fly. q \in inFlight' => q \in inFlight
    BY <1>8 DEF Respond, SendRPCResponse
  <2>1. CASE q = r /\ r \in inFlight /\ results[r] = "pending"
    <3>1. results'[q] = v /\ answered'[q] = v
      BY <1>8, <2>1 DEF Respond, SendRPCResponse, SetResult, IInv, TypeOK
    <3>2. v # NULL /\ v \notin {"absent", "pending", "cancelled", "service_not_found"}
      OBVIOUS
    <3>3. send[q].pc \in {"sending", "waiting"} \/ (send[q].pc = "done" /\ send[q].outcome \in {"error", "cancelled"})
      <4>1. send[q].pc \in {"idle", "sending", "waiting", "expiring", "done"}
        BY <1>send DEF Calls
      <4> QED
        BY <1>q, <2>1, <4>1 DEF Consistent
    <3> QED
      BY <1>q, <2>send, <2>fly, <3>1, <3>2, <3>3 DEF Consistent, Settled
  <2>2. CASE ~(q = r /\ r \in inFlight /\ results[r] = "pending")
    <3>1. results'[q] = results[q] /\ answered'[q] = answered[q]
      BY <1>8, <2>2 DEF Respond, SendRPCResponse, SetResult, IInv, TypeOK
    <3> QED
      BY <1>q, <2>send, <2>fly, <3>1, Untouched
  <2> QED
    BY <2>1, <2>2
<1>9. CASE UNCHANGED vars
  BY <1>9, <1>q, Untouched DEF vars
<1> QED
  BY <1>1, <1>2, <1>3, <1>4, <1>5, <1>6, <1>7, <1>8, <1>9 DEF Next

\* The invariant is inductive, and holds of every reachable state.
THEOREM IInvHolds == Spec => []IInv
<1>1. IInv /\ [Next]_vars => IInv'
  BY StepTypeOK, StepConsistent DEF IInv
<1> QED
  BY InitIInv, <1>1, PTL DEF Spec

\* The variables stay in their types; in particular a future is always in one of
\* the states that set() and get() expect.
THEOREM TypesHold == Spec => []TypeOK
<1>1. IInv => TypeOK
  BY DEF IInv
<1> QED
  BY IInvHolds, <1>1, PTL

\* For any number of clients, services and RPCs, and however they interleave: what
\* send_rpc() returns is the answer that was set in time, and an agent's answer only
\* if there was one (AwaitableDict.get and set, send_rpc_response).
THEOREM AnswersInTimeWin == Spec => []AnswerInTimeWins
<1>1. IInv => AnswerInTimeWins
  BY DEF IInv, Settled, AnswerInTimeWins
<1> QED
  BY IInvHolds, <1>1, PTL

\* A key of rpc_results is one that a sender waits for, unless that send_rpc() was
\* interrupted: in particular no late answer brings one back (AwaitableDict.get).
THEOREM NoKeyIsLeft == Spec => []KeysAreAwaited
<1>1. IInv => KeysAreAwaited
  <2> SUFFICES ASSUME IInv, NEW r \in Rpcs, results[r] # "absent",
                      send[r].outcome \notin {"error", "cancelled"}
               PROVE  send[r].pc \in {"sending", "waiting", "expiring"}
    BY DEF KeysAreAwaited
  <2>1. send[r].pc \in {"idle", "sending", "waiting", "expiring", "done"}
    BY DEF IInv, TypeOK
  <2> QED
    BY <2>1 DEF IInv, Consistent
<1> QED
  BY IInvHolds, <1>1, PTL

-----------------------------------------------------------------------------
(* Numbers, and loops over them. *)

LEMMA LeastNat ==
  ASSUME NEW T \in SUBSET Nat, T # {}
  PROVE  \E x \in T : \A y \in T : x <= y
<1> DEFINE F == {0 .. x : x \in T}
           R == StrictSubsetOrdering(Nat)
<1>1. F \subseteq FiniteSubsetsOf(Nat) /\ F # {}
  <2>1. \A x \in T : 0 .. x \in SUBSET Nat /\ IsFiniteSet(0 .. x)
    BY FS_Interval
  <2> QED
    BY <2>1 DEF FiniteSubsetsOf
<1>2. IsWellFoundedOn(R, FiniteSubsetsOf(Nat))
  BY FS_StrictSubsetOrderingWellFounded
<1> HIDE DEF R, F
<1>3. PICK A \in F : \A B \in F : ~ (<<B, A>> \in R)
  BY <1>1, <1>2, WFMin
<1>4. PICK x \in T : A = 0 .. x
  BY DEF F
<1>5. ASSUME NEW y \in T, y < x PROVE FALSE
  <2>1. 0 .. y \in F /\ 0 .. y \subseteq 0 .. x /\ x \in 0 .. x /\ x \notin 0 .. y
    BY <1>5 DEF F
  <2>2. <<0 .. y, 0 .. x>> \in (SUBSET Nat) \X (SUBSET Nat) /\ 0 .. y # 0 .. x
    BY <2>1
  <2>3. <<0 .. y, 0 .. x>> \in R
    BY <2>1, <2>2 DEF R, StrictSubsetOrdering
  <2> QED
    BY <1>3, <1>4, <2>1, <2>3
<1> QED
  BY <1>5

LEMMA GreatestNat ==
  ASSUME NEW n \in Nat, NEW T \in SUBSET (0 .. n), T # {}
  PROVE  \E x \in T : \A y \in T : y <= x
<1> DEFINE D == {i \in Nat : \A y \in T : y < i}
<1>1. D \in SUBSET Nat /\ n + 1 \in D
  OBVIOUS
<1>2. PICK m \in D : \A i \in D : m <= i
  BY <1>1, LeastNat
<1>3. PICK t \in T : TRUE
  OBVIOUS
<1>4. m >= 1 /\ m - 1 \in Nat /\ m - 1 \notin D
  BY <1>2, <1>3
<1>5. PICK x \in T : ~(x < m - 1)
  BY <1>4
<1>6. \A y \in T : y < m
  BY <1>2
<1>7. x = m - 1
  BY <1>2, <1>5, <1>6
<1> QED
  BY <1>6, <1>7

LEMMA Extremes ==
  ASSUME NEW n \in Nat, NEW T \in SUBSET (0 .. n), T # {}
  PROVE  /\ MinOf(T) \in T /\ \A y \in T : MinOf(T) <= y
         /\ MaxOf(T) \in T /\ \A y \in T : y <= MaxOf(T)
<1>1. \E x \in T : \A y \in T : x <= y
  BY LeastNat
<1>2. \E x \in T : \A y \in T : y <= x
  BY GreatestNat
<1>3. MinOf(T) \in T /\ \A y \in T : MinOf(T) <= y
  BY <1>1 DEF MinOf
<1>4. MaxOf(T) \in T /\ \A y \in T : y <= MaxOf(T)
  BY <1>2 DEF MaxOf
<1> QED
  BY <1>3, <1>4

IsAscending(s) == \A j, k \in DOMAIN s : j < k => s[j] < s[k]

\* Ascending gives the numbers of a set in their order: by induction on how many they are.
LEMMA AscendingIsSeq ==
  ASSUME NEW n \in Nat, NEW S \in SUBSET (0 .. n)
  PROVE  /\ Cardinality(S) \in Nat
         /\ Ascending(S) \in [1 .. Cardinality(S) -> S] /\ IsAscending(Ascending(S))
<1> DEFINE Bad(m) == \E U \in SUBSET (0 .. n) :
                        Cardinality(U) = m /\ ~(\E s \in [1 .. m -> U] : IsAscending(s))
           T == {m \in Nat : Bad(m)}
<1>1. \A U \in SUBSET (0 .. n) : IsFiniteSet(U) /\ Cardinality(U) \in Nat
  <2>1. IsFiniteSet(0 .. n)
    BY FS_Interval
  <2>2. ASSUME NEW U \in SUBSET (0 .. n) PROVE IsFiniteSet(U)
    BY <2>1, FS_Subset
  <2>3. ASSUME NEW U \in SUBSET (0 .. n) PROVE Cardinality(U) \in Nat
    BY <2>2, FS_CardinalityType
  <2> QED
    BY <2>2, <2>3
<1>2. T = {}
  <2> SUFFICES ASSUME T # {} PROVE FALSE
    OBVIOUS
  <2>1. PICK m \in T : \A k \in T : m <= k
    <3> HIDE DEF Bad
    <3> QED
      BY LeastNat
  <2>2. PICK U \in SUBSET (0 .. n) : Cardinality(U) = m /\ ~(\E s \in [1 .. m -> U] : IsAscending(s))
    OBVIOUS
  <2>3. m # 0
    <3> SUFFICES ASSUME m = 0 PROVE FALSE
      OBVIOUS
    <3>1. [j \in 1 .. 0 |-> 0] \in [1 .. 0 -> U] /\ IsAscending([j \in 1 .. 0 |-> 0])
      BY DEF IsAscending
    <3> QED
      BY <2>2, <3>1
  <2>4. U # {} /\ m \in Nat
    BY <1>1, <2>2, <2>3, FS_EmptySet
  <2>5. PICK x \in U : \A y \in U : y <= x
    BY <2>4, GreatestNat
  <2>6. U \ {x} \in SUBSET (0 .. n) /\ Cardinality(U \ {x}) = m - 1
    BY <1>1, <2>2, FS_RemoveElement
  <2>7. m - 1 \in Nat /\ m - 1 \notin T
    BY <2>1, <2>3, <2>4
  <2>8. PICK s \in [1 .. m - 1 -> U \ {x}] : IsAscending(s)
    BY <2>6, <2>7
  <2> DEFINE r == [j \in 1 .. m |-> IF j = m THEN x ELSE s[j]]
  <2>9. r \in [1 .. m -> U]
    BY <2>4
  <2>10. ASSUME NEW j \in 1 .. m, NEW k \in 1 .. m, j < k PROVE r[j] < r[k]
    <3>1. CASE k = m
      <4>1. j \in 1 .. m - 1 /\ s[j] \in U \ {x}
        BY <2>4, <2>10, <3>1
      <4>2. r[j] = s[j] /\ r[k] = x
        BY <3>1, <4>1
      <4>3. \A y \in U : y \in Int
        OBVIOUS
      <4>4. s[j] \in U /\ s[j] # x
        BY <4>1
      <4>5. s[j] \in Int /\ x \in Int /\ s[j] <= x
        BY <2>5, <4>3, <4>4
      <4> HIDE DEF r
      <4> QED
        BY <4>2, <4>4, <4>5
    <3>2. CASE k # m
      <4>1. j \in 1 .. m - 1 /\ k \in 1 .. m - 1
        BY <2>4, <2>10, <3>2
      <4> QED
        BY <2>4, <2>8, <2>10, <4>1 DEF IsAscending
    <3> QED
      BY <3>1, <3>2
  <2>11. IsAscending(r)
    BY <2>10 DEF IsAscending
  <2> QED
    BY <2>2, <2>9, <2>11
<1>3. \E s \in [1 .. Cardinality(S) -> S] : IsAscending(s)
  BY <1>1, <1>2
<1> QED
  BY <1>1, <1>3 DEF Ascending, IsAscending

-----------------------------------------------------------------------------
(* What check_streamers gives. *)

Checks == [ready : Seq(Streamers), selected : SUBSET Int, marks : SUBSET Streamers]

LEMMA StreamersAreNumbers ==
  /\ Cardinality(Streamers) \in Nat /\ Streamers \subseteq 0 .. Cardinality(Streamers)
  /\ Streamers \subseteq Nat
  /\ \A i \in 0 .. Cardinality(Streamers) - 1 : i \in Streamers
<1>1. Cardinality(Streamers) \in Nat
  BY StreamingAssumption, FS_CardinalityType
<1> QED
  BY <1>1, StreamingAssumption

LEMMA RoundType ==
  ASSUME NEW log, NEW blacklist, NEW i \in Streamers, NEW c \in Checks
  PROVE  Check(log, blacklist, i, c) \in Checks
<1>1. c.ready \in Seq(Streamers) /\ c.selected \in SUBSET Int /\ c.marks \in SUBSET Streamers
  BY DEF Checks
<1>2. ASSUME NEW unmarked, unmarked = [ready |-> c.ready, selected |-> c.selected, marks |-> c.marks \ {i}]
      PROVE  unmarked \in Checks /\ Chosen(log, i, unmarked) \in Checks
  <2> DEFINE W == Companions(log, i, unmarked.selected \cup {i})
             D == {k - i : k \in W}
  <2>1. unmarked \in Checks
    BY <1>1, <1>2 DEF Checks
  <2>2. W \in SUBSET Streamers /\ i \in Int
    BY StreamersAreNumbers DEF Companions
  <2>3. Ascending(W) \in Seq(Streamers)
    <3> HIDE DEF W
    <3>1. W \in SUBSET (0 .. Cardinality(Streamers))
      BY <2>2, StreamersAreNumbers
    <3>2. Cardinality(W) \in Nat /\ Ascending(W) \in [1 .. Cardinality(W) -> W]
      BY <3>1, StreamersAreNumbers, AscendingIsSeq
    <3>3. \A q \in Nat : \A g \in [1 .. q -> Streamers] : g \in Seq(Streamers)
      OBVIOUS
    <3>4. Ascending(W) \in [1 .. Cardinality(W) -> Streamers]
      BY <2>2, <3>2
    <3> QED
      BY <3>2, <3>3, <3>4
  <2>4. Append(unmarked.ready, i) \in Seq(Streamers)
    BY <2>1 DEF Checks
  <2>5. Append(unmarked.ready, i) \o Ascending(W) \in Seq(Streamers)
    <3> HIDE DEF W
    <3> QED
      BY <2>3, <2>4
  <2>6. D \subseteq Int
    <3> HIDE DEF W
    <3>1. \A k \in W : k \in Int
      BY <2>2, StreamersAreNumbers
    <3> QED
      BY <2>2, <3>1
  <2>7. unmarked.selected \cup {i} \cup D \in SUBSET Int /\ unmarked.marks \in SUBSET Streamers
    <3> HIDE DEF D, W
    <3> QED
      BY <2>1, <2>2, <2>6 DEF Checks
  <2>8. Chosen(log, i, unmarked) = [ready |-> Append(unmarked.ready, i) \o Ascending(W),
                                    selected |-> unmarked.selected \cup {i} \cup D,
                                    marks |-> unmarked.marks]
    BY DEF Chosen
  <2> HIDE DEF D, W
  <2> QED
    BY <2>1, <2>5, <2>7, <2>8 DEF Checks
<1> QED
  BY <1>2 DEF Check

\* The loop over the first n streamers has a result: by induction on n.
Loops(log, blacklist, start, n, f) ==
    f = [m \in 0 .. n |-> IF m = 0 THEN start ELSE Check(log, blacklist, m - 1, f[m - 1])]

LEMMA LoopEnds ==
  ASSUME NEW log, NEW blacklist, NEW start, NEW n \in Nat
  PROVE  \E f : Loops(log, blacklist, start, n, f)
<1> DEFINE T == {m \in Nat : ~(\E f : Loops(log, blacklist, start, m, f))}
<1> SUFFICES ASSUME T # {} PROVE FALSE
  OBVIOUS
<1>1. PICK m \in T : \A k \in T : m <= k
  <2> HIDE DEF Loops
  <2> QED
    BY LeastNat
<1>2. CASE m = 0
  <2>1. Loops(log, blacklist, start, 0, [k \in 0 .. 0 |-> start])
    BY DEF Loops
  <2> QED
    BY <1>1, <1>2, <2>1
<1>3. CASE m # 0
  <2>1. m - 1 \in Nat /\ m - 1 \notin T /\ m \in Nat
    BY <1>1, <1>3
  <2>2. PICK f : Loops(log, blacklist, start, m - 1, f)
    BY <2>1
  <2> DEFINE g == [k \in 0 .. m |-> IF k = m THEN Check(log, blacklist, m - 1, f[m - 1]) ELSE f[k]]
  <2>3. ASSUME NEW k \in 0 .. m
        PROVE  g[k] = IF k = 0 THEN start ELSE Check(log, blacklist, k - 1, g[k - 1])
    <3>1. CASE k = m
      <4>1. g[k] = Check(log, blacklist, m - 1, f[m - 1]) /\ g[m - 1] = f[m - 1]
        BY <2>1, <3>1
      <4> QED
        BY <1>3, <3>1, <4>1
    <3>2. CASE k # m
      <4>1. k \in 0 .. m - 1 /\ g[k] = f[k] /\ (k # 0 => g[k - 1] = f[k - 1])
        BY <2>1, <3>2
      <4>2. f[k] = IF k = 0 THEN start ELSE Check(log, blacklist, k - 1, f[k - 1])
        BY <2>2, <4>1 DEF Loops
      <4> QED
        BY <4>1, <4>2
    <3> QED
      BY <3>1, <3>2
  <2>4. g = [k \in 0 .. m |-> IF k = 0 THEN start ELSE Check(log, blacklist, k - 1, g[k - 1])]
    <3>1. g = [k \in 0 .. m |-> g[k]]
      OBVIOUS
    <3> HIDE DEF g
    <3> QED
      BY <2>3, <3>1
  <2>5. Loops(log, blacklist, start, m, g)
    BY <2>4 DEF Loops
  <2> QED
    BY <1>1, <2>5
<1> QED
  BY <1>2, <1>3

LEMMA LoopType ==
  ASSUME NEW log, NEW blacklist, NEW start \in Checks, NEW f,
         Loops(log, blacklist, start, Cardinality(Streamers), f)
  PROVE  f[Cardinality(Streamers)] \in Checks
<1> DEFINE N == Cardinality(Streamers)
           T == {m \in 0 .. N : f[m] \notin Checks}
<1>1. N \in Nat
  BY StreamersAreNumbers
<1> HIDE DEF N
<1>2. SUFFICES ASSUME T # {} PROVE FALSE
  BY <1>1 DEF N
<1>3. PICK m \in T : \A k \in T : m <= k
  <2>1. T \in SUBSET Nat
    BY <1>1
  <2> HIDE DEF T
  <2> QED
    BY <1>2, <2>1, LeastNat
<1>4. f[m] = IF m = 0 THEN start ELSE Check(log, blacklist, m - 1, f[m - 1])
  BY <1>1 DEF Loops, N
<1>5. m # 0 => m - 1 \in 0 .. N - 1 /\ m - 1 \in 0 .. N /\ m - 1 \notin T
  BY <1>1, <1>3
<1>6. m # 0 => m - 1 \in Streamers /\ f[m - 1] \in Checks
  BY <1>5, StreamersAreNumbers DEF N
<1> QED
  BY <1>4, <1>6, RoundType

LEMMA CheckType ==
  ASSUME NEW log, NEW marks \in SUBSET Streamers, NEW blacklist
  PROVE  CheckStreamers(log, marks, blacklist) \in Checks
<1> DEFINE start == [ready |-> <<>>, selected |-> {}, marks |-> marks]
           N == Cardinality(Streamers)
           f == CHOOSE f : Loops(log, blacklist, start, N, f)
<1>1. start \in Checks
  BY DEF Checks
<1>2. Loops(log, blacklist, start, N, f)
  BY StreamersAreNumbers, LoopEnds
<1>3. CheckStreamers(log, marks, blacklist) = f[N]
  BY DEF CheckStreamers, Loops
<1> HIDE DEF f, start
<1>4. f[Cardinality(Streamers)] \in Checks
  BY <1>1, <1>2, LoopType
<1> QED
  BY <1>3, <1>4

-----------------------------------------------------------------------------
(* Types. *)

Workers == {Idle, Dead} \cup [pc : {"sending"}, item : ItemType, batch : SUBSET Nat]

\* An item never says that more was sent than is stored.
SentIsStored(item, length) == item \in ItemType /\ item.ack <= length

StreamTypes ==
    /\ stored \in Seq(Streamers)
    /\ walker \in [Streamers -> 1 .. Len(stored) + 1]
    /\ marked \in SUBSET Streamers /\ in_progress \in SUBSET Streamers
    /\ queue \in Seq(ItemType) /\ \A k \in DOMAIN queue : queue[k].ack <= Len(stored)
    /\ worker \in Seq(Workers) /\ Len(worker) >= 1
    /\ \A w \in DOMAIN worker : worker[w].pc = "sending" =>
            worker[w].item.ack <= Len(stored) /\ worker[w].batch \subseteq 1 .. Len(stored)
    /\ acks \in [Streamers -> 0 .. Len(stored)]
    /\ received \in SUBSET (1 .. Len(stored))
    /\ resetting \in BOOLEAN

LEMMA WorkerIs ==
  ASSUME NEW v \in Workers
  PROVE  /\ v \in {Idle, Dead} => v.pc # "sending" /\ v.item = NULL
         /\ v.pc = "sending" => v.item \in ItemType /\ v.batch \in SUBSET Nat
         /\ v.pc # "sending" => v \in {Idle, Dead}
         /\ v.pc \in {"idle", "dead", "sending"}
<1>1. CASE v \in {Idle, Dead}
  BY <1>1 DEF Idle, Dead
<1>2. CASE v \in [pc : {"sending"}, item : ItemType, batch : SUBSET Nat]
  <2>1. v.pc = "sending" /\ v.item \in ItemType /\ v.batch \in SUBSET Nat
    BY <1>2
  <2>2. v \notin {Idle, Dead}
    BY <2>1 DEF Idle, Dead
  <2> QED
    BY <2>1, <2>2
<1> QED
  BY <1>1, <1>2 DEF Workers

LEMMA ReportingWorker ==
  ASSUME NEW item \in ItemType, NEW batch \in SUBSET Nat
  PROVE  [pc |-> "sending", item |-> item, batch |-> batch] \in Workers
  BY DEF Workers

LEMMA TypesGiven == StreamTypes => StrTypeOK
<1> SUFFICES ASSUME StreamTypes PROVE StrTypeOK
  OBVIOUS
<1>1. \A w \in DOMAIN worker : worker[w] \in Workers
  BY DEF StreamTypes
<1>2. \A w \in DOMAIN worker : worker[w].pc \in {"idle", "dead", "sending"}
  BY <1>1, WorkerIs
<1>3. DOMAIN stored = 1 .. Len(stored)
  BY DEF StreamTypes
<1> QED
  BY <1>2, <1>3 DEF StreamTypes, StrTypeOK

LEMMA AheadIsStored ==
  ASSUME NEW log \in Seq(Streamers), NEW i, NEW pos
  PROVE  /\ Len(log) \in Nat /\ Ahead(log, i, pos) \in SUBSET (1 .. Len(log))
         /\ Cardinality(Ahead(log, i, pos)) \in Nat
         /\ \A k \in Ahead(log, i, pos) : log[k] = i /\ k >= pos
<1>1. Len(log) \in Nat /\ Ahead(log, i, pos) \in SUBSET (1 .. Len(log))
  BY DEF Ahead
<1>2. IsFiniteSet(1 .. Len(log))
  BY <1>1, FS_Interval
<1>3. IsFiniteSet(Ahead(log, i, pos))
  BY <1>1, <1>2, FS_Subset
<1>4. Cardinality(Ahead(log, i, pos)) \in Nat
  BY <1>3, FS_CardinalityType
<1> QED
  BY <1>1, <1>4 DEF Ahead

LEMMA BatchIsAhead ==
  ASSUME StreamTypes, NEW item \in ItemType
  PROVE  /\ Batch(item) \in SUBSET Ahead(stored, item.streamer, Position(item))
         /\ Batch(item) \in SUBSET (1 .. Len(stored)) /\ Cardinality(Batch(item)) \in Nat
         /\ Batch(item) # {} => MaxOf(Batch(item)) \in Batch(item)
         /\ item.streamer \in Individual /\ Batch(item) # {} => Batch(item) = {MaxOf(Batch(item))}
<1> DEFINE A == Ahead(stored, item.streamer, Position(item))
<1>1. Len(stored) \in Nat /\ A \in SUBSET (1 .. Len(stored)) /\ Cardinality(A) \in Nat
  BY AheadIsStored DEF StreamTypes
<1>2. Batch(item) = IF item.streamer \in Individual /\ A # {} THEN {MinOf(A)} ELSE A
  BY DEF Batch
<1> HIDE DEF A
<1>3. A \in SUBSET (0 .. Len(stored))
  BY <1>1
<1>4. A # {} => MinOf(A) \in A /\ MaxOf(A) \in A
  BY <1>1, <1>3, Extremes
<1>5. A # {} => {MinOf(A)} \in SUBSET (0 .. Len(stored)) /\ Cardinality({MinOf(A)}) = 1
                /\ MaxOf({MinOf(A)}) \in {MinOf(A)}
  <2>1. A # {} => {MinOf(A)} \in SUBSET (0 .. Len(stored)) /\ {MinOf(A)} # {}
    BY <1>3, <1>4
  <2>2. Cardinality({MinOf(A)}) = 1
    BY FS_Singleton
  <2> QED
    BY <1>1, <2>1, <2>2, Extremes
<1>6. CASE item.streamer \in Individual /\ A # {}
  <2>1. Batch(item) = {MinOf(A)} /\ MinOf(A) \in A
    BY <1>2, <1>4, <1>6
  <2>2. MaxOf(Batch(item)) = MinOf(A)
    BY <1>5, <1>6, <2>1
  <2>3. Batch(item) \in SUBSET A /\ Cardinality(Batch(item)) \in Nat
    BY <1>5, <1>6, <2>1
  <2> QED
    BY <1>1, <2>1, <2>2, <2>3 DEF A
<1>7. CASE ~(item.streamer \in Individual /\ A # {})
  BY <1>1, <1>2, <1>4, <1>7 DEF A
<1> QED
  BY <1>6, <1>7

\* What process_streamers queues: the streamers that are ready up to the first that is in
\* progress, each once.
Queues(log, ready, n) ==
    /\ ready \in Seq(Streamers) /\ n \in 0 .. Len(ready)
    /\ queue' = queue \o [k \in 1 .. n |-> Item(log, ready[k])]
    /\ in_progress' = in_progress \cup {ready[k] : k \in 1 .. n}
    /\ \A k \in 1 .. n : ready[k] \notin in_progress
    /\ \A k \in 1 .. n : \A h \in 1 .. n : ready[h] = ready[k] => h = k

LEMMA ReadyAreQueued ==
  ASSUME NEW log, NEW marks \in SUBSET Streamers, ProcessStreamers(log, marks)
  PROVE  marked' \in SUBSET Streamers /\ \E ready, n : Queues(log, ready, n)
<1> DEFINE c == CheckStreamers(log, marks, in_progress)
           ready == c.ready
           P(j) == ready[j] \notin in_progress /\ \A h \in 1 .. j - 1 : ready[h] # ready[j]
           S == Started(ready)
<1>1. c \in Checks
  BY CheckType
<1>2. /\ queue' = queue \o Queued(log, ready)
      /\ in_progress' = in_progress \cup {ready[k] : k \in S}
      /\ marked' = c.marks
  BY DEF ProcessStreamers
<1> HIDE DEF c
<1>3. ready \in Seq(Streamers) /\ Len(ready) \in Nat /\ DOMAIN ready = 1 .. Len(ready)
      /\ marked' \in SUBSET Streamers
  BY <1>1, <1>2 DEF Checks
<1> HIDE DEF ready
<1>4. S = {k \in 1 .. Len(ready) : \A j \in 1 .. k : P(j)}
  BY <1>3 DEF Started
<1> HIDE DEF P, S
<1>5. PICK n \in 0 .. Len(ready) : S = 1 .. n
  <2>1. CASE S = {}
    BY <1>3, <2>1
  <2>2. CASE S # {}
    <3>1. S \in SUBSET (0 .. Len(ready))
      BY <1>3, <1>4
    <3>2. PICK n \in S : \A k \in S : k <= n
      BY <1>3, <2>2, <3>1, GreatestNat
    <3>3. S \subseteq 1 .. n /\ n \in 1 .. Len(ready)
      BY <1>3, <1>4, <3>2
    <3>4. ASSUME NEW k \in 1 .. n PROVE k \in S
      BY <1>3, <1>4, <3>2, <3>3
    <3>5. S = 1 .. n
      BY <3>3, <3>4
    <3> QED
      BY <1>3, <3>3, <3>5
  <2> QED
    BY <2>1, <2>2
<1>6. Queued(log, ready) = [k \in 1 .. n |-> Item(log, ready[k])]
  BY <1>5 DEF Queued, S
<1>7. \A k \in 1 .. n : P(k)
  BY <1>3, <1>4, <1>5
<1>8. \A k \in 1 .. n : \A h \in 1 .. n : h < k => ready[h] # ready[k]
  BY <1>3, <1>7 DEF P
<1>9. ASSUME NEW k \in 1 .. n, NEW h \in 1 .. n, ready[h] = ready[k] PROVE h = k
  BY <1>3, <1>8, <1>9
<1>10. \A k \in 1 .. n : ready[k] \notin in_progress
  BY <1>7 DEF P
<1>11. Queues(log, ready, n)
  BY <1>2, <1>3, <1>5, <1>6, <1>9, <1>10 DEF Queues
<1> QED
  BY <1>3, <1>11

\* What is in the queue then, place by place.
LEMMA QueueAfter ==
  ASSUME StreamTypes, NEW log \in Seq(Streamers), NEW ready, NEW n, Queues(log, ready, n)
  PROVE  /\ queue' \in Seq(ItemType) /\ DOMAIN queue' = 1 .. Len(queue) + n
         /\ Len(queue) \in Nat /\ n \in Nat /\ DOMAIN queue = 1 .. Len(queue)
         /\ \A k \in 1 .. Len(queue) : queue'[k] = queue[k]
         /\ \A k \in 1 .. n : /\ queue'[Len(queue) + k] = Item(log, ready[k])
                              /\ ready[k] \in Streamers
         /\ in_progress' \in SUBSET Streamers
<1>1. ready \in Seq(Streamers) /\ n \in 0 .. Len(ready) /\ Len(ready) \in Nat /\ n \in Nat
  BY DEF Queues
<1>2. \A k \in 1 .. n : ready[k] \in Streamers
  BY <1>1
<1>3. ASSUME NEW i \in Streamers PROVE Item(log, i) \in ItemType
  <2>1. Cardinality(Ahead(log, i, walker[i])) \in Int
    BY AheadIsStored
  <2> QED
    BY <2>1 DEF Item, ItemType
<1> DEFINE new == [k \in 1 .. n |-> Item(log, ready[k])]
<1>4. new \in Seq(ItemType) /\ Len(new) = n
  BY <1>1, <1>2, <1>3
<1>5. queue' = queue \o new /\ queue \in Seq(ItemType)
  BY DEF Queues, StreamTypes
<1>6. \A k \in 1 .. n : new[k] = Item(log, ready[k])
  OBVIOUS
<1> HIDE DEF new
<1>7. queue' \in Seq(ItemType) /\ DOMAIN queue' = 1 .. Len(queue) + n
  <2>1. queue \o new \in Seq(ItemType) /\ Len(queue \o new) = Len(queue) + n
    BY <1>4, <1>5, ConcatProperties
  <2>2. queue' \in Seq(ItemType) /\ Len(queue') = Len(queue) + n
    BY <1>5, <2>1
  <2> QED
    BY <2>2
<1>8. Len(queue) \in Nat /\ DOMAIN queue = 1 .. Len(queue)
  BY <1>5
<1>9. \A k \in 1 .. Len(queue) : queue'[k] = queue[k]
  BY <1>1, <1>4, <1>5, <1>8
<1>10. \A k \in 1 .. n : queue'[Len(queue) + k] = Item(log, ready[k])
  BY <1>1, <1>4, <1>5, <1>6, <1>8
<1>11. in_progress' \in SUBSET Streamers
  <2>1. in_progress' = in_progress \cup {ready[k] : k \in 1 .. n} /\ in_progress \in SUBSET Streamers
    BY DEF Queues, StreamTypes
  <2> QED
    BY <1>2, <2>1
<1> QED
  BY <1>1, <1>2, <1>7, <1>8, <1>9, <1>10, <1>11

-----------------------------------------------------------------------------
(* What acknowledging and streaming change, and that it keeps the types. *)

LEMMA SeekMoves ==
  ASSUME StreamTypes, NEW i \in Streamers, NEW value \in 0 .. Len(stored), Seek(i, value)
  PROVE  /\ walker' \in [Streamers -> 1 .. Len(stored) + 1]
         /\ \A j \in Streamers : j # i => walker'[j] = walker[j]
         /\ \A k \in DOMAIN stored : k > value => k >= walker'[i]
<1>1. walker \in [Streamers -> 1 .. Len(stored) + 1] /\ Len(stored) \in Nat
      /\ DOMAIN stored = 1 .. Len(stored)
  BY DEF StreamTypes
<1>2. PICK v \in 1 .. Len(stored) + 1 : /\ walker' = [walker EXCEPT ![i] = v]
                                        /\ v \in {value, value + 1} \/ (value = 0 /\ v = 1)
  <2> DEFINE v == IF value \in DOMAIN stored THEN (IF stored[value] = i THEN value + 1 ELSE value)
                  ELSE IF value > Len(stored) THEN Len(stored) + 1
                  ELSE 1
  <2>1. walker' = [walker EXCEPT ![i] = v]
    BY DEF Seek
  <2>2. v \in 1 .. Len(stored) + 1 /\ (v \in {value, value + 1} \/ (value = 0 /\ v = 1))
    BY <1>1
  <2> QED
    BY <2>1, <2>2
<1>3. walker'[i] = v
  BY <1>1, <1>2
<1> QED
  BY <1>1, <1>2, <1>3

\* Either an old acknowledgement changes nothing, or what is ahead of the walker then is
\* what has not been acknowledged.
Unmoved(i, ack, force) == ack # 0 /\ ack <= acks[i] /\ ~force /\ acks' = acks /\ walker' = walker
SoughtTo(i) == \A k \in DOMAIN stored : k > acks'[i] => k >= walker'[i]

AckTypes ==
    /\ walker' \in [Streamers -> 1 .. Len(stored) + 1]
    /\ acks' \in [Streamers -> 0 .. Len(stored)]
OnlyOf(i) == \A j \in Streamers : j # i => walker'[j] = walker[j] /\ acks'[j] = acks[j]

LEMMA AcknowledgeMoves ==
  ASSUME StreamTypes, NEW i \in Streamers, NEW ack \in 0 .. Len(stored), NEW force \in BOOLEAN,
         Acknowledge(i, ack, force)
  PROVE  /\ AckTypes /\ OnlyOf(i)
         /\ acks'[i] >= acks[i] \/ force
         /\ Unmoved(i, ack, force) \/ SoughtTo(i)
<1>1. acks \in [Streamers -> 0 .. Len(stored)] /\ Len(stored) \in Nat
  BY DEF StreamTypes
<1>2. CASE ack # 0 /\ ack <= acks[i] /\ ~force
  <2>1. acks' = acks /\ walker' = walker
    BY <1>2 DEF Acknowledge
  <2> QED
    BY <1>1, <1>2, <2>1 DEF StreamTypes, AckTypes, OnlyOf, Unmoved
<1>3. CASE ~(ack # 0 /\ ack <= acks[i] /\ ~force)
  <2> DEFINE current == IF ack # 0 THEN ack ELSE acks[i]
  <2>1. acks' = [acks EXCEPT ![i] = current] /\ Seek(i, current)
    BY <1>3 DEF Acknowledge
  <2>2. current \in 0 .. Len(stored) /\ (current >= acks[i] \/ force)
    BY <1>1, <1>3
  <2> HIDE DEF current
  <2>3. acks'[i] = current /\ acks' \in [Streamers -> 0 .. Len(stored)]
        /\ \A j \in Streamers : j # i => acks'[j] = acks[j]
    BY <1>1, <2>1, <2>2
  <2>4. /\ walker' \in [Streamers -> 1 .. Len(stored) + 1]
        /\ \A j \in Streamers : j # i => walker'[j] = walker[j]
        /\ \A k \in DOMAIN stored : k > current => k >= walker'[i]
    BY <2>1, <2>2, SeekMoves
  <2> QED
    BY <2>2, <2>3, <2>4 DEF AckTypes, OnlyOf, SoughtTo
<1> QED
  BY <1>2, <1>3

\* One worker changes, to v.
WorkerBecomes(w, v) ==
    /\ worker' \in Seq(Workers) /\ Len(worker') = Len(worker)
    /\ worker'[w] = v /\ \A x \in DOMAIN worker : x # w => worker'[x] = worker[x]

LEMMA WorkerSet ==
  ASSUME StreamTypes, NEW w \in DOMAIN worker, NEW v \in Workers, worker' = [worker EXCEPT ![w] = v]
  PROVE  WorkerBecomes(w, v)
<1>1. worker \in Seq(Workers)
  BY DEF StreamTypes
<1> QED
  BY <1>1 DEF WorkerBecomes

AcksGrow == \A i \in Streamers : acks'[i] >= acks[i]

\* What is true of acknowledgements when nothing is acknowledged.
LEMMA AcksUnchanged ==
  ASSUME StreamTypes, acks' = acks, walker' = walker
  PROVE  AckTypes /\ AcksGrow /\ \A i : OnlyOf(i)
<1>1. acks \in [Streamers -> 0 .. Len(stored)] /\ Len(stored) \in Nat
  BY DEF StreamTypes
<1> QED
  BY <1>1 DEF StreamTypes, AckTypes, AcksGrow, OnlyOf

LEMMA FinishMoves ==
  ASSUME StreamTypes, NEW w \in DOMAIN worker, NEW item, SentIsStored(item, Len(stored)),
         NEW succeeded, Finish(w, item, succeeded)
  PROVE  /\ AckTypes /\ OnlyOf(item.streamer) /\ AcksGrow
         /\ in_progress' = in_progress \ {item.streamer}
         /\ item.streamer \in in_progress => WorkerBecomes(w, Idle)
                /\ (Unmoved(item.streamer, item.ack, FALSE) \/ SoughtTo(item.streamer))
         /\ item.streamer \notin in_progress => WorkerBecomes(w, Dead)
<1>1. item.streamer \in Streamers /\ item.ack \in 0 .. Len(stored) /\ Len(stored) \in Nat
  BY DEF SentIsStored, ItemType, StreamTypes
<1>2. Idle \in Workers /\ Dead \in Workers
  BY DEF Workers
<1>3. CASE item.streamer \in in_progress
  <2>1. /\ in_progress' = in_progress \ {item.streamer}
        /\ worker' = [worker EXCEPT ![w] = Idle]
        /\ Acknowledge(item.streamer, item.ack, FALSE)
    BY <1>3 DEF Finish
  <2>2. /\ AckTypes /\ OnlyOf(item.streamer) /\ acks'[item.streamer] >= acks[item.streamer]
        /\ Unmoved(item.streamer, item.ack, FALSE) \/ SoughtTo(item.streamer)
    BY <1>1, <2>1, AcknowledgeMoves
  <2>3. AcksGrow
    <3>1. \A j \in Streamers : acks[j] \in Nat
      BY <1>1 DEF StreamTypes
    <3> QED
      BY <2>2, <3>1 DEF AcksGrow, OnlyOf
  <2>4. WorkerBecomes(w, Idle)
    BY <1>2, <2>1, WorkerSet
  <2> QED
    BY <1>3, <2>1, <2>2, <2>3, <2>4
<1>4. CASE item.streamer \notin in_progress
  <2>1. worker' = [worker EXCEPT ![w] = Dead] /\ in_progress' = in_progress
        /\ acks' = acks /\ walker' = walker
    BY <1>4 DEF Finish
  <2>2. WorkerBecomes(w, Dead)
    BY <1>2, <2>1, WorkerSet
  <2> QED
    BY <1>4, <2>1, <2>2, AcksUnchanged
<1> QED
  BY <1>3, <1>4

\* What is left of an item when its next report is being sent.
Moved(item) ==
    [streamer |-> item.streamer,
     left |-> item.left - Cardinality(Batch(item)),
     ack |-> IF item.streamer \in Individual THEN MaxOf(Batch(item)) ELSE item.ack,
     own |-> IF item.own = NULL THEN NULL ELSE MaxOf(Batch(item)) + 1]
NextReport(item) == [pc |-> "sending", item |-> Moved(item), batch |-> Batch(item)]

Sends(w, item) ==
    /\ Batch(item) # {} /\ WorkerBecomes(w, NextReport(item))
    /\ item.own = NULL => walker' = [walker EXCEPT ![item.streamer] = MaxOf(Batch(item)) + 1]
    /\ item.own # NULL => walker' = walker
    /\ in_progress' = in_progress /\ acks' = acks

LEMMA SendingFields ==
  ASSUME NEW item
  PROVE  /\ NextReport(item).pc = "sending" /\ NextReport(item).item = Moved(item)
         /\ NextReport(item).batch = Batch(item)
         /\ Moved(item).streamer = item.streamer
         /\ Moved(item).ack = IF item.streamer \in Individual THEN MaxOf(Batch(item)) ELSE item.ack
         /\ Moved(item).own = IF item.own = NULL THEN NULL ELSE MaxOf(Batch(item)) + 1
  BY DEF NextReport, Moved

LEMMA SendingType ==
  ASSUME StreamTypes, NEW item, SentIsStored(item, Len(stored)), Batch(item) # {}
  PROVE  /\ SentIsStored(Moved(item), Len(stored)) /\ NextReport(item) \in Workers
         /\ MaxOf(Batch(item)) \in 1 .. Len(stored)
<1>1. item \in ItemType /\ item.ack <= Len(stored) /\ Len(stored) \in Nat
  BY DEF SentIsStored, StreamTypes
<1>2. Batch(item) \in SUBSET (1 .. Len(stored)) /\ Cardinality(Batch(item)) \in Nat
      /\ MaxOf(Batch(item)) \in Batch(item)
  BY <1>1, BatchIsAhead
<1>3. MaxOf(Batch(item)) \in 1 .. Len(stored)
  BY <1>2
<1>4. item.streamer \in Streamers /\ item.left \in Int /\ item.ack \in Nat
  BY <1>1 DEF ItemType
<1> DEFINE ack == IF item.streamer \in Individual THEN MaxOf(Batch(item)) ELSE item.ack
           own == IF item.own = NULL THEN NULL ELSE MaxOf(Batch(item)) + 1
           left == item.left - Cardinality(Batch(item))
<1>5. ack \in Nat /\ ack <= Len(stored) /\ own \in Nat \cup {NULL} /\ left \in Int
  BY <1>1, <1>2, <1>3, <1>4
<1>6. Moved(item) = [streamer |-> item.streamer, left |-> left, ack |-> ack, own |-> own]
  BY DEF Moved
<1> HIDE DEF ack, own, left
<1>7. Moved(item) \in ItemType /\ Moved(item).ack <= Len(stored)
  BY <1>4, <1>5, <1>6 DEF ItemType
<1>8. NextReport(item) \in Workers
  <2>1. Batch(item) \in SUBSET Nat
    BY <1>2
  <2> QED
    BY <1>7, <2>1, ReportingWorker DEF NextReport
<1> QED
  BY <1>3, <1>7, <1>8 DEF SentIsStored

LEMMA ContinueMoves ==
  ASSUME StreamTypes, NEW w \in DOMAIN worker, NEW item, SentIsStored(item, Len(stored)),
         Continue(w, item)
  PROVE  Sends(w, item) \/ Finish(w, item, item.left <= 0)
<1>1. CASE item.left > 0 /\ Batch(item) # {}
  <2>1. /\ worker' = [worker EXCEPT ![w] = NextReport(item)]
        /\ walker' = IF item.own = NULL THEN [walker EXCEPT ![item.streamer] = MaxOf(Batch(item)) + 1] ELSE walker
        /\ in_progress' = in_progress /\ acks' = acks
    BY <1>1 DEF Continue, NextReport, Moved
  <2>2. WorkerBecomes(w, NextReport(item))
    BY <1>1, <2>1, SendingType, WorkerSet
  <2> QED
    BY <1>1, <2>1, <2>2 DEF Sends
<1>2. CASE ~(item.left > 0 /\ Batch(item) # {})
  BY <1>2 DEF Continue
<1> QED
  BY <1>1, <1>2

LEMMA SendsTypes ==
  ASSUME StreamTypes, NEW w \in DOMAIN worker, NEW item, SentIsStored(item, Len(stored)),
         Sends(w, item)
  PROVE  AckTypes /\ AcksGrow /\ in_progress' \in SUBSET Streamers
<1>1. MaxOf(Batch(item)) \in 1 .. Len(stored) /\ Len(stored) \in Nat
  <2>1. Batch(item) # {}
    BY DEF Sends
  <2>2. Len(stored) \in Nat
    BY DEF StreamTypes
  <2> QED
    BY <2>1, <2>2, SendingType
<1>2. walker' \in [Streamers -> 1 .. Len(stored) + 1]
  <2>1. walker \in [Streamers -> 1 .. Len(stored) + 1]
    BY DEF StreamTypes
  <2>2. MaxOf(Batch(item)) + 1 \in 1 .. Len(stored) + 1
    BY <1>1
  <2>3. CASE item.own = NULL
    BY <2>1, <2>2, <2>3 DEF Sends
  <2>4. CASE item.own # NULL
    BY <2>1, <2>4 DEF Sends
  <2> QED
    BY <2>3, <2>4
<1>3. AcksGrow
  BY <1>1 DEF AcksGrow, StreamTypes, Sends
<1> QED
  BY <1>2, <1>3 DEF AckTypes, Sends, StreamTypes

\* The part of the types that only workers change.
WorkerTypes ==
    /\ worker' \in Seq(Workers) /\ Len(worker') >= 1
    /\ \A w \in DOMAIN worker' : worker'[w].pc = "sending" =>
            worker'[w].item.ack <= Len(stored) /\ worker'[w].batch \subseteq 1 .. Len(stored)

LEMMA BecomesTypes ==
  ASSUME StreamTypes, NEW w \in DOMAIN worker, NEW v, WorkerBecomes(w, v),
         v.pc = "sending" => v.item.ack <= Len(stored) /\ v.batch \subseteq 1 .. Len(stored)
  PROVE  WorkerTypes
<1>1. Len(worker) >= 1 /\ DOMAIN worker' = DOMAIN worker
  BY DEF StreamTypes, WorkerBecomes
<1> QED
  BY <1>1 DEF StreamTypes, WorkerBecomes, WorkerTypes

\* Whatever a worker does with an item keeps these types.
StepTypes == AckTypes /\ WorkerTypes /\ AcksGrow /\ in_progress' \in SUBSET Streamers

LEMMA FinishTypes ==
  ASSUME StreamTypes, NEW w \in DOMAIN worker, NEW item, SentIsStored(item, Len(stored)),
         NEW succeeded, Finish(w, item, succeeded)
  PROVE  StepTypes
<1>1. AckTypes /\ AcksGrow /\ in_progress' \in SUBSET Streamers
  BY FinishMoves DEF StreamTypes
<1>2. WorkerBecomes(w, Idle) \/ WorkerBecomes(w, Dead)
  BY FinishMoves
<1>3. Idle.pc # "sending" /\ Dead.pc # "sending"
  BY DEF Idle, Dead
<1>4. WorkerTypes
  BY <1>2, <1>3, BecomesTypes
<1> QED
  BY <1>1, <1>4 DEF StepTypes

LEMMA ContinueTypes ==
  ASSUME StreamTypes, NEW w \in DOMAIN worker, NEW item, SentIsStored(item, Len(stored)),
         Continue(w, item)
  PROVE  StepTypes
<1>1. CASE Sends(w, item)
  <2>1. SentIsStored(Moved(item), Len(stored)) /\ Batch(item) \in SUBSET (1 .. Len(stored))
    BY <1>1, SendingType, BatchIsAhead DEF Sends, SentIsStored
  <2>2. WorkerTypes
    BY <1>1, <2>1, BecomesTypes, SendingFields DEF Sends, SentIsStored
  <2> QED
    BY <1>1, <2>2, SendsTypes DEF StepTypes
<1>2. CASE Finish(w, item, item.left <= 0)
  BY <1>2, FinishTypes
<1> QED
  BY <1>1, <1>2, ContinueMoves

-----------------------------------------------------------------------------
(* Every step keeps the types, and takes back an acknowledgement only if it is forced to. *)

Grown ==
    \A i \in Streamers :
        acks'[i] >= acks[i] \/ \E a \in received \cup {0} : Ack(i, a, TRUE)

LEMMA StepTypesAreTypes ==
  ASSUME StreamTypes, StepTypes, UNCHANGED <<stored, marked, received>>,
         queue' \in Seq(ItemType), \A k \in DOMAIN queue' : queue'[k].ack <= Len(stored),
         resetting' \in BOOLEAN
  PROVE  StreamTypes'
  BY DEF StreamTypes, StepTypes, AckTypes, WorkerTypes

LEMMA AcksGrowIsGrown == AcksGrow => Grown
  BY DEF AcksGrow, Grown

LEMMA QueuedTypes ==
  ASSUME StreamTypes, NEW log \in Seq(Streamers), Len(log) >= Len(stored),
         NEW ready, NEW n, Queues(log, ready, n)
  PROVE  /\ queue' \in Seq(ItemType) /\ in_progress' \in SUBSET Streamers
         /\ \A k \in DOMAIN queue' : queue'[k].ack <= Len(log)
<1>1. Len(stored) \in Nat /\ Len(log) \in Nat
  BY DEF StreamTypes
<1>2. \A k \in 1 .. Len(queue) : queue[k].ack \in Nat /\ queue[k].ack <= Len(stored)
  <2>1. queue \in Seq(ItemType)
    BY DEF StreamTypes
  <2>2. \A k \in 1 .. Len(queue) : queue[k] \in ItemType /\ k \in DOMAIN queue
    BY <2>1
  <2>3. \A k \in 1 .. Len(queue) : queue[k].ack \in Nat
    BY <2>2 DEF ItemType
  <2> QED
    BY <2>2, <2>3 DEF StreamTypes
<1>3. \A i : Item(log, i).ack = 0
  BY DEF Item
<1>4. ASSUME NEW k \in DOMAIN queue' PROVE queue'[k].ack <= Len(log)
  <2>1. CASE k \in 1 .. Len(queue)
    BY <1>1, <1>2, <2>1, QueueAfter
  <2>2. CASE k \notin 1 .. Len(queue)
    <3>0. Len(queue) \in Nat /\ n \in Nat /\ k \in 1 .. Len(queue) + n
      BY QueueAfter
    <3>1. k - Len(queue) \in 1 .. n /\ k = Len(queue) + (k - Len(queue))
      BY <2>2, <3>0
    <3>2. queue'[k] = Item(log, ready[k - Len(queue)])
      BY <3>1, QueueAfter
    <3> QED
      BY <1>1, <1>3, <3>2
  <2> QED
    BY <2>1, <2>2
<1> QED
  BY <1>4, QueueAfter

LEMMA InputTypes ==
  ASSUME StreamTypes, NEW i \in Streamers, Input(i)
  PROVE  StreamTypes' /\ Grown
<1>1. stored' = Append(stored, i) /\ ProcessStreamers(stored', marked)
      /\ UNCHANGED <<walker, worker, acks, received, resetting>>
  BY DEF Input
<1>2. stored' \in Seq(Streamers) /\ Len(stored) \in Nat /\ Len(stored') = Len(stored) + 1
  BY <1>1 DEF StreamTypes
<1>3. marked \in SUBSET Streamers
  BY DEF StreamTypes
<1>4. PICK ready, n : Queues(stored', ready, n)
  BY <1>1, <1>3, ReadyAreQueued
<1>5. marked' \in SUBSET Streamers
  BY <1>1, <1>3, ReadyAreQueued
<1>6. /\ queue' \in Seq(ItemType) /\ in_progress' \in SUBSET Streamers
      /\ \A k \in DOMAIN queue' : queue'[k].ack <= Len(stored')
  <2>1. Len(stored') >= Len(stored)
    BY <1>2
  <2> QED
    BY <1>2, <1>4, <2>1, QueuedTypes
<1>7. walker' \in [Streamers -> 1 .. Len(stored') + 1] /\ acks' \in [Streamers -> 0 .. Len(stored')]
  <2>1. 1 .. Len(stored) + 1 \subseteq 1 .. Len(stored') + 1 /\ 0 .. Len(stored) \subseteq 0 .. Len(stored')
    BY <1>2
  <2> QED
    BY <1>1, <2>1 DEF StreamTypes
<1>8. ASSUME NEW w \in DOMAIN worker', worker'[w].pc = "sending"
      PROVE  worker'[w].item.ack <= Len(stored') /\ worker'[w].batch \subseteq 1 .. Len(stored')
  <2>1. worker[w] \in Workers /\ worker[w] = worker'[w] /\ w \in DOMAIN worker
    BY <1>1, <1>8 DEF StreamTypes
  <2>2. worker[w].item.ack \in Nat
    BY <1>8, <2>1, WorkerIs DEF ItemType
  <2>3. worker[w].item.ack <= Len(stored) /\ worker[w].batch \subseteq 1 .. Len(stored)
    BY <1>8, <2>1 DEF StreamTypes
  <2> QED
    BY <1>2, <2>1, <2>2, <2>3
<1>9. received' \in SUBSET (1 .. Len(stored'))
  BY <1>1, <1>2 DEF StreamTypes
<1>10. Grown
  BY <1>1, AcksUnchanged, AcksGrowIsGrown
<1> QED
  BY <1>1, <1>2, <1>5, <1>6, <1>7, <1>8, <1>9, <1>10 DEF StreamTypes

LEMMA TriggerTypes ==
  ASSUME StreamTypes, NEW i \in Streamers, Trigger(i)
  PROVE  StreamTypes' /\ Grown
<1>1. ProcessStreamers(stored, marked \cup {i})
      /\ UNCHANGED <<stored, walker, worker, acks, received, resetting>>
  BY DEF Trigger
<1>2. stored \in Seq(Streamers) /\ Len(stored) \in Nat /\ marked \cup {i} \in SUBSET Streamers
  BY DEF StreamTypes
<1>3. PICK ready, n : Queues(stored, ready, n)
  BY <1>1, <1>2, ReadyAreQueued
<1>4. marked' \in SUBSET Streamers
  BY <1>1, <1>2, ReadyAreQueued
<1>5. /\ queue' \in Seq(ItemType) /\ in_progress' \in SUBSET Streamers
      /\ \A k \in DOMAIN queue' : queue'[k].ack <= Len(stored)
  <2>1. Len(stored) >= Len(stored)
    BY <1>2
  <2> QED
    BY <1>2, <1>3, <2>1, QueuedTypes
<1>6. Grown
  BY <1>1, AcksUnchanged, AcksGrowIsGrown
<1> QED
  BY <1>1, <1>4, <1>5, <1>6 DEF StreamTypes

LEMMA AckKeepsTypes ==
  ASSUME StreamTypes, NEW i \in Streamers, NEW a \in received \cup {0}, NEW force \in BOOLEAN,
         Ack(i, a, force)
  PROVE  StreamTypes' /\ Grown
<1>1. Acknowledge(i, a, force)
      /\ UNCHANGED <<stored, marked, in_progress, queue, worker, received, resetting>>
  BY DEF Ack
<1>2. a \in 0 .. Len(stored) /\ \A j \in Streamers : acks[j] \in Nat
  BY DEF StreamTypes
<1>3. AckTypes /\ OnlyOf(i) /\ (acks'[i] >= acks[i] \/ force)
  BY <1>1, <1>2, AcknowledgeMoves
<1>4. StreamTypes'
  BY <1>1, <1>3 DEF AckTypes, StreamTypes
<1>5. ASSUME NEW j \in Streamers PROVE acks'[j] >= acks[j] \/ \E b \in received \cup {0} : Ack(j, b, TRUE)
  <2>1. CASE j # i
    <3>1. acks'[j] = acks[j] /\ acks[j] \in Nat
      BY <1>2, <1>3, <2>1 DEF OnlyOf
    <3>2. acks'[j] >= acks[j]
      BY <3>1
    <3> QED
      BY <3>2
  <2>2. CASE j = i
    BY <1>3, <2>2
  <2> QED
    BY <2>1, <2>2
<1> QED
  BY <1>4, <1>5 DEF Grown

LEMMA TakeTypes ==
  ASSUME StreamTypes, NEW w \in DOMAIN worker, Take(w)
  PROVE  /\ StreamTypes' /\ Grown
         /\ queue # <<>> /\ Head(queue) = queue[1] /\ SentIsStored(Head(queue), Len(stored))
         /\ Len(queue) \in Nat /\ 1 \in DOMAIN queue
         /\ DOMAIN queue' = 1 .. Len(queue) - 1
         /\ \A k \in DOMAIN queue' : queue'[k] = queue[k + 1] /\ k + 1 \in DOMAIN queue
<1>1. /\ queue # <<>> /\ queue' = Tail(queue) /\ Continue(w, Head(queue))
      /\ UNCHANGED <<stored, marked, received, resetting>>
  BY DEF Take
<1>2. queue \in Seq(ItemType)
  BY DEF StreamTypes
<1>3. /\ Head(queue) = queue[1] /\ 1 \in DOMAIN queue /\ Len(queue) \in Nat
      /\ queue' \in Seq(ItemType) /\ DOMAIN queue' = 1 .. Len(queue) - 1
      /\ \A k \in DOMAIN queue' : queue'[k] = queue[k + 1] /\ k + 1 \in DOMAIN queue
  BY <1>1, <1>2
<1>4. SentIsStored(Head(queue), Len(stored))
  BY <1>2, <1>3 DEF StreamTypes, SentIsStored
<1>5. \A k \in DOMAIN queue' : queue'[k].ack <= Len(stored)
  BY <1>3 DEF StreamTypes
<1>6. StepTypes
  BY <1>1, <1>4, ContinueTypes
<1>7. StreamTypes'
  <2>1. resetting' \in BOOLEAN
    BY <1>1 DEF StreamTypes
  <2> QED
    BY <1>1, <1>3, <1>5, <1>6, <2>1, StepTypesAreTypes
<1>8. Grown
  BY <1>6, AcksGrowIsGrown DEF StepTypes
<1> QED
  BY <1>1, <1>3, <1>4, <1>7, <1>8

LEMMA SentItem ==
  ASSUME StreamTypes, NEW w \in DOMAIN worker, worker[w].pc = "sending"
  PROVE  SentIsStored(worker[w].item, Len(stored)) /\ worker[w].batch \in SUBSET (1 .. Len(stored))
<1>1. worker[w] \in Workers
  BY DEF StreamTypes
<1>2. worker[w].item \in ItemType
  BY <1>1, WorkerIs
<1> QED
  BY <1>2 DEF SentIsStored, StreamTypes

LEMMA SentTypes ==
  ASSUME StreamTypes, NEW w \in DOMAIN worker, StrSent(w)
  PROVE  StreamTypes' /\ Grown
<1>1. /\ worker[w].pc = "sending" /\ received' = received \cup worker[w].batch
      /\ Continue(w, worker[w].item)
      /\ UNCHANGED <<stored, marked, queue, resetting>>
  BY DEF StrSent
<1>2. StepTypes
  BY <1>1, SentItem, ContinueTypes
<1>3. received' \in SUBSET (1 .. Len(stored))
  BY <1>1, SentItem DEF StreamTypes
<1>4. StreamTypes'
  BY <1>1, <1>2, <1>3 DEF StreamTypes, StepTypes, AckTypes, WorkerTypes
<1> QED
  BY <1>2, <1>4, AcksGrowIsGrown DEF StepTypes

LEMMA FailedTypes ==
  ASSUME StreamTypes, NEW w \in DOMAIN worker, Failed(w)
  PROVE  StreamTypes' /\ Grown
<1>1. /\ worker[w].pc = "sending" /\ Finish(w, worker[w].item, FALSE)
      /\ UNCHANGED <<stored, marked, queue, received, resetting>>
  BY DEF Failed
<1>2. StepTypes
  BY <1>1, SentItem, FinishTypes
<1>3. StreamTypes'
  BY <1>1, <1>2 DEF StreamTypes, StepTypes, AckTypes, WorkerTypes
<1> QED
  BY <1>2, <1>3, AcksGrowIsGrown DEF StepTypes

LEMMA ResetTypes ==
  ASSUME StreamTypes, Reset
  PROVE  StreamTypes' /\ Grown
<1> DEFINE w == Len(worker)
<1>1. w \in DOMAIN worker
  BY DEF StreamTypes
<1>2. resetting' = TRUE /\ UNCHANGED <<stored, marked, queue, received>>
  BY DEF Reset
<1>3. StepTypes
  <2>1. CASE worker[w].pc = "sending"
    <3>1. Finish(w, worker[w].item, FALSE)
      BY <2>1 DEF Reset
    <3> HIDE DEF w
    <3> QED
      BY <1>1, <2>1, <3>1, SentItem, FinishTypes
  <2>2. CASE worker[w].pc # "sending"
    <3>1. worker' = [worker EXCEPT ![w] = Dead] /\ UNCHANGED <<in_progress, acks, walker>>
      BY <2>2 DEF Reset
    <3> HIDE DEF w
    <3>2. WorkerBecomes(w, Dead)
      BY <1>1, <3>1, WorkerSet DEF Workers
    <3>3. WorkerTypes
      BY <1>1, <3>2, BecomesTypes DEF Dead
    <3> QED
      BY <3>1, <3>3, AcksUnchanged DEF StepTypes, StreamTypes
  <2> QED
    BY <2>1, <2>2
<1>4. StreamTypes'
  BY <1>2, <1>3 DEF StreamTypes, StepTypes, AckTypes, WorkerTypes
<1> QED
  BY <1>3, <1>4, AcksGrowIsGrown DEF StepTypes

LEMMA OrphanType ==
  ASSUME StreamTypes, NEW item \in ItemType
  PROVE  Orphan(item) \in ItemType /\ Orphan(item).ack = item.ack
<1>1. Position(item) \in Nat \cup {NULL}
  <2>1. item.own \in Nat \cup {NULL} /\ item.streamer \in Streamers
    BY DEF ItemType
  <2>2. walker[item.streamer] \in Nat
    BY <2>1 DEF StreamTypes
  <2> QED
    BY <2>1, <2>2 DEF Position
<1> QED
  BY <1>1 DEF Orphan, ItemType

LEMMA ClearTypes ==
  ASSUME StreamTypes, ClearToReset
  PROVE  StreamTypes' /\ Grown
<1> DEFINE orphaned == [w \in DOMAIN worker |-> IF worker[w].item = NULL THEN worker[w]
                            ELSE [worker[w] EXCEPT !.item = Orphan(@)]]
<1>1. /\ resetting' = FALSE /\ in_progress' = {}
      /\ queue' = [k \in DOMAIN queue |-> Orphan(queue[k])]
      /\ worker' = Append(orphaned, Idle)
      /\ walker' = [i \in Streamers |->
                    IF acks[i] = 0 \/ acks[i] > Len(stored) THEN Len(stored) + 1
                    ELSE IF stored[acks[i]] = i THEN acks[i] + 1 ELSE acks[i]]
      /\ UNCHANGED <<stored, marked, acks, received>>
  BY DEF ClearToReset
<1>2. queue \in Seq(ItemType) /\ worker \in Seq(Workers) /\ Len(stored) \in Nat
  BY DEF StreamTypes
<1>3. ASSUME NEW w \in DOMAIN worker
      PROVE  /\ orphaned[w] \in Workers
             /\ orphaned[w].pc = "sending" =>
                    orphaned[w].item.ack <= Len(stored) /\ orphaned[w].batch \subseteq 1 .. Len(stored)
  <2>1. worker[w] \in Workers
    BY <1>2
  <2>2. CASE worker[w].item = NULL
    <3>1. orphaned[w] = worker[w]
      BY <2>2
    <3> HIDE DEF orphaned
    <3> QED
      BY <2>1, <3>1 DEF StreamTypes
  <2>3. CASE worker[w].item # NULL
    <3>1. worker[w].pc = "sending" /\ worker[w] \in [pc : {"sending"}, item : ItemType, batch : SUBSET Nat]
      BY <2>1, <2>3, WorkerIs DEF Workers
    <3>2. Orphan(worker[w].item) \in ItemType /\ Orphan(worker[w].item).ack = worker[w].item.ack
      BY <3>1, OrphanType
    <3>3. orphaned[w] = [worker[w] EXCEPT !.item = Orphan(worker[w].item)]
      BY <2>3
    <3>4. /\ orphaned[w] \in [pc : {"sending"}, item : ItemType, batch : SUBSET Nat]
          /\ orphaned[w].item = Orphan(worker[w].item) /\ orphaned[w].batch = worker[w].batch
      <4> HIDE DEF orphaned
      <4> QED
        BY <3>1, <3>2, <3>3
    <3>5. worker[w].item.ack <= Len(stored) /\ worker[w].batch \subseteq 1 .. Len(stored)
      BY <3>1 DEF StreamTypes
    <3> HIDE DEF orphaned
    <3> QED
      BY <3>2, <3>4, <3>5 DEF Workers
  <2> QED
    BY <2>2, <2>3
<1>4. orphaned \in Seq(Workers) /\ Len(orphaned) = Len(worker) /\ DOMAIN orphaned = DOMAIN worker
  BY <1>2, <1>3
<1> HIDE DEF orphaned
<1>5. Idle \in Workers /\ Idle.pc # "sending"
  BY DEF Idle, Workers
<1>6. WorkerTypes
  <2>1. worker' \in Seq(Workers) /\ Len(worker') = Len(orphaned) + 1 /\ Len(orphaned) \in Nat
    BY <1>1, <1>4, <1>5
  <2>2. \A w \in DOMAIN worker' : (w \in DOMAIN worker /\ worker'[w] = orphaned[w]) \/ worker'[w] = Idle
    BY <1>1, <1>4, <1>5, <2>1
  <2> QED
    BY <1>3, <1>5, <2>1, <2>2 DEF WorkerTypes
<1>7. /\ queue' \in Seq(ItemType)
      /\ \A k \in DOMAIN queue' : queue'[k].ack <= Len(stored)
  <2>1. ASSUME NEW k \in DOMAIN queue
        PROVE  Orphan(queue[k]) \in ItemType /\ Orphan(queue[k]).ack <= Len(stored)
    <3>1. queue[k] \in ItemType
      BY <1>2
    <3> QED
      BY <3>1, OrphanType DEF StreamTypes
  <2>2. DOMAIN queue = 1 .. Len(queue) /\ Len(queue) \in Nat
    BY <1>2
  <2> QED
    BY <1>1, <2>1, <2>2
<1>8. walker' \in [Streamers -> 1 .. Len(stored) + 1]
  <2>1. \A i \in Streamers : acks[i] \in 0 .. Len(stored)
    BY DEF StreamTypes
  <2> QED
    BY <1>1, <1>2, <2>1
<1>9. StreamTypes'
  BY <1>1, <1>6, <1>7, <1>8 DEF StreamTypes, WorkerTypes
<1>10. Grown
  <2>1. acks' = acks /\ \A i \in Streamers : acks[i] \in Nat
    BY <1>1 DEF StreamTypes
  <2>2. AcksGrow
    BY <2>1 DEF AcksGrow
  <2> QED
    BY <2>2, AcksGrowIsGrown
<1> QED
  BY <1>9, <1>10

LEMMA TypesKept == StreamTypes /\ StrNext => StreamTypes' /\ Grown
<1> SUFFICES ASSUME StreamTypes, StrNext PROVE StreamTypes' /\ Grown
  OBVIOUS
<1>1. CASE \E i \in Streamers : Input(i) \/ Trigger(i)
  BY <1>1, InputTypes, TriggerTypes
<1>2. CASE \E i \in Streamers, a \in received \cup {0}, force \in BOOLEAN : Ack(i, a, force)
  BY <1>2, AckKeepsTypes
<1>3. CASE \E w \in DOMAIN worker : Take(w) \/ StrSent(w) \/ Failed(w)
  BY <1>3, TakeTypes, SentTypes, FailedTypes
<1>4. CASE Reset \/ ClearToReset
  BY <1>4, ResetTypes, ClearTypes
<1> QED
  BY <1>1, <1>2, <1>3, <1>4 DEF StrNext

LEMMA StreamInit == StrInit => StreamTypes
<1> SUFFICES ASSUME StrInit PROVE StreamTypes
  OBVIOUS
<1>1. Idle \in Workers /\ Idle.pc # "sending"
  BY DEF Idle, Workers
<1>2. worker \in Seq(Workers) /\ Len(worker) = 1 /\ \A w \in DOMAIN worker : worker[w] = Idle
  BY <1>1 DEF StrInit
<1>3. /\ stored \in Seq(Streamers) /\ Len(stored) = 0 /\ queue \in Seq(ItemType) /\ DOMAIN queue = {}
      /\ walker \in [Streamers -> 1 .. Len(stored) + 1] /\ acks \in [Streamers -> 0 .. Len(stored)]
  BY DEF StrInit
<1>4. \A w \in DOMAIN worker : worker[w].pc # "sending"
  BY <1>1, <1>2
<1>5. \A k \in DOMAIN queue : FALSE
  BY <1>3
<1>6. marked = {} /\ in_progress = {} /\ received = {} /\ resetting = FALSE
  BY DEF StrInit
<1>7. Len(worker) >= 1
  BY <1>2
<1> QED
  BY <1>2, <1>3, <1>4, <1>5, <1>6, <1>7 DEF StreamTypes

\* Types and acknowledgements do not depend on the variables that a step leaves alone.
LEMMA StreamAlways == StrSpec => []StreamTypes
<1>1. StreamTypes /\ UNCHANGED strVars => StreamTypes'
  BY DEF StreamTypes, strVars
<1> QED
  BY <1>1, StreamInit, TypesKept, PTL DEF StrSpec

\* An acknowledgement that has been recorded is taken back only by a client that forces it:
\* not by the end of a streaming that began before it, nor by a worker that a reset replaced.
THEOREM AcksGrowAlways == StrSpec => AcksOnlyGrow
<1>1. StreamTypes /\ [StrNext]_strVars => [Grown]_strVars
  BY TypesKept
<1>2. StrSpec => [][Grown]_strVars
  BY <1>1, StreamAlways, PTL DEF StrSpec
<1> QED
  BY <1>2 DEF Grown, AcksOnlyGrow

-----------------------------------------------------------------------------
(* Until the controller is reset: what is in progress, and what has been passed. *)

\* Nothing of streamer i is left between its acknowledgement and its walker.
NothingPassed(i) == \A k \in DOMAIN stored : stored[k] = i /\ k > acks[i] => k >= walker[i]

InHand(i) == worker[1].pc = "sending" /\ worker[1].item.streamer = i
InQueue(i) == \E k \in DOMAIN queue : queue[k].streamer = i

QueueIsFresh ==
    /\ \A k \in DOMAIN queue : queue[k].ack = 0 /\ queue[k].own = NULL
    /\ \A j, k \in DOMAIN queue : queue[j].streamer = queue[k].streamer => j = k

\* What is being sent has its own streamer, is not queued as well, and if more was
\* acknowledged while it was being sent then nothing is left behind its walker.
SenderIsKnown ==
    worker[1].pc = "sending" =>
        LET item == worker[1].item IN
        /\ item.own = NULL /\ (item.streamer \notin Individual => item.ack = 0)
        /\ ~InQueue(item.streamer)
        /\ item.ack # 0 /\ item.ack <= acks[item.streamer] => NothingPassed(item.streamer)

Exact ==
    /\ QueueIsFresh /\ SenderIsKnown
    /\ \A i \in Streamers : i \in in_progress <=> InHand(i) \/ InQueue(i)
    /\ \A i \in Streamers \ in_progress : NothingPassed(i)

\* Inductive.
StreamInv == StreamTypes /\ (Undisturbed => Exact)

LEMMA ExactInit == StrInit => Exact
<1> SUFFICES ASSUME StrInit PROVE Exact
  OBVIOUS
<1>1. DOMAIN stored = {} /\ DOMAIN queue = {} /\ in_progress = {} /\ worker[1] = Idle
  BY DEF StrInit
<1>2. worker[1].pc # "sending"
  BY <1>1 DEF Idle
<1>3. \A i : ~InHand(i) /\ ~InQueue(i) /\ NothingPassed(i)
  BY <1>1, <1>2 DEF InHand, InQueue, NothingPassed
<1> QED
  BY <1>1, <1>2, <1>3 DEF Exact, QueueIsFresh, SenderIsKnown

\* More is stored: it is ahead of every walker.
LEMMA NewIsAhead ==
  ASSUME StreamTypes, NEW i \in Streamers, NothingPassed(i),
         walker' = walker, acks' = acks, stored' = stored \/ \E s \in Streamers : stored' = Append(stored, s)
  PROVE  NothingPassed(i)'
<1>1. walker[i] \in 1 .. Len(stored) + 1 /\ acks[i] \in Nat /\ stored \in Seq(Streamers) /\ Len(stored) \in Nat
  BY DEF StreamTypes
<1>2. ASSUME NEW k \in DOMAIN stored', stored'[k] = i, k > acks[i] PROVE k >= walker[i]
  <2>1. CASE k \in DOMAIN stored
    <3>1. stored'[k] = stored[k]
      BY <1>1, <2>1
    <3> QED
      BY <1>2, <2>1, <3>1 DEF NothingPassed
  <2>2. CASE k \notin DOMAIN stored
    <3>1. k = Len(stored) + 1
      BY <1>1, <1>2, <2>2
    <3> QED
      BY <1>1, <3>1
  <2> QED
    BY <2>1, <2>2
<1> QED
  BY <1>2 DEF NothingPassed

LEMMA QueuesExact ==
  ASSUME StreamTypes, Exact, NEW log \in Seq(Streamers), NEW ready, NEW n, Queues(log, ready, n),
         worker' = worker, walker' = walker, acks' = acks,
         stored' = stored \/ \E s \in Streamers : stored' = Append(stored, s)
  PROVE  Exact'
<1> DEFINE L == Len(queue)
<1>1. /\ DOMAIN queue' = 1 .. L + n /\ L \in Nat /\ n \in Nat /\ DOMAIN queue = 1 .. L
      /\ \A k \in 1 .. L : queue'[k] = queue[k]
      /\ \A k \in 1 .. n : queue'[L + k] = Item(log, ready[k]) /\ ready[k] \in Streamers
  BY QueueAfter
<1> HIDE DEF L
<1>2. /\ in_progress' = in_progress \cup {ready[k] : k \in 1 .. n}
      /\ \A k \in 1 .. n : ready[k] \notin in_progress
      /\ \A k \in 1 .. n : \A h \in 1 .. n : ready[h] = ready[k] => h = k
  BY DEF Queues
<1>3. \A i : Item(log, i).ack = 0 /\ Item(log, i).own = NULL /\ Item(log, i).streamer = i
  BY DEF Item
<1>4. ASSUME NEW k \in 1 .. L + n PROVE k \in 1 .. L \/ \E h \in 1 .. n : k = L + h
  <2>1. CASE k \notin 1 .. L
    <3>1. k - L \in 1 .. n /\ k = L + (k - L)
      BY <1>1, <2>1
    <3> QED
      BY <3>1
  <2> QED
    BY <2>1
<1>5. \A k \in 1 .. n : L + k \in DOMAIN queue' /\ queue'[L + k].streamer = ready[k]
  BY <1>1, <1>3
<1>6. \A i : InQueue(i)' <=> InQueue(i) \/ \E k \in 1 .. n : ready[k] = i
  <2>1. ASSUME NEW i, InQueue(i)' PROVE InQueue(i) \/ \E k \in 1 .. n : ready[k] = i
    <3>1. PICK k \in 1 .. L + n : queue'[k].streamer = i
      BY <1>1, <2>1 DEF InQueue
    <3> QED
      BY <1>1, <1>4, <1>5, <3>1 DEF InQueue
  <2>2. ASSUME NEW i, InQueue(i) PROVE InQueue(i)'
    <3>1. PICK k \in 1 .. L : queue[k].streamer = i
      BY <1>1, <2>2 DEF InQueue
    <3>2. k \in DOMAIN queue' /\ queue'[k].streamer = i
      BY <1>1, <3>1
    <3> QED
      BY <3>2 DEF InQueue
  <2>3. ASSUME NEW i, NEW k \in 1 .. n, ready[k] = i PROVE InQueue(i)'
    BY <1>5, <2>3 DEF InQueue
  <2> QED
    BY <2>1, <2>2, <2>3
<1>7. \A k \in 1 .. L : queue[k].streamer \in Streamers /\ InQueue(queue[k].streamer)
  <2>1. queue \in Seq(ItemType)
    BY DEF StreamTypes
  <2>2. \A k \in 1 .. L : queue[k] \in ItemType
    BY <1>1, <2>1
  <2> QED
    BY <1>1, <2>2 DEF InQueue, ItemType
<1>8. \A k \in 1 .. L : queue[k].streamer \in in_progress
  BY <1>7 DEF Exact
<1>9. QueueIsFresh'
  <2>1. ASSUME NEW k \in 1 .. L + n PROVE queue'[k].ack = 0 /\ queue'[k].own = NULL
    <3>1. CASE k \in 1 .. L
      BY <1>1, <3>1 DEF Exact, QueueIsFresh
    <3>2. ASSUME NEW h \in 1 .. n, k = L + h PROVE queue'[k].ack = 0 /\ queue'[k].own = NULL
      <4>1. queue'[k] = Item(log, ready[h])
        BY <1>1, <3>2
      <4> QED
        BY <1>3, <4>1
    <3> QED
      BY <1>4, <3>1, <3>2
  <2>2. ASSUME NEW j \in 1 .. L + n, NEW k \in 1 .. L + n, queue'[j].streamer = queue'[k].streamer
        PROVE  j = k
    <3>1. CASE j \in 1 .. L /\ k \in 1 .. L
      BY <1>1, <2>2, <3>1 DEF Exact, QueueIsFresh
    <3>2. ASSUME NEW g \in 1 .. n, NEW h \in 1 .. n, j = L + g, k = L + h PROVE j = k
      BY <1>2, <1>5, <2>2, <3>2
    <3>3. ASSUME NEW g \in 1 .. n, j = L + g, k \in 1 .. L PROVE FALSE
      <4>1. queue'[j].streamer = ready[g] /\ queue'[k] = queue[k]
        BY <1>1, <1>5, <3>3
      <4> QED
        BY <1>2, <1>8, <2>2, <3>3, <4>1
    <3>4. ASSUME NEW h \in 1 .. n, k = L + h, j \in 1 .. L PROVE FALSE
      <4>1. queue'[k].streamer = ready[h] /\ queue'[j] = queue[j]
        BY <1>1, <1>5, <3>4
      <4> QED
        BY <1>2, <1>8, <2>2, <3>4, <4>1
    <3> QED
      BY <1>4, <3>1, <3>2, <3>3, <3>4
  <2> QED
    BY <1>1, <2>1, <2>2 DEF QueueIsFresh
<1>10. \A i : InHand(i)' <=> InHand(i)
  BY DEF InHand
<1>11. \A i \in Streamers : i \in in_progress' <=> InHand(i)' \/ InQueue(i)'
  <2>1. \A i \in Streamers : i \in in_progress <=> InHand(i) \/ InQueue(i)
    BY DEF Exact
  <2> QED
    BY <1>2, <1>6, <1>10, <2>1
<1>12. \A i \in Streamers \ in_progress' : NothingPassed(i)'
  <2>1. \A i \in Streamers \ in_progress' : NothingPassed(i)
    BY <1>2 DEF Exact
  <2> QED
    BY <2>1, NewIsAhead
<1>13. SenderIsKnown'
  <2> SUFFICES ASSUME worker[1].pc = "sending"
               PROVE  /\ worker[1].item.own = NULL
                      /\ worker[1].item.streamer \notin Individual => worker[1].item.ack = 0
                      /\ ~InQueue(worker[1].item.streamer)'
                      /\ worker[1].item.ack # 0 /\ worker[1].item.ack <= acks[worker[1].item.streamer]
                            => NothingPassed(worker[1].item.streamer)'
    BY DEF SenderIsKnown
  <2>1. worker[1].item.streamer \in Streamers
    <3>1. worker[1] \in Workers
      BY DEF StreamTypes
    <3> QED
      BY <3>1, WorkerIs DEF ItemType
  <2>2. InHand(worker[1].item.streamer)
    BY DEF InHand
  <2>3. worker[1].item.streamer \in in_progress
    BY <2>1, <2>2 DEF Exact
  <2>4. ~InQueue(worker[1].item.streamer)'
    BY <1>2, <1>6, <2>3 DEF Exact, SenderIsKnown
  <2>5. worker[1].item.ack # 0 /\ worker[1].item.ack <= acks[worker[1].item.streamer]
            => NothingPassed(worker[1].item.streamer)'
    BY <2>1, NewIsAhead DEF Exact, SenderIsKnown
  <2> QED
    BY <2>4, <2>5 DEF Exact, SenderIsKnown
<1> QED
  BY <1>9, <1>11, <1>12, <1>13 DEF Exact

\* How an item stands that the worker has in its hands, before it sends or finishes it; the
\* queue is already as it will be then.
Served(item) ==
    /\ SentIsStored(item, Len(stored)) /\ item.own = NULL
    /\ item.streamer \notin Individual => item.ack = 0
    /\ item.ack # 0 /\ item.ack <= acks[item.streamer] => NothingPassed(item.streamer)
    /\ item.streamer \in in_progress
    /\ \A i \in Streamers : i \in in_progress <=> i = item.streamer \/ InQueue(i)'
    /\ \A i \in Streamers : InQueue(i)' => i # item.streamer
    /\ \A i \in Streamers \ in_progress : NothingPassed(i)
    /\ QueueIsFresh' /\ stored' = stored

LEMMA OthersStay ==
  ASSUME NEW i \in Streamers, NEW j \in Streamers, j # i, stored' = stored, OnlyOf(i), NothingPassed(j)
  PROVE  NothingPassed(j)'
  BY DEF OnlyOf, NothingPassed

LEMMA FinishExact ==
  ASSUME StreamTypes, 1 \in DOMAIN worker, NEW item, Served(item), NEW succeeded,
         Finish(1, item, succeeded)
  PROVE  Exact'
<1> DEFINE s == item.streamer
<1>1. /\ OnlyOf(s) /\ in_progress' = in_progress \ {s} /\ WorkerBecomes(1, Idle)
      /\ Unmoved(s, item.ack, FALSE) \/ SoughtTo(s)
  BY FinishMoves DEF Served
<1>2. s \in Streamers
  BY DEF Served, SentIsStored, ItemType
<1>3. NothingPassed(s)'
  <2>1. CASE SoughtTo(s)
    BY <2>1 DEF SoughtTo, NothingPassed, Served
  <2>2. CASE Unmoved(s, item.ack, FALSE)
    <3>1. NothingPassed(s) /\ acks' = acks /\ walker' = walker /\ stored' = stored
      BY <2>2 DEF Unmoved, Served
    <3> QED
      BY <3>1 DEF NothingPassed
  <2> QED
    BY <1>1, <2>1, <2>2
<1>4. worker'[1].pc # "sending"
  BY <1>1 DEF WorkerBecomes, Idle
<1> HIDE DEF s
<1>5. \A i \in Streamers \ in_progress' : NothingPassed(i)'
  <2> SUFFICES ASSUME NEW i \in Streamers \ in_progress' PROVE NothingPassed(i)'
    OBVIOUS
  <2>1. i = s \/ (i # s /\ i \in Streamers \ in_progress)
    BY <1>1
  <2> QED
    BY <1>1, <1>2, <1>3, <2>1, OthersStay DEF Served
<1>6. \A i \in Streamers : i \in in_progress' <=> InHand(i)' \/ InQueue(i)'
  <2>1. \A i : ~InHand(i)'
    BY <1>4 DEF InHand
  <2>2. \A i \in Streamers : i \in in_progress <=> i = s \/ InQueue(i)'
    BY DEF Served, s
  <2>3. \A i \in Streamers : InQueue(i)' => i # s
    BY DEF Served, s
  <2> QED
    BY <1>1, <2>1, <2>2, <2>3
<1>7. SenderIsKnown'
  BY <1>4 DEF SenderIsKnown
<1> QED
  BY <1>5, <1>6, <1>7 DEF Exact, Served

LEMMA SendsExact ==
  ASSUME StreamTypes, 1 \in DOMAIN worker, NEW item, Served(item), Sends(1, item)
  PROVE  Exact'
<1> DEFINE s == item.streamer
           last == MaxOf(Batch(item))
<1>1. /\ Batch(item) # {} /\ WorkerBecomes(1, NextReport(item))
      /\ walker' = [walker EXCEPT ![s] = last + 1]
      /\ in_progress' = in_progress /\ acks' = acks /\ stored' = stored
  BY DEF Sends, Served
<1>2. s \in Streamers /\ SentIsStored(item, Len(stored))
  BY DEF Served, SentIsStored, ItemType
<1>3. last \in 1 .. Len(stored) /\ Len(stored) \in Nat
  <2>1. Len(stored) \in Nat
    BY DEF StreamTypes
  <2> QED
    BY <1>1, <1>2, <2>1, SendingType
<1>4. /\ worker'[1].pc = "sending" /\ worker'[1].item.streamer = s /\ worker'[1].item.own = NULL
      /\ worker'[1].item.ack = IF s \in Individual THEN last ELSE item.ack
  BY <1>1, SendingFields DEF WorkerBecomes, Served
<1>5. s \notin Individual => item.ack = 0
  BY DEF Served
<1> HIDE DEF last, s
<1>6. walker \in [Streamers -> 1 .. Len(stored) + 1] /\ acks \in [Streamers -> 0 .. Len(stored)]
  BY DEF StreamTypes
<1>7. OnlyOf(s) /\ walker'[s] = last + 1
  BY <1>1, <1>2, <1>6 DEF OnlyOf
<1>8. worker'[1].item.ack # 0 /\ worker'[1].item.ack <= acks'[s] => NothingPassed(s)'
  <2> SUFFICES ASSUME worker'[1].item.ack # 0, worker'[1].item.ack <= acks'[s] PROVE NothingPassed(s)'
    OBVIOUS
  <2>1. last <= acks[s] /\ acks[s] \in Int
    BY <1>1, <1>2, <1>4, <1>5, <1>6
  <2>2. \A k \in DOMAIN stored : k \in Int
    BY DEF StreamTypes
  <2>3. \A k \in DOMAIN stored : k > acks[s] => k >= walker'[s]
    BY <1>3, <1>7, <2>1, <2>2
  <2>4. ASSUME NEW z, z = s PROVE NothingPassed(z)'
    BY <1>1, <2>3, <2>4 DEF NothingPassed
  <2> QED
    BY <2>4 DEF s
<1>9. \A i \in Streamers \ in_progress' : NothingPassed(i)'
  <2> SUFFICES ASSUME NEW i \in Streamers \ in_progress' PROVE NothingPassed(i)'
    OBVIOUS
  <2>1. i # s /\ i \in Streamers \ in_progress
    BY <1>1 DEF Served, s
  <2> QED
    BY <1>1, <1>2, <1>7, <2>1, OthersStay DEF Served
<1>10. \A i \in Streamers : i \in in_progress' <=> InHand(i)' \/ InQueue(i)'
  <2>1. \A i : InHand(i)' <=> i = s
    BY <1>4 DEF InHand
  <2> QED
    BY <1>1, <2>1 DEF Served, s
<1>11. SenderIsKnown'
  <2>1. \A i \in Streamers : InQueue(i)' => i # s
    BY DEF Served, s
  <2>2. ~InQueue(s)'
    BY <1>2, <2>1
  <2> QED
    BY <1>4, <1>5, <1>8, <2>2 DEF SenderIsKnown
<1> QED
  BY <1>9, <1>10, <1>11 DEF Exact, Served

LEMMA ContinueExact ==
  ASSUME StreamTypes, 1 \in DOMAIN worker, NEW item, Served(item), Continue(1, item)
  PROVE  Exact'
<1>1. SentIsStored(item, Len(stored))
  BY DEF Served
<1> QED
  BY <1>1, ContinueMoves, FinishExact, SendsExact

LEMMA TakeExact ==
  ASSUME StreamTypes, Exact, 1 \in DOMAIN worker, Take(1)
  PROVE  Exact'
<1> SUFFICES ASSUME NEW item, item = Head(queue) PROVE Exact'
  OBVIOUS
<1>1. /\ item = queue[1] /\ SentIsStored(item, Len(stored)) /\ Len(queue) \in Nat
      /\ 1 \in DOMAIN queue /\ DOMAIN queue' = 1 .. Len(queue) - 1
      /\ \A k \in DOMAIN queue' : queue'[k] = queue[k + 1] /\ k + 1 \in DOMAIN queue
  BY TakeTypes
<1>2. Continue(1, item) /\ worker[1].pc # "sending" /\ stored' = stored
  BY DEF Take
<1>3. DOMAIN queue = 1 .. Len(queue)
  BY DEF StreamTypes
<1>4. item.ack = 0 /\ item.own = NULL
  BY <1>1 DEF Exact, QueueIsFresh
<1>5. ASSUME NEW k \in DOMAIN queue'
      PROVE  /\ queue'[k].ack = 0 /\ queue'[k].own = NULL /\ queue'[k].streamer # item.streamer
             /\ InQueue(queue'[k].streamer)
  <2>1. queue'[k] = queue[k + 1] /\ k + 1 \in DOMAIN queue /\ k + 1 # 1
    BY <1>1
  <2> QED
    BY <1>1, <2>1 DEF Exact, QueueIsFresh, InQueue
<1>6. QueueIsFresh'
  <2>1. ASSUME NEW j \in DOMAIN queue', NEW k \in DOMAIN queue', queue'[j].streamer = queue'[k].streamer
        PROVE  j = k
    <3>1. j + 1 = k + 1
      BY <1>1, <2>1 DEF Exact, QueueIsFresh
    <3>2. j \in Int /\ k \in Int
      BY <1>1
    <3> QED
      BY <3>1, <3>2
  <2> QED
    BY <1>5, <2>1 DEF QueueIsFresh
<1>7. \A i \in Streamers : InQueue(i)' => i # item.streamer
  BY <1>5 DEF InQueue
<1>8. ASSUME NEW i \in Streamers PROVE i \in in_progress <=> i = item.streamer \/ InQueue(i)'
  <2>1. i \in in_progress <=> InQueue(i)
    BY <1>2 DEF Exact, InHand
  <2>2. InQueue(i) => i = item.streamer \/ InQueue(i)'
    <3> SUFFICES ASSUME NEW k \in DOMAIN queue, queue[k].streamer = i, k # 1 PROVE InQueue(i)'
      BY <1>1 DEF InQueue
    <3>1. k - 1 \in DOMAIN queue' /\ (k - 1) + 1 = k
      BY <1>1, <1>3
    <3>2. queue'[k - 1].streamer = i
      BY <1>1, <3>1
    <3> QED
      BY <3>1, <3>2 DEF InQueue
  <2>3. InQueue(item.streamer)
    BY <1>1 DEF InQueue
  <2>4. InQueue(i)' => InQueue(i)
    BY <1>1 DEF InQueue
  <2> QED
    BY <2>1, <2>2, <2>3, <2>4
<1>9. item.streamer \in in_progress
  <2>1. item.streamer \in Streamers
    BY <1>1 DEF SentIsStored, ItemType
  <2> QED
    BY <1>8, <2>1
<1>10. Served(item)
  BY <1>1, <1>2, <1>4, <1>6, <1>7, <1>8, <1>9 DEF Served, Exact
<1> QED
  BY <1>2, <1>10, ContinueExact

LEMMA SentIsServed ==
  ASSUME StreamTypes, Exact, 1 \in DOMAIN worker, worker[1].pc = "sending",
         queue' = queue, stored' = stored
  PROVE  Served(worker[1].item)
<1>1. SentIsStored(worker[1].item, Len(stored))
  BY SentItem
<1>2. \A i : InHand(i) <=> i = worker[1].item.streamer
  BY DEF InHand
<1>3. \A i : InQueue(i)' <=> InQueue(i)
  BY DEF InQueue
<1>4. QueueIsFresh'
  BY DEF Exact, QueueIsFresh
<1>5. worker[1].item.streamer \in Streamers
  BY <1>1 DEF SentIsStored, ItemType
<1>6. ~InQueue(worker[1].item.streamer)
  BY DEF Exact, SenderIsKnown
<1>7. ASSUME NEW item, item = worker[1].item PROVE Served(item)
  <2>1. \A i \in Streamers : InQueue(i)' => i # item.streamer
    BY <1>3, <1>6, <1>7
  <2>2. /\ item.own = NULL
        /\ item.streamer \notin Individual => item.ack = 0
        /\ item.ack # 0 /\ item.ack <= acks[item.streamer] => NothingPassed(item.streamer)
    BY <1>7 DEF Exact, SenderIsKnown
  <2>3. \A i \in Streamers : i \in in_progress <=> i = item.streamer \/ InQueue(i)'
    BY <1>2, <1>3, <1>7 DEF Exact
  <2>4. item.streamer \in in_progress
    BY <1>5, <1>7, <2>3
  <2> QED
    BY <1>1, <1>4, <1>7, <2>1, <2>2, <2>3, <2>4 DEF Served, Exact
<1> QED
  BY <1>7

LEMMA WorkerExact ==
  ASSUME StreamTypes, Exact, 1 \in DOMAIN worker, StrSent(1) \/ Failed(1)
  PROVE  Exact'
<1>1. /\ worker[1].pc = "sending" /\ queue' = queue /\ stored' = stored
      /\ Continue(1, worker[1].item) \/ Finish(1, worker[1].item, FALSE)
  BY DEF StrSent, Failed
<1> QED
  BY <1>1, SentIsServed, ContinueExact, FinishExact

LEMMA AckExact ==
  ASSUME StreamTypes, Exact, NEW i \in Streamers, NEW a \in received \cup {0}, NEW force \in BOOLEAN,
         1 \in DOMAIN worker, Ack(i, a, force)
  PROVE  Exact'
<1>1. Acknowledge(i, a, force) /\ UNCHANGED <<stored, in_progress, queue, worker>>
  BY DEF Ack
<1>2. a \in 0 .. Len(stored)
  BY DEF StreamTypes
<1>3. OnlyOf(i) /\ (Unmoved(i, a, force) \/ SoughtTo(i))
  BY <1>1, <1>2, AcknowledgeMoves
<1>4. ASSUME NEW j \in Streamers, NothingPassed(j) PROVE NothingPassed(j)'
  <2>1. CASE j # i
    BY <1>1, <1>3, <1>4, <2>1, OthersStay
  <2>2. CASE j = i /\ SoughtTo(i)
    BY <1>1, <2>2 DEF SoughtTo, NothingPassed
  <2>3. CASE j = i /\ Unmoved(i, a, force)
    BY <1>1, <1>4, <2>3 DEF Unmoved, NothingPassed
  <2> QED
    BY <1>3, <2>1, <2>2, <2>3
<1>5. \A j : (InHand(j)' <=> InHand(j)) /\ (InQueue(j)' <=> InQueue(j))
  BY <1>1 DEF InHand, InQueue
<1>6. QueueIsFresh'
  BY <1>1 DEF Exact, QueueIsFresh
<1>7. SenderIsKnown'
  <2> SUFFICES ASSUME NEW item, item = worker[1].item, worker[1].pc = "sending"
               PROVE  /\ item.own = NULL /\ (item.streamer \notin Individual => item.ack = 0)
                      /\ ~InQueue(item.streamer)'
                      /\ item.ack # 0 /\ item.ack <= acks'[item.streamer] => NothingPassed(item.streamer)'
    BY <1>1 DEF SenderIsKnown
  <2>1. item.streamer \in Streamers
    BY SentItem DEF SentIsStored, ItemType
  <2>2. /\ item.own = NULL /\ (item.streamer \notin Individual => item.ack = 0)
        /\ ~InQueue(item.streamer)
        /\ item.ack # 0 /\ item.ack <= acks[item.streamer] => NothingPassed(item.streamer)
    BY DEF Exact, SenderIsKnown
  <2>3. item.ack # 0 /\ item.ack <= acks'[item.streamer] => NothingPassed(item.streamer)'
    <3>1. CASE item.streamer # i
      BY <1>3, <1>4, <2>1, <2>2, <3>1 DEF OnlyOf
    <3>2. CASE item.streamer = i /\ SoughtTo(i)
      BY <1>1, <3>2 DEF SoughtTo, NothingPassed
    <3>3. CASE item.streamer = i /\ Unmoved(i, a, force)
      BY <1>4, <2>1, <2>2, <3>3 DEF Unmoved
    <3> QED
      BY <1>3, <3>1, <3>2, <3>3
  <2>4. ~InQueue(item.streamer)'
    BY <1>5, <2>2
  <2> QED
    BY <2>2, <2>3, <2>4
<1>8. \A j \in Streamers \ in_progress' : NothingPassed(j)'
  BY <1>1, <1>4 DEF Exact
<1>9. \A j \in Streamers : j \in in_progress' <=> InHand(j)' \/ InQueue(j)'
  BY <1>1, <1>5 DEF Exact
<1> QED
  BY <1>6, <1>7, <1>8, <1>9 DEF Exact

\* A worker does nothing to the number of workers.
LEMMA SameWorkers ==
  ASSUME StreamTypes, NEW w \in DOMAIN worker, Take(w) \/ StrSent(w) \/ Failed(w)
  PROVE  Len(worker') = Len(worker) /\ resetting' = resetting
<1>1. CASE Take(w)
  <2>1. SentIsStored(Head(queue), Len(stored)) /\ Continue(w, Head(queue))
    BY <1>1, TakeTypes DEF Take
  <2>2. Len(worker') = Len(worker)
    BY <2>1, ContinueMoves, FinishMoves DEF Sends, WorkerBecomes
  <2> QED
    BY <1>1, <2>2 DEF Take
<1>2. CASE StrSent(w) \/ Failed(w)
  <2>1. SentIsStored(worker[w].item, Len(stored))
        /\ (Continue(w, worker[w].item) \/ Finish(w, worker[w].item, FALSE))
    BY <1>2, SentItem DEF StrSent, Failed
  <2>2. Len(worker') = Len(worker)
    BY <2>1, ContinueMoves, FinishMoves DEF Sends, WorkerBecomes
  <2> QED
    BY <1>2, <2>2 DEF StrSent, Failed
<1> QED
  BY <1>1, <1>2

LEMMA ExactKept == StreamInv /\ StrNext => StreamInv'
<1> SUFFICES ASSUME StreamInv, StrNext, Undisturbed' PROVE Exact'
  BY TypesKept DEF StreamInv
<1>1. StreamTypes
  BY DEF StreamInv
<1>2. worker \in Seq(Workers) /\ Len(worker) >= 1 /\ Len(worker) \in Nat /\ DOMAIN worker = 1 .. Len(worker)
  BY <1>1 DEF StreamTypes
<1>3. 1 \in DOMAIN worker
  BY <1>2
<1>4. Undisturbed => Exact /\ DOMAIN worker = {1}
  BY <1>2 DEF StreamInv, Undisturbed
<1>5. ASSUME NEW i \in Streamers, Input(i) PROVE Exact'
  <2>1. Undisturbed
    BY <1>5 DEF Input, Undisturbed
  <2>2. stored' = Append(stored, i) /\ ProcessStreamers(stored', marked)
        /\ UNCHANGED <<walker, worker, acks>>
    BY <1>5 DEF Input
  <2>3. stored' \in Seq(Streamers) /\ marked \in SUBSET Streamers
    BY <1>1, <2>2 DEF StreamTypes
  <2>4. PICK ready, n : Queues(stored', ready, n)
    BY <2>2, <2>3, ReadyAreQueued
  <2> QED
    BY <1>1, <1>4, <2>1, <2>2, <2>3, <2>4, QueuesExact
<1>6. ASSUME NEW i \in Streamers, Trigger(i) PROVE Exact'
  <2>1. Undisturbed
    BY <1>6 DEF Trigger, Undisturbed
  <2>2. ProcessStreamers(stored, marked \cup {i}) /\ UNCHANGED <<stored, walker, worker, acks>>
    BY <1>6 DEF Trigger
  <2>3. stored \in Seq(Streamers) /\ marked \cup {i} \in SUBSET Streamers
    BY <1>1 DEF StreamTypes
  <2>4. PICK ready, n : Queues(stored, ready, n)
    BY <2>2, <2>3, ReadyAreQueued
  <2> QED
    BY <1>1, <1>4, <2>1, <2>2, <2>3, <2>4, QueuesExact
<1>7. ASSUME NEW i \in Streamers, NEW a \in received \cup {0}, NEW force \in BOOLEAN, Ack(i, a, force)
      PROVE  Exact'
  <2>1. Undisturbed
    BY <1>7 DEF Ack, Undisturbed
  <2> QED
    BY <1>1, <1>3, <1>4, <1>7, <2>1, AckExact
<1>8. ASSUME NEW w \in DOMAIN worker, Take(w) \/ StrSent(w) \/ Failed(w) PROVE Exact'
  <2>1. Undisturbed
    BY <1>1, <1>8, SameWorkers DEF Undisturbed
  <2>2. w = 1 /\ Exact
    BY <1>4, <2>1
  <2> QED
    BY <1>1, <1>3, <1>8, <2>2, TakeExact, WorkerExact
<1>9. ~Reset
  BY DEF Reset, Undisturbed
<1>10. ~ClearToReset
  <2> SUFFICES ASSUME ClearToReset PROVE FALSE
    OBVIOUS
  <2> DEFINE orphaned == [w \in DOMAIN worker |-> IF worker[w].item = NULL THEN worker[w]
                              ELSE [worker[w] EXCEPT !.item = Orphan(@)]]
  <2>1. worker' = Append(orphaned, Idle)
    BY DEF ClearToReset
  <2>2. Len(orphaned) = Len(worker) /\ \E T : orphaned \in Seq(T)
    <3>1. DOMAIN orphaned = 1 .. Len(worker)
      BY <1>2
    <3>2. orphaned \in [1 .. Len(worker) -> {orphaned[w] : w \in DOMAIN worker}]
      BY <3>1
    <3> HIDE DEF orphaned
    <3>0. ASSUME NEW T, NEW m \in Nat, NEW f \in [1 .. m -> T] PROVE f \in Seq(T)
      OBVIOUS
    <3>3. orphaned \in Seq({orphaned[w] : w \in DOMAIN worker})
      BY <1>2, <3>0, <3>2
    <3> QED
      BY <1>2, <3>1, <3>3
  <2> HIDE DEF orphaned
  <2>3. Len(worker') = Len(worker) + 1
    BY <2>1, <2>2
  <2> QED
    BY <1>2, <2>3 DEF Undisturbed
<1> QED
  BY <1>5, <1>6, <1>7, <1>8, <1>9, <1>10 DEF StrNext

LEMMA StreamInvAlways == StrSpec => []StreamInv
<1>1. StrInit => StreamInv
  BY StreamInit, ExactInit DEF StreamInv
<1>2. StreamInv /\ UNCHANGED strVars => StreamInv'
  BY DEF StreamInv, StreamTypes, Undisturbed, Exact, QueueIsFresh, SenderIsKnown, InHand, InQueue,
         NothingPassed, strVars
<1> QED
  BY <1>1, <1>2, ExactKept, PTL DEF StrSpec

LEMMA OneMore ==
  ASSUME NEW T, NEW q \in Seq(T), NEW r \in Seq(T), Len(r) = 1
  PROVE  /\ DOMAIN (q \o r) = 1 .. Len(q) + 1 /\ (q \o r)[Len(q) + 1] = r[1]
         /\ \A k \in 1 .. Len(q) : (q \o r)[k] = q[k]
<1>1. Len(q) \in Nat /\ Len(q \o r) = Len(q) + 1 /\ q \o r \in Seq(T)
  <2>1. q \o r \in Seq(T) /\ Len(q \o r) = Len(q) + Len(r)
    BY ConcatProperties
  <2>2. Len(q) \in Nat
    OBVIOUS
  <2> QED
    BY <2>1, <2>2
<1>2. DOMAIN (q \o r) = 1 .. Len(q) + 1
  BY <1>1
<1>3. (q \o r)[Len(q) + 1] = r[1]
  BY <1>1
<1>4. \A k \in 1 .. Len(q) : (q \o r)[k] = q[k]
  BY <1>1
<1> QED
  BY <1>2, <1>3, <1>4

LEMMA InvIsExact == StreamInv => StreamingIsExact
<1> SUFFICES ASSUME StreamInv PROVE StreamingIsExact
  OBVIOUS
<1>1. StreamTypes
  BY DEF StreamInv
<1>2. StrTypeOK
  BY <1>1, TypesGiven
<1>3. ASSUME Undisturbed, NEW i \in Streamers
      PROVE  Cardinality({k \in DOMAIN Items : Items[k] # NULL /\ Items[k].streamer = i})
                = (IF i \in in_progress THEN 1 ELSE 0)
  <2> DEFINE L == Len(queue)
             K == {k \in DOMAIN Items : Items[k] # NULL /\ Items[k].streamer = i}
  <2>1. Exact /\ queue \in Seq(ItemType) /\ worker \in Seq(Workers) /\ Len(worker) = 1
    BY <1>1, <1>3 DEF StreamInv, StreamTypes, Undisturbed
  <2>2. worker[1] \in Workers /\ DOMAIN worker = 1 .. 1
    BY <2>1
  <2>3. /\ worker[1].pc = "sending" => worker[1].item \in ItemType
        /\ worker[1].pc # "sending" => worker[1].item = NULL
    BY <2>2, WorkerIs
  <2>4. L \in Nat /\ DOMAIN queue = 1 .. L /\ \A k \in 1 .. L : queue[k] \in ItemType
    BY <2>1
  <2> HIDE DEF L
  <2>5. /\ DOMAIN Items = 1 .. L + 1 /\ Items[L + 1] = worker[1].item
        /\ \A k \in 1 .. L : Items[k] = queue[k]
    <3> DEFINE last == [w \in DOMAIN worker |-> worker[w].item]
    <3>1. last \in Seq(ItemType \cup {NULL}) /\ Len(last) = 1 /\ last[1] = worker[1].item
      BY <2>2, <2>3
    <3>2. queue \in Seq(ItemType \cup {NULL})
      BY <2>1
    <3>3. Items = queue \o last
      BY DEF Items
    <3>4. ASSUME NEW T, NEW q \in Seq(T), NEW r \in Seq(T), Len(r) = 1
          PROVE  /\ DOMAIN (q \o r) = 1 .. Len(q) + 1 /\ (q \o r)[Len(q) + 1] = r[1]
                 /\ \A k \in 1 .. Len(q) : (q \o r)[k] = q[k]
      BY <3>4, OneMore
    <3> HIDE DEF last
    <3>5. /\ DOMAIN Items = 1 .. Len(queue) + 1 /\ Items[Len(queue) + 1] = last[1]
          /\ \A k \in 1 .. Len(queue) : Items[k] = queue[k]
      BY <3>1, <3>2, <3>3, <3>4
    <3> QED
      BY <3>1, <3>5 DEF L
  <2>6. i \in in_progress <=> InHand(i) \/ InQueue(i)
    BY <2>1 DEF Exact
  <2>7. \A k \in 1 .. L : k \in K <=> queue[k].streamer = i
    BY <2>4, <2>5, NoneAssumption
  <2>8. L + 1 \in K <=> InHand(i)
    <3>1. L + 1 \in DOMAIN Items
      BY <2>4, <2>5
    <3> QED
      BY <2>3, <2>5, <3>1, NoneAssumption DEF InHand
  <2>9. K \subseteq 1 .. L + 1 /\ \A k \in K : k = L + 1 \/ k \in 1 .. L
    BY <2>4, <2>5
  <2>10. InQueue(i) <=> \E k \in 1 .. L : queue[k].streamer = i
    BY <2>4 DEF InQueue
  <2>11. \A j, k \in 1 .. L : queue[j].streamer = queue[k].streamer => j = k
    BY <2>1, <2>4 DEF Exact, QueueIsFresh
  <2>12. InHand(i) => ~InQueue(i)
    BY <2>1 DEF Exact, SenderIsKnown, InHand
  <2> HIDE DEF K
  <2>13. CASE i \notin in_progress
    <3>1. K = {}
      BY <2>6, <2>7, <2>8, <2>9, <2>10, <2>13
    <3> QED
      BY <2>13, <3>1, FS_EmptySet DEF K
  <2>14. CASE InHand(i)
    <3>1. K = {L + 1}
      BY <2>7, <2>8, <2>9, <2>10, <2>12, <2>14
    <3> QED
      BY <2>6, <2>14, <3>1, FS_Singleton DEF K
  <2>15. CASE InQueue(i)
    <3>1. PICK k \in 1 .. L : queue[k].streamer = i
      BY <2>10, <2>15
    <3>2. K = {k}
      BY <2>7, <2>8, <2>9, <2>11, <2>12, <2>15, <3>1
    <3> QED
      BY <2>6, <2>15, <3>2, FS_Singleton DEF K
  <2> QED
    BY <2>6, <2>13, <2>14, <2>15
<1>4. ASSUME Undisturbed, NEW i \in Streamers \ in_progress, NEW k \in DOMAIN stored,
             stored[k] = i, k > acks[i]
      PROVE  k >= walker[i]
  BY <1>4 DEF StreamInv, Exact, NothingPassed
<1> QED
  BY <1>2, <1>3, <1>4 DEF StreamingIsExact, InProgressIsExact, NothingSkipped

\* Until the controller is reset a streamer is in progress exactly while it is queued or being
\* streamed, so that the worker never dies, and what was not acknowledged is never skipped.
THEOREM StreamingIsExactAlways == StrSpec => []StreamingIsExact
<1>1. StreamInv => StreamingIsExact
  BY InvIsExact
<1> QED
  BY <1>1, StreamInvAlways, PTL
=============================================================================
