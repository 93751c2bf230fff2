------------------------- MODULE AccountLock_proofs -------------------------
(***************************************************************************)
(* A pool larger than the number of requests serves the holder of every    *)
(* account lock: outside a transaction a request has one connection at     *)
(* most, so all of them together leave one free.  A smaller pool can fail  *)
(* it only by connections held for locks.                                  *)
(***************************************************************************)
EXTENDS AccountLock, FiniteSetTheorems, TLAPS

USE DEF Goes

\* Every reachable stage is a stage, and only a cancellation records under the lock.
THEOREM TypeCorrect == Spec => []TypeOK
<1>1. Init => TypeOK
  BY DEF Init, TypeOK, Stages
<1>2. TypeOK /\ [Next]_stage => TypeOK'
  <2> SUFFICES ASSUME TypeOK, [Next]_stage
               PROVE  TypeOK'
    OBVIOUS
  <2> USE DEF TypeOK, Stages, InTransaction, OnLockConnection, Inside
  <2>1. ASSUME NEW r \in Requests, Begin(r) PROVE TypeOK'
    BY <2>1 DEF Begin
  <2>2. ASSUME NEW r \in Requests, Connect(r) PROVE TypeOK'
    BY <2>2 DEF Connect, Granted
  <2>3. ASSUME NEW r \in Requests, Lock(r) PROVE TypeOK'
    BY <2>3 DEF Lock
  <2>4. ASSUME NEW r \in Requests, Proceeds(r) PROVE TypeOK'
    BY <2>4 DEF Proceeds, EndClaim, EndRecheck, Answer, EndStore, EndRecord, Afterwards
  <2>5. CASE Restart
    BY <2>5 DEF Restart
  <2>6. CASE UNCHANGED stage
    BY <2>6
  <2> QED BY <2>1, <2>2, <2>3, <2>4, <2>5, <2>6 DEF Next
<1> QED BY <1>1, <1>2, PTL DEF Spec

\* When no transaction runs, the connections in use are those of the lock, one a request.
LEMMA UsedByWaiters ==
  ASSUME \A r \in Requests : stage[r] \notin InTransaction
  PROVE  Used <= Cardinality(Requests)
<1> DEFINE T == {r \in Requests : stage[r] \in InTransaction}
           L == {r \in Requests : stage[r] \in OnLockConnection}
<1>1. Cardinality(T) = 0
  <2>1. T = {}
    OBVIOUS
  <2> QED BY <2>1, FS_EmptySet
<1>2. IsFiniteSet(Requests)
  BY PoolAssumption
<1>3. Cardinality(L) <= Cardinality(Requests) /\ Cardinality(L) \in Nat
  <2>1. L \subseteq Requests
    OBVIOUS
  <2>2. IsFiniteSet(L) /\ Cardinality(L) <= Cardinality(Requests)
    BY <1>2, <2>1, FS_Subset
  <2> QED BY <2>2, FS_CardinalityType
<1>4. Used = Cardinality(T) + Cardinality(L)
  BY DEF Used
<1> QED BY <1>1, <1>3, <1>4

\* With more connections than requests, waiters never fill the pool against the
\* holder they wait for.
THEOREM HolderIsServed ==
  ASSUME PoolSize > Cardinality(Requests)
  PROVE  Spec => []HolderServed
<1>1. HolderServed
  <2> SUFFICES ASSUME NEW r \in Requests,
                      \A q \in Requests : stage[q] \notin InTransaction
               PROVE  Used < PoolSize
    BY DEF HolderServed
  <2>1. Used <= Cardinality(Requests)
    BY UsedByWaiters
  <2>2. Used \in Nat
    <3> DEFINE T == {q \in Requests : stage[q] \in InTransaction}
               L == {q \in Requests : stage[q] \in OnLockConnection}
    <3>1. IsFiniteSet(T) /\ IsFiniteSet(L)
      <4>1. T \subseteq Requests /\ L \subseteq Requests
        OBVIOUS
      <4> QED BY <4>1, PoolAssumption, FS_Subset
    <3>2. Cardinality(T) \in Nat /\ Cardinality(L) \in Nat
      BY <3>1, FS_CardinalityType
    <3>3. Used = Cardinality(T) + Cardinality(L)
      BY DEF Used
    <3> QED BY <3>2, <3>3
  <2>3. Cardinality(Requests) \in Nat /\ PoolSize \in Nat
    BY PoolAssumption, FS_CardinalityType
  <2> QED BY <2>1, <2>2, <2>3
<1> QED BY <1>1, PTL

-----------------------------------------------------------------------------
\* At most one request works under the lock of an account.
OneInside ==
    \A q, r \in Requests :
        AccountOf[q] = AccountOf[r] /\ stage[q] \in Inside /\ stage[r] \in Inside => q = r

\* The advisory lock serialises the work of an account, for any requests and restarts.
THEOREM LockIsExclusive == Spec => []OneInside
<1> USE DEF OneInside, Inside
<1>1. Init => OneInside
  BY DEF Init
<1>2. TypeOK /\ OneInside /\ [Next]_stage => OneInside'
  <2> SUFFICES ASSUME TypeOK, OneInside, [Next]_stage PROVE OneInside'
    OBVIOUS
  \* Only Lock brings a request inside; every other step keeps those inside, or fewer.
  <2>1. ASSUME NEW r \in Requests, Lock(r) PROVE OneInside'
    BY <2>1 DEF Lock, TypeOK
  <2>2. ASSUME \A r \in Requests : stage'[r] \in Inside => stage[r] \in Inside PROVE OneInside'
    BY <2>2
  <2>3. ASSUME NEW r \in Requests, Begin(r) \/ Connect(r) \/ Proceeds(r)
        PROVE  \A q \in Requests : stage'[q] \in Inside => stage[q] \in Inside
    BY <2>3 DEF TypeOK, Begin, Connect, Granted, Proceeds, EndClaim, EndRecheck, Answer, EndStore,
       EndRecord, Afterwards
  <2>4. CASE Restart \/ UNCHANGED stage
    BY <2>4 DEF Restart
  <2> QED BY <2>1, <2>2, <2>3, <2>4 DEF Next
<1> QED BY <1>1, <1>2, TypeCorrect, PTL DEF Spec

\* The requests with an open transaction, and those with a connection for the lock; one
\* that does both takes two connections.
InTx == {r \in Requests : stage[r] \in InTransaction}
OnLock == {r \in Requests : stage[r] \in OnLockConnection}

\* Connections in use are counted by requests.
LEMMA Counted ==
  /\ IsFiniteSet(InTx) /\ IsFiniteSet(OnLock)
  /\ Cardinality(InTx) \in Nat /\ Cardinality(OnLock) \in Nat
  /\ Used = Cardinality(InTx) + Cardinality(OnLock)
<1>1. InTx \subseteq Requests /\ OnLock \subseteq Requests
  BY DEF InTx, OnLock
<1>2. IsFiniteSet(InTx) /\ IsFiniteSet(OnLock)
  BY <1>1, PoolAssumption, FS_Subset
<1> QED BY <1>2, FS_CardinalityType DEF Used, InTx, OnLock

\* One more request is one more at most.
LEMMA OneMore ==
  ASSUME NEW S, IsFiniteSet(S), NEW T, NEW r, T \subseteq S \cup {r}
  PROVE  /\ IsFiniteSet(T) /\ Cardinality(T) \in Nat /\ Cardinality(S) \in Nat
         /\ Cardinality(T) <= Cardinality(S) + 1
         /\ T \subseteq S => Cardinality(T) <= Cardinality(S)
<1>1. IsFiniteSet(S \cup {r}) /\ Cardinality(S) \in Nat
  BY FS_AddElement, FS_CardinalityType
<1>2. Cardinality(S \cup {r}) <= Cardinality(S) + 1
  <2>1. Cardinality(S \cup {r}) \in {Cardinality(S), Cardinality(S) + 1}
    BY FS_AddElement
  <2> QED BY <1>1, <2>1
<1>3. /\ IsFiniteSet(T) /\ Cardinality(T) <= Cardinality(S \cup {r})
      /\ Cardinality(T) \in Nat /\ Cardinality(S \cup {r}) \in Nat
  BY <1>1, FS_Subset, FS_CardinalityType
<1>4. T \subseteq S => Cardinality(T) <= Cardinality(S)
  BY FS_Subset
<1> QED BY <1>1, <1>2, <1>3, <1>4

\* The pool never hands out more connections than it has: only Connect takes one, and it
\* takes one at a time.
PoolBounded == Used <= PoolSize

THEOREM PoolNeverOverdrawn == Spec => []PoolBounded
<1>1. Init => PoolBounded
  <2> SUFFICES ASSUME Init PROVE PoolBounded
    OBVIOUS
  <2>1. InTx = {} /\ OnLock = {}
    BY DEF Init, InTx, OnLock, InTransaction, OnLockConnection, Inside
  <2>2. Used = 0
    BY <2>1, Counted, FS_EmptySet
  <2> QED BY <2>2, PoolAssumption DEF PoolBounded
<1>2. TypeOK /\ PoolBounded /\ [Next]_stage => PoolBounded'
  <2> SUFFICES ASSUME TypeOK, PoolBounded, [Next]_stage PROVE PoolBounded'
    OBVIOUS
  <2> USE DEF InTx, OnLock, InTransaction, OnLockConnection, Inside
  <2>1. Used' = Cardinality(InTx') + Cardinality(OnLock')
    BY DEF Used
  <2>2. ASSUME InTx' \subseteq InTx, OnLock' \subseteq OnLock PROVE PoolBounded'
    <3>1. /\ Cardinality(InTx') <= Cardinality(InTx) /\ Cardinality(InTx') \in Nat
          /\ Cardinality(OnLock') <= Cardinality(OnLock) /\ Cardinality(OnLock') \in Nat
      BY <2>2, Counted, FS_Subset, FS_CardinalityType
    <3> HIDE DEF InTx, OnLock
    <3> QED BY <2>1, <3>1, Counted, PoolAssumption DEF PoolBounded
  <2>3. ASSUME NEW r \in Requests, Connect(r) PROVE PoolBounded'
    <3>1. \/ InTx' \subseteq InTx \cup {r} /\ OnLock' \subseteq OnLock
          \/ InTx' \subseteq InTx /\ OnLock' \subseteq OnLock \cup {r}
      BY <2>3 DEF Connect, Granted, TypeOK
    <3>2. Used < PoolSize
      BY <2>3 DEF Connect
    <3> HIDE DEF InTx, OnLock
    <3>3. /\ Cardinality(InTx') \in Nat /\ Cardinality(OnLock') \in Nat
          /\ Cardinality(InTx') + Cardinality(OnLock')
                 <= Cardinality(InTx) + Cardinality(OnLock) + 1
      <4>1. CASE InTx' \subseteq InTx \cup {r} /\ OnLock' \subseteq OnLock
        <5>1. /\ Cardinality(InTx') \in Nat /\ Cardinality(InTx') <= Cardinality(InTx) + 1
              /\ Cardinality(OnLock') \in Nat /\ Cardinality(OnLock') <= Cardinality(OnLock)
          BY <4>1, Counted, OneMore, FS_Subset, FS_CardinalityType
        <5> QED BY <5>1, Counted
      <4>2. CASE InTx' \subseteq InTx /\ OnLock' \subseteq OnLock \cup {r}
        <5>1. /\ Cardinality(InTx') \in Nat /\ Cardinality(InTx') <= Cardinality(InTx)
              /\ Cardinality(OnLock') \in Nat /\ Cardinality(OnLock') <= Cardinality(OnLock) + 1
          BY <4>2, Counted, OneMore, FS_Subset, FS_CardinalityType
        <5> QED BY <5>1, Counted
      <4> QED BY <3>1, <4>1, <4>2
    <3> QED BY <2>1, <3>2, <3>3, Counted, PoolAssumption DEF PoolBounded
  <2>4. ASSUME NEW r \in Requests, Begin(r) \/ Lock(r) \/ Proceeds(r)
        PROVE  InTx' \subseteq InTx /\ OnLock' \subseteq OnLock
    BY <2>4 DEF TypeOK, Begin, Lock, Proceeds, EndClaim, EndRecheck, Answer, EndStore,
       EndRecord, Afterwards
  <2>5. CASE Restart \/ UNCHANGED stage
    BY <2>2, <2>5 DEF Restart
  <2> QED BY <2>2, <2>3, <2>4, <2>5 DEF Next
<1> QED BY <1>1, <1>2, TypeCorrect, PTL DEF Spec

\* Where the pool does fail a lock holder, whatever its size and the number of requests:
\* every connection is then held for a lock, by the holders and by requests that wait for
\* them. No transaction, claim or recording outside a lock has a part in it.
GridlockIsOfLocks ==
    \A r \in Requests :
        \/ stage[r] \in {"locked", "keeping"} =>
              Used < PoolSize \/ \E q \in Requests : stage[q] \in InTransaction
        \/ Cardinality(OnLock) = PoolSize /\ InTx = {}

THEOREM OnlyLocksFillThePool == Spec => []GridlockIsOfLocks
<1>1. PoolBounded => GridlockIsOfLocks
  <2> SUFFICES ASSUME PoolBounded, ~(Used < PoolSize),
                      \A q \in Requests : stage[q] \notin InTransaction
               PROVE  Cardinality(OnLock) = PoolSize /\ InTx = {}
    BY DEF GridlockIsOfLocks
  <2>1. InTx = {}
    BY DEF InTx
  <2>2. Used = Cardinality(OnLock)
    BY <2>1, Counted, FS_EmptySet
  <2> QED BY <2>1, <2>2, Counted, PoolAssumption DEF PoolBounded
<1> QED BY <1>1, PoolNeverOverdrawn, PTL
=============================================================================
