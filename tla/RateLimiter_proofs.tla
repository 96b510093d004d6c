-------------------------- MODULE RateLimiter_proofs --------------------------
(***************************************************************************)
(* Proofs about RateLimiter: for every number of callers, rate, burst and  *)
(* queue bound the drain timer is never late, the queue is exactly the     *)
(* waiting futures, and the lazy bucket implements TokenBucket.            *)
(***************************************************************************)
EXTENDS RateLimiter, FiniteSetTheorems, SequenceTheorems, TLAPS

-----------------------------------------------------------------------------
(* The arithmetic of the bucket *)

\* The lesser and the greater of two naturals.
LEMMA Bounds ==
  ASSUME NEW a \in Int, NEW b \in Int
  PROVE  /\ Least(a, b) \in Int /\ Least(a, b) <= a /\ Least(a, b) <= b
         /\ Least(a, b) \in {a, b}
         /\ Greatest(a, b) \in Int /\ Greatest(a, b) >= a /\ Greatest(a, b) >= b
         /\ Greatest(a, b) \in {a, b}
  BY DEF Least, Greatest

\* The refilled bucket never exceeds the burst and holds at least what it held.
LEMMA RefilledRange ==
  ASSUME tokens \in 0..Capacity, accrued \in 0..Capacity
  PROVE  Refilled \in 0..Capacity /\ Refilled >= tokens
  BY LimiterAssumption DEF Refilled, Least

\* A product grows with its factor.
LEMMA Products ==
  ASSUME NEW a \in Nat, NEW b \in Nat, NEW n \in Nat, a <= b
  PROVE  a * n <= b * n
<1>1. PICK d \in Nat : b = a + d
  OBVIOUS
<1>2. b * n = a * n + d * n
  BY <1>1
<1>3. a * n \in Nat /\ d * n \in Nat
  OBVIOUS
<1> QED
  BY <1>2, <1>3

\* A bucket that was just refilled.
LEMMA JustRefilled ==
  ASSUME NEW units \in 0..Capacity
  PROVE  Least(Capacity, units + 0) = units
  BY LimiterAssumption DEF Least

\* A timer armed on a bucket of the given content is not late for it.
LEMMA ArmedInTime ==
  ASSUME NEW handle \in Nat \cup {NoTimer}, NEW q \in Seq(Callers), NEW units \in 0..Capacity,
         handle # NoTimer => handle <= Greatest(0, Cost - units)
  PROVE  /\ Armed(handle, q, units) \in Nat \cup {NoTimer}
         /\ q # <<>> => Armed(handle, q, units) # NoTimer
         /\ Armed(handle, q, units) # NoTimer =>
              Armed(handle, q, units) <= Greatest(0, Cost - units)
  BY LimiterAssumption DEF Armed, Greatest

-----------------------------------------------------------------------------
(* What _try_drain pops and grants *)

\* One more entry costs at most one more: the step in which the drain reaches a waiter.
LEMMA OneMore ==
  ASSUME NEW S, NEW x, IsFiniteSet(S), Cardinality(S) \in Nat
  PROVE  IsFiniteSet(S \cup {x}) /\ Cardinality(S \cup {x}) <= Cardinality(S) + 1
<1>1. CASE x \in S
  <2>1. S \cup {x} = S
    BY <1>1
  <2>2. Cardinality(S) <= Cardinality(S) + 1
    OBVIOUS
  <2> QED
    BY <2>1, <2>2, Zenon
<1>2. CASE x \notin S
  <2>1. IsFiniteSet(S \cup {x}) /\ Cardinality(S \cup {x}) = Cardinality(S) + 1
    BY <1>2, FS_AddElement
  <2> QED
    BY <2>1
<1> QED
  BY <1>1, <1>2

\* Pending counts at most one more future per entry.
LEMMA PendingFacts ==
  ASSUME NEW k \in 0..Len(queue), Len(queue) \in Nat
  PROVE  /\ Pending(k) \in Nat
         /\ \A j \in 0..k : Pending(j) <= Pending(k)
         /\ k > 0 => Pending(k) <= Pending(k - 1) + 1
         /\ Pending(0) = 0
<1> DEFINE P(n) == {i \in 1..n : future[queue[i]] = "pending"}
<1>1. \A n \in 0..k : IsFiniteSet(P(n)) /\ Cardinality(P(n)) = Pending(n) /\ Pending(n) \in Nat
  <2> TAKE n \in 0..k
  <2>1. IsFiniteSet(1..n)
    BY FS_Interval
  <2>2. P(n) \in SUBSET (1..n)
    OBVIOUS
  <2>3. IsFiniteSet(P(n))
    BY <2>1, <2>2, FS_Subset
  <2> QED
    BY <2>3, FS_CardinalityType DEF Pending
<1>2. ASSUME NEW j \in 0..k
      PROVE  Pending(j) <= Pending(k)
  <2>1. P(j) \in SUBSET P(k)
    OBVIOUS
  <2> HIDE DEF P
  <2> QED
    BY <1>1, <2>1, FS_Subset
<1>3. ASSUME k > 0
      PROVE  Pending(k) <= Pending(k - 1) + 1
  <2>1. P(k) \in SUBSET (P(k - 1) \cup {k})
    OBVIOUS
  <2>2. k - 1 \in 0..k
    BY <1>3
  <2> HIDE DEF P
  <2>6. IsFiniteSet(P(k - 1)) /\ Cardinality(P(k - 1)) \in Nat
    BY <1>1, <2>2, FS_CardinalityType
  <2>3. /\ IsFiniteSet(P(k - 1) \cup {k})
        /\ Cardinality(P(k - 1) \cup {k}) <= Cardinality(P(k - 1)) + 1
    BY <2>6, OneMore
  <2>4. Cardinality(P(k)) <= Cardinality(P(k - 1) \cup {k})
    BY <2>1, <2>3, FS_Subset
  <2>5. /\ Cardinality(P(k)) \in Nat /\ Cardinality(P(k - 1)) \in Nat
        /\ Cardinality(P(k - 1) \cup {k}) \in Nat
    BY <1>1, <2>2, <2>3, FS_CardinalityType
  <2> QED
    BY <1>1, <2>2, <2>3, <2>4, <2>5
<1>4. Pending(0) = 0
  <2>1. P(0) = {}
    OBVIOUS
  <2> QED
    BY <2>1, FS_EmptySet DEF Pending
<1> HIDE DEF P
<1>5. Pending(k) \in Nat
  <2>1. k \in 0..k
    OBVIOUS
  <2> QED
    BY <1>1, <2>1
<1> QED
  BY <1>2, <1>3, <1>4, <1>5

\* The entries _try_drain reaches are a prefix of the queue, and the pending futures
\* among them cost no more than the bucket holds.
LEMMA ReachedIsPrefix ==
  ASSUME NEW units \in Nat, Len(queue) \in Nat
  PROVE  LET m == Cardinality(Reached(units)) IN
         /\ m \in 0..Len(queue)
         /\ Reached(units) = 1..m
         /\ Pending(m) * Cost <= units
<1> DEFINE R == Reached(units)
           m == Cardinality(R)
<1>1. /\ IsFiniteSet(1..Len(queue)) /\ Cardinality(1..Len(queue)) = Len(queue)
      /\ R \in SUBSET (1..Len(queue))
  <2>1. R \in SUBSET (1..Len(queue))
    BY DEF Reached
  <2> HIDE DEF R
  <2>2. ASSUME NEW n \in Nat
        PROVE  IsFiniteSet(1..n) /\ Cardinality(1..n) = n
    BY FS_Interval
  <2> QED
    BY <2>1, <2>2
<1> HIDE DEF R
<1>2. IsFiniteSet(R) /\ m \in 0..Len(queue)
  <2>1. IsFiniteSet(R) /\ m <= Len(queue)
    BY <1>1, FS_Subset
  <2>2. m \in Nat
    BY <2>1, FS_CardinalityType
  <2> QED
    BY <2>1, <2>2
<1>3. ASSUME NEW k \in R
      PROVE  1..k \in SUBSET R
  <2>1. SUFFICES ASSUME NEW j \in 1..k
                 PROVE  j \in R
    OBVIOUS
  <2>2. k \in 1..Len(queue) /\ (Pending(k - 1) + 1) * Cost <= units
    BY <1>3 DEF R, Reached
  <2>3. k - 1 \in 0..Len(queue) /\ j - 1 \in 0..(k - 1)
    BY <2>2
  <2>4. /\ Pending(k - 1) \in Nat /\ Pending(j - 1) \in Nat
        /\ Pending(j - 1) <= Pending(k - 1)
    BY <2>3, PendingFacts
  <2>5. (Pending(j - 1) + 1) * Cost <= (Pending(k - 1) + 1) * Cost
    BY <2>4, Products, LimiterAssumption
  <2>6. (Pending(j - 1) + 1) * Cost \in Nat /\ (Pending(k - 1) + 1) * Cost \in Nat
    BY <2>4, LimiterAssumption
  <2>7. (Pending(j - 1) + 1) * Cost <= units
    BY <2>2, <2>5, <2>6
  <2> QED
    BY <2>2, <2>7 DEF R, Reached
<1>4. ASSUME NEW k \in R
      PROVE  k \in 1..m
  <2>1. k \in 1..Len(queue)
    BY <1>1
  <2>2. Cardinality(1..k) = k /\ IsFiniteSet(1..k)
    BY <2>1, FS_Interval
  <2>3. Cardinality(1..k) <= m
    BY <1>2, <1>3, FS_Subset
  <2> QED
    BY <2>1, <2>2, <2>3, <1>2
<1>5. R = 1..m
  <2>1. IsFiniteSet(1..m) /\ Cardinality(1..m) = m
    BY <1>2, FS_Interval
  <2>2. R \in SUBSET (1..m)
    BY <1>4
  <2> QED
    BY <2>1, <2>2, FS_Subset
<1>6. Pending(m) * Cost <= units
  <2>1. CASE m = 0
    BY <2>1, PendingFacts, LimiterAssumption
  <2>2. CASE m # 0
    <3>1. m \in R
      BY <1>2, <1>5, <2>2
    <3>2. (Pending(m - 1) + 1) * Cost <= units
      BY <3>1 DEF R, Reached
    <3>3. m \in 0..Len(queue) /\ m > 0 /\ m - 1 \in 0..Len(queue)
      BY <1>2, <2>2
    <3>4. Pending(m) \in Nat /\ Pending(m - 1) \in Nat /\ Pending(m) <= Pending(m - 1) + 1
      BY <3>3, PendingFacts
    <3>5. Pending(m) * Cost <= (Pending(m - 1) + 1) * Cost
      BY <3>4, Products, LimiterAssumption
    <3>6. Pending(m) * Cost \in Nat /\ (Pending(m - 1) + 1) * Cost \in Nat
      BY <3>4, LimiterAssumption
    <3> QED
      BY <3>2, <3>5, <3>6
  <2> QED
    BY <2>1, <2>2
<1> QED
  BY <1>2, <1>5, <1>6 DEF R

\* The futures a drain grants.
Granted(n) == {queue[k] : k \in {i \in 1..n : future[queue[i]] = "pending"}}

\* What a drain does, told by the number of entries it pops.
LEMMA DrainFacts ==
  ASSUME TypeOK, Drain
  PROVE  \E n \in 0..Len(queue) :
           /\ Granted(n) \subseteq Callers /\ IsFiniteSet(Granted(n))
           /\ Cardinality(Granted(n)) \in Nat /\ Cardinality(Granted(n)) * Cost <= Refilled
           /\ tokens' = Refilled - Cardinality(Granted(n)) * Cost /\ accrued' = 0
           /\ queue' = SubSeq(queue, n + 1, Len(queue))
           /\ future' = [c \in Callers |-> IF c \in Granted(n) THEN "granted" ELSE future[c]]
           /\ timer' = Armed(NoTimer, queue', tokens')
           /\ taken' = taken + Cardinality(Granted(n))
           /\ UNCHANGED <<pc, calls, begun, lost>>
<1> DEFINE reached == Reached(Refilled)
           n == Cardinality(reached)
           P == {i \in 1..n : future[queue[i]] = "pending"}
<1>1. Refilled \in Nat /\ Len(queue) \in Nat
  BY RefilledRange, LimiterAssumption DEF TypeOK
<1>2. n \in 0..Len(queue) /\ reached = 1..n /\ Pending(n) * Cost <= Refilled
  BY <1>1, ReachedIsPrefix
<1>3. Granted(n) = {queue[k] : k \in {i \in reached : future[queue[i]] = "pending"}}
  BY <1>2 DEF Granted
<1>4. Granted(n) \subseteq Callers
  BY <1>1, <1>2 DEF Granted, TypeOK
<1>5. IsFiniteSet(P) /\ Cardinality(P) = Pending(n) /\ Pending(n) \in Nat
  <2>1. IsFiniteSet(1..n)
    BY <1>2, FS_Interval
  <2>2. P \in SUBSET (1..n)
    OBVIOUS
  <2> QED
    BY <2>1, <2>2, FS_Subset, FS_CardinalityType DEF Pending
<1>6. /\ IsFiniteSet(Granted(n))
      /\ Cardinality(Granted(n)) <= Cardinality(P)
  <2> DEFINE g == [k \in P |-> queue[k]]
  <2>1. g \in Surjection(P, Granted(n))
    BY DEF Surjection, Granted
  <2> HIDE DEF g, P, n
  <2> QED
    BY <1>5, <2>1, FS_Surjection
<1>7. Cardinality(Granted(n)) \in Nat
  BY <1>6, FS_CardinalityType
<1>8. Cardinality(Granted(n)) * Cost <= Refilled
  <2> HIDE DEF n
  <2>1. Cardinality(Granted(n)) * Cost <= Pending(n) * Cost
    BY <1>5, <1>6, <1>7, Products, LimiterAssumption
  <2>2. Cardinality(Granted(n)) * Cost \in Nat /\ Pending(n) * Cost \in Nat
    BY <1>5, <1>7, LimiterAssumption
  <2> QED
    BY <1>1, <1>2, <2>1, <2>2
<1> QED
  BY <1>2, <1>3, <1>4, <1>6, <1>7, <1>8 DEF Drain

\* Entries after a prefix.
LEMMA SuffixFacts ==
  ASSUME NEW q \in Seq(Callers), NEW n \in 0..Len(q)
  PROVE  LET r == SubSeq(q, n + 1, Len(q)) IN
         /\ r \in Seq(Callers) /\ Len(r) = Len(q) - n
         /\ \A i \in 1..Len(r) : r[i] = q[n + i]
<1>1. /\ Len(q) \in Nat
      /\ \A i \in (n + 1)..Len(q) : q[i] \in Callers
  OBVIOUS
<1>2. /\ SubSeq(q, n + 1, Len(q)) \in Seq(Callers)
      /\ Len(SubSeq(q, n + 1, Len(q))) = IF n + 1 <= Len(q) THEN Len(q) - (n + 1) + 1 ELSE 0
      /\ \A i \in 1..(Len(q) - (n + 1) + 1) : SubSeq(q, n + 1, Len(q))[i] = q[n + 1 + i - 1]
  BY <1>1, SubSeqProperties
<1> QED
  BY <1>1, <1>2

\* Entries around a removed one.
LEMMA RemovalFacts ==
  ASSUME NEW q \in Seq(Callers), NEW n \in 1..Len(q)
  PROVE  /\ RemoveAt(q, n) \in Seq(Callers) /\ Len(RemoveAt(q, n)) = Len(q) - 1
         /\ \A i \in 1..(Len(q) - 1) : RemoveAt(q, n)[i] = q[IF i < n THEN i ELSE i + 1]
<1> DEFINE s == SubSeq(q, 1, n - 1)
           t == SubSeq(q, n + 1, Len(q))
<1>1. /\ s \in Seq(Callers) /\ Len(s) = n - 1
      /\ \A i \in 1..(n - 1) : s[i] = q[i]
  <2>1. /\ s \in Seq(Callers)
        /\ Len(s) = IF 1 <= n - 1 THEN n - 1 - 1 + 1 ELSE 0
        /\ \A i \in 1..(n - 1 - 1 + 1) : s[i] = q[1 + i - 1]
    BY SubSeqProperties
  <2> QED
    BY <2>1
<1>2. /\ t \in Seq(Callers) /\ Len(t) = Len(q) - n
      /\ \A i \in 1..Len(t) : t[i] = q[n + i]
  BY SuffixFacts
<1> HIDE DEF s, t
<1>3. /\ s \o t \in Seq(Callers)
      /\ Len(s \o t) = Len(s) + Len(t)
      /\ \A i \in 1..(Len(s) + Len(t)) :
           (s \o t)[i] = IF i <= Len(s) THEN s[i] ELSE t[i - Len(s)]
  BY <1>1, <1>2, ConcatProperties
<1>4. ASSUME NEW i \in 1..(Len(q) - 1)
      PROVE  (s \o t)[i] = q[IF i < n THEN i ELSE i + 1]
  <2>1. CASE i < n
    BY <1>1, <1>2, <1>3, <2>1
  <2>2. CASE ~(i < n)
    <3>1. i - (n - 1) \in 1..Len(t) /\ n + (i - (n - 1)) = i + 1
      BY <1>2, <2>2
    <3>2. i \in 1..(Len(s) + Len(t)) /\ ~(i <= Len(s)) /\ i - Len(s) = i - (n - 1)
      BY <1>1, <1>2, <2>2
    <3>3. (s \o t)[i] = t[i - (n - 1)]
      BY <1>3, <3>2
    <3>4. t[i - (n - 1)] = q[i + 1]
      BY <1>2, <3>1
    <3> QED
      BY <2>2, <3>3, <3>4
  <2> QED
    BY <2>1, <2>2
<1>5. RemoveAt(q, n) = s \o t
  BY DEF RemoveAt, s, t
<1>6. Len(s \o t) = Len(q) - 1
  BY <1>1, <1>2, <1>3
<1> QED
  BY <1>3, <1>4, <1>5, <1>6

-----------------------------------------------------------------------------
(* The inductive invariant *)

\* The initial state is well typed, nobody waits, and no token is taken.
LEMMA InitInductive == Init => Inductive
<1> SUFFICES ASSUME Init PROVE Inductive
  OBVIOUS
<1>1. TypeOK
  BY LimiterAssumption DEF Init, TypeOK
<1>2. FuturesFit /\ QueueIsTheWaiters /\ TimerNotLate
  BY DEF Init, FuturesFit, QueueIsTheWaiters, TimerNotLate
<1>3. TokensAccountedFor
  <2>1. {c \in Callers : future[c] = "granted"} = {}
    BY DEF Init
  <2>2. taken = 0 /\ begun = 0 /\ lost = 0
    BY DEF Init
  <2> QED
    BY <2>1, <2>2, FS_EmptySet DEF TokensAccountedFor
<1> QED
  BY <1>1, <1>2, <1>3 DEF Inductive

\* Every step keeps the types; the bucket never goes below zero because a drain pops an
\* entry only when all it grants leaves a whole token.
LEMMA TypeStep == TypeOK /\ [Next]_vars => TypeOK'
<1> SUFFICES ASSUME TypeOK, [Next]_vars PROVE TypeOK'
  OBVIOUS
<1>0. Refilled \in 0..Capacity /\ Refilled >= tokens
  BY RefilledRange DEF TypeOK
<1>1. CASE Tick
  BY <1>1, LimiterAssumption DEF Tick, TypeOK, counters, Least, Greatest
<1>2. ASSUME NEW c \in Callers, TakeNow(c)
      PROVE  TypeOK'
  BY <1>2, <1>0, LimiterAssumption DEF TakeNow, TypeOK
<1>3. ASSUME NEW c \in Callers, Refuse(c)
      PROVE  TypeOK'
  BY <1>3, <1>0, LimiterAssumption DEF Refuse, TypeOK, counters
<1>4. ASSUME NEW c \in Callers, Enqueue(c)
      PROVE  TypeOK'
  <2>1. queue' \in Seq(Callers) /\ tokens' \in 0..Capacity
    BY <1>4, <1>0 DEF Enqueue, TypeOK
  <2>2. timer' \in Nat \cup {NoTimer}
    BY <1>4, <2>1, LimiterAssumption DEF Enqueue, TypeOK, Armed, Greatest
  <2> QED
    BY <1>4, <2>1, <2>2, LimiterAssumption DEF Enqueue, TypeOK, counters
<1>5. CASE Drain
  <2>1. PICK n \in 0..Len(queue) :
           /\ Granted(n) \subseteq Callers /\ IsFiniteSet(Granted(n))
           /\ Cardinality(Granted(n)) \in Nat /\ Cardinality(Granted(n)) * Cost <= Refilled
           /\ tokens' = Refilled - Cardinality(Granted(n)) * Cost /\ accrued' = 0
           /\ queue' = SubSeq(queue, n + 1, Len(queue))
           /\ future' = [c \in Callers |-> IF c \in Granted(n) THEN "granted" ELSE future[c]]
           /\ timer' = Armed(NoTimer, queue', tokens')
           /\ taken' = taken + Cardinality(Granted(n))
           /\ UNCHANGED <<pc, calls, begun, lost>>
    BY <1>5, DrainFacts
  <2>2. Cardinality(Granted(n)) * Cost \in Nat
    BY <2>1, LimiterAssumption
  <2>3. tokens' \in 0..Capacity /\ accrued' \in 0..Capacity
    BY <2>1, <2>2, <1>0, LimiterAssumption
  <2>4. queue' \in Seq(Callers)
    BY <2>1, SuffixFacts DEF TypeOK
  <2>5. timer' \in Nat \cup {NoTimer}
    BY <2>1, <2>3, LimiterAssumption DEF Armed, Greatest
  <2>6. future' \in [Callers -> {"none", "pending", "granted", "cancelled"}]
    BY <2>1 DEF TypeOK
  <2>7. taken' \in Nat
    BY <2>1 DEF TypeOK
  <2> QED
    BY <2>1, <2>3, <2>4, <2>5, <2>6, <2>7 DEF TypeOK
<1>6. ASSUME NEW c \in Callers, Proceed(c)
      PROVE  TypeOK'
  BY <1>6 DEF Proceed, TypeOK
<1>7. ASSUME NEW c \in Callers, CancelWaiting(c)
      PROVE  TypeOK'
  BY <1>7 DEF CancelWaiting, TypeOK, counters
<1>8. ASSUME NEW c \in Callers, Unwind(c)
      PROVE  TypeOK'
  <2>1. queue' \in Seq(Callers)
    BY <1>8, RemovalFacts DEF Unwind, TypeOK
  <2> QED
    BY <1>8, <2>1 DEF Unwind, TypeOK, counters
<1>9. ASSUME NEW c \in Callers, CancelGranted(c)
      PROVE  TypeOK'
  BY <1>9 DEF CancelGranted, TypeOK
<1>10. ASSUME NEW c \in Callers, Finish(c)
       PROVE  TypeOK'
  BY <1>10 DEF Finish, TypeOK, counters
<1>11. CASE Available
  BY <1>11, <1>0, LimiterAssumption DEF Available, TypeOK, counters
<1>12. CASE UNCHANGED vars
  BY <1>12 DEF vars, TypeOK
<1> QED
  BY <1>1, <1>2, <1>3, <1>4, <1>5, <1>6, <1>7, <1>8, <1>9, <1>10, <1>11, <1>12 DEF Next, Acquire

\* A future is made when a task begins to wait and dropped when it stops.
LEMMA FuturesStep == TypeOK /\ FuturesFit /\ [Next]_vars => FuturesFit'
<1> SUFFICES ASSUME TypeOK, FuturesFit, [Next]_vars PROVE FuturesFit'
  OBVIOUS
<1>1. ASSUME NEW c \in Callers, Acquire(c)
      PROVE  FuturesFit'
  BY <1>1 DEF Acquire, TakeNow, Refuse, Enqueue, FuturesFit, TypeOK
<1>2. ASSUME NEW c \in Callers,
             Proceed(c) \/ Finish(c) \/ CancelWaiting(c) \/ Unwind(c) \/ CancelGranted(c)
      PROVE  FuturesFit'
  BY <1>2 DEF Proceed, Finish, CancelWaiting, Unwind, CancelGranted, FuturesFit, TypeOK
<1>3. CASE Drain
  <2>1. PICK n \in 0..Len(queue) :
           /\ Granted(n) \subseteq Callers
           /\ future' = [c \in Callers |-> IF c \in Granted(n) THEN "granted" ELSE future[c]]
           /\ UNCHANGED pc
    BY <1>3, DrainFacts
  <2>2. \A c \in Granted(n) : future[c] # "none"
    BY DEF Granted
  <2> QED
    BY <2>1, <2>2 DEF FuturesFit
<1>4. CASE Tick \/ Available \/ UNCHANGED vars
  BY <1>4 DEF Tick, Available, vars, FuturesFit
<1> QED
  BY <1>1, <1>2, <1>3, <1>4 DEF Next

\* The queue keeps holding each ungranted future once: a drain removes what it grants,
\* and nothing else but the cancelled futures on the way.
LEMMA QueueStep == TypeOK /\ FuturesFit /\ QueueIsTheWaiters /\ [Next]_vars => QueueIsTheWaiters'
<1> SUFFICES ASSUME TypeOK, FuturesFit, QueueIsTheWaiters, [Next]_vars
             PROVE  QueueIsTheWaiters'
  OBVIOUS
<1>0. queue \in Seq(Callers) /\ Len(queue) \in Nat
  BY DEF TypeOK
<1>1. CASE UNCHANGED <<queue, future>>
  BY <1>1 DEF QueueIsTheWaiters
<1>2. ASSUME NEW c \in Callers, Enqueue(c)
      PROVE  QueueIsTheWaiters'
  <2>1. queue' = Append(queue, c) /\ future' = [future EXCEPT ![c] = "pending"]
    BY <1>2 DEF Enqueue
  <2>2. future[c] = "none"
    BY <1>2 DEF Enqueue, FuturesFit
  <2>3. \A i \in 1..Len(queue) : queue[i] # c
    BY <2>2 DEF QueueIsTheWaiters
  <2>4. /\ Len(queue') = Len(queue) + 1 /\ queue'[Len(queue) + 1] = c
        /\ \A i \in 1..Len(queue) : queue'[i] = queue[i]
    BY <1>0, <2>1
  <2>5. \A i \in 1..Len(queue) : queue[i] \in Callers
    BY <1>0
  <2>6. \A i, j \in 1..Len(queue') : queue'[i] = queue'[j] => i = j
    BY <1>0, <2>3, <2>4 DEF QueueIsTheWaiters
  <2>7. \A d \in Callers : future'[d] = "pending" => \E i \in 1..Len(queue') : queue'[i] = d
    <3> SUFFICES ASSUME NEW d \in Callers, future'[d] = "pending"
                 PROVE  \E i \in 1..Len(queue') : queue'[i] = d
      OBVIOUS
    <3>1. CASE d = c
      BY <1>0, <2>4, <3>1
    <3>2. CASE d # c
      <4>1. PICK i \in 1..Len(queue) : queue[i] = d
        BY <2>1, <3>2 DEF QueueIsTheWaiters, TypeOK
      <4> QED
        BY <1>0, <2>4, <4>1
    <3> QED
      BY <3>1, <3>2
  <2>8. \A i \in 1..Len(queue') : future'[queue'[i]] \in {"pending", "cancelled"}
    BY <1>0, <2>1, <2>3, <2>4, <2>5 DEF QueueIsTheWaiters, TypeOK
  <2> QED
    BY <2>6, <2>7, <2>8 DEF QueueIsTheWaiters
<1>3. CASE Drain
  <2>1. PICK n \in 0..Len(queue) :
           /\ queue' = SubSeq(queue, n + 1, Len(queue))
           /\ future' = [c \in Callers |-> IF c \in Granted(n) THEN "granted" ELSE future[c]]
    BY <1>3, DrainFacts
  <2>2. /\ Len(queue') = Len(queue) - n
        /\ \A i \in 1..Len(queue') : queue'[i] = queue[n + i] /\ n + i \in 1..Len(queue)
    BY <1>0, <2>1, SuffixFacts
  <2>3. \A i, j \in 1..Len(queue') : queue'[i] = queue'[j] => i = j
    <3> SUFFICES ASSUME NEW i \in 1..Len(queue'), NEW j \in 1..Len(queue'), queue'[i] = queue'[j]
                 PROVE  i = j
      OBVIOUS
    <3>1. queue[n + i] = queue[n + j] /\ n + i \in 1..Len(queue) /\ n + j \in 1..Len(queue)
      BY <2>2
    <3>2. n + i = n + j
      BY <3>1 DEF QueueIsTheWaiters
    <3> QED
      BY <2>1, <3>2
  <2>4. ASSUME NEW d \in Callers, future'[d] = "pending"
        PROVE  \E i \in 1..Len(queue') : queue'[i] = d
    <3>1. d \notin Granted(n) /\ future[d] = "pending"
      BY <2>1, <2>4
    <3>2. PICK i \in 1..Len(queue) : queue[i] = d
      BY <3>1 DEF QueueIsTheWaiters
    <3>3. i > n
      BY <3>1, <3>2 DEF Granted
    <3>4. i - n \in 1..Len(queue') /\ n + (i - n) = i
      BY <1>0, <2>2, <3>3
    <3> QED
      BY <2>2, <3>2, <3>4
  <2>5. ASSUME NEW i \in 1..Len(queue')
        PROVE  future'[queue'[i]] \in {"pending", "cancelled"}
    <3>1. queue'[i] = queue[n + i] /\ n + i \in 1..Len(queue) /\ n + i > n
      BY <2>2
    <3>2. queue'[i] \notin Granted(n)
      BY <1>0, <3>1 DEF Granted, QueueIsTheWaiters
    <3>3. queue[n + i] \in Callers
      BY <1>0, <3>1
    <3> QED
      BY <2>1, <3>1, <3>2, <3>3 DEF QueueIsTheWaiters
  <2> QED
    BY <2>3, <2>4, <2>5 DEF QueueIsTheWaiters
<1>4. ASSUME NEW c \in Callers, Proceed(c) \/ CancelGranted(c)
      PROVE  QueueIsTheWaiters'
  <2>1. future[c] = "granted" /\ UNCHANGED queue /\ future' = [future EXCEPT ![c] = "none"]
    BY <1>4 DEF Proceed, CancelGranted
  <2>2. \A i \in 1..Len(queue) : queue[i] # c /\ queue[i] \in Callers
    BY <1>0, <2>1 DEF QueueIsTheWaiters
  <2> QED
    BY <1>0, <2>1, <2>2 DEF QueueIsTheWaiters, TypeOK
<1>5. ASSUME NEW c \in Callers, CancelWaiting(c)
      PROVE  QueueIsTheWaiters'
  <2>1. future[c] = "pending" /\ UNCHANGED queue /\ future' = [future EXCEPT ![c] = "cancelled"]
    BY <1>5 DEF CancelWaiting
  <2>2. \A i \in 1..Len(queue) : queue[i] \in Callers
    BY <1>0
  <2> QED
    BY <1>0, <2>1, <2>2 DEF QueueIsTheWaiters, TypeOK
<1>6. ASSUME NEW c \in Callers, Unwind(c)
      PROVE  QueueIsTheWaiters'
  <2>1. future[c] = "cancelled" /\ future' = [future EXCEPT ![c] = "none"]
    BY <1>6 DEF Unwind
  <2>2. CASE (\A i \in 1..Len(queue) : queue[i] # c) /\ UNCHANGED queue
    <3>1. \A i \in 1..Len(queue) : queue[i] \in Callers
      BY <1>0
    <3> QED
      BY <1>0, <2>1, <2>2, <3>1 DEF QueueIsTheWaiters, TypeOK
  <2>3. CASE \E i \in 1..Len(queue) : queue[i] = c /\ queue' = RemoveAt(queue, i)
    <3>1. PICK n \in 1..Len(queue) : queue[n] = c /\ queue' = RemoveAt(queue, n)
      BY <2>3
    <3> DEFINE old(i) == IF i < n THEN i ELSE i + 1
    <3>2. /\ Len(queue') = Len(queue) - 1
          /\ \A i \in 1..Len(queue') : /\ queue'[i] = queue[old(i)]
                                       /\ old(i) \in 1..Len(queue) /\ old(i) # n
      <4>1. /\ Len(RemoveAt(queue, n)) = Len(queue) - 1
            /\ \A i \in 1..(Len(queue) - 1) : RemoveAt(queue, n)[i] = queue[old(i)]
        BY <1>0, RemovalFacts
      <4>2. /\ Len(queue') = Len(queue) - 1
            /\ \A i \in 1..Len(queue') : queue'[i] = queue[old(i)]
        BY <3>1, <4>1
      <4>3. \A i \in 1..(Len(queue) - 1) : old(i) \in 1..Len(queue) /\ old(i) # n
        BY <1>0
      <4> QED
        BY <4>2, <4>3
    <3>3. \A i, j \in 1..Len(queue') : queue'[i] = queue'[j] => i = j
      <4> SUFFICES ASSUME NEW i \in 1..Len(queue'), NEW j \in 1..Len(queue'),
                          queue'[i] = queue'[j]
                   PROVE  i = j
        OBVIOUS
      <4>1. old(i) = old(j)
        BY <3>2 DEF QueueIsTheWaiters
      <4> QED
        BY <1>0, <3>2, <4>1
    <3>4. ASSUME NEW d \in Callers, future'[d] = "pending"
          PROVE  \E i \in 1..Len(queue') : queue'[i] = d
      <4>1. d # c /\ future[d] = "pending"
        BY <2>1, <3>4 DEF TypeOK
      <4>2. PICK i \in 1..Len(queue) : queue[i] = d
        BY <4>1 DEF QueueIsTheWaiters
      <4>3. i # n
        BY <3>1, <4>1, <4>2
      <4> DEFINE new == IF i < n THEN i ELSE i - 1
      <4>4. new \in 1..Len(queue') /\ old(new) = i
        BY <1>0, <3>2, <4>3
      <4> HIDE DEF new, old
      <4> QED
        BY <3>2, <4>2, <4>4
    <3>5. ASSUME NEW i \in 1..Len(queue')
          PROVE  future'[queue'[i]] \in {"pending", "cancelled"}
      <4> HIDE DEF old
      <4>1. queue'[i] = queue[old(i)] /\ old(i) \in 1..Len(queue) /\ queue[old(i)] # c
        BY <3>1, <3>2 DEF QueueIsTheWaiters
      <4>2. queue[old(i)] \in Callers
        BY <1>0, <4>1
      <4> QED
        BY <2>1, <4>1, <4>2 DEF QueueIsTheWaiters, TypeOK
    <3> QED
      BY <3>3, <3>4, <3>5 DEF QueueIsTheWaiters
  <2> QED
    BY <1>6, <2>2, <2>3 DEF Unwind
<1> QED
  BY <1>1, <1>2, <1>3, <1>4, <1>5, <1>6
  DEF Next, Acquire, Tick, TakeNow, Refuse, Finish, Available, vars

\* The timer is never late: time that passes brings the timer and the next token nearer
\* by the same amount, and everybody who takes tokens puts the next one further off.
LEMMA TimerStep == TypeOK /\ TimerNotLate /\ [Next]_vars /\ TypeOK' => TimerNotLate'
<1> SUFFICES ASSUME TypeOK, TimerNotLate, [Next]_vars, TypeOK'
             PROVE  TimerNotLate'
  OBVIOUS
<1>0. /\ Refilled \in 0..Capacity /\ Refilled >= tokens
      /\ queue \in Seq(Callers) /\ timer \in Nat \cup {NoTimer}
  BY RefilledRange DEF TypeOK
<1>1. CASE Tick
  <2>1. Refilled' <= Refilled + Rate
    BY <1>1, LimiterAssumption DEF Tick, Refilled, Least, TypeOK
  <2>2. Refilled' \in Int
    BY <1>1, LimiterAssumption DEF Tick, Refilled, Least, TypeOK
  <2>3. queue' = queue
    BY <1>1 DEF Tick
  <2>4. timer' = IF timer = NoTimer THEN NoTimer ELSE Greatest(0, timer - Rate)
    BY <1>1 DEF Tick
  <2>5. CASE timer = NoTimer
    BY <2>3, <2>4, <2>5 DEF TimerNotLate
  <2>6. CASE timer # NoTimer
    <3>1. timer \in Nat /\ timer <= Greatest(0, Cost - Refilled)
      BY <1>0, <2>6 DEF TimerNotLate
    <3>2. timer' = Greatest(0, timer - Rate) /\ timer' \in Nat
      BY <2>4, <2>6, <3>1, LimiterAssumption DEF Greatest
    <3>3. Refilled \in Nat
      BY <1>0, LimiterAssumption
    <3>4. ASSUME NEW r \in Int, r <= Refilled + Rate
          PROVE  Greatest(0, timer - Rate) <= Greatest(0, Cost - r)
      BY <3>1, <3>3, <3>4, LimiterAssumption DEF Greatest
    <3>5. timer' <= Greatest(0, Cost - Refilled')
      BY <2>1, <2>2, <3>2, <3>4
    <3> QED
      BY <3>2, <3>5, LimiterAssumption DEF TimerNotLate
  <2> QED
    BY <2>5, <2>6
<1>2. ASSUME UNCHANGED <<queue, timer>>, tokens' \in 0..Refilled, accrued' = 0
      PROVE  TimerNotLate'
  <2>1. tokens' \in 0..Capacity
    BY DEF TypeOK
  <2>2. Refilled' = tokens'
    BY <1>2, <2>1, JustRefilled DEF Refilled
  <2>3. ASSUME timer # NoTimer
        PROVE  timer <= Greatest(0, Cost - tokens')
    <3>1. timer \in Nat /\ timer <= Greatest(0, Cost - Refilled)
      BY <1>0, <2>3 DEF TimerNotLate
    <3>2. Refilled \in Nat /\ tokens' \in Nat /\ tokens' <= Refilled
      BY <1>0, <1>2, LimiterAssumption
    <3>3. ASSUME NEW r \in Nat, r <= Refilled
          PROVE  timer <= Greatest(0, Cost - r)
      BY <3>1, <3>2, <3>3, LimiterAssumption DEF Greatest
    <3> QED
      BY <3>2, <3>3
  <2> QED
    BY <1>2, <2>2, <2>3 DEF TimerNotLate
<1>3. ASSUME NEW c \in Callers, TakeNow(c)
      PROVE  TimerNotLate'
  BY <1>0, <1>2, <1>3, LimiterAssumption DEF TakeNow
<1>4. ASSUME NEW c \in Callers, Refuse(c)
      PROVE  TimerNotLate'
  BY <1>0, <1>2, <1>4 DEF Refuse
<1>5. CASE Available
  BY <1>0, <1>2, <1>5 DEF Available
<1>6. ASSUME NEW c \in Callers, Enqueue(c)
      PROVE  TimerNotLate'
  <2>1. /\ tokens' = Refilled /\ accrued' = 0
        /\ timer' = Armed(timer, queue', tokens')
    BY <1>6 DEF Enqueue
  <2>2. Refilled' = tokens'
    BY <1>0, <2>1, JustRefilled DEF Refilled
  <2>3. queue' \in Seq(Callers) /\ tokens' \in 0..Capacity
    BY DEF TypeOK
  <2>4. timer # NoTimer => timer <= Greatest(0, Cost - tokens')
    BY <2>1 DEF TimerNotLate
  <2>5. /\ queue' # <<>> => timer' # NoTimer
        /\ timer' # NoTimer => timer' <= Greatest(0, Cost - tokens')
    BY <1>0, <2>1, <2>3, <2>4, ArmedInTime
  <2> QED
    BY <2>2, <2>5 DEF TimerNotLate
<1>7. CASE Drain
  <2>1. timer' = Armed(NoTimer, queue', tokens')
    BY <1>7, DrainFacts
  <2>2. accrued' = 0
    BY <1>7, DrainFacts
  <2>3. queue' \in Seq(Callers) /\ tokens' \in 0..Capacity
    BY DEF TypeOK
  <2>4. Refilled' = tokens'
    BY <2>2, <2>3, JustRefilled DEF Refilled
  <2>5. /\ queue' # <<>> => timer' # NoTimer
        /\ timer' # NoTimer => timer' <= Greatest(0, Cost - tokens')
    BY <2>1, <2>3, ArmedInTime
  <2> QED
    BY <2>4, <2>5 DEF TimerNotLate
<1>8. ASSUME NEW c \in Callers, Unwind(c)
      PROVE  TimerNotLate'
  <2>1. UNCHANGED <<tokens, accrued, timer>>
    BY <1>8 DEF Unwind
  <2>2. queue' # <<>> => queue # <<>>
    BY <1>0, <1>8, RemovalFacts DEF Unwind
  <2> QED
    BY <2>1, <2>2 DEF TimerNotLate, Refilled
<1>9. ASSUME UNCHANGED <<tokens, accrued, queue, timer>>
      PROVE  TimerNotLate'
  BY <1>9 DEF TimerNotLate, Refilled
<1> QED
  BY <1>1, <1>3, <1>4, <1>5, <1>6, <1>7, <1>8, <1>9
  DEF Next, Acquire, Proceed, Finish, CancelWaiting, CancelGranted, vars

\* Tokens stay accounted for: a drain moves tokens from the bucket to futures, a task
\* that runs on moves its token to the call, a task cancelled before that loses it.
LEMMA TokensStep ==
  TypeOK /\ FuturesFit /\ QueueIsTheWaiters /\ TokensAccountedFor /\ [Next]_vars
    => TokensAccountedFor'
<1> SUFFICES ASSUME TypeOK, FuturesFit, QueueIsTheWaiters, TokensAccountedFor, [Next]_vars
             PROVE  TokensAccountedFor'
  OBVIOUS
<1> DEFINE G == {c \in Callers : future[c] = "granted"}
<1>0. /\ IsFiniteSet(G) /\ Cardinality(G) \in Nat
      /\ taken = begun + lost + Cardinality(G)
  <2>1. G \in SUBSET Callers /\ IsFiniteSet(Callers)
    BY LimiterAssumption
  <2> HIDE DEF G
  <2>2. IsFiniteSet(G) /\ Cardinality(G) \in Nat
    BY <2>1, FS_Subset, FS_CardinalityType
  <2>3. taken = begun + lost + Cardinality(G)
    BY DEF TokensAccountedFor, G
  <2> QED
    BY <2>2, <2>3
<1>1. ASSUME G' = G, taken' - begun' - lost' = taken - begun - lost, TypeOK'
      PROVE  TokensAccountedFor'
  <2>1. Cardinality(G') = Cardinality(G)
    BY <1>1
  <2> HIDE DEF G
  <2>2. /\ taken \in Nat /\ begun \in Nat /\ lost \in Nat
        /\ taken' \in Nat /\ begun' \in Nat /\ lost' \in Nat
    BY <1>1 DEF TypeOK
  <2>3. taken' = begun' + lost' + Cardinality(G')
    BY <1>0, <1>1, <2>1, <2>2
  <2> QED
    BY <2>3 DEF TokensAccountedFor, G
<1>2. TypeOK'
  BY TypeStep
<1>3. ASSUME NEW c \in Callers, Acquire(c)
      PROVE  TokensAccountedFor'
  <2>1. G' = G
    BY <1>3 DEF Acquire, TakeNow, Refuse, Enqueue, FuturesFit, TypeOK
  <2>2. taken' - begun' - lost' = taken - begun - lost
    BY <1>3 DEF Acquire, TakeNow, Refuse, Enqueue, counters, TypeOK
  <2> QED
    BY <1>1, <1>2, <2>1, <2>2
<1>4. ASSUME NEW c \in Callers, Proceed(c) \/ CancelGranted(c)
      PROVE  TokensAccountedFor'
  <2>1. G' = G \ {c} /\ c \in G
    BY <1>4 DEF Proceed, CancelGranted, TypeOK
  <2>2. /\ taken' = taken
        /\ \/ begun' = begun + 1 /\ lost' = lost
           \/ begun' = begun /\ lost' = lost + 1
    BY <1>4 DEF Proceed, CancelGranted
  <2> HIDE DEF G
  <2>3. Cardinality(G') = Cardinality(G) - 1
    BY <1>0, <2>1, FS_RemoveElement
  <2>4. taken \in Nat /\ begun \in Nat /\ lost \in Nat /\ Cardinality(G) \in Nat
    BY <1>0 DEF TypeOK
  <2>5. taken' = begun' + lost' + Cardinality(G')
    BY <1>0, <2>2, <2>3, <2>4
  <2> QED
    BY <2>5 DEF TokensAccountedFor, G
<1>5. CASE Drain
  <2>1. PICK n \in 0..Len(queue) :
           /\ Granted(n) \subseteq Callers /\ IsFiniteSet(Granted(n))
           /\ Cardinality(Granted(n)) \in Nat
           /\ future' = [c \in Callers |-> IF c \in Granted(n) THEN "granted" ELSE future[c]]
           /\ taken' = taken + Cardinality(Granted(n))
           /\ UNCHANGED <<begun, lost>>
    BY <1>5, DrainFacts
  <2>2. G' = G \cup Granted(n)
    BY <2>1
  <2>3. G \cap Granted(n) = {}
    BY DEF Granted
  <2> HIDE DEF G
  <2>4. Cardinality(G') = Cardinality(G) + Cardinality(Granted(n))
    <3>1. Cardinality(G \cup Granted(n)) =
            Cardinality(G) + Cardinality(Granted(n)) - Cardinality(G \cap Granted(n))
      BY <1>0, <2>1, FS_Union
    <3>2. Cardinality(G \cap Granted(n)) = 0
      BY <2>3, FS_EmptySet
    <3>3. Cardinality(G') = Cardinality(G) + Cardinality(Granted(n)) - 0
      BY <2>2, <3>1, <3>2
    <3> QED
      BY <1>0, <2>1, <3>3
  <2>5. begun \in Nat /\ lost \in Nat
    BY DEF TypeOK
  <2>6. taken' = begun' + lost' + Cardinality(G')
    BY <1>0, <2>1, <2>4, <2>5
  <2> QED
    BY <2>6 DEF TokensAccountedFor, G
<1>6. ASSUME NEW c \in Callers, Finish(c) \/ CancelWaiting(c) \/ Unwind(c)
      PROVE  TokensAccountedFor'
  <2>1. G' = G
    BY <1>6 DEF Finish, CancelWaiting, Unwind, TypeOK
  <2>2. taken' - begun' - lost' = taken - begun - lost
    BY <1>6 DEF Finish, CancelWaiting, Unwind, counters
  <2> QED
    BY <1>1, <1>2, <2>1, <2>2
<1>7. CASE Tick \/ Available \/ UNCHANGED vars
  <2>1. UNCHANGED <<future, taken, begun, lost>>
    BY <1>7 DEF Tick, Available, vars, counters
  <2> QED
    BY <1>1, <1>2, <2>1
<1> QED
  BY <1>3, <1>4, <1>5, <1>6, <1>7 DEF Next

\* Every step keeps the inductive invariant.
LEMMA NextInductive == Inductive /\ [Next]_vars => Inductive'
  BY TypeStep, FuturesStep, QueueStep, TimerStep, TokensStep DEF Inductive

-----------------------------------------------------------------------------
(* The theorems *)

\* The conjunction Inductive holds in every reachable state.
THEOREM InductiveInvariant == Spec => []Inductive
  BY InitInductive, NextInductive, PTL DEF Spec

\* Type correctness of the limiter: the bucket stays between empty and full.
THEOREM TypeCorrect == Spec => []TypeOK
<1>1. Inductive => TypeOK
  BY DEF Inductive
<1> QED
  BY <1>1, InductiveInvariant, PTL

\* For every number of callers, rate, burst and queue bound, a non-empty queue has a
\* timer that is due when the next token is whole.
THEOREM NobodyLeftBehind == Spec => []TimerNotLate
<1>1. Inductive => TimerNotLate
  BY DEF Inductive
<1> QED
  BY <1>1, InductiveInvariant, PTL

\* The queue is exactly the futures still to be granted or unwound.
THEOREM QueueExact == Spec => []QueueIsTheWaiters
<1>1. Inductive => QueueIsTheWaiters
  BY DEF Inductive
<1> QED
  BY <1>1, InductiveInvariant, PTL

\* Tokens taken are calls begun, tokens on their way, and tokens lost to a cancellation.
THEOREM TokensBalance == Spec => []TokensAccountedFor
<1>1. Inductive => TokensAccountedFor
  BY DEF Inductive
<1> QED
  BY <1>1, InductiveInvariant, PTL

-----------------------------------------------------------------------------
(* Refinement *)

\* A full bucket maps to a full bucket.
LEMMA InitRefines == Init => Bucket!Init
  BY LimiterAssumption, JustRefilled DEF Init, Bucket!Init, Refilled

\* A tick fills the eager bucket; taking a token and draining take from it what it holds;
\* nothing else changes it.
LEMMA StepRefines ==
  TypeOK /\ [Next]_vars /\ TypeOK' => [Bucket!Next]_(Bucket!vars)
<1> SUFFICES ASSUME TypeOK, [Next]_vars, TypeOK'
             PROVE  [Bucket!Next]_(Bucket!vars)
  OBVIOUS
<1>0. Refilled \in 0..Capacity /\ Refilled \in Nat
  BY RefilledRange, LimiterAssumption DEF TypeOK
<1>1. ASSUME UNCHANGED <<Refilled, taken>>
      PROVE  [Bucket!Next]_(Bucket!vars)
  BY <1>1 DEF Bucket!vars
<1>2. ASSUME NEW n \in 0..Capacity, n * Cost <= Refilled,
             tokens' = Refilled - n * Cost, accrued' = 0, taken' = taken + n
      PROVE  [Bucket!Next]_(Bucket!vars)
  <2>1. tokens' \in 0..Capacity
    BY DEF TypeOK
  <2>2. Refilled' = tokens'
    BY <1>2, <2>1, JustRefilled DEF Refilled
  <2>3. CASE n = 0
    <3>1. taken' = taken /\ Refilled' = Refilled
      BY <1>0, <1>2, <2>2, <2>3, LimiterAssumption DEF TypeOK
    <3> QED
      BY <1>1, <3>1
  <2>4. CASE n # 0
    <3>1. Bucket!Take(n)
      BY <1>2, <2>2 DEF Bucket!Take
    <3> QED
      BY <1>2, <2>4, <3>1 DEF Bucket!Next
  <2> QED
    BY <2>3, <2>4
<1>3. CASE Tick
  <2>1. Refilled' = IF Refilled + Rate > Capacity THEN Capacity ELSE Refilled + Rate
    BY <1>3, LimiterAssumption DEF Tick, Refilled, Least, TypeOK
  <2>2. taken' = taken
    BY <1>3 DEF Tick, counters
  <2> QED
    BY <2>1, <2>2 DEF Bucket!Next, Bucket!Tick
<1>4. ASSUME NEW c \in Callers, TakeNow(c)
      PROVE  [Bucket!Next]_(Bucket!vars)
  <2>1. /\ 1 \in 0..Capacity /\ 1 * Cost <= Refilled /\ tokens' = Refilled - 1 * Cost
        /\ accrued' = 0 /\ taken' = taken + 1
    BY <1>4, LimiterAssumption DEF TakeNow
  <2> QED
    BY <1>2, <2>1
<1>5. CASE Drain
  <2>1. PICK n \in 0..Len(queue) :
           /\ Cardinality(Granted(n)) \in Nat /\ Cardinality(Granted(n)) * Cost <= Refilled
           /\ tokens' = Refilled - Cardinality(Granted(n)) * Cost /\ accrued' = 0
           /\ taken' = taken + Cardinality(Granted(n))
    BY <1>5, DrainFacts
  <2>2. Cardinality(Granted(n)) \in 0..Capacity
    <3>1. Cardinality(Granted(n)) * 1 <= Cardinality(Granted(n)) * Cost
      <4>1. 1 * Cardinality(Granted(n)) <= Cost * Cardinality(Granted(n))
        BY <2>1, Products, LimiterAssumption
      <4> QED
        BY <2>1, <4>1, LimiterAssumption
    <3>2. Cardinality(Granted(n)) * Cost \in Nat
      BY <2>1, LimiterAssumption
    <3> QED
      BY <1>0, <2>1, <3>1, <3>2, LimiterAssumption
  <2> QED
    BY <1>2, <2>1, <2>2
<1>6. ASSUME tokens' = Refilled, accrued' = 0, taken' = taken
      PROVE  [Bucket!Next]_(Bucket!vars)
  <2>1. Refilled' = Refilled
    BY <1>0, <1>6, JustRefilled DEF Refilled
  <2> QED
    BY <1>1, <1>6, <2>1
<1>7. ASSUME UNCHANGED <<tokens, accrued, taken>>
      PROVE  [Bucket!Next]_(Bucket!vars)
  <2>1. UNCHANGED Refilled
    BY <1>7 DEF Refilled
  <2> QED
    BY <1>1, <1>7, <2>1
<1> QED
  BY <1>3, <1>4, <1>5, <1>6, <1>7
  DEF Next, Acquire, Refuse, Enqueue, Available, Proceed, Finish, CancelWaiting, Unwind,
      CancelGranted, vars, counters

\* The limiter implements the token bucket: whatever the interleaving of calls, timers,
\* cancellations and refills, calls are let through at no more than burst and rate.
THEOREM ImplementsBucket == Spec => KeepsTheRate
<1>1. Spec => Bucket!Init /\ []TypeOK /\ [][Next]_vars
  BY InitRefines, TypeCorrect, PTL DEF Spec
<1> QED
  BY <1>1, StepRefines, PTL DEF KeepsTheRate, Bucket!Spec

=============================================================================
