----------------------------- MODULE RateLimiter -----------------------------
(***************************************************************************)
(* The in-process token bucket of extensions/rate_limit.py: a bucket that  *)
(* is refilled lazily, a queue of futures, and one drain timer.            *)
(*                                                                         *)
(* The callers are asyncio tasks.  A task runs from one await to the next  *)
(* without interruption, so an action is such a run.  Cancelling a task    *)
(* that waits on its future cancels the future at once, but the task takes *)
(* itself out of the queue only when it next runs; a task whose future has *)
(* already been granted is cancelled all the same when it runs.            *)
(*                                                                         *)
(* Tokens are counted in units, Cost units to a token, and a tick of the   *)
(* clock is worth Rate units (rps = Rate / Cost tokens per tick).  Time    *)
(* since the last refill is kept as the units it is worth.                 *)
(***************************************************************************)
EXTENDS Naturals, Integers, Sequences, FiniteSets, SequencesExt

CONSTANTS
  Callers,    \* tasks that call limit(), one call at a time
  Cost, Rate, \* units of a token and of a tick
  Capacity,   \* bucket size (burst) in units; burst need not be a whole number
  MaxQueue,   \* max_queue; a number no smaller than |Callers| is "no bound"
  MaxCalls,   \* bound: calls a task makes
  NoTimer

ASSUME LimiterAssumption ==
  /\ Cost \in Nat \ {0} /\ Rate \in Nat \ {0}
  /\ Capacity \in Nat /\ Capacity >= Cost
  /\ MaxQueue \in Nat /\ MaxCalls \in Nat
  /\ IsFiniteSet(Callers)
  /\ NoTimer \notin Nat

VARIABLES
  tokens,    \* _tokens, in units, as of the last refill
  accrued,   \* what the time since _last_refill is worth, up to a full bucket
  queue,     \* _queue: the tasks whose futures are queued, oldest first
  future,    \* each task's future
  pc,        \* where each task is
  timer,     \* _drain_handle: units of time left until it is due, or NoTimer
  calls,     \* calls each task has made
  taken,     \* tokens taken from the bucket (history)
  begun,     \* calls of fn begun (history)
  lost       \* tokens given to a task that was then cancelled (history)

vars == <<tokens, accrued, queue, future, pc, timer, calls, taken, begun, lost>>
counters == <<taken, begun, lost>>

Least(a, b) == IF a < b THEN a ELSE b
Greatest(a, b) == IF a > b THEN a ELSE b

-----------------------------------------------------------------------------
(* _refill, _try_drain and _schedule_drain, as functions of the state *)

\* Mutant: idle time is credited beyond the burst.
RefilledUncapped == tokens + accrued

\* _refill: the bucket after the elapsed time is credited.
Refilled == Least(Capacity, tokens + accrued)

\* Mutant: waits for a whole token, whatever the bucket holds.
ArmedFromZero(handle, q, units) ==
  IF handle # NoTimer \/ q = <<>> THEN handle ELSE Cost

\* _schedule_drain: keep a running timer; otherwise, if somebody is queued, wait for
\* what is missing to one token.
Armed(handle, q, units) ==
  IF handle # NoTimer \/ q = <<>> THEN handle ELSE Greatest(0, Cost - units)

\* How many of the first k queued futures are still pending.
Pending(k) == Cardinality({i \in 1..k : future[queue[i]] = "pending"})

\* Mutant: pops while anything is left of a token.
ReachedEarly(units) ==
  {k \in 1..Len(queue) : Pending(k - 1) * Cost < units}

\* _try_drain pops while a token is there: it reaches entry k when the pending futures
\* before it, which it grants, leave a whole token.  Cancelled futures cost nothing.
Reached(units) ==
  {k \in 1..Len(queue) : (Pending(k - 1) + 1) * Cost <= units}

-----------------------------------------------------------------------------

Init ==
  /\ tokens = Capacity /\ accrued = 0
  /\ queue = <<>>
  /\ future = [c \in Callers |-> "none"]
  /\ pc = [c \in Callers |-> "idle"]
  /\ timer = NoTimer
  /\ calls = [c \in Callers |-> 0]
  /\ taken = 0 /\ begun = 0 /\ lost = 0

\* Time passes.
Tick ==
  /\ accrued' = Least(Capacity, accrued + Rate)
  /\ timer' = IF timer = NoTimer THEN NoTimer ELSE Greatest(0, timer - Rate)
  /\ UNCHANGED <<tokens, queue, future, pc, calls, counters>>

\* _acquire up to its await.  A token that is there is taken, even past a queue.
TakeNow(c) ==
  /\ pc[c] = "idle" /\ calls[c] < MaxCalls
  /\ Refilled >= Cost
  /\ tokens' = Refilled - Cost /\ accrued' = 0
  /\ pc' = [pc EXCEPT ![c] = "calling"]
  /\ calls' = [calls EXCEPT ![c] = @ + 1]
  /\ taken' = taken + 1 /\ begun' = begun + 1
  /\ UNCHANGED <<queue, future, timer, lost>>

\* RateLimitQueueFullError.
Refuse(c) ==
  /\ pc[c] = "idle" /\ calls[c] < MaxCalls
  /\ Refilled < Cost /\ Len(queue) >= MaxQueue
  /\ tokens' = Refilled /\ accrued' = 0
  /\ calls' = [calls EXCEPT ![c] = @ + 1]
  /\ UNCHANGED <<queue, future, pc, timer, counters>>

\* The task queues a future and sees to it that the drain timer runs.
Enqueue(c) ==
  /\ pc[c] = "idle" /\ calls[c] < MaxCalls
  /\ Refilled < Cost /\ Len(queue) < MaxQueue
  /\ tokens' = Refilled /\ accrued' = 0
  /\ queue' = Append(queue, c)
  /\ future' = [future EXCEPT ![c] = "pending"]
  /\ timer' = Armed(timer, queue', tokens')
  /\ pc' = [pc EXCEPT ![c] = "waiting"]
  /\ calls' = [calls EXCEPT ![c] = @ + 1]
  /\ UNCHANGED counters

\* Mutant: cancelled futures are popped at the price of a token.
DrainBlind ==
  /\ timer # NoTimer /\ timer < Rate
  /\ LET popped  == Least(Len(queue), Refilled \div Cost)
         granted == {queue[k] : k \in {i \in 1..popped : future[queue[i]] = "pending"}}
     IN  /\ tokens' = Refilled - popped * Cost /\ accrued' = 0
         /\ queue' = SubSeq(queue, popped + 1, Len(queue))
         /\ future' = [c \in Callers |-> IF c \in granted THEN "granted" ELSE future[c]]
         /\ timer' = Armed(NoTimer, queue', tokens')
         /\ taken' = taken + popped
  /\ UNCHANGED <<pc, calls, begun, lost>>

\* Mutant: the timer is not set again for those still queued.
DrainOnce ==
  /\ timer # NoTimer /\ timer < Rate
  /\ LET reached == Reached(Refilled)
         granted == {queue[k] : k \in {i \in reached : future[queue[i]] = "pending"}}
     IN  /\ tokens' = Refilled - Cardinality(granted) * Cost /\ accrued' = 0
         /\ queue' = SubSeq(queue, Cardinality(reached) + 1, Len(queue))
         /\ future' = [c \in Callers |-> IF c \in granted THEN "granted" ELSE future[c]]
         /\ timer' = NoTimer
         /\ taken' = taken + Cardinality(granted)
  /\ UNCHANGED <<pc, calls, begun, lost>>

\* The timer runs _try_drain.  The loop may run it up to a tick early: delays are
\* floats and the loop rounds to its clock's resolution.
Drain ==
  /\ timer # NoTimer /\ timer < Rate
  /\ LET reached == Reached(Refilled)
         granted == {queue[k] : k \in {i \in reached : future[queue[i]] = "pending"}}
         popped  == Cardinality(reached)
     IN  /\ tokens' = Refilled - Cardinality(granted) * Cost /\ accrued' = 0
         /\ queue' = SubSeq(queue, popped + 1, Len(queue))
         /\ future' = [c \in Callers |-> IF c \in granted THEN "granted" ELSE future[c]]
         /\ timer' = Armed(NoTimer, queue', tokens')
         /\ taken' = taken + Cardinality(granted)
  /\ UNCHANGED <<pc, calls, begun, lost>>

\* A task whose future was granted runs on and calls fn.
Proceed(c) ==
  /\ pc[c] = "waiting" /\ future[c] = "granted"
  /\ pc' = [pc EXCEPT ![c] = "calling"]
  /\ future' = [future EXCEPT ![c] = "none"]
  /\ begun' = begun + 1
  /\ UNCHANGED <<tokens, accrued, queue, timer, calls, taken, lost>>

\* task.cancel() while the future is pending cancels the future ...
CancelWaiting(c) ==
  /\ pc[c] = "waiting" /\ future[c] = "pending"
  /\ future' = [future EXCEPT ![c] = "cancelled"]
  /\ UNCHANGED <<tokens, accrued, queue, pc, timer, calls, counters>>

\* Mutant: the cancelled task leaves its future in the queue.
UnwindInPlace(c) ==
  /\ pc[c] = "waiting" /\ future[c] = "cancelled"
  /\ pc' = [pc EXCEPT ![c] = "idle"]
  /\ future' = [future EXCEPT ![c] = "none"]
  /\ UNCHANGED <<tokens, accrued, queue, timer, calls, counters>>

\* ... and when the task runs it leaves the queue and ends.
Unwind(c) ==
  /\ pc[c] = "waiting" /\ future[c] = "cancelled"
  /\ \/ \E i \in 1..Len(queue) : queue[i] = c /\ queue' = RemoveAt(queue, i)
     \/ (\A i \in 1..Len(queue) : queue[i] # c) /\ UNCHANGED queue
  /\ pc' = [pc EXCEPT ![c] = "idle"]
  /\ future' = [future EXCEPT ![c] = "none"]
  /\ UNCHANGED <<tokens, accrued, timer, calls, counters>>

\* task.cancel() after the grant and before the task ran: CancelledError is raised at
\* the await all the same, and the except branch finds nothing to undo.
CancelGranted(c) ==
  /\ pc[c] = "waiting" /\ future[c] = "granted"
  /\ pc' = [pc EXCEPT ![c] = "idle"]
  /\ future' = [future EXCEPT ![c] = "none"]
  /\ lost' = lost + 1
  /\ UNCHANGED <<tokens, accrued, queue, timer, calls, taken, begun>>

\* fn returns, fails or is cancelled: the token is spent either way.
Finish(c) ==
  /\ pc[c] = "calling"
  /\ pc' = [pc EXCEPT ![c] = "idle"]
  /\ UNCHANGED <<tokens, accrued, queue, future, timer, calls, counters>>

\* available(): an inspection that refills.
Available ==
  /\ tokens' = Refilled /\ accrued' = 0
  /\ UNCHANGED <<queue, future, pc, timer, calls, counters>>

Acquire(c) == TakeNow(c) \/ Refuse(c) \/ Enqueue(c)

Next ==
  \/ Tick \/ Drain \/ Available
  \/ \E c \in Callers :
       \/ Acquire(c) \/ Proceed(c) \/ Finish(c)
       \/ CancelWaiting(c) \/ Unwind(c) \/ CancelGranted(c)

\* The clock runs, the event loop runs due timers and ready tasks.  Nothing makes a
\* task call, finish or be cancelled.
Fairness ==
  /\ WF_vars(Tick) /\ WF_vars(Drain)
  /\ \A c \in Callers : WF_vars(Proceed(c)) /\ WF_vars(Unwind(c))

Spec == Init /\ [][Next]_vars /\ Fairness

-----------------------------------------------------------------------------
(* Properties *)

\* The type invariant of the module.
TypeOK ==
  /\ tokens \in 0..Capacity /\ accrued \in 0..Capacity
  /\ queue \in Seq(Callers)
  /\ future \in [Callers -> {"none", "pending", "granted", "cancelled"}]
  /\ pc \in [Callers -> {"idle", "waiting", "calling"}]
  /\ timer \in Nat \cup {NoTimer}
  /\ calls \in [Callers -> 0..MaxCalls]
  /\ taken \in Nat /\ begun \in Nat /\ lost \in Nat

\* Nobody queued is left behind: while the queue is not empty the drain timer runs, and
\* a running timer is due no later than the moment the next token is whole - whoever
\* barged in, was cancelled or was drained since it was set, and even if it was set for
\* a waiter long gone.
TimerNotLate ==
  /\ queue # <<>> => timer # NoTimer
  /\ timer # NoTimer => timer <= Greatest(0, Cost - Refilled)

\* The queue holds exactly the futures that are neither granted nor unwound, each
\* once, so a popped future is never granted twice and no pending one is forgotten.
QueueIsTheWaiters ==
  /\ \A i, j \in 1..Len(queue) : queue[i] = queue[j] => i = j
  /\ \A c \in Callers : future[c] = "pending" => \E i \in 1..Len(queue) : queue[i] = c
  /\ \A i \in 1..Len(queue) : future[queue[i]] \in {"pending", "cancelled"}

\* Every token taken lets one call begin, is on its way to a task, or was lost with a
\* task cancelled between the grant and its next run; no call begins without one.
TokensAccountedFor ==
  taken = begun + lost + Cardinality({c \in Callers : future[c] = "granted"})

\* A task has a future exactly while it waits.
FuturesFit == \A c \in Callers : future[c] = "none" <=> pc[c] # "waiting"

\* The inductive invariant.
Inductive ==
  TypeOK /\ FuturesFit /\ QueueIsTheWaiters /\ TimerNotLate /\ TokensAccountedFor

\* The lazily refilled bucket implements the eager one: however calls, timers and
\* refills interleave, no more tokens are taken than burst and rate allow.
Bucket == INSTANCE TokenBucket WITH level <- Refilled
KeepsTheRate == Bucket!Spec

\* A waiting task is granted a token or cancelled in the end.
WaitersMoveOn == \A c \in Callers : pc[c] = "waiting" ~> pc[c] # "waiting"

\* "a cancelled waiter leaves the queue and its token goes to the next caller"
\* (rate_limit.py:12): no token dies with a cancelled waiter.
CancelledTokenGoesOn == lost = 0
=============================================================================
