---------------------------- MODULE ResolverCache ----------------------------
(***************************************************************************)
(* The in-memory cache of the channel and user listings                    *)
(* (extensions/resolver_cache.py) under concurrent lookups, explicit       *)
(* refreshes, clears, failures and cancellation, together with the status  *)
(* facade (extensions/status.py), the one write that invalidates it.       *)
(*                                                                         *)
(* A listing is represented by its version: the number of changes Pumble   *)
(* has seen.  A load is a task of its own; callers wait for it through     *)
(* asyncio.shield (lookups) or asyncio.gather (refresh).  Cancelling a     *)
(* task is a request: the task ends when it next runs, and a task that     *)
(* never ran ends without entering its try block.                          *)
(***************************************************************************)
EXTENDS Naturals, Integers, Sequences, FiniteSets

CONSTANTS
  Callers,     \* callers of list_channels / list_users / refresh, once each
  Writers,     \* callers of set_status / clear_status, once each
  KindOrder,   \* the cached kinds, in the order refresh loads them
  Ttl,         \* ttl_s in ticks
  RefreshOnMiss,
  MaxTime,     \* bound: the last clock value
  MaxLoads,    \* bound: loads started
  MaxVersion   \* bound: versions of the listing of each kind

Kinds == {KindOrder[i] : i \in 1..Len(KindOrder)}

\* The users are cached, a refresh is of no kind and loads each kind once.
ASSUME CacheAssumption ==
  /\ Ttl \in Nat /\ RefreshOnMiss \in BOOLEAN
  /\ MaxTime \in Nat /\ MaxLoads \in Nat
  /\ KindOrder \in Seq(Kinds) /\ "users" \in Kinds /\ "none" \notin Kinds
  /\ \A m, n \in 1..Len(KindOrder) : KindOrder[m] = KindOrder[n] => m = n
  /\ \A k \in Kinds : MaxVersion[k] \in Nat

VARIABLES
  now,      \* the injected monotonic clock
  source,   \* Pumble's current version of each listing
  past,     \* past[k][t]: the version of k when tick t began (history)
  load,     \* every load task ever created: kind, loaded_at, state, value
  entry,    \* _entries: the load cached for each kind, 0 for none
  caller,   \* the lookups and refreshes
  writer,   \* the status writes
  cleared,  \* version of each listing when it was last cleared (history)
  swept     \* the load last cleared out of the cache, of each kind (history)

vars == <<now, source, past, load, entry, caller, writer, cleared, swept>>

-----------------------------------------------------------------------------

\* _fresh, and the condition under which _cached uses an entry.
Fresh(i) == now - load[i].at <= Ttl
Hit(k) == entry[k] # 0 /\ (Fresh(entry[k]) \/ ~RefreshOnMiss)

\* Mutant: every load fetches the first listing.
NewLoadOneKind(k) == [kind |-> KindOrder[1], at |-> now, state |-> "new", value |-> 0]

NewLoad(k) == [kind |-> k, at |-> now, state |-> "new", value |-> 0]

\* Mutant: a load that gave up evicts whatever is cached.
EvictedAlways(i) == [entry EXCEPT ![load[i].kind] = 0]

\* The entry of a kind after load i gave up: only its own entry is evicted.
Evicted(i) == [entry EXCEPT ![load[i].kind] = IF @ = i THEN 0 ELSE @]

\* A load that was cancelled while it ran, or before.
Withdrawn == {"cancelled", "dropped"}
Ended == {"done", "failed"} \cup Withdrawn

\* The version a clear or a verified status write entitles a new lookup of k to.
Newest(S) == CHOOSE v \in S : \A w \in S : w <= v
Entitled(k) ==
  Newest({cleared[k]} \cup
         {writer[w].version : w \in {x \in Writers : k = "users" /\ writer[x].pc = "verified"}})

NoCall == [pc |-> "idle", kind |-> "none", on |-> {}, start |-> 0, floor |-> 0,
           result |-> 0, self |-> FALSE]

Init ==
  /\ now = 0
  /\ source = [k \in Kinds |-> 0]
  /\ past = [k \in Kinds |-> [t \in 0..MaxTime |-> 0]]
  /\ load = <<>>
  /\ entry = [k \in Kinds |-> 0]
  /\ caller = [c \in Callers |-> NoCall]
  /\ writer = [w \in Writers |-> [pc |-> "idle", version |-> 0]]
  /\ cleared = [k \in Kinds |-> 0] /\ swept = [k \in Kinds |-> 0]

Tick ==
  /\ now < MaxTime
  /\ now' = now + 1
  /\ past' = [k \in Kinds |-> [past[k] EXCEPT ![now + 1] = source[k]]]
  /\ UNCHANGED <<source, load, entry, caller, writer, cleared, swept>>

\* Somebody changes a channel or a user in Pumble.
Change(k) ==
  /\ source[k] < MaxVersion[k]
  /\ source' = [source EXCEPT ![k] = @ + 1]
  /\ UNCHANGED <<now, past, load, entry, caller, writer, cleared, swept>>

-----------------------------------------------------------------------------
(* Lookups *)

\* A lookup as it is when it begins to wait for load i.
Waiting(k, i) ==
  [NoCall EXCEPT !.pc = "waiting", !.kind = k, !.on = {i}, !.start = now,
                 !.floor = Entitled(k)]

\* list_channels / list_users with a usable entry: wait for its task, done or not.
LookupHit(c, k) ==
  /\ caller[c].pc = "idle" /\ Hit(k)
  /\ caller' = [caller EXCEPT ![c] = Waiting(k, entry[k])]
  /\ UNCHANGED <<now, source, past, load, entry, writer, cleared, swept>>

\* Otherwise a new task is created and becomes the entry at once.
LookupMiss(c, k) ==
  /\ caller[c].pc = "idle" /\ ~Hit(k) /\ Len(load) < MaxLoads
  /\ load' = Append(load, NewLoad(k))
  /\ entry' = [entry EXCEPT ![k] = Len(load) + 1]
  /\ caller' = [caller EXCEPT ![c] = Waiting(k, Len(load) + 1)]
  /\ UNCHANGED <<now, source, past, writer, cleared, swept>>

\* refresh(): a new load of every kind, whatever is cached or in flight.
Refresh(c) ==
  /\ caller[c].pc = "idle" /\ Len(load) + Len(KindOrder) <= MaxLoads
  /\ load' = load \o [n \in 1..Len(KindOrder) |-> NewLoad(KindOrder[n])]
  /\ entry' = [k \in Kinds |->
       Len(load) + (CHOOSE n \in 1..Len(KindOrder) : KindOrder[n] = k)]
  /\ caller' = [caller EXCEPT ![c] =
       [NoCall EXCEPT !.pc = "refreshing", !.start = now,
                      !.on = (Len(load) + 1)..(Len(load) + Len(KindOrder))]]
  /\ UNCHANGED <<now, source, past, writer, cleared, swept>>

\* Results of a finished call: a version, or one of these.
Failed == -1
Cancelled == -2

\* A call ends.  What no property looks at afterwards is forgotten: when it began, unless
\* it has a listing, and what it waited for, unless it was cancelled.
Finish(c, result, self) ==
  caller' = [caller EXCEPT ![c] =
    [NoCall EXCEPT !.pc = "finished", !.kind = caller[c].kind, !.result = result, !.self = self,
                   !.start = IF result \in Nat THEN caller[c].start ELSE 0,
                   !.floor = IF result \in Nat THEN caller[c].floor ELSE 0,
                   !.on = IF result = Cancelled THEN caller[c].on ELSE {}]]

\* Mutant: only an answer or an error wakes a lookup.
WakeUncancelled(c) ==
  /\ caller[c].pc = "waiting"
  /\ \E i \in caller[c].on :
       \/ load[i].state = "done" /\ Finish(c, load[i].value, FALSE)
       \/ load[i].state = "failed" /\ Finish(c, Failed, FALSE)
  /\ UNCHANGED <<now, source, past, load, entry, writer, cleared, swept>>

\* A lookup resumes with whatever its load ended with; shield passes a cancelled task
\* on as CancelledError.
Wake(c) ==
  /\ caller[c].pc = "waiting"
  /\ \E i \in caller[c].on :
       \/ load[i].state = "done" /\ Finish(c, load[i].value, FALSE)
       \/ load[i].state = "failed" /\ Finish(c, Failed, FALSE)
       \/ load[i].state \in Withdrawn /\ Finish(c, Cancelled, FALSE)
  /\ UNCHANGED <<now, source, past, load, entry, writer, cleared, swept>>

\* gather returns when all loads are done, or raises as soon as one is not.
WakeRefresh(c) ==
  /\ caller[c].pc = "refreshing"
  /\ \/ (\A i \in caller[c].on : load[i].state = "done") /\ Finish(c, 0, FALSE)
     \/ (\E i \in caller[c].on : load[i].state = "failed") /\ Finish(c, Failed, FALSE)
     \/ (\E i \in caller[c].on : load[i].state \in Withdrawn) /\ Finish(c, Cancelled, FALSE)
  /\ UNCHANGED <<now, source, past, load, entry, writer, cleared, swept>>

\* Mutant: no shield, a cancelled lookup takes its load with it.
CancelUnshielded(c) ==
  /\ caller[c].pc = "waiting"
  /\ Finish(c, Cancelled, TRUE)
  /\ load' = [i \in 1..Len(load) |->
       IF i \in caller[c].on /\ load[i].state \in {"asked", "answered"}
       THEN [load[i] EXCEPT !.state = "dying"] ELSE load[i]]
  /\ UNCHANGED <<now, source, past, entry, writer, cleared, swept>>

\* A lookup is cancelled: shield keeps its load running.  So is a refresh whose gather
\* has already raised: nothing is left for it to cancel.
CancelAlone(c) ==
  /\ \/ caller[c].pc = "waiting"
     \/ /\ caller[c].pc = "refreshing"
        /\ \E i \in caller[c].on : load[i].state \in {"failed"} \cup Withdrawn
  /\ Finish(c, Cancelled, TRUE)
  /\ UNCHANGED <<now, source, past, load, entry, writer, cleared, swept>>

\* A refresh is cancelled: gather cancels every load of it that has not ended.
CancelRefresh(c) ==
  /\ caller[c].pc = "refreshing"
  /\ Finish(c, Cancelled, TRUE)
  /\ load' = [i \in 1..Len(load) |->
       IF i \notin caller[c].on THEN load[i]
       ELSE IF load[i].state = "new" THEN [load[i] EXCEPT !.state = "stillborn"]
       ELSE IF load[i].state \in {"asked", "answered"}
            THEN [load[i] EXCEPT !.state = "dying", !.value = 0]
       ELSE load[i]]
  /\ UNCHANGED <<now, source, past, entry, writer, cleared, swept>>

-----------------------------------------------------------------------------
(* Load tasks *)

\* The task runs for the first time and sends the request.
Ask(i) ==
  /\ load[i].state = "new"
  /\ load' = [load EXCEPT ![i].state = "asked"]
  /\ UNCHANGED <<now, source, past, entry, caller, writer, cleared, swept>>

\* Pumble answers with the listing as it is at that moment ...
Answer(i) ==
  /\ load[i].state = "asked"
  /\ load' = [load EXCEPT ![i].state = "answered", ![i].value = source[load[i].kind]]
  /\ UNCHANGED <<now, source, past, entry, caller, writer, cleared, swept>>

\* Mutant: a listing is dated when it arrives, not when its load began.
ArriveDated(i) ==
  /\ load[i].state = "answered"
  /\ load' = [load EXCEPT ![i].state = "done", ![i].at = now]
  /\ UNCHANGED <<now, source, past, entry, caller, writer, cleared, swept>>

\* Mutant: a finished load stores itself, whatever happened to its entry.
ArriveStoring(i) ==
  /\ load[i].state = "answered"
  /\ load' = [load EXCEPT ![i].state = "done"]
  /\ entry' = [entry EXCEPT ![load[i].kind] = i]
  /\ UNCHANGED <<now, source, past, caller, writer, cleared, swept>>

\* ... and the answer arrives some time later.
Arrive(i) ==
  /\ load[i].state = "answered"
  /\ load' = [load EXCEPT ![i].state = "done"]
  /\ UNCHANGED <<now, source, past, entry, caller, writer, cleared, swept>>

\* The request fails: the task evicts its own entry and raises.  An answer it had is lost.
Fail(i) ==
  /\ load[i].state \in {"asked", "answered"}
  /\ load' = [load EXCEPT ![i].state = "failed", ![i].value = 0]
  /\ entry' = Evicted(i)
  /\ UNCHANGED <<now, source, past, caller, writer, cleared, swept>>

\* A cancelled task that was running does the same ...
Die(i) ==
  /\ load[i].state = "dying"
  /\ load' = [load EXCEPT ![i].state = "cancelled"]
  /\ entry' = Evicted(i)
  /\ UNCHANGED <<now, source, past, caller, writer, cleared, swept>>

\* ... but CancelledError reaches one that never ran before its try block.
DieUnborn(i) ==
  /\ load[i].state = "stillborn"
  /\ load' = [load EXCEPT ![i].state = "dropped"]
  /\ UNCHANGED <<now, source, past, entry, caller, writer, cleared, swept>>

-----------------------------------------------------------------------------
(* clear, and the status facade *)

\* clear(kind) for one kind, or for all.
Clear(ks) ==
  /\ entry' = [k \in Kinds |-> IF k \in ks THEN 0 ELSE entry[k]]
  /\ cleared' = [k \in Kinds |-> IF k \in ks THEN source[k] ELSE cleared[k]]
  /\ swept' = [k \in Kinds |-> IF k \in ks /\ entry[k] # 0 THEN entry[k] ELSE swept[k]]

ClearCache(ks) ==
  /\ Clear(ks)
  /\ UNCHANGED <<now, source, past, load, caller, writer>>

\* set_status / clear_status: the one write reaches Pumble, accepted ...
SetStatus(w) ==
  /\ writer[w].pc = "idle" /\ source["users"] < MaxVersion["users"]
  /\ source' = [source EXCEPT !["users"] = @ + 1]
  /\ writer' = [writer EXCEPT ![w] = [pc |-> "verifying", version |-> source["users"] + 1]]
  /\ UNCHANGED <<now, past, load, entry, caller, cleared, swept>>

\* ... the direct read succeeds and the users listing is invalidated ...
Verify(w) ==
  /\ writer[w].pc = "verifying"
  /\ writer' = [writer EXCEPT ![w].pc = "verified"]
  /\ Clear({"users"})
  /\ UNCHANGED <<now, source, past, load, caller>>

\* ... or it fails, and the receipt is still ok=True ...
VerifyFails(w) ==
  /\ writer[w].pc = "verifying"
  /\ writer' = [writer EXCEPT ![w].pc = "unverified"]
  /\ UNCHANGED <<now, source, past, load, entry, caller, cleared, swept>>

\* ... or there is no receipt: the answer to the write was lost, or the call cancelled.
LoseStatus(w) ==
  /\ writer[w].pc = "verifying"
  /\ writer' = [writer EXCEPT ![w].pc = "failed"]
  /\ UNCHANGED <<now, source, past, load, entry, caller, cleared, swept>>

-----------------------------------------------------------------------------

CallerStep(c) ==
  \/ \E k \in Kinds : LookupHit(c, k) \/ LookupMiss(c, k)
  \/ Refresh(c)
  \/ Wake(c) \/ WakeRefresh(c)
  \/ CancelAlone(c) \/ CancelRefresh(c)

LoadStep(i) == Ask(i) \/ Answer(i) \/ Arrive(i) \/ Fail(i) \/ Die(i) \/ DieUnborn(i)

Next ==
  \/ Tick
  \/ \E k \in Kinds : Change(k)
  \/ \E c \in Callers : CallerStep(c)
  \/ \E i \in 1..Len(load) : LoadStep(i)
  \/ \E ks \in {{k} : k \in Kinds} \cup {Kinds} : ClearCache(ks)
  \/ \E w \in Writers : SetStatus(w) \/ Verify(w) \/ VerifyFails(w) \/ LoseStatus(w)

\* Ready tasks run, and a request is answered or fails (httpx has timeouts).
Fairness ==
  /\ \A c \in Callers : WF_vars(Wake(c)) /\ WF_vars(WakeRefresh(c))
  /\ \A i \in 1..MaxLoads : WF_vars(i <= Len(load) /\ LoadStep(i))

Spec == Init /\ [][Next]_vars /\ Fairness

-----------------------------------------------------------------------------
(* Properties *)

\* The type invariant of the module.
TypeOK ==
  /\ now \in 0..MaxTime
  /\ \A k \in Kinds : source[k] \in 0..MaxVersion[k] /\ cleared[k] \in 0..source[k]
  /\ entry \in [Kinds -> 0..Len(load)] /\ swept \in [Kinds -> 0..Len(load)]
  /\ load \in Seq([kind : Kinds, at : 0..MaxTime, value : Nat,
                   state : {"new", "asked", "answered", "stillborn", "dying"} \cup Ended])
  /\ \A i \in 1..Len(load) : load[i].value <= source[load[i].kind]
  /\ \A k \in Kinds : entry[k] # 0 => load[entry[k]].kind = k
  /\ \A c \in Callers :
       /\ caller[c].pc \in {"idle", "waiting", "refreshing", "finished"}
       /\ caller[c].on \subseteq 1..Len(load)
       /\ caller[c].result \in {Failed, Cancelled} \cup Nat
  /\ writer \in [Writers -> [pc : {"idle", "verifying", "verified", "unverified", "failed"},
                             version : Nat]]

\* A lookup that returned a listing.
Answered(c) ==
  caller[c].pc = "finished" /\ caller[c].kind \in Kinds /\ caller[c].result \in Nat

\* A listing is never staler than the TTL allows: it shows the workspace no earlier
\* than Ttl ticks before the lookup began, however long the load took and whoever
\* started it.
StalenessIsBounded ==
  RefreshOnMiss => \A c \in Callers : Answered(c) /\ caller[c].start >= Ttl =>
    caller[c].result >= past[caller[c].kind][caller[c].start - Ttl]

\* What was cleared stays cleared: a lookup that begins after a clear, or after a
\* verified status write, sees a listing at least as new as that - also when a load
\* from before the clear is still in flight and ends after it.
ClearIsFinal ==
  \A c \in Callers : Answered(c) => caller[c].result >= caller[c].floor

\* The cache holds the newest load of a kind, and only that, until it is cleared away or
\* ends without a listing: a load that failed, or was cancelled while it ran, is not
\* cached, and an old one that ends so takes no newer one with it (loader's except).
CacheHoldsNewestLoad ==
  \A i \in 1..Len(load) : LET k == load[i].kind IN
    entry[k] = i <=> /\ \A j \in (i + 1)..Len(load) : load[j].kind # k
                     /\ i # swept[k] /\ load[i].state \notin {"failed", "cancelled"}

\* CancelledError stays with who was cancelled, except that a cancelled refresh takes
\* down the lookups that share its loads: a lookup ends cancelled without having been
\* cancelled only if its load belonged to a refresh that was.
OnlyRefreshSpreadsCancellation ==
  \A c \in Callers :
    (caller[c].pc = "finished" /\ caller[c].kind \in Kinds
      /\ caller[c].result = Cancelled /\ ~caller[c].self) =>
    \E d \in Callers : /\ caller[d].self /\ caller[d].kind = "none"
                       /\ caller[c].on \subseteq caller[d].on

\* Every lookup and refresh ends.
CallsEnd == \A c \in Callers :
  caller[c].pc \in {"waiting", "refreshing"} ~> caller[c].pc = "finished"

\* "a failed load evicts itself" (resolver_cache.py:38): a load that ended without a
\* listing is not served to later callers.
EndedLoadsEvict ==
  \A i \in 1..Len(load) :
    load[i].state \in {"failed"} \cup Withdrawn => \A k \in Kinds : entry[k] # i
=============================================================================
