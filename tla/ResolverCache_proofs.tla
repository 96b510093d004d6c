------------------------ MODULE ResolverCache_proofs -------------------------
(***************************************************************************)
(* Proofs about the resolver cache, for any number of callers, writers,    *)
(* kinds and loads and any TTL.  The argument is one inductive invariant:  *)
(* a listing that a lookup gets, or could still get, from a load is as new *)
(* as what the lookup was entitled to when it began.                       *)
(***************************************************************************)
EXTENDS ResolverCache, WellFoundedInduction, TLAPS

LoadRecords == [kind : Kinds, at : 0..MaxTime, value : Nat,
                state : {"new", "asked", "answered", "stillborn", "dying"} \cup Ended]

CallerRecords == [pc : {"idle", "waiting", "refreshing", "finished"}, kind : Kinds \cup {"none"},
                  on : SUBSET Nat, start : Nat, floor : Nat,
                  result : {Failed, Cancelled} \cup Nat, self : BOOLEAN]

WriterRecords == [pc : {"idle", "verifying", "verified", "unverified", "failed"}, version : Nat]

\* A load that has its listing, and one that was cancelled.
Listed == {"answered", "done"}
Doomed == {"stillborn", "dying", "cancelled", "dropped"}

Shape ==
  /\ now \in 0..MaxTime
  /\ source \in [Kinds -> Nat] /\ cleared \in [Kinds -> Nat]
  /\ past \in [Kinds -> [0..MaxTime -> Nat]]
  /\ load \in Seq(LoadRecords) /\ entry \in [Kinds -> 0..Len(load)]
  /\ caller \in [Callers -> CallerRecords] /\ writer \in [Writers -> WriterRecords]

\* Pumble's listings only grow, and nobody is ahead of them.
Growing ==
  /\ \A k \in Kinds : source[k] <= MaxVersion[k] /\ cleared[k] <= source[k]
  /\ \A w \in Writers : writer[w].version <= source["users"]
  /\ \A k \in Kinds : \A t \in 0..now :
       past[k][t] <= source[k] /\ \A s \in 0..t : past[k][s] <= past[k][t]

\* A load that was cancelled was one of a refresh that was.
Spread(S) == \E d \in Callers : /\ caller[d].self /\ caller[d].kind = "none"
                                /\ S \subseteq caller[d].on

\* A listing is one of the time of its load.
LoadFits(i) ==
  /\ load[i].at <= now /\ load[i].value <= source[load[i].kind]
  /\ load[i].state \in Listed => past[load[i].kind][load[i].at] <= load[i].value
  /\ load[i].state \in Doomed => Spread({i})

\* What is cached is of its kind, did not fail, and is as new as what was cleared.
EntryFits(k) ==
  LET l == load[entry[k]] IN
  entry[k] # 0 =>
    /\ l.kind = k /\ l.state # "failed"
    /\ l.state \in Listed =>
         /\ cleared[k] <= l.value
         /\ k = "users" => \A w \in Writers : writer[w].pc = "verified" => writer[w].version <= l.value

\* A lookup waits for a load of its kind, young enough when the lookup began, whose
\* listing is or will be what the lookup is entitled to.
Awaits(c, i) ==
  /\ caller[c].on = {i} /\ load[i].kind = caller[c].kind
  /\ caller[c].start <= now /\ caller[c].floor <= source[caller[c].kind]
  /\ load[i].state \in Listed => caller[c].floor <= load[i].value
  /\ RefreshOnMiss => caller[c].start - load[i].at <= Ttl

CallerFits(c) ==
  /\ caller[c].on \subseteq 1..Len(load)
  /\ caller[c].self => caller[c].pc = "finished"
  /\ caller[c].pc = "refreshing" => caller[c].kind = "none"
  /\ caller[c].pc = "waiting" => /\ caller[c].kind \in Kinds
                                 /\ \E i \in 1..Len(load) : Awaits(c, i)
  /\ Answered(c) =>
       /\ caller[c].floor <= caller[c].result /\ caller[c].start <= now
       /\ RefreshOnMiss /\ caller[c].start >= Ttl =>
            past[caller[c].kind][caller[c].start - Ttl] <= caller[c].result
  /\ (caller[c].pc = "finished" /\ caller[c].kind \in Kinds
       /\ caller[c].result = Cancelled /\ ~caller[c].self) => Spread(caller[c].on)

Loads == \A i \in 1..Len(load) : LoadFits(i)
Entries == \A k \in Kinds : EntryFits(k)
Calls == \A c \in Callers : CallerFits(c)

Inductive == Shape /\ Growing /\ Loads /\ Entries /\ Calls

-----------------------------------------------------------------------------
(* Operators *)

\* What the constants are.
LEMMA Constants ==
  /\ Ttl \in Nat /\ RefreshOnMiss \in BOOLEAN /\ MaxTime \in Nat
  /\ KindOrder \in Seq(Kinds) /\ "users" \in Kinds /\ "none" \notin Kinds
  /\ \A k \in Kinds : MaxVersion[k] \in Nat
  BY CacheAssumption

\* Among numbers up to n there is a greatest.
LEMMA Greatest ==
  ASSUME NEW S \in SUBSET Nat, NEW n \in Nat, \A s \in S : s <= n, S # {}
  PROVE  \E v \in S : \A w \in S : w <= v
<1> DEFINE T == {x \in 0..n : n - x \in S}
           R == OpToRel(<, Nat)
<1>1. PICK s \in S : TRUE
  OBVIOUS
<1>2. n - s \in T
  OBVIOUS
<1>3. T \subseteq Nat /\ T # {}
  BY <1>2
<1>4. IsWellFoundedOn(R, Nat)
  BY NatLessThanWellFounded, Zenon DEF R
<1>5. \A x, y \in Nat : y < x => <<y, x>> \in R
  BY DEF OpToRel
<1> HIDE DEF R
<1>6. PICK x \in T : \A y \in T : ~ (<<y, x>> \in R)
  <2> HIDE DEF T
  <2> QED
    BY <1>3, <1>4, WFMin, Zenon
<1>7. \A y \in T : ~ (y < x)
  BY <1>3, <1>5, <1>6
<1>8. ASSUME NEW w \in S
      PROVE  w <= n - x
  <2>1. n - w \in T
    OBVIOUS
  <2>2. ~(n - w < x)
    BY <1>7, <2>1
  <2> QED
    BY <2>2
<1> QED
  BY <1>8

\* A lookup is entitled to what was cleared, and to every status that was verified,
\* all of which Pumble has seen.
LEMMA EntitledFacts ==
  ASSUME Shape, Growing, NEW k \in Kinds
  PROVE  /\ Entitled(k) \in Nat /\ Entitled(k) <= source[k]
         /\ \A v \in Nat : /\ cleared[k] <= v
                           /\ k = "users" =>
                                \A w \in Writers : writer[w].pc = "verified" => writer[w].version <= v
                           => Entitled(k) <= v
<1> DEFINE S == {cleared[k]} \cup
                {writer[w].version : w \in {x \in Writers : k = "users" /\ writer[x].pc = "verified"}}
<1>1. S \in SUBSET Nat /\ S # {}
  BY DEF Shape, WriterRecords
<1>2. source[k] \in Nat /\ \A s \in S : s <= source[k]
  BY DEF Shape, Growing
<1> HIDE DEF S
<1>3. \E v \in S : \A w \in S : w <= v
  BY <1>1, <1>2, Greatest
<1>4. Newest(S) \in S
  BY <1>3 DEF Newest
<1>5. Entitled(k) = Newest(S)
  BY DEF Entitled, S
<1>6. ASSUME NEW v \in Nat, cleared[k] <= v,
             k = "users" => \A w \in Writers : writer[w].pc = "verified" => writer[w].version <= v
      PROVE  \A s \in S : s <= v
  BY <1>6 DEF S
<1> QED
  BY <1>1, <1>2, <1>4, <1>5, <1>6

-----------------------------------------------------------------------------
(* What every step keeps *)

\* Time and listings move on, past and loads are what they were, a load gets the
\* current listing or keeps the one it has, and a cancelled call stays cancelled.
Continued ==
  /\ now <= now' /\ \A k \in Kinds : source[k] <= source'[k]
  /\ \A k \in Kinds : \A t \in 0..now : past'[k][t] = past[k][t]
  /\ Len(load) <= Len(load')
  /\ \A i \in 1..Len(load) :
       /\ load'[i].kind = load[i].kind /\ load'[i].at = load[i].at
       /\ load'[i].state \in Listed =>
            load'[i].value = IF load[i].state \in Listed THEN load[i].value
                             ELSE source[load[i].kind]
  /\ \A d \in Callers : caller[d].self => caller'[d] = caller[d]

\* The fields of loads and calls that the proofs compare.
LEMMA Records ==
  ASSUME Shape
  PROVE  /\ now \in Nat /\ now <= MaxTime /\ Len(load) \in Nat
         /\ \A k \in Kinds : source[k] \in Nat /\ cleared[k] \in Nat /\ entry[k] \in 0..Len(load)
         /\ \A i \in 1..Len(load) : /\ load[i] \in LoadRecords /\ load[i].kind \in Kinds
                                    /\ load[i].at \in Nat /\ load[i].value \in Nat
         /\ \A c \in Callers : /\ caller[c] \in CallerRecords /\ caller[c].start \in Nat
                               /\ caller[c].floor \in Nat
<1>1. \A i \in 1..Len(load) : load[i] \in LoadRecords
  BY DEF Shape
<1>2. \A i \in 1..Len(load) : /\ load[i].kind \in Kinds
                             /\ load[i].at \in Nat /\ load[i].value \in Nat
  BY <1>1, Constants DEF LoadRecords
<1>3. \A c \in Callers : caller[c] \in CallerRecords
  BY DEF Shape
<1>4. \A c \in Callers : caller[c].start \in Nat /\ caller[c].floor \in Nat
  BY <1>3 DEF CallerRecords
<1>5. /\ now \in Nat /\ now <= MaxTime /\ Len(load) \in Nat
      /\ \A k \in Kinds : source[k] \in Nat /\ cleared[k] \in Nat /\ entry[k] \in 0..Len(load)
  BY Constants DEF Shape
<1> QED
  BY <1>1, <1>2, <1>3, <1>4, <1>5

\* A cancellation stays a cancellation.
LEMMA SpreadStays ==
  ASSUME Continued, NEW S, Spread(S)
  PROVE  Spread(S)'
  BY DEF Continued, Spread

\* What a lookup waits for stays good enough for it.
LEMMA AwaitsStays ==
  ASSUME Inductive, Continued, NEW c \in Callers, caller'[c] = caller[c],
         caller[c].kind \in Kinds, NEW i \in 1..Len(load), Awaits(c, i), Shape'
  PROVE  Awaits(c, i)'
<1>1. Shape
  BY DEF Inductive
<1>2. /\ caller[c].floor <= source[caller[c].kind]
      /\ load'[i].kind = caller[c].kind /\ load'[i].at = load[i].at
  BY DEF Awaits, Continued
<1>4. caller[c].start <= now'
  <2>1. now' \in Nat /\ now \in Nat /\ caller[c].start \in Nat /\ now <= now'
    <3>1. now' \in 0..MaxTime
      BY DEF Shape
    <3> QED
      BY <1>1, <3>1, Records, Constants DEF Continued
  <2> QED
    BY <2>1 DEF Awaits
<1>5. caller[c].floor <= source'[caller[c].kind]
  <2> DEFINE k == caller[c].kind
  <2>1. source'[k] \in Nat /\ source[k] \in Nat /\ caller[c].floor \in Nat /\ source[k] <= source'[k]
    BY <1>1, Records DEF Shape, Continued
  <2> QED
    BY <1>2, <2>1
<1>3. load'[i].state \in Listed => caller[c].floor <= load'[i].value
  BY <1>2 DEF Awaits, Continued
<1> QED
  BY <1>2, <1>3, <1>4, <1>5 DEF Awaits, Continued

\* A caller that does not move stays in order.
LEMMA CallerStays ==
  ASSUME Inductive, Continued, Shape', NEW c \in Callers, caller'[c] = caller[c]
  PROVE  CallerFits(c)'
<1>1. Shape /\ Growing /\ CallerFits(c)
  BY DEF Inductive, Calls
<1>2. caller[c].on \subseteq 1..Len(load')
  <2>1. Len(load) \in Nat /\ Len(load') \in Nat /\ Len(load) <= Len(load')
    BY <1>1 DEF Shape, Continued
  <2>2. caller[c].on \subseteq 1..Len(load)
    BY <1>1 DEF CallerFits
  <2>3. 1..Len(load) \subseteq 1..Len(load')
    BY <2>1
  <2> QED
    BY <2>2, <2>3
<1>3. caller[c].pc = "waiting" => /\ caller[c].kind \in Kinds
                                  /\ \E i \in 1..Len(load') : Awaits(c, i)'
  <2> SUFFICES ASSUME caller[c].pc = "waiting"
               PROVE  caller[c].kind \in Kinds /\ \E i \in 1..Len(load') : Awaits(c, i)'
    OBVIOUS
  <2>1. caller[c].kind \in Kinds
    BY <1>1 DEF CallerFits
  <2>2. PICK i \in 1..Len(load) : Awaits(c, i)
    BY <1>1 DEF CallerFits
  <2>3. Awaits(c, i)'
    BY <2>1, <2>2, AwaitsStays
  <2>4. i \in 1..Len(load')
    BY <1>1, <2>2 DEF Shape, Continued
  <2> QED
    BY <2>1, <2>3, <2>4
<1>4. Answered(c) =>
        /\ caller[c].floor <= caller[c].result /\ caller[c].start <= now'
        /\ RefreshOnMiss /\ caller[c].start >= Ttl =>
             past'[caller[c].kind][caller[c].start - Ttl] <= caller[c].result
  <2> SUFFICES ASSUME Answered(c)
               PROVE  /\ caller[c].floor <= caller[c].result /\ caller[c].start <= now'
                      /\ RefreshOnMiss /\ caller[c].start >= Ttl =>
                           past'[caller[c].kind][caller[c].start - Ttl] <= caller[c].result
    OBVIOUS
  <2>1. /\ caller[c].floor <= caller[c].result /\ caller[c].start <= now
        /\ RefreshOnMiss /\ caller[c].start >= Ttl =>
             past[caller[c].kind][caller[c].start - Ttl] <= caller[c].result
    BY <1>1 DEF CallerFits
  <2>2. now' \in Nat /\ now \in Nat /\ now <= now' /\ caller[c].start \in Nat
    <3>1. now' \in 0..MaxTime
      BY DEF Shape
    <3> QED
      BY <1>1, <3>1, Records, Constants DEF Continued
  <2>3. caller[c].start >= Ttl => caller[c].start - Ttl \in 0..now
    BY <2>1, <2>2, Constants
  <2>4. caller[c].kind \in Kinds
    BY DEF Answered
  <2> QED
    BY <2>1, <2>2, <2>3, <2>4 DEF Continued
<1>5. Answered(c)' <=> Answered(c)
  BY DEF Answered
<1>6. (caller[c].pc = "finished" /\ caller[c].kind \in Kinds
        /\ caller[c].result = Cancelled /\ ~caller[c].self) => Spread(caller[c].on)'
  <2> SUFFICES ASSUME caller[c].pc = "finished", caller[c].kind \in Kinds,
                      caller[c].result = Cancelled, ~caller[c].self
               PROVE  Spread(caller[c].on)'
    OBVIOUS
  <2>1. Spread(caller[c].on)
    BY <1>1 DEF CallerFits
  <2> QED
    BY <2>1 DEF Spread, Continued
<1>7. /\ caller[c].self => caller[c].pc = "finished"
      /\ caller[c].pc = "refreshing" => caller[c].kind = "none"
  BY <1>1 DEF CallerFits
<1> QED
  BY <1>2, <1>3, <1>4, <1>5, <1>6, <1>7 DEF CallerFits

\* A load that gets its listing gets the current one, which is no older than it.
LEMMA LoadStays ==
  ASSUME Inductive, Continued, Shape', NEW i \in 1..Len(load),
         load'[i].value <= source'[load[i].kind],
         load'[i].state \in Doomed => Spread({i})'
  PROVE  LoadFits(i)'
<1>1. Shape /\ Growing /\ LoadFits(i)
  BY DEF Inductive, Loads
<1>2. /\ load'[i].kind = load[i].kind /\ load'[i].at = load[i].at
      /\ load[i].kind \in Kinds /\ load[i].at \in Nat /\ load[i].value \in Nat
      /\ now \in Nat /\ now <= now' /\ load[i].at <= now
  BY <1>1, Records DEF Continued, LoadFits
<1>3. load[i].at \in 0..now
  BY <1>2
<1>4. now' \in Nat
  BY Constants DEF Shape
<1>5. past'[load[i].kind][load[i].at] = past[load[i].kind][load[i].at]
  BY <1>2, <1>3 DEF Continued
<1>6. load'[i].state \in Listed => past[load[i].kind][load[i].at] <= load'[i].value
  <2>1. CASE load[i].state \in Listed
    BY <1>1, <2>1 DEF Continued, LoadFits
  <2>2. CASE load[i].state \notin Listed
    BY <1>1, <1>2, <1>3, <2>2 DEF Continued, Growing
  <2> QED
    BY <2>1, <2>2
<1> QED
  BY <1>2, <1>4, <1>5, <1>6 DEF LoadFits

\* An entry that is kept stays usable while nothing is cleared.
LEMMA EntryStays ==
  ASSUME Inductive, Continued, NEW k \in Kinds, entry'[k] = entry[k], cleared'[k] = cleared[k],
         k = "users" => \A w \in Writers : writer'[w].pc = "verified" => writer'[w] = writer[w],
         entry[k] # 0 => load'[entry[k]].state # "failed"
  PROVE  EntryFits(k)'
<1> SUFFICES ASSUME entry[k] # 0
             PROVE  LET l == load'[entry[k]] IN
                    /\ l.kind = k /\ l.state # "failed"
                    /\ l.state \in Listed =>
                         /\ cleared[k] <= l.value
                         /\ k = "users" => \A w \in Writers :
                              writer'[w].pc = "verified" => writer'[w].version <= l.value
  BY DEF EntryFits
<1>1. Shape /\ Growing /\ EntryFits(k)
  BY DEF Inductive, Entries
<1> DEFINE i == entry[k]
<1>2. i \in 1..Len(load)
  BY <1>1, Records
<1>3. load[i].kind = k /\ load'[i].kind = k
  BY <1>1, <1>2 DEF EntryFits, Continued
<1> HIDE DEF i
<1>4. load'[i].state \in Listed => cleared[k] <= load'[i].value
  <2>1. CASE load[i].state \in Listed
    BY <1>1, <1>2, <2>1 DEF Continued, EntryFits, i
  <2>2. CASE load[i].state \notin Listed
    BY <1>1, <1>2, <1>3, <2>2 DEF Continued, Growing
  <2> QED
    BY <2>1, <2>2
<1>5. ASSUME load'[i].state \in Listed, k = "users",
             NEW w \in Writers, writer'[w].pc = "verified"
      PROVE  writer'[w].version <= load'[i].value
  <2>1. writer'[w] = writer[w]
    BY <1>5
  <2>2. CASE load[i].state \in Listed
    BY <1>1, <1>2, <1>5, <2>1, <2>2 DEF Continued, EntryFits, i
  <2>3. CASE load[i].state \notin Listed
    BY <1>1, <1>2, <1>3, <1>5, <2>1, <2>3 DEF Continued, Growing
  <2> QED
    BY <2>2, <2>3
<1> QED
  BY <1>3, <1>4, <1>5 DEF i

\* The invariant after a step, from what the step changed.
LEMMA Assembled ==
  ASSUME Inductive, Continued, Shape', Growing',
         \A i \in 1..Len(load) : /\ load'[i].value <= source'[load[i].kind]
                                 /\ load'[i].state \in Doomed => Spread({i})',
         \A i \in (Len(load) + 1)..Len(load') : LoadFits(i)',
         \A k \in Kinds : EntryFits(k)',
         \A c \in Callers : caller'[c] # caller[c] => CallerFits(c)'
  PROVE  Inductive'
<1>1. \A c \in Callers : CallerFits(c)'
  BY CallerStays
<1>2. \A i \in 1..Len(load) : LoadFits(i)'
  BY LoadStays
<1>3. \A i \in 1..Len(load') : LoadFits(i)'
  <2>1. Len(load) \in Nat /\ Len(load') \in Nat
    BY DEF Inductive, Shape
  <2>2. 1..Len(load') \subseteq 1..Len(load) \cup (Len(load) + 1)..Len(load')
    BY <2>1
  <2> QED
    BY <1>2, <2>2
<1> QED
  BY <1>1, <1>3 DEF Inductive, Loads, Entries, Calls

\* Loads that are left alone.
LEMMA LoadsKept ==
  ASSUME Inductive, Continued, load' = load, Shape'
  PROVE  /\ \A i \in 1..Len(load) : /\ load'[i].value <= source'[load[i].kind]
                                    /\ load'[i].state \in Doomed => Spread({i})'
         /\ \A i \in (Len(load) + 1)..Len(load') : LoadFits(i)'
<1>1. Shape /\ Len(load) \in Nat
  BY DEF Inductive, Shape
<1>2. ASSUME NEW i \in 1..Len(load)
      PROVE  load[i].value <= source'[load[i].kind]
  <2> DEFINE k == load[i].kind
  <2>1. /\ load[i].value \in Nat /\ k \in Kinds /\ source[k] \in Nat
        /\ load[i].value <= source[k]
    BY <1>1, Records DEF Inductive, Loads, LoadFits
  <2>2. source'[k] \in Nat /\ source[k] <= source'[k]
    BY <2>1 DEF Shape, Continued
  <2> QED
    BY <2>1, <2>2
<1>3. ASSUME NEW i \in 1..Len(load), load[i].state \in Doomed
      PROVE  Spread({i})'
  <2>1. Spread({i})
    BY <1>3 DEF Inductive, Loads, LoadFits
  <2> QED
    BY <2>1 DEF Spread, Continued
<1> QED
  BY <1>1, <1>2, <1>3

-----------------------------------------------------------------------------
(* One lemma per kind of step *)

\* Nothing is cached and nobody is calling.
LEMMA InitInductive == Init => Inductive
<1> SUFFICES ASSUME Init PROVE Inductive
  OBVIOUS
<1>1. Shape
  <2>1. /\ now \in 0..MaxTime /\ source \in [Kinds -> Nat] /\ cleared \in [Kinds -> Nat]
        /\ past \in [Kinds -> [0..MaxTime -> Nat]] /\ load \in Seq(LoadRecords)
        /\ entry \in [Kinds -> 0..Len(load)]
    BY Constants DEF Init
  <2>2. NoCall \in CallerRecords
    BY DEF NoCall, CallerRecords
  <2>3. caller \in [Callers -> CallerRecords] /\ writer \in [Writers -> WriterRecords]
    BY <2>2 DEF Init, WriterRecords
  <2> QED
    BY <2>1, <2>3 DEF Shape
<1>2. Growing
  BY Constants DEF Init, Growing
<1>3. Loads /\ Entries
  BY DEF Init, Loads, Entries, EntryFits
<1>4. Calls
  BY DEF Init, Calls, CallerFits, NoCall, Answered
<1> QED
  BY <1>1, <1>2, <1>3, <1>4 DEF Inductive

\* Time passes, or Pumble changes, or a status write gets on without clearing.
LEMMA QuietKeeps ==
  ASSUME Inductive, Continued, Shape', Growing', UNCHANGED <<load, entry, caller, cleared>>,
         \A w \in Writers : writer'[w].pc = "verified" => writer'[w] = writer[w]
  PROVE  Inductive'
<1>1. ASSUME NEW k \in Kinds
      PROVE  EntryFits(k)'
  <2>1. entry[k] # 0 => load[entry[k]].state # "failed"
    BY DEF Inductive, Entries, EntryFits
  <2> QED
    BY <2>1, EntryStays
<1> QED
  BY <1>1, LoadsKept, Assembled

\* Time passes, and remembers what Pumble had.
LEMMA TickKeeps ==
  ASSUME Inductive, Tick
  PROVE  Inductive'
<1>1. /\ Shape /\ Growing /\ now \in Nat /\ now' = now + 1 /\ now' \in 0..MaxTime
      /\ past' = [k \in Kinds |-> [past[k] EXCEPT ![now + 1] = source[k]]]
      /\ UNCHANGED <<source, load, entry, caller, writer, cleared>>
  BY Records, Constants DEF Tick, Inductive
<1>2. \A k \in Kinds : /\ past'[k] \in [0..MaxTime -> Nat] /\ past'[k][now'] = source[k]
                       /\ \A t \in 0..now : past'[k][t] = past[k][t]
  <2> TAKE k \in Kinds
  <2>1. past[k] \in [0..MaxTime -> Nat] /\ source[k] \in Nat
    BY <1>1 DEF Shape
  <2>2. past'[k] = [past[k] EXCEPT ![now + 1] = source[k]]
    BY <1>1
  <2>3. \A t \in 0..now : t \in 0..MaxTime /\ t # now + 1
    BY <1>1, Constants
  <2> QED
    BY <1>1, <2>1, <2>2, <2>3
<1>3. Shape'
  <2>1. past' \in [Kinds -> [0..MaxTime -> Nat]]
    BY <1>1, <1>2
  <2> QED
    BY <1>1, <2>1 DEF Shape
<1>4. Continued
  BY <1>1, <1>2 DEF Continued, Shape
<1>5. Growing'
  <2>1. ASSUME NEW k \in Kinds, NEW t \in 0..now'
        PROVE  past'[k][t] <= source[k] /\ \A s \in 0..t : past'[k][s] <= past'[k][t]
    <3>1. source[k] \in Nat
      BY <1>1 DEF Shape
    <3>2. CASE t \in 0..now
      <4>1. \A s \in 0..t : s \in 0..now
        BY <1>1, <3>2
      <4> QED
        BY <1>1, <1>2, <3>2, <4>1 DEF Growing
    <3>3. CASE t = now'
      <4>1. \A s \in 0..t : s \in 0..now \/ s = now'
        BY <1>1, <3>3
      <4> QED
        BY <1>1, <1>2, <3>1, <3>3, <4>1 DEF Growing
    <3> QED
      BY <1>1, <3>2, <3>3
  <2> QED
    BY <1>1, <2>1 DEF Growing
<1> QED
  BY <1>1, <1>3, <1>4, <1>5, QuietKeeps

\* A listing grows by one.
LEMMA GrownKeeps ==
  ASSUME Inductive, NEW k \in Kinds, source[k] < MaxVersion[k],
         source' = [source EXCEPT ![k] = @ + 1], writer' \in [Writers -> WriterRecords],
         \A w \in Writers : \/ writer'[w] = writer[w]
                            \/ /\ writer'[w].pc # "verified" /\ k = "users"
                               /\ writer'[w].version = source[k] + 1,
         UNCHANGED <<now, past, load, entry, caller, cleared>>
  PROVE  Inductive'
<1>1. Shape /\ Growing /\ source[k] \in Nat /\ MaxVersion[k] \in Nat
  BY Constants DEF Inductive, Shape
<1>2. \A l \in Kinds : /\ source'[l] \in Nat /\ source[l] \in Nat /\ source[l] <= source'[l]
                       /\ source'[l] <= MaxVersion[l] /\ MaxVersion[l] \in Nat
  <2> TAKE l \in Kinds
  <2>1. source[l] \in Nat /\ MaxVersion[l] \in Nat /\ source[l] <= MaxVersion[l]
    BY <1>1, Constants DEF Shape, Growing
  <2>2. source'[l] = IF l = k THEN source[k] + 1 ELSE source[l]
    BY <1>1 DEF Shape
  <2> QED
    BY <1>1, <2>1, <2>2
<1>3. Shape'
  BY <1>1 DEF Shape
<1>4. Continued
  BY <1>1, <1>2 DEF Continued, Shape
<1>5. Growing'
  <2>1. \A l \in Kinds : cleared[l] <= source'[l]
    BY <1>1, <1>2 DEF Growing, Shape
  <2>2. ASSUME NEW w \in Writers
        PROVE  writer'[w].version <= source'["users"]
    <3>1. CASE writer'[w] = writer[w]
      <4>1. writer[w].version \in Nat /\ writer[w].version <= source["users"]
        BY <1>1 DEF Shape, WriterRecords, Growing
      <4> QED
        BY <1>2, <3>1, <4>1, Constants
    <3>2. CASE k = "users" /\ writer'[w].version = source[k] + 1
      BY <1>1, <3>2 DEF Shape
    <3> QED
      BY <3>1, <3>2
  <2>3. ASSUME NEW l \in Kinds, NEW t \in 0..now
        PROVE  past[l][t] <= source'[l]
    <3>1. t \in 0..MaxTime
      BY <1>1, Records, Constants
    <3>2. past[l][t] \in Nat /\ past[l][t] <= source[l]
      BY <1>1, <3>1 DEF Shape, Growing
    <3> QED
      BY <1>2, <3>2
  <2> QED
    BY <1>1, <1>2, <2>1, <2>2, <2>3 DEF Growing
<1>6. \A w \in Writers : writer'[w].pc = "verified" => writer'[w] = writer[w]
  OBVIOUS
<1> QED
  BY <1>3, <1>4, <1>5, <1>6, QuietKeeps

\* What is cleared is no longer cached; a status is verified with the clear of its kind.
LEMMA ClearKeeps ==
  ASSUME Inductive, NEW ks \in SUBSET Kinds, Clear(ks), writer' \in [Writers -> WriterRecords],
         \A w \in Writers : /\ writer'[w].version = writer[w].version
                            /\ "users" \in ks \/ writer'[w] = writer[w],
         UNCHANGED <<now, source, past, load, caller>>
  PROVE  Inductive'
<1>1. /\ Shape /\ Growing /\ entry' = [k \in Kinds |-> IF k \in ks THEN 0 ELSE entry[k]]
      /\ cleared' = [k \in Kinds |-> IF k \in ks THEN source[k] ELSE cleared[k]]
  BY DEF Clear, Inductive
<1>2. Shape'
  <2>1. entry' \in [Kinds -> 0..Len(load)] /\ cleared' \in [Kinds -> Nat]
    BY <1>1 DEF Shape
  <2> QED
    BY <1>1, <2>1 DEF Shape
<1>3. Continued
  BY <1>1 DEF Continued, Shape
<1>4. Growing'
  BY <1>1 DEF Growing, Shape
<1>5. ASSUME NEW k \in Kinds
      PROVE  EntryFits(k)'
  <2>1. CASE k \in ks
    BY <1>1, <2>1 DEF EntryFits
  <2>2. CASE k \notin ks
    <3>1. entry'[k] = entry[k] /\ cleared'[k] = cleared[k]
      BY <1>1, <2>2
    <3>2. entry[k] # 0 => load[entry[k]].state # "failed"
      BY DEF Inductive, Entries, EntryFits
    <3> QED
      BY <1>3, <2>2, <3>1, <3>2, EntryStays
  <2> QED
    BY <2>1, <2>2
<1> QED
  BY <1>2, <1>3, <1>4, <1>5, LoadsKept, Assembled

\* A status write moves Pumble on, and clears the users once it is read back.
LEMMA WriterKeeps ==
  ASSUME Inductive, NEW w \in Writers, SetStatus(w) \/ Verify(w) \/ VerifyFails(w) \/ LoseStatus(w)
  PROVE  Inductive'
<1>1. Shape /\ Growing /\ writer \in [Writers -> WriterRecords] /\ writer[w] \in WriterRecords
  BY DEF Inductive, Shape
<1>2. CASE SetStatus(w)
  <2> DEFINE new == [pc |-> "verifying", version |-> source["users"] + 1]
  <2>1. writer' = [writer EXCEPT ![w] = new]
    BY <1>2 DEF SetStatus
  <2>2. new \in WriterRecords
    BY <1>1, Constants DEF Shape, WriterRecords
  <2>3. writer' \in [Writers -> WriterRecords]
    BY <1>1, <2>1, <2>2
  <2>4. \A x \in Writers : \/ writer'[x] = writer[x]
                           \/ /\ writer'[x].pc # "verified"
                              /\ writer'[x].version = source["users"] + 1
    BY <1>1, <2>1
  <2> QED
    BY <1>2, <2>3, <2>4, Constants, GrownKeeps DEF SetStatus
<1>3. ASSUME NEW pc \in {"verified", "unverified", "failed"}, writer' = [writer EXCEPT ![w].pc = pc]
      PROVE  /\ writer' \in [Writers -> WriterRecords] /\ writer'[w].pc = pc
             /\ \A x \in Writers : /\ writer'[x].version = writer[x].version
                                   /\ x # w => writer'[x] = writer[x]
  BY <1>1, <1>3 DEF WriterRecords
<1>4. CASE Verify(w)
  <2>1. /\ writer' = [writer EXCEPT ![w].pc = "verified"] /\ Clear({"users"})
        /\ UNCHANGED <<now, source, past, load, caller>>
    BY <1>4 DEF Verify
  <2> QED
    BY <1>3, <2>1, Constants, ClearKeeps
<1>5. CASE VerifyFails(w) \/ LoseStatus(w)
  <2>1. PICK pc \in {"unverified", "failed"} : writer' = [writer EXCEPT ![w].pc = pc]
    BY <1>5 DEF VerifyFails, LoseStatus
  <2>2. /\ UNCHANGED <<now, source, past, load, entry, caller, cleared>>
        /\ writer' \in [Writers -> WriterRecords] /\ writer'[w].pc = pc
        /\ \A x \in Writers : /\ writer'[x].version = writer[x].version
                              /\ x # w => writer'[x] = writer[x]
    BY <1>3, <1>5, <2>1 DEF VerifyFails, LoseStatus
  <2>3. Shape' /\ Continued /\ Growing'
    BY <1>1, <2>2 DEF Shape, Continued, Growing
  <2>4. \A x \in Writers : writer'[x].pc = "verified" => writer'[x] = writer[x]
    BY <2>1, <2>2
  <2> QED
    BY <2>2, <2>3, <2>4, QuietKeeps
<1> QED
  BY <1>2, <1>4, <1>5

\* Only a caller moves.
LEMMA CallerKeeps ==
  ASSUME Inductive, NEW c \in Callers, NEW new \in CallerRecords, ~caller[c].self,
         caller' = [caller EXCEPT ![c] = new], CallerFits(c)',
         UNCHANGED <<now, source, past, load, entry, writer, cleared>>
  PROVE  Inductive'
<1>1. Shape /\ Growing
  BY DEF Inductive
<1>2. Shape'
  <2>1. caller' \in [Callers -> CallerRecords]
    BY <1>1 DEF Shape
  <2> QED
    BY <1>1, <2>1 DEF Shape
<1>3. \A d \in Callers : d # c => caller'[d] = caller[d]
  BY <1>1 DEF Shape
<1>4. Continued
  BY <1>1, <1>3 DEF Continued, Shape
<1>5. Growing'
  BY <1>1 DEF Growing
<1>6. ASSUME NEW k \in Kinds
      PROVE  EntryFits(k)'
  BY DEF Inductive, Entries, EntryFits
<1> QED
  BY <1>2, <1>3, <1>4, <1>5, <1>6, LoadsKept, Assembled

\* A lookup that hits joins a load young enough for it.
LEMMA HitKeeps ==
  ASSUME Inductive, NEW c \in Callers, NEW k \in Kinds, LookupHit(c, k)
  PROVE  Inductive'
<1> DEFINE i == entry[k]
           new == Waiting(k, i)
<1>1. /\ Shape /\ Growing /\ EntryFits(k) /\ caller[c].pc = "idle" /\ Hit(k)
      /\ caller' = [caller EXCEPT ![c] = new]
      /\ UNCHANGED <<now, source, past, load, entry, writer, cleared>>
  BY DEF LookupHit, Inductive, Entries
<1>2. /\ i \in 1..Len(load) /\ load[i].kind = k /\ load[i].value \in Nat /\ now \in Nat
      /\ i \in Nat
  BY <1>1, Records DEF EntryFits, Hit
<1>3. /\ Entitled(k) \in Nat /\ Entitled(k) <= source[k]
      /\ load[i].state \in Listed => Entitled(k) <= load[i].value
  <2>1. load[i].state \in Listed =>
          /\ cleared[k] <= load[i].value
          /\ k = "users" => \A w \in Writers :
               writer[w].pc = "verified" => writer[w].version <= load[i].value
    BY <1>1, <1>2 DEF EntryFits
  <2> HIDE DEF i
  <2> QED
    BY <1>1, <1>2, <2>1, EntitledFacts
<1>4. RefreshOnMiss => now - load[i].at <= Ttl
  BY <1>1 DEF Hit, Fresh
<1>5. /\ new \in CallerRecords /\ new.pc = "waiting" /\ new.kind = k /\ new.on = {i}
      /\ new.start = now /\ new.floor = Entitled(k) /\ new.self = FALSE
  BY <1>2, <1>3 DEF Waiting, NoCall, CallerRecords
<1> HIDE DEF new
<1>6. caller'[c] = new
  BY <1>1 DEF Shape
<1>7. Awaits(c, entry[k])'
  BY <1>1, <1>2, <1>3, <1>4, <1>5, <1>6 DEF Awaits
<1>8. CallerFits(c)'
  BY <1>1, <1>2, <1>5, <1>6, <1>7 DEF CallerFits, Answered
<1>9. ~caller[c].self
  BY <1>1 DEF Inductive, Calls, CallerFits
<1> QED
  BY <1>1, <1>5, <1>8, <1>9, CallerKeeps

\* A call that ended.
LEMMA FinishFacts ==
  ASSUME Shape, NEW c \in Callers, NEW result \in {Failed, Cancelled} \cup Nat,
         NEW self \in BOOLEAN, Finish(c, result, self)
  PROVE  \E new \in CallerRecords :
           /\ caller' = [caller EXCEPT ![c] = new] /\ caller'[c] = new
           /\ new.pc = "finished" /\ new.kind = caller[c].kind /\ new.result = result
           /\ new.self = self /\ new.on = IF result = Cancelled THEN caller[c].on ELSE {}
           /\ result \in Nat => new.start = caller[c].start /\ new.floor = caller[c].floor
<1> DEFINE new == [NoCall EXCEPT !.pc = "finished", !.kind = caller[c].kind, !.result = result,
                     !.self = self,
                     !.start = IF result \in Nat THEN caller[c].start ELSE 0,
                     !.floor = IF result \in Nat THEN caller[c].floor ELSE 0,
                     !.on = IF result = Cancelled THEN caller[c].on ELSE {}]
<1>1. caller[c] \in CallerRecords /\ caller \in [Callers -> CallerRecords]
  BY DEF Shape
<1>2. new \in CallerRecords
  <2>1. /\ caller[c].kind \in Kinds \cup {"none"} /\ caller[c].on \in SUBSET Nat
        /\ caller[c].start \in Nat /\ caller[c].floor \in Nat
    BY <1>1 DEF CallerRecords
  <2>2. /\ (IF result = Cancelled THEN caller[c].on ELSE {}) \in SUBSET Nat
        /\ (IF result \in Nat THEN caller[c].start ELSE 0) \in Nat
        /\ (IF result \in Nat THEN caller[c].floor ELSE 0) \in Nat
    BY <2>1
  <2>3. ASSUME NEW start \in Nat, NEW floor \in Nat, NEW on \in SUBSET Nat,
               NEW kind \in Kinds \cup {"none"}
        PROVE  [NoCall EXCEPT !.pc = "finished", !.kind = kind, !.result = result,
                  !.self = self, !.start = start, !.floor = floor, !.on = on] \in CallerRecords
    BY DEF NoCall, CallerRecords
  <2> QED
    BY <2>1, <2>2, <2>3
<1>3. caller' = [caller EXCEPT ![c] = new]
  BY DEF Finish
<1>4. caller'[c] = new
  BY <1>1, <1>3
<1>5. /\ new.pc = "finished" /\ new.kind = caller[c].kind /\ new.result = result
      /\ new.self = self /\ new.on = IF result = Cancelled THEN caller[c].on ELSE {}
      /\ result \in Nat => new.start = caller[c].start /\ new.floor = caller[c].floor
  BY DEF NoCall
<1> HIDE DEF new
<1> QED
  BY <1>2, <1>3, <1>4, <1>5

\* A lookup that resumes gets the listing it waited for, or the fate of its load.
LEMMA WakeKeeps ==
  ASSUME Inductive, NEW c \in Callers, Wake(c)
  PROVE  Inductive'
<1>1. /\ Shape /\ Growing /\ caller[c].pc = "waiting" /\ CallerFits(c)
      /\ UNCHANGED <<now, source, past, load, entry, writer, cleared>>
  BY DEF Wake, Inductive, Calls
<1>2. PICK i \in 1..Len(load) : Awaits(c, i)
  BY <1>1 DEF CallerFits
<1>3. /\ caller[c].on = {i} /\ caller[c].kind \in Kinds /\ load[i].kind = caller[c].kind
      /\ caller[c].start \in Nat /\ caller[c].floor \in Nat /\ caller[c].start <= now
      /\ load[i].value \in Nat /\ load[i].at \in Nat /\ load[i].at <= now /\ now \in Nat
      /\ LoadFits(i)
  BY <1>1, <1>2, Records DEF CallerFits, Awaits, Inductive, Loads, LoadFits
<1>4. PICK result \in {Failed, Cancelled} \cup Nat, self \in BOOLEAN :
        /\ Finish(c, result, self) /\ ~self
        /\ result \in Nat => load[i].state = "done" /\ result = load[i].value
        /\ result = Cancelled => load[i].state \in Withdrawn
  <2>1. \/ load[i].state = "done" /\ Finish(c, load[i].value, FALSE)
        \/ load[i].state = "failed" /\ Finish(c, Failed, FALSE)
        \/ load[i].state \in Withdrawn /\ Finish(c, Cancelled, FALSE)
    BY <1>3 DEF Wake
  <2>2. Failed \notin Nat /\ Cancelled \notin Nat /\ Failed # Cancelled
    BY DEF Failed, Cancelled
  <2>3. FALSE \in BOOLEAN /\ load[i].value \in Nat
    BY <1>3
  <2> SUFFICES \E result \in {Failed, Cancelled} \cup Nat :
                 /\ Finish(c, result, FALSE)
                 /\ result \in Nat => load[i].state = "done" /\ result = load[i].value
                 /\ result = Cancelled => load[i].state \in Withdrawn
    BY <2>3, Zenon
  <2>4. CASE load[i].state = "done" /\ Finish(c, load[i].value, FALSE)
    <3>1. load[i].value # Cancelled /\ load[i].value \in {Failed, Cancelled} \cup Nat
      BY <2>2, <2>3
    <3> QED
      BY <2>4, <3>1, Zenon
  <2>5. CASE load[i].state = "failed" /\ Finish(c, Failed, FALSE)
    BY <2>2, <2>5
  <2>6. CASE load[i].state \in Withdrawn /\ Finish(c, Cancelled, FALSE)
    BY <2>2, <2>6
  <2> QED
    BY <2>1, <2>4, <2>5, <2>6
<1>5. PICK new \in CallerRecords :
        /\ caller' = [caller EXCEPT ![c] = new] /\ caller'[c] = new
        /\ new.pc = "finished" /\ new.kind = caller[c].kind /\ new.result = result
        /\ new.self = self /\ new.on = IF result = Cancelled THEN caller[c].on ELSE {}
        /\ result \in Nat => new.start = caller[c].start /\ new.floor = caller[c].floor
  BY <1>1, <1>4, FinishFacts
<1>6. result \in Nat =>
        /\ caller[c].floor <= result
        /\ RefreshOnMiss /\ caller[c].start >= Ttl =>
             past[caller[c].kind][caller[c].start - Ttl] <= result
  <2> SUFFICES ASSUME result \in Nat
               PROVE  /\ caller[c].floor <= result
                      /\ RefreshOnMiss /\ caller[c].start >= Ttl =>
                           past[caller[c].kind][caller[c].start - Ttl] <= result
    OBVIOUS
  <2>1. load[i].state \in Listed /\ result = load[i].value
    BY <1>4 DEF Listed
  <2>2. caller[c].floor <= result
    BY <1>2, <2>1 DEF Awaits
  <2>3. past[caller[c].kind][load[i].at] <= result
    BY <1>3, <2>1 DEF LoadFits
  <2>4. ASSUME RefreshOnMiss, caller[c].start >= Ttl
        PROVE  past[caller[c].kind][caller[c].start - Ttl] <= result
    <3>1. caller[c].start - Ttl \in 0..load[i].at /\ load[i].at \in 0..now
      <4>1. caller[c].start - load[i].at <= Ttl /\ Ttl \in Nat
        BY <1>2, <2>4, Constants DEF Awaits
      <4>2. /\ caller[c].start \in Nat /\ load[i].at \in Nat /\ load[i].at <= now /\ now \in Nat
            /\ caller[c].start >= Ttl
        BY <1>3, <2>4
      <4> QED
        BY <4>1, <4>2
    <3>2. past[caller[c].kind][caller[c].start - Ttl] <= past[caller[c].kind][load[i].at]
      BY <1>1, <1>3, <3>1 DEF Growing
    <3>3. caller[c].start - Ttl \in 0..MaxTime /\ load[i].at \in 0..MaxTime
      <4>1. now \in Nat /\ MaxTime \in Nat /\ now <= MaxTime
        BY <1>1, Records, Constants
      <4>2. load[i].at \in Nat /\ load[i].at <= MaxTime
        BY <3>1, <4>1
      <4> QED
        BY <3>1, <4>1, <4>2
    <3>4. /\ past[caller[c].kind][caller[c].start - Ttl] \in Nat
          /\ past[caller[c].kind][load[i].at] \in Nat
      BY <1>1, <1>3, <3>3 DEF Shape
    <3> QED
      BY <2>3, <3>2, <3>4
  <2> QED
    BY <2>2, <2>4
<1>7. result = Cancelled => Spread({i})'
  <2>1. \A d \in Callers : caller[d].self => caller'[d] = caller[d]
    <3>1. ~caller[c].self
      BY <1>1 DEF CallerFits
    <3> QED
      BY <1>1, <1>5, <3>1 DEF Shape
  <2>2. result = Cancelled => Spread({i})
    BY <1>3, <1>4 DEF LoadFits, Doomed, Withdrawn
  <2> QED
    BY <2>1, <2>2 DEF Spread
<1>8. CallerFits(c)'
  <2>1. Answered(c)' => result \in Nat
    BY <1>5 DEF Answered
  <2>2. new.on \subseteq 1..Len(load)
    BY <1>3, <1>5
  <2>3. Answered(c)' =>
          /\ new.floor <= new.result /\ new.start <= now
          /\ RefreshOnMiss /\ new.start >= Ttl => past[new.kind][new.start - Ttl] <= new.result
    BY <1>3, <1>5, <1>6, <2>1
  <2>4. new.result = Cancelled => Spread(new.on)'
    <3>1. new.result = Cancelled => new.on = {i}
      BY <1>3, <1>5
    <3> QED
      BY <1>5, <1>7, <3>1
  <2> QED
    BY <1>1, <1>4, <1>5, <2>2, <2>3, <2>4 DEF CallerFits
<1>9. ~caller[c].self
  BY <1>1 DEF CallerFits
<1> QED
  BY <1>1, <1>5, <1>8, <1>9, CallerKeeps

\* A refresh returns no listing, and who is cancelled knows it.
LEMMA EndKeeps ==
  ASSUME Inductive, NEW c \in Callers, WakeRefresh(c) \/ CancelAlone(c)
  PROVE  Inductive'
<1>1. /\ Shape /\ Growing /\ caller[c].pc \in {"waiting", "refreshing"} /\ CallerFits(c)
      /\ UNCHANGED <<now, source, past, load, entry, writer, cleared>>
  BY DEF WakeRefresh, CancelAlone, Inductive, Calls
<1>2. PICK result \in {Failed, Cancelled} \cup Nat, self \in BOOLEAN :
        /\ Finish(c, result, self)
        /\ caller[c].kind = "none" \/ (self /\ result = Cancelled)
  BY <1>1 DEF WakeRefresh, CancelAlone, CallerFits
<1>3. PICK new \in CallerRecords :
        /\ caller' = [caller EXCEPT ![c] = new] /\ caller'[c] = new
        /\ new.pc = "finished" /\ new.kind = caller[c].kind /\ new.result = result
        /\ new.self = self /\ new.on = IF result = Cancelled THEN caller[c].on ELSE {}
  BY <1>1, <1>2, FinishFacts
<1>4. new.kind = "none" \/ (new.self /\ new.result \notin Nat)
  BY <1>2, <1>3 DEF Cancelled
<1>5. CallerFits(c)'
  <2>1. ~Answered(c)'
    BY <1>3, <1>4, Constants DEF Answered
  <2>2. new.on \subseteq 1..Len(load)
    BY <1>1, <1>3 DEF CallerFits
  <2>3. new.kind \notin Kinds \/ new.self
    BY <1>4, Constants
  <2> QED
    BY <1>1, <1>3, <2>1, <2>2, <2>3 DEF CallerFits
<1>6. ~caller[c].self
  BY <1>1 DEF CallerFits
<1> QED
  BY <1>1, <1>3, <1>5, <1>6, CallerKeeps

\* New loads are cached before they have asked for anything.
LEMMA NewLoadsKeep ==
  ASSUME Inductive, NEW c \in Callers, NEW new \in CallerRecords, ~caller[c].self,
         caller' = [caller EXCEPT ![c] = new], CallerFits(c)',
         load' \in Seq(LoadRecords), Len(load) <= Len(load'),
         \A i \in 1..Len(load) : load'[i] = load[i],
         \A i \in (Len(load) + 1)..Len(load') : \E k \in Kinds : load'[i] = NewLoad(k),
         \A k \in Kinds : \/ entry'[k] = entry[k]
                          \/ /\ entry'[k] \in (Len(load) + 1)..Len(load')
                             /\ load'[entry'[k]] = NewLoad(k),
         entry' \in [Kinds -> Nat],
         UNCHANGED <<now, source, past, writer, cleared>>
  PROVE  Inductive'
<1>1. Shape /\ Growing /\ Len(load) \in Nat /\ Len(load') \in Nat
  BY DEF Inductive, Shape
<1>2. Shape'
  <2>1. caller' \in [Callers -> CallerRecords]
    BY <1>1 DEF Shape
  <2>2. \A k \in Kinds : entry'[k] \in 0..Len(load')
    <3>1. \A k \in Kinds : entry[k] \in 0..Len(load)
      BY <1>1, Records
    <3>2. /\ 0..Len(load) \subseteq 0..Len(load')
          /\ (Len(load) + 1)..Len(load') \subseteq 0..Len(load')
      BY <1>1
    <3> QED
      BY <3>1, <3>2
  <2>3. entry' \in [Kinds -> 0..Len(load')]
    BY <2>2
  <2> QED
    BY <1>1, <2>1, <2>3 DEF Shape
<1>3. \A d \in Callers : d # c => caller'[d] = caller[d]
  BY <1>1 DEF Shape
<1>4. Continued
  BY <1>1, <1>3 DEF Continued, Shape
<1>5. Growing'
  BY <1>1 DEF Growing
<1>6. ASSUME NEW i \in 1..Len(load)
      PROVE  /\ load'[i].value <= source'[load[i].kind]
             /\ load'[i].state \in Doomed => Spread({i})'
  <2>1. LoadFits(i)
    BY DEF Inductive, Loads
  <2>2. load[i].state \in Doomed => Spread({i})'
    BY <1>4, <2>1 DEF LoadFits, Spread, Continued
  <2> QED
    BY <2>1, <2>2 DEF LoadFits
<1>7. ASSUME NEW i \in (Len(load) + 1)..Len(load')
      PROVE  LoadFits(i)'
  <2>1. PICK k \in Kinds : load'[i] = NewLoad(k)
    OBVIOUS
  <2>2. load'[i].kind = k /\ load'[i].at = now /\ load'[i].value = 0 /\ load'[i].state = "new"
    BY <2>1 DEF NewLoad
  <2>3. source[k] \in Nat /\ now \in Nat
    BY <1>1, Records
  <2> QED
    BY <2>2, <2>3 DEF LoadFits, Listed, Doomed
<1>8. ASSUME NEW k \in Kinds
      PROVE  EntryFits(k)'
  <2>1. CASE entry'[k] = entry[k]
    <3>1. entry[k] # 0 => load'[entry[k]].state # "failed"
      <4> SUFFICES ASSUME entry[k] # 0 PROVE load'[entry[k]].state # "failed"
        OBVIOUS
      <4>1. entry[k] \in 1..Len(load)
        BY <1>1, Records
      <4>2. EntryFits(k)
        BY DEF Inductive, Entries
      <4> QED
        BY <4>1, <4>2 DEF EntryFits
    <3> QED
      BY <1>4, <2>1, <3>1, EntryStays
  <2>2. CASE load'[entry'[k]] = NewLoad(k)
    BY <2>2 DEF EntryFits, NewLoad, Listed
  <2> QED
    BY <2>1, <2>2
<1> QED
  BY <1>2, <1>3, <1>4, <1>5, <1>6, <1>7, <1>8, Assembled

\* A new load begins now.
LEMMA NewLoadType ==
  ASSUME Shape, NEW k \in Kinds
  PROVE  /\ NewLoad(k) \in LoadRecords /\ NewLoad(k).kind = k /\ NewLoad(k).at = now
         /\ NewLoad(k).state = "new"
  BY DEF NewLoad, LoadRecords, Shape

\* A lookup that misses begins a load and caches it.
LEMMA MissKeeps ==
  ASSUME Inductive, NEW c \in Callers, NEW k \in Kinds, LookupMiss(c, k)
  PROVE  Inductive'
<1>0. PICK i : i = Len(load) + 1
  OBVIOUS
<1> DEFINE new == Waiting(k, i)
<1>1. /\ Shape /\ Growing /\ CallerFits(c) /\ caller[c].pc = "idle"
      /\ Len(load) \in Nat /\ i \in Nat
      /\ load' = Append(load, NewLoad(k)) /\ entry' = [entry EXCEPT ![k] = i]
      /\ caller' = [caller EXCEPT ![c] = new] /\ now \in Nat
      /\ UNCHANGED <<now, source, past, writer, cleared>>
  BY <1>0, Records DEF LookupMiss, Inductive, Calls
<1>2. NewLoad(k) \in LoadRecords /\ NewLoad(k).kind = k /\ NewLoad(k).at = now
      /\ NewLoad(k).state = "new"
  BY <1>1, NewLoadType
<1>3. /\ load' \in Seq(LoadRecords) /\ Len(load') = i /\ load'[i] = NewLoad(k)
      /\ \A j \in 1..Len(load) : load'[j] = load[j]
  BY <1>0, <1>1, <1>2 DEF Shape
<1>4. /\ entry' \in [Kinds -> Nat] /\ entry'[k] = i
      /\ \A l \in Kinds : l # k => entry'[l] = entry[l]
  BY <1>1 DEF Shape
<1>5. Entitled(k) \in Nat /\ Entitled(k) <= source[k]
  BY <1>1, EntitledFacts
<1>6. /\ new \in CallerRecords /\ new.pc = "waiting" /\ new.kind = k /\ new.on = {i}
      /\ new.start = now /\ new.floor = Entitled(k) /\ new.self = FALSE
  BY <1>1, <1>5 DEF Waiting, NoCall, CallerRecords
<1>7. (Len(load) + 1)..Len(load') = {i} /\ i \in 1..Len(load') /\ Len(load) <= Len(load')
  BY <1>0, <1>1, <1>3
<1> HIDE DEF new
<1>8. caller'[c] = new
  BY <1>1 DEF Shape
<1>9. Awaits(c, i)'
  BY <1>1, <1>2, <1>3, <1>5, <1>6, <1>8, Constants DEF Awaits, Listed
<1>10. CallerFits(c)'
  BY <1>1, <1>6, <1>7, <1>8, <1>9 DEF CallerFits, Answered
<1>11. ~caller[c].self
  BY <1>1 DEF CallerFits
<1>12. \A l \in Kinds : \/ entry'[l] = entry[l]
                        \/ entry'[l] \in (Len(load) + 1)..Len(load') /\ load'[entry'[l]] = NewLoad(l)
  BY <1>3, <1>4, <1>7
<1>13. \A j \in (Len(load) + 1)..Len(load') : \E l \in Kinds : load'[j] = NewLoad(l)
  BY <1>3, <1>7
<1> QED
  BY <1>1, <1>3, <1>4, <1>6, <1>7, <1>10, <1>11, <1>12, <1>13, NewLoadsKeep

\* refresh() replaces every entry by a load that begins now.
LEMMA RefreshKeeps ==
  ASSUME Inductive, NEW c \in Callers, Refresh(c)
  PROVE  Inductive'
<1> DEFINE m == Len(KindOrder)
           fresh == [n \in 1..m |-> NewLoad(KindOrder[n])]
           on == (Len(load) + 1)..(Len(load) + m)
           place(k) == CHOOSE n \in 1..m : KindOrder[n] = k
           new == [NoCall EXCEPT !.pc = "refreshing", !.start = now, !.on = on]
<1>1. /\ Shape /\ Growing /\ CallerFits(c) /\ caller[c].pc = "idle" /\ Len(load) \in Nat
      /\ load' = load \o fresh /\ entry' = [k \in Kinds |-> Len(load) + place(k)]
      /\ caller' = [caller EXCEPT ![c] = new] /\ now \in Nat
      /\ UNCHANGED <<now, source, past, writer, cleared>>
  BY Records DEF Refresh, Inductive, Calls
<1>2. m \in Nat /\ \A n \in 1..m : KindOrder[n] \in Kinds
  BY Constants
<1>3. fresh \in Seq(LoadRecords) /\ Len(fresh) = m
  <2>1. \A n \in 1..m : NewLoad(KindOrder[n]) \in LoadRecords
    BY <1>1, <1>2, NewLoadType
  <2> QED
    BY <1>2, <2>1
<1>4. /\ load' \in Seq(LoadRecords) /\ Len(load') = Len(load) + m
      /\ \A j \in 1..Len(load) : load'[j] = load[j]
      /\ \A n \in 1..m : load'[Len(load) + n] = NewLoad(KindOrder[n])
  <2>1. load \in Seq(LoadRecords)
    BY <1>1 DEF Shape
  <2>2. \A n \in 1..m : fresh[n] = NewLoad(KindOrder[n])
    OBVIOUS
  <2> HIDE DEF fresh
  <2>3. load' \in Seq(LoadRecords) /\ Len(load') = Len(load) + m
    <3>1. load \o fresh \in Seq(LoadRecords)
      BY <1>3, <2>1
    <3>2. Len(load \o fresh) = Len(load) + Len(fresh)
      BY <1>3, <2>1
    <3> QED
      BY <1>1, <1>3, <3>1, <3>2
  <2>4. \A j \in 1..Len(load) : load'[j] = load[j]
    BY <1>1, <1>2, <1>3, <2>1
  <2>5. ASSUME NEW n \in 1..m
        PROVE  load'[Len(load) + n] = fresh[n]
    BY <1>1, <1>2, <1>3, <2>1
  <2> QED
    BY <2>2, <2>3, <2>4, <2>5
<1> HIDE DEF fresh
<1>5. \A k \in Kinds : place(k) \in 1..m /\ KindOrder[place(k)] = k
  BY DEF Kinds
<1> HIDE DEF place
<1>6. ASSUME NEW k \in Kinds
      PROVE  /\ entry'[k] = Len(load) + place(k) /\ entry'[k] \in (Len(load) + 1)..Len(load')
             /\ load'[entry'[k]] = NewLoad(k)
  BY <1>1, <1>2, <1>4, <1>5
<1>7. ASSUME NEW j \in (Len(load) + 1)..Len(load')
      PROVE  \E k \in Kinds : load'[j] = NewLoad(k)
  <2>1. j - Len(load) \in 1..m /\ j = Len(load) + (j - Len(load))
    BY <1>1, <1>2, <1>4
  <2> QED
    BY <1>2, <1>4, <2>1
<1>8. entry' \in [Kinds -> Nat]
  <2>1. \A k \in Kinds : Len(load) + place(k) \in Nat
    BY <1>1, <1>2, <1>5
  <2> QED
    BY <1>1, <2>1
<1>9. on \subseteq Nat /\ on \subseteq 1..Len(load')
  BY <1>1, <1>2, <1>4
<1> HIDE DEF on
<1>10. /\ new \in CallerRecords /\ new.pc = "refreshing" /\ new.kind = "none" /\ new.on = on
       /\ new.self = FALSE
  BY <1>1, <1>9 DEF NoCall, CallerRecords
<1> HIDE DEF new
<1>11. caller'[c] = new
  BY <1>1 DEF Shape
<1>12. CallerFits(c)'
  BY <1>9, <1>10, <1>11 DEF CallerFits, Answered
<1>13. ~caller[c].self
  BY <1>1 DEF CallerFits
<1>14. Len(load) <= Len(load')
  BY <1>1, <1>2, <1>4
<1> QED
  BY <1>1, <1>4, <1>6, <1>7, <1>8, <1>10, <1>12, <1>13, <1>14, NewLoadsKeep

\* Loads get on, and entries go.
LEMMA MovedKeeps ==
  ASSUME Inductive, load' \in Seq(LoadRecords), Len(load') = Len(load),
         \A i \in 1..Len(load) :
           /\ load'[i].kind = load[i].kind /\ load'[i].at = load[i].at
           /\ load'[i].value <= source[load[i].kind]
           /\ load'[i].state \in Listed =>
                load'[i].value = IF load[i].state \in Listed THEN load[i].value
                                 ELSE source[load[i].kind]
           /\ load'[i].state \in Doomed => Spread({i})',
         entry' \in [Kinds -> 0..Len(load)],
         \A k \in Kinds : entry'[k] # 0 => entry'[k] = entry[k] /\ load'[entry[k]].state # "failed",
         caller' \in [Callers -> CallerRecords],
         \A d \in Callers : caller[d].self => caller'[d] = caller[d],
         \A c \in Callers : caller'[c] # caller[c] => CallerFits(c)',
         UNCHANGED <<now, source, past, writer, cleared>>
  PROVE  Inductive'
<1>1. Shape /\ Growing /\ Len(load) \in Nat
  BY DEF Inductive, Shape
<1>2. Shape'
  BY <1>1 DEF Shape
<1>3. Continued
  <2>1. now <= now /\ Len(load) <= Len(load') /\ \A k \in Kinds : source[k] <= source[k]
    BY <1>1, Records
  <2> QED
    BY <2>1 DEF Continued
<1>4. Growing'
  BY <1>1 DEF Growing
<1>5. ASSUME NEW k \in Kinds
      PROVE  EntryFits(k)'
  <2>1. CASE entry'[k] = 0
    BY <2>1 DEF EntryFits
  <2>2. CASE entry'[k] # 0
    BY <1>3, <2>2, EntryStays
  <2> QED
    BY <2>1, <2>2
<1>6. (Len(load) + 1)..Len(load') = {}
  BY <1>1
<1> QED
  BY <1>2, <1>3, <1>4, <1>5, <1>6, Assembled

\* The steps of a loader.
LEMMA LoadKeeps ==
  ASSUME Inductive, NEW i \in 1..Len(load), LoadStep(i)
  PROVE  Inductive'
<1> DEFINE k == load[i].kind
<1>1. /\ Shape /\ Growing /\ LoadFits(i) /\ load[i] \in LoadRecords /\ k \in Kinds
      /\ source[k] \in Nat /\ load[i].value \in Nat /\ load[i].value <= source[k]
      /\ Len(load) \in Nat
  BY Records DEF Inductive, Loads, LoadFits
<1>2. UNCHANGED <<now, source, past, caller, writer, cleared>>
  BY DEF LoadStep, Ask, Answer, Arrive, Fail, Die, DieUnborn
<1>3. PICK state \in {"asked", "answered", "done", "failed", "cancelled", "dropped"}, value \in Nat :
        /\ load' = [load EXCEPT ![i] = [@ EXCEPT !.state = state, !.value = value]]
        /\ value = load[i].value \/ value = source[k] \/ value = 0
        /\ state \in Listed => value = IF load[i].state \in Listed THEN load[i].value ELSE source[k]
        /\ state \in Doomed => load[i].state \in Doomed
        /\ state = "failed" => entry' = Evicted(i)
  <2>1. CASE Ask(i)
    <3>1. load' = [load EXCEPT ![i] = [@ EXCEPT !.state = "asked", !.value = load[i].value]]
      BY <1>1, <2>1 DEF Ask, LoadRecords
    <3> QED
      BY <1>1, <3>1 DEF Listed, Doomed
  <2>2. CASE Answer(i)
    <3>1. load' = [load EXCEPT ![i] = [@ EXCEPT !.state = "answered", !.value = source[k]]]
      BY <1>1, <2>2 DEF Answer, LoadRecords
    <3>2. load[i].state \notin Listed
      BY <2>2 DEF Answer, Listed
    <3> QED
      BY <1>1, <3>1, <3>2 DEF Listed, Doomed
  <2>3. CASE Arrive(i)
    <3>1. load' = [load EXCEPT ![i] = [@ EXCEPT !.state = "done", !.value = load[i].value]]
      BY <1>1, <2>3 DEF Arrive, LoadRecords
    <3>2. load[i].state \in Listed
      BY <2>3 DEF Arrive, Listed
    <3> QED
      BY <1>1, <3>1, <3>2 DEF Listed, Doomed
  <2>4. CASE Fail(i)
    <3>1. load' = [load EXCEPT ![i] = [@ EXCEPT !.state = "failed", !.value = 0]]
      BY <1>1, <2>4 DEF Fail, LoadRecords
    <3>2. entry' = Evicted(i)
      BY <2>4 DEF Fail
    <3> QED
      BY <1>1, <3>1, <3>2 DEF Listed, Doomed
  <2>5. CASE Die(i) \/ DieUnborn(i)
    <3>1. PICK state \in Withdrawn :
            load' = [load EXCEPT ![i] = [@ EXCEPT !.state = state, !.value = load[i].value]]
      BY <1>1, <2>5 DEF Die, DieUnborn, LoadRecords, Withdrawn
    <3>2. load[i].state \in Doomed
      BY <2>5 DEF Die, DieUnborn, Doomed
    <3> QED
      BY <1>1, <3>1, <3>2 DEF Listed, Doomed, Withdrawn
  <2> QED
    BY <2>1, <2>2, <2>3, <2>4, <2>5 DEF LoadStep
<1> DEFINE new == [load[i] EXCEPT !.state = state, !.value = value]
<1>4. /\ new \in LoadRecords /\ new.kind = k /\ new.at = load[i].at /\ new.value = value
      /\ new.state = state
  BY <1>1 DEF LoadRecords, Ended, Withdrawn
<1>5. load' = [load EXCEPT ![i] = new]
  BY <1>3
<1> HIDE DEF new
<1>6. /\ load' \in Seq(LoadRecords) /\ Len(load') = Len(load) /\ load'[i] = new
      /\ \A j \in 1..Len(load) : j # i => load'[j] = load[j]
  <2>1. load \in Seq(LoadRecords)
    BY <1>1 DEF Shape
  <2>2. load \in [1..Len(load) -> LoadRecords]
    BY <2>1
  <2>3. /\ load' \in [1..Len(load) -> LoadRecords] /\ load'[i] = new
        /\ \A j \in 1..Len(load) : j # i => load'[j] = load[j]
    BY <1>4, <1>5, <2>2
  <2>4. load' \in Seq(LoadRecords)
    BY <1>1, <2>3
  <2>5. Len(load') = Len(load)
    BY <1>1, <2>3, <2>4
  <2> QED
    BY <2>3, <2>4, <2>5
<1>7. entry' = entry \/ entry' = Evicted(i)
  BY DEF LoadStep, Ask, Answer, Arrive, Fail, Die, DieUnborn
<1>8. /\ entry' \in [Kinds -> 0..Len(load)]
      /\ \A l \in Kinds : entry'[l] = entry[l] \/ entry'[l] = 0
  <2>1. entry \in [Kinds -> 0..Len(load)] /\ 0 \in 0..Len(load)
    BY <1>1 DEF Shape
  <2>2. CASE entry' = entry
    BY <2>1, <2>2
  <2>3. CASE entry' = Evicted(i)
    <3>1. entry' = [entry EXCEPT ![k] = IF entry[k] = i THEN 0 ELSE entry[k]]
      BY <2>3 DEF Evicted
    <3> HIDE DEF k
    <3> QED
      BY <1>1, <2>1, <3>1
  <2> QED
    BY <1>7, <2>2, <2>3
<1>9. ASSUME NEW l \in Kinds, entry'[l] # 0
      PROVE  entry'[l] = entry[l] /\ load'[entry[l]].state # "failed"
  <2>1. entry'[l] = entry[l] /\ entry[l] \in 1..Len(load)
    BY <1>1, <1>8, <1>9, Records
  <2>2. load[entry[l]].kind = l /\ load[entry[l]].state # "failed"
    BY <1>9, <2>1 DEF Inductive, Entries, EntryFits
  <2>3. CASE entry[l] # i
    BY <1>6, <2>1, <2>2, <2>3
  <2>4. CASE entry[l] = i
    <3>1. entry' # Evicted(i)
      BY <1>1, <1>9, <2>2, <2>4 DEF Evicted, Shape
    <3> QED
      BY <1>3, <1>4, <1>6, <2>1, <2>4, <3>1
  <2> QED
    BY <2>1, <2>3, <2>4
<1>10. ASSUME NEW j \in 1..Len(load)
       PROVE  /\ load'[j].kind = load[j].kind /\ load'[j].at = load[j].at
              /\ load'[j].value <= source[load[j].kind]
              /\ load'[j].state \in Listed =>
                   load'[j].value = IF load[j].state \in Listed THEN load[j].value
                                    ELSE source[load[j].kind]
              /\ load'[j].state \in Doomed => Spread({j})'
  <2>1. LoadFits(j)
    BY DEF Inductive, Loads
  <2>2. Spread({j}) => Spread({j})'
    BY <1>2 DEF Spread
  <2>3. CASE j # i
    BY <1>6, <2>1, <2>2, <2>3 DEF LoadFits
  <2>4. CASE j = i
    BY <1>1, <1>3, <1>4, <1>6, <2>1, <2>2, <2>4 DEF LoadFits
  <2> QED
    BY <2>3, <2>4
<1>11. caller' \in [Callers -> CallerRecords] /\ caller' = caller
  BY <1>1, <1>2 DEF Shape
<1> QED
  BY <1>2, <1>6, <1>8, <1>9, <1>10, <1>11, MovedKeeps

\* A cancelled refresh dooms those of its loads that have not ended.
LEMMA CancelRefreshKeeps ==
  ASSUME Inductive, NEW c \in Callers, CancelRefresh(c)
  PROVE  Inductive'
<1>1. /\ Shape /\ Growing /\ caller[c].pc = "refreshing" /\ CallerFits(c)
      /\ UNCHANGED <<now, source, past, entry, writer, cleared>> /\ Len(load) \in Nat
  BY Records DEF CancelRefresh, Inductive, Calls
<1>2. PICK result \in {Failed, Cancelled} \cup Nat, self \in BOOLEAN :
        Finish(c, result, self) /\ (self /\ result = Cancelled)
  BY DEF CancelRefresh
<1>3. PICK new \in CallerRecords :
        /\ caller' = [caller EXCEPT ![c] = new] /\ caller'[c] = new
        /\ new.pc = "finished" /\ new.kind = caller[c].kind /\ new.result = result
        /\ new.self = self /\ new.on = IF result = Cancelled THEN caller[c].on ELSE {}
  <2>1. Finish(c, result, self)
    BY <1>2
  <2> QED
    BY <1>1, <2>1, FinishFacts
<1>4. /\ new.kind = "none" /\ new.on = caller[c].on /\ new.self /\ new.result \notin Nat
      /\ ~caller[c].self
  BY <1>1, <1>2, <1>3 DEF Cancelled, CallerFits
<1>5. /\ caller' \in [Callers -> CallerRecords]
      /\ \A d \in Callers : d # c => caller'[d] = caller[d]
  BY <1>1, <1>3 DEF Shape
<1>6. \A i \in caller[c].on : Spread({i})'
  BY <1>3, <1>4 DEF Spread
<1>7. ASSUME NEW i \in 1..Len(load)
      PROVE  /\ load'[i] \in LoadRecords
             /\ load'[i].kind = load[i].kind /\ load'[i].at = load[i].at
             /\ load'[i] = load[i]
                \/ /\ load'[i].state \in Doomed /\ i \in caller[c].on
                   /\ load'[i].value \in {0, load[i].value}
  <2>1. load[i] \in LoadRecords
    BY <1>1, Records
  <2>2. \/ load'[i] = load[i]
        \/ i \in caller[c].on /\ load'[i] = [load[i] EXCEPT !.state = "stillborn"]
        \/ i \in caller[c].on /\ load'[i] = [load[i] EXCEPT !.state = "dying", !.value = 0]
    BY DEF CancelRefresh
  <2>3. ASSUME NEW s \in {"stillborn", "dying"}, NEW v \in {0, load[i].value}
        PROVE  LET l == [load[i] EXCEPT !.state = s, !.value = v]
               IN  /\ l \in LoadRecords /\ l.kind = load[i].kind /\ l.at = load[i].at
                   /\ l.value = v /\ l.state \in Doomed
    <3>1. v \in Nat
      BY <2>1 DEF LoadRecords
    <3>2. [load[i] EXCEPT !.state = s, !.value = v] \in LoadRecords
      BY <2>1, <3>1 DEF LoadRecords
    <3>3. load[i] = [kind |-> load[i].kind, at |-> load[i].at, value |-> load[i].value,
                     state |-> load[i].state]
      BY <2>1 DEF LoadRecords
    <3> QED
      BY <3>2, <3>3 DEF Doomed
  <2>4. [load[i] EXCEPT !.state = "stillborn"]
          = [load[i] EXCEPT !.state = "stillborn", !.value = load[i].value]
    BY <2>1 DEF LoadRecords
  <2> QED
    BY <2>1, <2>2, <2>3, <2>4
<1>8. load' \in Seq(LoadRecords) /\ Len(load') = Len(load)
  <2>1. load' \in [1..Len(load) -> LoadRecords]
    <3>1. load' = [i \in 1..Len(load) |-> load'[i]]
      BY DEF CancelRefresh
    <3> QED
      BY <1>7, <3>1
  <2>2. load' \in Seq(LoadRecords)
    BY <1>1, <2>1
  <2> QED
    BY <1>1, <2>1, <2>2
<1>9. CallerFits(c)'
  BY <1>1, <1>3, <1>4, <1>8, Constants DEF CallerFits, Answered
<1>10. ASSUME NEW i \in 1..Len(load)
       PROVE  /\ load'[i].value <= source[load[i].kind]
              /\ load'[i].state \in Listed =>
                   load'[i].value = IF load[i].state \in Listed THEN load[i].value
                                    ELSE source[load[i].kind]
              /\ load'[i].state \in Doomed => Spread({i})'
  <2>1. LoadFits(i)
    BY DEF Inductive, Loads
  <2>2. load'[i].state \in Doomed => Spread({i})'
    <3>1. Spread({i}) => Spread({i})'
      BY <1>4, <1>5 DEF Spread
    <3> QED
      BY <1>6, <1>7, <2>1, <3>1 DEF LoadFits
  <2>3. load'[i].state \in Listed => load[i].state \in Listed
    BY <1>7 DEF Listed, Doomed
  <2>4. load'[i].value <= source[load[i].kind]
    <3>1. load[i].value \in Nat /\ source[load[i].kind] \in Nat
      BY <1>1, Records
    <3> QED
      BY <1>7, <2>1, <3>1 DEF LoadFits
  <2> QED
    BY <1>7, <2>2, <2>3, <2>4 DEF Listed, Doomed
<1>11. ASSUME NEW k \in Kinds, entry[k] # 0
       PROVE  load'[entry[k]].state # "failed"
  <2>1. entry[k] \in 1..Len(load) /\ load[entry[k]].state # "failed"
    BY <1>1, <1>11, Records DEF Inductive, Entries, EntryFits
  <2> QED
    BY <1>7, <2>1 DEF Doomed
<1>12. entry' \in [Kinds -> 0..Len(load)]
  BY <1>1 DEF Shape
<1> QED
  BY <1>1, <1>4, <1>5, <1>9, <1>7, <1>8, <1>10, <1>11, <1>12, MovedKeeps

\* Every step keeps the invariant.
LEMMA NextInductive == Inductive /\ [Next]_vars => Inductive'
<1> SUFFICES ASSUME Inductive, [Next]_vars PROVE Inductive'
  OBVIOUS
<1>1. CASE Tick
  BY <1>1, TickKeeps
<1>2. ASSUME NEW k \in Kinds, Change(k)
      PROVE  Inductive'
  <2>1. writer' \in [Writers -> WriterRecords]
    BY <1>2 DEF Change, Inductive, Shape
  <2> QED
    BY <1>2, <2>1, GrownKeeps DEF Change
<1>3. ASSUME NEW c \in Callers, CallerStep(c)
      PROVE  Inductive'
  BY <1>3, HitKeeps, MissKeeps, RefreshKeeps, WakeKeeps, EndKeeps, CancelRefreshKeeps
  DEF CallerStep
<1>4. ASSUME NEW i \in 1..Len(load), LoadStep(i)
      PROVE  Inductive'
  BY <1>4, LoadKeeps
<1>5. ASSUME NEW ks \in {{k} : k \in Kinds} \cup {Kinds}, ClearCache(ks)
      PROVE  Inductive'
  <2>1. ks \in SUBSET Kinds /\ writer' \in [Writers -> WriterRecords]
    BY <1>5 DEF ClearCache, Inductive, Shape
  <2> QED
    BY <1>5, <2>1, ClearKeeps DEF ClearCache
<1>6. ASSUME NEW w \in Writers, SetStatus(w) \/ Verify(w) \/ VerifyFails(w) \/ LoseStatus(w)
      PROVE  Inductive'
  BY <1>6, WriterKeeps
<1>7. CASE UNCHANGED vars
  <2>1. UNCHANGED <<now, source, past, load, entry, caller, writer, cleared>>
    BY <1>7 DEF vars
  <2>2. Shape' /\ Continued /\ Growing'
    BY <2>1 DEF Inductive, Shape, Continued, Growing
  <2> QED
    BY <2>1, <2>2, QuietKeeps
<1> QED
  BY <1>1, <1>2, <1>3, <1>4, <1>5, <1>6, <1>7 DEF Next

\* At every moment loads, entries and calls know of the history of Pumble what the
\* invariant says (resolver_cache.py).
THEOREM InductiveInvariant == Spec => []Inductive
  BY InitInductive, NextInductive, PTL DEF Spec

-----------------------------------------------------------------------------
(* What the invariant shows *)

\* A lookup gets a listing no staler than the TTL allows at its beginning, whoever
\* started the load and however long it took (resolver_cache.py _cached, _fresh).
THEOREM StalenessBounded == Spec => []StalenessIsBounded
<1>1. Inductive => StalenessIsBounded
  BY DEF Inductive, Calls, CallerFits, StalenessIsBounded
<1> QED
  BY <1>1, InductiveInvariant, PTL

\* A lookup that begins after a clear, or after a verified status write, sees a
\* listing at least as new (resolver_cache.py clear, status.py).
THEOREM ClearsAreFinal == Spec => []ClearIsFinal
<1>1. Inductive => ClearIsFinal
  <2> SUFFICES ASSUME Inductive, NEW c \in Callers, Answered(c)
               PROVE  caller[c].result >= caller[c].floor
    BY DEF ClearIsFinal
  <2>1. caller[c].floor <= caller[c].result
    BY DEF Inductive, Calls, CallerFits
  <2> QED
    BY <2>1
<1> QED
  BY <1>1, InductiveInvariant, PTL

\* A lookup ends cancelled without having been cancelled only if its load was one of a
\* refresh that was (resolver_cache.py refresh, asyncio.gather and shield).
THEOREM CancellationIsContained == Spec => []OnlyRefreshSpreadsCancellation
<1>1. Inductive => OnlyRefreshSpreadsCancellation
  BY DEF Inductive, Calls, CallerFits, Spread, OnlyRefreshSpreadsCancellation
<1> QED
  BY <1>1, InductiveInvariant, PTL

-----------------------------------------------------------------------------
(* What is cached *)

\* What takes a load out of the cache.
Evicting == {"failed", "cancelled"}

Latest(i) == \A j \in (i + 1)..Len(load) : load[j].kind # load[i].kind

\* Load i is cached exactly if it should be.
Placed(i) ==
  entry[load[i].kind] = i <=>
    Latest(i) /\ i # swept[load[i].kind] /\ load[i].state \notin Evicting

Cached == swept \in [Kinds -> 0..Len(load)] /\ \A i \in 1..Len(load) : Placed(i)

\* The loads are the same ones, and nothing is cached, evicted or cleared.
LEMMA SteadyKeeps ==
  ASSUME Inductive, Cached, Len(load') = Len(load), UNCHANGED <<entry, swept>>,
         \A i \in 1..Len(load) :
           /\ load'[i].kind = load[i].kind
           /\ load'[i].state \in Evicting <=> load[i].state \in Evicting
  PROVE  Cached'
<1>1. ASSUME NEW i \in 1..Len(load)
      PROVE  Placed(i)'
  <2>1. (i + 1)..Len(load) \subseteq 1..Len(load)
    BY DEF Inductive, Shape
  <2>2. Latest(i)' <=> Latest(i)
    BY <2>1 DEF Latest
  <2> QED
    BY <2>2 DEF Cached, Placed
<1> QED
  BY <1>1 DEF Cached

\* A load that gives up evicts itself, and nothing else.
LEMMA GivingUpKeeps ==
  ASSUME Inductive, Cached, NEW i \in 1..Len(load), Fail(i) \/ Die(i)
  PROVE  Cached'
<1>1. /\ Shape /\ load[i] \in LoadRecords /\ load[i].kind \in Kinds /\ Len(load) \in Nat
      /\ load \in [1..Len(load) -> LoadRecords] /\ swept' = swept
  BY Records DEF Inductive, Shape, Fail, Die
<1>2. PICK new : /\ load' = [load EXCEPT ![i] = new] /\ new \in LoadRecords
                 /\ new.kind = load[i].kind /\ new.state \in Evicting
  <2>1. CASE Fail(i)
    <3> DEFINE new == [load[i] EXCEPT !.state = "failed", !.value = 0]
    <3>1. load' = [load EXCEPT ![i] = new]
      BY <1>1, <2>1 DEF Fail, LoadRecords
    <3>2. new \in LoadRecords /\ new.kind = load[i].kind /\ new.state = "failed"
      BY <1>1 DEF LoadRecords, Ended
    <3> HIDE DEF new
    <3> QED
      BY <3>1, <3>2 DEF Evicting
  <2>2. CASE Die(i)
    <3> DEFINE new == [load[i] EXCEPT !.state = "cancelled"]
    <3>1. load' = [load EXCEPT ![i] = new]
      BY <1>1, <2>2 DEF Die
    <3>2. new \in LoadRecords /\ new.kind = load[i].kind /\ new.state = "cancelled"
      BY <1>1 DEF LoadRecords, Ended, Withdrawn
    <3> HIDE DEF new
    <3> QED
      BY <3>1, <3>2 DEF Evicting
  <2> QED
    BY <2>1, <2>2
<1>3. /\ Len(load') = Len(load) /\ load'[i] = new
      /\ \A j \in 1..Len(load) : /\ j # i => load'[j] = load[j]
                                 /\ load'[j].kind = load[j].kind
  BY <1>1, <1>2
<1>4. /\ \A k \in Kinds : k # load[i].kind => entry'[k] = entry[k]
      /\ entry'[load[i].kind] = IF entry[load[i].kind] = i THEN 0 ELSE entry[load[i].kind]
  <2>1. entry \in [Kinds -> 0..Len(load)] /\ entry' = Evicted(i)
    BY <1>1 DEF Shape, Fail, Die
  <2> QED
    BY <1>1, <2>1 DEF Evicted
<1>5. ASSUME NEW j \in 1..Len(load)
      PROVE  Placed(j)'
  <2>1. (j + 1)..Len(load) \subseteq 1..Len(load) /\ j # 0 /\ load[j].kind \in Kinds
    BY <1>1, Records
  <2>2. Latest(j)' <=> Latest(j)
    BY <1>3, <2>1 DEF Latest
  <2>3. CASE j = i
    BY <1>2, <1>3, <1>4, <2>1, <2>3 DEF Placed
  <2>4. CASE j # i
    BY <1>1, <1>3, <1>4, <2>1, <2>2, <2>4 DEF Cached, Placed
  <2> QED
    BY <2>3, <2>4
<1> QED
  BY <1>1, <1>3, <1>5 DEF Cached

\* A new load is cached in place of what was.
LEMMA AddingKeeps ==
  ASSUME Inductive, Cached, Len(load') \in Nat, Len(load) <= Len(load'), swept' = swept,
         \A i \in 1..Len(load) : load'[i] = load[i],
         \A i \in (Len(load) + 1)..Len(load') :
           entry'[load'[i].kind] = i /\ load'[i].kind \in Kinds /\ load'[i].state = "new",
         \A k \in Kinds : \/ entry'[k] = entry[k]
                          \/ entry'[k] \in (Len(load) + 1)..Len(load') /\ load'[entry'[k]].kind = k
  PROVE  Cached'
<1>1. Shape /\ Len(load) \in Nat
  BY DEF Inductive, Shape
<1>2. ASSUME NEW i \in 1..Len(load)
      PROVE  Placed(i)'
  <2> DEFINE k == load[i].kind
  <2>1. k \in Kinds /\ load'[i] = load[i] /\ i \in Nat
    BY <1>1, Records
  <2>2. CASE entry'[k] = entry[k]
    <3>1. \A j \in (Len(load) + 1)..Len(load') : load'[j].kind # k
      <4>1. entry[k] \in 0..Len(load)
        BY <1>1, <2>1, Records
      <4> QED
        BY <1>1, <2>2, <4>1
    <3>2. (i + 1)..Len(load') = (i + 1)..Len(load) \cup (Len(load) + 1)..Len(load')
      BY <1>1
    <3>3. Latest(i)' <=> Latest(i)
      <4>1. (i + 1)..Len(load) \subseteq 1..Len(load)
        BY <1>1
      <4> QED
        BY <2>1, <3>1, <3>2, <4>1 DEF Latest
    <3> QED
      BY <2>1, <2>2, <3>3 DEF Cached, Placed
  <2>3. CASE entry'[k] \in (Len(load) + 1)..Len(load') /\ load'[entry'[k]].kind = k
    <3>1. entry'[k] \in (i + 1)..Len(load') /\ entry'[k] # i
      BY <1>1, <2>3
    <3>2. ~Latest(i)'
      BY <2>1, <2>3, <3>1 DEF Latest
    <3> QED
      BY <2>1, <3>1, <3>2 DEF Placed
  <2> QED
    BY <2>1, <2>2, <2>3
<1>3. ASSUME NEW i \in (Len(load) + 1)..Len(load')
      PROVE  Placed(i)'
  <2>1. entry'[load'[i].kind] = i /\ load'[i].kind \in Kinds /\ load'[i].state = "new"
    OBVIOUS
  <2>2. Latest(i)'
    <3>1. ASSUME NEW j \in (i + 1)..Len(load'), load'[j].kind = load'[i].kind
          PROVE  FALSE
      <4>1. j \in (Len(load) + 1)..Len(load') /\ j # i
        BY <1>1
      <4>2. entry'[load'[j].kind] = j
        BY <4>1
      <4> QED
        BY <2>1, <3>1, <4>1, <4>2
    <3> QED
      BY <3>1 DEF Latest
  <2>3. swept[load'[i].kind] # i
    <3>1. swept[load'[i].kind] \in 0..Len(load)
      BY <2>1 DEF Cached
    <3> QED
      BY <1>1, <3>1
  <2> QED
    BY <2>1, <2>2, <2>3 DEF Placed, Evicting
<1>4. 1..Len(load') = 1..Len(load) \cup (Len(load) + 1)..Len(load')
  BY <1>1
<1>5. swept' \in [Kinds -> 0..Len(load')]
  <2>1. 0..Len(load) \subseteq 0..Len(load')
    BY <1>1
  <2> QED
    BY <2>1 DEF Cached
<1> QED
  BY <1>2, <1>3, <1>4, <1>5 DEF Cached

\* What is cleared was the newest, or nothing was cached.
LEMMA SweepingKeeps ==
  ASSUME Inductive, Cached, NEW ks \in SUBSET Kinds, Clear(ks), load' = load
  PROVE  Cached'
<1>1. /\ Shape /\ Len(load) \in Nat
      /\ entry' = [k \in Kinds |-> IF k \in ks THEN 0 ELSE entry[k]]
      /\ swept' = [k \in Kinds |-> IF k \in ks /\ entry[k] # 0 THEN entry[k] ELSE swept[k]]
  BY DEF Inductive, Shape, Clear
<1>2. ASSUME NEW i \in 1..Len(load)
      PROVE  Placed(i)'
  <2> DEFINE k == load[i].kind
             e == entry[k]
  <2>1. k \in Kinds /\ e \in 0..Len(load) /\ i # 0 /\ (Latest(i)' <=> Latest(i))
    BY <1>1, Records DEF Latest
  <2>2. Placed(i) /\ (e # 0 => load[e].kind = k /\ Placed(e))
    BY <1>1, <2>1 DEF Cached, Inductive, Entries, EntryFits
  <2>3. CASE k \in ks
    <3>1. entry'[k] # i /\ swept'[k] = IF e # 0 THEN e ELSE swept[k]
      BY <1>1, <2>1, <2>3
    <3>2. CASE e # 0
      <4>1. Latest(e)
        BY <2>2, <3>2 DEF Placed
      <4>2. Latest(i) => i = e
        BY <1>1, <2>1, <2>2, <3>2, <4>1 DEF Latest
      <4> QED
        BY <2>1, <3>1, <3>2, <4>2 DEF Placed
    <3>3. CASE e = 0
      BY <2>1, <2>2, <3>1, <3>3 DEF Placed
    <3> QED
      BY <3>2, <3>3
  <2>4. CASE k \notin ks
    <3>1. entry'[k] = entry[k] /\ swept'[k] = swept[k]
      BY <1>1, <2>1, <2>4
    <3> QED
      BY <2>1, <2>2, <3>1 DEF Placed
  <2> QED
    BY <2>3, <2>4
<1>3. swept' \in [Kinds -> 0..Len(load')]
  <2>1. \A k \in Kinds : entry[k] \in 0..Len(load) /\ swept[k] \in 0..Len(load)
    BY <1>1, Records DEF Cached
  <2> QED
    BY <1>1, <2>1
<1> QED
  BY <1>2, <1>3 DEF Cached

\* A refresh caches one new load of every kind.
LEMMA RefreshPlaces ==
  ASSUME Inductive, Cached, NEW c \in Callers, Refresh(c)
  PROVE  Cached'
<1> DEFINE m == Len(KindOrder)
           fresh == [n \in 1..m |-> NewLoad(KindOrder[n])]
           place(k) == CHOOSE n \in 1..m : KindOrder[n] = k
<1>1. /\ load \in Seq(LoadRecords) /\ Len(load) \in Nat /\ swept' = swept
      /\ load' = load \o fresh /\ entry' = [k \in Kinds |-> Len(load) + place(k)]
  BY DEF Refresh, Inductive, Shape
<1>2. m \in Nat /\ \A n \in 1..m : KindOrder[n] \in Kinds
  BY Constants
<1>3. \A n \in 1..m : NewLoad(KindOrder[n]) \in LoadRecords
  BY <1>2, NewLoadType DEF Inductive
<1>4. fresh \in Seq(LoadRecords) /\ Len(fresh) = m /\ \A n \in 1..m : fresh[n] = NewLoad(KindOrder[n])
  BY <1>2, <1>3
<1> HIDE DEF fresh
<1>5. /\ Len(load') = Len(load) + m /\ Len(load') \in Nat
      /\ \A j \in 1..Len(load) : load'[j] = load[j]
      /\ \A n \in 1..m : load'[Len(load) + n] = fresh[n]
  <2>1. Len(load') = Len(load) + m
    <3>1. load \in Seq(LoadRecords) /\ fresh \in Seq(LoadRecords)
      BY <1>1, <1>4
    <3>2. Len(load \o fresh) = Len(load) + Len(fresh)
      BY <3>1
    <3> QED
      BY <1>1, <1>4, <3>2
  <2>2. \A j \in 1..Len(load) : load'[j] = load[j]
    BY <1>1, <1>2, <1>4
  <2>3. ASSUME NEW n \in 1..m
        PROVE  load'[Len(load) + n] = fresh[n]
    BY <1>1, <1>2, <1>4
  <2> QED
    BY <1>1, <1>2, <2>1, <2>2, <2>3
<1>6. \A k \in Kinds : place(k) \in 1..m /\ KindOrder[place(k)] = k
  BY DEF Kinds
<1>7. ASSUME NEW n \in 1..m
      PROVE  place(KindOrder[n]) = n
  BY <1>2, <1>6, CacheAssumption
<1> HIDE DEF place
<1>8. ASSUME NEW j \in (Len(load) + 1)..Len(load')
      PROVE  entry'[load'[j].kind] = j /\ load'[j].kind \in Kinds /\ load'[j].state = "new"
  <2> DEFINE n == j - Len(load)
  <2>1. n \in 1..m /\ j = Len(load) + n
    BY <1>1, <1>2, <1>5
  <2>2. load'[j] = NewLoad(KindOrder[n])
    BY <1>4, <1>5, <2>1
  <2>3. load'[j].kind = KindOrder[n] /\ load'[j].state = "new"
    BY <2>2 DEF NewLoad
  <2> QED
    BY <1>1, <1>2, <1>7, <2>1, <2>3
<1>9. ASSUME NEW k \in Kinds
      PROVE  entry'[k] \in (Len(load) + 1)..Len(load') /\ load'[entry'[k]].kind = k
  <2>1. entry'[k] = Len(load) + place(k)
    BY <1>1
  <2>2. load'[entry'[k]] = NewLoad(k)
    BY <1>4, <1>5, <1>6, <2>1
  <2> QED
    BY <1>1, <1>2, <1>5, <1>6, <2>1, <2>2 DEF NewLoad
<1>10. Len(load) <= Len(load')
  BY <1>1, <1>2, <1>5
<1> QED
  BY <1>1, <1>5, <1>8, <1>9, <1>10, AddingKeeps

\* A lookup that misses caches its new load.
LEMMA MissPlaces ==
  ASSUME Inductive, Cached, NEW c \in Callers, NEW k \in Kinds, LookupMiss(c, k)
  PROVE  Cached'
<1>1. /\ load \in Seq(LoadRecords) /\ Len(load) \in Nat /\ swept' = swept
      /\ entry \in [Kinds -> 0..Len(load)] /\ NewLoad(k) \in LoadRecords
      /\ load' = Append(load, NewLoad(k)) /\ entry' = [entry EXCEPT ![k] = Len(load) + 1]
  BY NewLoadType DEF LookupMiss, Inductive, Shape
<1>2. /\ Len(load') = Len(load) + 1 /\ load'[Len(load) + 1] = NewLoad(k)
      /\ \A j \in 1..Len(load) : load'[j] = load[j]
  BY <1>1
<1>3. NewLoad(k).kind = k /\ NewLoad(k).state = "new"
  BY DEF NewLoad
<1>4. /\ Len(load') \in Nat /\ Len(load) <= Len(load')
      /\ (Len(load) + 1)..Len(load') = {Len(load) + 1}
  BY <1>1, <1>2
<1>5. entry'[k] = Len(load) + 1 /\ \A l \in Kinds : l # k => entry'[l] = entry[l]
  BY <1>1
<1> QED
  BY <1>1, <1>2, <1>3, <1>4, <1>5, AddingKeeps

\* Every step keeps the right loads cached.
LEMMA NextCached == Inductive /\ Cached /\ [Next]_vars => Cached'
<1> SUFFICES ASSUME Inductive, Cached, [Next]_vars PROVE Cached'
  OBVIOUS
<1>1. ASSUME UNCHANGED <<load, entry, swept>>
      PROVE  Cached'
  BY <1>1, SteadyKeeps
<1>2. CASE Tick \/ UNCHANGED vars \/ \E k \in Kinds : Change(k)
  BY <1>1, <1>2 DEF Tick, Change, vars
<1>3. ASSUME NEW c \in Callers, CallerStep(c)
      PROVE  Cached'
  <2>1. CASE CancelRefresh(c)
    <3>1. /\ Len(load) \in Nat /\ UNCHANGED <<entry, swept>>
          /\ load' = [i \in 1..Len(load) |-> load'[i]]
      <4>1. load' = [i \in 1..Len(load) |-> load'[i]]
        BY <2>1 DEF CancelRefresh
      <4>2. UNCHANGED <<entry, swept>>
        BY <2>1 DEF CancelRefresh
      <4>3. Len(load) \in Nat
        BY DEF Inductive, Shape
      <4> QED
        BY <4>1, <4>2, <4>3, Zenon
    <3>2. ASSUME NEW i \in 1..Len(load)
          PROVE  /\ load'[i].kind = load[i].kind
                 /\ load'[i].state \in Evicting <=> load[i].state \in Evicting
      <4>1. load[i] \in LoadRecords
        BY Records DEF Inductive
      <4>2. \/ load'[i] = load[i]
            \/ load[i].state = "new" /\ load'[i] = [load[i] EXCEPT !.state = "stillborn"]
            \/ /\ load[i].state \in {"asked", "answered"}
               /\ load'[i] = [load[i] EXCEPT !.state = "dying", !.value = 0]
        BY <2>1 DEF CancelRefresh
      <4> QED
        BY <4>1, <4>2 DEF Evicting, LoadRecords
    <3>3. Len(load') = Len(load)
      <4>1. load' \in Seq(LoadRecords)
        BY NextInductive, <1>3 DEF Next, Inductive, Shape
      <4> QED
        BY <3>1, <4>1
    <3> QED
      BY <3>1, <3>2, <3>3, SteadyKeeps
  <2>2. CASE Wake(c) \/ WakeRefresh(c) \/ CancelAlone(c) \/ \E k \in Kinds : LookupHit(c, k)
    BY <1>1, <2>2 DEF Wake, WakeRefresh, CancelAlone, LookupHit
  <2> QED
    BY <1>3, <2>1, <2>2, MissPlaces, RefreshPlaces DEF CallerStep
<1>4. ASSUME NEW i \in 1..Len(load), LoadStep(i)
      PROVE  Cached'
  <2>1. CASE Fail(i) \/ Die(i)
    BY <2>1, GivingUpKeeps
  <2>2. CASE Ask(i) \/ Answer(i) \/ Arrive(i) \/ DieUnborn(i)
    <3>1. /\ Len(load) \in Nat /\ load \in [1..Len(load) -> LoadRecords]
          /\ load[i] \in LoadRecords /\ UNCHANGED <<entry, swept>>
      BY <2>2, Records DEF Inductive, Shape, Ask, Answer, Arrive, DieUnborn
    <3>2. PICK new : /\ load' = [load EXCEPT ![i] = new] /\ new.kind = load[i].kind
                     /\ new.state \notin Evicting /\ load[i].state \notin Evicting
      <4>1. CASE Answer(i)
        <5>1. load' = [load EXCEPT ![i] = [@ EXCEPT !.state = "answered",
                                                    !.value = source[load[i].kind]]]
          BY <3>1, <4>1 DEF Answer, LoadRecords
        <5> QED
          BY <3>1, <4>1, <5>1 DEF Answer, LoadRecords, Evicting
      <4>2. CASE Ask(i) \/ Arrive(i) \/ DieUnborn(i)
        <5>1. PICK s \in {"asked", "done", "dropped"} :
                load' = [load EXCEPT ![i] = [@ EXCEPT !.state = s]]
          BY <4>2 DEF Ask, Arrive, DieUnborn
        <5> QED
          BY <3>1, <4>2, <5>1 DEF Ask, Arrive, DieUnborn, LoadRecords, Evicting
      <4> QED
        BY <2>2, <4>1, <4>2
    <3>3. /\ Len(load') = Len(load) /\ load'[i] = new
          /\ \A j \in 1..Len(load) : j # i => load'[j] = load[j]
      BY <3>1, <3>2
    <3> QED
      BY <3>1, <3>2, <3>3, SteadyKeeps
  <2> QED
    BY <1>4, <2>1, <2>2 DEF LoadStep
<1>5. ASSUME NEW ks \in {{k} : k \in Kinds} \cup {Kinds}, ClearCache(ks)
      PROVE  Cached'
  <2>1. ks \in SUBSET Kinds
    OBVIOUS
  <2> QED
    BY <1>5, <2>1, SweepingKeeps DEF ClearCache
<1>6. ASSUME NEW w \in Writers, SetStatus(w) \/ Verify(w) \/ VerifyFails(w) \/ LoseStatus(w)
      PROVE  Cached'
  <2>1. CASE Verify(w)
    <3>1. {"users"} \in SUBSET Kinds
      BY Constants
    <3> QED
      BY <2>1, <3>1, SweepingKeeps DEF Verify
  <2>2. CASE SetStatus(w) \/ VerifyFails(w) \/ LoseStatus(w)
    BY <1>1, <2>2 DEF SetStatus, VerifyFails, LoseStatus
  <2> QED
    BY <1>6, <2>1, <2>2
<1> QED
  BY <1>2, <1>3, <1>4, <1>5, <1>6 DEF Next

\* In every state exactly the loads that should be cached are.
LEMMA CachedInvariant == Spec => []Cached
<1>1. Init => Cached
  BY DEF Init, Cached
<1> QED
  BY <1>1, NextCached, InductiveInvariant, PTL DEF Spec

\* The cache holds the newest load of a kind until that is cleared away or ends without
\* a listing; a load that gives up evicts itself and no newer one (resolver_cache.py
\* loader, refresh, clear).
THEOREM NewestLoadIsCached == Spec => []CacheHoldsNewestLoad
<1>1. Cached => CacheHoldsNewestLoad
  BY DEF Cached, Placed, Latest, Evicting, CacheHoldsNewestLoad
<1> QED
  BY <1>1, CachedInvariant, PTL

\* The cache and its callers are well-formed: an entry is a load of its kind, and what
\* a load has Pumble had (resolver_cache.py _cached, refresh).
THEOREM TypeCorrect == Spec => []TypeOK
<1>1. Inductive /\ swept \in [Kinds -> 0..Len(load)] => TypeOK
  <2> SUFFICES ASSUME Inductive, swept \in [Kinds -> 0..Len(load)] PROVE TypeOK
    OBVIOUS
  <2>1. Shape /\ Growing /\ Loads /\ Entries /\ Calls
    BY DEF Inductive
  <2>2. \A k \in Kinds : source[k] \in 0..MaxVersion[k] /\ cleared[k] \in 0..source[k]
    BY <2>1, Constants DEF Shape, Growing
  <2>3. \A c \in Callers : /\ caller[c].pc \in {"idle", "waiting", "refreshing", "finished"}
                           /\ caller[c].on \subseteq 1..Len(load)
                           /\ caller[c].result \in {Failed, Cancelled} \cup Nat
    <3>1. \A c \in Callers : caller[c] \in CallerRecords
      BY <2>1 DEF Shape
    <3> QED
      BY <2>1, <3>1 DEF Calls, CallerFits, CallerRecords
  <2> QED
    BY <2>1, <2>2, <2>3 DEF Shape, LoadRecords, WriterRecords, Loads, LoadFits, Entries, EntryFits,
      TypeOK
<1>2. Cached => swept \in [Kinds -> 0..Len(load)]
  BY DEF Cached
<1> QED
  BY <1>1, <1>2, CachedInvariant, InductiveInvariant, PTL
=============================================================================
