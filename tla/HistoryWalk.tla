----------------------------- MODULE HistoryWalk -----------------------------
(***************************************************************************)
(* The two defensive walks over paged history: search_all_messages         *)
(* (search.py), whose cursor is a time, and list_all_messages              *)
(* (pagination.py), whose cursor is a message.  Each step of a walk is one *)
(* request and everything done with its page; between two steps messages   *)
(* are posted and deleted, and the consumer may stop.                      *)
(*                                                                         *)
(* Pumble is honest, and pages as it says; or it is not, and a page is     *)
(* anything: the walks defend themselves against that.  Messages are their *)
(* numbers, in the order they were posted.  Times are whole seconds, as    *)
(* Pumble truncates them.                                                  *)
(***************************************************************************)
EXTENDS Integers, SequencesExt

CONSTANTS
    Ids,          \* messages, 1 .. n
    Repeated,     \* those a server answers with that does not page as it says
    Seconds,      \* the seconds they are posted in
    Limit,        \* messages of a page
    MaxResults,   \* max_results, where it is given
    PageCap,      \* max_pages
    OverlapCap,   \* _OVERLAP_ATTEMPT_CAP
    Initially,    \* numbers of messages there may be when the walk begins
    MaxDeletes,   \* bound on deletions during a walk
    None

ASSUME WalkAssumption ==
    /\ IsFiniteSet(Ids) /\ Ids = 1 .. Cardinality(Ids) /\ Repeated \subseteq Ids
    /\ Seconds \subseteq Nat /\ None \notin Int
    /\ {Limit, MaxResults, PageCap, OverlapCap} \subseteq Nat \ {0}
    /\ Initially \subseteq 1 .. Cardinality(Ids) /\ MaxDeletes \in Nat

VARIABLES
    second,   \* when each message is posted; never changes
    honest,   \* whether Pumble pages as it says; never changes
    posted, deleted,   \* the messages posted so far, and those gone again
    walk

world == <<second, honest, posted, deleted>>
vars == <<world, walk>>

(* A cursor of a search is a bound on times: timestamps are multiples of a *)
(* second, so two units to the second tell "before it" from "before the    *)
(* next".                                                                  *)
Time(id) == 2 * second[id]
OverlapStep == 2

Live == posted \ deleted
Members(s) == {s[i] : i \in DOMAIN s}
Stop(w, outcome) ==
    [w EXCEPT !.pc = outcome, !.cursor = None, !.prev = None, !.oldest = None, !.tries = 0, !.last = FALSE]
Running == walk.pc \in {"page", "overlap"}

-----------------------------------------------------------------------------
(* A page: its messages, what it says about more of them, and whether they *)
(* carry their times.  A message without an id is None.                    *)
Contents(S) == UNION {[1 .. n -> S] : n \in 0 .. Limit}
Page(content, older, newer) == [content |-> content, older |-> older, newer |-> newer, timed |-> TRUE]

Precedes(newestFirst, a, b) == IF newestFirst THEN a > b ELSE a < b

(* What an honest page holds, in its order: as many of the messages wanted *)
(* as it takes, none that is left out before one that is not.              *)
FirstOf(wanted, newestFirst) ==
    {c \in Contents(wanted) :
        /\ \A i, j \in DOMAIN c : i < j => Precedes(newestFirst, c[i], c[j])
        /\ \A m \in wanted \ Members(c) :
            Len(c) = Limit /\ \A i \in DOMAIN c : Precedes(newestFirst, c[i], m)}

HonestSearch(before) ==
    LET hits == {m \in Live : before = None \/ Time(m) < before} IN
    {Page(c, hits # Members(c), FALSE) : c \in FirstOf(hits, TRUE)}

HonestList(strategy, cursor) ==
    LET wanted == {m \in Live : \/ cursor = None
                                \/ strategy = "BEFORE" /\ m < cursor
                                \/ strategy = "AFTER" /\ m > cursor}
    IN IF strategy = "BEFORE"
       THEN {Page(c, wanted # Members(c), cursor # None) : c \in FirstOf(wanted, TRUE)}
       ELSE {Page(c, cursor # None, wanted # Members(c)) : c \in FirstOf(wanted, FALSE)}

AnyPages ==
    [content: Contents(Repeated \cup {None}), older: BOOLEAN, newer: BOOLEAN, timed: BOOLEAN]

Pages(honestPages) == IF honest THEN honestPages ELSE AnyPages

-----------------------------------------------------------------------------
(* Mutant: what was yielded before is not known.                           *)
FreshOfPage(content) ==
    {i \in DOMAIN content : content[i] # None /\ \A j \in 1 .. (i - 1) : content[j] # content[i]}

(* The places of a page whose hits are to be yielded.                      *)
Fresh(content) ==
    {i \in DOMAIN content :
        /\ content[i] \notin {None} \cup Members(walk.yielded)
        /\ \A j \in 1 .. (i - 1) : content[j] # content[i]}

(* Their hits, in the order of the page.                                   *)
InOrder(content) ==
    {[k \in DOMAIN place |-> content[place[k]]] : place \in
        {p \in [1 .. Cardinality(Fresh(content)) -> Fresh(content)] :
            \A k, l \in DOMAIN p : k < l => p[k] < p[l]}}

(* Yielding stops the walk when max_results are reached.                   *)
Yielded(content) ==
    {IF walk.max = None \/ Len(all) < walk.max THEN all ELSE SubSeq(all, 1, walk.max) :
        all \in {walk.yielded \o new : new \in InOrder(content)}}
NothingNew(content) == Fresh(content) = {}
Enough(content) ==
    /\ walk.max # None /\ ~NothingNew(content)
    /\ Len(walk.yielded) + Cardinality(Fresh(content)) >= walk.max

(* A walk begins at the newest message, or at one that is there.  A server *)
(* that answers anything needs no history; to a walk over a channel times  *)
(* mean nothing.                                                           *)
Init ==
    /\ second \in {f \in [Ids -> Seconds] : \A a, b \in Ids : a < b => f[a] <= f[b]}
    /\ honest \in BOOLEAN
    /\ posted \in {1 .. n : n \in Initially} /\ deleted = {}
    /\ \E kind \in {"search", "BEFORE", "AFTER"}, start \in {None} \cup posted, max \in {None, MaxResults} :
        /\ kind = "AFTER" => start # None
        /\ kind # "search" => second[1] = second[Cardinality(Ids)]
        /\ ~honest => posted = Ids /\ start \in {None, 1} /\ (kind # "AFTER" => start = None)
        /\ walk = [pc |-> "page", kind |-> kind, max |-> max, prev |-> None, pages |-> 0, yielded |-> <<>>,
                   cursor |-> IF start # None /\ kind = "search" THEN Time(start) ELSE start,
                   scope |-> {m \in posted : \/ start = None
                                             \/ kind = "search" /\ second[m] < second[start]
                                             \/ kind = "BEFORE" /\ m < start
                                             \/ kind = "AFTER" /\ m > start},
                   oldest |-> None, tries |-> 0, last |-> FALSE]

Post ==
    /\ honest /\ Running
    /\ \E m \in Ids : m = Cardinality(posted) + 1 /\ posted' = posted \cup {m}
    /\ UNCHANGED <<second, honest, deleted, walk>>

Delete ==
    /\ honest /\ Running /\ Cardinality(deleted) < MaxDeletes
    /\ \E m \in Live : deleted' = deleted \cup {m}
    /\ UNCHANGED <<second, honest, posted, walk>>

-----------------------------------------------------------------------------
(* search_all_messages *)

(* Mutant: the cursor skips the second before the oldest.                  *)
NextBeforeSkipping(w) ==
    LET next == w.oldest - OverlapStep - 1 IN
    IF w.last THEN Stop(w, "end")
    ELSE IF w.oldest = None THEN Stop(w, "end")
    ELSE IF next < 0 \/ (w.cursor # None /\ next >= w.cursor) THEN Stop(w, "end")
    ELSE [w EXCEPT !.pc = "page", !.cursor = next]

(* After a page and its overlaps: on to the times before its oldest hit,   *)
(* unless this was the last page, it has no times, or the cursor would not *)
(* go down.                                                                *)
NextBefore(w) ==
    IF w.last \/ w.oldest = None \/ (w.cursor # None /\ w.oldest - 1 >= w.cursor)
    THEN Stop(w, "end")
    ELSE [w EXCEPT !.pc = "page", !.cursor = w.oldest - 1]

(* A page of the walk proper.  It ends on an empty page, on one that       *)
(* begins like the one before, on one with nothing new; several hits in    *)
(* its oldest second are looked for once more.                             *)
SearchPage ==
    /\ walk.kind = "search" /\ walk.pc = "page" /\ walk.pages < PageCap
    /\ \E page \in Pages(HonestSearch(walk.cursor)) : \E all \in Yielded(page.content) :
        LET content == page.content
            hits == {m \in Members(content) : m # None}
            times == IF page.timed THEN {Time(m) : m \in hits} ELSE {}
            oldest == IF times = {} THEN None ELSE CHOOSE t \in times : \A u \in times : t <= u
            count == Cardinality({i \in DOMAIN content : content[i] # None /\ Time(content[i]) = oldest})
            seen == [walk EXCEPT !.pages = @ + 1]
            next == [seen EXCEPT !.prev = content[1], !.yielded = all, !.oldest = oldest,
                                 !.tries = 0, !.last = ~page.older /\ Len(content) < Limit]
        IN walk' = IF content = <<>> \/ (content[1] # None /\ content[1] = walk.prev)
                   THEN Stop(seen, "end")
                   ELSE IF Enough(content) THEN Stop(next, "enough")
                   ELSE IF NothingNew(content) THEN Stop(next, "end")
                   ELSE IF oldest # None /\ count > 1 /\ page.older
                   THEN [next EXCEPT !.pc = "overlap"]
                   ELSE NextBefore(next)
    /\ UNCHANGED world

(* Mutant: overlap requests are not counted against the cap.               *)
CanOverlapUncounted(w) == TRUE
CanOverlap(w) == w.pages < PageCap

(* The oldest second of the page once more, up to OverlapCap times.        *)
SearchOverlap ==
    /\ walk.pc = "overlap" /\ walk.tries < OverlapCap /\ CanOverlap(walk)
    /\ \E page \in Pages(HonestSearch(walk.oldest + OverlapStep)) : \E all \in Yielded(page.content) :
        LET content == page.content
            seen == [walk EXCEPT !.pages = @ + 1, !.tries = @ + 1]
            next == [seen EXCEPT !.yielded = all]
        IN walk' = IF content = <<>> THEN NextBefore(seen)
                   ELSE IF Enough(content) THEN Stop(next, "enough")
                   ELSE IF NothingNew(content) \/ next.tries = OverlapCap THEN NextBefore(next)
                   ELSE next
    /\ UNCHANGED world

-----------------------------------------------------------------------------
(* list_all_messages *)

More(strategy, page) == IF strategy = "AFTER" THEN page.newer ELSE page.older

(* Mutant: a page with nothing new does not end the walk.                  *)
ListEndsSpinning(page) ==
    \/ page.content = <<>> \/ ~More(walk.kind, page)
    \/ Last(page.content) = None \/ (walk.prev # None /\ Last(page.content) = walk.prev)

(* Reasons not to ask for another page.                                    *)
ListEnds(page) ==
    \/ page.content = <<>> \/ NothingNew(page.content) \/ ~More(walk.kind, page)
    \/ Last(page.content) = None \/ (walk.prev # None /\ Last(page.content) = walk.prev)

ListPage ==
    /\ walk.kind \in {"BEFORE", "AFTER"} /\ walk.pc = "page" /\ walk.pages < PageCap
    /\ \E page \in Pages(HonestList(walk.kind, walk.cursor)) : \E all \in Yielded(page.content) :
        LET next == [walk EXCEPT !.pages = @ + 1, !.yielded = all] IN
        walk' = IF Enough(page.content) THEN Stop(next, "enough")
                ELSE IF ListEnds(page) THEN Stop(next, "end")
                ELSE [next EXCEPT !.prev = Last(page.content), !.cursor = Last(page.content)]
    /\ UNCHANGED world

(* PageCapExceededError.                                                   *)
HitCap ==
    /\ Running /\ walk.pages >= PageCap
    /\ walk' = Stop(walk, "capped")
    /\ UNCHANGED world

(* The request fails, the consumer stops or is cancelled: no more requests.*)
Abandon ==
    /\ Running
    /\ walk' = Stop(walk, "abandoned")
    /\ UNCHANGED world

Walk == SearchPage \/ SearchOverlap \/ ListPage \/ HitCap

Next == Post \/ Delete \/ Walk \/ Abandon

Spec == Init /\ [][Next]_vars

-----------------------------------------------------------------------------
(* Properties *)

TypeOK ==
    /\ second \in [Ids -> Seconds] /\ honest \in BOOLEAN
    /\ deleted \subseteq posted /\ posted \subseteq Ids
    /\ walk.pc \in {"page", "overlap", "end", "enough", "capped", "abandoned"}
    /\ walk.pages \in 0 .. PageCap /\ walk.tries \in 0 .. OverlapCap
    /\ Members(walk.yielded) \subseteq Ids
    /\ walk.kind = "search" /\ walk.pc = "overlap" => walk.oldest # None

(* No hit is yielded twice and never more than asked for, whatever Pumble  *)
(* answers and however pages and overlaps repeat each other.               *)
NothingTwice ==
    IsInjective(walk.yielded) /\ (walk.max # None => Len(walk.yielded) <= walk.max)

(* Every request is paid for: each page of a walk but the last brings      *)
(* something new, and of the overlaps after a page at most one does not,   *)
(* so a server that repeats itself is found out long before the cap, in    *)
(* cycles longer than the one cursor the code compares, too.               *)
WalksAreProductive ==
    walk.pages <= Len(walk.yielded) + 1
        + IF walk.kind = "search" THEN Len(walk.yielded) ELSE 0

(* A walk that ends by itself is complete, whatever was posted meanwhile:  *)
(* over a channel it has yielded every message that was there all the      *)
(* time; a search, undisturbed by deletions, has missed hits only of       *)
(* seconds it has yielded a hit of, cut by the end of a page.              *)
WalksAreComplete ==
    honest /\ walk.pc = "end" =>
        LET missed == walk.scope \ Members(walk.yielded) IN
        IF walk.kind # "search" THEN missed \subseteq deleted
        ELSE deleted = {} =>
            \A m \in missed : \E hit \in Members(walk.yielded) : second[hit] = second[m]

(* "Yield every search hit for request across every page" (search.py:84).  *)
EveryHitIsYielded ==
    honest /\ walk.kind = "search" /\ walk.pc = "end" /\ deleted = {} =>
        walk.scope \subseteq Members(walk.yielded)
=============================================================================
