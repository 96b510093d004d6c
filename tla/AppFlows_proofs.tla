---------------------------- MODULE AppFlows_proofs ----------------------------
(***************************************************************************)
(* Proofs about AppFlows, for any channels, queries, threads and pages:    *)
(* in whatever order answers come, a spinner is backed by a call and what  *)
(* a pane shows belongs together.                                          *)
(***************************************************************************)
EXTENDS AppFlows, SequenceTheorems, TLAPS

-----------------------------------------------------------------------------
(* The inductive invariant *)

Typed ==
    /\ inFlight \subseteq Keys /\ calls \in [Keys -> Nat]
    /\ selected \in Channels \cup {None}
    /\ messages \in [items: Seq(Shown), cursor: Cursors \cup {None},
                     loading: BOOLEAN, stale: BOOLEAN, error: BOOLEAN]
    /\ search \in [query: Queries \cup {None}, results: Queries \cup {None},
                   loading: BOOLEAN, error: BOOLEAN]
    /\ thread \in [shown: Roots \cup {None}, loading: BOOLEAN, error: BOOLEAN]

(* A request in flight is one call of the server.                          *)
OneCallEach == \A k \in Keys : calls[k] = IF k \in inFlight THEN 1 ELSE 0

(* A page on its way to the selected channel's pane from another channel   *)
(* is known to be late.                                                    *)
LatePagesAreKnown == \A k \in inFlight : k.is = "page" /\ k.channel # selected => k \in late

SpinnersWait ==
    /\ messages.loading => PageKey(selected, 0) \in inFlight
    /\ search.loading => SearchKey(search.query) \in inFlight
    /\ thread.loading => \E root \in Roots : ThreadKey(root) \in inFlight

Inductive == Typed /\ OneCallEach /\ LatePagesAreKnown /\ SpinnersWait /\ PanesAreConsistent

-----------------------------------------------------------------------------
(* Requests *)

(* A listing has a first page.                                             *)
LEMMA Constants == Pages \in Nat \ {0} /\ 0 \in 0 .. Pages - 1 /\ Cursors \subseteq 0 .. Pages - 1
<1>1. Pages \in Nat \ {0}
  BY AppAssumption
<1> QED
  BY <1>1 DEF Cursors

(* Keys are told apart by what they ask for.                               *)
LEMMA KeysOfKinds ==
  /\ [is |-> "bootstrap"] \in Keys
  /\ \A c \in Channels, n \in 0 .. Pages - 1 : PageKey(c, n) \in PageKeys
  /\ PageKeys \subseteq Keys
  /\ \A q \in Queries : SearchKey(q) \in Keys
  /\ \A r \in Roots : ThreadKey(r) \in Keys
  /\ \A k \in Keys : k.is = "page" => k \in PageKeys
  /\ \A k \in Keys : k.is = "search" => k.query \in Queries /\ k = SearchKey(k.query)
  /\ \A k \in Keys : k.is = "thread" => k.root \in Roots /\ k = ThreadKey(k.root)
  BY DEF Keys, PageKeys, PageKey, SearchKey, ThreadKey

(* A request that may already be in flight is one call of the server all   *)
(* the same.                                                               *)
LEMMA OnceKeeps ==
  ASSUME Typed, OneCallEach, NEW key \in Keys, Once(key)
  PROVE  /\ inFlight' = inFlight \cup {key}
         /\ inFlight' \subseteq Keys /\ calls' \in [Keys -> Nat] /\ OneCallEach'
<1>1. inFlight \subseteq Keys /\ calls \in [Keys -> Nat]
  BY DEF Typed
<1>2. CASE key \in inFlight
  BY <1>1, <1>2 DEF Once, OneCallEach
<1>3. CASE key \notin inFlight
  <2>1. inFlight' = inFlight \cup {key} /\ calls' = [calls EXCEPT ![key] = calls[key] + 1]
    BY <1>3 DEF Once
  <2>2. calls[key] = 0
    BY <1>3 DEF OneCallEach
  <2> QED
    BY <1>1, <2>1, <2>2 DEF OneCallEach
<1> QED
  BY <1>2, <1>3

(* An answer ends its request, and its being late.                         *)
LEMMA SettleKeeps ==
  ASSUME Typed, OneCallEach, NEW key \in Keys, Settle(key)
  PROVE  /\ key \in inFlight /\ inFlight' = inFlight \ {key} /\ late' = late \ {key}
         /\ inFlight' \subseteq Keys /\ calls' \in [Keys -> Nat] /\ OneCallEach'
<1>1. /\ inFlight \subseteq Keys /\ calls \in [Keys -> Nat] /\ calls[key] > 0
      /\ inFlight' = inFlight \ {key} /\ calls' = [calls EXCEPT ![key] = calls[key] - 1]
      /\ late' = late \ {key}
  BY DEF Typed, Settle
<1>2. key \in inFlight /\ calls[key] = 1
  BY <1>1 DEF OneCallEach
<1> QED
  BY <1>1, <1>2 DEF OneCallEach

(* Which kind of answer ends which spinner.                                *)
LEMMA KindsDiffer ==
  /\ \A c, n : PageKey(c, n).is = "page"
  /\ \A q : SearchKey(q).is = "search"
  /\ \A r : ThreadKey(r).is = "thread"
  BY DEF PageKey, SearchKey, ThreadKey

(* What does not touch the messages or the selection leaves their pane as  *)
(* it was.                                                                 *)
LEMMA SameMessages ==
  ASSUME Inductive, UNCHANGED <<messages, selected>>
  PROVE  CursorFollowsItems' /\ MisplacedPagesAreLate'
  BY DEF Inductive, PanesAreConsistent, CursorFollowsItems, MisplacedPagesAreLate

(* What does not touch the search leaves its results with their query.     *)
LEMMA SameSearch == ASSUME Inductive, UNCHANGED search PROVE SearchShowsItsQuery'
  BY DEF Inductive, PanesAreConsistent, SearchShowsItsQuery

(* A request is made, for a pane or for nobody, and what is shown stays.   *)
LEMMA RequestKeeps ==
  ASSUME Inductive, NEW key \in Keys, Once(key), UNCHANGED <<late, selected>>,
         key.is = "page" => key.channel = selected
  PROVE  /\ inFlight' = inFlight \cup {key}
         /\ inFlight' \subseteq Keys /\ calls' \in [Keys -> Nat] /\ OneCallEach'
         /\ LatePagesAreKnown'
<1>1. Typed /\ OneCallEach /\ LatePagesAreKnown
  BY DEF Inductive
<1>2. /\ inFlight' = inFlight \cup {key}
      /\ inFlight' \subseteq Keys /\ calls' \in [Keys -> Nat] /\ OneCallEach'
  BY <1>1, OnceKeeps
<1> QED
  BY <1>1, <1>2 DEF LatePagesAreKnown

(* An answer comes.                                                        *)
LEMMA AnswerKeeps ==
  ASSUME Inductive, NEW key \in Keys, Settle(key), UNCHANGED selected
  PROVE  /\ key \in inFlight /\ inFlight' = inFlight \ {key}
         /\ inFlight' \subseteq Keys /\ calls' \in [Keys -> Nat] /\ OneCallEach'
         /\ LatePagesAreKnown'
<1>1. Typed /\ OneCallEach /\ LatePagesAreKnown
  BY DEF Inductive
<1>2. /\ key \in inFlight /\ inFlight' = inFlight \ {key} /\ late' = late \ {key}
      /\ inFlight' \subseteq Keys /\ calls' \in [Keys -> Nat] /\ OneCallEach'
  BY <1>1, SettleKeeps
<1> QED
  BY <1>1, <1>2 DEF LatePagesAreKnown

-----------------------------------------------------------------------------
(* One lemma per step *)

(* The start: neither requests nor panes.                                  *)
LEMMA QuietInductive ==
  ASSUME Inductive, UNCHANGED <<callVars, selected, messages, search, thread>>
  PROVE  Inductive'
<1>1. UNCHANGED inFlight /\ UNCHANGED calls /\ UNCHANGED late
  BY DEF callVars
<1>2. Typed' /\ OneCallEach' /\ LatePagesAreKnown' /\ SpinnersWait'
  BY <1>1 DEF Inductive, Typed, OneCallEach, LatePagesAreKnown, SpinnersWait
<1> QED
  BY <1>2, SameMessages, SameSearch DEF Inductive, PanesAreConsistent

(* The opening result asks for the first screen; no pane changes.          *)
LEMMA OpeningResultInductive == ASSUME Inductive, OpeningResult PROVE Inductive'
<1>1. CASE UNCHANGED <<inFlight, calls>>
  BY <1>1, QuietInductive DEF OpeningResult, callVars
<1>2. CASE Once([is |-> "bootstrap"])
  <2> DEFINE key == [is |-> "bootstrap"]
  <2>1. key \in Keys /\ key.is # "page"
    BY KeysOfKinds
  <2>2. UNCHANGED <<late, selected>> /\ UNCHANGED <<messages, selected>> /\ UNCHANGED search /\ UNCHANGED thread
    BY DEF OpeningResult
  <2> HIDE DEF key
  <2>3. /\ inFlight' = inFlight \cup {key}
        /\ inFlight' \subseteq Keys /\ calls' \in [Keys -> Nat] /\ OneCallEach'
        /\ LatePagesAreKnown'
    BY <1>2, <2>1, <2>2, RequestKeeps DEF key
  <2>4. Typed'
    BY <2>2, <2>3 DEF Inductive, Typed
  <2>5. SpinnersWait'
    BY <2>2, <2>3 DEF Inductive, SpinnersWait
  <2> QED
    BY <2>2, <2>3, <2>4, <2>5, SameMessages, SameSearch DEF Inductive, PanesAreConsistent
<1> QED
  BY <1>1, <1>2 DEF OpeningResult

(* The answer to it opens the app; no pane changes.                        *)
LEMMA BootstrapArrivesInductive == ASSUME Inductive, BootstrapArrives PROVE Inductive'
<1> DEFINE key == [is |-> "bootstrap"]
<1>1. key \in Keys /\ key.is = "bootstrap"
  BY KeysOfKinds
<1>2. /\ Settle(key) /\ UNCHANGED selected /\ UNCHANGED <<messages, selected>> /\ UNCHANGED search
      /\ UNCHANGED thread
  BY DEF BootstrapArrives
<1> HIDE DEF key
<1>3. /\ inFlight' = inFlight \ {key}
      /\ inFlight' \subseteq Keys /\ calls' \in [Keys -> Nat] /\ OneCallEach'
      /\ LatePagesAreKnown'
  BY <1>1, <1>2, AnswerKeeps
<1>4. Typed'
  BY <1>2, <1>3 DEF Inductive, Typed
<1>5. SpinnersWait'
  BY <1>1, <1>2, <1>3, KindsDiffer DEF Inductive, SpinnersWait
<1> QED
  BY <1>2, <1>3, <1>4, <1>5, SameMessages, SameSearch DEF Inductive, PanesAreConsistent

(* A selection empties the list, makes late what was asked for before, and *)
(* asks for the first page.                                                *)
LEMMA SelectChannelInductive == ASSUME Inductive, NEW c \in Channels, SelectChannel(c) PROVE Inductive'
<1> DEFINE key == PageKey(c, 0)
<1>1. key \in Keys /\ key.is = "page" /\ key.channel = c
  BY Constants, KeysOfKinds DEF PageKey
<1>2. /\ Once(key) /\ selected' = c /\ late' = {k \in inFlight : k.is = "page" /\ k.channel # c}
      /\ messages' = [items |-> <<>>, cursor |-> None, loading |-> TRUE, stale |-> FALSE, error |-> FALSE]
      /\ UNCHANGED search /\ UNCHANGED thread
  BY DEF SelectChannel, NoMessages
<1>3. /\ messages'.items = <<>> /\ messages'.cursor = None
      /\ messages' \in [items: Seq(Shown), cursor: Cursors \cup {None},
                        loading: BOOLEAN, stale: BOOLEAN, error: BOOLEAN]
  BY <1>2
<1> HIDE DEF key
<1>4. /\ inFlight' = inFlight \cup {key}
      /\ inFlight' \subseteq Keys /\ calls' \in [Keys -> Nat] /\ OneCallEach'
  BY <1>1, <1>2, OnceKeeps DEF Inductive
<1>5. Typed'
  BY <1>2, <1>3, <1>4 DEF Inductive, Typed
<1>6. LatePagesAreKnown'
  BY <1>1, <1>2, <1>4 DEF LatePagesAreKnown
<1>7. SpinnersWait'
  BY <1>2, <1>4 DEF Inductive, SpinnersWait, key
<1>8. CursorFollowsItems' /\ MisplacedPagesAreLate'
  BY <1>3 DEF CursorFollowsItems, MisplacedPagesAreLate
<1> QED
  BY <1>2, <1>4, <1>5, <1>6, <1>7, <1>8, SameSearch DEF Inductive, PanesAreConsistent

(* More of the channel is asked for from where the list ends.              *)
LEMMA LoadMoreInductive == ASSUME Inductive, LoadMoreMessages PROVE Inductive'
<1> DEFINE key == PageKey(selected, messages.cursor)
<1>1. selected \in Channels /\ messages.cursor \in 0 .. Pages - 1
  BY Constants DEF Inductive, Typed, LoadMoreMessages
<1>2. key \in Keys /\ key.is = "page" /\ key.channel = selected
  BY <1>1, KeysOfKinds DEF PageKey
<1>3. /\ Once(key) /\ UNCHANGED <<late, selected>> /\ UNCHANGED <<messages, selected>> /\ UNCHANGED search
      /\ UNCHANGED thread
  BY DEF LoadMoreMessages
<1> HIDE DEF key
<1>4. /\ inFlight' = inFlight \cup {key}
      /\ inFlight' \subseteq Keys /\ calls' \in [Keys -> Nat] /\ OneCallEach'
      /\ LatePagesAreKnown'
  BY <1>2, <1>3, RequestKeeps
<1>5. Typed' /\ SpinnersWait'
  BY <1>3, <1>4 DEF Inductive, Typed, SpinnersWait
<1> QED
  BY <1>3, <1>4, <1>5, SameMessages, SameSearch DEF Inductive, PanesAreConsistent
(* The next page goes on where the shown ones end.                         *)
LEMMA ShownPages ==
  ASSUME NEW before \in Seq(Shown), NEW item \in Shown
  PROVE  /\ Append(before, item) \in Seq(Shown) /\ Append(before, item) # <<>>
         /\ Last(Append(before, item)) = item
         /\ \A i \in DOMAIN Append(before, item) :
              Append(before, item)[i] = item \/ \E j \in DOMAIN before : Append(before, item)[i] = before[j]
<1>1. /\ Append(before, item) \in Seq(Shown) /\ Append(before, item) # <<>>
      /\ Len(Append(before, item)) = Len(before) + 1
  BY AppendProperties
<1>2. Append(before, item)[Len(before) + 1] = item
  BY AppendProperties
<1>3. \A i \in 1 .. Len(before) : Append(before, item)[i] = before[i]
  BY AppendProperties
<1>4. DOMAIN before = 1 .. Len(before) /\ DOMAIN Append(before, item) = 1 .. Len(before) + 1 /\ Len(before) \in Nat
  BY <1>1, LenProperties
<1>5. Last(Append(before, item)) = item
  BY <1>1, <1>2 DEF Last
<1>6. \A i \in 1 .. Len(before) + 1 : i = Len(before) + 1 \/ i \in 1 .. Len(before)
  BY <1>4
<1> QED
  BY <1>1, <1>2, <1>3, <1>4, <1>5, <1>6, Zenon

(* A page of another channel than the one selected was asked for before    *)
(* the selection, so it is marked late; a first page ends the spinner that *)
(* waits for it.                                                           *)
LEMMA PageArrivesInductive == ASSUME Inductive, NEW key \in Keys, PageArrives(key) PROVE Inductive'
<1>1. /\ key.is = "page" /\ Settle(key) /\ UNCHANGED selected /\ UNCHANGED search /\ UNCHANGED thread
  BY DEF PageArrives
<1>2. key \in PageKeys
  BY <1>1, KeysOfKinds
<1>3. /\ key \in inFlight /\ inFlight' = inFlight \ {key}
      /\ inFlight' \subseteq Keys /\ calls' \in [Keys -> Nat] /\ OneCallEach'
      /\ LatePagesAreKnown'
  BY <1>1, AnswerKeeps
<1> DEFINE Messages == [items: Seq(Shown), cursor: Cursors \cup {None},
                        loading: BOOLEAN, stale: BOOLEAN, error: BOOLEAN]
<1>4. messages \in Messages
  BY DEF Inductive, Typed
<1>5. NextCursor(key) \in Cursors \cup {None}
  <2>1. key.from \in 0 .. Pages - 1
    BY <1>2 DEF PageKeys
  <2> QED
    BY <2>1, Constants DEF NextCursor, Cursors
<1>6. /\ messages' \in Messages /\ ~messages'.loading /\ CursorFollowsItems' /\ MisplacedPagesAreLate'
  <2>1. CASE messages' = [messages EXCEPT !.loading = FALSE, !.error = TRUE,
                !.stale = key.from # 0 \/ messages.items # <<>>]
    <3>1. messages' \in Messages /\ messages'.items = messages.items /\ messages'.cursor = messages.cursor
      BY <1>4, <2>1
    <3>2. ~messages'.loading
      BY <1>4, <2>1
    <3> QED
      BY <1>1, <3>1, <3>2 DEF Inductive, PanesAreConsistent, CursorFollowsItems, MisplacedPagesAreLate
  <2>2. CASE LET before == IF key.from = 0 THEN <<>> ELSE messages.items IN
             /\ Len(before) < MaxShown
             /\ messages' = [NoMessages EXCEPT
                   !.items = Append(before, [page |-> key, late |-> key \in late]),
                   !.cursor = NextCursor(key)]
    <3> DEFINE before == IF key.from = 0 THEN <<>> ELSE messages.items
               item == [page |-> key, late |-> key \in late]
               items == Append(before, item)
    <3>1. before \in Seq(Shown) /\ item \in Shown
      BY <1>2, <1>4 DEF Shown
    <3>2. item.page = key /\ (key \in late => item.late)
      OBVIOUS
    <3>3. messages' = [NoMessages EXCEPT !.items = items, !.cursor = NextCursor(key)]
      BY <2>2
    <3>4. /\ items \in Seq(Shown) /\ items # <<>> /\ Last(items) = item
          /\ \A i \in DOMAIN items : items[i] = item \/ \E j \in DOMAIN before : items[i] = before[j]
      BY <3>1, ShownPages
    <3> HIDE DEF items
    <3>5. /\ messages' \in Messages /\ messages'.items = items /\ messages'.cursor = NextCursor(key)
          /\ ~messages'.loading
      BY <1>5, <3>3, <3>4 DEF NoMessages
    <3>6. CursorFollowsItems'
      BY <3>2, <3>4, <3>5 DEF CursorFollowsItems
    <3>7. MisplacedPagesAreLate'
      <4>1. ASSUME NEW j \in DOMAIN before, before[j].page.channel # selected
            PROVE  before[j].late
        <5>1. before = messages.items
          BY <4>1
        <5> HIDE DEF before
        <5> QED
          BY <4>1, <5>1 DEF Inductive, PanesAreConsistent, MisplacedPagesAreLate
      <4>2. item.page.channel # selected => item.late
        BY <1>1, <1>3, <3>2 DEF Inductive, LatePagesAreKnown
      <4> HIDE DEF before, item
      <4>3. \A i \in DOMAIN items : items[i].page.channel # selected => items[i].late
        BY <3>4, <4>1, <4>2
      <4> QED
        BY <1>1, <3>5, <4>3 DEF MisplacedPagesAreLate
    <3> QED
      BY <3>5, <3>6, <3>7
  <2> QED
    BY <2>1, <2>2 DEF PageArrives
<1>7. Typed'
  BY <1>1, <1>3, <1>6 DEF Inductive, Typed
<1>8. SpinnersWait'
  BY <1>1, <1>3, <1>6, KindsDiffer DEF Inductive, SpinnersWait
<1> QED
  BY <1>1, <1>3, <1>6, <1>7, <1>8, SameSearch DEF Inductive, PanesAreConsistent

(* A search drops the results of the one before, and its spinner waits for *)
(* it.                                                                     *)
LEMMA RunSearchInductive == ASSUME Inductive, NEW q \in Queries, RunSearch(q) PROVE Inductive'
<1> DEFINE key == SearchKey(q)
<1>1. key \in Keys /\ key.is # "page"
  BY KeysOfKinds, KindsDiffer
<1>2. /\ Once(key) /\ UNCHANGED <<late, selected>> /\ UNCHANGED <<messages, selected>> /\ UNCHANGED thread
      /\ search' = [query |-> q, results |-> None, loading |-> TRUE, error |-> FALSE]
  BY DEF RunSearch
<1>3. /\ search'.query = q /\ search'.results = None
      /\ search' \in [query: Queries \cup {None}, results: Queries \cup {None},
                      loading: BOOLEAN, error: BOOLEAN]
  BY <1>2
<1> HIDE DEF key
<1>4. /\ inFlight' = inFlight \cup {key}
      /\ inFlight' \subseteq Keys /\ calls' \in [Keys -> Nat] /\ OneCallEach'
      /\ LatePagesAreKnown'
  BY <1>1, <1>2, RequestKeeps
<1>5. Typed'
  BY <1>2, <1>3, <1>4 DEF Inductive, Typed
<1>6. SpinnersWait'
  BY <1>2, <1>3, <1>4 DEF Inductive, SpinnersWait, key
<1>7. SearchShowsItsQuery'
  BY <1>3 DEF SearchShowsItsQuery
<1> QED
  BY <1>2, <1>4, <1>5, <1>6, <1>7, SameMessages DEF Inductive, PanesAreConsistent

(* A blank search waits for nothing.                                       *)
LEMMA RunBlankSearchInductive == ASSUME Inductive, RunBlankSearch PROVE Inductive'
<1>1. /\ UNCHANGED <<inFlight, calls, late, messages, selected, thread>> /\ UNCHANGED <<messages, selected>>
      /\ search' = [query |-> None, results |-> None, loading |-> FALSE, error |-> TRUE]
  BY DEF RunBlankSearch, callVars
<1>2. /\ search'.results = None
      /\ search' \in [query: Queries \cup {None}, results: Queries \cup {None},
                      loading: BOOLEAN, error: BOOLEAN]
  BY <1>1
<1>3. ~search'.loading
  BY <1>1
<1>4. Typed' /\ OneCallEach' /\ LatePagesAreKnown' /\ SpinnersWait'
  BY <1>1, <1>2, <1>3 DEF Inductive, Typed, OneCallEach, LatePagesAreKnown, SpinnersWait
<1>5. SearchShowsItsQuery'
  BY <1>2 DEF SearchShowsItsQuery
<1> QED
  BY <1>1, <1>4, <1>5, SameMessages DEF Inductive, PanesAreConsistent

(* Results are stored with the query they answer, which may not be the     *)
(* last one asked.                                                         *)
LEMMA SearchArrivesInductive == ASSUME Inductive, NEW key \in Keys, SearchArrives(key) PROVE Inductive'
<1>1. /\ key.is = "search" /\ Settle(key) /\ UNCHANGED selected /\ UNCHANGED <<messages, selected>>
      /\ UNCHANGED thread
  BY DEF SearchArrives
<1>2. key.query \in Queries
  BY <1>1, KeysOfKinds
<1>3. PICK ok \in BOOLEAN : search' = SearchAnswer(key, ok)
  BY DEF SearchArrives
<1>4. /\ search'.query = key.query /\ search'.results \in {key.query, None}
      /\ search' \in [query: Queries \cup {None}, results: Queries \cup {None},
                      loading: BOOLEAN, error: BOOLEAN]
  BY <1>2, <1>3 DEF SearchAnswer
<1>5. ~search'.loading
  BY <1>3 DEF SearchAnswer
<1>6. /\ inFlight' = inFlight \ {key}
      /\ inFlight' \subseteq Keys /\ calls' \in [Keys -> Nat] /\ OneCallEach'
      /\ LatePagesAreKnown'
  BY <1>1, AnswerKeeps
<1>7. Typed'
  BY <1>1, <1>4, <1>6 DEF Inductive, Typed
<1>8. SpinnersWait'
  BY <1>1, <1>5, <1>6, KindsDiffer DEF Inductive, SpinnersWait
<1>9. SearchShowsItsQuery'
  BY <1>4 DEF SearchShowsItsQuery
<1> QED
  BY <1>1, <1>6, <1>7, <1>8, <1>9, SameMessages DEF Inductive, PanesAreConsistent

(* A thread is asked for and its spinner waits.                            *)
LEMMA OpenThreadInductive == ASSUME Inductive, NEW r \in Roots, OpenThread(r) PROVE Inductive'
<1> DEFINE key == ThreadKey(r)
<1>1. key \in Keys /\ key.is # "page"
  BY KeysOfKinds, KindsDiffer
<1>2. /\ Once(key) /\ UNCHANGED <<late, selected>> /\ UNCHANGED <<messages, selected>> /\ UNCHANGED search
      /\ thread' = [shown |-> None, loading |-> TRUE, error |-> FALSE]
  BY DEF OpenThread
<1>3. thread' \in [shown: Roots \cup {None}, loading: BOOLEAN, error: BOOLEAN]
  BY <1>2
<1> HIDE DEF key
<1>4. /\ inFlight' = inFlight \cup {key}
      /\ inFlight' \subseteq Keys /\ calls' \in [Keys -> Nat] /\ OneCallEach'
      /\ LatePagesAreKnown'
  BY <1>1, <1>2, RequestKeeps
<1>5. Typed'
  BY <1>2, <1>3, <1>4 DEF Inductive, Typed
<1>6. SpinnersWait'
  BY <1>2, <1>4 DEF Inductive, SpinnersWait, key
<1> QED
  BY <1>2, <1>4, <1>5, <1>6, SameMessages, SameSearch DEF Inductive, PanesAreConsistent

(* A thread arrives, or fails to.                                          *)
LEMMA ThreadArrivesInductive == ASSUME Inductive, NEW key \in Keys, ThreadArrives(key) PROVE Inductive'
<1>1. /\ key.is = "thread" /\ Settle(key) /\ UNCHANGED selected /\ UNCHANGED <<messages, selected>>
      /\ UNCHANGED search
  BY DEF ThreadArrives
<1>2. key.root \in Roots
  BY <1>1, KeysOfKinds
<1>3. PICK ok \in BOOLEAN :
        thread' = [shown |-> IF ok THEN key.root ELSE None, loading |-> FALSE, error |-> ~ok]
  BY DEF ThreadArrives
<1>4. thread' \in [shown: Roots \cup {None}, loading: BOOLEAN, error: BOOLEAN]
  BY <1>2, <1>3
<1>5. ~thread'.loading
  BY <1>3
<1>6. /\ inFlight' = inFlight \ {key}
      /\ inFlight' \subseteq Keys /\ calls' \in [Keys -> Nat] /\ OneCallEach'
      /\ LatePagesAreKnown'
  BY <1>1, AnswerKeeps
<1>7. Typed'
  BY <1>1, <1>4, <1>6 DEF Inductive, Typed
<1>8. SpinnersWait'
  BY <1>1, <1>5, <1>6, KindsDiffer DEF Inductive, SpinnersWait
<1> QED
  BY <1>1, <1>6, <1>7, <1>8, SameMessages, SameSearch DEF Inductive, PanesAreConsistent

-----------------------------------------------------------------------------
(* The theorems *)

(* At the start nothing is asked for or shown.                             *)
LEMMA InitInductive == Init => Inductive
<1> SUFFICES ASSUME Init PROVE Inductive
  OBVIOUS
<1>1. messages = [items |-> <<>>, cursor |-> None, loading |-> FALSE, stale |-> FALSE, error |-> FALSE]
  BY DEF Init, NoMessages
<1>2. Typed
  BY <1>1 DEF Init, Typed
<1>3. OneCallEach /\ LatePagesAreKnown
  BY DEF Init, OneCallEach, LatePagesAreKnown
<1>4. ~messages.loading /\ ~search.loading /\ ~thread.loading
  BY <1>1 DEF Init
<1>5. messages.items = <<>> /\ messages.cursor = None /\ search.results = None
  BY <1>1 DEF Init
<1>6. PanesAreConsistent
  BY <1>5 DEF PanesAreConsistent, CursorFollowsItems, MisplacedPagesAreLate, SearchShowsItsQuery
<1> QED
  BY <1>2, <1>3, <1>4, <1>6 DEF Inductive, SpinnersWait

(* Every step keeps the invariant: one lemma for each above.               *)
LEMMA NextInductive == Inductive /\ [Next]_vars => Inductive'
<1> SUFFICES ASSUME Inductive, [Next]_vars PROVE Inductive'
  OBVIOUS
<1>1. CASE Push \/ Connect \/ Back
  BY <1>1, QuietInductive DEF Push, Connect, Back
<1>2. CASE OpeningResult \/ BootstrapArrives \/ LoadMoreMessages \/ RunBlankSearch
  BY <1>2, OpeningResultInductive, BootstrapArrivesInductive, LoadMoreInductive, RunBlankSearchInductive
<1>3. CASE \E c \in Channels : SelectChannel(c)
  BY <1>3, SelectChannelInductive
<1>4. CASE \E q \in Queries : RunSearch(q)
  BY <1>4, RunSearchInductive
<1>5. CASE \E r \in Roots : OpenThread(r)
  BY <1>5, OpenThreadInductive
<1>6. CASE \E key \in Keys : PageArrives(key) \/ SearchArrives(key) \/ ThreadArrives(key)
  BY <1>6, PageArrivesInductive, SearchArrivesInductive, ThreadArrivesInductive
<1>7. CASE UNCHANGED vars
  BY <1>7, QuietInductive DEF vars
<1> QED
  BY <1>1, <1>2, <1>3, <1>4, <1>5, <1>6, <1>7 DEF Next

(* The invariant behind the other theorems.                                *)
THEOREM FlowsAreSound == Spec => []Inductive
<1> QED
  BY InitInductive, NextInductive, PTL DEF Spec

(* Whatever is clicked while answers are out, a spinner is backed by one   *)
(* call whose answer ends it.                                              *)
THEOREM SpinnersEndWithTheirCalls == Spec => []SpinnersAreHonest
<1>1. Inductive => SpinnersAreHonest
  <2> SUFFICES ASSUME Inductive PROVE SpinnersAreHonest
    OBVIOUS
  <2>1. \A k \in inFlight : calls[k] = 1
    BY DEF Inductive, Typed, OneCallEach
  <2> QED
    BY <2>1 DEF Inductive, SpinnersWait, SpinnersAreHonest
<1> QED
  BY <1>1, FlowsAreSound, PTL

(* Messages go on where they end, pages of another channel are late ones,  *)
(* and results stand under their query.                                    *)
THEOREM PanesBelongTogether == Spec => []PanesAreConsistent
<1>1. Inductive => PanesAreConsistent
  BY DEF Inductive
<1> QED
  BY <1>1, FlowsAreSound, PTL
=============================================================================
