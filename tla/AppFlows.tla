------------------------------ MODULE AppFlows ------------------------------
(***************************************************************************)
(* The browsing half of the app: main.ts starting up over the bridge, and  *)
(* the controller of flows.ts over the store of state.ts.  The user may    *)
(* click on while answers are out; answers come in any order, and the      *)
(* controller stores each whatever is selected by then.  The wide layout   *)
(* is modelled, where everything can be clicked.                           *)
(***************************************************************************)
EXTENDS Naturals, SequencesExt

CONSTANTS
    Channels, Queries, Roots,
    Pages,       \* pages each channel has
    MaxShown,    \* bound: pages shown at once
    MaxCalls,    \* bound: calls in flight at once
    None

ASSUME AppAssumption == {Pages, MaxShown, MaxCalls} \subseteq Nat \ {0}

VARIABLES
    stage,      \* where start() of main.ts is
    initial,    \* the opening tool's result, once pushed (bridge.ts)
    phase,      \* ViewState.phase
    inFlight,   \* keys of the requests in flight
    calls,      \* server calls made for each key and not yet answered
    late,       \* keys asked for before the last selection of a channel
    pane, selected, messages, search, thread   \* ViewState

startVars == <<stage, initial>>
callVars == <<inFlight, calls, late>>
vars == <<startVars, phase, callVars, pane, selected, messages, search, thread>>

Cursors == 1 .. Pages - 1
PageKeys == [is: {"page"}, channel: Channels, from: 0 .. Pages - 1]
Keys == {[is |-> "bootstrap"]} \cup PageKeys \cup [is: {"search"}, query: Queries]
        \cup [is: {"thread"}, root: Roots]
PageKey(channel, from) == [is |-> "page", channel |-> channel, from |-> from]
SearchKey(query) == [is |-> "search", query |-> query]
ThreadKey(root) == [is |-> "thread", root |-> root]

\* A page shown, and whether its channel had been left when it arrived.
Shown == [page: PageKeys, late: BOOLEAN]
NextCursor(page) == IF page.from + 1 < Pages THEN page.from + 1 ELSE None

NoMessages == [items |-> <<>>, cursor |-> None, loading |-> FALSE, stale |-> FALSE, error |-> FALSE]

Init ==
    /\ stage = "connecting" /\ initial = None /\ phase = "connecting"
    /\ inFlight = {} /\ calls = [k \in Keys |-> 0] /\ late = {}
    /\ pane = "channels" /\ selected = None
    /\ messages = NoMessages
    /\ search = [query |-> None, results |-> None, loading |-> FALSE, error |-> FALSE]
    /\ thread = [shown |-> None, loading |-> FALSE, error |-> FALSE]

-----------------------------------------------------------------------------
(* Mutant: requests are told apart by their kind only.                     *)
OnceOfAKind(key) ==
    IF \E k \in inFlight : k.is = key.is THEN UNCHANGED <<inFlight, calls>>
    ELSE /\ inFlight' = inFlight \cup {key}
         /\ calls' = [calls EXCEPT ![key] = @ + 1]

(* An identical request in flight is not made again.                       *)
Once(key) ==
    IF key \in inFlight THEN UNCHANGED <<inFlight, calls>>
    ELSE /\ inFlight' = inFlight \cup {key}
         /\ calls' = [calls EXCEPT ![key] = @ + 1]

Room(key) == key \in inFlight \/ Cardinality(inFlight) < MaxCalls

(* The bridge never throws: every call comes back, as data or a failure.   *)
Settle(key) ==
    /\ calls[key] > 0
    /\ inFlight' = inFlight \ {key}
    /\ calls' = [calls EXCEPT ![key] = @ - 1]
    /\ late' = late \ {key}

-----------------------------------------------------------------------------
(* Mutant: a result pushed before anyone waits for it is lost.             *)
PushIfAwaited ==
    /\ initial = None
    /\ initial' \in IF stage = "opening" THEN {"data", "failure"} ELSE {"lost"}
    /\ UNCHANGED <<stage, phase, callVars, pane, selected, messages, search, thread>>

(* The host pushes the opening tool's result; only the first one counts.   *)
Push ==
    /\ initial = None
    /\ initial' \in {"data", "failure"}
    /\ UNCHANGED <<stage, phase, callVars, pane, selected, messages, search, thread>>

Connect ==
    /\ stage = "connecting"
    /\ \/ stage' = "opening" /\ UNCHANGED phase
       \/ stage' = "over" /\ phase' = "error"
    /\ UNCHANGED <<initial, callVars, pane, selected, messages, search, thread>>

OpeningResult ==
    /\ stage = "opening" /\ initial \in {"data", "failure"}
    /\ IF initial = "failure"
       THEN stage' = "over" /\ phase' = "error" /\ UNCHANGED <<inFlight, calls>>
       ELSE stage' = "bootstrapping" /\ Once([is |-> "bootstrap"]) /\ UNCHANGED phase
    /\ UNCHANGED <<initial, late, pane, selected, messages, search, thread>>

BootstrapArrives ==
    /\ Settle([is |-> "bootstrap"])
    /\ phase' \in {"ready", "error"}
    /\ stage' = "over"
    /\ UNCHANGED <<initial, pane, selected, messages, search, thread>>

-----------------------------------------------------------------------------
(* Mutant: the messages shown stay until the new ones arrive.              *)
SelectKeepingItems(channel) ==
    /\ phase = "ready" /\ Room(PageKey(channel, 0))
    /\ selected' = channel /\ pane' = "messages"
    /\ messages' = [messages EXCEPT !.loading = TRUE]
    /\ Once(PageKey(channel, 0))
    /\ late' = {k \in inFlight : k.is = "page" /\ k.channel # channel}
    /\ UNCHANGED <<startVars, phase, search, thread>>

SelectChannel(channel) ==
    /\ phase = "ready" /\ Room(PageKey(channel, 0))
    /\ selected' = channel /\ pane' = "messages"
    /\ messages' = [NoMessages EXCEPT !.loading = TRUE]
    /\ Once(PageKey(channel, 0))
    /\ late' = {k \in inFlight : k.is = "page" /\ k.channel # channel}
    /\ UNCHANGED <<startVars, phase, search, thread>>

LoadMoreMessages ==
    /\ phase = "ready" /\ selected # None /\ messages.cursor # None
    /\ Len(messages.items) < MaxShown /\ Room(PageKey(selected, messages.cursor))
    /\ Once(PageKey(selected, messages.cursor))
    /\ UNCHANGED <<startVars, phase, late, pane, selected, messages, search, thread>>

(* A page arrives and is shown: the first replaces what is there, a later  *)
(* one is appended, and either way the cursor is the answer's.  A failure  *)
(* keeps what is there.                                                    *)
PageArrives(key) ==
    /\ key.is = "page" /\ Settle(key)
    /\ \/ LET before == IF key.from = 0 THEN <<>> ELSE messages.items IN
          /\ Len(before) < MaxShown
          /\ messages' = [NoMessages EXCEPT
                !.items = Append(before, [page |-> key, late |-> key \in late]),
                !.cursor = NextCursor(key)]
       \/ messages' = [messages EXCEPT !.loading = FALSE, !.error = TRUE,
                !.stale = key.from # 0 \/ messages.items # <<>>]
    /\ UNCHANGED <<startVars, phase, pane, selected, search, thread>>

-----------------------------------------------------------------------------
RunSearch(query) ==
    /\ phase = "ready" /\ Room(SearchKey(query))
    /\ search' = [query |-> query, results |-> None, loading |-> TRUE, error |-> FALSE]
    /\ Once(SearchKey(query))
    /\ UNCHANGED <<startVars, phase, late, pane, selected, messages, thread>>

(* A blank query is refused without a call.                                *)
RunBlankSearch ==
    /\ phase = "ready"
    /\ search' = [query |-> None, results |-> None, loading |-> FALSE, error |-> TRUE]
    /\ UNCHANGED <<startVars, phase, callVars, pane, selected, messages, thread>>

(* The answer brings its own query along.                                  *)
SearchAnswer(key, ok) ==
    [query |-> key.query, results |-> IF ok THEN key.query ELSE None,
     loading |-> FALSE, error |-> ~ok]

SearchArrives(key) ==
    /\ key.is = "search" /\ Settle(key)
    /\ \E ok \in BOOLEAN : search' = SearchAnswer(key, ok)
    /\ UNCHANGED <<startVars, phase, pane, selected, messages, thread>>

OpenThread(root) ==
    /\ phase = "ready" /\ Room(ThreadKey(root))
    /\ pane' = "thread"
    /\ thread' = [shown |-> None, loading |-> TRUE, error |-> FALSE]
    /\ Once(ThreadKey(root))
    /\ UNCHANGED <<startVars, phase, late, selected, messages, search>>

ThreadArrives(key) ==
    /\ key.is = "thread" /\ Settle(key)
    /\ \E ok \in BOOLEAN :
        thread' = [shown |-> IF ok THEN key.root ELSE None, loading |-> FALSE, error |-> ~ok]
    /\ UNCHANGED <<startVars, phase, pane, selected, messages, search>>

Back ==
    /\ phase = "ready" /\ pane # "channels"
    /\ pane' = IF pane = "thread" THEN "messages" ELSE "channels"
    /\ UNCHANGED <<startVars, phase, callVars, selected, messages, search, thread>>

-----------------------------------------------------------------------------
Arrives(key) == BootstrapArrives \/ PageArrives(key) \/ SearchArrives(key) \/ ThreadArrives(key)

Next ==
    \/ Push \/ Connect \/ OpeningResult \/ BootstrapArrives
    \/ \E c \in Channels : SelectChannel(c)
    \/ LoadMoreMessages
    \/ \E q \in Queries : RunSearch(q)
    \/ RunBlankSearch
    \/ \E r \in Roots : OpenThread(r)
    \/ Back
    \/ \E key \in Keys : PageArrives(key) \/ SearchArrives(key) \/ ThreadArrives(key)

(* The host connects or refuses, pushes the opening result, and answers or *)
(* fails every call; nothing is assumed of the user.                       *)
Fairness ==
    /\ WF_vars(Connect) /\ WF_vars(Push) /\ WF_vars(OpeningResult)
    /\ \A key \in Keys : WF_vars(Arrives(key))

Spec == Init /\ [][Next]_vars /\ Fairness

-----------------------------------------------------------------------------
(* Properties *)

(* A spinner is backed by one call that will end it: the first page of the   *)
(* selected channel, the search for the query shown, a thread - also when  *)
(* the request was refused as a duplicate, and after late answers.         *)
SpinnersAreHonest ==
    /\ messages.loading => calls[PageKey(selected, 0)] = 1
    /\ search.loading => calls[SearchKey(search.query)] = 1
    /\ thread.loading => \E root \in Roots : calls[ThreadKey(root)] = 1

(* "Load more" goes on where the last page shown ends: messages and cursor *)
(* come from the same answer, however answers overtake each other.         *)
CursorFollowsItems ==
    messages.cursor =
        IF messages.items = <<>> THEN None ELSE NextCursor(Last(messages.items).page)

(* Messages of another channel are shown only if their page was asked for  *)
(* before the channel was selected and arrived after: selecting itself     *)
(* leaves nothing behind (selectChannel; the answers are not checked).     *)
MisplacedPagesAreLate ==
    \A i \in DOMAIN messages.items :
        messages.items[i].page.channel # selected => messages.items[i].late

(* Results are shown with the query they answer, also when the answers to  *)
(* two searches come in the other order.                                   *)
SearchShowsItsQuery == search.results # None => search.results = search.query

(* What a pane shows belongs together.                                     *)
PanesAreConsistent == CursorFollowsItems /\ MisplacedPagesAreLate /\ SearchShowsItsQuery

(* Every spinner ends, failures and duplicates included, and the app       *)
(* leaves its connecting screen, whether the opening result comes before   *)
(* start() waits for it or after (bridge.ts).                              *)
NothingHangs ==
    /\ messages.loading ~> ~messages.loading
    /\ search.loading ~> ~search.loading
    /\ thread.loading ~> ~thread.loading
    /\ phase = "connecting" ~> phase # "connecting"
=============================================================================
