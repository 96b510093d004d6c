# A TLA+ verification of the Pumble Python SDK

The repository holds an async client for the Pumble chat API with curated
facades (`src/pumble_keys/extensions`), an MCP server built on it
(`src/pumble_keys/mcp_server`), a webhook and Socket Mode receiver
(`src/pumble_keys/pumble_app`), a small TypeScript app shown by MCP hosts
(`app/src`) and a generated HTTP client below all of them. The modules in this
directory model the parts where order, failure and time decide whether the
program is right. TLC checks them on small instances; TLAPS proves every safety
property of them for every value of their constants.

All the Python code runs on one asyncio event loop. A coroutine is not
interrupted between two awaits, so in every model **an action is a run from one
await to the next**, and everything that may happen at an await - another task's
run, a cancellation, a failure, a lost answer - is an action of its own.

## Inventory

| Part | State | Operations | What is hard |
|---|---|---|---|
| Confirmed writes: `extensions/write_plan.py`, `mcp_server/tools/write.py` | `ReplayGuard._seen`, the signing secret | preview, confirm, validate, consume | two calls with one token, renames between preview and confirmation, restarts, lost answers |
| Process state: `mcp_server/lifespan.py` | `AppState` | `build_state`, `aclose` | what a restart keeps and what it forgets |
| Rate limiter: `extensions/rate_limit.py` | tokens, time of last refill, queue of futures, drain timer | `limit`, `_acquire`, `_try_drain`, `available` | barging, cancellation before and after a grant, early timers |
| Resolver cache: `extensions/resolver_cache.py` | one entry (task, load time) per kind | `list_*`, `refresh`, `clear` | loads in flight across a clear, failure and cancellation of shared tasks, staleness |
| Write facades: `writes.py`, `status.py`, `scheduled.py` | none of their own; `status.py` clears the cache | one attempt, one direct read | write applied but answer lost, read-proof fails |
| Reads: `search.py`, `pagination.py`, `threads.py`, `resolve.py`, `find.py`, `preflight.py` | cursor, seen ids | walks, resolution | cursors that do not advance, data that changes under the walk |
| Retries: `extensions/retries.py`, `errors.py`, `utils/retries.py` | attempt counter, start time | `with_retries`, `retry_with_backoff*` | retry of what was already applied, delays at their limits |
| Operations: `messages.py`, `channels.py`, `users.py`, `scheduled_messages.py`, `basesdk.py` | the HTTP client, open or closed | 26 operations, each one HTTP request and its retries | lost answers, requests served after the client gave up, responses that do not parse |
| Programs over them: facades, curated and raw tools, resources, completions, app tools, CLI commands | where each call is | lookup, question, write, direct read | which failure is returned, which raised, and what Pumble has done by then |
| Audit and telemetry: `telemetry.py`, `tools/raw_write.py` | log file, span | `traced`, `_audit` | cancellation between attempt and outcome, failing sink |
| Receivers: `pumble_app/*`, `mcp_server/subscriptions.py` | current socket, ping, handler lists, a subscriber's stream | `connect`, `disconnect`, `dispatch`, `publish_cues` | concurrent connects, redelivery, partial dispatch |
| App: `app/src/composer.ts`, `flows.ts` | draft, held preview and token, panes, requests in flight | edit, preview, confirm, select, load more, search | answers that arrive for something no longer on screen |

How they interact: an MCP tool resolves a channel name through the resolver
cache, checks a token against secret, clock and replay guard, then calls a
write facade, which makes one request through the generated client and one
direct read; the status facade clears the cache after its read. `with_retries` and
the limiter are helpers for callers of the SDK; nothing in the package combines them. The app calls the same tools
through the host. Pumble answers, rejects or loses a request on its own.

`PROJECT.json` lists every component with what is left out of it, and every
hazard at the line where it bites with the property that watches it.

## Modules and how they correspond to the code

| Module | Models | Composes or implements |
|---|---|---|
| `OneShotWrites` | what a confirmed write promises: only what is approved, once per approval | abstract |
| `ConfirmedWrites` | `tools/write.py`, `write_plan.py`, the state `lifespan.py` rebuilds at a start, `send_message` and `reply_to_thread` of `writes.py` | implements `OneShotWrites` |
| `TokenBucket` | what a rate limiter promises: burst plus rate, never more | abstract |
| `RateLimiter` | `extensions/rate_limit.py` | implements `TokenBucket` |
| `ResolverCache` | `extensions/resolver_cache.py` together with its one invalidating writer, `extensions/status.py` | |
| `Operations` | the 26 generated operations, as what a failure of each may lead to | |
| `GeneratedClient` | `basesdk.py` under `utils/retries.py`, and the network | over `Operations` |
| `Programs` | the facades, tools, resources, completions, app tools and commands, as sequences of operations | over `Operations` |
| `ToolCalls` | a call of any program: `_guard`, `_attempt`, `_verify`, `with_retries`, `traced`, the audit of raw writes | composes `GeneratedClient` and `Programs` |
| `Composer` | `app/src/composer.ts` over `callTool` of `app/src/bridge.ts` | implements `OneShotWrites` |
| `AppFlows` | `app/src/main.ts`, `flows.ts`, `state.ts` and the rest of `bridge.ts` | |
| `HistoryWalk` | `extensions/search.py`, `extensions/pagination.py` | |
| `SocketMode` | the connection in `pumble_app/socket_mode.py` | |
| `Receivers` | `webhooks.py`, `asgi.py`, `router.py`, `events.py`, `subscriptions.py`, `webhook_bridge.py`, and dispatch over a socket | composes `SocketMode` with the router and the cues |
| `*_proofs` | theorems and proofs about `ConfirmedWrites`, `RateLimiter`, `ResolverCache`, `Composer`, `AppFlows`, `HistoryWalk`, `ToolCalls` with `GeneratedClient` and `Programs`, `Receivers` with `SocketMode` | each extends its module |
| `MC*` | constants and symmetry of the runs | |

**ConfirmedWrites.** `now`, `boot`, `workspace`, `guard` are the clock, the running
process and its `AppState`; `directory` is Pumble's channel list and `listing` what
the cache has of it; `plans` are the previews handed out, with their tokens;
`call[c]` is a confirmed tool call with its program counter; `attempts` is every
write that reached the wire and what became of it. `Preview` is either preview tool.
A confirmed tool call is cut at its three awaits: `Confirm` (the listing arrives
and the name is resolved), then `Refuse` or `Send` - the whole of
`_verify_and_consume` up to the request, in one action, because nothing in it
awaits - then `SendSucceeds` / `SendFails` and `ReadBack` / `ReadBackFails`.
`Cancel` strikes at any await, `Settle` decides what Pumble did with a request
independently of the answer, `Restart` drops every call in flight and builds a new
`AppState`. A token is a free constructor over preview and secret, a hash the value
it hashes. `PossibleAsks` lets a caller mix a preview with any token, request and
name it could have been given.

**RateLimiter.** Time is counted in the units it earns: `Cost` units make a token,
a `Tick` earns `Rate`, so a bucket with a fractional burst stays in the integers.
`accrued` is the time since `_last_refill`. `TakeNow`, `Refuse` and `Enqueue` are
the three ways through `_acquire` up to its await, `Drain` is the timer callback
with the whole `_try_drain` and re-arming, `Proceed` is a granted task that runs.
Cancelling a waiter is two actions, as in asyncio: `CancelWaiting` cancels the
future at once, `Unwind` removes it from the queue when the task next runs, and
between them everything else may happen. `CancelGranted` is a cancellation that
arrives after the grant.

**ResolverCache.** A listing is the number of changes Pumble had seen when it
answered. `load` holds every loader task ever made, `entry` the one cached for each
kind. `LookupHit` / `LookupMiss` / `Refresh` run up to the await, `Ask` to `DieUnborn`
are the loader's steps - what a cancelled one does depends on whether it ever ran
(`Withdrawn`) - `Wake` and `WakeRefresh` resume the callers, `CancelAlone`
and `CancelRefresh` are cancellations with and without a shield. The status facade
(`SetStatus`, `Verify`, `VerifyFails`, `LoseStatus`) clears the users entry where
the code does.

**Operations, GeneratedClient.** The operations come from one template and an
operation is what still tells them apart: whether it writes, whether it brings a
retry configuration, the statuses that one covers, and whether a body that does
not parse is an error. `conn[c]` is the request of a call: on the wire, sleeping
between attempts, or returned. `Answer` and `Break` are the response and its
absence, `Serve` is Pumble carrying a request out, which neither of them implies:
a request given up on becomes a `stray` and may be served later (`ServeStray`).
`AfterFailure` is the body of `retry_with_backoff`, `Sleeps` is
`_get_sleep_interval`, whose delay by attempt is the table `Interval`. `sent` and `applied` count the write requests of a call.

**Programs, ToolCalls.** Every facade, tool and command is a straight line of
operations that may end early, so each is a sequence of steps, and a step says
what its failure does: raised (`Lookup`, `Bare`), returned (`Main`), passed over
(`Soft`), noted (`Proof`). `call[c]` walks through one; `Request` starts an
operation, `Take` resumes the coroutine with its result, `Cancel` strikes at any
await. `Raise`, `End` and `Verdict` are the ways out with their audit line; a line
that cannot be written is a nondeterministic choice of `Audit` and is counted, so that
the lines that are there stay comparable with what happened. `Again` and
`AfterBare` are `with_retries`.

**Composer.** `draft` holds the inputs, `held` token, preview and snapshot (all set or
all undefined, the card with them), `calls` the bridge calls with the server's
side of each. Inputs stay editable during an await, as in `render.ts`. `PreviewFails`
and `ConfirmFails` may strike whatever the server did, and `Serve` may come after
them: an answer that was lost, or a call served after the host gave up on it.

**AppFlows.** The store's fields are variables; a page is its request, so that
"messages" is a sequence of pages each marked with whether its channel had been left
when it arrived. `Once` is the map of requests in flight, shared by every flow.
An answer may come at any time, in any order, as data or as a failure.

**HistoryWalk.** A step of a walk is a request with everything done to its page, up
to the next request (`SearchPage`, `SearchOverlap`, `ListPage`), since the generator
awaits nothing else but its observer. Messages are numbers in order of posting,
each in a second. An honest page (`FirstOf`) holds as many of the messages wanted as it
takes, in order, and leaves none out that comes before one it holds. The server is chosen at the beginning: one that pages as Pumble
says, over a history that changes between requests, or one that answers anything.

**SocketMode, Receivers.** Of every socket ever made, `stage` and whether the
receiver still hears it; `socket` and `ping` are the fields of the receiver.
`Connect` and `Connected` are `connect()` before and after the URL is awaited. The
transport is injected, so a socket may still open after it erred or was let go of
(stage "aborting"); what is assumed of it is that it opens once and that its close is
the last it announces. `late` remembers the sockets that did so while the receiver
still heard them. A frame waits for its context (`Frame`, `ContextMade`), and only then does the
router take its handlers. A delivery is a task that runs its steps one after the other, each an await:
registered handlers, or one publication per cue. `StepFails` and `Cancelled` end
it, `Finished` is the 204, which Pumble may never see. `Cues` is `resource_cues`;
`Touched` is what the served resources really show, read off `resources.py`.

## Runs

Bounds are constants named in the modules (`MaxTime`, `MaxPlans`, `MaxBoots`,
`MaxLoads`, `MaxVersion`, `MaxCalls`, `MaxShown`, `MaxSockets`, `MaxConnects`,
`MaxChanges`, `MaxDeliveries`, `MaxDeletes`); every run finishes its whole state
space within them. Deadlock is checked except in `app_flows`, `history`, `lost_hit`
and `receivers`, where the system may come to rest (a finished walk, an app in its
error phase, a Pumble where nothing happens any more).

| Run | Question | Instance, and why it is enough |
|---|---|---|
| `confirmed_writes` | Who wins when calls race for tokens; are receipts true? | 3 calls, 2 previews, a guard for 1 token, 1 restart, ephemeral secret: the smallest in which a token can be evicted and come back (A, B, A). |
| `binding` | Is what is sent what was previewed, once? | 2 calls, 1 preview, 2 channels behind one name, message or reply, a clock that passes the expiry, a restart into another workspace, ephemeral secret. One token and a guard for one: the guard never has to forget it, which is what the refinement needs. |
| `rate_limiter` | Is nobody left behind, no token created, the rate kept? Does every waiter move on? | 3 tasks with 2 calls each, a queue of 2, a bucket of two and a third tokens, one and a half ticks to a token: queue full, several grants in one drain, barging, timers that fire before their token is whole, and cancellation before and after a grant all occur. |
| `lost_token` | "its token goes to the next caller"? | violated: cancelled between grant and next run. |
| `resolver` | How stale can a listing be; is a clear final; what do failure and cancellation of shared loads do to others; does every call end? | 2 callers, 1 status write, both kinds, 2 loads, a TTL of 0 in 1 tick: a load in flight across a clear or a refresh, a refresh and a lookup on one load, an entry that expires, and a replacement load while the old one runs. |
| `ended_loads` | "a failed load evicts itself"? | violated: cancelled before its first step. |
| `tool_calls` | Is a write carried out once, is its caller told the truth, is the audit right, does every call end? | All programs, one after the other; backoff of 1 and 2 ticks within 3, a Retry-After of 0 and one longer than the maximum, 3 attempts of `with_retries`. One slot is enough: calls share only the HTTP client, and it may be closed at any time. |
| `composer` | Does the app send only what was shown, once, and stay usable? | 4 bridge calls (two previews, two confirmations), inputs that can be edited away and back, a message and a reply as distinct requests. |
| `app_flows` | Do panes show what belongs together; does every spinner and the start end? | 2 channels of 3 pages, 2 queries, 1 thread, 2 calls in flight: answers that overtake each other, a channel left and re-selected, duplicates refused. |
| `history` | Is nothing yielded twice, nothing missed, no request idle? | Up to 5 messages in 3 seconds, pages of 2, 1 deletion, `max_results` given or not, a page cap of 5; an arbitrary server over 3 messages. Two pages meet inside a second, and an overlap repeats. |
| `lost_hit` | "Yield every search hit"? | violated: a page ends with one of several hits of a second. |
| `receivers` | Do acknowledgements mean that handlers ran; what is a subscriber missing; does anybody lose a socket? | 2 events of 5 kinds, 4 deliveries, 2 at a time, 1 or 2 handlers, a stream of 2 cues; 3 sockets, 2 `connect()` calls at once, transports with and without `remove_all_listeners`. |

The three violations are the findings in `PROJECT.json`, each with the sentence of
the code that says otherwise. All three are defects, in `rate_limit.py`,
`resolver_cache.py` and `search.py`.

`ReplayNeedsEviction` is what the code does guarantee about tokens when the secret is ephemeral, `OneShotWrites`
what it guarantees if in addition the guard never overflows. `SentAsPreviewed` needs neither, but both runs have an ephemeral
secret. That an old token does not write into a new workspace when the secret survives the change of
API key, where only the comparison of fingerprints is left to refuse it, rests on the theorem
`SendsOnlyPreviews` alone.

## Fairness

No safety property depends on it (TLC ignores it for invariants). The liveness properties:

- `WaitersMoveOn` (limiter): the clock and due timers run (`Tick`, `Drain`), and ready
  tasks run (`Proceed`, `Unwind`): the asyncio loop runs every ready callback in each
  iteration. Nothing obliges a task to call, return or be cancelled. The number of
  calls is bounded by `MaxCalls`: the code makes no promise against newcomers that
  barge for ever, and neither does the property.
- `CallsEnd` (cache): woken callers run, and each load step that is possible is
  taken in the end - the HTTP client has timeouts, so a request is answered or fails.
- `CallsEnd` (tool calls): ready coroutines run, time passes, due attempts are made, and
  a request ends in a response or a timeout. Nothing is assumed of the user: a
  call that waits for an answer to its question counts as ended.
- `BusyEnds` (composer): every bridge call returns. `callTool` turns every failure
  into a value (`bridge.ts:123-140`) and the host ends a tool call with its own timeout.
- `NothingHangs` (flows): the same, and the host connects or refuses and pushes
  the opening tool's result once.

## Proofs

TLAPS proves the following for every value of the constants that satisfies the
named assumptions of each module (`ConstantsAssumption` and `NoValueAssumption`,
`LimiterAssumption`, `CacheAssumption`, `ComposerAssumption`, `SocketAssumption` and
`ReceiverAssumption`, `BackoffAssumption` and `RetryAssumption`, `AppAssumption`,
`WalkAssumption`); the bounds on time, plans, boots, calls, loads, sockets, deliveries,
messages and deletions are arbitrary natural numbers there. Every invariant, every
action property and all three refinements of the passing runs are theorems.

*ConfirmedWrites.* `ReplayNeedsEviction` is not inductive: it speaks of the history,
and a step decides by looking at the guard. `Inductive` adds what ties them together:

- `GuardIsRecentPast`: the guard is the tail of the attempts, token by token, and unless it
  is full it holds all attempts of this start;
- `AttemptsAreDated` and `PlansAreSigned`: an attempt's secret is that of its start, and no
  attempt comes from the future, so a token of an earlier start cannot be accepted
  under an ephemeral secret and equal tokens lie in one start;
- `AsksAreHeld`: a call between its lookup and its check holds a preview and a token
  that were handed out - so the token that passes the check is a plan's;
- `CallsOwnAttempts`: a call and its attempt point at each other, which makes the receipts true.

`NextInductive` has one lemma per conjunct and under it one step per action. From
`InductiveInvariant` follow `TypeCorrect`, `SendsOnlyPreviews`, `ReplayDistance` and
`ReceiptsAreTrue`. `ImplementsOneShot` maps previews to approvals and
attempts to performed writes: `Send` is `Perform`, `Preview` is `Approve`, all else stutters;
its hypothesis (an ephemeral secret, and never more attempts than the guard holds)
turns the replay distance into uniqueness.

*RateLimiter.* `Inductive` is the conjunction of the run's invariants and
`FuturesFit`. The work is in `_try_drain`: `ReachedIsPrefix` and `DrainFacts`
show that it pops a prefix whose pending futures cost no more than the bucket holds, and
that, if anyone is left, the first one lacks less than a token - so the timer
armed then is due in time. `ImplementsBucket` maps the lazy bucket to
`TokenBucket` with `level <- Refilled`: a refill stutters, and a drain takes as many tokens as it
grants.

*ResolverCache.* What makes staleness hard is that a lookup may get its listing from
a load somebody else started, before or after a clear. `Inductive` says of each of
the four what it knows of Pumble's history:

- `Growing`: listings only grow, and no clear or status write is ahead of Pumble;
- `Loads`: a listing is at least what Pumble had when its load began, and a load that was
  cancelled belonged to a refresh that was;
- `Entries`: what is cached is of its kind, has not failed, and once it has its
  listing that is as new as what was last cleared. This is where a clear during a
  load matters: the entry is gone, so the old load cannot be joined again;
- `Calls`: the load a lookup waits for was at most a TTL old when the lookup began,
  and has or will have what the lookup is entitled to.

`Continued` collects what every step leaves standing of the past (a listing,
once there, stays), so that most lemmas speak only of what the step changes.
From the invariant follow `StalenessBounded`, `ClearsAreFinal` and
`CancellationIsContained`. `NewestLoadIsCached` has an invariant of its own on top of
it, `Cached`: with the history of what was cleared away (`swept`), which load is cached
can be told from the loads alone, so that an eviction of another's entry would show. The version a clear entitles
to is a maximum; that it exists is `Greatest`, by the well-foundedness of the naturals.

*Composer.* `Inductive` ties the held preview to the call that made it (`Holds`), each
confirmation to its preview and click (`Confirmed`), each write to a confirmation
that was served (`Accounted`), and says that only the last call can be under way
(`Orderly`). That a preview is confirmed once rests on `Holds`: as long as a
preview is held, the only confirmation of it is the one under way, and a
composer that is busy takes no click. In `ImplementsOneShot` a click on Confirm is
`Approve` and the `Serve` of a confirmation is `Perform`, whenever it comes; everything
else, lost answers included, stutters.

*Receivers.* `StraysAreAccountedFor` needs three facts besides the property: sockets are made in
order (`SocketsAreMade`), each `connect()` under way has room for its own (`RoomIsLeft`),
and two under way, or one beside a socket, have met (`ConnectsMeet`). For the
deliveries, `AcksAreEarned` compares counters that different tasks raise, so the
invariant counts the tasks between them: `RunsInOrder` says that a step was run
more often than a later one by at least the deliveries that stand between the
two, and `AcksArePaid` that it was run more often than the event was acknowledged by
at least the deliveries that are past it.

*Receivers, the subscriber.* `StaleOnlyByRootEdits` speaks of a Pumble at rest; the invariant
has to say where the cue is before that. `StaleIsPending`: what a subscriber has of a
resource is stale only while its cue is in the stream, or an event is owed that cues it
and of which no delivery has got past that cue. The second part is what makes the
acknowledgement safe: a delivery that reaches its end has published every cue of its
event (`CuesAreRun`), so the event it settles is the reason for nothing any more.

*ToolCalls.* That a write is sent once rests on the shape of the programs:
`ProgramsAreShaped` goes through all of `Programs` and shows that each has one write at
most, that only the direct read comes after it, and that neither the generated backoff
nor `with_retries` is ever around it. The invariant follows the write through a call:

- `Linked`: a call waits exactly for the operation of its step, and only a read sleeps;
- `Counted`: what Pumble carried out and what may still arrive late was sent, once;
- `InOrder`: before the step that writes nothing was sent, and a call gets past it only if
  the write was carried out. From these two come `WritesReachPumbleOnce` and, by
  `Truthful`, `OutcomesTellTheTruth`;
- `Logged` is what a raw write has in its log by now, line by line, with the number of lines
  that could not be written (`AuditIsTrue`);
- `Paced`: the attempts made are at most the ticks since the first plus one, since every
  delay is a tick at least (`NoHammering`).

*AppFlows.* `OneCallEach` says that what `Once` has in flight is one call of the server;
`SpinnersWait` names the request behind each spinner; `LatePagesAreKnown` says that a page
on its way to a channel that is not the selected one is marked late before it arrives,
from which follows what may be in a pane. The answers come in any order, which is why
a page of the selected channel may be late too (the channel left and selected again).

*HistoryWalk.* Two parts hold whatever the server answers: `Bounded` (nothing twice, never
more than asked for) and `Paid` (a walk that goes on has yielded a hit for every page, a
search in its overlaps one more). Two rest on the honest server. `ListsFollow`: a
walk over a channel has yielded what is behind its cursor and still there, and nothing
that is ahead. `SearchesDescend`, while nothing is deleted: a search whose cursor is at time t has met
every second from t on, and of what is before t it has, through its overlaps, only the
newest messages, fewer than a page of them. An overlap page holds the message it was asked about, so it
cannot be filled with earlier ones; and because what is known of the past is the
newest of it and no full page, a later page with nothing new on it means that nothing is
left, which is when `SearchPage` ends the walk.

Three more results about walks have no run of their own. `WalksEndByThemselves`: at most
2n + 1 requests over n messages, whatever the server answers, since hits are different
messages and every request but one is paid for by a hit. `CapsAreForRunaways`: so a page cap above
that is never reached. `WalksNeverGoBack`: the cursor of a search strictly goes down, over any
server, and that of a walk over a channel follows its strategy, over an honest one. (TLC finds the same
on the instance of `history`.)

*Only model-checked:* the liveness properties (`WaitersMoveOn`, `CallsEnd` of the cache and of
the tool calls, `BusyEnds`, `NothingHangs`) and everything that depends on fairness or
ENABLED, which TLAPS does not reach. No module uses recursion over data.

## Not modelled

Listed with reasons in `PROJECT.json`. In short: start-up wiring and validation of
the MCP server, OAuth requests and the token store (no await between two accesses), DOM
output, generated data classes, and text: redaction, formatting, parsing, the
matching of names (a resolution is one of found, nothing, several), prompts, knowledge.
The narrow layout of the app allows a subset of the clicks that are modelled.
`on_error` callbacks change neither a dispatch nor an answer and are left out.

## Observations

Read while modelling; no run reports them as violations. Where a sentence of the repository
says otherwise it is quoted, and so is the property that shows what does hold.

- *Tokens outlive a restart under a persistent secret.* `PUMBLE_CONFIRMATION_SECRET` makes
  the secret survive and the replay guard is empty again, so a token spent before the
  restart is accepted once more until it expires (against `write_plan.py:7` and
  `MCP-SAFETY.md:16-19`; the same holds between two instances that share the secret).
- *A status whose direct read fails stays cached.* `set_status` returns an ok receipt
  with `verification_failed` and leaves the users listing as it was (`status.py:9-11`).
- *An audit line may be missing.* A raw write that is cancelled at its await leaves an
  attempt and no outcome (`raw_write.py:78`) although Pumble may have carried it out, and a
  sink that cannot be written stops nothing (`telemetry.py:166`), both against "Every
  write attempt/outcome lands in the redacted audit sink" (`raw_write.py:5`). `AuditIsTrue` asks for
  neither; it shows that the lines that are there are right and that nothing else goes missing.
  `MCP-SAFETY.md:42` promises the attempts only. `traced()` records
  a cancelled operation as ok and ends its span twice.
- *Lookups raise.* The listing behind a name is fetched outside `_guard`
  (`client.py:241-281`), so a tool or a facade raises when that fails, contrary to
  `tools/read.py:6`. `OutcomesTellTheTruth` shows that nothing has been written then.
- *A client-wide `retry_config` would retry writes*: writes have no configuration
  of their own and take the client's. The facades and the server build a client without one.
- `with_retries(max_attempts=0)` raises `None`; nothing in the package calls
  `with_retries`, and no handler uses the limiter of `build_state` (`lifespan.py:76-81`).
- `_refresh_on_miss=False` makes a lookup use an entry of any age.
- `scheduled.create` compares `send_at` with the clock before it resolves the channel
  (`scheduled.py:93`): when the request leaves it may be past.
- *An interactive tool resolves the channel again* in the round that sends
  (`dependencies.py:38`); the user answered a question about a label.
- *Late pages.* A page that arrives after another channel was selected is shown under
  that channel, and re-selecting a channel whose first page is in flight empties the
  list (`flows.ts:4-6` promises stale data only for failed refetches).
  `MisplacedPagesAreLate` and `CursorFollowsItems` are what remains true.
- *Edits of a thread's root* cue the channel only, although the thread resource shows
  the root (`subscriptions.py:63-73`, `resources.py:250-268`): `StaleOnlyByRootEdits`
  shows that nothing else goes stale.
- *Overlapping `connect()` calls* leave a socket that nobody will close, which can take
  the ping with it, and a `disconnect()` during a `connect()` does nothing to it;
  `tests/unit/test_socket_mode.py:169` calls `connect` idempotent, which it is one call
  after the other.
- *A late open.* `on_open` does not ask whether its socket is still held
  (`socket_mode.py:160-166`). On a transport without `remove_all_listeners`, a socket that
  opens after `disconnect()` or an error starts a ping: `_cleanup` ignores a socket that
  is not held, so not even its close stops it, only a later connection does, and that
  may lose its own ping to it. `StraysHaveACause` shows that this and
  overlapping connects are the only ways to get there.
- *A failed webhook is not undone.* A handler or publication that fails ends the delivery with a 500,
  but the steps before it have run (`router.py:58-66`), where `WEBHOOKS.md:12-13` says that
  a failed request "publishes/dispatches nothing". That holds for what is refused before the dispatch;
  `AcksAreEarned` counts the steps of failed deliveries.

## What is left to prove

All safety properties of the runs are theorems. What would say more:

1. `ToolCalls` as an implementation of `OneShotWrites`, which would put the retry layer under
   the same promise as the confirmed writes and the composer. The order in which Pumble
   performed the writes of different calls is not in the state, so it takes a history
   variable or an abstract specification with a set of performed writes.
2. An abstract specification of what a cache with bounded staleness promises, and the
   `ResolverCache` as an implementation of it.
3. The connection of `SocketMode` without overlapping `connect()` calls as an implementation
   of a single socket that is open or not.

Liveness stays with TLC.
