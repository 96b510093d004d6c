--------------------------- MODULE ConfirmedWrites ---------------------------
(***************************************************************************)
(* Preview -> confirm -> one write -> direct read.                         *)
(*                                                                         *)
(* Models the curated write tools of the MCP server (mcp_server/tools/     *)
(* write.py), the signed write plans and the bounded ReplayGuard they rest *)
(* on (extensions/write_plan.py), the process state behind them (mcp_      *)
(* server/lifespan.py) and the write facade they end in (extensions/       *)
(* writes.py).  Pumble itself appears as the fate of every request that    *)
(* was put on the wire.                                                    *)
(*                                                                         *)
(* A confirmed call is a coroutine.  It gives up the event loop at three   *)
(* awaits - the channel listing, the write, the direct read - and whatever *)
(* lies between two awaits is one action.  The HMAC token is a free        *)
(* constructor over the signed preview and the secret; a hash is the value *)
(* it hashes.                                                              *)
(***************************************************************************)
EXTENDS Naturals, Sequences, FiniteSets

CONSTANTS
  Calls,        \* confirmed tool calls; each is made at most once
  Names,        \* what a caller types to name a channel
  Channels,     \* channel ids
  Roots,        \* thread roots; a request with root NoRoot is a plain message
  NoRoot,
  Texts,
  Workspaces,   \* workspace fingerprints (a hash of the API key)
  NoValue,      \* Python's None
  Ttl,          \* lifetime of a preview, DEFAULT_TTL_MS
  GuardSize,    \* confirmation_replay_size; 0 is "no guard"
  Persistent,   \* PUMBLE_CONFIRMATION_SECRET is set: restarts keep the secret
  MaxTime,      \* bound: the last clock value
  MaxPlans,     \* bound: previews handed out
  MaxBoots      \* bound: process starts

ASSUME ConstantsAssumption ==
  /\ Ttl \in Nat /\ GuardSize \in Nat /\ Persistent \in BOOLEAN
  /\ MaxTime \in Nat /\ MaxPlans \in Nat /\ MaxBoots \in Nat \ {0}
  /\ NoRoot \in Roots

VARIABLES
  now,        \* wall clock, shared by every process start
  boot,       \* which start of the server process is running
  workspace,  \* AppState.workspace_fingerprint of this start
  directory,  \* the workspace's own channel list: name -> id or NoValue
  listing,    \* what the resolver cache holds of it, or NoValue
  plans,      \* previews handed to callers, each with its token
  guard,      \* ReplayGuard._seen, oldest first
  call,       \* the confirmed calls
  attempts    \* every write put on the wire, with its fate (history)

vars == <<now, boot, workspace, directory, listing, plans, guard, call, attempts>>

-----------------------------------------------------------------------------
(* Requests, previews, tokens *)

Directories == [Names -> Channels \cup {NoValue}]

\* _send_request / _reply_request: the canonical request that is hashed.
Request(ch, root, text) == [channel |-> ch, root |-> root, text |-> text]
Requests == [channel : Channels, root : Roots, text : Texts]

Previews == [target : Channels, request : Requests, text : Texts,
             workspace : Workspaces, issued : Nat, expires : Nat]

\* build_state: an ephemeral secret is drawn anew by every process start.
Secret(b) == IF Persistent THEN 0 ELSE b

\* create_confirmation_token: equal tokens mean equal preview and equal secret.
Token(preview, secret) == [preview |-> preview, secret |-> secret]
Tokens == [preview : Previews, secret : Nat]

Plans == [preview : Previews, token : Tokens]

\* create_write_preview, as the two preview tools call it.
WritePreview(ch, root, text) ==
  [target |-> ch, request |-> Request(ch, root, text), text |-> text,
   workspace |-> workspace, issued |-> now, expires |-> now + Ttl]

\* ResolverCache.list_channels: the cached listing while there is one.
Listing == IF listing = NoValue THEN directory ELSE listing

-----------------------------------------------------------------------------
(* The confirmation check and the replay guard *)

Asks == [name : Names, root : Roots, text : Texts, preview : Previews, token : Tokens]

\* Mutant: the request hash is not compared, only the target and the text.
RefusalUnbound(ask, ch) ==
  CASE ch # ask.preview.target -> "target_mismatch"
    [] ask.token # Token(ask.preview, Secret(boot)) -> "invalid_token"
    [] now > ask.preview.expires -> "expired"
    [] workspace # ask.preview.workspace -> "workspace_mismatch"
    [] ask.text # ask.preview.text -> "text_mismatch"
    [] OTHER -> NoValue

\* The tool's target comparison followed by validate_confirmation, in the order
\* the code runs them; NoValue when every check passes.
Refusal(ask, ch) ==
  CASE ch # ask.preview.target -> "target_mismatch"
    [] ask.token # Token(ask.preview, Secret(boot)) -> "invalid_token"
    [] now > ask.preview.expires -> "expired"
    [] workspace # ask.preview.workspace -> "workspace_mismatch"
    [] Request(ch, ask.root, ask.text) # ask.preview.request -> "request_mismatch"
    [] ask.text # ask.preview.text -> "text_mismatch"
    [] OTHER -> NoValue

\* Mutants: a full guard grows on; it keeps the oldest tokens instead of the newest; it
\* is trimmed to fewer than max_entries.
RememberUnbounded(g, token) == IF GuardSize = 0 THEN g ELSE Append(g, token)
RememberOldest(g, token) == IF Len(g) < GuardSize THEN Append(g, token) ELSE g
RememberFewer(g, token) ==
  IF Len(g) + 1 < GuardSize THEN Append(g, token)
  ELSE IF GuardSize <= 1 THEN <<>> ELSE Tail(Append(g, token))

\* ReplayGuard.consume: membership, and the store after a first use - the oldest
\* entries fall out while there are more than max_entries.
Used(g, token) == \E i \in 1..Len(g) : g[i] = token

Remember(g, token) ==
  IF GuardSize = 0 THEN g
  ELSE IF Len(g) < GuardSize THEN Append(g, token)
       ELSE Tail(Append(g, token))

-----------------------------------------------------------------------------
(* The confirmed calls *)

Idle == [pc |-> "idle", ask |-> NoValue, channel |-> NoValue,
         attempt |-> 0, outcome |-> NoValue]

Refusals == {"target_mismatch", "invalid_token", "expired", "workspace_mismatch",
             "request_mismatch", "text_mismatch", "replayed"}
Outcomes == Refusals \cup
            {"not_resolved", "failed", "verified", "verification_failed", "gone"}

ASSUME NoValueAssumption == NoValue \notin Channels \cup Outcomes

\* A call ends; of its local variables only the result is left.
Return(c, outcome) ==
  call' = [call EXCEPT ![c] = [Idle EXCEPT !.pc = "done", !.outcome = outcome]]

Init ==
  /\ now = 0 /\ boot = 1
  /\ workspace \in Workspaces
  /\ directory \in [Names -> Channels]
  /\ listing = NoValue
  /\ plans = {}
  /\ guard = <<>>
  /\ call = [c \in Calls |-> Idle]
  /\ attempts = <<>>

Tick ==
  /\ now < MaxTime
  /\ now' = now + 1
  /\ UNCHANGED <<boot, workspace, directory, listing, plans, guard, call, attempts>>

\* Somebody renames, creates or archives a channel in Pumble.
Rename(n, ch) ==
  /\ directory[n] # ch
  /\ directory' = [directory EXCEPT ![n] = ch]
  /\ UNCHANGED <<now, boot, workspace, listing, plans, guard, call, attempts>>

\* The cached listing reaches its time to live, or is cleared.
ExpireListing ==
  /\ listing # NoValue
  /\ listing' = NoValue
  /\ UNCHANGED <<now, boot, workspace, directory, plans, guard, call, attempts>>

\* send_message_preview / reply_to_thread_preview.  The only await is the listing;
\* that the plan may bind an id the name has since lost is kept by the cache.
Preview(n, root, text) ==
  /\ Cardinality(plans) < MaxPlans
  /\ Listing[n] # NoValue
  /\ listing' = Listing
  /\ LET p == WritePreview(Listing[n], root, text)
     IN  plans' = plans \cup {[preview |-> p, token |-> Token(p, Secret(boot))]}
  /\ UNCHANGED <<now, boot, workspace, directory, guard, call, attempts>>

\* A caller invokes a *_confirmed tool with a preview and a token it was given, not
\* necessarily of the same plan nor for the same request.  The call reads the listing
\* and resumes later (Refuse, Send), whatever has happened to the channel since.
Confirm(c, ask) ==
  /\ call[c].pc = "idle"
  /\ listing' = Listing
  /\ IF Listing[ask.name] = NoValue
     THEN Return(c, "not_resolved")
     ELSE call' = [call EXCEPT ![c].pc = "resolved", ![c].ask = ask,
                               ![c].channel = Listing[ask.name]]
  /\ UNCHANGED <<now, boot, workspace, directory, plans, guard, attempts>>

\* The listing cannot be loaded: the tool returns the failure.
ListingFails(c) ==
  /\ call[c].pc = "idle"
  /\ listing = NoValue
  /\ Return(c, "not_resolved")
  /\ UNCHANGED <<now, boot, workspace, directory, listing, plans, guard, attempts>>

\* The tool after the listing: compare targets, validate, and if anything is wrong
\* return the structured refusal.
Refuse(c) ==
  /\ call[c].pc = "resolved"
  /\ LET reason == Refusal(call[c].ask, call[c].channel) IN
     IF reason # NoValue
     THEN Return(c, reason)
     ELSE Used(guard, call[c].ask.token) /\ Return(c, "replayed")
  /\ UNCHANGED <<now, boot, workspace, directory, listing, plans, guard, attempts>>

\* ... otherwise consume the token and start the one write of the facade.
Send(c) ==
  /\ call[c].pc = "resolved"
  /\ Refusal(call[c].ask, call[c].channel) = NoValue
  /\ ~Used(guard, call[c].ask.token)
  /\ guard' = Remember(guard, call[c].ask.token)
  /\ attempts' = Append(attempts,
       [call |-> c, token |-> call[c].ask.token, workspace |-> workspace,
        request |-> Request(call[c].channel, call[c].ask.root, call[c].ask.text),
        at |-> now, boot |-> boot, fate |-> "wire", read |-> FALSE])
  /\ call' = [call EXCEPT ![c] = [Idle EXCEPT !.pc = "sending",
                                             !.attempt = Len(attempts) + 1]]
  /\ UNCHANGED <<now, boot, workspace, directory, listing, plans>>

\* The generated call returned the new message.
SendSucceeds(c) ==
  /\ call[c].pc = "sending"
  /\ attempts[call[c].attempt].fate \in {"stored", "deleted"}
  /\ call' = [call EXCEPT ![c].pc = "verifying"]
  /\ UNCHANGED <<now, boot, workspace, directory, listing, plans, guard, attempts>>

\* _attempt: rejected, timed out or the answer was lost.  No second attempt.
SendFails(c) ==
  /\ call[c].pc = "sending"
  /\ Return(c, "failed")
  /\ UNCHANGED <<now, boot, workspace, directory, listing, plans, guard, attempts>>

\* _verify: the direct read finds the message ...
ReadBack(c) ==
  /\ call[c].pc = "verifying"
  /\ attempts[call[c].attempt].fate = "stored"
  /\ attempts' = [attempts EXCEPT ![call[c].attempt].read = TRUE]
  /\ Return(c, "verified")
  /\ UNCHANGED <<now, boot, workspace, directory, listing, plans, guard>>

\* Mutant: a failed read is reported as a verified write.
ReadBackIgnored(c) ==
  /\ call[c].pc = "verifying"
  /\ Return(c, "verified")
  /\ UNCHANGED <<now, boot, workspace, directory, listing, plans, guard, attempts>>

\* ... or raises, and the receipt says so.
ReadBackFails(c) ==
  /\ call[c].pc = "verifying"
  /\ Return(c, "verification_failed")
  /\ UNCHANGED <<now, boot, workspace, directory, listing, plans, guard, attempts>>

\* The request is cancelled at one of its awaits; CancelledError propagates.
Cancel(c) ==
  /\ call[c].pc \in {"resolved", "sending", "verifying"}
  /\ Return(c, "gone")
  /\ UNCHANGED <<now, boot, workspace, directory, listing, plans, guard, attempts>>

-----------------------------------------------------------------------------
(* Pumble, and the process *)

\* What becomes of a request is settled without the caller: it is stored or
\* rejected, and a stored message may be deleted by its author or an admin.
Settle(i, fate) ==
  /\ <<attempts[i].fate, fate>> \in
       {<<"wire", "stored">>, <<"wire", "rejected">>, <<"stored", "deleted">>}
  /\ attempts' = [attempts EXCEPT ![i].fate = fate]
  /\ UNCHANGED <<now, boot, workspace, directory, listing, plans, guard, call>>

\* The server stops and starts again: build_state makes a new guard and cache and,
\* unless it is configured, a new secret.  Calls in progress are gone; what they
\* put on the wire is not.
Restart(w) ==
  /\ boot < MaxBoots
  /\ boot' = boot + 1
  /\ workspace' = w
  /\ listing' = NoValue
  /\ guard' = <<>>
  /\ call' = [c \in Calls |->
       IF call[c].pc \in {"idle", "done"} THEN call[c]
       ELSE [Idle EXCEPT !.pc = "done", !.outcome = "gone"]]
  /\ UNCHANGED <<now, directory, plans, attempts>>

\* What a caller can ask: any request, with a preview and a token it holds.
PossibleAsks ==
  {[name |-> n, root |-> r, text |-> t, preview |-> p.preview, token |-> q.token] :
     n \in Names, r \in Roots, t \in Texts, p \in plans, q \in plans}

Step(c) ==
  \/ \E ask \in PossibleAsks : Confirm(c, ask)
  \/ ListingFails(c)
  \/ Refuse(c) \/ Send(c)
  \/ SendSucceeds(c) \/ SendFails(c)
  \/ ReadBack(c) \/ ReadBackFails(c)
  \/ Cancel(c)

Next ==
  \/ Tick
  \/ \E n \in Names, ch \in Channels \cup {NoValue} : Rename(n, ch)
  \/ ExpireListing
  \/ \E n \in Names, r \in Roots, t \in Texts : Preview(n, r, t)
  \/ \E c \in Calls : Step(c)
  \/ \E i \in 1..Len(attempts), f \in {"stored", "rejected", "deleted"} : Settle(i, f)
  \/ \E w \in Workspaces : Restart(w)

Spec == Init /\ [][Next]_vars

-----------------------------------------------------------------------------
(* Properties *)

Attempts == [call : Calls, token : Tokens, workspace : Workspaces,
             request : Requests, at : Nat, boot : Nat,
             fate : {"wire", "stored", "rejected", "deleted"}, read : BOOLEAN]

CallStates == [pc : {"idle", "resolved", "sending", "verifying", "done"},
               ask : Asks \cup {NoValue}, channel : Channels \cup {NoValue},
               attempt : Nat, outcome : Outcomes \cup {NoValue}]

\* The type invariant of the module.
TypeOK ==
  /\ now \in Nat /\ boot \in Nat /\ workspace \in Workspaces
  /\ directory \in Directories
  /\ listing \in Directories \cup {NoValue}
  /\ plans \subseteq Plans
  /\ guard \in Seq(Tokens) /\ Len(guard) <= GuardSize
  /\ call \in [Calls -> CallStates]
  /\ attempts \in Seq(Attempts)

\* What is sent is what a preview showed: every attempt carries the token of a plan
\* this configuration issued, for exactly the request, in the workspace and within the
\* lifetime the plan names - however the channel was renamed, the listing went stale
\* or the process restarted between the preview and the confirmation.
SentAsPreviewed ==
  \A i \in 1..Len(attempts) : \E p \in plans :
    LET a == attempts[i] IN
    /\ a.token = p.token
    /\ a.token.secret = Secret(a.boot)
    /\ a.request = p.preview.request
    /\ a.workspace = p.preview.workspace
    /\ p.preview.issued <= a.at /\ a.at <= p.preview.expires

\* How far "one attempt per token" really goes: with an ephemeral secret a token is
\* accepted again only after the guard forgot it, that is after GuardSize other
\* attempts.  Restarts and concurrent calls with one token never shorten that.
ReplayNeedsEviction ==
  ~Persistent =>
    \A i, j \in 1..Len(attempts) :
      (i < j /\ attempts[i].token = attempts[j].token) => j - i > GuardSize

\* A call makes at most one attempt, and its result tells the truth about it: a
\* refused call sent nothing, a receipt means Pumble stored the message, a verified
\* receipt means the direct read returned it.
ReceiptTellsTheTruth ==
  /\ \A i, j \in 1..Len(attempts) : attempts[i].call = attempts[j].call => i = j
  /\ \A c \in Calls :
       LET mine == {i \in 1..Len(attempts) : attempts[i].call = c} IN
       /\ call[c].outcome \in Refusals \cup {"not_resolved"} => mine = {}
       /\ call[c].outcome \in {"verified", "verification_failed"} =>
            \E i \in mine : attempts[i].fate \in {"stored", "deleted"}
       /\ call[c].outcome = "verified" => \E i \in mine : attempts[i].read

-----------------------------------------------------------------------------
(* Why they hold: the conjuncts of the inductive invariant *)

\* A plan's token signs its own preview, and the preview describes one request.
PlansAreSigned ==
  \A p \in plans :
    /\ p.token.preview = p.preview
    /\ p.preview.request.channel = p.preview.target
    /\ p.preview.issued <= now

\* A call that waits for its turn holds a preview and a token that were handed out.
AsksAreHeld ==
  \A c \in Calls : call[c].pc = "resolved" =>
    /\ call[c].channel \in Channels
    /\ call[c].ask \in Asks
    /\ \E p \in plans : call[c].ask.preview = p.preview
    /\ \E p \in plans : call[c].ask.token = p.token

\* An attempt was made by this or an earlier start, with that start's secret.
AttemptsAreDated ==
  \A i \in 1..Len(attempts) :
    /\ attempts[i].boot <= boot
    /\ attempts[i].token.secret = Secret(attempts[i].boot)

\* The guard is the tail of the history: the last attempts of this start, and all of
\* them unless it is full.
GuardIsRecentPast ==
  /\ Len(guard) <= Len(attempts)
  /\ \A k \in 1..Len(guard) :
       guard[k] = attempts[Len(attempts) - Len(guard) + k].token
  /\ Len(guard) < GuardSize =>
       \A i \in 1..(Len(attempts) - Len(guard)) : attempts[i].boot # boot

\* A call and its attempt point at each other, and what the call knows is so.
CallsOwnAttempts ==
  /\ \A i \in 1..Len(attempts) :
       call[attempts[i].call].pc \in {"sending", "verifying", "done"}
  /\ \A c \in Calls : call[c].pc \in {"sending", "verifying"} =>
       /\ call[c].attempt \in 1..Len(attempts)
       /\ attempts[call[c].attempt].call = c
       /\ call[c].pc = "verifying" =>
            attempts[call[c].attempt].fate \in {"stored", "deleted"}
       /\ call[c].outcome = NoValue

\* The inductive invariant: the properties above and what they rest on.
Inductive ==
  /\ TypeOK
  /\ PlansAreSigned /\ AsksAreHeld /\ AttemptsAreDated
  /\ GuardIsRecentPast /\ CallsOwnAttempts
  /\ SentAsPreviewed /\ ReplayNeedsEviction /\ ReceiptTellsTheTruth

-----------------------------------------------------------------------------
(* The promise: one-shot writes *)

\* An attempt and a plan seen as an approval.
Act(a) == [token |-> a.token, request |-> a.request, workspace |-> a.workspace]
Approval(p) == [token |-> p.token, request |-> p.preview.request,
                workspace |-> p.preview.workspace]

Promise == INSTANCE OneShotWrites WITH
  Approvals <- [token : Tokens, request : Requests, workspace : Workspaces],
  approved  <- {Approval(p) : p \in plans},
  performed <- [i \in 1..Len(attempts) |-> Act(attempts[i])]

\* With an ephemeral secret and a guard that never has to forget, the confirmed tools
\* implement one-shot writes: each attempt spends a plan nobody spent before, for the
\* request and in the workspace that plan approved.
WritesAreOneShot == Promise!Spec

=============================================================================
