------------------------------ MODULE Composer ------------------------------
(***************************************************************************)
(* The message composer of the MCP app (app/src/composer.ts): a draft, a   *)
(* preview held with its token outside the rendered state, and one tool    *)
(* call at a time through the bridge (app/src/bridge.ts).                  *)
(*                                                                         *)
(* requestPreview and confirm give up the page's event loop at             *)
(* bridge.callTool and only there; the inputs stay editable meanwhile.     *)
(* The server is the environment: it signs what it previews and accepts a  *)
(* confirmation only of what it signed, but no replay guard is assumed     *)
(* here, so that a second write with one token would be the app's doing.   *)
(***************************************************************************)
EXTENDS Naturals, Sequences, FiniteSets

CONSTANTS
  Channels, Texts,   \* what the user may have typed
  Blank,             \* the empty input, a member of both
  Roots,             \* thread roots a reply can be made to
  NoValue,           \* undefined
  MaxCalls           \* bound: tool calls made through the bridge

ASSUME ComposerAssumption ==
  /\ Blank \in Channels \cap Texts
  /\ NoValue \notin Roots
  /\ MaxCalls \in Nat

VARIABLES
  draft,            \* mode, channel, messageId and text of ComposerState
  busy,             \* ComposerState.busy
  held,             \* token, preview and snapshot: all set or all undefined
  needsNewPreview,  \* ComposerState.needsNewPreview
  error, receipt,   \* whether ComposerState shows one
  calls,            \* the tool calls made, each with what became of it (history)
  clicks,           \* what the user agreed to by clicking Confirm (history)
  written           \* what the server wrote on our confirmations (history)

vars == <<draft, busy, held, needsNewPreview, error, receipt, calls, clicks, written>>
shown == <<needsNewPreview, error, receipt>>

Drafts == [mode : {"message", "reply"}, channel : Channels, text : Texts,
           root : Roots \cup {NoValue}]

\* token and preview are those of the preview call they came from.
Holdings == [plan : 1..MaxCalls, snapshot : Drafts]

Init ==
  /\ draft = [mode |-> "message", channel |-> Blank, text |-> Blank, root |-> NoValue]
  /\ busy = FALSE
  /\ held = NoValue
  /\ needsNewPreview = FALSE /\ error = FALSE /\ receipt = FALSE
  /\ calls = <<>> /\ clicks = {} /\ written = <<>>

-----------------------------------------------------------------------------
(* Edits *)

\* Mutant: the message id outlives the reply mode it belongs to.
SetModeKeepingRoot(mode, root) ==
  /\ draft' = [draft EXCEPT !.mode = mode, !.root = IF mode = "reply" THEN root ELSE @]
  /\ held' = NoValue
  /\ needsNewPreview' = FALSE /\ error' = FALSE /\ receipt' = FALSE
  /\ UNCHANGED <<busy, calls, clicks, written>>

\* setMode: drops the preview and everything shown about earlier calls.
SetMode(mode, root) ==
  /\ draft' = [draft EXCEPT !.mode = mode, !.root = IF mode = "reply" THEN root ELSE NoValue]
  /\ held' = NoValue
  /\ needsNewPreview' = FALSE /\ error' = FALSE /\ receipt' = FALSE
  /\ UNCHANGED <<busy, calls, clicks, written>>

\* setChannel, setText: only a real change drops the preview.
Edit(field, value) ==
  /\ draft[field] # value
  /\ draft' = [draft EXCEPT ![field] = value]
  /\ held' = NoValue
  /\ UNCHANGED <<busy, shown, calls, clicks, written>>

-----------------------------------------------------------------------------
(* The bridge and the server behind it *)

\* bridge.callTool: the request leaves the page.
Call(kind, plan) ==
  /\ Len(calls) < MaxCalls
  /\ calls' = Append(calls, [kind |-> kind, args |-> draft, plan |-> plan,
                             server |-> "asked", open |-> TRUE])

Open(i, kind) == i \in 1..Len(calls) /\ calls[i].open /\ calls[i].kind = kind
Returned(i) == calls' = [calls EXCEPT ![i].open = FALSE]

\* The server answers a preview it can resolve, and writes on a confirmation of
\* exactly what the preview signed.
Acceptable(c) ==
  IF c.kind = "preview" THEN c.args.mode = "reply" => c.args.root # NoValue
  ELSE c.args = calls[c.plan].args

Serve(i) ==
  /\ i \in 1..Len(calls) /\ calls[i].server = "asked" /\ Acceptable(calls[i])
  /\ calls' = [calls EXCEPT ![i].server = "served"]
  /\ written' = IF calls[i].kind = "preview" THEN written
                ELSE Append(written, [token |-> calls[i].plan, request |-> calls[i].args])
  /\ UNCHANGED <<draft, busy, held, shown, clicks>>

\* Expired, restarted, replayed, not found: the server may refuse any call.
Refuse(i) ==
  /\ i \in 1..Len(calls) /\ calls[i].server = "asked"
  /\ calls' = [calls EXCEPT ![i].server = "refused"]
  /\ UNCHANGED <<draft, busy, held, shown, clicks, written>>

-----------------------------------------------------------------------------
(* requestPreview *)

Ready == draft.channel # Blank /\ draft.text # Blank

\* Mutants: a second call while one is out; the last receipt stays on screen.
RequestPreviewAnyTime ==
  /\ Ready /\ Call("preview", 0) /\ busy' = TRUE
  /\ error' = FALSE /\ receipt' = FALSE
  /\ UNCHANGED <<draft, held, needsNewPreview, clicks, written>>
RequestPreviewBelowReceipt ==
  /\ ~busy /\ Ready /\ Call("preview", 0) /\ busy' = TRUE
  /\ error' = FALSE
  /\ UNCHANGED <<draft, held, needsNewPreview, receipt, clicks, written>>

\* A preview that is held stays held while a new one is on its way.
RequestPreview ==
  /\ ~busy /\ Ready /\ Call("preview", 0) /\ busy' = TRUE
  /\ error' = FALSE /\ receipt' = FALSE
  /\ UNCHANGED <<draft, held, needsNewPreview, clicks, written>>

\* The snapshot is what was asked for, not what the inputs hold by now.
PreviewArrives(i) ==
  /\ Open(i, "preview") /\ calls[i].server = "served" /\ Returned(i)
  /\ held' = [plan |-> i, snapshot |-> calls[i].args]
  /\ busy' = FALSE /\ needsNewPreview' = FALSE
  /\ UNCHANGED <<draft, error, receipt, clicks, written>>

\* Mutant: the failure is shown and the composer stays busy.
PreviewFailsBusy(i) ==
  /\ Open(i, "preview") /\ Returned(i)
  /\ held' = NoValue /\ error' = TRUE
  /\ UNCHANGED <<draft, busy, needsNewPreview, receipt, clicks, written>>

\* An error answer, or no answer: the server may have served the call, or yet will.
PreviewFails(i) ==
  /\ Open(i, "preview") /\ Returned(i)
  /\ held' = NoValue /\ busy' = FALSE /\ error' = TRUE
  /\ UNCHANGED <<draft, needsNewPreview, receipt, clicks, written>>

-----------------------------------------------------------------------------
(* confirm *)

\* Mutant: any held token will do, whatever the inputs hold by now.
MatchesAny == held # NoValue

\* matchesSnapshot, and the token and preview it belongs to.
Matches == held # NoValue /\ held.snapshot = draft

Confirm ==
  /\ ~busy /\ Matches /\ Call("confirm", held.plan)
  /\ clicks' = clicks \cup {[token |-> held.plan, request |-> calls[held.plan].args]}
  /\ busy' = TRUE /\ error' = FALSE
  /\ UNCHANGED <<draft, held, needsNewPreview, receipt, written>>

ConfirmMismatch ==
  /\ ~busy /\ ~Matches
  /\ held' = NoValue /\ error' = TRUE
  /\ UNCHANGED <<draft, busy, needsNewPreview, receipt, calls, clicks, written>>

\* The text goes, also when it was edited after the click.
ConfirmSucceeds(i) ==
  /\ Open(i, "confirm") /\ calls[i].server = "served" /\ Returned(i)
  /\ held' = NoValue /\ busy' = FALSE /\ receipt' = TRUE
  /\ draft' = [draft EXCEPT !.text = Blank]
  /\ UNCHANGED <<needsNewPreview, error, clicks, written>>

\* Mutant: the preview survives a failed confirmation, for another try.
ConfirmFailsHolding(i) ==
  /\ Open(i, "confirm") /\ Returned(i)
  /\ busy' = FALSE /\ needsNewPreview' = TRUE /\ error' = TRUE
  /\ UNCHANGED <<draft, held, receipt, clicks, written>>

\* "Never auto-repeat a failed confirmed write": the token is gone with the answer.
ConfirmFails(i) ==
  /\ Open(i, "confirm") /\ Returned(i)
  /\ held' = NoValue /\ busy' = FALSE /\ needsNewPreview' = TRUE /\ error' = TRUE
  /\ UNCHANGED <<draft, receipt, clicks, written>>

-----------------------------------------------------------------------------

Answer(i) == PreviewArrives(i) \/ PreviewFails(i) \/ ConfirmSucceeds(i) \/ ConfirmFails(i)

Next ==
  \/ \E mode \in {"message", "reply"}, root \in Roots \cup {NoValue} : SetMode(mode, root)
  \/ \E channel \in Channels : Edit("channel", channel)
  \/ \E text \in Texts : Edit("text", text)
  \/ RequestPreview \/ Confirm \/ ConfirmMismatch
  \/ \E i \in 1..MaxCalls : Serve(i) \/ Refuse(i) \/ Answer(i)

Spec == Init /\ [][Next]_vars

\* The host ends every tool call: with the answer, an error or its own timeout.
Fairness == \A i \in 1..MaxCalls : WF_vars(Answer(i))
FairSpec == Spec /\ Fairness

-----------------------------------------------------------------------------
(* Types *)

\* Values of the right kind, a message id only in reply mode, and a preview that
\* really came from a preview the server signed (composer.ts:156-164).
TypeOK ==
  /\ draft \in Drafts /\ (draft.mode = "message" => draft.root = NoValue)
  /\ {busy, needsNewPreview, error, receipt} \subseteq BOOLEAN
  /\ held \in Holdings \cup {NoValue}
  /\ held # NoValue => /\ held.plan <= Len(calls)
                       /\ calls[held.plan].kind = "preview"
                       /\ calls[held.plan].server = "served"
  /\ \A i \in 1..Len(calls) :
       calls[i] \in [kind : {"preview", "confirm"}, args : Drafts, plan : 0..MaxCalls,
                     server : {"asked", "served", "refused"}, open : BOOLEAN]

-----------------------------------------------------------------------------
(* Safety *)

\* Every confirmation carries the very request its preview was made for, whatever
\* was typed between the click on Preview, the answer and the click on Confirm
\* (composer.ts:183-187: matchesSnapshot before the confirmed call).
ConfirmsMatchPlan ==
  \A i \in 1..Len(calls) :
    calls[i].kind = "confirm" => calls[i].args = calls[calls[i].plan].args

\* The busy flag is one call on its way, and the only one: no answer can arrive for
\* a composer that has moved on to another call (composer.ts:132-135, 180-182).
BusyIsOneCall ==
  Cardinality({i \in 1..Len(calls) : calls[i].open}) = IF busy THEN 1 ELSE 0

\* What is on screen after a call agrees with it: a receipt means that the last call
\* was a confirmation and that the server wrote; a demand for a new preview means
\* that no token is left to confirm with (composer.ts:212-235).
NoticesAreTrue ==
  /\ receipt => LET last == calls[Len(calls)]
                IN last.kind = "confirm" /\ last.server = "served"
  /\ needsNewPreview => held = NoValue /\ ~receipt

\* Whatever is lost, late or clicked again, the server is asked to write only what
\* the user saw and confirmed, and once per preview, even if it kept no record of
\* used tokens (composer.ts:6-7 "A failed confirmed write is never auto-repeated").
Promise == INSTANCE OneShotWrites WITH
  Approvals <- [token : 1..MaxCalls, request : Drafts],
  approved <- clicks, performed <- written
ConfirmsAreOneShot == Promise!Spec

-----------------------------------------------------------------------------
(* Liveness *)

\* A composer that waits becomes usable again: no way out of a call leaves the
\* buttons disabled (composer.ts:148-155, 212-235).
BusyEnds == busy ~> ~busy

=============================================================================
