--------------------------- MODULE Composer_proofs ---------------------------
(***************************************************************************)
(* Proofs about the composer of the MCP app, for any inputs and any number *)
(* of tool calls: what is held, shown and confirmed agrees with the calls, *)
(* and every write was confirmed as previewed, once.                       *)
(***************************************************************************)
EXTENDS Composer, FiniteSetTheorems, TLAPS

CallRecords == [kind : {"preview", "confirm"}, args : Drafts, plan : 0..MaxCalls,
                server : {"asked", "served", "refused"}, open : BOOLEAN]

\* A preview the server signed and whose answer has been dealt with.
Signed(p) ==
  /\ p \in 1..Len(calls) /\ calls[p].kind = "preview"
  /\ calls[p].server = "served" /\ ~calls[p].open

Confirms == {j \in 1..Len(calls) : calls[j].kind = "confirm"}

Shape ==
  /\ calls \in Seq(CallRecords) /\ Len(calls) <= MaxCalls
  /\ draft \in Drafts /\ (draft.mode = "message" => draft.root = NoValue)
  /\ busy \in BOOLEAN /\ needsNewPreview \in BOOLEAN /\ error \in BOOLEAN /\ receipt \in BOOLEAN
  /\ held \in Holdings \cup {NoValue}
  /\ clicks \subseteq [token : 1..MaxCalls, request : Drafts]
  /\ written \in Seq([token : 1..MaxCalls, request : Drafts])

\* Only the last call can be under way, and it is while the composer is busy.
Orderly ==
  /\ \A i \in 1..Len(calls) : calls[i].open => i = Len(calls) /\ busy
  /\ busy => Len(calls) > 0 /\ calls[Len(calls)].open

\* What is held was signed as it is shown, and not confirmed but by the call
\* under way.
Holds ==
  held # NoValue =>
    /\ Signed(held.plan) /\ held.snapshot = calls[held.plan].args
    /\ \A j \in Confirms : calls[j].plan = held.plan => calls[j].open

\* Every confirmation is the only one of a signed preview, as it was clicked.
Confirmed ==
  /\ \A j \in Confirms :
       /\ Signed(calls[j].plan) /\ calls[j].args = calls[calls[j].plan].args
       /\ [token |-> calls[j].plan, request |-> calls[j].args] \in clicks
  /\ \A i, j \in Confirms : calls[i].plan = calls[j].plan => i = j

\* What was written stands for a confirmation the server served.
Accounted ==
  \A k \in 1..Len(written) :
    \E j \in Confirms : calls[j].server = "served" /\ calls[j].plan = written[k].token

Noted ==
  /\ receipt => /\ held = NoValue /\ ~busy /\ Len(calls) \in Confirms
                /\ calls[Len(calls)].server = "served"
  /\ needsNewPreview => held = NoValue /\ ~receipt
  /\ \A j \in Confirms : calls[j].open => ~needsNewPreview

Inductive == Shape /\ Orderly /\ Holds /\ Confirmed /\ Accounted /\ Noted

-----------------------------------------------------------------------------
(* What becomes of the calls *)

\* The bound on bridge calls is a number.
LEMMA Numbers == MaxCalls \in Nat
  BY ComposerAssumption

\* A new call is the last one, and leaves the others as they are.
LEMMA Called ==
  ASSUME Shape, NEW kind \in {"preview", "confirm"}, NEW plan \in 0..MaxCalls, Call(kind, plan)
  PROVE  /\ calls' \in Seq(CallRecords) /\ Len(calls') = Len(calls) + 1 /\ Len(calls') <= MaxCalls
         /\ Len(calls) \in Nat
         /\ \A j \in 1..Len(calls) : calls'[j] = calls[j]
         /\ calls'[Len(calls) + 1] = [kind |-> kind, args |-> draft, plan |-> plan,
                                      server |-> "asked", open |-> TRUE]
<1> DEFINE new == [kind |-> kind, args |-> draft, plan |-> plan, server |-> "asked", open |-> TRUE]
<1>1. new \in CallRecords
  BY DEF Shape, CallRecords
<1>2. calls' = Append(calls, new) /\ Len(calls) < MaxCalls
  BY DEF Call
<1>3. calls \in Seq(CallRecords)
  BY DEF Shape
<1> HIDE DEF new
<1>4. /\ calls' \in Seq(CallRecords) /\ Len(calls') = Len(calls) + 1 /\ Len(calls) \in Nat
      /\ \A j \in 1..Len(calls) : calls'[j] = calls[j]
      /\ calls'[Len(calls) + 1] = new
  BY <1>1, <1>2, <1>3
<1> QED
  BY <1>2, <1>4, Numbers DEF new

\* The server, or an answer, changes one field of one call.
LEMMA Moved ==
  ASSUME Shape, NEW i \in 1..Len(calls), NEW server \in {"asked", "served", "refused"},
         NEW open \in BOOLEAN,
         calls' = [calls EXCEPT ![i] = [@ EXCEPT !.server = server, !.open = open]]
  PROVE  /\ calls' \in Seq(CallRecords) /\ Len(calls') = Len(calls)
         /\ \A j \in 1..Len(calls) : j # i => calls'[j] = calls[j]
         /\ calls'[i].server = server /\ calls'[i].open = open
         /\ \A j \in 1..Len(calls) : /\ calls'[j].kind = calls[j].kind
                                     /\ calls'[j].args = calls[j].args
                                     /\ calls'[j].plan = calls[j].plan
<1>1. calls \in Seq(CallRecords) /\ calls[i] \in CallRecords
  BY DEF Shape
<1> DEFINE new == [calls[i] EXCEPT !.server = server, !.open = open]
<1>2. /\ new \in CallRecords /\ new.server = server /\ new.open = open
      /\ new.kind = calls[i].kind /\ new.args = calls[i].args /\ new.plan = calls[i].plan
  BY <1>1 DEF CallRecords
<1> HIDE DEF new
<1>3. calls' = [calls EXCEPT ![i] = new]
  BY DEF new
<1>4. /\ calls' \in Seq(CallRecords) /\ Len(calls') = Len(calls)
      /\ calls'[i] = new /\ \A j \in 1..Len(calls) : j # i => calls'[j] = calls[j]
  <2>1. new \in CallRecords /\ calls \in Seq(CallRecords)
    BY <1>1, <1>2
  <2> HIDE DEF CallRecords
  <2>2. calls \in [1..Len(calls) -> CallRecords] /\ Len(calls) \in Nat
    BY <2>1
  <2>3. /\ calls' \in [1..Len(calls) -> CallRecords]
        /\ calls'[i] = new /\ \A j \in 1..Len(calls) : j # i => calls'[j] = calls[j]
    BY <1>3, <2>1, <2>2
  <2>4. calls' \in Seq(CallRecords)
    BY <2>2, <2>3
  <2>5. Len(calls') = Len(calls)
    BY <2>2, <2>3, <2>4
  <2> QED
    BY <2>3, <2>4, <2>5
<1> QED
  BY <1>2, <1>4

\* No step takes anything back from a call.
Continued ==
  /\ calls' \in Seq(CallRecords) /\ Len(calls') \in Len(calls)..MaxCalls
  /\ \A j \in 1..Len(calls) :
       /\ calls'[j].kind = calls[j].kind /\ calls'[j].args = calls[j].args
       /\ calls'[j].plan = calls[j].plan
       /\ calls[j].server = "served" => calls'[j].server = "served"
       /\ calls'[j].open => calls[j].open

\* What a step leaves of the past: calls, confirmations, signed previews.
LEMMA Standing ==
  ASSUME Inductive, Continued
  PROVE  /\ Len(calls) \in Nat /\ Len(calls') \in Nat /\ 1..Len(calls) \subseteq 1..Len(calls')
         /\ Confirms \subseteq Confirms'
         /\ \A p : Signed(p) => /\ p \in 1..Len(calls') /\ calls'[p].kind = "preview"
                               /\ calls'[p].server = "served" /\ ~calls'[p].open
                               /\ calls'[p].args = calls[p].args
<1>1. Len(calls) \in Nat /\ Len(calls') \in Nat /\ Len(calls) <= Len(calls')
  BY Numbers DEF Inductive, Shape, Continued
<1>2. 1..Len(calls) \subseteq 1..Len(calls')
  BY <1>1
<1>3. Confirms \subseteq Confirms'
  BY <1>2 DEF Confirms, Continued
<1>4. \A p : Signed(p) => /\ p \in 1..Len(calls') /\ calls'[p].kind = "preview"
                         /\ calls'[p].server = "served" /\ ~calls'[p].open
                         /\ calls'[p].args = calls[p].args
  BY <1>2 DEF Signed, Continued
<1> QED
  BY <1>1, <1>2, <1>3, <1>4

\* Without a new confirmation, those there are stay in order.
LEMMA ConfirmedStays ==
  ASSUME Inductive, Continued, Confirms' \subseteq Confirms, clicks \subseteq clicks'
  PROVE  Confirmed'
<1>1. ASSUME NEW j \in Confirms', NEW p, p = calls'[j].plan
      PROVE  /\ p \in 1..Len(calls') /\ calls'[p].kind = "preview"
             /\ calls'[p].server = "served" /\ ~calls'[p].open
             /\ calls'[j].args = calls'[p].args
             /\ [token |-> p, request |-> calls'[j].args] \in clicks'
  <2>1. j \in Confirms /\ j \in 1..Len(calls)
    BY DEF Confirms
  <2>2. calls[j].plan = p /\ calls'[j].args = calls[j].args
    BY <1>1, <2>1 DEF Continued
  <2>3. /\ Signed(p) /\ calls[j].args = calls[p].args
        /\ [token |-> p, request |-> calls[j].args] \in clicks
    BY <2>1, <2>2 DEF Inductive, Confirmed
  <2> QED
    BY <2>2, <2>3, Standing
<1>2. ASSUME NEW i \in Confirms', NEW j \in Confirms', calls'[i].plan = calls'[j].plan
      PROVE  i = j
  BY <1>2 DEF Confirms, Continued, Inductive, Confirmed
<1> QED
  BY <1>1, <1>2 DEF Confirmed, Signed

\* Writes stay accounted for when nothing is written.
LEMMA AccountedStays ==
  ASSUME Inductive, Continued, written' = written
  PROVE  Accounted'
<1> SUFFICES ASSUME NEW k \in 1..Len(written)
             PROVE  \E j \in Confirms' : /\ calls'[j].server = "served"
                                          /\ calls'[j].plan = written[k].token
  BY DEF Accounted
<1>1. PICK j \in Confirms : calls[j].server = "served" /\ calls[j].plan = written[k].token
  BY DEF Inductive, Accounted
<1>2. j \in 1..Len(calls) /\ j \in Confirms'
  BY Standing DEF Confirms
<1> QED
  BY <1>1, <1>2 DEF Continued

-----------------------------------------------------------------------------
(* One lemma per kind of step *)

\* The app starts with an empty composer.
LEMMA InitInductive == Init => Inductive
<1> SUFFICES ASSUME Init PROVE Inductive
  OBVIOUS
<1>1. calls = <<>> /\ Len(calls) = 0 /\ held = NoValue
  BY DEF Init
<1>2. Shape
  <2>1. draft \in Drafts
    BY ComposerAssumption DEF Init, Drafts
  <2>2. <<>> \in Seq(CallRecords) /\ <<>> \in Seq([token : 1..MaxCalls, request : Drafts])
    OBVIOUS
  <2>3. calls \in Seq(CallRecords) /\ written \in Seq([token : 1..MaxCalls, request : Drafts])
    BY <2>2 DEF Init
  <2>4. Len(calls) <= MaxCalls
    BY <1>1, Numbers
  <2>5. draft.mode = "message" => draft.root = NoValue
    BY DEF Init
  <2> QED
    BY <1>1, <2>1, <2>3, <2>4, <2>5 DEF Init, Shape
<1>3. Orderly /\ Holds /\ Confirmed /\ Accounted /\ Noted
  BY <1>1 DEF Init, Orderly, Holds, Confirmed, Confirms, Accounted, Noted
<1> QED
  BY <1>2, <1>3 DEF Inductive

\* The calls are left alone, and what is held stays or goes.
LEMMA CallsKept ==
  ASSUME Inductive, UNCHANGED <<calls, busy, clicks, written>>, held' = held \/ held' = NoValue
  PROVE  Orderly' /\ Holds' /\ Confirmed' /\ Accounted'
  BY DEF Inductive, Orderly, Holds, Confirmed, Confirms, Accounted, Signed

\* Edits only touch the draft and can only drop what is held.
LEMMA EditsKeep ==
  ASSUME Inductive,
         \/ \E mode \in {"message", "reply"}, root \in Roots \cup {NoValue} : SetMode(mode, root)
         \/ \E channel \in Channels : Edit("channel", channel)
         \/ \E text \in Texts : Edit("text", text)
         \/ ConfirmMismatch
         \/ UNCHANGED vars
  PROVE  Inductive'
<1>1. /\ UNCHANGED <<calls, busy, clicks, written>> /\ (held' = held \/ held' = NoValue)
      /\ UNCHANGED <<needsNewPreview, receipt>> \/ (~needsNewPreview' /\ ~receipt')
      /\ needsNewPreview' \in BOOLEAN /\ receipt' \in BOOLEAN /\ error' \in BOOLEAN
  BY DEF SetMode, Edit, ConfirmMismatch, vars, shown, Inductive, Shape
<1>2. draft' \in Drafts /\ (draft'.mode = "message" => draft'.root = NoValue)
  BY DEF SetMode, Edit, ConfirmMismatch, vars, Inductive, Shape, Drafts
<1>3. Shape'
  BY <1>1, <1>2 DEF Inductive, Shape
<1>4. Noted'
  BY <1>1 DEF Inductive, Noted, Confirms
<1> QED
  BY <1>1, <1>3, <1>4, CallsKept DEF Inductive

\* The server writes for a confirmation it serves for the first time.
LEMMA ServerKeeps ==
  ASSUME Inductive, NEW i \in 1..MaxCalls, Serve(i) \/ Refuse(i)
  PROVE  Inductive'
<1> DEFINE verdict == IF Serve(i) THEN "served" ELSE "refused"
<1>1. /\ i \in 1..Len(calls) /\ calls[i].server = "asked" /\ calls \in Seq(CallRecords)
      /\ calls[i] \in CallRecords /\ Shape /\ Len(calls) <= MaxCalls
      /\ UNCHANGED <<draft, busy, held, needsNewPreview, error, receipt, clicks>>
  BY DEF Serve, Refuse, shown, Inductive, Shape
<1>2. PICK server \in {"served", "refused"} : calls' = [calls EXCEPT ![i].server = server]
  BY DEF Serve, Refuse
<1>3. calls' = [calls EXCEPT ![i] = [@ EXCEPT !.server = server, !.open = calls[i].open]]
  BY <1>1, <1>2 DEF CallRecords
<1>4. calls[i].open \in BOOLEAN
  BY <1>1 DEF CallRecords
<1>5. /\ calls' \in Seq(CallRecords) /\ Len(calls') = Len(calls)
      /\ \A j \in 1..Len(calls) : j # i => calls'[j] = calls[j]
      /\ calls'[i].server = server /\ calls'[i].open = calls[i].open
      /\ \A j \in 1..Len(calls) : /\ calls'[j].kind = calls[j].kind
                                  /\ calls'[j].args = calls[j].args
                                  /\ calls'[j].plan = calls[j].plan
  BY <1>1, <1>3, <1>4, Moved
<1>6. \A j \in 1..Len(calls) : calls'[j].open = calls[j].open
  BY <1>5
<1>7. Continued
  BY <1>1, <1>5, <1>6, Numbers DEF Continued
<1>8. Confirms' = Confirms
  BY <1>5 DEF Confirms
<1>9. Shape' /\ Accounted'
  <2>1. CASE written' = written
    BY <1>1, <1>5, <1>7, <2>1, AccountedStays DEF Shape
  <2>2. CASE written' # written
    <3> DEFINE token == calls[i].plan
               new == [token |-> token, request |-> calls[i].args]
    <3>1. Serve(i) /\ calls[i].kind # "preview" /\ written' = Append(written, new)
      BY <2>2 DEF Serve, Refuse
    <3>2. i \in Confirms /\ server = "served"
      BY <1>1, <1>2, <1>5, <3>1 DEF Confirms, CallRecords, Serve
    <3>3. Signed(token)
      BY <3>2 DEF Inductive, Confirmed
    <3>4. new \in [token : 1..MaxCalls, request : Drafts]
      <4>1. token \in 1..MaxCalls
        BY <1>1, <3>3, Numbers DEF Signed
      <4> QED
        BY <1>1, <4>1 DEF CallRecords
    <3>5. written \in Seq([token : 1..MaxCalls, request : Drafts])
      BY DEF Inductive, Shape
    <3> HIDE DEF new
    <3>6. /\ written' \in Seq([token : 1..MaxCalls, request : Drafts])
          /\ Len(written') = Len(written) + 1 /\ Len(written) \in Nat
          /\ \A k \in 1..Len(written) : written'[k] = written[k]
          /\ written'[Len(written) + 1] = new
      BY <3>1, <3>4, <3>5
    <3>7. Shape'
      BY <1>1, <1>5, <3>6 DEF Shape
    <3>8. ASSUME NEW k \in 1..Len(written')
          PROVE  \E j \in Confirms' : /\ calls'[j].server = "served"
                                       /\ calls'[j].plan = written'[k].token
      <4>1. CASE k \in 1..Len(written)
        <5>1. PICK j \in Confirms : calls[j].server = "served" /\ calls[j].plan = written[k].token
          BY <4>1 DEF Inductive, Accounted
        <5> QED
          BY <1>5, <1>7, <1>8, <3>6, <4>1, <5>1 DEF Continued, Confirms
      <4>2. CASE k \notin 1..Len(written)
        <5>1. written'[k] = new
          BY <3>6, <4>2
        <5>2. written'[k].token = calls[i].plan
          BY <5>1 DEF new
        <5>3. calls'[i].server = "served" /\ calls'[i].plan = calls[i].plan /\ i \in Confirms'
          BY <1>5, <1>8, <3>2 DEF Confirms
        <5> QED
          BY <5>2, <5>3
      <4> QED
        BY <4>1, <4>2
    <3> QED
      BY <3>7, <3>8 DEF Accounted
  <2> QED
    BY <2>1, <2>2
<1>10. Orderly'
  BY <1>1, <1>5, <1>6 DEF Inductive, Orderly
<1>11. Holds'
  <2> SUFFICES ASSUME held # NoValue
               PROVE  /\ Signed(held.plan)' /\ held.snapshot = calls'[held.plan].args
                      /\ \A j \in Confirms : calls'[j].plan = held.plan => calls'[j].open
    BY <1>1, <1>8 DEF Holds
  <2>1. Signed(held.plan)' /\ held.snapshot = calls'[held.plan].args
    BY <1>1, <1>7, Standing DEF Signed, Inductive, Holds
  <2>2. \A j \in Confirms : calls'[j].plan = held.plan => calls'[j].open
    BY <1>5, <1>6 DEF Inductive, Holds, Confirms
  <2> QED
    BY <2>1, <2>2
<1>12. Confirmed'
  BY <1>1, <1>7, <1>8, ConfirmedStays
<1>13. Noted'
  BY <1>1, <1>5, <1>6, <1>7, <1>8 DEF Inductive, Noted, Confirms, Continued
<1> QED
  BY <1>9, <1>10, <1>11, <1>12, <1>13 DEF Inductive

\* An answer is that of the last call, and no call is under way after it.
LEMMA Answered ==
  ASSUME Inductive, NEW i \in 1..MaxCalls, NEW kind \in {"preview", "confirm"},
         Open(i, kind), Returned(i)
  PROVE  /\ i = Len(calls) /\ busy /\ calls[i].kind = kind /\ Continued
         /\ Len(calls') = Len(calls) /\ Confirms' = Confirms
         /\ \A j \in 1..Len(calls) : ~calls'[j].open /\ calls'[j].server = calls[j].server
<1>1. /\ i \in 1..Len(calls) /\ calls[i].open /\ calls[i].kind = kind /\ Shape
      /\ calls \in Seq(CallRecords) /\ calls[i] \in CallRecords /\ Len(calls) <= MaxCalls
  BY DEF Open, Inductive, Shape
<1>2. i = Len(calls) /\ busy /\ \A j \in 1..Len(calls) : j # i => ~calls[j].open
  BY <1>1 DEF Inductive, Orderly
<1>3. calls' = [calls EXCEPT ![i] = [@ EXCEPT !.server = calls[i].server, !.open = FALSE]]
  BY <1>1 DEF Returned, CallRecords
<1>4. calls[i].server \in {"asked", "served", "refused"}
  BY <1>1 DEF CallRecords
<1>5. /\ calls' \in Seq(CallRecords) /\ Len(calls') = Len(calls)
      /\ \A j \in 1..Len(calls) : j # i => calls'[j] = calls[j]
      /\ calls'[i].server = calls[i].server /\ calls'[i].open = FALSE
      /\ \A j \in 1..Len(calls) : /\ calls'[j].kind = calls[j].kind
                                  /\ calls'[j].args = calls[j].args
                                  /\ calls'[j].plan = calls[j].plan
  BY <1>1, <1>3, <1>4, Moved
<1>6. \A j \in 1..Len(calls) : ~calls'[j].open /\ calls'[j].server = calls[j].server
  BY <1>2, <1>5
<1>7. Continued
  BY <1>1, <1>5, <1>6, Numbers DEF Continued
<1>8. Confirms' = Confirms
  BY <1>5 DEF Confirms
<1> QED
  BY <1>1, <1>2, <1>5, <1>6, <1>7, <1>8

\* A preview that arrives is held; any other answer leaves nothing to confirm.
LEMMA AnswersKeep ==
  ASSUME Inductive, NEW i \in 1..MaxCalls, Answer(i)
  PROVE  Inductive'
<1>1. PICK kind \in {"preview", "confirm"} :
        /\ Open(i, kind)
        /\ kind = "preview" => PreviewArrives(i) \/ PreviewFails(i)
        /\ kind = "confirm" => ConfirmSucceeds(i) \/ ConfirmFails(i)
  BY DEF Answer, PreviewArrives, PreviewFails, ConfirmSucceeds, ConfirmFails
<1>2. /\ Returned(i) /\ UNCHANGED <<clicks, written>> /\ busy' = FALSE
      /\ held' = NoValue \/ (PreviewArrives(i) /\ held' = [plan |-> i, snapshot |-> calls[i].args])
  BY DEF Answer, PreviewArrives, PreviewFails, ConfirmSucceeds, ConfirmFails
<1>3. /\ i = Len(calls) /\ busy /\ calls[i].kind = kind /\ Continued
      /\ Len(calls') = Len(calls) /\ Confirms' = Confirms
      /\ \A j \in 1..Len(calls) : ~calls'[j].open /\ calls'[j].server = calls[j].server
  BY <1>1, <1>2, Answered
<1>4. i \in 1..Len(calls) /\ calls[i] \in CallRecords /\ Shape /\ ~receipt
  BY <1>1, <1>3 DEF Open, Inductive, Shape, Noted
<1>5. Shape'
  <2>1. draft' \in Drafts /\ (draft'.mode = "message" => draft'.root = NoValue)
    BY <1>4, ComposerAssumption
    DEF Answer, PreviewArrives, PreviewFails, ConfirmSucceeds, ConfirmFails, Shape, Drafts
  <2>2. held' \in Holdings \cup {NoValue}
    BY <1>2, <1>4 DEF Holdings, CallRecords
  <2>3. needsNewPreview' \in BOOLEAN /\ error' \in BOOLEAN /\ receipt' \in BOOLEAN
    BY <1>4 DEF Answer, PreviewArrives, PreviewFails, ConfirmSucceeds, ConfirmFails, Shape
  <2>4. calls' \in Seq(CallRecords) /\ Len(calls') <= MaxCalls
    BY <1>3, <1>4 DEF Continued, Shape
  <2> QED
    BY <1>2, <1>4, <2>1, <2>2, <2>3, <2>4 DEF Shape
<1>6. Orderly'
  BY <1>2, <1>3 DEF Orderly
<1>7. Holds'
  <2>1. CASE held' = NoValue
    BY <2>1 DEF Holds
  <2>2. CASE PreviewArrives(i) /\ held' = [plan |-> i, snapshot |-> calls[i].args]
    <3>1. calls[i].server = "served" /\ calls[i].kind = "preview"
      BY <2>2 DEF PreviewArrives, Open
    <3>2. /\ calls'[i].kind = "preview" /\ calls'[i].args = calls[i].args
          /\ calls'[i].server = "served" /\ ~calls'[i].open /\ i \in 1..Len(calls')
      BY <1>3, <1>4, <3>1 DEF Continued
    <3>3. ASSUME NEW j \in Confirms'
          PROVE  calls'[j].plan # i
      <4>1. j \in Confirms /\ calls'[j].plan = calls[j].plan
        BY <1>3 DEF Confirms, Continued
      <4>2. ~calls[calls[j].plan].open /\ calls[i].open
        BY <1>1, <4>1 DEF Inductive, Confirmed, Signed, Open
      <4> QED
        BY <4>1, <4>2
    <3> QED
      BY <2>2, <3>2, <3>3 DEF Holds, Signed
  <2> QED
    BY <1>2, <2>1, <2>2
<1>8. Confirmed' /\ Accounted'
  BY <1>2, <1>3, ConfirmedStays, AccountedStays
<1>9. Noted'
  <2>1. \A j \in Confirms' : ~calls'[j].open
    BY <1>3 DEF Confirms
  <2>2. CASE PreviewArrives(i) \/ PreviewFails(i)
    BY <1>4, <2>1, <2>2 DEF PreviewArrives, PreviewFails, Inductive, Noted
  <2>3. CASE ConfirmSucceeds(i)
    <3>1. calls[i].server = "served" /\ i \in Confirms /\ calls[i].open
      BY <1>4, <2>3 DEF ConfirmSucceeds, Open, Confirms
    <3>2. ~needsNewPreview /\ calls'[Len(calls')].server = "served" /\ Len(calls') \in Confirms'
      BY <1>3, <1>4, <3>1 DEF Inductive, Noted
    <3> QED
      BY <2>1, <2>3, <3>2 DEF ConfirmSucceeds, Noted
  <2>4. CASE ConfirmFails(i)
    BY <1>4, <2>1, <2>4 DEF ConfirmFails, Noted
  <2> QED
    BY <2>2, <2>3, <2>4 DEF Answer
<1> QED
  BY <1>5, <1>6, <1>7, <1>8, <1>9 DEF Inductive

\* A call begins when none is under way, and is the last one.
LEMMA Begins ==
  ASSUME Inductive, ~busy, NEW kind \in {"preview", "confirm"}, NEW plan \in 0..MaxCalls,
         Call(kind, plan), busy'
  PROVE  /\ Continued /\ Orderly' /\ Len(calls') = Len(calls) + 1 /\ Len(calls) \in Nat
         /\ \A j \in 1..Len(calls) : calls'[j] = calls[j] /\ ~calls[j].open
         /\ calls'[Len(calls')].kind = kind /\ calls'[Len(calls')].args = draft
         /\ calls'[Len(calls')].plan = plan /\ calls'[Len(calls')].open
         /\ Confirms' = IF kind = "confirm" THEN Confirms \cup {Len(calls')} ELSE Confirms
<1> DEFINE new == [kind |-> kind, args |-> draft, plan |-> plan, server |-> "asked", open |-> TRUE]
<1>1. /\ calls' \in Seq(CallRecords) /\ Len(calls') = Len(calls) + 1 /\ Len(calls') <= MaxCalls
      /\ Len(calls) \in Nat
      /\ \A j \in 1..Len(calls) : calls'[j] = calls[j]
      /\ calls'[Len(calls) + 1] = new
  BY Called DEF Inductive
<1>2. \A j \in 1..Len(calls) : ~calls[j].open
  BY DEF Inductive, Orderly
<1>3. calls'[Len(calls')] = new
  BY <1>1
<1>4. /\ calls'[Len(calls')].kind = kind /\ calls'[Len(calls')].args = draft
      /\ calls'[Len(calls')].plan = plan /\ calls'[Len(calls')].open
  BY <1>3
<1> HIDE DEF new
<1>5. Continued
  BY <1>1, Numbers DEF Continued
<1>6. Orderly'
  BY <1>1, <1>2, <1>4 DEF Orderly
<1>7. Confirms' = IF kind = "confirm" THEN Confirms \cup {Len(calls')} ELSE Confirms
  <2>1. 1..Len(calls') = 1..Len(calls) \cup {Len(calls')}
    BY <1>1
  <2> QED
    BY <1>1, <1>4, <2>1 DEF Confirms
<1> QED
  BY <1>1, <1>2, <1>4, <1>5, <1>6, <1>7

\* A preview is requested when nothing else is under way.
LEMMA RequestPreviewKeeps ==
  ASSUME Inductive, RequestPreview
  PROVE  Inductive'
<1>1. /\ ~busy /\ Call("preview", 0) /\ busy' = TRUE /\ receipt' = FALSE /\ error' = FALSE
      /\ UNCHANGED <<draft, held, needsNewPreview, clicks, written>> /\ Shape
  BY DEF RequestPreview, Inductive
<1>2. /\ Continued /\ Orderly' /\ Len(calls') = Len(calls) + 1 /\ Len(calls) \in Nat
      /\ \A j \in 1..Len(calls) : calls'[j] = calls[j] /\ ~calls[j].open
      /\ Confirms' = Confirms
  BY <1>1, Begins, Numbers
<1>3. Shape'
  <2>1. calls' \in Seq(CallRecords) /\ Len(calls') <= MaxCalls
    BY <1>2, Numbers DEF Continued
  <2> QED
    BY <1>1, <2>1 DEF Shape
<1>4. Holds'
  <2> SUFFICES ASSUME held # NoValue
               PROVE  /\ Signed(held.plan)' /\ held.snapshot = calls'[held.plan].args
                      /\ \A j \in Confirms : calls'[j].plan = held.plan => calls'[j].open
    BY <1>1, <1>2 DEF Holds
  <2>1. Signed(held.plan)' /\ held.snapshot = calls'[held.plan].args
    BY <1>1, <1>2, Standing DEF Signed, Inductive, Holds
  <2>2. \A j \in Confirms : calls'[j].plan = held.plan => calls'[j].open
    BY <1>2 DEF Inductive, Holds, Confirms
  <2> QED
    BY <2>1, <2>2
<1>5. Confirmed' /\ Accounted'
  BY <1>1, <1>2, ConfirmedStays, AccountedStays
<1>6. Noted'
  BY <1>1, <1>2 DEF Inductive, Noted, Confirms
<1> QED
  BY <1>2, <1>3, <1>4, <1>5, <1>6 DEF Inductive

\* What is confirmed is held, so nothing has confirmed it before.
LEMMA ConfirmKeeps ==
  ASSUME Inductive, Confirm
  PROVE  Inductive'
<1> DEFINE p == held.plan
           click == [token |-> p, request |-> calls[p].args]
<1>1. /\ ~busy /\ held # NoValue /\ held.snapshot = draft /\ Call("confirm", p)
      /\ clicks' = clicks \cup {click} /\ busy' = TRUE /\ error' = FALSE
      /\ UNCHANGED <<draft, held, needsNewPreview, receipt, written>> /\ Shape
  BY DEF Confirm, Matches, Inductive
<1>2. Signed(p) /\ calls[p].args = draft /\ \A j \in Confirms : calls[j].plan = p => calls[j].open
  BY <1>1 DEF Inductive, Holds
<1>3. p \in 1..MaxCalls /\ p \in 0..MaxCalls
  BY <1>1, <1>2, Numbers DEF Signed, Shape
<1>4. /\ Continued /\ Orderly' /\ Len(calls') = Len(calls) + 1 /\ Len(calls) \in Nat
      /\ \A j \in 1..Len(calls) : calls'[j] = calls[j] /\ ~calls[j].open
      /\ calls'[Len(calls')].args = draft /\ calls'[Len(calls')].plan = p
      /\ calls'[Len(calls')].open /\ Confirms' = Confirms \cup {Len(calls')}
  BY <1>1, <1>3, Begins
<1>5. \A j \in Confirms : calls[j].plan # p
  BY <1>2, <1>4 DEF Confirms
<1>6. /\ p \in 1..Len(calls') /\ calls'[p].kind = "preview"
      /\ calls'[p].server = "served" /\ ~calls'[p].open /\ calls'[p].args = draft
  BY <1>2, <1>4, Standing
<1>7. \A j \in Confirms : j \in 1..Len(calls) /\ calls'[j] = calls[j]
  BY <1>4 DEF Confirms
<1> HIDE DEF p
<1>8. Shape'
  <2>1. clicks' \subseteq [token : 1..MaxCalls, request : Drafts]
    BY <1>1, <1>2, <1>3 DEF Shape
  <2>2. calls' \in Seq(CallRecords) /\ Len(calls') <= MaxCalls
    BY <1>4, Numbers DEF Continued
  <2> QED
    BY <1>1, <2>1, <2>2 DEF Shape
<1>9. Holds'
  BY <1>1, <1>4, <1>5, <1>6, <1>7 DEF Holds, Signed, p
<1>10. Confirmed'
  <2>1. ASSUME NEW j \in Confirms', NEW q, q = calls'[j].plan
        PROVE  /\ q \in 1..Len(calls') /\ calls'[q].kind = "preview"
               /\ calls'[q].server = "served" /\ ~calls'[q].open
               /\ calls'[j].args = calls'[q].args
               /\ [token |-> q, request |-> calls'[j].args] \in clicks'
    <3>1. CASE j \in Confirms
      <4>1. /\ Signed(q) /\ calls[j].args = calls[q].args
            /\ [token |-> q, request |-> calls[j].args] \in clicks
        BY <1>7, <2>1, <3>1 DEF Inductive, Confirmed
      <4> QED
        BY <1>1, <1>4, <1>7, <3>1, <4>1, Standing
    <3>2. CASE j = Len(calls')
      BY <1>1, <1>2, <1>4, <1>6, <2>1, <3>2
    <3> QED
      BY <1>4, <3>1, <3>2
  <2>2. ASSUME NEW i \in Confirms', NEW j \in Confirms', calls'[i].plan = calls'[j].plan
        PROVE  i = j
    BY <1>4, <1>5, <1>7, <2>2 DEF Inductive, Confirmed
  <2> QED
    BY <2>1, <2>2 DEF Confirmed, Signed
<1>11. Accounted'
  BY <1>1, <1>4, AccountedStays
<1>12. Noted'
  BY <1>1, <1>4 DEF Inductive, Noted
<1> QED
  BY <1>4, <1>8, <1>9, <1>10, <1>11, <1>12 DEF Inductive

\* Every step of app, server and host keeps the invariant.
LEMMA NextInductive == Inductive /\ [Next]_vars => Inductive'
<1> SUFFICES ASSUME Inductive, [Next]_vars PROVE Inductive'
  OBVIOUS
<1> QED
  BY EditsKeep, ServerKeeps, AnswersKeep, RequestPreviewKeeps, ConfirmKeeps DEF Next

\* At every moment the held preview, the confirmations and the writes belong
\* together as the invariant says (composer.ts).
THEOREM InductiveInvariant == Spec => []Inductive
  BY InitInductive, NextInductive, PTL DEF Spec

-----------------------------------------------------------------------------
(* What the invariant shows *)

\* The state of the composer is well-formed, a message id never outlives the reply
\* mode, and a held preview is one the server signed (composer.ts setMode,
\* requestPreview).
THEOREM TypeCorrect == Spec => []TypeOK
<1>1. Inductive => TypeOK
  <2> SUFFICES ASSUME Inductive PROVE TypeOK
    OBVIOUS
  <2>1. \A i \in 1..Len(calls) : calls[i] \in CallRecords
    BY DEF Inductive, Shape
  <2>2. held # NoValue => held.plan <= Len(calls) /\ Signed(held.plan)
    BY DEF Inductive, Holds, Signed
  <2> QED
    BY <2>1, <2>2 DEF Inductive, Shape, TypeOK, CallRecords, Signed
<1> QED
  BY <1>1, InductiveInvariant, PTL

\* A confirmation carries the request its preview was made for, whatever was typed
\* in between (composer.ts confirm, matchesSnapshot).
THEOREM ConfirmsCarryTheirPlan == Spec => []ConfirmsMatchPlan
<1>1. Inductive => ConfirmsMatchPlan
  BY DEF Inductive, Confirmed, Confirms, ConfirmsMatchPlan
<1> QED
  BY <1>1, InductiveInvariant, PTL

\* The busy flag is exactly one call under way (composer.ts requestPreview, confirm).
THEOREM OneCallAtATime == Spec => []BusyIsOneCall
<1>1. Inductive => BusyIsOneCall
  <2> SUFFICES ASSUME Inductive PROVE BusyIsOneCall
    OBVIOUS
  <2> DEFINE S == {i \in 1..Len(calls) : calls[i].open}
  <2>1. CASE busy
    <3>1. S = {Len(calls)}
      BY <2>1 DEF Inductive, Shape, Orderly
    <3> QED
      BY <2>1, <3>1, FS_Singleton DEF BusyIsOneCall
  <2>2. CASE ~busy
    <3>1. S = {}
      BY <2>2 DEF Inductive, Orderly
    <3> QED
      BY <2>2, <3>1, FS_EmptySet DEF BusyIsOneCall
  <2> QED
    BY <2>1, <2>2
<1> QED
  BY <1>1, InductiveInvariant, PTL

\* A receipt is that of the last call, which the server served, and a demand for a
\* new preview leaves nothing to confirm (composer.ts confirm).
THEOREM NoticesTellTheTruth == Spec => []NoticesAreTrue
<1>1. Inductive => NoticesAreTrue
  BY DEF Inductive, Noted, Confirms, NoticesAreTrue
<1> QED
  BY <1>1, InductiveInvariant, PTL

-----------------------------------------------------------------------------
(* Refinement *)

\* A write stands for a click, and for a preview nothing was written for yet.
LEMMA StepRefines ==
  ASSUME Inductive, Inductive', [Next]_vars
  PROVE  Promise!Next \/ UNCHANGED Promise!vars
<1>1. clicks \subseteq clicks'
  BY DEF Next, SetMode, Edit, RequestPreview, Confirm, ConfirmMismatch, Serve, Refuse, Answer,
    PreviewArrives, PreviewFails, ConfirmSucceeds, ConfirmFails, vars
<1>2. clicks' \subseteq [token : 1..MaxCalls, request : Drafts]
  BY DEF Inductive, Shape
<1>3. CASE written' = written
  BY <1>1, <1>2, <1>3 DEF Promise!Next, Promise!Approve
<1>4. CASE written' # written
  <2>1. PICK i \in 1..MaxCalls : Serve(i) /\ calls[i].kind # "preview"
    BY <1>4 DEF Next, SetMode, Edit, RequestPreview, Confirm, ConfirmMismatch, Serve, Refuse,
      Answer, PreviewArrives, PreviewFails, ConfirmSucceeds, ConfirmFails, vars
  <2> DEFINE a == [token |-> calls[i].plan, request |-> calls[i].args]
  <2>2. /\ i \in 1..Len(calls) /\ calls[i].server = "asked" /\ clicks' = clicks
        /\ written' = Append(written, a)
    BY <2>1 DEF Serve
  <2>3. i \in Confirms
    <3>1. calls[i] \in CallRecords
      BY <2>2 DEF Inductive, Shape
    <3> QED
      BY <2>1, <2>2, <3>1 DEF Confirms, CallRecords
  <2>4. a \in clicks
    BY <2>3 DEF Inductive, Confirmed
  <2>5. ASSUME NEW k \in 1..Len(written)
        PROVE  written[k].token # a.token
    <3>1. PICK j \in Confirms : calls[j].server = "served" /\ calls[j].plan = written[k].token
      BY DEF Inductive, Accounted
    <3>2. j # i
      BY <2>2, <3>1
    <3> QED
      BY <2>3, <3>1, <3>2 DEF Inductive, Confirmed
  <2>6. Promise!Perform(a)
    BY <2>2, <2>5 DEF Promise!Perform
  <2> QED
    BY <2>4, <2>6 DEF Promise!Next
<1> QED
  BY <1>3, <1>4

\* Whatever is lost, late or clicked again: the server is asked to write only what
\* was previewed and clicked, and once per preview (composer.ts:6-7).
THEOREM ImplementsOneShot == Spec => ConfirmsAreOneShot
<1>1. Init => Promise!Init
  BY DEF Init, Promise!Init
<1>2. Inductive /\ Inductive' /\ [Next]_vars => [Promise!Next]_(Promise!vars)
  BY StepRefines
<1> QED
  BY <1>1, <1>2, InductiveInvariant, PTL DEF Spec, ConfirmsAreOneShot, Promise!Spec
=============================================================================
