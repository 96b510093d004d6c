----------------------- MODULE ConfirmedWrites_proofs ------------------------
(***************************************************************************)
(* Proofs about ConfirmedWrites, for every set of calls, names, channels,  *)
(* texts and workspaces, every guard size, lifetime and number of          *)
(* restarts.  The argument is one inductive invariant, Inductive: the      *)
(* guard is the tail of the attempt history (GuardIsRecentPast), and a     *)
(* token names the secret of the start it was used in (AttemptsAreDated),  *)
(* so a token that is accepted again lies outside that tail.               *)
(***************************************************************************)
EXTENDS ConfirmedWrites, TLAPS

-----------------------------------------------------------------------------
(* Operators *)

\* Appending to the guard keeps it a sequence of tokens no longer than GuardSize,
\* whose last entries are the old last entries followed by the new token.
LEMMA RememberFacts ==
  ASSUME NEW g \in Seq(Tokens), NEW t \in Tokens, Len(g) <= GuardSize
  PROVE  /\ Remember(g, t) \in Seq(Tokens)
         /\ Len(Remember(g, t)) <= GuardSize
         /\ Len(Remember(g, t)) <= Len(g) + 1
         /\ Len(Remember(g, t)) < GuardSize => Len(Remember(g, t)) = Len(g) + 1
         /\ \A k \in 1..Len(Remember(g, t)) :
              Remember(g, t)[k] = IF k = Len(Remember(g, t)) THEN t
                                  ELSE g[Len(g) + 1 - Len(Remember(g, t)) + k]
<1> USE ConstantsAssumption
<1>1. CASE GuardSize = 0
  BY <1>1 DEF Remember
<1>2. CASE GuardSize # 0 /\ Len(g) < GuardSize
  BY <1>2 DEF Remember
<1>3. CASE GuardSize # 0 /\ Len(g) >= GuardSize
  <2>1. Remember(g, t) = Tail(Append(g, t))
    BY <1>3 DEF Remember
  <2>2. Append(g, t) \in Seq(Tokens) /\ Len(Append(g, t)) = Len(g) + 1
    OBVIOUS
  <2>3. /\ Tail(Append(g, t)) \in Seq(Tokens)
        /\ Len(Tail(Append(g, t))) = Len(g)
        /\ \A k \in 1..Len(g) : Tail(Append(g, t))[k] = Append(g, t)[k + 1]
    BY <2>2
  <2>4. \A k \in 1..Len(g) : Append(g, t)[k + 1] = IF k = Len(g) THEN t ELSE g[k + 1]
    OBVIOUS
  <2>5. Len(Remember(g, t)) = Len(g) /\ Len(g) = GuardSize /\ Len(g) \in Nat
    BY <1>3, <2>1, <2>3
  <2>6. ASSUME NEW k \in 1..Len(Remember(g, t))
        PROVE  Remember(g, t)[k] = IF k = Len(Remember(g, t)) THEN t
                                   ELSE g[Len(g) + 1 - Len(Remember(g, t)) + k]
    <3>1. k \in 1..Len(g) /\ Len(g) + 1 - Len(Remember(g, t)) + k = k + 1
      BY <2>5
    <3> QED
      BY <2>1, <2>3, <2>4, <2>5, <3>1
  <2>7. Remember(g, t) \in Seq(Tokens)
    BY <2>1, <2>3
  <2>8. /\ Len(Remember(g, t)) <= GuardSize
        /\ Len(Remember(g, t)) <= Len(g) + 1
        /\ Len(Remember(g, t)) < GuardSize => Len(Remember(g, t)) = Len(g) + 1
    BY <2>5
  <2> QED
    BY <2>6, <2>7, <2>8
<1> QED
  BY <1>1, <1>2, <1>3

\* A refusal is one of the code's reasons.
LEMMA RefusalRange ==
  ASSUME NEW ask, NEW ch
  PROVE  Refusal(ask, ch) \in Refusals \cup {NoValue}
  BY DEF Refusal, Refusals

\* Ending a call keeps the calls well typed.
LEMMA ReturnType ==
  ASSUME call \in [Calls -> CallStates], NEW c \in Calls,
         NEW o \in Outcomes, Return(c, o)
  PROVE  call' \in [Calls -> CallStates]
<1>1. [Idle EXCEPT !.pc = "done", !.outcome = o] \in CallStates
  BY DEF Idle, CallStates
<1> QED
  BY <1>1 DEF Return

\* What replacing one entry of a sequence does to each of its entries.
LEMMA SeqUpdate ==
  ASSUME NEW S, NEW s \in Seq(S), NEW i \in 1..Len(s), NEW r
  PROVE  /\ Len([s EXCEPT ![i] = r]) = Len(s)
         /\ [s EXCEPT ![i] = r][i] = r
         /\ \A j \in 1..Len(s) : j # i => [s EXCEPT ![i] = r][j] = s[j]
  OBVIOUS

\* A new fate, or the read mark, is well typed.
LEMMA AttemptEdits ==
  ASSUME NEW a \in Attempts, NEW f \in {"wire", "stored", "rejected", "deleted"}
  PROVE  /\ [a EXCEPT !.fate = f] \in Attempts
         /\ [a EXCEPT !.read = TRUE] \in Attempts
  BY DEF Attempts

\* Replacing one entry of the history by another attempt keeps it well typed.
LEMMA AttemptUpdate ==
  ASSUME attempts \in Seq(Attempts), NEW i \in 1..Len(attempts),
         NEW r \in Attempts, attempts' = [attempts EXCEPT ![i] = r]
  PROVE  attempts' \in Seq(Attempts) /\ Len(attempts') = Len(attempts)
  OBVIOUS
-----------------------------------------------------------------------------
(* Type correctness *)

\* The initial state is well typed.
LEMMA InitType == Init => TypeOK
<1> SUFFICES ASSUME Init PROVE TypeOK
  OBVIOUS
<1>1. Idle \in CallStates
  BY DEF Idle, CallStates
<1>2. guard \in Seq(Tokens) /\ Len(guard) <= GuardSize
  BY ConstantsAssumption DEF Init
<1>3. attempts \in Seq(Attempts)
  BY DEF Init
<1> QED
  BY <1>1, <1>2, <1>3 DEF Init, TypeOK, Directories

\* Every step keeps the types.  AsksAreHeld is what makes a waiting call's channel and
\* token well typed when Send puts them into the guard and the history.
LEMMA TypeStep == TypeOK /\ AsksAreHeld /\ CallsOwnAttempts /\ [Next]_vars => TypeOK'
<1> SUFFICES ASSUME TypeOK, AsksAreHeld, CallsOwnAttempts, [Next]_vars PROVE TypeOK'
  OBVIOUS
<1> USE ConstantsAssumption
<1>0. CASE UNCHANGED vars
  BY <1>0 DEF vars, TypeOK
<1>1. CASE Tick
  BY <1>1 DEF Tick, TypeOK
<1>2. ASSUME NEW n \in Names, NEW ch \in Channels \cup {NoValue}, Rename(n, ch)
      PROVE  TypeOK'
  BY <1>2 DEF Rename, TypeOK, Directories
<1>3. CASE ExpireListing
  BY <1>3 DEF ExpireListing, TypeOK
<1>4. ASSUME NEW n \in Names, NEW r \in Roots, NEW t \in Texts, Preview(n, r, t)
      PROVE  TypeOK'
  <2>1. Listing \in Directories
    BY DEF Listing, TypeOK
  <2>2. Listing[n] \in Channels
    BY <1>4, <2>1 DEF Preview, Directories
  <2>3. Secret(boot) \in Nat
    BY DEF TypeOK, Secret
  <2>4. WritePreview(Listing[n], r, t) \in Previews
    BY <2>2 DEF WritePreview, Previews, Request, Requests, TypeOK
  <2>5. Token(WritePreview(Listing[n], r, t), Secret(boot)) \in Tokens
    BY <2>3, <2>4 DEF Token, Tokens
  <2>6. plans' \subseteq Plans
    BY <1>4, <2>4, <2>5 DEF Preview, TypeOK, Plans
  <2> QED
    BY <1>4, <2>1, <2>6 DEF Preview, TypeOK
<1>5. ASSUME NEW c \in Calls, Step(c)
      PROVE  TypeOK'
  <2>1. ASSUME NEW ask \in PossibleAsks, Confirm(c, ask)
        PROVE  TypeOK'
    <3>1. Listing \in Directories
      BY DEF Listing, TypeOK
    <3>2. ask \in Asks
      BY DEF PossibleAsks, Asks, TypeOK, Plans
    <3>3. Listing[ask.name] \in Channels \cup {NoValue}
      BY <3>1, <3>2 DEF Directories, Asks
    <3>4. call' \in [Calls -> CallStates]
      <4>1. CASE Listing[ask.name] = NoValue
        <5>1. Return(c, "not_resolved")
          BY <2>1, <4>1 DEF Confirm
        <5> QED
          BY <5>1, ReturnType DEF Outcomes, TypeOK
      <4>2. CASE Listing[ask.name] # NoValue
        <5>1. call[c] \in CallStates
          BY DEF TypeOK
        <5>2. [call[c] EXCEPT !.pc = "resolved", !.ask = ask,
                              !.channel = Listing[ask.name]] \in CallStates
          BY <3>2, <3>3, <5>1 DEF CallStates
        <5>3. call' = [call EXCEPT ![c] = [call[c] EXCEPT !.pc = "resolved",
                         !.ask = ask, !.channel = Listing[ask.name]]]
          BY <2>1, <4>2 DEF Confirm, TypeOK
        <5> QED
          BY <5>2, <5>3 DEF TypeOK
      <4> QED
        BY <4>1, <4>2
    <3> QED
      BY <2>1, <3>1, <3>4 DEF Confirm, TypeOK
  <2>2. CASE ListingFails(c)
    <3>1. call' \in [Calls -> CallStates]
      BY <2>2, ReturnType DEF ListingFails, Outcomes, TypeOK
    <3> QED
      BY <2>2, <3>1 DEF ListingFails, TypeOK
  <2>3. CASE Refuse(c)
    <3>1. \E o \in Outcomes : Return(c, o)
      BY <2>3, RefusalRange DEF Refuse, Outcomes, Refusals
    <3>2. call' \in [Calls -> CallStates]
      BY <3>1, ReturnType DEF TypeOK
    <3> QED
      BY <2>3, <3>2 DEF Refuse, TypeOK
  <2>4. CASE Send(c)
    <3> DEFINE new == [call |-> c, token |-> call[c].ask.token, workspace |-> workspace,
              request |-> Request(call[c].channel, call[c].ask.root, call[c].ask.text),
              at |-> now, boot |-> boot, fate |-> "wire", read |-> FALSE]
    <3>1. call[c].ask \in Asks /\ call[c].channel \in Channels
      BY <2>4 DEF Send, AsksAreHeld
    <3>2. call[c].ask.token \in Tokens
      BY <3>1 DEF Asks
    <3>3. new \in Attempts
      BY <3>1, <3>2 DEF Attempts, Request, Requests, Asks, TypeOK
    <3>4. attempts' \in Seq(Attempts)
      BY <2>4, <3>3 DEF Send, TypeOK
    <3>5. guard' \in Seq(Tokens) /\ Len(guard') <= GuardSize
      BY <2>4, <3>2, RememberFacts DEF Send, TypeOK
    <3>6. call' \in [Calls -> CallStates]
      <4>1. Len(attempts) + 1 \in Nat
        BY DEF TypeOK
      <4>2. [Idle EXCEPT !.pc = "sending", !.attempt = Len(attempts) + 1] \in CallStates
        BY <4>1 DEF Idle, CallStates
      <4> QED
        BY <2>4, <4>2 DEF Send, TypeOK
    <3> QED
      BY <2>4, <3>4, <3>5, <3>6 DEF Send, TypeOK
  <2>5. CASE SendSucceeds(c)
    <3>1. call[c] \in CallStates /\ [call[c] EXCEPT !.pc = "verifying"] \in CallStates
      BY DEF TypeOK, CallStates
    <3>2. call' = [call EXCEPT ![c] = [call[c] EXCEPT !.pc = "verifying"]]
      BY <2>5 DEF SendSucceeds
    <3>3. call' \in [Calls -> CallStates]
      BY <3>1, <3>2 DEF TypeOK
    <3> QED
      BY <2>5, <3>3 DEF SendSucceeds, TypeOK
  <2>6. CASE SendFails(c)
    <3>1. call' \in [Calls -> CallStates]
      BY <2>6, ReturnType DEF SendFails, Outcomes, TypeOK
    <3> QED
      BY <2>6, <3>1 DEF SendFails, TypeOK
  <2>7. CASE ReadBack(c)
    <3>1. call' \in [Calls -> CallStates]
      BY <2>7, ReturnType DEF ReadBack, Outcomes, TypeOK
    <3>2. call[c].attempt \in 1..Len(attempts)
      BY <2>7 DEF ReadBack, CallsOwnAttempts
    <3>3. [attempts[call[c].attempt] EXCEPT !.read = TRUE] \in Attempts
      <4>1. attempts[call[c].attempt] \in Attempts
        BY <3>2 DEF TypeOK
      <4> QED
        BY <4>1, AttemptEdits
    <3>4. attempts' \in Seq(Attempts)
      BY <2>7, <3>2, <3>3, AttemptUpdate DEF ReadBack, TypeOK
    <3> QED
      BY <2>7, <3>1, <3>4 DEF ReadBack, TypeOK
  <2>8. CASE ReadBackFails(c)
    <3>1. call' \in [Calls -> CallStates]
      BY <2>8, ReturnType DEF ReadBackFails, Outcomes, TypeOK
    <3> QED
      BY <2>8, <3>1 DEF ReadBackFails, TypeOK
  <2>9. CASE Cancel(c)
    <3>1. call' \in [Calls -> CallStates]
      BY <2>9, ReturnType DEF Cancel, Outcomes, TypeOK
    <3> QED
      BY <2>9, <3>1 DEF Cancel, TypeOK
  <2> QED
    BY <1>5, <2>1, <2>2, <2>3, <2>4, <2>5, <2>6, <2>7, <2>8, <2>9 DEF Step
<1>6. ASSUME NEW i \in 1..Len(attempts), NEW f \in {"stored", "rejected", "deleted"},
             Settle(i, f)
      PROVE  TypeOK'
  <2>1. [attempts[i] EXCEPT !.fate = f] \in Attempts
    <3>1. attempts[i] \in Attempts
      BY DEF TypeOK
    <3> QED
      BY <3>1, AttemptEdits
  <2>2. attempts' \in Seq(Attempts)
    BY <1>6, <2>1, AttemptUpdate DEF Settle, TypeOK
  <2> QED
    BY <1>6, <2>2 DEF Settle, TypeOK
<1>7. ASSUME NEW w \in Workspaces, Restart(w)
      PROVE  TypeOK'
  <2>1. [Idle EXCEPT !.pc = "done", !.outcome = "gone"] \in CallStates
    BY DEF Idle, CallStates, Outcomes
  <2>2. call' \in [Calls -> CallStates]
    BY <1>7, <2>1 DEF Restart, TypeOK
  <2>3. guard' \in Seq(Tokens) /\ Len(guard') <= GuardSize
    BY <1>7 DEF Restart
  <2> QED
    BY <1>7, <2>2, <2>3 DEF Restart, TypeOK
<1> QED
  BY <1>0, <1>1, <1>2, <1>3, <1>4, <1>5, <1>6, <1>7 DEF Next

-----------------------------------------------------------------------------
(* What every step preserves *)

\* A call passes the check only if nothing about it differs from the signed preview.
LEMMA Admission ==
  ASSUME NEW ask \in Asks, NEW ch, now \in Nat, Refusal(ask, ch) = NoValue
  PROVE  /\ ch = ask.preview.target
         /\ ask.token = Token(ask.preview, Secret(boot))
         /\ now <= ask.preview.expires
         /\ workspace = ask.preview.workspace
         /\ Request(ch, ask.root, ask.text) = ask.preview.request
<1>1. ask.preview.expires \in Nat
  BY DEF Asks, Previews
<1> QED
  BY <1>1, NoValueAssumption DEF Refusal, Outcomes, Refusals

\* Plans are never withdrawn and the clock and the start counter never go back.
LEMMA ForwardOnly ==
  ASSUME TypeOK, [Next]_vars
  PROVE  plans \subseteq plans' /\ now <= now' /\ boot <= boot'
<1>1. CASE Tick
  BY <1>1 DEF Tick, TypeOK
<1>2. CASE \E n \in Names, r \in Roots, t \in Texts : Preview(n, r, t)
  BY <1>2 DEF Preview, TypeOK
<1>3. CASE \E w \in Workspaces : Restart(w)
  BY <1>3 DEF Restart, TypeOK
<1>4. CASE UNCHANGED <<plans, now, boot>>
  BY <1>4 DEF TypeOK
<1>5. \/ Tick
      \/ \E n \in Names, r \in Roots, t \in Texts : Preview(n, r, t)
      \/ \E w \in Workspaces : Restart(w)
      \/ UNCHANGED <<plans, now, boot>>
  <2>1. ASSUME NEW c \in Calls, Step(c)
        PROVE  UNCHANGED <<plans, now, boot>>
    BY <2>1 DEF Step, Confirm, ListingFails, Refuse, Send, SendSucceeds, SendFails,
       ReadBack, ReadBackFails, Cancel
  <2>2. ASSUME NEW i, NEW f, Settle(i, f)
        PROVE  UNCHANGED <<plans, now, boot>>
    BY <2>2 DEF Settle
  <2> QED
    BY <2>1, <2>2 DEF Next, vars, Rename, ExpireListing
<1> QED
  BY <1>1, <1>2, <1>3, <1>4, <1>5

\* What identifies an attempt.
SameAttempt(a, b) ==
  /\ a.call = b.call /\ a.token = b.token /\ a.workspace = b.workspace
  /\ a.request = b.request /\ a.at = b.at /\ a.boot = b.boot

\* The history is never rewritten: a step keeps every attempt's identity, what Pumble
\* stored stays stored or deleted, what was read stays read; only Send adds to it.
LEMMA HistoryGrows ==
  ASSUME TypeOK, CallsOwnAttempts, [Next]_vars
  PROVE  /\ Len(attempts) <= Len(attempts')
         /\ \A i \in 1..Len(attempts) :
              /\ SameAttempt(attempts'[i], attempts[i])
              /\ attempts[i].fate \in {"stored", "deleted"} =>
                   attempts'[i].fate \in {"stored", "deleted"}
              /\ attempts[i].read => attempts'[i].read
         /\ (\E c \in Calls : Send(c)) \/ Len(attempts') = Len(attempts)
<1>1. CASE UNCHANGED attempts
  BY <1>1 DEF TypeOK, SameAttempt
<1>2. ASSUME NEW c \in Calls, Send(c)
      PROVE  /\ Len(attempts') = Len(attempts) + 1
             /\ \A i \in 1..Len(attempts) : attempts'[i] = attempts[i]
  BY <1>2 DEF Send, TypeOK
<1>3. ASSUME NEW c \in Calls, ReadBack(c)
      PROVE  /\ Len(attempts') = Len(attempts)
             /\ \A i \in 1..Len(attempts) :
                  /\ SameAttempt(attempts'[i], attempts[i])
                  /\ attempts'[i].fate = attempts[i].fate
                  /\ attempts[i].read => attempts'[i].read
  <2> DEFINE k == call[c].attempt
             marked == [attempts[k] EXCEPT !.read = TRUE]
  <2>1. k \in 1..Len(attempts) /\ attempts' = [attempts EXCEPT ![k] = marked]
    BY <1>3 DEF ReadBack, CallsOwnAttempts
  <2>2. attempts[k] \in Attempts
    BY <2>1 DEF TypeOK
  <2>3. /\ Len(attempts') = Len(attempts)
        /\ attempts'[k] = marked
        /\ \A i \in 1..Len(attempts) : i # k => attempts'[i] = attempts[i]
    <3> HIDE DEF k, marked
    <3> QED
      BY <2>1, SeqUpdate DEF TypeOK
  <2>4. /\ SameAttempt(attempts'[k], attempts[k])
        /\ attempts'[k].fate = attempts[k].fate
    BY <2>2, <2>3 DEF SameAttempt, Attempts
  <2>5. attempts'[k].read
    BY <2>2, <2>3, Zenon DEF Attempts
  <2> QED
    BY <2>3, <2>4, <2>5 DEF SameAttempt
<1>4. ASSUME NEW i \in 1..Len(attempts), NEW f \in {"stored", "rejected", "deleted"},
             Settle(i, f)
      PROVE  /\ Len(attempts') = Len(attempts)
             /\ \A j \in 1..Len(attempts) :
                  /\ SameAttempt(attempts'[j], attempts[j])
                  /\ attempts[j].fate \in {"stored", "deleted"} =>
                       attempts'[j].fate \in {"stored", "deleted"}
                  /\ attempts[j].read => attempts'[j].read
  <2>1. attempts' = [attempts EXCEPT ![i] = [attempts[i] EXCEPT !.fate = f]]
    BY <1>4 DEF Settle
  <2>2. attempts[i] \in Attempts
    BY DEF TypeOK
  <2>3. attempts'[i] = [attempts[i] EXCEPT !.fate = f]
    BY <2>1 DEF TypeOK
  <2>4. /\ SameAttempt(attempts'[i], attempts[i])
        /\ attempts[i].fate \in {"stored", "deleted"} => attempts'[i].fate = "deleted"
        /\ attempts'[i].read = attempts[i].read
    BY <1>4, <2>2, <2>3 DEF Settle, SameAttempt, Attempts
  <2>5. \A j \in 1..Len(attempts) : j # i => attempts'[j] = attempts[j]
    BY <2>1 DEF TypeOK
  <2> QED
    BY <2>1, <2>4, <2>5 DEF TypeOK, SameAttempt
<1>5. \/ UNCHANGED attempts
      \/ \E c \in Calls : Send(c) \/ ReadBack(c)
      \/ \E i \in 1..Len(attempts), f \in {"stored", "rejected", "deleted"} : Settle(i, f)
  BY DEF Next, vars, Step, Tick, Rename, ExpireListing, Preview, Confirm, ListingFails,
     Refuse, SendSucceeds, SendFails, ReadBackFails, Cancel, Restart
<1> QED
  BY <1>1, <1>2, <1>3, <1>4, <1>5 DEF TypeOK, SameAttempt

\* A step that sends nothing and does not restart leaves guard and start counter alone.
LEMMA GuardMoves ==
  ASSUME [Next]_vars
  PROVE  \/ \E c \in Calls : Send(c)
         \/ \E w \in Workspaces : Restart(w)
         \/ UNCHANGED <<guard, boot>>
  BY DEF Next, vars, Step, Tick, Rename, ExpireListing, Preview, Confirm, ListingFails,
     Refuse, SendSucceeds, SendFails, ReadBack, ReadBackFails, Cancel, Settle

\* What Send knows and does.
LEMMA SendFacts ==
  ASSUME TypeOK, AsksAreHeld, PlansAreSigned, NEW c \in Calls, Send(c)
  PROVE  LET n == Len(attempts) + 1 IN
         /\ Len(attempts') = n
         /\ \A i \in 1..Len(attempts) : attempts'[i] = attempts[i]
         /\ attempts'[n].call = c /\ attempts'[n].boot = boot
         /\ attempts'[n].token \in Tokens
         /\ attempts'[n].token.secret = Secret(boot)
         /\ \A k \in 1..Len(guard) : guard[k] # attempts'[n].token
         /\ guard' = Remember(guard, attempts'[n].token)
         /\ UNCHANGED <<boot, plans>>
         /\ \E p \in plans :
              /\ attempts'[n].token = p.token
              /\ attempts'[n].request = p.preview.request
              /\ attempts'[n].workspace = p.preview.workspace
              /\ p.preview.issued <= attempts'[n].at
              /\ attempts'[n].at <= p.preview.expires
<1> DEFINE ask == call[c].ask
           ch == call[c].channel
           new == [call |-> c, token |-> ask.token, workspace |-> workspace,
                   request |-> Request(ch, ask.root, ask.text),
                   at |-> now, boot |-> boot, fate |-> "wire", read |-> FALSE]
           n == Len(attempts) + 1
<1>1. /\ attempts' = Append(attempts, new)
      /\ guard' = Remember(guard, ask.token)
      /\ UNCHANGED <<boot, plans>>
      /\ Refusal(ask, ch) = NoValue
      /\ ~Used(guard, ask.token)
      /\ call[c].pc = "resolved"
  BY DEF Send
<1>2. /\ ch \in Channels /\ ask \in Asks
      /\ \E p \in plans : ask.preview = p.preview
      /\ \E p \in plans : ask.token = p.token
  BY <1>1 DEF AsksAreHeld
<1>3. /\ ask.token = Token(ask.preview, Secret(boot))
      /\ now <= ask.preview.expires
      /\ workspace = ask.preview.workspace
      /\ Request(ch, ask.root, ask.text) = ask.preview.request
  BY <1>1, <1>2, Admission DEF TypeOK
<1>4. /\ Len(attempts') = n
      /\ \A i \in 1..Len(attempts) : attempts'[i] = attempts[i]
      /\ attempts'[n] = new
  <2> HIDE DEF new
  <2> QED
    BY <1>1 DEF TypeOK
<1>5. /\ attempts'[n].call = c /\ attempts'[n].boot = boot
      /\ attempts'[n].token = ask.token /\ attempts'[n].at = now
      /\ attempts'[n].workspace = workspace
      /\ attempts'[n].request = Request(ch, ask.root, ask.text)
  BY <1>4
<1>6. ask.token \in Tokens /\ ask.token.secret = Secret(boot)
  BY <1>2, <1>3 DEF Asks, Token
<1>7. \E p \in plans :
        /\ ask.token = p.token /\ ask.preview = p.preview
        /\ p.preview.issued <= now
  <2>1. PICK p \in plans : ask.token = p.token
    BY <1>2
  <2>2. p.token.preview = p.preview /\ p.preview.issued <= now
    BY DEF PlansAreSigned
  <2>3. ask.token.preview = ask.preview
    BY <1>3 DEF Token
  <2> QED
    BY <2>1, <2>2, <2>3
<1>8. \A k \in 1..Len(guard) : guard[k] # ask.token
  BY <1>1 DEF Used
<1> HIDE DEF ask, ch, new
<1> QED
  BY <1>1, <1>3, <1>4, <1>5, <1>6, <1>7, <1>8

-----------------------------------------------------------------------------
(* The conjuncts of the inductive invariant *)

\* Every plan in a caller's hands stays one that this configuration signed.
LEMMA PlansStep == TypeOK /\ PlansAreSigned /\ [Next]_vars /\ TypeOK' => PlansAreSigned'
<1> SUFFICES ASSUME TypeOK, PlansAreSigned, [Next]_vars, TypeOK'
             PROVE  PlansAreSigned'
  OBVIOUS
<1>1. now <= now' /\ now' \in Nat /\ now \in Nat
  BY ForwardOnly DEF TypeOK
<1>2. \A p \in plans : p.preview.issued \in Nat
  BY DEF TypeOK, Plans, Previews
<1>3. CASE UNCHANGED plans
  BY <1>1, <1>2, <1>3 DEF PlansAreSigned
<1>4. ASSUME NEW m \in Names, NEW r \in Roots, NEW t \in Texts, Preview(m, r, t)
      PROVE  PlansAreSigned'
  <2> DEFINE p == WritePreview(Listing[m], r, t)
             new == [preview |-> p, token |-> Token(p, Secret(boot))]
  <2>1. plans' = plans \cup {new} /\ now' = now
    BY <1>4 DEF Preview
  <2>2. /\ new.token.preview = new.preview
        /\ new.preview.request.channel = new.preview.target
        /\ new.preview.issued <= now
    BY <1>1 DEF WritePreview, Token, Request
  <2> HIDE DEF new
  <2> QED
    BY <2>1, <2>2 DEF PlansAreSigned
<1>5. \/ UNCHANGED plans
      \/ \E m \in Names, r \in Roots, t \in Texts : Preview(m, r, t)
  BY DEF Next, vars, Step, Tick, Rename, ExpireListing, Confirm, ListingFails, Refuse,
     Send, SendSucceeds, SendFails, ReadBack, ReadBackFails, Cancel, Settle, Restart
<1> QED
  BY <1>3, <1>4, <1>5

\* Attempts keep the start and the secret they were made under.
LEMMA AttemptsStep ==
  TypeOK /\ AsksAreHeld /\ PlansAreSigned /\ CallsOwnAttempts /\ AttemptsAreDated
    /\ [Next]_vars /\ TypeOK' => AttemptsAreDated'
<1> SUFFICES ASSUME TypeOK, AsksAreHeld, PlansAreSigned, CallsOwnAttempts,
                    AttemptsAreDated, [Next]_vars, TypeOK',
                    NEW i \in 1..Len(attempts')
             PROVE  /\ attempts'[i].boot <= boot'
                    /\ attempts'[i].token.secret = Secret(attempts'[i].boot)
  BY DEF AttemptsAreDated, Secret
<1>1. boot <= boot' /\ boot \in Nat /\ boot' \in Nat
  BY ForwardOnly DEF TypeOK
<1>2. CASE i \in 1..Len(attempts)
  <2>1. SameAttempt(attempts'[i], attempts[i])
    BY <1>2, HistoryGrows
  <2>2. attempts[i].boot <= boot /\ attempts[i].token.secret = Secret(attempts[i].boot)
    BY <1>2 DEF AttemptsAreDated
  <2>3. attempts[i].boot \in Nat
    <3>1. attempts[i] \in Attempts
      BY <1>2 DEF TypeOK
    <3> QED
      BY <3>1 DEF Attempts
  <2>4. attempts'[i].boot = attempts[i].boot /\ attempts'[i].token = attempts[i].token
    BY <2>1 DEF SameAttempt
  <2>5. Secret(attempts'[i].boot) = Secret(attempts[i].boot)
    BY <2>4 DEF Secret
  <2> QED
    BY <1>1, <2>2, <2>3, <2>4, <2>5
<1>3. CASE i \notin 1..Len(attempts)
  <2>1. PICK c \in Calls : Send(c)
    BY <1>3, HistoryGrows
  <2>2. i = Len(attempts) + 1
    BY <1>3, <2>1, SendFacts DEF TypeOK
  <2> QED
    BY <1>1, <2>1, <2>2, SendFacts
<1> QED
  BY <1>2, <1>3

\* The heart of the argument: the guard stays the tail of the history.
LEMMA GuardStep ==
  TypeOK /\ AsksAreHeld /\ PlansAreSigned /\ CallsOwnAttempts /\ AttemptsAreDated
    /\ GuardIsRecentPast /\ [Next]_vars /\ TypeOK' => GuardIsRecentPast'
<1> SUFFICES ASSUME TypeOK, AsksAreHeld, PlansAreSigned, CallsOwnAttempts,
                    AttemptsAreDated, GuardIsRecentPast, [Next]_vars, TypeOK'
             PROVE  GuardIsRecentPast'
  OBVIOUS
<1>1. /\ Len(attempts) \in Nat /\ Len(attempts') \in Nat
      /\ Len(guard) \in Nat /\ Len(guard') \in Nat /\ GuardSize \in Nat
      /\ boot \in Nat
  BY ConstantsAssumption DEF TypeOK
<1>2. CASE UNCHANGED <<guard, boot>> /\ Len(attempts') = Len(attempts)
  <2>1. \A i \in 1..Len(attempts) : attempts'[i].token = attempts[i].token
                                    /\ attempts'[i].boot = attempts[i].boot
    BY HistoryGrows DEF SameAttempt
  <2>2. Len(guard) <= Len(attempts)
    BY DEF GuardIsRecentPast
  <2>3. ASSUME NEW k \in 1..Len(guard)
        PROVE  guard'[k] = attempts'[Len(attempts) - Len(guard) + k].token
    <3>1. Len(attempts) - Len(guard) + k \in 1..Len(attempts)
      BY <1>1, <2>2
    <3> QED
      BY <1>2, <2>1, <3>1 DEF GuardIsRecentPast
  <2>4. ASSUME Len(guard) < GuardSize, NEW i \in 1..(Len(attempts) - Len(guard))
        PROVE  attempts'[i].boot # boot
    <3>1. i \in 1..Len(attempts)
      BY <1>1
    <3> QED
      BY <2>1, <2>4, <3>1 DEF GuardIsRecentPast
  <2> QED
    BY <1>2, <2>2, <2>3, <2>4 DEF GuardIsRecentPast
<1>3. ASSUME NEW c \in Calls, Send(c)
      PROVE  GuardIsRecentPast'
  <2> DEFINE n == Len(attempts) + 1
             t == attempts'[n].token
  <2>1. /\ Len(attempts') = n
        /\ \A i \in 1..Len(attempts) : attempts'[i] = attempts[i]
        /\ attempts'[n].boot = boot /\ boot' = boot
        /\ t \in Tokens /\ guard' = Remember(guard, t)
    BY <1>3, SendFacts
  <2> HIDE DEF t
  <2>2. /\ Len(guard') <= GuardSize
        /\ Len(guard') <= Len(guard) + 1
        /\ Len(guard') < GuardSize => Len(guard') = Len(guard) + 1
        /\ \A k \in 1..Len(guard') :
             guard'[k] = IF k = Len(guard') THEN t
                         ELSE guard[Len(guard) + 1 - Len(guard') + k]
    BY <2>1, RememberFacts DEF TypeOK
  <2>3. Len(guard) <= Len(attempts)
    BY DEF GuardIsRecentPast
  <2>4. ASSUME NEW k \in 1..Len(guard')
        PROVE  guard'[k] = attempts'[Len(attempts') - Len(guard') + k].token
    <3>1. CASE k = Len(guard')
      BY <1>1, <2>1, <2>2, <3>1 DEF t
    <3>2. CASE k # Len(guard')
      <4> DEFINE m == Len(guard) + 1 - Len(guard') + k
      <4>1. m \in 1..Len(guard)
        BY <1>1, <2>2, <3>2
      <4>2. guard'[k] = guard[m]
        BY <2>2, <3>2
      <4>3. guard[m] = attempts[Len(attempts) - Len(guard) + m].token
        BY <4>1 DEF GuardIsRecentPast
      <4>4. /\ Len(attempts) - Len(guard) + m = Len(attempts') - Len(guard') + k
            /\ Len(attempts) - Len(guard) + m \in 1..Len(attempts)
        BY <1>1, <2>1, <2>3, <4>1
      <4> QED
        BY <2>1, <4>2, <4>3, <4>4
    <3> QED
      BY <3>1, <3>2
  <2>5. ASSUME Len(guard') < GuardSize, NEW i \in 1..(Len(attempts') - Len(guard'))
        PROVE  attempts'[i].boot # boot'
    <3>1. Len(guard) < GuardSize /\ i \in 1..(Len(attempts) - Len(guard))
      BY <1>1, <2>1, <2>2, <2>5
    <3>2. i \in 1..Len(attempts)
      BY <1>1, <3>1
    <3> QED
      BY <2>1, <3>1, <3>2 DEF GuardIsRecentPast
  <2> QED
    BY <1>1, <2>1, <2>2, <2>3, <2>4, <2>5 DEF GuardIsRecentPast
<1>4. ASSUME NEW w \in Workspaces, Restart(w)
      PROVE  GuardIsRecentPast'
  <2>1. guard' = <<>> /\ boot' = boot + 1 /\ attempts' = attempts
    BY <1>4 DEF Restart
  <2>2. ASSUME NEW i \in 1..Len(attempts')
        PROVE  attempts'[i].boot # boot'
    <3>1. attempts[i] \in Attempts
      BY <2>1 DEF TypeOK
    <3>2. attempts[i].boot \in Nat /\ attempts[i].boot <= boot
      BY <2>1, <3>1 DEF Attempts, AttemptsAreDated
    <3> QED
      BY <1>1, <2>1, <3>2
  <2> QED
    BY <1>1, <2>1, <2>2 DEF GuardIsRecentPast
<1>5. \/ \E c \in Calls : Send(c)
      \/ \E w \in Workspaces : Restart(w)
      \/ UNCHANGED <<guard, boot>> /\ Len(attempts') = Len(attempts)
  BY GuardMoves, HistoryGrows
<1> QED
  BY <1>2, <1>3, <1>4, <1>5

\* A token accepted again lies before the tail the guard remembers.
LEMMA ReplayStep ==
  TypeOK /\ AsksAreHeld /\ PlansAreSigned /\ CallsOwnAttempts /\ AttemptsAreDated
    /\ GuardIsRecentPast /\ ReplayNeedsEviction /\ [Next]_vars /\ TypeOK'
    => ReplayNeedsEviction'
<1> SUFFICES ASSUME TypeOK, AsksAreHeld, PlansAreSigned, CallsOwnAttempts,
                    AttemptsAreDated, GuardIsRecentPast, ReplayNeedsEviction,
                    [Next]_vars, TypeOK', ~Persistent,
                    NEW i \in 1..Len(attempts'), NEW j \in 1..Len(attempts'),
                    i < j, attempts'[i].token = attempts'[j].token
             PROVE  j - i > GuardSize
  BY DEF ReplayNeedsEviction
<1>1. /\ Len(attempts) \in Nat /\ Len(attempts') \in Nat /\ Len(guard) \in Nat
      /\ GuardSize \in Nat
  BY ConstantsAssumption DEF TypeOK
<1>2. CASE j \in 1..Len(attempts)
  <2>1. i \in 1..Len(attempts)
    BY <1>1, <1>2
  <2>2. attempts[i].token = attempts[j].token
    BY <1>2, <2>1, HistoryGrows DEF SameAttempt
  <2> QED
    BY <1>2, <2>1, <2>2 DEF ReplayNeedsEviction
<1>3. CASE j \notin 1..Len(attempts)
  <2>1. PICK c \in Calls : Send(c)
    BY <1>3, HistoryGrows
  <2>2. /\ j = Len(attempts) + 1 /\ i \in 1..Len(attempts)
        /\ attempts'[i] = attempts[i]
        /\ attempts'[j].token.secret = Secret(boot)
        /\ \A k \in 1..Len(guard) : guard[k] # attempts'[j].token
    BY <1>1, <1>3, <2>1, SendFacts
  <2>3. attempts[i].boot = boot
    BY <2>2 DEF AttemptsAreDated, Secret
  <2>4. ~(i > Len(attempts) - Len(guard))
    <3> SUFFICES ASSUME i > Len(attempts) - Len(guard) PROVE FALSE
      OBVIOUS
    <3> DEFINE k == i - (Len(attempts) - Len(guard))
    <3>1. k \in 1..Len(guard) /\ Len(attempts) - Len(guard) + k = i
      BY <1>1, <2>2
    <3>2. guard[k] = attempts[i].token
      BY <3>1 DEF GuardIsRecentPast
    <3> QED
      BY <2>2, <3>1, <3>2
  <2>5. i \in 1..(Len(attempts) - Len(guard))
    BY <1>1, <2>2, <2>4
  <2>6. Len(guard) >= GuardSize
    BY <1>1, <2>3, <2>5 DEF GuardIsRecentPast
  <2> QED
    BY <1>1, <2>2, <2>5, <2>6
<1> QED
  BY <1>2, <1>3

\* Only Send adds an attempt, and only for what a plan on record shows.
LEMMA SentStep ==
  TypeOK /\ AsksAreHeld /\ PlansAreSigned /\ CallsOwnAttempts /\ SentAsPreviewed
    /\ [Next]_vars => SentAsPreviewed'
<1> SUFFICES ASSUME TypeOK, AsksAreHeld, PlansAreSigned, CallsOwnAttempts,
                    SentAsPreviewed, [Next]_vars,
                    NEW i \in 1..Len(attempts')
             PROVE  \E p \in plans' :
                      /\ attempts'[i].token = p.token
                      /\ attempts'[i].token.secret = Secret(attempts'[i].boot)
                      /\ attempts'[i].request = p.preview.request
                      /\ attempts'[i].workspace = p.preview.workspace
                      /\ p.preview.issued <= attempts'[i].at
                      /\ attempts'[i].at <= p.preview.expires
  BY DEF SentAsPreviewed, Secret
<1>1. plans \subseteq plans'
  BY ForwardOnly
<1>2. CASE i \in 1..Len(attempts)
  <2>1. SameAttempt(attempts'[i], attempts[i])
    BY <1>2, HistoryGrows
  <2>2. PICK p \in plans :
          /\ attempts[i].token = p.token
          /\ attempts[i].token.secret = Secret(attempts[i].boot)
          /\ attempts[i].request = p.preview.request
          /\ attempts[i].workspace = p.preview.workspace
          /\ p.preview.issued <= attempts[i].at
          /\ attempts[i].at <= p.preview.expires
    BY <1>2 DEF SentAsPreviewed
  <2>3. Secret(attempts'[i].boot) = Secret(attempts[i].boot)
    BY <2>1 DEF SameAttempt, Secret
  <2> QED
    BY <1>1, <2>1, <2>2, <2>3 DEF SameAttempt
<1>3. CASE i \notin 1..Len(attempts)
  <2>1. PICK c \in Calls : Send(c)
    BY <1>3, HistoryGrows
  <2>2. i = Len(attempts) + 1
    BY <1>3, <2>1, SendFacts DEF TypeOK
  <2>3. /\ attempts'[i].token.secret = Secret(boot) /\ attempts'[i].boot = boot
        /\ plans' = plans
        /\ \E p \in plans :
             /\ attempts'[i].token = p.token
             /\ attempts'[i].request = p.preview.request
             /\ attempts'[i].workspace = p.preview.workspace
             /\ p.preview.issued <= attempts'[i].at
             /\ attempts'[i].at <= p.preview.expires
    BY <2>1, <2>2, SendFacts
  <2> QED
    BY <2>3 DEF Secret
<1> QED
  BY <1>2, <1>3

\* How one call moves in one step of the system.
LEMMA CallMoves ==
  ASSUME TypeOK, [Next]_vars, NEW d \in Calls
  PROVE  \/ call'[d] = call[d]
         \/ /\ call[d].pc = "idle" /\ call'[d].pc = "resolved"
            /\ call'[d].outcome = call[d].outcome
            /\ \E ask \in PossibleAsks : Confirm(d, ask)
         \/ /\ call[d].pc \in {"idle", "resolved"} /\ call'[d].pc = "done"
            /\ call'[d].outcome \in Refusals \cup {"not_resolved"}
         \/ Send(d)
         \/ /\ call[d].pc = "sending" /\ call'[d].pc = "verifying"
            /\ call'[d].attempt = call[d].attempt /\ call'[d].outcome = call[d].outcome
            /\ attempts[call[d].attempt].fate \in {"stored", "deleted"}
         \/ /\ call[d].pc \in {"resolved", "sending", "verifying"}
            /\ call'[d].pc = "done" /\ call'[d].outcome \in {"failed", "gone"}
         \/ /\ call[d].pc = "verifying" /\ call'[d].pc = "done"
            /\ call'[d].outcome = "verification_failed"
         \/ /\ ReadBack(d)
            /\ call[d].pc = "verifying" /\ call'[d].pc = "done"
            /\ call'[d].outcome = "verified"
<1>a. /\ call \in [Calls -> CallStates] /\ call[d] \in CallStates
  BY DEF TypeOK
<1>b. ASSUME NEW c \in Calls, NEW o, Return(c, o)
      PROVE  /\ c # d => call'[d] = call[d]
             /\ c = d => call'[d].pc = "done" /\ call'[d].outcome = o
  BY <1>a, <1>b DEF Return, Idle
<1>1. CASE UNCHANGED call
  BY <1>1
<1>2. ASSUME NEW c \in Calls, Step(c)
      PROVE  \/ c # d /\ call'[d] = call[d]
             \/ c = d
  <2>1. \/ \E o : Return(c, o)
        \/ \E r : call' = [call EXCEPT ![c] = r]
    BY <1>2 DEF Step, Confirm, ListingFails, Refuse, Send, SendSucceeds, SendFails,
       ReadBack, ReadBackFails, Cancel
  <2> QED
    BY <1>a, <1>b, <2>1
<1>3. ASSUME NEW ask \in PossibleAsks, Confirm(d, ask)
      PROVE  \/ /\ call[d].pc = "idle" /\ call'[d].pc = "resolved"
                /\ call'[d].outcome = call[d].outcome
             \/ /\ call[d].pc = "idle" /\ call'[d].pc = "done"
                /\ call'[d].outcome = "not_resolved"
  <2>1. CASE Listing[ask.name] = NoValue
    BY <1>b, <1>3, <2>1 DEF Confirm
  <2>2. CASE Listing[ask.name] # NoValue
    BY <1>a, <1>3, <2>2 DEF Confirm, CallStates
  <2> QED
    BY <2>1, <2>2
<1>4. CASE ListingFails(d)
  BY <1>b, <1>4 DEF ListingFails
<1>5. CASE Refuse(d)
  <2>1. \E o \in Refusals : Return(d, o) /\ call[d].pc = "resolved"
    BY <1>5, RefusalRange DEF Refuse, Refusals
  <2> QED
    BY <1>b, <2>1
<1>6. CASE SendSucceeds(d)
  BY <1>a, <1>6 DEF SendSucceeds, CallStates
<1>7. CASE SendFails(d)
  BY <1>b, <1>7 DEF SendFails
<1>8. CASE ReadBack(d)
  BY <1>b, <1>8 DEF ReadBack
<1>9. CASE ReadBackFails(d)
  BY <1>b, <1>9 DEF ReadBackFails
<1>10. CASE Cancel(d)
  BY <1>b, <1>10 DEF Cancel
<1>11. ASSUME NEW w \in Workspaces, Restart(w)
       PROVE  \/ call'[d] = call[d]
              \/ /\ call[d].pc \in {"resolved", "sending", "verifying"}
                 /\ call'[d].pc = "done" /\ call'[d].outcome = "gone"
  BY <1>a, <1>11 DEF Restart, CallStates, Idle
<1>12. \/ UNCHANGED call
       \/ \E c \in Calls : Step(c)
       \/ \E w \in Workspaces : Restart(w)
  BY DEF Next, vars, Tick, Rename, ExpireListing, Preview, Settle
<1> QED
  BY <1>1, <1>2, <1>3, <1>4, <1>5, <1>6, <1>7, <1>8, <1>9, <1>10, <1>11, <1>12 DEF Step

\* What a call holds while it waits stays among what was handed out.
LEMMA AsksStep == TypeOK /\ AsksAreHeld /\ [Next]_vars => AsksAreHeld'
<1> SUFFICES ASSUME TypeOK, AsksAreHeld, [Next]_vars,
                    NEW c \in Calls, call'[c].pc = "resolved"
             PROVE  /\ call'[c].channel \in Channels
                    /\ call'[c].ask \in Asks
                    /\ \E p \in plans' : call'[c].ask.preview = p.preview
                    /\ \E p \in plans' : call'[c].ask.token = p.token
  BY DEF AsksAreHeld
<1>1. plans \subseteq plans'
  BY ForwardOnly
<1>2. CASE call'[c] = call[c]
  BY <1>1, <1>2 DEF AsksAreHeld
<1>3. ASSUME NEW ask \in PossibleAsks, Confirm(c, ask)
      PROVE  /\ call'[c].channel \in Channels
             /\ call'[c].ask \in Asks
             /\ \E p \in plans : call'[c].ask.preview = p.preview
             /\ \E p \in plans : call'[c].ask.token = p.token
  <2>1. Listing \in Directories
    BY DEF Listing, TypeOK
  <2>2. /\ ask \in Asks
        /\ \E p \in plans : ask.preview = p.preview
        /\ \E p \in plans : ask.token = p.token
    BY DEF PossibleAsks, Asks, TypeOK, Plans
  <2>3. Listing[ask.name] \in Channels \cup {NoValue}
    BY <2>1, <2>2 DEF Directories, Asks
  <2>4. call[c] \in CallStates
    BY DEF TypeOK
  <2>5. Listing[ask.name] # NoValue
    <3> SUFFICES ASSUME Listing[ask.name] = NoValue PROVE FALSE
      OBVIOUS
    <3>1. Return(c, "not_resolved")
      BY <1>3 DEF Confirm
    <3> QED
      BY <3>1 DEF Return, Idle, TypeOK
  <2>6. call'[c].channel = Listing[ask.name] /\ call'[c].ask = ask
    BY <1>3, <2>4, <2>5 DEF Confirm, CallStates, TypeOK
  <2> QED
    BY <2>2, <2>3, <2>5, <2>6
<1>4. CASE Send(c)
  BY <1>4 DEF Send, Idle, TypeOK
<1> QED
  BY <1>1, <1>2, <1>3, <1>4, CallMoves DEF ReadBack

\* A call and its attempt keep pointing at each other.
LEMMA OwnStep ==
  TypeOK /\ AsksAreHeld /\ PlansAreSigned /\ CallsOwnAttempts /\ [Next]_vars
    => CallsOwnAttempts'
<1> SUFFICES ASSUME TypeOK, AsksAreHeld, PlansAreSigned, CallsOwnAttempts, [Next]_vars
             PROVE  CallsOwnAttempts'
  OBVIOUS
<1>1. ASSUME NEW d \in Calls, call[d].pc \in {"sending", "verifying", "done"}
      PROVE  call'[d].pc \in {"sending", "verifying", "done"}
  BY <1>1, CallMoves DEF Send
<1>2. ASSUME NEW d \in Calls, Send(d)
      PROVE  call'[d] = [Idle EXCEPT !.pc = "sending", !.attempt = Len(attempts) + 1]
  BY <1>2 DEF Send, TypeOK
<1>3. ASSUME NEW i \in 1..Len(attempts')
      PROVE  call'[attempts'[i].call].pc \in {"sending", "verifying", "done"}
  <2>1. CASE i \in 1..Len(attempts)
    <3>1. attempts[i] \in Attempts
      BY <2>1 DEF TypeOK
    <3>2. attempts'[i].call = attempts[i].call /\ attempts[i].call \in Calls
      BY <2>1, <3>1, HistoryGrows DEF SameAttempt, Attempts
    <3> QED
      BY <1>1, <2>1, <3>2 DEF CallsOwnAttempts
  <2>2. CASE i \notin 1..Len(attempts)
    <3>1. PICK c \in Calls : Send(c)
      BY <2>2, HistoryGrows
    <3>2. attempts'[i].call = c
      BY <2>2, <3>1, SendFacts DEF TypeOK
    <3> QED
      BY <1>2, <3>1, <3>2 DEF Idle
  <2> QED
    BY <2>1, <2>2
<1>4. ASSUME NEW c \in Calls, call'[c].pc \in {"sending", "verifying"}
      PROVE  /\ call'[c].attempt \in 1..Len(attempts')
             /\ attempts'[call'[c].attempt].call = c
             /\ call'[c].pc = "verifying" =>
                  attempts'[call'[c].attempt].fate \in {"stored", "deleted"}
             /\ call'[c].outcome = NoValue
  <2>1. CASE Send(c)
    <3>1. call'[c].attempt = Len(attempts) + 1 /\ call'[c].outcome = NoValue
          /\ call'[c].pc = "sending"
      BY <1>2, <2>1 DEF Idle
    <3>2. Len(attempts') = Len(attempts) + 1 /\ attempts'[Len(attempts) + 1].call = c
      BY <2>1, SendFacts
    <3> QED
      BY <3>1, <3>2 DEF TypeOK
  <2>2. CASE ~Send(c)
    <3>1. /\ call[c].pc \in {"sending", "verifying"}
          /\ call'[c].attempt = call[c].attempt /\ call'[c].outcome = call[c].outcome
          /\ call'[c].pc = "verifying" =>
               attempts[call[c].attempt].fate \in {"stored", "deleted"}
      BY <1>4, <2>2, CallMoves DEF CallsOwnAttempts
    <3>2. /\ call[c].attempt \in 1..Len(attempts)
          /\ attempts[call[c].attempt].call = c
          /\ call[c].outcome = NoValue
      BY <3>1 DEF CallsOwnAttempts
    <3>3. /\ Len(attempts) <= Len(attempts')
          /\ attempts'[call[c].attempt].call = c
          /\ attempts[call[c].attempt].fate \in {"stored", "deleted"} =>
               attempts'[call[c].attempt].fate \in {"stored", "deleted"}
      BY <3>2, HistoryGrows DEF SameAttempt
    <3>4. Len(attempts) \in Nat /\ Len(attempts') \in Nat
      BY HistoryGrows, SendFacts DEF TypeOK
    <3> QED
      BY <3>1, <3>2, <3>3, <3>4
  <2> QED
    BY <2>1, <2>2
<1> QED
  BY <1>3, <1>4 DEF CallsOwnAttempts

\* Receipts stay true: a result is decided once, from what the call then knows, and
\* what it says about the attempt cannot become false later.
LEMMA ReceiptStep ==
  TypeOK /\ AsksAreHeld /\ PlansAreSigned /\ CallsOwnAttempts /\ ReceiptTellsTheTruth
    /\ [Next]_vars => ReceiptTellsTheTruth'
<1> SUFFICES ASSUME TypeOK, AsksAreHeld, PlansAreSigned, CallsOwnAttempts,
                    ReceiptTellsTheTruth, [Next]_vars
             PROVE  ReceiptTellsTheTruth'
  OBVIOUS
<1>0. Len(attempts) \in Nat
  BY DEF TypeOK
<1>1. ASSUME NEW i \in 1..Len(attempts')
      PROVE  \/ i \in 1..Len(attempts) /\ attempts'[i].call = attempts[i].call
             \/ /\ i = Len(attempts) + 1 /\ i \notin 1..Len(attempts)
                /\ Send(attempts'[i].call) /\ attempts'[i].call \in Calls
  <2>1. CASE i \in 1..Len(attempts)
    BY <2>1, HistoryGrows DEF SameAttempt
  <2>2. CASE i \notin 1..Len(attempts)
    <3>1. PICK c \in Calls : Send(c)
      BY <2>2, HistoryGrows
    <3> QED
      BY <1>0, <2>2, <3>1, SendFacts
  <2> QED
    BY <2>1, <2>2
<1>2. ASSUME NEW c \in Calls, Send(c), NEW i \in 1..Len(attempts)
      PROVE  attempts[i].call # c
  BY <1>2 DEF Send, CallsOwnAttempts
<1>3. ASSUME NEW i \in 1..Len(attempts'), NEW j \in 1..Len(attempts'),
             attempts'[i].call = attempts'[j].call
      PROVE  i = j
  BY <1>0, <1>1, <1>2, <1>3 DEF ReceiptTellsTheTruth
<1>4. ASSUME NEW c \in Calls
      PROVE  /\ call'[c].outcome \in Refusals \cup {"not_resolved"} =>
                  \A i \in 1..Len(attempts') : attempts'[i].call # c
             /\ call'[c].outcome \in {"verified", "verification_failed"} =>
                  \E i \in 1..Len(attempts') :
                    /\ attempts'[i].call = c
                    /\ attempts'[i].fate \in {"stored", "deleted"}
             /\ call'[c].outcome = "verified" =>
                  \E i \in 1..Len(attempts') : attempts'[i].call = c /\ attempts'[i].read
  <2>0. \A i \in 1..Len(attempts) :
          /\ i \in 1..Len(attempts')
          /\ attempts'[i].call = attempts[i].call
          /\ attempts[i].fate \in {"stored", "deleted"} =>
               attempts'[i].fate \in {"stored", "deleted"}
          /\ attempts[i].read => attempts'[i].read
    <3>1. Len(attempts') \in Nat /\ Len(attempts) <= Len(attempts')
      BY HistoryGrows, SendFacts DEF TypeOK
    <3> QED
      BY <1>0, <3>1, HistoryGrows DEF SameAttempt
  <2>1. CASE call'[c].outcome = call[c].outcome /\ ~Send(c)
    <3>1. ASSUME call[c].outcome \in Refusals \cup {"not_resolved"}, NEW i \in 1..Len(attempts')
          PROVE  attempts'[i].call # c
      <4>1. \A j \in 1..Len(attempts) : attempts[j].call # c
        BY <3>1 DEF ReceiptTellsTheTruth
      <4> QED
        BY <1>1, <2>1, <4>1
    <3>2. ASSUME call[c].outcome \in {"verified", "verification_failed"}
          PROVE  \E i \in 1..Len(attempts) :
                   attempts[i].call = c /\ attempts[i].fate \in {"stored", "deleted"}
      BY <3>2 DEF ReceiptTellsTheTruth
    <3>3. ASSUME call[c].outcome = "verified"
          PROVE  \E i \in 1..Len(attempts) : attempts[i].call = c /\ attempts[i].read
      BY <3>3 DEF ReceiptTellsTheTruth
    <3> QED
      BY <2>0, <2>1, <3>1, <3>2, <3>3
  <2>2. CASE Send(c)
    <3>1. call'[c].outcome = NoValue
      BY <2>2 DEF Send, Idle, TypeOK
    <3> QED
      BY <3>1, NoValueAssumption DEF Outcomes
  <2>3. CASE /\ call[c].pc \in {"idle", "resolved"} /\ ~Send(c)
             /\ call'[c].outcome \in Refusals \cup {"not_resolved"}
    <3>1. \A i \in 1..Len(attempts) : attempts[i].call # c
      BY <2>3 DEF CallsOwnAttempts
    <3> QED
      BY <1>1, <2>3, <3>1 DEF Refusals
  <2>4. CASE call'[c].outcome \in {"failed", "gone"}
    BY <2>4 DEF Refusals
  <2>5. CASE call[c].pc = "verifying" /\ call'[c].outcome = "verification_failed"
    <3>1. /\ call[c].attempt \in 1..Len(attempts)
          /\ attempts[call[c].attempt].call = c
          /\ attempts[call[c].attempt].fate \in {"stored", "deleted"}
      BY <2>5 DEF CallsOwnAttempts
    <3> QED
      BY <2>0, <2>5, <3>1 DEF Refusals
  <2>6. CASE ReadBack(c) /\ call[c].pc = "verifying" /\ call'[c].outcome = "verified"
    <3> DEFINE k == call[c].attempt
               marked == [attempts[k] EXCEPT !.read = TRUE]
    <3>1. /\ k \in 1..Len(attempts) /\ attempts[k].call = c
          /\ attempts[k].fate \in {"stored", "deleted"}
      BY <2>6 DEF CallsOwnAttempts
    <3>2. attempts' = [attempts EXCEPT ![k] = marked] /\ attempts[k] \in Attempts
      BY <2>6, <3>1 DEF ReadBack, TypeOK
    <3>3. attempts'[k] = marked
      <4> HIDE DEF k, marked
      <4> QED
        BY <3>1, <3>2, SeqUpdate DEF TypeOK
    <3>4. attempts'[k].read
      BY <3>2, <3>3, Zenon DEF Attempts
    <3> HIDE DEF k
    <3> QED
      BY <2>0, <2>6, <3>1, <3>4 DEF Refusals
  <2>7. ~Send(c) /\ call'[c] = call[c] => call'[c].outcome = call[c].outcome
    OBVIOUS
  <2> QED
    BY <2>1, <2>2, <2>3, <2>4, <2>5, <2>6, CallMoves
<1> QED
  BY <1>3, <1>4 DEF ReceiptTellsTheTruth

-----------------------------------------------------------------------------
(* The theorems *)

\* The inductive invariant holds initially ...
LEMMA InitInductive == Init => Inductive
<1> SUFFICES ASSUME Init PROVE Inductive
  OBVIOUS
<1>1. attempts = <<>> /\ guard = <<>> /\ plans = {} /\ Len(attempts) = 0 /\ Len(guard) = 0
  BY DEF Init
<1>2. \A c \in Calls : call[c].pc = "idle" /\ call[c].outcome = NoValue
  BY DEF Init, Idle
<1>3. PlansAreSigned /\ AsksAreHeld /\ AttemptsAreDated /\ GuardIsRecentPast
  BY <1>1, <1>2 DEF PlansAreSigned, AsksAreHeld, AttemptsAreDated, GuardIsRecentPast
<1>4. CallsOwnAttempts /\ SentAsPreviewed /\ ReplayNeedsEviction
  BY <1>1, <1>2 DEF CallsOwnAttempts, SentAsPreviewed, ReplayNeedsEviction
<1>5. ReceiptTellsTheTruth
  BY <1>1, <1>2, NoValueAssumption DEF ReceiptTellsTheTruth, Outcomes
<1> QED
  BY <1>3, <1>4, <1>5, InitType DEF Inductive

\* ... and every step keeps it.
LEMMA NextInductive == Inductive /\ [Next]_vars => Inductive'
<1> SUFFICES ASSUME Inductive, [Next]_vars PROVE Inductive'
  OBVIOUS
<1>1. TypeOK'
  BY TypeStep DEF Inductive
<1> QED
  BY <1>1, PlansStep, AsksStep, AttemptsStep, GuardStep, OwnStep, SentStep, ReplayStep,
     ReceiptStep DEF Inductive

\* The conjunction Inductive holds in every reachable state.
THEOREM InductiveInvariant == Spec => []Inductive
  BY InitInductive, NextInductive, PTL DEF Spec

\* Type correctness of the confirmed-write system.
THEOREM TypeCorrect == Spec => []TypeOK
<1>1. Inductive => TypeOK
  BY DEF Inductive
<1> QED
  BY <1>1, InductiveInvariant, PTL

\* Whatever the interleaving of confirmed calls, renames, cache expiry and restarts, a
\* write goes out only as a plan previewed it: same request, same workspace, in time.
THEOREM SendsOnlyPreviews == Spec => []SentAsPreviewed
<1>1. Inductive => SentAsPreviewed
  BY DEF Inductive
<1> QED
  BY <1>1, InductiveInvariant, PTL

\* With an ephemeral secret, two attempts with one token are more than GuardSize
\* attempts apart, for every guard size and any number of restarts.
THEOREM ReplayDistance == Spec => []ReplayNeedsEviction
<1>1. Inductive => ReplayNeedsEviction
  BY DEF Inductive
<1> QED
  BY <1>1, InductiveInvariant, PTL

\* One attempt per call, nothing sent by a refused call, and every receipt true.
THEOREM ReceiptsAreTrue == Spec => []ReceiptTellsTheTruth
<1>1. Inductive => ReceiptTellsTheTruth
  BY DEF Inductive
<1> QED
  BY <1>1, InductiveInvariant, PTL

-----------------------------------------------------------------------------
(* Refinement *)

\* A step of the system is a step of one-shot writes, or changes nothing they see.
LEMMA StepRefines ==
  ASSUME Inductive, Inductive', [Next]_vars, ~Persistent,
         (Len(attempts) <= GuardSize)'
  PROVE  [Promise!Next]_(Promise!vars)
<1> DEFINE performed == [i \in 1..Len(attempts) |-> Act(attempts[i])]
           approved == {Approval(p) : p \in plans}
<1>0. TypeOK /\ TypeOK' /\ CallsOwnAttempts /\ plans \subseteq plans'
  BY ForwardOnly DEF Inductive
<1>1. CASE \E c \in Calls : Send(c)
  <2>1. PICK c \in Calls : Send(c)
    BY <1>1
  <2> DEFINE n == Len(attempts) + 1
             new == attempts'[n]
  <2>2. /\ Len(attempts') = n /\ n \in 1..n
        /\ \A i \in 1..Len(attempts) : attempts'[i] = attempts[i]
        /\ plans' = plans
    BY <1>0, <2>1, SendFacts DEF Inductive, TypeOK
  <2>3. PICK p \in plans : /\ new.token = p.token
                           /\ new.request = p.preview.request
                           /\ new.workspace = p.preview.workspace
    BY <2>1, SendFacts DEF Inductive
  <2>4. Act(new) = Approval(p)
    BY <2>3 DEF Act, Approval
  <2>5. performed' = Append(performed, Act(new))
    BY <1>0, <2>2 DEF Act, TypeOK
  <2>6. ASSUME NEW i \in 1..Len(performed) PROVE performed[i].token # Act(new).token
    <3>1. Len(performed) = Len(attempts) /\ i \in 1..Len(attempts)
      BY <1>0 DEF TypeOK
    <3>2. attempts'[i].token # attempts'[n].token
      <4>1. TypeOK' /\ ReplayNeedsEviction' /\ Len(attempts') <= GuardSize
        BY DEF Inductive
      <4>2. GuardSize \in Nat /\ Len(attempts) \in Nat
        BY <1>0, ConstantsAssumption DEF TypeOK
      <4>3. i \in 1..Len(attempts') /\ n \in 1..Len(attempts') /\ i < n
        BY <2>2, <3>1, <4>2
      <4>4. n - i <= GuardSize
        BY <2>2, <3>1, <4>1, <4>2
      <4> QED
        BY <4>1, <4>2, <4>3, <4>4 DEF ReplayNeedsEviction
    <3> QED
      BY <2>2, <3>1, <3>2 DEF Act
  <2>7. Approval(p) \in approved /\ approved' = approved
    BY <2>2
  <2> HIDE DEF performed, approved, new, n
  <2> QED
    BY <2>4, <2>5, <2>6, <2>7 DEF Promise!Next, Promise!Perform, performed, approved
<1>2. CASE ~\E c \in Calls : Send(c)
  <2>1. performed' = performed
    BY <1>0, <1>2, HistoryGrows DEF SameAttempt, Act, TypeOK
  <2>2. approved \subseteq approved'
    BY <1>0
  <2>3. approved' \subseteq [token : Tokens, request : Requests, workspace : Workspaces]
    BY <1>0 DEF TypeOK, Plans, Previews, Approval
  <2> QED
    BY <2>1, <2>2, <2>3 DEF Promise!Next, Promise!Approve, Promise!vars
<1> QED
  BY <1>1, <1>2

\* Confirmed writes implement one-shot writes for every guard size, as long as no more
\* attempts were made than the guard holds and the secret dies with the process.
THEOREM ImplementsOneShot ==
  ASSUME ~Persistent
  PROVE  Spec /\ [](Len(attempts) <= GuardSize) => WritesAreOneShot
<1>1. Init => Promise!Init
  BY DEF Init, Promise!Init
<1>2. /\ Inductive /\ Inductive' /\ [Next]_vars /\ (Len(attempts) <= GuardSize)'
      => [Promise!Next]_(Promise!vars)
  BY StepRefines
<1> QED
  BY <1>1, <1>2, InductiveInvariant, PTL DEF Spec, WritesAreOneShot, Promise!Spec
=============================================================================
