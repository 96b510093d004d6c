------------------------------ MODULE ToolCalls ------------------------------
(***************************************************************************)
(* Calls of the curated client, the MCP tools and the command line: each   *)
(* runs one of the Programs over the generated client, through failing     *)
(* requests, cancellation, a question to the user, the retry wrapper and   *)
(* the audit log.  Calls share nothing that is modelled here but the HTTP  *)
(* client (ResolverCache, RateLimiter and ConfirmedWrites model what they  *)
(* share).                                                                 *)
(***************************************************************************)
EXTENDS GeneratedClient, Programs

CONSTANTS
    MaxAttempts,   \* with_retries(max_attempts)
    MaxDelay       \* with_retries(max_delay_ms), in ticks

ASSUME RetryAssumption == MaxAttempts \in Nat \ {0} /\ MaxDelay \in Nat

VARIABLES
    call,    \* the program each call runs and where it is
    audit    \* the audit lines of each call, and the number that could not be written

callVars == <<call, audit>>
vars == <<netVars, callVars>>

-----------------------------------------------------------------------------
Outcomes == {"value", "failure", "raised", "cancelled"}
Lines == {"attempt", "success", "failure", "dry_run", "ok", "error"}

NoCall == [pc |-> "idle"]
NoAudit == [lines |-> <<>>, lost |-> 0]

Call == {NoCall}
    \cup [pc: {"next", "waiting", "asking", "pausing"}, prog: Programs, at: 1 .. 6,
          attempt: 1 .. MaxAttempts, left: 0 .. MaxDelay, proof: {"none", "verified", "unverified"}]
    \cup [pc: {"done"}, prog: Programs, outcome: Outcomes]

Running(c) == call[c].pc \in {"next", "waiting", "asking", "pausing"}
Step(c) == call[c].prog.steps[call[c].at]

Init ==
    /\ NetInit
    /\ call = [c \in Calls |-> NoCall]
    /\ audit = [c \in Calls |-> NoAudit]

-----------------------------------------------------------------------------
(* JsonlAuditWriter.write never raises: a line that cannot be written is   *)
(* gone, and the next one is written all the same.                         *)
Audit(c, line) ==
    audit' = [audit EXCEPT ![c] = [lines |-> Append(@.lines, line), lost |-> @.lost]]
    \/ audit' = [audit EXCEPT ![c] = [lines |-> @.lines, lost |-> @.lost + 1]]

(* Mutant: any returned result counts as a success.                        *)
VerdictOfReturn(kind, outcome) ==
    CASE kind = "audited" -> IF outcome \in {"value", "failure"} THEN {"success"} ELSE {}
      [] kind = "traced" -> IF outcome = "raised" THEN {"error"} ELSE {"ok"}
      [] OTHER -> {}

(* The line that ends a call: a raw write is "success" only if its result  *)
(* is ok, and cut short it has no second line; traced() writes one for     *)
(* every end, and has no other word than ok for a cancelled operation.     *)
Verdict(kind, outcome) ==
    CASE kind = "audited" -> IF outcome = "cancelled" THEN {}
                             ELSE {IF outcome = "value" THEN "success" ELSE "failure"}
      [] kind = "traced" -> IF outcome = "raised" THEN {"error"} ELSE {"ok"}
      [] OTHER -> {}

End(c, outcome) ==
    /\ call' = [call EXCEPT ![c] = [pc |-> "done", prog |-> @.prog, outcome |-> outcome]]
    /\ LET lines == Verdict(call[c].prog.kind, outcome) IN
       IF lines = {} THEN UNCHANGED audit ELSE \E line \in lines : Audit(c, line)

Raise(c) == End(c, IF call[c].prog.kind = "command" THEN "failure" ELSE "raised")

(* On to the next step, or to the value at the end.                        *)
Advance(c, proof) ==
    IF call[c].at < Len(call[c].prog.steps)
    THEN /\ call' = [call EXCEPT ![c].pc = "next", ![c].at = @ + 1, ![c].proof = proof]
         /\ UNCHANGED audit
    ELSE End(c, "value")

-----------------------------------------------------------------------------
(* A call starts; a raw write leaves its "attempt" line first, a dry run   *)
(* leaves one and is over.                                                 *)
Start(c, p) ==
    /\ call[c].pc = "idle"
    /\ UNCHANGED netVars
    /\ IF p.steps = <<>>
       THEN /\ call' = [call EXCEPT ![c] = [pc |-> "done", prog |-> p, outcome |-> "value"]]
            /\ Audit(c, "dry_run")
       ELSE /\ call' = [call EXCEPT ![c] = [pc |-> "next", prog |-> p, at |-> 1, attempt |-> 1,
                                            left |-> 0, proof |-> "none"]]
            /\ IF p.kind = "audited" THEN Audit(c, "attempt") ELSE UNCHANGED audit

(* Arguments the façade refuses: no request is made.                       *)
Refuse(c) ==
    /\ call[c].pc = "next" /\ call[c].at = 1
    /\ call[c].prog.kind \in {"facade", "tool", "command"}
    /\ End(c, "failure")
    /\ UNCHANGED netVars

Request(c) ==
    /\ call[c].pc = "next" /\ Step(c).as # "ask"
    /\ Invoke(c, Step(c).op)
    /\ call' = [call EXCEPT ![c].pc = "waiting"]
    /\ UNCHANGED audit

(* A name found in the cache, or an id given instead.                      *)
SkipLookup(c) ==
    /\ call[c].pc = "next" /\ Step(c).as = "lookup"
    /\ Advance(c, call[c].proof) \/ End(c, "failure")
    /\ UNCHANGED netVars

AskUser(c) ==
    /\ call[c].pc = "next" /\ Step(c).as = "ask"
    /\ call' = [call EXCEPT ![c].pc = "asking"]
    /\ UNCHANGED <<netVars, audit>>

(* The user confirms; or declines, or cancels the question.                *)
UserAnswers(c) ==
    /\ call[c].pc = "asking"
    /\ Advance(c, call[c].proof) \/ End(c, "failure")
    /\ UNCHANGED netVars

-----------------------------------------------------------------------------
(* Mutant: a failed direct read fails the write it was to confirm.         *)
AfterProofRaising(c, ok) ==
    IF ok THEN Advance(c, "verified") ELSE Raise(c)

(* The direct read after a write is never the write's failure.             *)
AfterProof(c, ok) == Advance(c, IF ok THEN "verified" ELSE "unverified")

(* A listing for a name: no match, or several, is a failure value, but the *)
(* failure of the listing itself is nobody's to turn into one.             *)
AfterLookup(c, ok) ==
    IF ok THEN Advance(c, call[c].proof) \/ End(c, "failure") ELSE Raise(c)

(* default_is_retryable, over the errors the generated client raises.      *)
Transient(result) ==
    result.kind \in {"transport", "protocol"}
    \/ (result.kind = "status" /\ result.status \in {"early", "throttled", "server"})

(* Mutant: one attempt too many.                                           *)
AfterBareOnceMore(c, result) ==
    IF result = Value THEN Advance(c, call[c].proof)
    ELSE IF call[c].prog.kind = "retried" /\ call[c].attempt <= MaxAttempts /\ Transient(result)
    THEN \E delay \in 0 .. MaxDelay :
            /\ call' = [call EXCEPT ![c].pc = "pausing", ![c].left = delay,
                                    ![c].attempt = @ + 1]
            /\ UNCHANGED audit
    ELSE Raise(c)

(* with_retries: attempts are counted, delays are capped.                  *)
AfterBare(c, result) ==
    IF result = Value THEN Advance(c, call[c].proof)
    ELSE IF call[c].prog.kind = "retried" /\ call[c].attempt < MaxAttempts /\ Transient(result)
    THEN \E delay \in 0 .. MaxDelay :
            /\ call' = [call EXCEPT ![c].pc = "pausing", ![c].left = delay,
                                    ![c].attempt = @ + 1]
            /\ UNCHANGED audit
    ELSE Raise(c)

Take(c) ==
    /\ call[c].pc = "waiting" /\ conn[c].pc = "returned"
    /\ Collect(c)
    /\ LET ok == conn[c].result = Value IN
       \/ Step(c).as = "lookup" /\ AfterLookup(c, ok)
       \/ Step(c).as = "main" /\ IF ok THEN Advance(c, call[c].proof) ELSE End(c, "failure")
       \/ Step(c).as = "soft" /\ Advance(c, call[c].proof)
       \/ Step(c).as = "proof" /\ AfterProof(c, ok)
       \/ Step(c).as = "bare" /\ AfterBare(c, conn[c].result)

(* The pause of with_retries is over.                                      *)
Again(c) ==
    /\ call[c].pc = "pausing" /\ call[c].left = 0
    /\ call' = [call EXCEPT ![c].pc = "next"]
    /\ UNCHANGED <<netVars, audit>>

(* The task is cancelled at an await: no handler swallows that.            *)
Cancel(c) ==
    /\ \/ call[c].pc = "waiting" /\ Awaiting(c) /\ Drop(c)
       \/ call[c].pc \in {"asking", "pausing"} /\ UNCHANGED netVars
    /\ End(c, "cancelled")

(* The slot is used again.  Counters are per call, so requests that may    *)
(* still arrive are waited for.                                            *)
Retire(c) ==
    /\ call[c].pc = "done" /\ stray[c] = 0
    /\ call' = [call EXCEPT ![c] = NoCall]
    /\ audit' = [audit EXCEPT ![c] = NoAudit]
    /\ sent' = [sent EXCEPT ![c] = 0]
    /\ applied' = [applied EXCEPT ![c] = 0]
    /\ UNCHANGED <<conn, stray, open>>

Tick ==
    /\ \E c \in Calls : Running(c)
    /\ conn' = [c \in Calls |-> Older(conn[c])]
    /\ call' = [c \in Calls |->
        IF call[c].pc = "pausing" /\ call[c].left > 0 THEN [call[c] EXCEPT !.left = @ - 1] ELSE call[c]]
    /\ UNCHANGED <<sent, applied, stray, open, audit>>

Network(c) ==
    /\ Serve(c) \/ ServeStray(c) \/ Answer(c) \/ Break(c) \/ Resend(c)
    /\ UNCHANGED callVars

CloseClient == Close /\ UNCHANGED callVars

Proceed(c) ==
    SkipLookup(c) \/ Request(c) \/ AskUser(c) \/ Take(c) \/ Again(c)

Next ==
    \/ \E c \in Calls, p \in Programs : Start(c, p)
    \/ \E c \in Calls : Refuse(c) \/ UserAnswers(c) \/ Proceed(c) \/ Network(c) \/ Cancel(c) \/ Retire(c)
    \/ Tick
    \/ CloseClient

(* Coroutines that can run do, and time passes.                            *)
Fairness ==
    /\ WF_vars(Tick)
    /\ \A c \in Calls :
        /\ WF_vars(Proceed(c))
        /\ WF_vars(Resend(c) /\ UNCHANGED callVars)
        /\ WF_vars((Answer(c) \/ Break(c)) /\ UNCHANGED callVars)

Spec == Init /\ [][Next]_vars /\ Fairness

-----------------------------------------------------------------------------
(* Properties *)

TypeOK ==
    /\ NetTypeOK
    /\ call \in [Calls -> Call]
    /\ \A c \in Calls : Running(c) => call[c].at \in DOMAIN call[c].prog.steps
    /\ audit \in [Calls -> [lines: Seq(Lines), lost: Nat]]

(* However requests and answers are lost, whoever gives up and whatever is *)
(* retried around it, a call writes at most one request to the wire and    *)
(* Pumble carries at most one out (Write's empty retry configuration,      *)
(* with_retries accepting reads only).                                     *)
WritesReachPumbleOnce ==
    \A c \in Calls : sent[c] <= 1 /\ applied[c] + stray[c] <= 1

(* What the caller is told is the truth: when a program with a write ends  *)
(* with a value, Pumble has carried the write out, and when a façade or a  *)
(* tool raises, no write was put on the wire, so the caller may try again  *)
(* (match_response, _guard).                                               *)
OutcomesTellTheTruth ==
    \A c \in Calls : call[c].pc = "done" =>
        /\ call[c].outcome = "value" /\ HasWrite(call[c].prog) => applied[c] = 1
        /\ call[c].outcome = "raised" /\ call[c].prog.kind # "traced" => sent[c] = 0

(* The audit log of a raw write, whichever of its lines could be written:  *)
(* each one that is there is right - the attempt first, then "success" only*)
(* for a write carried out and never for a failure, "failure" never for a  *)
(* value - and none is missing but those that could not be written: there  *)
(* is no request without an attempt, and no result without an outcome.     *)
(* A cancelled call may leave its attempt alone in the log.                *)
AuditIsTrue ==
    \A c \in Calls : call[c].pc # "idle" /\ call[c].prog.kind = "audited" =>
        LET lines == audit[c].lines
            told == call[c].pc = "done" /\ call[c].outcome # "cancelled" IN
        /\ Len(lines) + audit[c].lost >= IF told THEN 2 ELSE 1
        /\ \A i \in DOMAIN lines :
            \/ lines[i] = "attempt" /\ i = 1
            \/ /\ i = Len(lines) /\ call[c].pc = "done"
               /\ \/ lines[i] = "success" /\ call[c].outcome # "failure" /\ applied[c] = 1
                  \/ lines[i] = "failure" /\ call[c].outcome # "value"

(* Backoff never hammers: with delays of at least a tick the number of     *)
(* attempts of one operation is bounded by the time it may take, even when *)
(* Pumble asks for no delay at all (_get_sleep_interval).                  *)
NoHammering ==
    \A c \in Calls : conn[c].pc \in {"wire", "sleeping"} => conn[c].tries <= MaxElapsed + 2

(* Every call ends, or waits for its user: no chain of failures, delays    *)
(* and retries keeps it forever (retry_with_backoff, with_retries).        *)
CallsEnd == \A c \in Calls : Running(c) ~> call[c].pc \in {"done", "asking"}
=============================================================================
