--------------------------- MODULE GeneratedClient ---------------------------
(***************************************************************************)
(* What the generated client does with one operation: basesdk.py do_request*)
(* under utils/retries.py, over a network that loses requests and answers, *)
(* to a Pumble that may serve a request after the client gave up on it.    *)
(* The synchronous and the asynchronous form differ in nothing that is     *)
(* modelled; no hook is registered anywhere, so the hook calls change      *)
(* nothing.                                                                *)
(*                                                                         *)
(* A caller drives it: Invoke starts an operation and the result waits in  *)
(* conn[c] with pc "returned" until the caller takes it.  Time is relative:*)
(* Tick lets every call in progress grow older, and ages past MaxElapsed   *)
(* are not told apart.                                                     *)
(***************************************************************************)
EXTENDS Operations, Naturals, FiniteSetsExt

CONSTANTS
    Calls,            \* slots for calls in progress
    Interval,         \* initial_interval * exponent ** retries, by attempt
    MaxInterval,      \* max_interval and max_elapsed_time of BackoffStrategy,
    MaxElapsed,       \* like all times in ticks of the clock
    RetryAfters       \* delays a response may ask for; 0 is a header too

ASSUME BackoffAssumption ==
    /\ MaxElapsed \in Nat /\ MaxInterval \in Nat \ {0}
    /\ Interval \in [1 .. MaxElapsed + 3 -> Nat \ {0}]
    /\ RetryAfters \subseteq Nat

VARIABLES
    conn,      \* the operation each call is in
    sent,      \* write requests each call has put on the wire
    applied,   \* write requests of each call that Pumble carried out
    stray,     \* write requests given up on that may still be carried out
    open       \* the HTTP client is open

netVars == <<conn, sent, applied, stray, open>>

-----------------------------------------------------------------------------
(* Why a call returned.  "value" is a value, "status" a response raised as *)
(* an error, "transport" a network error or timeout, "protocol" another    *)
(* failure of the transport, "local" an error of the client's own: a       *)
(* request that cannot be built, a body that does not parse, a client      *)
(* that was closed.                                                        *)
Result == [kind: {"value", "transport", "protocol", "local"}]
              \cup [kind: {"status"}, status: Statuses \ {"ok"}]
Value == [kind |-> "value"]

NoConn == [pc |-> "idle"]

\* Attempts are counted as far as the clock could allow any.
Tries == 1 .. MaxElapsed + 3

Conn == {NoConn}
    \cup [pc: {"wire"}, op: Operation, served: BOOLEAN, tries: Tries, age: 0 .. MaxElapsed + 1]
    \cup [pc: {"sleeping"}, op: Operation, tries: Tries, age: 0 .. MaxElapsed + 1, left: Nat]
    \cup [pc: {"returned"}, op: Operation, result: Result]

Awaiting(c) == conn[c].pc \in {"wire", "sleeping"}

NetInit ==
    /\ conn = [c \in Calls |-> NoConn]
    /\ sent = [c \in Calls |-> 0]
    /\ applied = [c \in Calls |-> 0]
    /\ stray = [c \in Calls |-> 0]
    /\ open = TRUE

-----------------------------------------------------------------------------
Returned(op, result) == [pc |-> "returned", op |-> op, result |-> result]
OnWire(op, tries, age) ==
    [pc |-> "wire", op |-> op, served |-> FALSE, tries |-> tries, age |-> age]

Count(n, op) == IF op.writes THEN n + 1 ELSE n

(* A request leaves, unless it cannot be built or the client is closed.    *)
Leave(c, op, tries, age) ==
    \/ /\ open
       /\ conn' = [conn EXCEPT ![c] = OnWire(op, tries, age)]
       /\ sent' = [sent EXCEPT ![c] = Count(@, op)]
    \/ /\ ~open \/ tries = 1
       /\ conn' = [conn EXCEPT ![c] = Returned(op, [kind |-> "local"])]
       /\ UNCHANGED sent

Invoke(c, op) ==
    /\ Leave(c, op, 1, 0)
    /\ UNCHANGED <<applied, stray, open>>

(* Pumble carries a request out; the client learns of it only by an answer.*)
Serve(c) ==
    /\ conn[c].pc = "wire" /\ ~conn[c].served
    /\ conn' = [conn EXCEPT ![c].served = TRUE]
    /\ applied' = [applied EXCEPT ![c] = Count(@, conn[c].op)]
    /\ UNCHANGED <<sent, stray, open>>

ServeStray(c) ==
    /\ stray[c] > 0
    /\ stray' = [stray EXCEPT ![c] = @ - 1]
    /\ applied' = [applied EXCEPT ![c] = @ + 1]
    /\ UNCHANGED <<conn, sent, open>>

(* A request the client stops waiting for may still arrive.                *)
GiveUp(c) == stray' = [stray EXCEPT ![c] =
    IF conn[c].pc = "wire" /\ ~conn[c].served THEN Count(@, conn[c].op) ELSE @]

-----------------------------------------------------------------------------
(* Mutant: a Retry-After of zero is obeyed.                                *)
SleepsObeyingZero(tries, asked) == {asked}

(* _get_sleep_interval: a positive delay asked for by the response is used *)
(* as it is, whatever the maximum; otherwise the backoff with its jitter,  *)
(* up to the maximum.                                                      *)
Sleeps(tries, asked) ==
    IF asked > 0 THEN {asked}
    ELSE {Min({MaxInterval, Interval[tries] + j}) : j \in {0, 1}}

(* Mutant: a transport error is raised only while there is time left.      *)
AfterFailureOnlyStatuses(c, result, retryable, asked) ==
    LET n == conn[c] IN
    IF n.op.backoff /\ retryable /\ (n.age <= MaxElapsed \/ result.kind = "transport")
    THEN \E s \in Sleeps(n.tries, asked) :
            conn' = [conn EXCEPT ![c] =
                [pc |-> "sleeping", op |-> n.op, tries |-> n.tries, age |-> n.age, left |-> s]]
    ELSE conn' = [conn EXCEPT ![c] = Returned(n.op, result)]

(* retry_with_backoff: a retryable failure within MaxElapsed of the first  *)
(* attempt leads to a sleep, however long; any other ends the operation,   *)
(* with the last response judged as if there had been no retries.          *)
AfterFailure(c, result, retryable, asked) ==
    LET n == conn[c] IN
    IF n.op.backoff /\ retryable /\ n.age <= MaxElapsed
    THEN \E s \in Sleeps(n.tries, asked) :
            conn' = [conn EXCEPT ![c] =
                [pc |-> "sleeping", op |-> n.op, tries |-> n.tries, age |-> n.age, left |-> s]]
    ELSE conn' = [conn EXCEPT ![c] = Returned(n.op, result)]

(* match_response and unmarshal_json_response.                             *)
Judged(op, status, parses) ==
    IF status = "ok"
    THEN IF op.parsed => parses THEN Value ELSE [kind |-> "local"]
    ELSE [kind |-> "status", status |-> status]

(* A response.  A 200 and only work done gives a value; a 4xx is a refusal;*)
(* after a 5xx, from Pumble or a gateway before it, anything may be true.  *)
Refusals == {"client", "early", "throttled"}
Answer(c) ==
    /\ conn[c].pc = "wire"
    /\ \E status \in Statuses, parses \in BOOLEAN, asked \in RetryAfters \cup {0} :
        /\ (status = "ok") => conn[c].served
        /\ (status \in Refusals) => ~conn[c].served
        /\ AfterFailure(c, Judged(conn[c].op, status, parses), status \in conn[c].op.retried, asked)
        /\ IF status \in Refusals THEN UNCHANGED stray ELSE GiveUp(c)
    /\ UNCHANGED <<sent, applied, open>>

(* No response: a network error or a timeout, which backoff retries, or    *)
(* a broken protocol, which it does not.                                   *)
Break(c) ==
    /\ conn[c].pc = "wire"
    /\ \E kind \in {"transport", "protocol"} :
        AfterFailure(c, [kind |-> kind], kind = "transport", 0)
    /\ GiveUp(c)
    /\ UNCHANGED <<sent, applied, open>>

(* The next attempt.  Attempts beyond any the clock allows are not counted.*)
Resend(c) ==
    /\ conn[c].pc = "sleeping" /\ conn[c].left = 0
    /\ Leave(c, conn[c].op, Min({conn[c].tries + 1, MaxElapsed + 3}), conn[c].age)
    /\ UNCHANGED <<applied, stray, open>>

(* The caller's task is cancelled at the await of the response or sleep.   *)
Drop(c) ==
    /\ conn' = [conn EXCEPT ![c] = NoConn]
    /\ GiveUp(c)
    /\ UNCHANGED <<sent, applied, open>>

(* The caller takes the result.                                            *)
Collect(c) ==
    /\ conn' = [conn EXCEPT ![c] = NoConn]
    /\ UNCHANGED <<sent, applied, stray, open>>

(* aclose: the HTTP client is closed, whoever is still using it.           *)
Close ==
    /\ open /\ open' = FALSE
    /\ UNCHANGED <<conn, sent, applied, stray>>

(* A tick for one operation.  Only retries look at the clock.              *)
Older(n) ==
    CASE n.pc = "sleeping" -> [n EXCEPT !.age = Min({@ + 1, MaxElapsed + 1}), !.left = IF @ = 0 THEN 0 ELSE @ - 1]
      [] n.pc = "wire" /\ n.op.backoff -> [n EXCEPT !.age = Min({@ + 1, MaxElapsed + 1})]
      [] OTHER -> n

NetTypeOK ==
    /\ conn \in [Calls -> Conn]
    /\ {sent, applied, stray} \subseteq [Calls -> Nat]
    /\ open \in BOOLEAN

(* What the client does when it can: due attempts are made, and a request  *)
(* ends, in a response or a timeout.                                       *)
NetFairness == \A c \in Calls :
    WF_netVars(Resend(c)) /\ WF_netVars(Answer(c) \/ Break(c))
=============================================================================
