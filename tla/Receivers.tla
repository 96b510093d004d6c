------------------------------ MODULE Receivers ------------------------------
(***************************************************************************)
(* What becomes of a Pumble event: it arrives by webhook (webhooks.py) or  *)
(* over a socket (socket_mode.py), its steps are run one after the other,  *)
(* each awaited - the registered handlers of the router (router.py), or    *)
(* one publication per refetch cue (subscriptions.py, webhook_bridge.py) - *)
(* and the request is answered.  Deliveries interleave at every await;     *)
(* Pumble delivers again what was not answered 204, a subscriber refetches *)
(* what it is told about.                                                  *)
(***************************************************************************)
EXTENDS SocketMode, SequencesExt

CONSTANTS
    Events,         \* [type, channel, message, thread] records
    Deliveries,     \* deliveries that may be under way at once
    MaxChanges,     \* bound on the events of a behaviour
    MaxDeliveries,  \* bound on the deliveries of a behaviour
    AtStart, MaxHandlers,   \* handlers registered at first, and ever
    BufferCap       \* cues a subscription's stream holds

VARIABLES
    serving,     \* "bridge" (webhook_bridge), "app" (PumbleApp) or "socket"; never changes
    registered,  \* handlers registered with the router, for every type
    framed,      \* the events of frames whose context is awaited
    events,      \* what happened at Pumble, in order
    owed,        \* the events Pumble has still to deliver
    delivered,   \* deliveries made
    task,        \* of each delivery: [event, steps, at], None when it is over
    runs,        \* of each event, the steps run to their end, by their place
    acks,        \* of each event, the times it was answered 204
    version,     \* of each resource, the events that changed it
    stream,      \* cues the subscriber has not read, None when its stream was ended
    known        \* of each resource, the version the subscriber has

router == <<serving, registered, framed>>
pumble == <<events, owed, version>>
tallies == <<runs, acks>>
subscriber == <<stream, known>>
vars == <<connection, router, pumble, delivered, task, tallies, subscriber>>

-----------------------------------------------------------------------------
Me == <<"me">>
Channels == <<"channels">>
Channel(c) == <<"channel", c>>
Thread(c, m) == <<"thread", c, m>>

Messages == {"NEW_MESSAGE", "UPDATED_MESSAGE"}
Authorizations == {"APP_UNINSTALLED", "APP_UNAUTHORIZED"}

(* A message is one of a channel, and there are at least the handlers that *)
(* were registered first.                                                  *)
ASSUME ReceiverAssumption ==
    /\ Events # {} /\ \A e \in Events : e.type \in Messages => e.channel # None
    /\ IsFiniteSet(Deliveries) /\ None # <<>>
    /\ {MaxChanges, MaxDeliveries, AtStart, MaxHandlers, BufferCap} \subseteq Nat
    /\ AtStart <= MaxHandlers

(* Mutant: an event cues its channel only.                                 *)
CuesOfChannels(e) ==
    IF e.channel # None THEN <<Channel(e.channel)>>
    ELSE IF e.type = "CHANNEL_CREATED" THEN <<Channels>>
    ELSE IF e.type \in Authorizations THEN <<Me, Channels>> ELSE <<>>

(* The resources an event invalidates, to the knowledge of the code.       *)
Cues(e) ==
    LET root == IF e.type = "REACTION_ADDED" THEN e.message ELSE e.thread IN
    IF e.type \in Messages \cup {"REACTION_ADDED"}
    THEN IF e.channel = None THEN <<>>
         ELSE IF root = None THEN <<Channel(e.channel)>>
         ELSE <<Channel(e.channel), Thread(e.channel, root)>>
    ELSE IF e.type = "CHANNEL_CREATED" THEN <<Channels>>
    ELSE IF e.type \in Authorizations THEN <<Me, Channels>> ELSE <<>>

(* The resources whose contents an event changes: a thread shows its root  *)
(* and its replies, a channel its messages, neither shows reactions.       *)
Touched(e) ==
    CASE e.type \in Messages ->
            {Channel(e.channel), Thread(e.channel, IF e.thread = None THEN e.message ELSE e.thread)}
      [] e.type = "CHANNEL_CREATED" -> {Channels}
      [] e.type \in Authorizations -> {Me, Channels}
      [] OTHER -> {}

Resources == UNION {Touched(e) \cup ToSet(Cues(e)) : e \in Events}
Places == 1 .. (MaxHandlers + 2)

Init ==
    /\ SocketInit
    /\ serving \in {"bridge", "app", "socket"} /\ registered = AtStart /\ framed = {}
    /\ events = <<>> /\ owed = {} /\ delivered = 0 /\ task = [d \in Deliveries |-> None]
    /\ runs = [n \in 1 .. MaxChanges |-> [k \in Places |-> 0]] /\ acks = [n \in 1 .. MaxChanges |-> 0]
    /\ version = [r \in Resources |-> 0] /\ known = version /\ stream = <<>>

-----------------------------------------------------------------------------
(* Something happens at Pumble; its event is to be delivered.  To handlers  *)
(* all events are alike.                                                   *)
Change ==
    /\ Len(events) < MaxChanges
    /\ \E e \in IF serving = "bridge" THEN Events ELSE {CHOOSE e \in Events : TRUE} :
        /\ events' = Append(events, e)
        /\ version' = [r \in Resources |-> IF r \in Touched(e) THEN version[r] + 1 ELSE version[r]]
    /\ owed' = owed \cup {Len(events) + 1}
    /\ UNCHANGED <<connection, router, delivered, task, tallies, subscriber>>

(* on(): a dispatch under way keeps to the handlers it began with.         *)
Register ==
    /\ serving # "bridge" /\ registered < MaxHandlers
    /\ registered' = registered + 1
    /\ UNCHANGED <<connection, serving, framed, pumble, delivered, task, tallies, subscriber>>

Steps(e) == IF serving = "bridge" THEN Cues(e) ELSE [k \in 1 .. registered |-> k]

(* What the receiver makes of a request before anything is run.            *)
Verdict(q) ==
    IF q.large THEN 413
    ELSE IF ~q.signed \/ ~q.fresh THEN 401
    ELSE IF q.form # "event" THEN 400 ELSE 204

Requests == [large: BOOLEAN, signed: BOOLEAN, fresh: BOOLEAN, form: {"event", "malformed", "unsupported"}]
Genuine(q) == q.signed /\ ~q.large /\ q.form = "event"

Begun(d, n) == task' = [task EXCEPT ![d] = [event |-> n, steps |-> Steps(events[n]), at |-> 1]]

(* A request of Pumble arrives, in time or too late; anything else is      *)
(* refused and changes nothing.                                            *)
Post(d) ==
    /\ serving # "socket" /\ task[d] = None /\ delivered < MaxDeliveries
    /\ \E n \in owed, q \in Requests :
        /\ Genuine(q) /\ delivered' = delivered + 1
        /\ IF Verdict(q) = 204 THEN Begun(d, n) ELSE UNCHANGED task
    /\ UNCHANGED <<connection, router, pumble, tallies, subscriber>>

(* A frame arrives over a socket the receiver still listens to, and its    *)
(* context is asked for, which may be awaited; Pumble sends it once.       *)
Frame ==
    /\ serving = "socket"
    /\ \E n \in owed, s \in listening :
        stage[s] \in {"open", "closing"} /\ owed' = owed \ {n} /\ framed' = framed \cup {n}
    /\ UNCHANGED <<connection, serving, registered, events, version, delivered, task, tallies, subscriber>>

(* Its context is there: the router takes the handlers there are by now.   *)
ContextMade(d) ==
    /\ task[d] = None
    /\ \E n \in framed : Begun(d, n) /\ framed' = framed \ {n}
    /\ UNCHANGED <<connection, serving, registered, pumble, delivered, tallies, subscriber>>

(* There is none, or the message is cancelled.                             *)
ContextFails ==
    /\ \E n \in framed : framed' = framed \ {n}
    /\ UNCHANGED <<connection, serving, registered, pumble, delivered, task, tallies, subscriber>>

-----------------------------------------------------------------------------
Under(d) == task[d] # None /\ task[d].at <= Len(task[d].steps)
Ran(d, k) == runs' = [runs EXCEPT ![task[d].event][k] = @ + 1]
Over(d) == task' = [task EXCEPT ![d] = None]

(* Mutant: cues are not collapsed.                                         *)
PushedAgain(cue) ==
    IF stream = None THEN stream ELSE IF Len(stream) = BufferCap THEN None ELSE Append(stream, cue)

(* The stream collapses cues the subscriber has not read, and is ended     *)
(* when it holds too many.                                                 *)
Pushed(cue) ==
    IF stream = None \/ cue \in ToSet(stream) THEN stream
    ELSE IF Len(stream) = BufferCap THEN None ELSE Append(stream, cue)

(* A step ends: the next one begins.                                       *)
StepEnds(d) ==
    /\ Under(d)
    /\ Ran(d, task[d].at)
    /\ task' = [task EXCEPT ![d].at = @ + 1]
    /\ stream' = IF serving = "bridge" THEN Pushed(task[d].steps[task[d].at]) ELSE stream
    /\ UNCHANGED <<connection, router, pumble, delivered, acks, known>>

(* Mutant: the steps after the one that fails are run all the same.        *)
AfterFailingGoesOn(d) ==
    IF task[d].at < Len(task[d].steps) THEN task' = [task EXCEPT ![d].at = @ + 1] ELSE Over(d)

(* The first step that fails is the last.                                  *)
AfterFailing(d) == Over(d)

(* A step fails or its task is cancelled: a webhook answers 500 whatever   *)
(* on_error does, or not at all; a message of a socket is not answered.    *)
StepFails(d) ==
    /\ Under(d) /\ AfterFailing(d)
    /\ UNCHANGED <<connection, router, pumble, delivered, tallies, subscriber>>

Cancelled(d) ==
    /\ Under(d) /\ Over(d)
    /\ UNCHANGED <<connection, router, pumble, delivered, tallies, subscriber>>

Done(d) == task[d].at > Len(task[d].steps)

(* All steps are over: 204, which Pumble may never see.                    *)
Finished(d) ==
    /\ task[d] # None /\ Done(d) /\ Over(d)
    /\ IF serving = "socket" THEN UNCHANGED <<owed, acks>>
       ELSE /\ acks' = [acks EXCEPT ![task[d].event] = @ + 1]
            /\ owed' \in {owed, owed \ {task[d].event}}
    /\ UNCHANGED <<connection, router, events, version, delivered, runs, subscriber>>

-----------------------------------------------------------------------------
(* The subscriber reads a cue and refetches; it refetches everything when  *)
(* it has listened again after its stream was ended.                       *)
Refetch ==
    /\ stream \notin {None, <<>>}
    /\ stream' = Tail(stream) /\ known' = [known EXCEPT ![Head(stream)] = version[Head(stream)]]
    /\ UNCHANGED <<connection, router, pumble, delivered, task, tallies>>

Relisten ==
    /\ stream = None /\ stream' = <<>> /\ known' = version
    /\ UNCHANGED <<connection, router, pumble, delivered, task, tallies>>

Connection ==
    /\ serving = "socket" /\ SocketNext
    /\ UNCHANGED <<router, pumble, delivered, task, tallies, subscriber>>

Next ==
    \/ Connection \/ Change \/ Register \/ Frame \/ ContextFails \/ Refetch \/ Relisten
    \/ \E d \in Deliveries :
        Post(d) \/ ContextMade(d) \/ StepEnds(d) \/ StepFails(d) \/ Cancelled(d) \/ Finished(d)

Spec == Init /\ [][Next]_vars

-----------------------------------------------------------------------------
(* Properties *)

TypeOK ==
    /\ SocketTypeOK
    /\ registered \in AtStart .. MaxHandlers /\ owed \cup framed \subseteq DOMAIN events
    /\ delivered \in 0 .. MaxDeliveries
    /\ \A d \in Deliveries : task[d] # None =>
        task[d].event \in DOMAIN events /\ task[d].at \in 1 .. (Len(task[d].steps) + 1)
    /\ \A r \in Resources : known[r] \in 0 .. version[r]
    /\ stream # None => Len(stream) <= BufferCap /\ IsInjective(stream)

(* However often an event is delivered, by deliveries that overlap, fail   *)
(* half-way or are cancelled, and whatever is registered meanwhile: no     *)
(* step of it has been run to its end more often than the one before it    *)
(* (router.py:1, "deterministic registration-order dispatch"), and every   *)
(* 204 stands for a run of each step there was from the start.             *)
AcksAreEarned ==
    \A n \in DOMAIN events :
        LET steps == IF serving = "bridge" THEN Len(Cues(events[n])) ELSE AtStart IN
        /\ \A k, l \in Places : k < l => runs[n][k] >= runs[n][l]
        /\ \A k \in 1 .. steps : runs[n][k] >= acks[n]

AtRest ==
    /\ owed = {} /\ \A d \in Deliveries : task[d] = None
    /\ stream = <<>>

(* Once every event has been answered 204 and the subscriber has read its  *)
(* cues, all it has is up to date - however deliveries overlapped and were *)
(* repeated, cues collapsed and streams ended - but for threads whose root *)
(* was edited, which Pumble reports as a message without a thread.         *)
StaleOnlyByRootEdits ==
    serving = "bridge" /\ AtRest =>
        \A r \in Resources : known[r] # version[r] =>
            \E n \in DOMAIN events : LET e == events[n] IN
                e.type \in Messages /\ e.thread = None /\ r = Thread(e.channel, e.message)
=============================================================================
