--------------------------- MODULE Receivers_proofs ---------------------------
(***************************************************************************)
(* Proofs about Receivers.  For every number of sockets and of connect()   *)
(* calls, nothing but overlapping connects and late openings leaves a      *)
(* socket or a ping behind; for every number of events, deliveries and     *)
(* handlers, an acknowledged event has been handled, and a subscriber that *)
(* is at rest is up to date.                                               *)
(***************************************************************************)
EXTENDS Receivers, FiniteSetTheorems, TLAPS

-----------------------------------------------------------------------------
(* The connection: its inductive invariant *)

(* No more sockets are made than there is room for: each connect() under   *)
(* way has its own.                                                        *)
RoomIsLeft == created + fetching <= MaxSockets

(* What was not made has no history, what is held is listened to and has   *)
(* not ended, and nothing ended is listened to if that can be helped.      *)
SocketsAreMade ==
    /\ removes \in BOOLEAN
    /\ \A s \in Sockets : s > created => stage[s] = "unborn"
    /\ socket # None => socket \in listening /\ stage[socket] \in {"opening", "open"}
    /\ removes => \A s \in listening : s = socket \/ s \in superseded

(* Two connect() calls under way have met, and so has one that finds a     *)
(* socket in its place.                                                    *)
ConnectsMeet ==
    /\ overlapped \in BOOLEAN
    /\ fetching > 1 => overlapped
    /\ fetching > 0 /\ socket # None => overlapped

Inductive == SocketTypeOK /\ RoomIsLeft /\ SocketsAreMade /\ ConnectsMeet /\ StraysHaveACause

(* There is no socket to begin with.                                       *)
LEMMA InitInductive == SocketInit => Inductive
<1> SUFFICES ASSUME SocketInit PROVE Inductive
  OBVIOUS
<1> USE SocketAssumption DEF SocketInit
<1>1. SocketTypeOK
  BY DEF SocketTypeOK
<1>2. RoomIsLeft /\ SocketsAreMade
  BY DEF RoomIsLeft, SocketsAreMade
<1>3. ConnectsMeet
  <2>1. overlapped \in BOOLEAN
    BY Zenon
  <2>2. ~(fetching > 1) /\ ~(fetching > 0)
    OBVIOUS
  <2> QED
    BY <2>1, <2>2, Zenon DEF ConnectsMeet
<1>4. StraysHaveACause
  <2>1. \A s \in Sockets : stage[s] = "unborn"
    OBVIOUS
  <2> QED
    BY <2>1 DEF StraysHaveACause
<1> QED
  BY <1>1, <1>2, <1>3, <1>4 DEF Inductive

-----------------------------------------------------------------------------
(* One lemma per step of the connection *)

USE SocketAssumption DEF Sockets

(* A connect() on its way has room for its socket, and meets the others.   *)
LEMMA ConnectInductive == Inductive /\ Connect => Inductive'
<1> SUFFICES ASSUME Inductive, Connect PROVE Inductive'
  OBVIOUS
<1> USE DEF Inductive, Connect
<1>1. SocketTypeOK'
  BY DEF SocketTypeOK
<1>2. RoomIsLeft' /\ SocketsAreMade'
  BY DEF RoomIsLeft, SocketsAreMade, SocketTypeOK
<1>3. ConnectsMeet'
  BY DEF ConnectsMeet, SocketTypeOK
<1>4. StraysHaveACause'
  BY DEF StraysHaveACause, ConnectsMeet
<1> QED
  BY <1>1, <1>2, <1>3, <1>4

(* The socket it makes is the next one.                                    *)
LEMMA ConnectedInductive == Inductive /\ Connected => Inductive'
  BY DEF Connected, Inductive, SocketTypeOK, RoomIsLeft, SocketsAreMade, ConnectsMeet,
    StraysHaveACause

(* One that gets no URL makes none.                                        *)
LEMMA ConnectFailsInductive == Inductive /\ ConnectFails => Inductive'
  BY DEF ConnectFails, Inductive, SocketTypeOK, RoomIsLeft, SocketsAreMade, ConnectsMeet,
    StraysHaveACause

(* A socket that opens may take the ping with it.                          *)
LEMMA OpenedInductive ==
  ASSUME NEW s \in Sockets, Inductive, Opened(s)
  PROVE  Inductive'
  BY DEF Opened, Inductive, SocketTypeOK, RoomIsLeft, SocketsAreMade, ConnectsMeet,
    StraysHaveACause

(* A socket that ends is let go of if it is the one held.                  *)
LEMMA EndsInductive ==
  ASSUME NEW s \in Sockets, NEW how \in {LetGo(s), "closed"}, Inductive, Ends(s, how)
  PROVE  Inductive'
  BY DEF Ends, Cleanup, LetGo, Inductive, SocketTypeOK, RoomIsLeft, SocketsAreMade, ConnectsMeet,
    StraysHaveACause

(* disconnect() lets go of its socket and closes it.                       *)
LEMMA DisconnectInductive == Inductive /\ Disconnect => Inductive'
  BY DEF Disconnect, Cleanup, LetGo, Inductive, SocketTypeOK, RoomIsLeft, SocketsAreMade, ConnectsMeet,
    StraysHaveACause

(* What is not about the connection leaves it alone.                       *)
LEMMA IdleInductive == Inductive /\ UNCHANGED connection => Inductive'
  BY DEF connection, Inductive, SocketTypeOK, RoomIsLeft, SocketsAreMade, ConnectsMeet,
    StraysHaveACause

-----------------------------------------------------------------------------
(* The theorems about the connection *)

(* Every step of the connection keeps its invariant.                       *)
LEMMA NextInductive == Inductive /\ [SocketNext]_connection => Inductive'
<1> SUFFICES ASSUME Inductive, [SocketNext]_connection PROVE Inductive'
  OBVIOUS
<1>1. CASE Connect
  BY <1>1, ConnectInductive
<1>2. CASE Connected
  BY <1>2, ConnectedInductive
<1>3. CASE ConnectFails
  BY <1>3, ConnectFailsInductive
<1>4. CASE Disconnect
  BY <1>4, DisconnectInductive
<1>5. ASSUME NEW s \in Sockets, Opened(s) PROVE Inductive'
  BY <1>5, OpenedInductive
<1>6. ASSUME NEW s \in Sockets, Ends(s, LetGo(s)) \/ Ends(s, "closed") PROVE Inductive'
  BY <1>6, EndsInductive
<1>7. CASE UNCHANGED connection
  BY <1>7, IdleInductive
<1> QED
  BY <1>1, <1>2, <1>3, <1>4, <1>5, <1>6, <1>7 DEF SocketNext

(* Whatever else a receiver does leaves its connection alone.              *)
LEMMA StepsAreSocketSteps == [Next]_vars => [SocketNext]_connection
  BY Zenon DEF Next, vars, Connection, Change, Register, Post, Frame, ContextMade, ContextFails, StepEnds, StepFails,
    Cancelled, Finished, Refetch, Relisten

(* It holds of the receiver as a whole, which uses the connection as it is.*)
LEMMA ConnectionInductive == Spec => []Inductive
<1>1. Init => Inductive
  BY InitInductive DEF Init
<1>2. Inductive /\ [Next]_vars => Inductive'
  BY StepsAreSocketSteps, NextInductive
<1> QED
  BY <1>1, <1>2, PTL DEF Spec

(* Type correctness of the connection, for any number of sockets and of    *)
(* connect() calls: no more sockets than were made, and the one held and   *)
(* the one pinged among them (PumbleSocketModeReceiver).                   *)
THEOREM ConnectionTyped == Spec => []SocketTypeOK
<1>1. Inductive => SocketTypeOK
  BY DEF Inductive
<1> QED
  BY <1>1, ConnectionInductive, PTL

(* The socket held is the only live one and the one that is pinged, unless *)
(* connect() calls overlapped or a socket opened after it was let go of,   *)
(* which does not reach the receiver where listeners can be removed        *)
(* (socket_mode.py connect, on_open, _cleanup).                            *)
THEOREM StraysAreAccountedFor == Spec => []StraysHaveACause
<1>1. Inductive => StraysHaveACause
  BY DEF Inductive
<1> QED
  BY <1>1, ConnectionInductive, PTL

-----------------------------------------------------------------------------
(* The deliveries: their inductive invariant *)

(* What a delivery may have to run.                                        *)
Routes == {Cues(e) : e \in Events} \cup {[k \in 1 .. r |-> k] : r \in 0 .. MaxHandlers}

Tasks == [event: 1 .. MaxChanges, steps: Routes, at: Nat \ {0}]

Shape ==
    /\ events \in Seq(Events) /\ Len(events) <= MaxChanges /\ owed \cup framed \subseteq 1 .. Len(events)
    /\ registered \in AtStart .. MaxHandlers
    /\ task \in [Deliveries -> Tasks \cup {None}]
    /\ runs \in [1 .. MaxChanges -> [Places -> Nat]] /\ acks \in [1 .. MaxChanges -> Nat]

(* The steps everybody who handles an event has to run.                    *)
Due(n) == IF serving = "bridge" THEN Len(Cues(events[n])) ELSE AtStart

(* A delivery is one of an event that happened, and has at least the steps *)
(* due before it.                                                          *)
TasksFit ==
    \A d \in Deliveries : task[d] # None =>
        /\ task[d].event \in 1 .. Len(events) /\ task[d].at <= Len(task[d].steps) + 1
        /\ Len(task[d].steps) >= Due(task[d].event)

(* Nothing is acknowledged before it happens.                              *)
AcksFollowEvents == \A n \in 1 .. MaxChanges : n > Len(events) => acks[n] = 0

(* The deliveries of an event that have run step k and not yet step l.     *)
Between(n, k, l) ==
    {d \in Deliveries : task[d] # None /\ task[d].event = n /\ task[d].at \in (k + 1) .. l}

Beyond == MaxHandlers + 3

(* A step has been run more often than a later one at least by the         *)
(* deliveries in between, and more often than was acknowledged by those    *)
(* that are past it.                                                       *)
RunsInOrder ==
    \A n \in 1 .. MaxChanges : \A k, l \in Places :
        k < l => runs[n][k] >= runs[n][l] + Cardinality(Between(n, k, l))

AcksArePaid ==
    \A n \in 1 .. Len(events) : \A k \in 1 .. Due(n) :
        runs[n][k] >= acks[n] + Cardinality(Between(n, k, Beyond))

Handled == Shape /\ TasksFit /\ AcksFollowEvents /\ RunsInOrder /\ AcksArePaid

-----------------------------------------------------------------------------
(* Counting *)

(* The bounds are numbers.                                                 *)
LEMMA Numbers ==
  /\ MaxChanges \in Nat /\ AtStart \in Nat /\ MaxHandlers \in Nat /\ AtStart <= MaxHandlers
  /\ IsFiniteSet(Deliveries)
  BY ReceiverAssumption

(* Both sets of deliveries are finite; the smaller one is no larger.       *)
LEMMA Fewer ==
  ASSUME NEW S, NEW T, S \subseteq Deliveries, T \subseteq S
  PROVE  Cardinality(S) \in Nat /\ Cardinality(T) \in Nat /\ Cardinality(T) <= Cardinality(S)
<1>1. IsFiniteSet(S)
  BY FS_Subset, Numbers
<1> QED
  BY <1>1, FS_Subset, FS_CardinalityType

(* A set that gains at most d gains at most one.                           *)
LEMMA OneMore ==
  ASSUME NEW S, NEW T, NEW d \in Deliveries, S \subseteq Deliveries, T \subseteq S \cup {d}
  PROVE  Cardinality(S) \in Nat /\ Cardinality(T) \in Nat /\ Cardinality(T) <= Cardinality(S) + 1
<1>1. IsFiniteSet(S)
  BY FS_Subset, Numbers
<1>2. IsFiniteSet(S \cup {d}) /\ Cardinality(S \cup {d}) <= Cardinality(S) + 1
  <2>1. Cardinality(S) \in Nat
    BY <1>1, FS_CardinalityType
  <2>2. IsFiniteSet(S \cup {d})
        /\ Cardinality(S \cup {d}) = IF d \in S THEN Cardinality(S) ELSE Cardinality(S) + 1
    BY <1>1, FS_AddElement
  <2> QED
    BY <2>1, <2>2
<1> QED
  BY <1>1, <1>2, Fewer, FS_Subset, FS_CardinalityType

(* A set that loses d loses one.                                           *)
LEMMA OneLess ==
  ASSUME NEW S, NEW T, NEW d \in S, S \subseteq Deliveries, T \subseteq S \ {d}
  PROVE  Cardinality(S) \in Nat /\ Cardinality(T) \in Nat /\ Cardinality(T) + 1 <= Cardinality(S)
<1>1. IsFiniteSet(S)
  BY FS_Subset, Numbers
<1>2. IsFiniteSet(S \ {d}) /\ Cardinality(S \ {d}) = Cardinality(S) - 1
  BY <1>1, FS_RemoveElement
<1> QED
  BY <1>1, <1>2, FS_Subset, FS_CardinalityType

(* What is paid stays paid when one more runs and one more is past.        *)
LEMMA OneEach ==
  ASSUME NEW r \in Nat, NEW a \in Nat, NEW c \in Nat, NEW e \in Nat, r >= a + c, e <= c + 1
  PROVE  r + 1 >= a + e
  OBVIOUS

(* A delivery has one step per handler, or one per cue, of which there are *)
(* two at most.                                                            *)
LEMMA RouteLengths ==
  ASSUME NEW p \in Routes
  PROVE  Len(p) \in 0 .. (MaxHandlers + 2)
<1>1. CASE p \in {Cues(e) : e \in Events}
  <2>1. PICK e \in Events : p = Cues(e)
    BY <1>1
  <2>2. Cues(e) = <<>> \/ (\E a : Cues(e) = <<a>>) \/ (\E a, b : Cues(e) = <<a, b>>)
    BY DEF Cues
  <2>3. Len(p) \in 0 .. 2
    BY <2>1, <2>2
  <2>4. 0 .. 2 \subseteq 0 .. (MaxHandlers + 2)
    BY Numbers
  <2> QED
    BY <2>3, <2>4
<1>2. CASE p \in {[k \in 1 .. r |-> k] : r \in 0 .. MaxHandlers}
  <2>1. PICK r \in 0 .. MaxHandlers : p = [k \in 1 .. r |-> k]
    BY <1>2
  <2>2. Len(p) = r
    BY <2>1, Numbers
  <2> QED
    BY <2>2, Numbers
<1> QED
  BY <1>1, <1>2 DEF Routes

(* What a delivery runs is a route: the handlers there are, or the cues.   *)
LEMMA StepsAreRoutes ==
  ASSUME Shape, NEW n \in 1 .. Len(events)
  PROVE  Steps(events[n]) \in Routes /\ Len(Steps(events[n])) >= Due(n)
<1>1. events[n] \in Events
  BY DEF Shape
<1>2. CASE serving = "bridge"
  <2>1. Steps(events[n]) = Cues(events[n])
    BY <1>2 DEF Steps
  <2>2. Steps(events[n]) \in Routes
    BY <2>1, <1>1 DEF Routes
  <2> QED
    BY <2>1, <2>2, <1>2, RouteLengths DEF Due
<1>3. CASE serving # "bridge"
  <2>1. Steps(events[n]) = [k \in 1 .. registered |-> k]
    BY <1>3 DEF Steps
  <2>2. registered \in 0 .. MaxHandlers /\ registered >= AtStart
    BY Numbers DEF Shape
  <2>3. Len(Steps(events[n])) = registered
    BY <2>1, <2>2
  <2> QED
    BY <2>1, <2>2, <2>3, <1>3 DEF Routes, Due
<1> QED
  BY <1>2, <1>3

-----------------------------------------------------------------------------
(* One lemma per kind of step of the deliveries *)

(* No event has happened yet.                                              *)
LEMMA InitHandled == Init => Handled
<1> SUFFICES ASSUME Init PROVE Handled
  OBVIOUS
<1>1. Shape
  BY Numbers DEF Init, Shape
<1>2. TasksFit
  BY DEF Init, TasksFit
<1>3. AcksFollowEvents
  BY DEF Init, AcksFollowEvents
<1>4. RunsInOrder
  <2> SUFFICES ASSUME NEW n \in 1 .. MaxChanges, NEW k \in Places, NEW l \in Places, k < l
               PROVE  runs[n][k] >= runs[n][l] + Cardinality(Between(n, k, l))
    BY DEF RunsInOrder
  <2>1. Between(n, k, l) = {}
    BY DEF Init, Between
  <2> QED
    BY <2>1, FS_EmptySet DEF Init
<1>5. AcksArePaid
  BY DEF Init, AcksArePaid
<1> QED
  BY <1>1, <1>2, <1>3, <1>4, <1>5 DEF Handled

(* The steps due are places.                                               *)
LEMMA DueArePlaces ==
  ASSUME Shape, NEW n \in 1 .. Len(events)
  PROVE  Due(n) \in Nat /\ 1 .. Due(n) \subseteq Places
<1>1. events[n] \in Events
  BY DEF Shape
<1>2. Due(n) \in 0 .. (MaxHandlers + 2)
  <2>1. Cues(events[n]) \in Routes
    BY <1>1 DEF Routes
  <2>2. Len(Cues(events[n])) \in 0 .. (MaxHandlers + 2)
    BY <2>1, RouteLengths
  <2> QED
    BY <2>2, Numbers DEF Due
<1> QED
  BY <1>2, Numbers DEF Places

(* The counters of an event and of the steps due to it are numbers.        *)
LEMMA CountsAreNumbers ==
  ASSUME Shape, NEW n \in 1 .. Len(events), NEW k \in 1 .. Due(n)
  PROVE  /\ n \in 1 .. MaxChanges /\ k \in Places
         /\ runs[n][k] \in Nat /\ acks[n] \in Nat
<1>1. k \in Places
  BY DueArePlaces
<1>2. Len(events) \in Nat /\ Len(events) <= MaxChanges
  BY DEF Shape
<1>3. n \in 1 .. MaxChanges
  BY <1>2, Numbers
<1> QED
  BY <1>1, <1>3 DEF Shape

(* Deliveries that begin or are given up change no count for the worse.    *)
LEMMA OrderKept ==
  ASSUME Handled, UNCHANGED runs,
         \A n \in 1 .. MaxChanges : \A k, l \in Places : Between(n, k, l)' \subseteq Between(n, k, l)
  PROVE  RunsInOrder'
<1> SUFFICES ASSUME NEW n \in 1 .. MaxChanges, NEW k \in Places, NEW l \in Places, k < l
             PROVE  runs[n][k] >= runs[n][l] + Cardinality(Between(n, k, l)')
  BY DEF RunsInOrder
<1>1. /\ Cardinality(Between(n, k, l)') <= Cardinality(Between(n, k, l))
      /\ Cardinality(Between(n, k, l)') \in Nat /\ Cardinality(Between(n, k, l)) \in Nat
  <2>1. Between(n, k, l) \subseteq Deliveries
    BY DEF Between
  <2> QED
    BY <2>1, Fewer
<1>2. runs[n][k] >= runs[n][l] + Cardinality(Between(n, k, l))
  BY DEF Handled, RunsInOrder
<1>3. runs[n][k] \in Nat /\ runs[n][l] \in Nat
  BY DEF Handled, Shape
<1> QED
  BY <1>1, <1>2, <1>3

(* Acknowledgements stay paid for when fewer deliveries stand between.     *)
LEMMA PaidKept ==
  ASSUME Handled, NEW n \in 1 .. Len(events), NEW k \in 1 .. Due(n),
         Between(n, k, Beyond)' \subseteq Between(n, k, Beyond)
  PROVE  runs[n][k] >= acks[n] + Cardinality(Between(n, k, Beyond)')
<1>1. /\ Cardinality(Between(n, k, Beyond)') <= Cardinality(Between(n, k, Beyond))
      /\ Cardinality(Between(n, k, Beyond)') \in Nat /\ Cardinality(Between(n, k, Beyond)) \in Nat
  <2>1. Between(n, k, Beyond) \subseteq Deliveries
    BY DEF Between
  <2> QED
    BY <2>1, Fewer
<1>2. runs[n][k] >= acks[n] + Cardinality(Between(n, k, Beyond))
  BY DEF Handled, AcksArePaid
<1>3. runs[n][k] \in Nat /\ acks[n] \in Nat
  BY CountsAreNumbers DEF Handled
<1> QED
  BY <1>1, <1>2, <1>3

(* A delivery is over, however it ended, but was not acknowledged.         *)
LEMMA OverHandled ==
  ASSUME Handled, NEW d \in Deliveries, Over(d),
         UNCHANGED <<serving, registered, framed, events, runs, acks, owed>>
  PROVE  Handled'
<1> USE DEF Handled
<1>1. Shape'
  BY DEF Over, Shape
<1>2. TasksFit'
  BY DEF Over, TasksFit, Due, Shape
<1>3. AcksFollowEvents'
  BY DEF AcksFollowEvents
<1>4. \A n, k, l : Between(n, k, l)' \subseteq Between(n, k, l)
  BY DEF Over, Between, Shape
<1>5. RunsInOrder' /\ AcksArePaid'
  BY <1>4, OrderKept, PaidKept DEF AcksArePaid, Due
<1> QED
  BY <1>1, <1>2, <1>3, <1>5

(* An acknowledged delivery has run every step that was due.               *)
LEMMA FinishedHandled ==
  ASSUME Handled, NEW d \in Deliveries, Finished(d)
  PROVE  Handled'
<1> USE DEF Handled
<1>1. CASE serving = "socket"
  BY <1>1, OverHandled DEF Finished, router
<1>2. CASE serving # "socket"
  <2> DEFINE m == task[d].event
  <2>1. task[d] # None /\ m \in 1 .. Len(events) /\ m \in 1 .. MaxChanges
        /\ task[d].at > Len(task[d].steps) /\ task[d].at \in Nat
        /\ Len(task[d].steps) >= Due(m) /\ Len(task[d].steps) \in Nat
        /\ task[d].at <= Beyond
    <3>1. task[d] \in Tasks
      BY DEF Finished, Shape
    <3>2. Len(task[d].steps) \in 0 .. (MaxHandlers + 2)
      BY <3>1, RouteLengths DEF Tasks
    <3>3. task[d].at <= Len(task[d].steps) + 1 /\ m \in 1 .. Len(events)
          /\ Len(task[d].steps) >= Due(m)
      BY DEF Finished, TasksFit
    <3> QED
      BY <3>1, <3>2, <3>3, Numbers DEF Finished, Done, Tasks, Beyond
  <2>2. Over(d) /\ acks' = [acks EXCEPT ![m] = @ + 1] /\ owed' \subseteq owed
        /\ UNCHANGED <<serving, registered, framed, events, runs>>
    BY <1>2 DEF Finished, router
  <2>3. Shape'
    <3>1. task' \in [Deliveries -> Tasks \cup {None}]
      BY <2>2 DEF Over, Shape
    <3>2. acks' \in [1 .. MaxChanges -> Nat]
      BY <2>1, <2>2 DEF Shape
    <3> QED
      BY <2>2, <3>1, <3>2 DEF Shape
  <2>4. TasksFit'
    BY <2>2 DEF Over, TasksFit, Due, Shape
  <2>5. AcksFollowEvents'
    BY <2>1, <2>2 DEF AcksFollowEvents, Shape
  <2>6. \A n, k, l : Between(n, k, l)' \subseteq Between(n, k, l) \ {d}
    BY <2>2 DEF Over, Between, Shape
  <2>7. RunsInOrder'
    BY <2>2, <2>6, OrderKept
  <2>8. ASSUME NEW n \in 1 .. Len(events), NEW k \in 1 .. Due(n)
        PROVE  runs[n][k] >= acks'[n] + Cardinality(Between(n, k, Beyond)')
    <3>1. CASE n # m
      <4>1. acks'[n] = acks[n]
        BY <2>2, <3>1, CountsAreNumbers DEF Shape
      <4> QED
        BY <2>6, <4>1, PaidKept
    <3>2. CASE n = m
      <4>1. d \in Between(n, k, Beyond) /\ Between(n, k, Beyond) \subseteq Deliveries
        <5>1. k \in Nat /\ Due(n) \in Nat /\ k <= Due(n) /\ Beyond \in Nat
          BY DueArePlaces, Numbers DEF Beyond
        <5>2. task[d].at \in (k + 1) .. Beyond
          BY <2>1, <3>2, <5>1
        <5> QED
          BY <2>1, <3>2, <5>2 DEF Between
      <4>2. /\ Cardinality(Between(n, k, Beyond)) \in Nat
            /\ Cardinality(Between(n, k, Beyond)') \in Nat
            /\ Cardinality(Between(n, k, Beyond)') + 1 <= Cardinality(Between(n, k, Beyond))
        <5>1. Between(n, k, Beyond)' \subseteq Between(n, k, Beyond) \ {d}
          BY <2>6
        <5> QED
          BY <4>1, <5>1, OneLess
      <4>3. runs[n][k] >= acks[n] + Cardinality(Between(n, k, Beyond))
        BY <3>2 DEF AcksArePaid
      <4>4. runs[n][k] \in Nat /\ acks[n] \in Nat /\ n \in 1 .. MaxChanges
        BY <3>2, CountsAreNumbers
      <4>5. acks'[n] = acks[n] + 1
        BY <2>2, <3>2, <4>4 DEF Shape
      <4> QED
        BY <4>2, <4>3, <4>4, <4>5
    <3> QED
      BY <3>1, <3>2
  <2>9. AcksArePaid'
    BY <2>2, <2>8 DEF AcksArePaid, Due
  <2> QED
    BY <2>3, <2>4, <2>5, <2>7, <2>9
<1> QED
  BY <1>1, <1>2

(* A delivery begins with its first step: it is between no two steps yet.  *)
LEMMA BegunHandled ==
  ASSUME Handled, NEW d \in Deliveries, task[d] = None, NEW n \in 1 .. Len(events), Begun(d, n),
         UNCHANGED <<serving, registered, events, runs, acks>>,
         owed' \subseteq owed, framed' \subseteq framed
  PROVE  Handled'
<1> USE DEF Handled
<1> DEFINE new == [event |-> n, steps |-> Steps(events[n]), at |-> 1]
<1>1. new \in Tasks
  <2>1. n \in 1 .. MaxChanges
    BY Numbers DEF Shape
  <2> QED
    BY <2>1, StepsAreRoutes DEF Tasks
<1>2. task' = [task EXCEPT ![d] = new]
  BY DEF Begun
<1>3. Shape'
  <2>1. task' \in [Deliveries -> Tasks \cup {None}]
    BY <1>1, <1>2 DEF Shape
  <2> QED
    BY <2>1 DEF Shape
<1>4. TasksFit'
  <2> SUFFICES ASSUME NEW e \in Deliveries, task'[e] # None
               PROVE  /\ task'[e].event \in 1 .. Len(events) /\ task'[e].at <= Len(task'[e].steps) + 1
                      /\ Len(task'[e].steps) >= Due(task'[e].event)
    BY DEF TasksFit, Due
  <2>1. CASE e = d
    <3>1. task'[e] = new
      BY <1>2, <2>1 DEF Shape
    <3>2. Len(new.steps) \in Nat /\ Len(new.steps) >= Due(n)
      BY <1>1, RouteLengths, StepsAreRoutes, Numbers DEF Tasks
    <3> QED
      BY <3>1, <3>2
  <2>2. CASE e # d
    <3>1. task'[e] = task[e]
      BY <1>2, <2>2 DEF Shape
    <3> QED
      BY <3>1 DEF TasksFit
  <2> QED
    BY <2>1, <2>2
<1>5. AcksFollowEvents'
  BY DEF AcksFollowEvents
<1>6. Places \subseteq Nat \ {0}
  BY Numbers DEF Places
<1>7. ASSUME NEW m, NEW k \in Nat \ {0}, NEW l
      PROVE  Between(m, k, l)' \subseteq Between(m, k, l)
  <2> SUFFICES ASSUME NEW e \in Deliveries, e \in Between(m, k, l)'
               PROVE  e \in Between(m, k, l)
    BY DEF Between
  <2>1. CASE e = d
    <3>1. task'[e] = new
      BY <1>2, <2>1 DEF Shape
    <3>2. 1 \in (k + 1) .. l
      BY <3>1 DEF Between
    <3> QED
      BY <3>2
  <2>2. CASE e # d
    <3>1. task'[e] = task[e]
      BY <1>2, <2>2 DEF Shape
    <3> QED
      BY <3>1 DEF Between
  <2> QED
    BY <2>1, <2>2
<1>8. RunsInOrder'
  BY <1>6, <1>7, OrderKept
<1>9. AcksArePaid'
  BY <1>6, <1>7, PaidKept, DueArePlaces DEF AcksArePaid, Due
<1> QED
  BY <1>3, <1>4, <1>5, <1>8, <1>9

(* A step ends: its delivery leaves those before it and joins those past   *)
(* it, and the step counts once more.                                      *)
LEMMA StepEndsHandled ==
  ASSUME Handled, NEW d \in Deliveries, StepEnds(d)
  PROVE  Handled'
<1> USE DEF Handled
<1>1. PICK m \in 1 .. MaxChanges, j \in Places :
        /\ task[d] \in Tasks /\ task[d] # None
        /\ m = task[d].event /\ j = task[d].at /\ m \in 1 .. Len(events)
        /\ j <= Len(task[d].steps) /\ Len(task[d].steps) >= Due(m)
        /\ Len(task[d].steps) \in Nat
  <2>1. task[d] \in Tasks /\ task[d] # None /\ task[d].at <= Len(task[d].steps)
    BY DEF StepEnds, Under, Shape
  <2>2. Len(task[d].steps) \in 0 .. (MaxHandlers + 2) /\ task[d].at \in Nat \ {0}
    BY <2>1, RouteLengths DEF Tasks
  <2>3. task[d].at \in Places
    BY <2>1, <2>2, Numbers DEF Places
  <2>4. task[d].event \in 1 .. MaxChanges
    BY <2>1 DEF Tasks
  <2>5. Len(task[d].steps) \in Nat
    BY <2>2, Numbers
  <2> QED
    BY <2>1, <2>3, <2>4, <2>5 DEF TasksFit
<1>2. /\ runs' = [runs EXCEPT ![m][j] = @ + 1]
      /\ task' = [task EXCEPT ![d].at = @ + 1]
      /\ UNCHANGED <<serving, registered, framed, events, owed, acks>>
  BY <1>1 DEF StepEnds, Ran, router, pumble
<1>3. Places \subseteq Nat \ {0} /\ Beyond \in Nat /\ \A k \in Places : k < Beyond
  BY Numbers DEF Places, Beyond
<1>4. /\ task'[d] = [task[d] EXCEPT !.at = j + 1]
      /\ \A e \in Deliveries : e # d => task'[e] = task[e]
  BY <1>1, <1>2 DEF Shape
<1>5. task'[d] \in Tasks /\ task'[d].event = m /\ task'[d].at = j + 1
      /\ task'[d].steps = task[d].steps
  BY <1>1, <1>3, <1>4 DEF Tasks
<1>6. Shape'
  <2>1. task' \in [Deliveries -> Tasks \cup {None}]
    BY <1>2, <1>4, <1>5 DEF Shape
  <2>2. runs' \in [1 .. MaxChanges -> [Places -> Nat]]
    BY <1>2 DEF Shape
  <2> QED
    BY <1>2, <2>1, <2>2 DEF Shape
<1>7. TasksFit'
  <2> SUFFICES ASSUME NEW e \in Deliveries, task'[e] # None
               PROVE  /\ task'[e].event \in 1 .. Len(events) /\ task'[e].at <= Len(task'[e].steps) + 1
                      /\ Len(task'[e].steps) >= Due(task'[e].event)
    BY <1>2 DEF TasksFit, Due
  <2>1. CASE e = d
    BY <1>1, <1>3, <1>5, <2>1
  <2>2. CASE e # d
    BY <1>4, <2>2 DEF TasksFit
  <2> QED
    BY <2>1, <2>2
<1>8. AcksFollowEvents'
  BY <1>2 DEF AcksFollowEvents
<1>9. ASSUME NEW n \in 1 .. MaxChanges, NEW k \in Places
      PROVE  /\ runs'[n][k] = IF n = m /\ k = j THEN runs[n][k] + 1 ELSE runs[n][k]
             /\ runs[n][k] \in Nat
  BY <1>2 DEF Shape
<1>10. ASSUME NEW n \in 1 .. MaxChanges, NEW k \in Nat, NEW l \in Nat, k < l
       PROVE  /\ Between(n, k, l) \subseteq Deliveries
              /\ n # m => Between(n, k, l)' \subseteq Between(n, k, l)
              /\ k # j /\ l # j => Between(n, k, l)' \subseteq Between(n, k, l)
              /\ k = j => Between(n, k, l)' \subseteq Between(n, k, l) \cup {d}
              /\ n = m /\ l = j => /\ d \in Between(n, k, l)
                                  /\ Between(n, k, l)' \subseteq Between(n, k, l) \ {d}
  <2>1. \A e \in Deliveries : e # d => (e \in Between(n, k, l)' <=> e \in Between(n, k, l))
    BY <1>4 DEF Between
  <2>2. d \in Between(n, k, l) <=> n = m /\ k < j /\ j <= l
    BY <1>1, <1>3 DEF Between
  <2>3. d \in Between(n, k, l)' => n = m /\ k < j + 1 /\ j + 1 <= l
    BY <1>3, <1>5 DEF Between
  <2>4. Between(n, k, l) \subseteq Deliveries /\ Between(n, k, l)' \subseteq Deliveries
    BY DEF Between
  <2>5. j \in Nat
    BY <1>3
  <2>6. d \in Between(n, k, l) \/ d \notin Between(n, k, l)'
        => Between(n, k, l)' \subseteq Between(n, k, l)
    BY <2>1, <2>4
  <2>7. Between(n, k, l)' \subseteq Between(n, k, l) \cup {d}
    BY <2>1, <2>4
  <2>8. n # m => d \notin Between(n, k, l)'
    BY <2>3
  <2>9. k # j /\ l # j /\ d \in Between(n, k, l)' => d \in Between(n, k, l)
    BY <2>2, <2>3, <2>5
  <2>10. n = m /\ l = j => d \in Between(n, k, l) /\ d \notin Between(n, k, l)'
    <3>1. l = j => k < j /\ j <= l /\ ~(j + 1 <= l)
      BY <1>10, <2>5
    <3> QED
      BY <2>2, <2>3, <3>1
  <2>11. d \notin Between(n, k, l)' => Between(n, k, l)' \subseteq Between(n, k, l) \ {d}
    BY <2>1, <2>4
  <2> QED
    BY <2>4, <2>6, <2>7, <2>8, <2>9, <2>10, <2>11
<1>11. RunsInOrder'
  <2> SUFFICES ASSUME NEW n \in 1 .. MaxChanges, NEW k \in Places, NEW l \in Places, k < l
               PROVE  runs'[n][k] >= runs'[n][l] + Cardinality(Between(n, k, l)')
    BY DEF RunsInOrder
  <2>1. runs[n][k] >= runs[n][l] + Cardinality(Between(n, k, l))
    BY DEF RunsInOrder
  <2>2. k \in Nat /\ l \in Nat /\ j \in Nat
    BY <1>3
  <2>3. CASE n # m \/ (k # j /\ l # j)
    <3>1. Between(n, k, l) \subseteq Deliveries /\ Between(n, k, l)' \subseteq Between(n, k, l)
      BY <1>10, <2>2, <2>3
    <3>2. /\ Cardinality(Between(n, k, l)) \in Nat /\ Cardinality(Between(n, k, l)') \in Nat
          /\ Cardinality(Between(n, k, l)') <= Cardinality(Between(n, k, l))
      BY <3>1, Fewer
    <3> QED
      BY <1>9, <2>1, <2>3, <3>2
  <2>4. CASE n = m /\ k = j
    <3>1. Between(n, k, l) \subseteq Deliveries /\ Between(n, k, l)' \subseteq Between(n, k, l) \cup {d}
      BY <1>10, <2>2, <2>4
    <3>2. /\ Cardinality(Between(n, k, l)) \in Nat /\ Cardinality(Between(n, k, l)') \in Nat
          /\ Cardinality(Between(n, k, l)') <= Cardinality(Between(n, k, l)) + 1
      BY <3>1, OneMore
    <3>3. /\ runs'[n][k] = runs[n][k] + 1 /\ runs'[n][l] = runs[n][l]
          /\ runs[n][k] \in Nat /\ runs[n][l] \in Nat
      BY <1>9, <2>2, <2>4
    <3> QED
      BY <2>1, <3>2, <3>3
  <2>5. CASE n = m /\ l = j
    <3>1. /\ Between(n, k, l) \subseteq Deliveries /\ d \in Between(n, k, l)
          /\ Between(n, k, l)' \subseteq Between(n, k, l) \ {d}
      BY <1>10, <2>2, <2>5
    <3>2. /\ Cardinality(Between(n, k, l)) \in Nat /\ Cardinality(Between(n, k, l)') \in Nat
          /\ Cardinality(Between(n, k, l)') + 1 <= Cardinality(Between(n, k, l))
      BY <3>1, OneLess
    <3>3. /\ runs'[n][k] = runs[n][k] /\ runs'[n][l] = runs[n][l] + 1
          /\ runs[n][k] \in Nat /\ runs[n][l] \in Nat
      BY <1>9, <2>2, <2>5
    <3> QED
      BY <2>1, <3>2, <3>3
  <2> QED
    BY <2>3, <2>4, <2>5
<1>12. AcksArePaid'
  <2> SUFFICES ASSUME NEW n \in 1 .. Len(events), NEW k \in 1 .. Due(n)
               PROVE  runs'[n][k] >= acks[n] + Cardinality(Between(n, k, Beyond)')
    BY <1>2 DEF AcksArePaid, Due
  <2>1. runs[n][k] >= acks[n] + Cardinality(Between(n, k, Beyond))
    BY DEF AcksArePaid
  <2>2. n \in 1 .. MaxChanges /\ k \in Places /\ runs[n][k] \in Nat /\ acks[n] \in Nat
    BY CountsAreNumbers
  <2>3. k \in Nat /\ j \in Nat /\ k < Beyond /\ j # Beyond
    BY <1>3, <2>2
  <2>4. CASE n # m \/ k # j
    <3>1. /\ Between(n, k, Beyond) \subseteq Deliveries
          /\ Between(n, k, Beyond)' \subseteq Between(n, k, Beyond)
      BY <1>3, <1>10, <2>2, <2>3, <2>4
    <3>2. /\ Cardinality(Between(n, k, Beyond)) \in Nat /\ Cardinality(Between(n, k, Beyond)') \in Nat
          /\ Cardinality(Between(n, k, Beyond)') <= Cardinality(Between(n, k, Beyond))
      BY <3>1, Fewer
    <3>3. runs'[n][k] = runs[n][k] /\ runs[n][k] \in Nat /\ acks[n] \in Nat
      BY <1>9, <2>2, <2>4
    <3> QED
      BY <2>1, <3>2, <3>3
  <2>5. CASE n = m /\ k = j
    <3>1. /\ Between(n, k, Beyond) \subseteq Deliveries
          /\ Between(n, k, Beyond)' \subseteq Between(n, k, Beyond) \cup {d}
      BY <1>3, <1>10, <2>2, <2>3, <2>5
    <3>2. /\ Cardinality(Between(n, k, Beyond)) \in Nat /\ Cardinality(Between(n, k, Beyond)') \in Nat
          /\ Cardinality(Between(n, k, Beyond)') <= Cardinality(Between(n, k, Beyond)) + 1
      BY <3>1, OneMore
    <3>3. runs'[n][k] = runs[n][k] + 1 /\ runs[n][k] \in Nat /\ acks[n] \in Nat
      BY <1>9, <2>2, <2>5
    <3> QED
      BY <2>1, <3>2, <3>3, OneEach
  <2> QED
    BY <2>4, <2>5
<1> QED
  BY <1>6, <1>7, <1>8, <1>11, <1>12

(* An event that just happened was neither delivered nor acknowledged.     *)
LEMMA ChangeHandled ==
  ASSUME Handled, Change
  PROVE  Handled'
<1> USE DEF Handled
<1>1. PICK e \in Events : events' = Append(events, e)
  <2>1. (CHOOSE e \in Events : TRUE) \in Events
    BY ReceiverAssumption
  <2> QED
    BY <2>1 DEF Change
<1>2. /\ Len(events) \in Nat /\ Len(events) < MaxChanges /\ MaxChanges \in Nat
      /\ owed' = owed \cup {Len(events) + 1}
      /\ UNCHANGED <<serving, registered, framed, task, runs, acks>>
  BY Numbers DEF Change, Shape, router, tallies
<1>3. /\ events' \in Seq(Events) /\ Len(events') = Len(events) + 1
      /\ events'[Len(events) + 1] = e
      /\ \A n \in 1 .. Len(events) : events'[n] = events[n]
  BY <1>1, <1>2 DEF Shape
<1>4. Shape'
  <2>1. owed' \cup framed' \subseteq 1 .. Len(events') /\ Len(events') <= MaxChanges
    <3>1. 1 .. Len(events) \subseteq 1 .. Len(events')
      BY <1>2, <1>3
    <3>2. Len(events) + 1 \in 1 .. Len(events')
      BY <1>2, <1>3
    <3>3. owed \cup framed \subseteq 1 .. Len(events)
      BY DEF Shape
    <3>4. owed' = owed \cup {Len(events) + 1} /\ framed' = framed
      BY <1>2
    <3>5. owed' \cup framed' \subseteq 1 .. Len(events')
      BY <3>1, <3>2, <3>3, <3>4, Zenon
    <3>6. Len(events') <= MaxChanges
      BY <1>2, <1>3
    <3> QED
      BY <3>5, <3>6
  <2> QED
    BY <1>2, <1>3, <2>1 DEF Shape
<1>5. \A n \in 1 .. Len(events) : Due(n)' = Due(n)
  BY <1>2, <1>3 DEF Due
<1>6. TasksFit'
  <2> SUFFICES ASSUME NEW d \in Deliveries, task[d] # None
               PROVE  /\ task[d].event \in 1 .. Len(events') /\ task[d].at <= Len(task[d].steps) + 1
                      /\ Len(task[d].steps) >= Due(task[d].event)'
    BY <1>2 DEF TasksFit, Due
  <2>1. task[d].event \in 1 .. Len(events) /\ task[d].at <= Len(task[d].steps) + 1
        /\ Len(task[d].steps) >= Due(task[d].event)
    BY DEF TasksFit
  <2>2. Due(task[d].event)' = Due(task[d].event)
    BY <1>2, <1>3, <2>1 DEF Due
  <2> QED
    BY <1>2, <1>3, <2>1, <2>2
<1>7. AcksFollowEvents'
  BY <1>2, <1>3 DEF AcksFollowEvents
<1>8. \A n, k, l : Between(n, k, l)' = Between(n, k, l)
  BY <1>2 DEF Between
<1>9. RunsInOrder'
  BY <1>2, <1>8, OrderKept
<1>10. ASSUME NEW n \in 1 .. Len(events'), NEW k \in 1 .. Due(n)'
       PROVE  runs[n][k] >= acks[n] + Cardinality(Between(n, k, Beyond))
  <2>1. CASE n \in 1 .. Len(events)
    BY <1>5, <2>1 DEF AcksArePaid
  <2>2. CASE n \notin 1 .. Len(events)
    <3>1. n = Len(events) + 1 /\ n \in 1 .. MaxChanges
      BY <1>2, <1>3, <2>2
    <3>2. Due(n)' \in 0 .. (MaxHandlers + 2)
      <4>1. Cues(e) \in Routes
        BY DEF Routes
      <4>2. Len(Cues(e)) \in 0 .. (MaxHandlers + 2)
        BY <4>1, RouteLengths
      <4>3. Due(n)' = IF serving = "bridge" THEN Len(Cues(e)) ELSE AtStart
        BY <1>2, <1>3, <3>1 DEF Due
      <4> QED
        BY <4>2, <4>3, Numbers
    <3>3. k \in Places
      BY <3>2, Numbers DEF Places
    <3>4. runs[n][k] \in Nat /\ acks[n] = 0
      BY <1>2, <3>1, <3>3 DEF Shape, AcksFollowEvents
    <3>5. Between(n, k, Beyond) = {}
      BY <2>2 DEF Between, TasksFit
    <3> QED
      BY <3>4, <3>5, FS_EmptySet
  <2> QED
    BY <2>1, <2>2
<1>11. AcksArePaid'
  BY <1>2, <1>8, <1>10 DEF AcksArePaid, Due, Beyond
<1> QED
  BY <1>4, <1>6, <1>7, <1>9, <1>11

(* A handler registered later is not due: dispatches under way keep to     *)
(* their own, and those to come have at least the handlers of the start.   *)
LEMMA RegisterHandled ==
  ASSUME Handled, Register
  PROVE  Handled'
<1> USE DEF Handled
<1>1. /\ registered' = registered + 1 /\ registered < MaxHandlers
      /\ UNCHANGED <<serving, events, owed, framed, task, runs, acks>>
  BY DEF Register, pumble, tallies
<1>2. Shape'
  <2>1. registered' \in AtStart .. MaxHandlers
    BY <1>1, Numbers DEF Shape
  <2> QED
    BY <1>1, <2>1 DEF Shape
<1>3. TasksFit' /\ AcksFollowEvents'
  BY <1>1 DEF TasksFit, Due, AcksFollowEvents
<1>4. \A n, k, l : Between(n, k, l)' = Between(n, k, l)
  BY <1>1 DEF Between
<1>5. RunsInOrder'
  BY <1>1, <1>4 DEF RunsInOrder
<1>6. AcksArePaid'
  BY <1>1, <1>4 DEF AcksArePaid, Due
<1> QED
  BY <1>2, <1>3, <1>5, <1>6

(* Which events wait for a delivery is nothing to the deliveries there are.*)
LEMMA AwaitingHandled ==
  ASSUME Handled, UNCHANGED <<serving, registered, events, task, runs, acks>>,
         owed' \cup framed' \subseteq owed \cup framed
  PROVE  Handled'
<1> USE DEF Handled
<1>1. Shape'
  BY DEF Shape
<1>2. TasksFit' /\ AcksFollowEvents'
  BY DEF TasksFit, Due, AcksFollowEvents
<1>3. RunsInOrder' /\ AcksArePaid'
  BY DEF RunsInOrder, AcksArePaid, Between, Due
<1> QED
  BY <1>1, <1>2, <1>3

(* What is not about deliveries leaves them alone.                         *)
LEMMA IdleHandled ==
  ASSUME Handled, UNCHANGED <<serving, registered, events, owed, framed, task, runs, acks>>
  PROVE  Handled'
  BY AwaitingHandled

(* Every step of the receiver keeps the account of its deliveries.         *)
LEMMA NextHandled == Handled /\ [Next]_vars => Handled'
<1> SUFFICES ASSUME Handled, [Next]_vars PROVE Handled'
  OBVIOUS
<1>1. CASE Change
  BY <1>1, ChangeHandled
<1>2. CASE Register
  BY <1>2, RegisterHandled
<1>3. CASE Connection \/ Refetch \/ Relisten \/ UNCHANGED vars
  <2>1. UNCHANGED <<serving, registered, events, owed, framed, task, runs, acks>>
    BY <1>3 DEF Connection, Refetch, Relisten, vars, router, pumble, tallies
  <2> QED
    BY <2>1, IdleHandled
<1>4. ASSUME NEW d \in Deliveries, Post(d)
      PROVE  Handled'
  <2>1. PICK n \in owed : Begun(d, n) \/ UNCHANGED task
    BY <1>4 DEF Post
  <2>2. /\ task[d] = None /\ n \in 1 .. Len(events)
        /\ UNCHANGED <<serving, registered, framed, events, owed, runs, acks>>
    BY <1>4 DEF Post, router, pumble, tallies, Handled, Shape
  <2> QED
    BY <2>1, <2>2, BegunHandled, IdleHandled
<1>5. CASE Frame \/ ContextFails
  <2>1. /\ owed' \cup framed' \subseteq owed \cup framed
        /\ UNCHANGED <<serving, registered, events, task, runs, acks>>
    BY <1>5 DEF Frame, ContextFails, pumble, tallies
  <2> QED
    BY <2>1, AwaitingHandled
<1>6. ASSUME NEW d \in Deliveries, StepEnds(d)
      PROVE  Handled'
  BY <1>6, StepEndsHandled
<1>7. ASSUME NEW d \in Deliveries, StepFails(d) \/ Cancelled(d)
      PROVE  Handled'
  <2>1. Over(d) /\ UNCHANGED <<serving, registered, framed, events, runs, acks, owed>>
    BY <1>7 DEF StepFails, Cancelled, AfterFailing, router, pumble, tallies
  <2> QED
    BY <2>1, OverHandled
<1>8. ASSUME NEW d \in Deliveries, Finished(d)
      PROVE  Handled'
  BY <1>8, FinishedHandled
<1>9. ASSUME NEW d \in Deliveries, ContextMade(d)
      PROVE  Handled'
  <2>1. PICK n \in framed : Begun(d, n) /\ framed' = framed \ {n}
    BY <1>9 DEF ContextMade
  <2>2. /\ task[d] = None /\ n \in 1 .. Len(events) /\ framed' \subseteq framed
        /\ UNCHANGED <<serving, registered, events, owed, runs, acks>>
    BY <1>9, <2>1 DEF ContextMade, pumble, tallies, Handled, Shape
  <2> QED
    BY <2>1, <2>2, BegunHandled
<1> QED
  BY <1>1, <1>2, <1>3, <1>4, <1>5, <1>6, <1>7, <1>8, <1>9 DEF Next

(* A delivery in between counts for the steps before it only, so that the  *)
(* counts themselves are in order.                                         *)
LEMMA HandledIsEarned == Handled => AcksAreEarned
<1> SUFFICES ASSUME Handled, NEW n \in DOMAIN events
             PROVE  /\ \A k, l \in Places : k < l => runs[n][k] >= runs[n][l]
                    /\ \A k \in 1 .. Due(n) : runs[n][k] >= acks[n]
  BY DEF AcksAreEarned, Due
<1> USE DEF Handled
<1>1. n \in 1 .. Len(events) /\ n \in 1 .. MaxChanges
  BY Numbers DEF Shape
<1>2. \A k, l : Cardinality(Between(n, k, l)) \in Nat
  <2>1. \A k, l : Between(n, k, l) \subseteq Deliveries
    BY DEF Between
  <2> QED
    BY <2>1, Fewer
<1>3. ASSUME NEW k \in Places, NEW l \in Places, k < l
      PROVE  runs[n][k] >= runs[n][l]
  <2>1. runs[n][k] >= runs[n][l] + Cardinality(Between(n, k, l))
    BY <1>1, <1>3 DEF RunsInOrder
  <2>2. runs[n][k] \in Nat /\ runs[n][l] \in Nat
    BY <1>1 DEF Shape
  <2> QED
    BY <1>2, <2>1, <2>2
<1>4. ASSUME NEW k \in 1 .. Due(n)
      PROVE  runs[n][k] >= acks[n]
  <2>1. runs[n][k] >= acks[n] + Cardinality(Between(n, k, Beyond))
    BY <1>1 DEF AcksArePaid
  <2>2. runs[n][k] \in Nat /\ acks[n] \in Nat
    BY <1>1, CountsAreNumbers
  <2> QED
    BY <1>2, <2>1, <2>2
<1> QED
  BY <1>3, <1>4

(* The account holds at every moment.                                      *)
LEMMA DeliveriesHandled == Spec => []Handled
<1>1. Init => Handled
  BY InitHandled
<1>2. Handled /\ [Next]_vars => Handled'
  BY NextHandled
<1> QED
  BY <1>1, <1>2, PTL DEF Spec

(* Whatever deliveries overlap, are repeated, fail half-way or are         *)
(* cancelled, however many there are and whatever is registered meanwhile: *)
(* no step has been run more often than the one before it, and every 204   *)
(* stands for a run of each step due (webhooks.py, router.py dispatch).    *)
THEOREM AcknowledgedWasHandled == Spec => []AcksAreEarned
<1>1. Handled => AcksAreEarned
  BY HandledIsEarned
<1> QED
  BY <1>1, DeliveriesHandled, PTL

-----------------------------------------------------------------------------
(* The subscriber: its inductive invariant *)

(* What the subscriber has is no newer than what there is, and its stream, *)
(* unless it was ended, holds no cue twice and no more than it may.        *)
SubscriberTyped ==
    /\ delivered \in 0 .. MaxDeliveries
    /\ version \in [Resources -> Nat] /\ known \in [Resources -> Nat]
    /\ \A r \in Resources : known[r] <= version[r]
    /\ stream # None => stream \in Seq(Resources) /\ Len(stream) <= BufferCap /\ IsInjective(stream)

(* The bridge runs one publication per cue of the event it was delivered.  *)
CuesAreRun ==
    serving = "bridge" =>
        \A d \in Deliveries : task[d] # None => task[d].steps = Cues(events[task[d].event])

(* The edits of a root, which cue no thread.                               *)
Excused(r) ==
    \E n \in 1 .. Len(events) :
        /\ events[n].type \in Messages /\ events[n].thread = None
        /\ r = Thread(events[n].channel, events[n].message)

(* Event n cues r, and no delivery of it under way has published that yet. *)
Unpublished(n, r) ==
    /\ r \in ToSet(Cues(events[n]))
    /\ \A d \in Deliveries : task[d] # None /\ task[d].event = n =>
        \A i \in 1 .. (task[d].at - 1) : task[d].steps[i] # r

(* What the subscriber has is stale only while the cue is on its way: in   *)
(* the stream, or with an event that Pumble still owes and of which no     *)
(* delivery is past the cue, so that none can be acknowledged without it.  *)
Pending(r) ==
    \/ Excused(r) \/ stream = None \/ r \in ToSet(stream)
    \/ \E n \in owed : Unpublished(n, r)

StaleIsPending ==
    serving = "bridge" => \A r \in Resources : known[r] # version[r] => Pending(r)

Subscribed == SubscriberTyped /\ CuesAreRun /\ StaleIsPending

-----------------------------------------------------------------------------
(* Cues and resources *)

(* The bounds are numbers.                                                 *)
LEMMA Bounds == MaxDeliveries \in Nat /\ BufferCap \in Nat /\ None # <<>>
  BY ReceiverAssumption

(* Whatever an event changes it cues, but for the thread of an edited root.*)
LEMMA ChangesAreCued ==
  ASSUME NEW e \in Events, NEW r \in Touched(e)
  PROVE  \/ r \in ToSet(Cues(e))
         \/ e.type \in Messages /\ e.thread = None /\ r = Thread(e.channel, e.message)
<1>1. CASE e.type \in Messages
  <2>1. e.channel # None
    BY <1>1, ReceiverAssumption
  <2>2. r \in {Channel(e.channel), Thread(e.channel, IF e.thread = None THEN e.message ELSE e.thread)}
    <3>1. e.type # "CHANNEL_CREATED" /\ e.type \notin Authorizations
      BY <1>1 DEF Messages, Authorizations
    <3> QED
      BY <1>1, <3>1, Zenon DEF Touched
  <2>3. e.type # "REACTION_ADDED"
    BY <1>1 DEF Messages
  <2>4. CASE e.thread = None
    <3>1. Cues(e) = <<Channel(e.channel)>>
      BY <1>1, <2>1, <2>3, <2>4 DEF Cues
    <3> HIDE DEF Cues
    <3>2. Channel(e.channel) \in ToSet(Cues(e))
      BY <3>1 DEF ToSet
    <3> QED
      BY <1>1, <2>2, <2>4, <3>2
  <2>5. CASE e.thread # None
    <3>1. Cues(e) = <<Channel(e.channel), Thread(e.channel, e.thread)>>
      BY <1>1, <2>1, <2>3, <2>5 DEF Cues
    <3>2. Channel(e.channel) \in ToSet(Cues(e)) /\ Thread(e.channel, e.thread) \in ToSet(Cues(e))
      BY <3>1 DEF ToSet
    <3> QED
      BY <2>2, <2>5, <3>2
  <2> QED
    BY <2>4, <2>5
<1>2. CASE e.type = "CHANNEL_CREATED"
  <2>1. e.type \notin Messages /\ e.type # "REACTION_ADDED"
    BY <1>2 DEF Messages
  <2>2. Cues(e) = <<Channels>>
    BY <1>2, <2>1 DEF Cues
  <2>3. e.type \notin Authorizations
    BY <1>2 DEF Authorizations
  <2>4. r = Channels
    BY <1>2, <2>1, <2>3, Zenon DEF Touched
  <2> QED
    BY <2>2, <2>4 DEF ToSet
<1>3. CASE e.type \in Authorizations
  <2>1. e.type \notin Messages /\ e.type # "REACTION_ADDED" /\ e.type # "CHANNEL_CREATED"
    BY <1>3 DEF Messages, Authorizations
  <2>2. Cues(e) = <<Me, Channels>>
    BY <1>3, <2>1 DEF Cues
  <2>3. r \in {Me, Channels}
    BY <1>3, <2>1, Zenon DEF Touched
  <2> QED
    BY <2>2, <2>3 DEF ToSet
<1> QED
  BY <1>1, <1>2, <1>3 DEF Touched

(* Cues are of resources.                                                  *)
LEMMA CuesAreResources ==
  ASSUME NEW e \in Events
  PROVE  /\ Cues(e) \in Seq(Resources) /\ ToSet(Cues(e)) \subseteq Resources
         /\ \A i \in 1 .. Len(Cues(e)) : Cues(e)[i] \in Resources
<1>1. ToSet(Cues(e)) \subseteq Resources
  <2>1. ToSet(Cues(e)) \subseteq Touched(e) \cup ToSet(Cues(e))
    BY Zenon
  <2> QED
    BY <2>1, Zenon DEF Resources
<1>2. Cues(e) \in Seq(ToSet(Cues(e)))
  <2>1. \/ Cues(e) = <<>>
        \/ \E a : Cues(e) = <<a>>
        \/ \E a, b : Cues(e) = <<a, b>>
    BY DEF Cues
  <2>2. CASE Cues(e) = <<>>
    BY <2>2
  <2>3. ASSUME NEW a, Cues(e) = <<a>>
        PROVE  Cues(e) \in Seq(ToSet(Cues(e)))
    BY <2>3 DEF ToSet
  <2>4. ASSUME NEW a, NEW b, Cues(e) = <<a, b>>
        PROVE  Cues(e) \in Seq(ToSet(Cues(e)))
    BY <2>4 DEF ToSet
  <2> QED
    BY <2>1, <2>2, <2>3, <2>4
<1>3. Cues(e) \in Seq(Resources)
  BY <1>1, <1>2
<1> QED
  BY <1>1, <1>3

(* A delivery of an event runs the cues of that event.                     *)
LEMMA CueOfAStep ==
  ASSUME Handled, Subscribed, serving = "bridge", NEW d \in Deliveries, task[d] # None
  PROVE  LET t == task[d] IN
         /\ t.steps = Cues(events[t.event]) /\ t.event \in 1 .. Len(events)
         /\ t.at \in Nat \ {0} /\ Len(t.steps) \in Nat /\ t.at <= Len(t.steps) + 1
         /\ \A i \in 1 .. Len(t.steps) : t.steps[i] \in Resources
<1> DEFINE t == task[d]
<1>1. t \in Tasks /\ t.event \in 1 .. Len(events) /\ t.at <= Len(t.steps) + 1
  BY DEF Handled, Shape, TasksFit
<1>2. t.steps = Cues(events[t.event])
  BY DEF Subscribed, CuesAreRun
<1>3. events[t.event] \in Events
  BY <1>1 DEF Handled, Shape
<1>4. Len(t.steps) \in Nat /\ \A i \in 1 .. Len(t.steps) : t.steps[i] \in Resources
  BY <1>2, <1>3, CuesAreResources
<1> QED
  BY <1>1, <1>2, <1>4 DEF Tasks

-----------------------------------------------------------------------------
(* One lemma per kind of step of the subscriber *)

(* A new subscriber knows everything there is.                             *)
LEMMA InitSubscribed == Init => Subscribed
<1> SUFFICES ASSUME Init PROVE Subscribed
  OBVIOUS
<1>1. SubscriberTyped
  <2>1. version = [r \in Resources |-> 0] /\ known = version /\ delivered = 0 /\ stream = <<>>
    BY DEF Init
  <2>2. stream \in Seq(Resources) /\ Len(stream) = 0 /\ IsInjective(stream)
    BY <2>1 DEF IsInjective
  <2> QED
    BY <2>1, <2>2, Bounds DEF SubscriberTyped
<1>2. CuesAreRun
  BY DEF Init, CuesAreRun
<1>3. StaleIsPending
  BY DEF Init, StaleIsPending
<1> QED
  BY <1>1, <1>2, <1>3 DEF Subscribed

(* What is on its way stays on its way while nothing is read, happens or   *)
(* is acknowledged without having been published.                          *)
LEMMA PendingKept ==
  ASSUME UNCHANGED <<serving, events, stream, known, version>>, StaleIsPending,
         serving = "bridge" => \A n \in owed : \A r :
            Unpublished(n, r) => n \in owed' /\ Unpublished(n, r)'
  PROVE  StaleIsPending'
<1> SUFFICES ASSUME serving = "bridge", NEW r \in Resources, known[r] # version[r]
             PROVE  Pending(r)'
  BY DEF StaleIsPending
<1>1. Pending(r)
  BY DEF StaleIsPending
<1>2. Excused(r)' <=> Excused(r)
  BY DEF Excused
<1> QED
  BY <1>1, <1>2 DEF Pending

(* What is about neither events nor deliveries leaves the subscriber alone.*)
LEMMA IdleSubscribed ==
  ASSUME Subscribed, UNCHANGED <<serving, events, owed, delivered, task, version, stream, known>>
  PROVE  Subscribed'
<1> USE DEF Subscribed
<1>1. SubscriberTyped'
  BY DEF SubscriberTyped
<1>2. CuesAreRun'
  BY DEF CuesAreRun
<1>3. \A n, r : Unpublished(n, r)' <=> Unpublished(n, r)
  BY DEF Unpublished
<1>4. StaleIsPending'
  BY <1>3, PendingKept
<1> QED
  BY <1>1, <1>2, <1>4

(* A delivery that is given up has published no more than before.          *)
LEMMA OverSubscribed ==
  ASSUME Handled, Subscribed, NEW d \in Deliveries, Over(d),
         UNCHANGED <<serving, events, delivered, version, stream, known>>,
         serving = "bridge" => \A n \in owed : \A r : Unpublished(n, r) => n \in owed'
  PROVE  Subscribed'
<1> USE DEF Subscribed
<1>1. \A e \in Deliveries : task'[e] # None => task'[e] = task[e]
  BY DEF Over, Handled, Shape
<1>2. SubscriberTyped'
  BY DEF SubscriberTyped
<1>3. CuesAreRun'
  BY <1>1 DEF CuesAreRun
<1>4. \A n, r : Unpublished(n, r) => Unpublished(n, r)'
  BY <1>1 DEF Unpublished
<1>5. StaleIsPending'
  BY <1>4, PendingKept
<1> QED
  BY <1>2, <1>3, <1>5

(* An acknowledged delivery has published every cue of its event.          *)
LEMMA FinishedSubscribed ==
  ASSUME Handled, Subscribed, NEW d \in Deliveries, Finished(d)
  PROVE  Subscribed'
<1>1. /\ task[d] # None /\ Done(d) /\ Over(d)
      /\ UNCHANGED <<serving, events, delivered, version, stream, known>>
      /\ owed' = owed \/ owed' = owed \ {task[d].event}
  BY DEF Finished, router, subscriber
<1>2. ASSUME serving = "bridge", NEW n \in owed, NEW r, Unpublished(n, r)
      PROVE  n \in owed'
  <2> SUFFICES ASSUME n = task[d].event PROVE FALSE
    BY <1>1
  <2>1. /\ task[d].steps = Cues(events[n]) /\ task[d].at \in Nat /\ Len(task[d].steps) \in Nat
        /\ task[d].at > Len(task[d].steps)
    BY <1>1, <1>2, CueOfAStep DEF Done
  <2>2. PICK i \in DOMAIN task[d].steps : task[d].steps[i] = r
    BY <1>2, <2>1 DEF Unpublished, ToSet
  <2>3. DOMAIN task[d].steps = 1 .. Len(task[d].steps)
    BY <1>1, <1>2, <2>1, CuesAreResources DEF Handled, Shape
  <2>4. i \in 1 .. (task[d].at - 1)
    BY <2>1, <2>2, <2>3
  <2> QED
    BY <1>1, <1>2, <2>2, <2>4 DEF Unpublished
<1> QED
  BY <1>1, <1>2, OverSubscribed

(* A delivery that begins has published nothing yet.                       *)
LEMMA BegunSubscribed ==
  ASSUME Handled, Subscribed, NEW d \in Deliveries, NEW n, Begun(d, n),
         UNCHANGED <<serving, events, version, stream, known>>,
         delivered' \in 0 .. MaxDeliveries, serving = "bridge" => owed' = owed
  PROVE  Subscribed'
<1> USE DEF Subscribed
<1>1. /\ task'[d] = [event |-> n, steps |-> Steps(events[n]), at |-> 1]
      /\ \A e \in Deliveries : e # d => task'[e] = task[e]
  BY DEF Begun, Handled, Shape
<1>2. SubscriberTyped'
  BY DEF SubscriberTyped
<1>3. CuesAreRun'
  BY <1>1 DEF CuesAreRun, Steps
<1>4. \A m, r : Unpublished(m, r) => Unpublished(m, r)'
  BY <1>1 DEF Unpublished
<1>5. StaleIsPending'
  BY <1>4, PendingKept
<1> QED
  BY <1>2, <1>3, <1>5

(* A cue that is pushed is in the stream, with what was there, unless the  *)
(* stream is ended.                                                        *)
LEMMA PushedCue ==
  ASSUME SubscriberTyped, NEW cue \in Resources, Pushed(cue) # None
  PROVE  /\ Pushed(cue) \in Seq(Resources) /\ Len(Pushed(cue)) <= BufferCap
         /\ IsInjective(Pushed(cue))
         /\ cue \in ToSet(Pushed(cue)) /\ ToSet(stream) \subseteq ToSet(Pushed(cue))
<1> DEFINE s == Pushed(cue)
<1>1. stream # None
  BY DEF Pushed
<1>2. stream \in Seq(Resources) /\ Len(stream) <= BufferCap /\ IsInjective(stream)
  BY <1>1 DEF SubscriberTyped
<1>3. CASE cue \in ToSet(stream)
  BY <1>1, <1>2, <1>3 DEF Pushed
<1>4. CASE cue \notin ToSet(stream)
  <2>1. s = Append(stream, cue) /\ Len(stream) # BufferCap
    BY <1>1, <1>4 DEF Pushed
  <2>2. /\ s \in Seq(Resources) /\ Len(s) = Len(stream) + 1 /\ Len(stream) \in Nat
        /\ DOMAIN s = 1 .. (Len(stream) + 1) /\ DOMAIN stream = 1 .. Len(stream)
        /\ s[Len(stream) + 1] = cue
        /\ \A i \in 1 .. Len(stream) : s[i] = stream[i]
    BY <1>2, <2>1
  <2>3. \A i \in 1 .. Len(stream) : stream[i] # cue
    BY <1>4, <2>2 DEF ToSet
  <2> HIDE DEF s
  <2>4. IsInjective(s)
    <3> SUFFICES ASSUME NEW a \in DOMAIN s, NEW b \in DOMAIN s, s[a] = s[b] PROVE a = b
      BY DEF IsInjective
    <3>1. \A i, j \in 1 .. Len(stream) : stream[i] = stream[j] => i = j
      BY <1>2, <2>2 DEF IsInjective
    <3> QED
      BY <2>2, <2>3, <3>1
  <2>5. Len(s) <= BufferCap
    <3>1. Len(stream) \in Nat /\ Len(stream) <= BufferCap /\ Len(stream) # BufferCap
      BY <1>2, <2>1, <2>2
    <3>2. Len(s) = Len(stream) + 1
      BY <2>2
    <3> QED
      BY <3>1, <3>2, Bounds
  <2>6. cue \in ToSet(s)
    <3>1. Len(stream) + 1 \in DOMAIN s
      BY <2>2
    <3> QED
      BY <2>2, <3>1 DEF ToSet
  <2>7. ToSet(stream) \subseteq ToSet(s)
    <3>1. \A i \in DOMAIN stream : i \in DOMAIN s /\ s[i] = stream[i]
      BY <2>2
    <3> QED
      BY <3>1 DEF ToSet
  <2> QED
    BY <2>2, <2>4, <2>5, <2>6, <2>7 DEF s
<1> QED
  BY <1>3, <1>4

(* What a step published is in the stream, whatever else is on its way.    *)
LEMMA StepEndsSubscribed ==
  ASSUME Handled, Subscribed, NEW d \in Deliveries, StepEnds(d)
  PROVE  Subscribed'
<1> USE DEF Subscribed
<1> DEFINE k == task[d].at
           cue == task[d].steps[k]
<1>1. /\ task[d] # None /\ k <= Len(task[d].steps)
      /\ task' = [task EXCEPT ![d].at = @ + 1]
      /\ stream' = IF serving = "bridge" THEN Pushed(cue) ELSE stream
      /\ UNCHANGED <<serving, events, owed, delivered, version, known>>
  BY DEF StepEnds, Under, router, pumble
<1>2. /\ task'[d] = [task[d] EXCEPT !.at = k + 1]
      /\ \A e \in Deliveries : e # d => task'[e] = task[e]
  BY <1>1 DEF Handled, Shape
<1>3. task[d] \in Tasks
  BY <1>1 DEF Handled, Shape
<1>4. /\ task'[d].event = task[d].event /\ task'[d].steps = task[d].steps
      /\ task'[d].at = k + 1 /\ k \in Nat \ {0}
  BY <1>2, <1>3 DEF Tasks
<1>5. CASE serving # "bridge"
  <2>1. SubscriberTyped'
    BY <1>1, <1>5 DEF SubscriberTyped
  <2> QED
    BY <1>1, <1>5, <2>1 DEF CuesAreRun, StaleIsPending
<1>6. CASE serving = "bridge"
  <2>1. cue \in Resources
    BY <1>1, <1>4, <1>6, CueOfAStep
  <2>2. stream' = Pushed(cue)
    BY <1>1, <1>6
  <2> HIDE DEF cue
  <2>3. SubscriberTyped'
    <3>1. stream' # None => stream' \in Seq(Resources) /\ Len(stream') <= BufferCap /\ IsInjective(stream')
      BY <2>1, <2>2, PushedCue
    <3> QED
      BY <1>1, <3>1 DEF SubscriberTyped
  <2>4. CuesAreRun'
    BY <1>1, <1>2, <1>4 DEF CuesAreRun
  <2>5. ASSUME NEW n, NEW r, r # cue, Unpublished(n, r)
        PROVE  Unpublished(n, r)'
    <3> SUFFICES ASSUME NEW e \in Deliveries, task'[e] # None, task'[e].event = n,
                        NEW i \in 1 .. (task'[e].at - 1)
                 PROVE  task'[e].steps[i] # r
      BY <1>1, <2>5 DEF Unpublished
    <3>1. CASE e # d
      BY <1>2, <2>5, <3>1 DEF Unpublished
    <3>2. CASE e = d /\ i = k
      BY <1>4, <2>5, <3>2 DEF cue
    <3>3. CASE e = d /\ i # k
      <4>1. i \in 1 .. (k - 1)
        BY <1>4, <3>3
      <4> QED
        BY <1>1, <1>4, <2>5, <3>3, <4>1 DEF Unpublished
    <3> QED
      BY <3>1, <3>2, <3>3
  <2>6. StaleIsPending'
    <3> SUFFICES ASSUME NEW r \in Resources, known[r] # version[r] PROVE Pending(r)'
      BY <1>1 DEF StaleIsPending
    <3>1. Pending(r)
      BY <1>6 DEF StaleIsPending
    <3>2. Excused(r) => Excused(r)'
      BY <1>1 DEF Excused
    <3>3. stream = None => stream' = None
      BY <2>2 DEF Pushed
    <3>4. stream' # None /\ (r \in ToSet(stream) \/ r = cue) => r \in ToSet(stream')
      BY <2>1, <2>2, PushedCue
    <3> QED
      BY <1>1, <2>5, <3>1, <3>2, <3>3, <3>4 DEF Pending
  <2> QED
    BY <2>3, <2>4, <2>6
<1> QED
  BY <1>5, <1>6

(* What is refetched is up to date; the other cues stay in the stream.     *)
LEMMA RefetchSubscribed ==
  ASSUME Subscribed, Refetch
  PROVE  Subscribed'
<1> USE DEF Subscribed
<1> DEFINE h == Head(stream)
<1>1. /\ stream # None /\ stream # <<>> /\ stream' = Tail(stream)
      /\ known' = [known EXCEPT ![h] = version[h]]
      /\ UNCHANGED <<serving, events, owed, delivered, task, version>>
  BY DEF Refetch, router, pumble
<1>2. stream \in Seq(Resources) /\ Len(stream) <= BufferCap /\ IsInjective(stream)
  BY <1>1 DEF SubscriberTyped
<1>3. /\ h \in Resources /\ h = stream[1] /\ Len(stream) \in Nat \ {0}
      /\ stream' \in Seq(Resources) /\ Len(stream') = Len(stream) - 1
      /\ DOMAIN stream' = 1 .. (Len(stream) - 1) /\ DOMAIN stream = 1 .. Len(stream)
      /\ \A i \in 1 .. (Len(stream) - 1) : stream'[i] = stream[i + 1]
  BY <1>1, <1>2
<1> HIDE DEF h
<1>4. known' \in [Resources -> Nat] /\ \A r \in Resources :
        known'[r] = (IF r = h THEN version[r] ELSE known[r])
  BY <1>1, <1>3 DEF SubscriberTyped
<1>5. SubscriberTyped'
  <2>1. IsInjective(stream')
    <3> SUFFICES ASSUME NEW a \in DOMAIN stream', NEW b \in DOMAIN stream', stream'[a] = stream'[b]
                 PROVE  a = b
      BY DEF IsInjective
    <3>1. a + 1 \in DOMAIN stream /\ b + 1 \in DOMAIN stream /\ stream[a + 1] = stream[b + 1]
      BY <1>3
    <3>2. a + 1 = b + 1
      BY <1>2, <3>1 DEF IsInjective
    <3> QED
      BY <1>3, <3>2
  <2>2. Len(stream') <= BufferCap
    BY <1>2, <1>3, Bounds
  <2>3. \A r \in Resources : known'[r] <= version'[r]
    BY <1>1, <1>4 DEF SubscriberTyped
  <2> QED
    BY <1>1, <1>3, <1>4, <2>1, <2>2, <2>3 DEF SubscriberTyped
<1>6. CuesAreRun'
  BY <1>1 DEF CuesAreRun
<1>7. StaleIsPending'
  <2> SUFFICES ASSUME serving = "bridge", NEW r \in Resources, known'[r] # version[r]
               PROVE  Pending(r)'
    BY <1>1 DEF StaleIsPending
  <2>1. r # h /\ Pending(r)
    BY <1>1, <1>4 DEF StaleIsPending
  <2>2. r \in ToSet(stream) => r \in ToSet(stream')
    <3> SUFFICES ASSUME NEW i \in DOMAIN stream, stream[i] = r PROVE r \in ToSet(stream')
      BY DEF ToSet
    <3>1. i - 1 \in DOMAIN stream' /\ stream'[i - 1] = r
      BY <1>3, <2>1
    <3> QED
      BY <3>1 DEF ToSet
  <2>3. Excused(r) => Excused(r)'
    BY <1>1 DEF Excused
  <2>4. \A n : Unpublished(n, r) => Unpublished(n, r)'
    BY <1>1 DEF Unpublished
  <2> QED
    BY <1>1, <2>1, <2>2, <2>3, <2>4 DEF Pending
<1> QED
  BY <1>5, <1>6, <1>7

(* Who listens again refetches everything.                                 *)
LEMMA RelistenSubscribed ==
  ASSUME Subscribed, Relisten
  PROVE  Subscribed'
<1> USE DEF Subscribed
<1>1. /\ stream' = <<>> /\ known' = version
      /\ UNCHANGED <<serving, events, owed, delivered, task, version>>
  BY DEF Relisten, router, pumble
<1>2. stream' \in Seq(Resources) /\ Len(stream') = 0 /\ IsInjective(stream')
  BY <1>1 DEF IsInjective
<1>3. SubscriberTyped'
  BY <1>1, <1>2, Bounds DEF SubscriberTyped
<1> QED
  BY <1>1, <1>3 DEF CuesAreRun, StaleIsPending

(* What happens is cued by its event, which nobody has begun to deliver.   *)
LEMMA ChangeSubscribed ==
  ASSUME Handled, Subscribed, Change
  PROVE  Subscribed'
<1> USE DEF Subscribed
<1> DEFINE m == Len(events) + 1
<1>1. PICK e \in Events :
        /\ events' = Append(events, e)
        /\ version' = [r \in Resources |-> IF r \in Touched(e) THEN version[r] + 1 ELSE version[r]]
  <2>1. (CHOOSE e \in Events : TRUE) \in Events
    BY ReceiverAssumption
  <2> QED
    BY <2>1 DEF Change
<1>2. owed' = owed \cup {m} /\ UNCHANGED <<serving, delivered, task, stream, known>>
  BY DEF Change, router, subscriber
<1>3. /\ Len(events) \in Nat /\ Len(events') = m /\ events'[m] = e /\ owed \subseteq 1 .. Len(events)
      /\ \A n \in 1 .. Len(events) : events'[n] = events[n]
  BY <1>1 DEF Handled, Shape
<1>4. \A d \in Deliveries : task[d] # None => task[d].event \in 1 .. Len(events)
  BY DEF Handled, TasksFit
<1>5. /\ version' \in [Resources -> Nat]
      /\ \A r \in Resources :
            version'[r] = (IF r \in Touched(e) THEN version[r] + 1 ELSE version[r])
  <2> HIDE DEF Resources
  <2> QED
    BY <1>1 DEF SubscriberTyped
<1>6. SubscriberTyped'
  <2>1. \A r \in Resources : known[r] <= version'[r]
    BY <1>5 DEF SubscriberTyped
  <2> QED
    BY <1>2, <1>5, <2>1 DEF SubscriberTyped
<1>7. CuesAreRun'
  BY <1>2, <1>3, <1>4 DEF CuesAreRun
<1>8. StaleIsPending'
  <2> SUFFICES ASSUME serving = "bridge", NEW r \in Resources, known[r] # version'[r]
               PROVE  Pending(r)'
    BY <1>2 DEF StaleIsPending
  <2>1. CASE r \in Touched(e)
    <3>1. CASE r \in ToSet(Cues(e))
      <4>1. \A d \in Deliveries : ~(task'[d] # None /\ task'[d].event = m)
        BY <1>2, <1>3, <1>4
      <4>2. PICK n \in owed' : n = m
        BY <1>2
      <4>3. Unpublished(n, r)'
        BY <1>3, <3>1, <4>1, <4>2 DEF Unpublished
      <4> QED
        BY <4>2, <4>3 DEF Pending
    <3>2. CASE e.type \in Messages /\ e.thread = None /\ r = Thread(e.channel, e.message)
      <4>1. m \in 1 .. Len(events')
        BY <1>3
      <4>2. Excused(r)'
        BY <1>3, <3>2, <4>1 DEF Excused
      <4> QED
        BY <4>2 DEF Pending
    <3> QED
      BY <2>1, <3>1, <3>2, ChangesAreCued
  <2>2. CASE r \notin Touched(e)
    <3>1. Pending(r)
      BY <1>5, <2>2 DEF StaleIsPending
    <3>2. Excused(r) => Excused(r)'
      <4>1. 1 .. Len(events) \subseteq 1 .. Len(events')
        BY <1>3
      <4> QED
        BY <1>3, <4>1 DEF Excused
    <3>3. \A n \in owed : Unpublished(n, r) => Unpublished(n, r)'
      BY <1>2, <1>3 DEF Unpublished
    <3> QED
      BY <1>2, <3>1, <3>2, <3>3 DEF Pending
  <2> QED
    BY <2>1, <2>2
<1> QED
  BY <1>6, <1>7, <1>8

(* Every step keeps what the subscriber is missing on its way.             *)
LEMMA NextSubscribed == Handled /\ Subscribed /\ [Next]_vars => Subscribed'
<1> SUFFICES ASSUME Handled, Subscribed, [Next]_vars PROVE Subscribed'
  OBVIOUS
<1>1. CASE Change
  BY <1>1, ChangeSubscribed
<1>2. CASE Refetch
  BY <1>2, RefetchSubscribed
<1>3. CASE Relisten
  BY <1>3, RelistenSubscribed
<1>4. CASE Connection \/ Register \/ UNCHANGED vars
  <2>1. UNCHANGED <<serving, events, owed, delivered, task, version, stream, known>>
    BY <1>4 DEF Connection, Register, vars, router, pumble, subscriber
  <2> QED
    BY <2>1, IdleSubscribed
<1>5. ASSUME NEW d \in Deliveries, Post(d)
      PROVE  Subscribed'
  <2>1. PICK n \in owed : Begun(d, n) \/ UNCHANGED task
    BY <1>5 DEF Post
  <2>2. /\ delivered' = delivered + 1 /\ delivered < MaxDeliveries
        /\ UNCHANGED <<serving, events, owed, version, stream, known>>
    BY <1>5 DEF Post, router, pumble, subscriber
  <2>3. delivered' \in 0 .. MaxDeliveries
    BY <2>2, Bounds DEF Subscribed, SubscriberTyped
  <2>4. CASE Begun(d, n)
    BY <2>2, <2>3, <2>4, BegunSubscribed
  <2>5. CASE UNCHANGED task
    <3>1. SubscriberTyped'
      BY <2>2, <2>3 DEF Subscribed, SubscriberTyped
    <3>2. CuesAreRun'
      BY <2>2, <2>5 DEF Subscribed, CuesAreRun
    <3>3. \A m, r : Unpublished(m, r)' <=> Unpublished(m, r)
      BY <2>2, <2>5 DEF Unpublished
    <3>4. StaleIsPending'
      BY <2>2, <3>3, PendingKept DEF Subscribed
    <3> QED
      BY <3>1, <3>2, <3>4 DEF Subscribed
  <2> QED
    BY <2>1, <2>4, <2>5
<1>6. CASE Frame \/ ContextFails
  <2>1. serving # "bridge" \/ owed' = owed
    BY <1>6 DEF Frame, ContextFails, pumble
  <2>2. UNCHANGED <<serving, events, delivered, task, version, stream, known>>
    BY <1>6 DEF Frame, ContextFails, pumble, subscriber
  <2>3. SubscriberTyped' /\ CuesAreRun'
    BY <2>2 DEF Subscribed, SubscriberTyped, CuesAreRun
  <2>4. StaleIsPending'
    BY <2>1, <2>2 DEF Subscribed, StaleIsPending, Pending, Excused, Unpublished
  <2> QED
    BY <2>3, <2>4 DEF Subscribed
<1>7. ASSUME NEW d \in Deliveries, StepEnds(d)
      PROVE  Subscribed'
  BY <1>7, StepEndsSubscribed
<1>8. ASSUME NEW d \in Deliveries, StepFails(d) \/ Cancelled(d)
      PROVE  Subscribed'
  <2>1. Over(d) /\ UNCHANGED <<serving, events, owed, delivered, version, stream, known>>
    BY <1>8 DEF StepFails, Cancelled, AfterFailing, router, pumble, subscriber
  <2> QED
    BY <2>1, OverSubscribed
<1>9. ASSUME NEW d \in Deliveries, Finished(d)
      PROVE  Subscribed'
  BY <1>9, FinishedSubscribed
<1>10. ASSUME NEW d \in Deliveries, ContextMade(d)
       PROVE  Subscribed'
  <2>1. PICK n \in framed : Begun(d, n)
    BY <1>10 DEF ContextMade
  <2>2. UNCHANGED <<serving, events, owed, version, delivered, stream, known>>
    BY <1>10 DEF ContextMade, pumble, subscriber
  <2>3. delivered' \in 0 .. MaxDeliveries
    BY <2>2 DEF Subscribed, SubscriberTyped
  <2> QED
    BY <2>1, <2>2, <2>3, BegunSubscribed
<1> QED
  BY <1>1, <1>2, <1>3, <1>4, <1>5, <1>6, <1>7, <1>8, <1>9, <1>10 DEF Next

-----------------------------------------------------------------------------
(* The theorems about the subscriber *)

(* It is so at every moment.                                               *)
LEMMA SubscriberFollows == Spec => [](Handled /\ Subscribed)
<1>1. Init => Subscribed
  BY InitSubscribed
<1>2. Handled /\ Subscribed /\ [Next]_vars => Subscribed'
  BY NextSubscribed
<1> QED
  BY <1>1, <1>2, DeliveriesHandled, PTL DEF Spec

(* Type correctness of the whole receiver, for any number of events,       *)
(* deliveries, handlers, cues and sockets: deliveries are of events that   *)
(* happened and within their steps, a subscriber knows of no version there *)
(* has not been, and its stream holds no cue twice and no more than it may *)
(* (subscriptions.py).                                                     *)
THEOREM TypeCorrect == Spec => []TypeOK
<1>1. ASSUME SocketTypeOK, Handled, Subscribed
      PROVE  TypeOK
  <2>1. DOMAIN events = 1 .. Len(events)
    BY <1>1 DEF Handled, Shape
  <2>2. registered \in AtStart .. MaxHandlers /\ owed \cup framed \subseteq DOMAIN events
    BY <1>1, <2>1 DEF Handled, Shape
  <2>3. ASSUME NEW d \in Deliveries, task[d] # None
        PROVE  task[d].event \in DOMAIN events /\ task[d].at \in 1 .. (Len(task[d].steps) + 1)
    <3>1. task[d] \in Tasks
      BY <1>1, <2>3 DEF Handled, Shape
    <3>2. task[d].at \in Nat \ {0} /\ Len(task[d].steps) \in Nat
      BY <3>1, RouteLengths, Numbers DEF Tasks
    <3>3. task[d].event \in 1 .. Len(events) /\ task[d].at <= Len(task[d].steps) + 1
      BY <1>1, <2>3 DEF Handled, TasksFit
    <3> QED
      BY <2>1, <3>2, <3>3
  <2>4. \A r \in Resources : known[r] \in 0 .. version[r]
    <3>1. ASSUME NEW r \in Resources
          PROVE  known[r] \in Nat /\ version[r] \in Nat /\ known[r] <= version[r]
      BY <1>1 DEF Subscribed, SubscriberTyped
    <3> QED
      BY <3>1
  <2>5. stream # None => Len(stream) <= BufferCap /\ IsInjective(stream)
    BY <1>1 DEF Subscribed, SubscriberTyped
  <2>6. delivered \in 0 .. MaxDeliveries
    BY <1>1 DEF Subscribed, SubscriberTyped
  <2> QED
    BY <1>1, <2>2, <2>3, <2>4, <2>5, <2>6 DEF TypeOK
<1> QED
  BY <1>1, ConnectionTyped, SubscriberFollows, PTL

(* However deliveries overlap, fail half-way and are repeated, however     *)
(* cues collapse and streams end, and for any set of events: once every    *)
(* event is answered and the stream is read, what the subscriber has is up *)
(* to date, but for the threads whose root was edited (subscriptions.py    *)
(* cues of an event, webhook_bridge.py).                                   *)
THEOREM SubscribersCatchUp == Spec => []StaleOnlyByRootEdits
<1>1. ASSUME Handled, Subscribed
      PROVE  StaleOnlyByRootEdits
  <2> SUFFICES ASSUME serving = "bridge", AtRest, NEW r \in Resources, known[r] # version[r]
               PROVE  \E n \in DOMAIN events :
                        /\ events[n].type \in Messages /\ events[n].thread = None
                        /\ r = Thread(events[n].channel, events[n].message)
    BY Zenon DEF StaleOnlyByRootEdits
  <2>1. Pending(r)
    BY <1>1 DEF Subscribed, StaleIsPending
  <2>2. owed = {} /\ stream = <<>> /\ stream # None
    BY Bounds DEF AtRest
  <2>3. r \notin ToSet(stream)
    BY <2>2 DEF ToSet
  <2>4. Excused(r)
    BY <2>1, <2>2, <2>3 DEF Pending
  <2>5. DOMAIN events = 1 .. Len(events)
    BY <1>1 DEF Handled, Shape
  <2> QED
    BY <2>4, <2>5 DEF Excused
<1> QED
  BY <1>1, SubscriberFollows, PTL
=============================================================================
