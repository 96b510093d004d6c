----------------------------- MODULE SocketMode -----------------------------
(***************************************************************************)
(* The connection of a PumbleSocketModeReceiver (socket_mode.py): the      *)
(* socket it holds, the socket its ping loop writes to, and the sockets it *)
(* ever made.  connect() asks for the URL and may await it; everything     *)
(* else is one synchronous step of the event loop.  The transport is       *)
(* injected: what a socket does is external, down to whether its listeners *)
(* can be removed, whether it announces that it was closed, and whether it *)
(* opens after it was let go of - but it opens once, and its close is the  *)
(* last it announces.                                                      *)
(***************************************************************************)
EXTENDS Naturals, FiniteSets

CONSTANTS
    MaxSockets,   \* bound on the sockets made
    MaxConnects,  \* bound on the connect() calls awaiting their URL
    None

ASSUME SocketAssumption == MaxSockets \in Nat /\ MaxConnects \in Nat /\ None \notin Nat

Sockets == 1 .. MaxSockets

VARIABLES
    removes,      \* whether the transport has remove_all_listeners; never changes
    fetching,     \* connect() calls awaiting the URL
    created,      \* sockets made so far
    stage,        \* of each socket: "unborn", "opening", "open", "closing" or "closed",
                  \* "aborting" while it is done with and may open nevertheless
    listening,    \* the sockets whose events reach the receiver
    socket,       \* _socket
    ping,         \* the socket _ping_handle writes to
    superseded,   \* the sockets that were replaced while they were held
    late,         \* the sockets that opened when they were let go of already (history)
    overlapped    \* whether two connect() calls ever awaited their URL at once

connection == <<removes, fetching, created, stage, listening, socket, ping, superseded, late, overlapped>>

SocketInit ==
    /\ removes \in BOOLEAN
    /\ fetching = 0 /\ created = 0 /\ stage = [s \in Sockets |-> "unborn"]
    /\ listening = {} /\ socket = None /\ ping = None
    /\ superseded = {} /\ late = {} /\ overlapped = FALSE

-----------------------------------------------------------------------------
(* connect() returns at once while there is a socket.                      *)
Connect ==
    /\ socket = None /\ fetching < MaxConnects /\ created + fetching < MaxSockets
    /\ fetching' = fetching + 1
    /\ overlapped' = (overlapped \/ fetching' > 1)
    /\ UNCHANGED <<removes, created, stage, listening, socket, ping, superseded, late>>

(* The URL is there: the new socket replaces whatever is held by now.      *)
Connected ==
    /\ fetching > 0
    /\ LET s == created + 1 IN
        /\ created' = s /\ socket' = s
        /\ stage' = [stage EXCEPT ![s] = "opening"]
        /\ listening' = listening \cup {s}
    /\ superseded' = superseded \cup ({socket} \ {None})
    /\ fetching' = fetching - 1
    /\ UNCHANGED <<removes, ping, late, overlapped>>

(* The URL cannot be had, or the caller is cancelled.                      *)
ConnectFails ==
    /\ fetching > 0 /\ fetching' = fetching - 1
    /\ UNCHANGED <<removes, created, stage, listening, socket, ping, superseded, late, overlapped>>

(* on_open, of whichever socket, held or not: the ping moves to it.        *)
Opened(s) ==
    /\ stage[s] \in {"opening", "aborting"}
    /\ stage' = [stage EXCEPT ![s] = IF @ = "opening" THEN "open" ELSE "closing"]
    /\ ping' = IF s \in listening THEN s ELSE ping
    /\ late' = IF s \in listening /\ s # socket THEN late \cup ({s} \ superseded) ELSE late
    /\ UNCHANGED <<removes, fetching, created, listening, socket, superseded, overlapped>>

(* A socket that erred or was let go of has its close ahead of it.         *)
LetGo(s) == IF stage[s] \in {"opening", "aborting"} THEN "aborting" ELSE "closing"

(* Mutant: the ping is forgotten.                                          *)
CleanupPinging(s) ==
    IF socket = s
    THEN socket' = None /\ listening' = (IF removes THEN listening \ {s} ELSE listening) /\ ping' = ping
    ELSE UNCHANGED <<socket, listening, ping>>

(* Only the socket held is cleaned up.                                     *)
Cleanup(s) ==
    IF socket = s
    THEN socket' = None /\ ping' = None /\ listening' = IF removes THEN listening \ {s} ELSE listening
    ELSE UNCHANGED <<socket, listening, ping>>

(* on_close and on_error: an error is followed by a close.                 *)
Ends(s, how) ==
    /\ stage[s] \notin {"unborn", "closed"} /\ how # stage[s]
    /\ stage' = [stage EXCEPT ![s] = how]
    /\ IF s \in listening THEN Cleanup(s) ELSE UNCHANGED <<socket, listening, ping>>
    /\ UNCHANGED <<removes, fetching, created, superseded, late, overlapped>>

(* disconnect() cleans up, then closes; it does nothing without a socket,  *)
(* to the connect() calls under way neither.                               *)
Disconnect ==
    /\ socket # None
    /\ stage' = [stage EXCEPT ![socket] = LetGo(socket)]
    /\ Cleanup(socket)
    /\ UNCHANGED <<removes, fetching, created, superseded, late, overlapped>>

SocketNext ==
    \/ Connect \/ Connected \/ ConnectFails \/ Disconnect
    \/ \E s \in Sockets : Opened(s) \/ Ends(s, LetGo(s)) \/ Ends(s, "closed")

-----------------------------------------------------------------------------
(* Properties *)

SocketTypeOK ==
    /\ fetching \in 0 .. MaxConnects /\ created \in 0 .. MaxSockets
    /\ stage \in [Sockets -> {"unborn", "opening", "open", "aborting", "closing", "closed"}]
    /\ listening \cup superseded \cup late \subseteq 1 .. created
    /\ {socket, ping} \subseteq (1 .. created) \cup {None}

(* The socket held is the only live one and the one that is pinged, from   *)
(* when it is open until it is dead, so that disconnect() closes everything*)
(* - with two exceptions: sockets that overlapping connect() calls replaced*)
(* stay alive and may take the ping, and so may a socket that opens after  *)
(* it was let go of, which takes a transport without remove_all_listeners  *)
(* (socket_mode.py:160, :226).                                             *)
StraysHaveACause ==
    /\ \A s \in Sockets : stage[s] \in {"opening", "open"} /\ s # socket => s \in superseded
    /\ ping # None => (ping = socket /\ stage[ping] = "open") \/ ping \in superseded \cup late
    /\ socket # None /\ stage[socket] = "open" => ping = socket \/ ping \in superseded \cup late
    /\ superseded # {} => overlapped
    /\ removes => late = {}
=============================================================================
