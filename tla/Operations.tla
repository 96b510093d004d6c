----------------------------- MODULE Operations -----------------------------
(***************************************************************************)
(* The 26 generated operations of the client (messages.py, channels.py,    *)
(* users.py, scheduled_messages.py), each with its synchronous and its     *)
(* asynchronous form.  They are generated from one template: build a       *)
(* request, choose a retry configuration, send it through do_request and   *)
(* map the response to a value or an exception.  What differs is what      *)
(* a failure may lead to, and that is what an operation is here:           *)
(*                                                                         *)
(*   writes    its request changes the workspace                           *)
(*   backoff   it brings a retry configuration of its own                  *)
(*   retried   the statuses a retry configuration applies to               *)
(*   parsed    a 200 counts only if its JSON body parses; otherwise any    *)
(*             body does and is ignored                                    *)
(***************************************************************************)

(* Statuses, told apart as far as any retry rule or response branch does:  *)
(* 200; another 2xx or 3xx, which no branch expects; 408 and 425; other    *)
(* 4xx, the 403 with its own error class among them; 429; 500 and 502 to   *)
(* 504; other 5xx.                                                         *)
Statuses == {"ok", "unexpected", "early", "client", "throttled", "server", "unlisted"}

Operation == [writes: BOOLEAN, backoff: BOOLEAN, retried: SUBSET Statuses, parsed: BOOLEAN]

(* Reads back off by default, on "429" and "5XX".                          *)
Read == [writes |-> FALSE, backoff |-> TRUE,
         retried |-> {"throttled", "server", "unlisted"}, parsed |-> TRUE]

(* Writes have no default; a configuration given by the caller or the      *)
(* client would apply to 429, 500, 502, 503 and 504.                       *)
Write(parsed) == [writes |-> TRUE, backoff |-> FALSE,
                  retried |-> {"throttled", "server"}, parsed |-> parsed]

-----------------------------------------------------------------------------
(* messages.py *)

(* Mutant: a write that takes the template of the reads.                   *)
SendMessageAsRead == [Read EXCEPT !.writes = TRUE]
SendMessage == Write(TRUE)
SendReply == Write(TRUE)
DmUser == Write(TRUE)
DmGroup == Write(TRUE)
FetchMessage == Read
FetchThreadReplies == Read
SearchMessages == Read     \* a POST, and still a read
DeleteMessage == Write(FALSE)
ListMessages == Read
AddReaction == Write(TRUE)
RemoveReaction == Write(TRUE)
EditMessage == Write(FALSE)

(* channels.py *)
ListChannels == Read
GetChannel == Read
CreateChannel == Write(TRUE)
AddUsersToChannel == Write(FALSE)
RemoveUserFromChannel == Write(FALSE)

(* users.py *)
ListUsers == Read
ListUserGroups == Read
MyInfo == Read
CustomStatus == Write(FALSE)

(* scheduled_messages.py *)
CreateScheduledMessage == Write(TRUE)
FetchScheduledMessages == Read
FetchScheduledMessage == Read
EditScheduledMessage == Write(TRUE)
DeleteScheduledMessage == Write(FALSE)
=============================================================================
