------------------------------ MODULE Programs ------------------------------
(***************************************************************************)
(* What the curated client, the MCP server and the command line do with    *)
(* the operations.  All of them are straight lines of awaited operations   *)
(* that may end early; a step says which operation, and as what:           *)
(*                                                                         *)
(*   "lookup"  a listing that resolves a name, from the resolver cache if  *)
(*             it has it, not at all if an id was given; a failure of the  *)
(*             operation is raised, no or several matches end the program  *)
(*             with a failure value                                        *)
(*   "main"    a guarded operation: an error becomes a failure value       *)
(*   "soft"    a guarded operation whose failure is passed over            *)
(*   "proof"   the direct read after a write; its failure is noted in the  *)
(*             receipt and does not fail the program                       *)
(*   "bare"    an operation whose error is raised to the caller            *)
(*   "ask"     the user's answer to a question is awaited                  *)
(*                                                                         *)
(* Operations that are gathered run one after the other here: all of them  *)
(* are reads, and their order changes nothing.                             *)
(***************************************************************************)
EXTENDS Operations, Sequences

Lookup(op) == [as |-> "lookup", op |-> op]
Main(op) == [as |-> "main", op |-> op]
Soft(op) == [as |-> "soft", op |-> op]
Proof(op) == [as |-> "proof", op |-> op]
Bare(op) == [as |-> "bare", op |-> op]
Ask == [as |-> "ask"]

Program(kind, steps) == [kind |-> kind, steps |-> steps]
HasWrite(p) == \E i \in DOMAIN p.steps : p.steps[i].as # "ask" /\ p.steps[i].op.writes

Channel == <<Lookup(ListChannels)>>
User == <<Lookup(ListUsers)>>

-----------------------------------------------------------------------------
(* extensions/: the reads of the curated client                            *)
Me == <<Main(MyInfo)>>
Get == <<Main(GetChannel)>>
ListAll == <<Main(ListChannels)>>
ListPeople == <<Main(ListUsers)>>
ListGroups == <<Main(ListUserGroups)>>
FindByName == <<Bare(ListChannels)>>
FindByEmail == <<Bare(ListUsers)>>
GetMessage == <<Main(FetchMessage)>>
ListPage == <<Main(ListMessages)>>
SearchPage == <<Main(SearchMessages)>>
SearchRecent == <<Main(SearchMessages)>>
ThreadContext == <<Main(FetchMessage), Main(FetchThreadReplies)>>
ListReplies == <<Main(FetchThreadReplies)>>
Preflight == Channel \o User
ScheduledList == Channel \o <<Main(FetchScheduledMessages)>>
ScheduledGet == <<Main(FetchScheduledMessage)>>

(* extensions/writes.py, scheduled.py, status.py                           *)
Send == Channel \o <<Main(SendMessage), Proof(FetchMessage)>>
Dm == User \o <<Main(DmUser), Proof(FetchMessage)>>
DmMany == <<Main(DmGroup), Proof(FetchMessage)>>
Reply == Channel \o <<Main(SendReply), Proof(FetchMessage)>>
Create == <<Main(CreateChannel), Proof(GetChannel)>>
Schedule == Channel \o <<Main(CreateScheduledMessage), Proof(FetchScheduledMessage)>>
Reschedule == Channel \o <<Main(EditScheduledMessage), Proof(FetchScheduledMessage)>>
Unschedule == <<Main(DeleteScheduledMessage)>>
SetStatus == <<Main(CustomStatus), Proof(MyInfo)>>
ClearStatus == <<Main(CustomStatus), Proof(MyInfo)>>

Facades == {Program("facade", steps) : steps \in {
    Me, Get, ListAll, ListPeople, ListGroups, Channel, User, FindByName, FindByEmail,
    GetMessage, ListPage, SearchPage, SearchRecent, ThreadContext, ListReplies, Preflight,
    ScheduledList, ScheduledGet, Send, Dm, DmMany, Reply, Create, Schedule, Reschedule,
    Unschedule, SetStatus, ClearStatus}}

-----------------------------------------------------------------------------
(* mcp_server/tools/read.py                                                *)
WhoamiTool == Me
FindChannelTool == Channel
FindUserTool == User
ListChannelsTool == ListAll
SearchMessagesTool == User \o Channel \o SearchPage
ChannelContextTool == Channel \o ListPage
ThreadContextTool == Channel \o ThreadContext

(* mcp_server/tools/interactive.py: the channel is resolved for the        *)
(* question and, in the round that brings the answer, once more.           *)
SendInteractive == Channel \o <<Ask>> \o Channel \o <<Main(SendMessage), Proof(FetchMessage)>>
ReplyInteractive == Channel \o <<Ask>> \o Channel \o <<Main(SendReply), Proof(FetchMessage)>>

(* mcp_server/resources.py, completions.py                                 *)
MeResource == Me
ChannelsResource == ListAll
ChannelResource == ListPage
ThreadResource == ThreadContext
ChannelNames == <<Soft(ListChannels)>>
UserValues == <<Soft(ListUsers)>>

(* mcp_server/app_tools.py                                                 *)
OpenWorkspace == <<Main(MyInfo), Soft(ListChannels)>>
Bootstrap == <<Main(MyInfo), Main(ListChannels), Soft(ListUsers)>>
ChannelPage == ListPage
UiThread == ThreadContext

Tools == {Program("tool", steps) : steps \in {
    WhoamiTool, FindChannelTool, FindUserTool, ListChannelsTool, SearchMessagesTool,
    ChannelContextTool, ThreadContextTool, SendInteractive, ReplyInteractive,
    MeResource, ChannelsResource, ChannelResource, ThreadResource, ChannelNames, UserValues,
    OpenWorkspace, Bootstrap, ChannelPage, UiThread}}

-----------------------------------------------------------------------------
(* mcp_server/tools/raw_manifest.py: the operations behind raw tools       *)
RawReads == {ListChannels, GetChannel, FetchMessage, FetchThreadReplies, SearchMessages,
    ListMessages, FetchScheduledMessages, FetchScheduledMessage, ListUsers, ListUserGroups,
    MyInfo}
RawWrites == {CreateChannel, AddUsersToChannel, RemoveUserFromChannel, SendMessage, SendReply,
    DmUser, DmGroup, DeleteMessage, AddReaction, RemoveReaction, EditMessage,
    CreateScheduledMessage, EditScheduledMessage, DeleteScheduledMessage, CustomStatus}

RawReadTools == {Program("tool", <<Main(op)>>) : op \in RawReads}
RawWriteTools == {Program(kind, <<Main(op)>>) : kind \in {"audited"}, op \in RawWrites}
DryRunTools == {Program("dry_run", <<>>)}

(* extensions/retries.py accepts the reads only; extensions/telemetry.py   *)
(* traces anything.                                                        *)
WithRetries == {Program("retried", <<Bare(op)>>) : op \in RawReads}
Traced == {Program("traced", <<Bare(op)>>) : op \in RawReads \cup RawWrites}

-----------------------------------------------------------------------------
(* cli/main.py, one command each; a raised error is an exit code there     *)
CliReads == {Me, ListAll, Channel, User, SearchPage, Channel \o ListPage,
             Channel \o ThreadContext, ScheduledList}
CliWrites == {Create, Send, Dm, SetStatus, ClearStatus, Schedule, Unschedule}
Commands == {Program("command", steps) : steps \in CliReads \cup CliWrites}

Programs == Facades \cup Tools \cup RawReadTools \cup RawWriteTools \cup DryRunTools
            \cup WithRetries \cup Traced \cup Commands
=============================================================================
