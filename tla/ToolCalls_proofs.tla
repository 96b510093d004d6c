--------------------------- MODULE ToolCalls_proofs ---------------------------
(***************************************************************************)
(* Proofs about ToolCalls, for any number of calls at a time, every        *)
(* program of the client, and any backoff: a write reaches Pumble once at  *)
(* most, its caller is told the truth, the audit log is right, and retries *)
(* never hammer.                                                           *)
(***************************************************************************)
EXTENDS ToolCalls, SequenceTheorems, TLAPS

-----------------------------------------------------------------------------
(* What the programs have in common *)

ReadOps == {op \in Operation : ~op.writes}
WriteOps == {op \in Operation : op.writes /\ ~op.backoff}

Steps == [as: {"lookup", "main", "soft", "proof", "bare"}, op: ReadOps \cup WriteOps] \cup {Ask}
ReadSteps == [as: {"lookup", "main", "soft", "bare"}, op: ReadOps] \cup {Ask}

WritesAt(p, i) == p.steps[i].as # "ask" /\ p.steps[i].op.writes

(* A program writes once at most, by an operation that is guarded or that  *)
(* is only traced, and then does nothing but read its own write; a raw     *)
(* write does nothing else.                                                *)
Shaped(p) ==
    /\ p.steps \in Seq(Steps) /\ Len(p.steps) \in 0 .. 6
    /\ \A i \in 1 .. Len(p.steps) : WritesAt(p, i) =>
        /\ p.steps[i].as = "main" \/ (p.steps[i].as = "bare" /\ p.kind = "traced")
        /\ p.kind # "retried"
        /\ \A j \in i + 1 .. Len(p.steps) : p.steps[j].as = "proof" /\ p.steps[j].op \in ReadOps
    /\ p.kind = "audited" => Len(p.steps) = 1 /\ p.steps[1].as = "main" /\ WritesAt(p, 1)

(* The generated operations are reads with backoff and writes without.     *)
LEMMA OperationKinds ==
  /\ {ListChannels, GetChannel, FetchMessage, FetchThreadReplies, SearchMessages,
      ListMessages, FetchScheduledMessages, FetchScheduledMessage, ListUsers, ListUserGroups,
      MyInfo} \subseteq ReadOps
  /\ {CreateChannel, AddUsersToChannel, RemoveUserFromChannel, SendMessage, SendReply,
      DmUser, DmGroup, DeleteMessage, AddReaction, RemoveReaction, EditMessage,
      CreateScheduledMessage, EditScheduledMessage, DeleteScheduledMessage, CustomStatus} \subseteq WriteOps
<1>1. Read \in ReadOps
  BY DEF Read, ReadOps, Operation, Statuses
<1>2. Write(TRUE) \in WriteOps /\ Write(FALSE) \in WriteOps
  BY DEF Write, WriteOps, Operation, Statuses
<1> QED
  BY <1>1, <1>2 DEF ListChannels, GetChannel, FetchMessage, FetchThreadReplies, SearchMessages,
      ListMessages, FetchScheduledMessages, FetchScheduledMessage, ListUsers, ListUserGroups,
      MyInfo, CreateChannel, AddUsersToChannel, RemoveUserFromChannel, SendMessage, SendReply,
      DmUser, DmGroup, DeleteMessage, AddReaction, RemoveReaction, EditMessage,
      CreateScheduledMessage, EditScheduledMessage, DeleteScheduledMessage, CustomStatus

(* Programs that only read.                                                *)
LEMMA ReadsAreShaped ==
  ASSUME NEW kind, kind # "audited", NEW s \in Seq(ReadSteps), Len(s) \in 0 .. 6
  PROVE  Shaped(Program(kind, s))
<1> DEFINE p == Program(kind, s)
<1>1. p.steps = s /\ p.kind = kind
  BY DEF Program
<1>2. ReadSteps \subseteq Steps
  BY DEF ReadSteps, Steps
<1>3. s \in Seq(Steps)
  BY <1>2, SeqMonotonic
<1>4. ASSUME NEW i \in 1 .. Len(s)
      PROVE  ~WritesAt(p, i)
  <2>1. s[i] \in ReadSteps
    BY ElementOfSeq
  <2> QED
    BY <1>1, <2>1 DEF ReadSteps, ReadOps, Ask, WritesAt
<1> QED
  BY <1>1, <1>3, <1>4 DEF Shaped

(* A sequence and two more elements.                                       *)
LEMMA TwoMore ==
  ASSUME NEW S, NEW s \in Seq(S), NEW t \in Seq(S), Len(t) = 2
  PROVE  /\ s \o t \in Seq(S) /\ Len(s \o t) = Len(s) + 2
         /\ \A i \in 1 .. Len(s) : (s \o t)[i] = s[i]
         /\ (s \o t)[Len(s) + 1] = t[1] /\ (s \o t)[Len(s) + 2] = t[2]
<1> DEFINE st == s \o t
<1>1. st \in Seq(S) /\ Len(st) = Len(s) + Len(t)
  BY ConcatProperties
<1>2. \A i \in 1 .. Len(s) + 2 : st[i] = IF i <= Len(s) THEN s[i] ELSE t[i - Len(s)]
  BY ConcatProperties
<1> HIDE DEF st
<1>3. PICK n \in Nat : n = Len(s)
  OBVIOUS
<1>4. \A i \in 1 .. n : st[i] = s[i]
  BY <1>2, <1>3
<1>5. ASSUME NEW j \in {1, 2}
      PROVE  st[n + j] = t[j]
  <2>1. n + j \in 1 .. n + 2 /\ ~(n + j <= n) /\ n + j - n = j
    OBVIOUS
  <2>2. \A i \in 1 .. n + 2 : st[i] = IF i <= n THEN s[i] ELSE t[i - n]
    BY <1>2, <1>3, Zenon
  <2>3. ASSUME NEW i \in 1 .. n + 2, ~(i <= n)
        PROVE  st[i] = t[i - n]
    BY <2>2, <2>3
  <2>4. st[n + j] = t[n + j - n]
    BY <2>1, <2>3
  <2> QED
    BY <2>1, <2>4
<1>6. st[n + 1] = t[1] /\ st[n + 2] = t[2]
  BY <1>5, Zenon
<1>7. st[Len(s) + 1] = t[1] /\ st[Len(s) + 2] = t[2]
  BY <1>3, <1>6, Zenon
<1>8. \A i \in 1 .. Len(s) : st[i] = s[i]
  BY <1>3, <1>4, Zenon
<1> QED
  BY <1>1, <1>7, <1>8 DEF st

(* Programs that read, write, and read what they wrote.                    *)
LEMMA WritesAreShaped ==
  ASSUME NEW kind, kind \notin {"audited", "retried"}, NEW s \in Seq(ReadSteps), Len(s) \in 0 .. 4,
         NEW w \in WriteOps, NEW r \in ReadOps
  PROVE  Shaped(Program(kind, s \o <<Main(w), Proof(r)>>))
<1> DEFINE t == <<Main(w), Proof(r)>>
           p == Program(kind, s \o t)
<1>1. p.steps = s \o t /\ p.kind = kind
  BY DEF Program
<1>2. ReadSteps \subseteq Steps /\ Main(w) \in Steps /\ Proof(r) \in Steps
  BY DEF ReadSteps, Steps, Main, Proof
<1>3. s \in Seq(Steps) /\ Len(s) \in Nat
  BY <1>2, SeqMonotonic, LenProperties
<1>4. t \in Seq(Steps) /\ Len(t) = 2 /\ t[1] = Main(w) /\ t[2] = Proof(r)
  BY <1>2
<1> HIDE DEF t
<1>5. /\ s \o t \in Seq(Steps) /\ Len(s \o t) = Len(s) + 2
      /\ \A i \in 1 .. Len(s) : (s \o t)[i] = s[i]
      /\ (s \o t)[Len(s) + 1] = Main(w) /\ (s \o t)[Len(s) + 2] = Proof(r)
  BY <1>3, <1>4, TwoMore
<1> HIDE DEF p
<1>6. ASSUME NEW i \in 1 .. Len(s)
      PROVE  ~WritesAt(p, i)
  <2>1. s[i] \in ReadSteps
    BY ElementOfSeq
  <2> QED
    BY <1>1, <1>5, <2>1 DEF ReadSteps, ReadOps, Ask, WritesAt
<1>7. ~WritesAt(p, Len(s) + 2) /\ p.steps[Len(s) + 2].as = "proof" /\ p.steps[Len(s) + 2].op \in ReadOps
  BY <1>1, <1>5 DEF WritesAt, Proof, ReadOps
<1>8. p.steps[Len(s) + 1].as = "main"
  BY <1>1, <1>5 DEF Main
<1>9. ASSUME NEW i \in 1 .. Len(p.steps), WritesAt(p, i)
      PROVE  i = Len(s) + 1
  <2>1. i \in 1 .. Len(s) \/ i = Len(s) + 1 \/ i = Len(s) + 2
    BY <1>1, <1>3, <1>5
  <2> QED
    BY <1>6, <1>7, <1>9, <2>1
<1>10. ASSUME NEW i \in 1 .. Len(p.steps), WritesAt(p, i), NEW j \in i + 1 .. Len(p.steps)
       PROVE  j = Len(s) + 2
  BY <1>1, <1>3, <1>5, <1>9, <1>10
<1>11. p.steps \in Seq(Steps) /\ Len(p.steps) \in 0 .. 6 /\ p.kind \notin {"audited", "retried"}
  <2>1. \A n \in 0 .. 4 : n + 2 \in 0 .. 6
    OBVIOUS
  <2>2. Len(p.steps) \in 0 .. 6
    BY <1>1, <1>5, <2>1
  <2> QED
    BY <1>1, <1>5, <2>2
<1>12. ASSUME NEW i \in 1 .. Len(p.steps), WritesAt(p, i)
       PROVE  /\ p.steps[i].as = "main"
              /\ \A j \in i + 1 .. Len(p.steps) : p.steps[j].as = "proof" /\ p.steps[j].op \in ReadOps
  BY <1>7, <1>8, <1>9, <1>10, <1>12
<1>13. Shaped(p)
  BY <1>11, <1>12 DEF Shaped
<1> QED
  BY <1>13 DEF p, t

(* A write and nothing else.                                               *)
LEMMA SinglesAreShaped ==
  ASSUME NEW kind, kind # "retried", NEW w \in WriteOps
  PROVE  /\ Shaped(Program(kind, <<Main(w)>>))
         /\ kind = "traced" => Shaped(Program(kind, <<Bare(w)>>))
<1>1. ASSUME NEW step \in Steps, step.as = "main" \/ (step.as = "bare" /\ kind = "traced"), step.op = w
      PROVE  Shaped(Program(kind, <<step>>))
  <2> DEFINE p == Program(kind, <<step>>)
  <2>1. p.steps = <<step>> /\ p.kind = kind
    BY DEF Program
  <2>2. p.steps \in Seq(Steps) /\ Len(p.steps) = 1 /\ p.steps[1] = step
    <3>1. <<step>> \in Seq(Steps) /\ Len(<<step>>) = 1 /\ <<step>>[1] = step
      OBVIOUS
    <3> QED
      BY <2>1, <3>1, Zenon
  <2>3. WritesAt(p, 1)
    BY <1>1, <2>2 DEF WritesAt, WriteOps
  <2> HIDE DEF p
  <2>4. Shaped(p)
    BY <1>1, <2>1, <2>2, <2>3 DEF Shaped
  <2> QED
    BY <2>4 DEF p
<1>2. Main(w) \in Steps /\ Main(w).as = "main" /\ Main(w).op = w
  BY DEF Main, Steps
<1>3. Bare(w) \in Steps /\ Bare(w).as = "bare" /\ Bare(w).op = w
  BY DEF Bare, Steps
<1> QED
  BY <1>1, <1>2, <1>3

(* Steps that only read, put one after the other.                          *)
LEMMA ShortReads ==
  /\ \A op \in ReadOps : {Lookup(op), Main(op), Soft(op), Bare(op)} \subseteq ReadSteps
  /\ Ask \in ReadSteps
  /\ \A a \in ReadSteps : <<a>> \in Seq(ReadSteps) /\ Len(<<a>>) = 1
  /\ \A a, b \in ReadSteps : <<a, b>> \in Seq(ReadSteps) /\ Len(<<a, b>>) = 2
  /\ \A a, b, d \in ReadSteps : <<a, b, d>> \in Seq(ReadSteps) /\ Len(<<a, b, d>>) = 3
  /\ <<>> \in Seq(ReadSteps) /\ Len(<<>>) = 0
  /\ \A s, t \in Seq(ReadSteps) : s \o t \in Seq(ReadSteps) /\ Len(s \o t) = Len(s) + Len(t)
<1>1. \A op \in ReadOps : {Lookup(op), Main(op), Soft(op), Bare(op)} \subseteq ReadSteps
  BY DEF ReadSteps, Lookup, Main, Soft, Bare
<1>2. Ask \in ReadSteps
  BY DEF ReadSteps
<1>3. \A s, t \in Seq(ReadSteps) : s \o t \in Seq(ReadSteps) /\ Len(s \o t) = Len(s) + Len(t)
  BY ConcatProperties
<1> QED
  BY <1>1, <1>2, <1>3

(* The programs that only read, one by one: short sequences of reads.      *)
LEMMA ReadPrograms ==
  /\ {Me, Get, ListAll, Channel, User, ListPeople, ListGroups, FindByName, FindByEmail, GetMessage,
      ListPage, SearchPage, SearchRecent, ThreadContext, ListReplies, ScheduledGet, ChannelNames,
      UserValues, OpenWorkspace, Bootstrap} \subseteq {s \in Seq(ReadSteps) : Len(s) \in 0 .. 3}
  /\ Len(Channel) = 1 /\ Len(User) = 1 /\ Len(ThreadContext) = 2
<1>1. /\ {Me, Get, ListAll, ListPeople, ListGroups, GetMessage, ListPage, SearchPage, SearchRecent,
          ListReplies, ScheduledGet} \subseteq {<<Main(op)>> : op \in ReadOps}
      /\ {Channel, User} \subseteq {<<Lookup(op)>> : op \in ReadOps}
      /\ {FindByName, FindByEmail} \subseteq {<<Bare(op)>> : op \in ReadOps}
      /\ {ChannelNames, UserValues} \subseteq {<<Soft(op)>> : op \in ReadOps}
  BY OperationKinds DEF Me, Get, ListAll, ListPeople, ListGroups, GetMessage, ListPage, SearchPage, SearchRecent,
         ListReplies, ScheduledGet, Channel, User, FindByName, FindByEmail, ChannelNames, UserValues
<1>2. ThreadContext \in Seq(ReadSteps) /\ Len(ThreadContext) = 2
  BY OperationKinds, ShortReads DEF ThreadContext
<1>3. OpenWorkspace \in Seq(ReadSteps) /\ Len(OpenWorkspace) = 2
  BY OperationKinds, ShortReads DEF OpenWorkspace
<1>4. Bootstrap \in Seq(ReadSteps) /\ Len(Bootstrap) = 3
  BY OperationKinds, ShortReads DEF Bootstrap
<1>5. \A op \in ReadOps : \A s \in {<<Main(op)>>, <<Lookup(op)>>, <<Bare(op)>>, <<Soft(op)>>} :
        s \in Seq(ReadSteps) /\ Len(s) = 1
  BY ShortReads
<1> DEFINE Ones == {s \in Seq(ReadSteps) : Len(s) = 1}
<1>6. {<<Main(op)>> : op \in ReadOps} \subseteq Ones /\ {<<Lookup(op)>> : op \in ReadOps} \subseteq Ones
      /\ {<<Bare(op)>> : op \in ReadOps} \subseteq Ones /\ {<<Soft(op)>> : op \in ReadOps} \subseteq Ones
  BY <1>5
<1>7. {Me, Get, ListAll, Channel, User, ListPeople, ListGroups, FindByName, FindByEmail, GetMessage,
       ListPage, SearchPage, SearchRecent, ListReplies, ScheduledGet, ChannelNames, UserValues} \subseteq Ones
  BY <1>1, <1>6, Zenon
<1> DEFINE Short == {s \in Seq(ReadSteps) : Len(s) \in 0 .. 3}
<1>8. Ones \subseteq Short
  OBVIOUS
<1>9. Channel \in Ones /\ User \in Ones
  BY <1>7, Zenon
<1>10. Len(Channel) = 1 /\ Len(User) = 1
  BY <1>9
<1>11. ThreadContext \in Short /\ OpenWorkspace \in Short /\ Bootstrap \in Short
  BY <1>2, <1>3, <1>4
<1> HIDE DEF Ones, Short
<1>12. {Me, Get, ListAll, Channel, User, ListPeople, ListGroups, FindByName, FindByEmail, GetMessage,
        ListPage, SearchPage, SearchRecent, ThreadContext, ListReplies, ScheduledGet, ChannelNames,
        UserValues, OpenWorkspace, Bootstrap} \subseteq Short
  BY <1>7, <1>8, <1>11, Zenon
<1> QED
  BY <1>2, <1>10, <1>12 DEF Short

(* The three kinds of programs, by their steps.                            *)
Receipt(w, op) == <<Main(w), Proof(op)>>

Reading(s) == s \in Seq(ReadSteps) /\ Len(s) \in 0 .. 6
Writing(s) ==
    \E r \in Seq(ReadSteps), w \in WriteOps, op \in ReadOps :
        Len(r) \in 0 .. 4 /\ s = r \o Receipt(w, op)
Single(s) == \E w \in WriteOps : s = <<Main(w)>>

(* Each of the three has its shape, whatever runs it.                      *)
LEMMA KindsAreShaped ==
  ASSUME NEW kind, kind \notin {"audited", "retried"}, NEW s, Reading(s) \/ Writing(s) \/ Single(s)
  PROVE  Shaped(Program(kind, s))
<1>1. CASE Reading(s)
  BY <1>1, ReadsAreShaped DEF Reading
<1>2. CASE Writing(s)
  <2>1. PICK r \in Seq(ReadSteps), w \in WriteOps, op \in ReadOps :
          Len(r) \in 0 .. 4 /\ s = r \o Receipt(w, op)
    BY <1>2 DEF Writing
  <2>2. Shaped(Program(kind, r \o <<Main(w), Proof(op)>>))
    BY <2>1, WritesAreShaped
  <2> QED
    BY <2>1, <2>2, Zenon DEF Receipt
<1>3. CASE Single(s)
  <2>1. PICK w \in WriteOps : s = <<Main(w)>>
    BY <1>3 DEF Single
  <2> QED
    BY <2>1, SinglesAreShaped
<1> QED
  BY <1>1, <1>2, <1>3

(* What the facades, the tools and the commands are made of.               *)
LEMMA WritePrograms ==
  ASSUME NEW w \in WriteOps, NEW op \in ReadOps
  PROVE  /\ \A s \in {Channel, User, (Channel \o <<Ask>>) \o Channel} : Writing(s \o Receipt(w, op))
         /\ Writing(Receipt(w, op))
<1>1. /\ Channel \in Seq(ReadSteps) /\ Len(Channel) = 1
      /\ User \in Seq(ReadSteps) /\ Len(User) = 1
  BY ReadPrograms
<1>2. /\ <<Ask>> \in Seq(ReadSteps) /\ Len(<<Ask>>) = 1
      /\ <<>> \in Seq(ReadSteps) /\ Len(<<>>) = 0
  BY ShortReads
<1> DEFINE asked == <<Ask>>
           twice == (Channel \o asked) \o Channel
           none == <<>>
<1>3. asked \in Seq(ReadSteps) /\ Len(asked) = 1 /\ none \in Seq(ReadSteps) /\ Len(none) = 0
  BY <1>2
<1> HIDE DEF asked, none
<1>4. Channel \o asked \in Seq(ReadSteps) /\ Len(Channel \o asked) = 2
  <2>1. Channel \o asked \in Seq(ReadSteps) /\ Len(Channel \o asked) = Len(Channel) + Len(asked)
    BY <1>1, <1>3, ConcatProperties
  <2> QED
    BY <1>1, <1>3, <2>1
<1>5. twice \in Seq(ReadSteps) /\ Len(twice) = 3
  <2>1. twice \in Seq(ReadSteps) /\ Len(twice) = Len(Channel \o asked) + Len(Channel)
    BY <1>1, <1>4, ConcatProperties
  <2> QED
    BY <1>1, <1>4, <2>1
<1> HIDE DEF twice
<1>6. /\ Len(Channel) \in 0 .. 4 /\ Len(User) \in 0 .. 4 /\ Len(twice) \in 0 .. 4
      /\ Len(none) \in 0 .. 4
  BY <1>1, <1>3, <1>5
<1>7. \A s \in {Channel, User, twice, none} : Writing(s \o Receipt(w, op))
  BY <1>1, <1>3, <1>5, <1>6 DEF Writing
<1>8. none \o Receipt(w, op) = Receipt(w, op)
  <2>1. Main(w) \in Steps /\ Proof(op) \in Steps
    BY DEF Steps, Main, Proof
  <2>2. Receipt(w, op) \in Seq(Steps)
    BY <2>1 DEF Receipt
  <2> QED
    BY <2>2, ConcatEmptySeq DEF none
<1> QED
  BY <1>7, <1>8 DEF twice, asked

(* The reads that are put together from others.                            *)
LEMMA LongReads ==
  \A s \in {Preflight, ScheduledList, SearchMessagesTool, ChannelContextTool, ThreadContextTool,
            Channel \o ListPage, Channel \o ThreadContext} :
    Reading(s)
<1>1. /\ {Channel, User, ListPage, SearchPage, ThreadContext, <<Main(FetchScheduledMessages)>>}
           \subseteq Seq(ReadSteps)
      /\ Len(Channel) = 1 /\ Len(User) = 1 /\ Len(ThreadContext) = 2
  BY ReadPrograms, ShortReads, OperationKinds
<1>2. Len(ListPage) = 1 /\ Len(SearchPage) = 1 /\ Len(<<Main(FetchScheduledMessages)>>) = 1
  BY DEF ListPage, SearchPage
<1> DEFINE Fits(s) == s \in Seq(ReadSteps) /\ Len(s) \in 0 .. 3
<1>3. ASSUME NEW s \in Seq(ReadSteps), NEW t \in Seq(ReadSteps), Len(s) = 1, Len(t) \in {1, 2}
      PROVE  Fits(s \o t)
  <2>1. s \o t \in Seq(ReadSteps) /\ Len(s \o t) = Len(s) + Len(t)
    BY ConcatProperties
  <2>2. Len(s \o t) \in 0 .. 3
    <3>1. CASE Len(t) = 1
      BY <1>3, <2>1, <3>1
    <3>2. CASE Len(t) = 2
      BY <1>3, <2>1, <3>2
    <3> QED
      BY <1>3, <3>1, <3>2
  <2> QED
    BY <2>1, <2>2
<1>4. Fits((User \o Channel) \o SearchPage)
  <2>1. User \o Channel \in Seq(ReadSteps) /\ Len(User \o Channel) = Len(User) + Len(Channel)
    BY <1>1, ConcatProperties
  <2>2. /\ (User \o Channel) \o SearchPage \in Seq(ReadSteps)
        /\ Len((User \o Channel) \o SearchPage) = Len(User \o Channel) + Len(SearchPage)
    BY <1>1, <2>1, ConcatProperties
  <2> QED
    BY <1>1, <1>2, <2>1, <2>2
<1>5. /\ Fits(Channel \o User) /\ Fits(Channel \o <<Main(FetchScheduledMessages)>>)
      /\ Fits(Channel \o ListPage) /\ Fits(Channel \o ThreadContext)
  BY <1>1, <1>2, <1>3
<1>6. \A s : Fits(s) => Reading(s)
  BY DEF Reading
<1> QED
  BY <1>4, <1>5, <1>6 DEF Preflight, ScheduledList, SearchMessagesTool, ChannelContextTool, ThreadContextTool

(* Every program of the client has the shape: the one fact the proofs need *)
(* of the list.                                                            *)
LEMMA ProgramsAreShaped == \A p \in Programs : Shaped(p)
<1> DEFINE Plain(s) == Reading(s) \/ Writing(s) \/ Single(s)
<1>1. \A kind, s : kind \notin {"audited", "retried"} /\ Plain(s) => Shaped(Program(kind, s))
  BY KindsAreShaped
<1>2. \A s \in {Me, Get, ListAll, Channel, User, ListPeople, ListGroups, FindByName, FindByEmail,
        GetMessage, ListPage, SearchPage, SearchRecent, ThreadContext, ListReplies, ScheduledGet,
        ChannelNames, UserValues, OpenWorkspace, Bootstrap} : Plain(s)
  <2>1. \A s : s \in Seq(ReadSteps) /\ Len(s) \in 0 .. 3 => Plain(s)
    BY DEF Reading
  <2> QED
    BY <2>1, ReadPrograms
<1>3. \A s \in {Preflight, ScheduledList, SearchMessagesTool, ChannelContextTool, ThreadContextTool,
        Channel \o ListPage, Channel \o ThreadContext} : Plain(s)
  BY LongReads
<1>4. \A s \in {Send, Dm, DmMany, Reply, Create, Schedule, Reschedule, SetStatus, ClearStatus,
        SendInteractive, ReplyInteractive} : Plain(s)
  <2>1. \A w \in WriteOps, op \in ReadOps :
          /\ Writing(Channel \o Receipt(w, op)) /\ Writing(User \o Receipt(w, op))
          /\ Writing(((Channel \o <<Ask>>) \o Channel) \o Receipt(w, op)) /\ Writing(Receipt(w, op))
    BY WritePrograms
  <2>2. /\ Send = Channel \o Receipt(SendMessage, FetchMessage)
        /\ Dm = User \o Receipt(DmUser, FetchMessage)
        /\ DmMany = Receipt(DmGroup, FetchMessage)
        /\ Reply = Channel \o Receipt(SendReply, FetchMessage)
        /\ Create = Receipt(CreateChannel, GetChannel)
        /\ Schedule = Channel \o Receipt(CreateScheduledMessage, FetchScheduledMessage)
        /\ Reschedule = Channel \o Receipt(EditScheduledMessage, FetchScheduledMessage)
        /\ SetStatus = Receipt(CustomStatus, MyInfo) /\ ClearStatus = Receipt(CustomStatus, MyInfo)
        /\ SendInteractive = ((Channel \o <<Ask>>) \o Channel) \o Receipt(SendMessage, FetchMessage)
        /\ ReplyInteractive = ((Channel \o <<Ask>>) \o Channel) \o Receipt(SendReply, FetchMessage)
    BY DEF Send, Dm, DmMany, Reply, Create, Schedule, Reschedule, SetStatus, ClearStatus,
           SendInteractive, ReplyInteractive, Receipt
  <2> HIDE DEF Plain
  <2>3. \A s : Writing(s) => Plain(s)
    BY DEF Plain
  <2>4. Writing(Send) /\ Writing(Reply) /\ Writing(Schedule) /\ Writing(Reschedule)
    BY <2>1, <2>2, OperationKinds
  <2>5. Writing(Dm) /\ Writing(DmMany) /\ Writing(Create) /\ Writing(SetStatus) /\ Writing(ClearStatus)
    BY <2>1, <2>2, OperationKinds
  <2>6. Writing(SendInteractive) /\ Writing(ReplyInteractive)
    BY <2>1, <2>2, OperationKinds
  <2> QED
    BY <2>3, <2>4, <2>5, <2>6
<1>5. Plain(Unschedule)
  BY OperationKinds DEF Unschedule, Single
<1>6. \A op \in RawReads : Reading(<<Main(op)>>) /\ Reading(<<Bare(op)>>) /\ op \in ReadOps
  BY OperationKinds, ShortReads DEF RawReads, Reading
<1>7. \A op \in RawWrites : op \in WriteOps
  BY OperationKinds DEF RawWrites
<1>8. Plain(<<>>)
  BY ShortReads DEF Reading
<1>9. ASSUME NEW p \in Facades PROVE Shaped(p)
  <2>1. PICK s : p = Program("facade", s) /\ Plain(s)
    <3> HIDE DEF Plain
    <3> QED
      BY <1>2, <1>3, <1>4, <1>5 DEF Facades
  <2> QED
    BY <1>1, <2>1
<1>10. ASSUME NEW p \in Tools PROVE Shaped(p)
  <2>1. PICK s : p = Program("tool", s) /\ Plain(s)
    <3> HIDE DEF Plain
    <3> QED
      BY <1>2, <1>3, <1>4 DEF Tools, WhoamiTool, FindChannelTool, FindUserTool, ListChannelsTool,
         MeResource, ChannelsResource, ChannelResource, ThreadResource, ChannelPage, UiThread
  <2> QED
    BY <1>1, <2>1
<1>11. ASSUME NEW p \in Commands PROVE Shaped(p)
  <2>1. PICK s : p = Program("command", s) /\ Plain(s)
    <3> HIDE DEF Plain
    <3> QED
      BY <1>2, <1>3, <1>4, <1>5 DEF Commands, CliReads, CliWrites
  <2> QED
    BY <1>1, <2>1
<1>12. ASSUME NEW p \in RawReadTools \cup DryRunTools PROVE Shaped(p)
  <2>1. \E kind \in {"tool", "dry_run"} : \E s : p = Program(kind, s) /\ Plain(s)
    BY <1>6, <1>8 DEF RawReadTools, DryRunTools
  <2> QED
    BY <1>1, <2>1
<1>13. ASSUME NEW p \in RawWriteTools PROVE Shaped(p)
  <2>1. PICK op \in RawWrites : p = Program("audited", <<Main(op)>>)
    BY DEF RawWriteTools
  <2> QED
    BY <1>7, <2>1, SinglesAreShaped
<1>14. ASSUME NEW p \in WithRetries PROVE Shaped(p)
  <2>1. PICK op \in RawReads : p = Program("retried", <<Bare(op)>>)
    BY DEF WithRetries
  <2> QED
    BY <1>6, <2>1, ReadsAreShaped DEF Reading
<1>15. ASSUME NEW p \in Traced PROVE Shaped(p)
  <2>1. PICK op \in RawReads \cup RawWrites : p = Program("traced", <<Bare(op)>>)
    BY DEF Traced
  <2>2. CASE op \in RawReads
    BY <1>1, <1>6, <2>1, <2>2
  <2>3. CASE op \in RawWrites
    BY <1>7, <2>1, <2>3, SinglesAreShaped
  <2> QED
    BY <2>1, <2>2, <2>3
<1> QED
  BY <1>9, <1>10, <1>11, <1>12, <1>13, <1>14, <1>15 DEF Programs
-----------------------------------------------------------------------------
(* The inductive invariant *)

(* A call waits exactly while it has an operation, the one of its step,    *)
(* and asks where its program does; only operations with backoff sleep.    *)
Linked(c) ==
    /\ call[c].pc = "waiting" <=> conn[c].pc # "idle"
    /\ call[c].pc = "waiting" => Step(c).as # "ask" /\ conn[c].op = Step(c).op
    /\ call[c].pc = "asking" => Step(c).as = "ask"
    /\ conn[c].pc = "sleeping" => conn[c].op.backoff

(* What Pumble carried out and what may still arrive was sent, once; what  *)
(* is on the wire is carried out exactly if it is marked so.               *)
Counted(c) ==
    /\ sent[c] <= 1 /\ applied[c] + stray[c] <= sent[c]
    /\ conn[c].pc = "wire" /\ conn[c].op.writes =>
        /\ sent[c] = 1 /\ stray[c] = 0
        /\ applied[c] = IF conn[c].served THEN 1 ELSE 0
    /\ call[c].pc = "idle" => sent[c] = 0 /\ audit[c] = NoAudit

(* Nothing is sent before the step that writes, and a call gets past that  *)
(* step only if its write was carried out.                                 *)
InOrder(c) ==
    Running(c) =>
        /\ (\A i \in 1 .. call[c].at :
              WritesAt(call[c].prog, i) => i = call[c].at /\ call[c].pc # "waiting") => sent[c] = 0
        /\ \A i \in 1 .. call[c].at - 1 : WritesAt(call[c].prog, i) => applied[c] = 1
        /\ conn[c].pc = "returned" /\ conn[c].result = Value /\ WritesAt(call[c].prog, call[c].at) =>
            applied[c] = 1

Truthful(c) ==
    call[c].pc = "done" =>
        /\ call[c].outcome = "value" /\ HasWrite(call[c].prog) => applied[c] = 1
        /\ call[c].outcome = "raised" /\ call[c].prog.kind # "traced" => sent[c] = 0

(* The audit log of a raw write: both lines, or the ones of them that could*)
(* be written.                                                             *)
Attempted(log) == log \in {[lines |-> <<"attempt">>, lost |-> 0], [lines |-> <<>>, lost |-> 1]}
Completed(log, word) ==
    log \in {[lines |-> <<"attempt", word>>, lost |-> 0], [lines |-> <<"attempt">>, lost |-> 1],
             [lines |-> <<word>>, lost |-> 1], [lines |-> <<>>, lost |-> 2]}

Logged(c) ==
    call[c].pc # "idle" /\ call[c].prog.kind = "audited" =>
        IF call[c].pc = "done" /\ call[c].outcome # "cancelled"
        THEN Completed(audit[c], IF call[c].outcome = "value" THEN "success" ELSE "failure")
        ELSE Attempted(audit[c])

(* An attempt is at most as late as the ticks since the first; the next    *)
(* one is due at least one tick after it.                                  *)
Paced(c) ==
    /\ conn[c].pc = "wire" => conn[c].tries <= conn[c].age + 1
    /\ conn[c].pc = "sleeping" =>
        /\ conn[c].tries <= MaxElapsed + 1
        /\ conn[c].tries <= conn[c].age + 1
        /\ conn[c].left = 0 => conn[c].tries <= conn[c].age

Good(c) == Linked(c) /\ Counted(c) /\ InOrder(c) /\ Truthful(c) /\ Logged(c) /\ Paced(c)

Inductive == TypeOK /\ \A c \in Calls : Good(c)
-----------------------------------------------------------------------------
(* What the steps rest on *)

(* What the constants are.                                                 *)
LEMMA Numbers ==
  /\ MaxElapsed \in Nat /\ MaxInterval \in Nat \ {0} /\ RetryAfters \subseteq Nat
  /\ Interval \in [1 .. MaxElapsed + 3 -> Nat \ {0}]
  /\ MaxAttempts \in Nat \ {0} /\ MaxDelay \in Nat
  BY BackoffAssumption, RetryAssumption

(* The lesser of two numbers.                                              *)
LEMMA MinOfTwo ==
  ASSUME NEW a \in Nat, NEW b \in Nat
  PROVE  Min({a, b}) = IF a <= b THEN a ELSE b
<1> DEFINE least == IF a <= b THEN a ELSE b
<1>1. \A x : (x \in {a, b} /\ \A y \in {a, b} : x <= y) <=> x = least
  OBVIOUS
<1> QED
  BY <1>1 DEF Min

(* The steps of a program, and what a writing one allows before and after. *)
LEMMA StepsOfPrograms ==
  ASSUME NEW p \in Programs, NEW i \in 1 .. Len(p.steps)
  PROVE  /\ p.steps[i] \in Steps /\ Len(p.steps) \in 0 .. 6 /\ DOMAIN p.steps = 1 .. Len(p.steps)
         /\ p.steps[i].as # "ask" => p.steps[i].op \in Operation
         /\ WritesAt(p, i) =>
              /\ p.steps[i].op \in WriteOps
              /\ p.steps[i].as = "main" \/ (p.steps[i].as = "bare" /\ p.kind = "traced")
              /\ \A j \in 1 .. i - 1 : ~WritesAt(p, j)
<1>1. p.steps \in Seq(Steps) /\ Len(p.steps) \in 0 .. 6
  BY ProgramsAreShaped DEF Shaped
<1>2. p.steps[i] \in Steps /\ DOMAIN p.steps = 1 .. Len(p.steps)
  BY <1>1, ElementOfSeq, LenProperties
<1>3. p.steps[i].as # "ask" => p.steps[i].op \in ReadOps \cup WriteOps
  BY <1>2 DEF Steps, Ask
<1>4. WritesAt(p, i) => p.steps[i].op \in WriteOps
  BY <1>3 DEF WritesAt, ReadOps
<1>5. WritesAt(p, i) => p.steps[i].as = "main" \/ (p.steps[i].as = "bare" /\ p.kind = "traced")
  BY ProgramsAreShaped DEF Shaped
<1>6. ASSUME WritesAt(p, i), NEW j \in 1 .. i - 1, WritesAt(p, j)
      PROVE  FALSE
  <2>1. j \in 1 .. Len(p.steps) /\ i \in j + 1 .. Len(p.steps)
    BY <1>1
  <2>2. p.steps[i].op \in ReadOps
    BY <1>6, <2>1, ProgramsAreShaped DEF Shaped
  <2> QED
    BY <1>4, <1>6, <2>2 DEF ReadOps, WriteOps
<1> QED
  BY <1>1, <1>2, <1>3, <1>4, <1>5, <1>6 DEF ReadOps, WriteOps

(* A program with a write has a step that writes.                          *)
LEMMA HasWriteIsWritesAt ==
  ASSUME NEW p \in Programs
  PROVE  HasWrite(p) <=> \E i \in 1 .. Len(p.steps) : WritesAt(p, i)
<1>1. DOMAIN p.steps = 1 .. Len(p.steps)
  BY ProgramsAreShaped, LenProperties DEF Shaped
<1> QED
  BY <1>1 DEF HasWrite, WritesAt

(* A raw write does one thing, and that is to write.                       *)
LEMMA AuditedPrograms ==
  ASSUME NEW p \in Programs, p.kind = "audited"
  PROVE  Len(p.steps) = 1 /\ p.steps[1].as = "main" /\ WritesAt(p, 1) /\ p.steps # <<>>
<1>1. Len(p.steps) = 1 /\ p.steps[1].as = "main" /\ WritesAt(p, 1)
  BY ProgramsAreShaped DEF Shaped
<1>2. Len(<<>>) = 0
  OBVIOUS
<1> QED
  BY <1>1, <1>2

(* The shapes of a call and of an operation in progress.                   *)
LEMMA RunningCalls ==
  ASSUME TypeOK, NEW c \in Calls, Running(c)
  PROVE  /\ call[c] = [pc |-> call[c].pc, prog |-> call[c].prog, at |-> call[c].at,
                       attempt |-> call[c].attempt, left |-> call[c].left, proof |-> call[c].proof]
         /\ call[c].prog \in Programs /\ call[c].at \in 1 .. 6
         /\ call[c].attempt \in 1 .. MaxAttempts /\ call[c].left \in 0 .. MaxDelay
         /\ call[c].proof \in {"none", "verified", "unverified"}
         /\ call[c].at \in 1 .. Len(call[c].prog.steps) /\ Len(call[c].prog.steps) \in 0 .. 6
<1>1. call[c] \in Call
  BY DEF TypeOK
<1>2. call[c] \in [pc: {"next", "waiting", "asking", "pausing"}, prog: Programs, at: 1 .. 6,
          attempt: 1 .. MaxAttempts, left: 0 .. MaxDelay, proof: {"none", "verified", "unverified"}]
  BY <1>1 DEF Call, NoCall, Running
<1>3. call[c].prog \in Programs
  BY <1>2
<1>4. DOMAIN call[c].prog.steps = 1 .. Len(call[c].prog.steps) /\ Len(call[c].prog.steps) \in 0 .. 6
  BY <1>3, ProgramsAreShaped, LenProperties DEF Shaped
<1>5. call[c].at \in DOMAIN call[c].prog.steps
  BY DEF TypeOK
<1> QED
  BY <1>2, <1>4, <1>5

(* A running call is at a step of its program.                             *)
LEMMA PlaceInProgram ==
  ASSUME TypeOK, NEW c \in Calls, Running(c)
  PROVE  /\ call[c].at <= Len(call[c].prog.steps)
         /\ call[c].at < Len(call[c].prog.steps) => call[c].at + 1 \in 1 .. 6
<1>1. call[c].at \in 1 .. Len(call[c].prog.steps) /\ Len(call[c].prog.steps) \in 0 .. 6
  BY RunningCalls
<1>2. \A i, n : n \in 0 .. 6 /\ i \in 1 .. n => i <= n /\ (i < n => i + 1 \in 1 .. 6)
  OBVIOUS
<1> QED
  BY <1>1, <1>2

(* What is known of an operation from where it is.                         *)
LEMMA OperationsInProgress ==
  ASSUME TypeOK, NEW c \in Calls
  PROVE  /\ conn[c].pc = "wire" =>
              /\ conn[c] = [pc |-> "wire", op |-> conn[c].op, served |-> conn[c].served,
                            tries |-> conn[c].tries, age |-> conn[c].age]
              /\ conn[c].op \in Operation /\ conn[c].served \in BOOLEAN
              /\ conn[c].tries \in Tries /\ conn[c].age \in 0 .. MaxElapsed + 1
         /\ conn[c].pc = "sleeping" =>
              /\ conn[c] = [pc |-> "sleeping", op |-> conn[c].op, tries |-> conn[c].tries,
                            age |-> conn[c].age, left |-> conn[c].left]
              /\ conn[c].op \in Operation /\ conn[c].left \in Nat
              /\ conn[c].tries \in Tries /\ conn[c].age \in 0 .. MaxElapsed + 1
         /\ conn[c].pc = "returned" => conn[c].op \in Operation /\ conn[c].result \in Result
         /\ conn[c].pc \in {"idle", "wire", "sleeping", "returned"}
         /\ conn[c].pc = "idle" => conn[c] = NoConn
<1>1. conn[c] \in Conn
  BY DEF TypeOK, NetTypeOK
<1>2. CASE conn[c] = NoConn
  BY <1>2 DEF NoConn
<1>3. CASE conn[c] \in [pc: {"wire"}, op: Operation, served: BOOLEAN, tries: Tries, age: 0 .. MaxElapsed + 1]
  BY <1>3
<1>4. CASE conn[c] \in [pc: {"sleeping"}, op: Operation, tries: Tries, age: 0 .. MaxElapsed + 1, left: Nat]
  BY <1>4
<1>5. CASE conn[c] \in [pc: {"returned"}, op: Operation, result: Result]
  BY <1>5
<1> QED
  BY <1>1, <1>2, <1>3, <1>4, <1>5 DEF Conn

(* Only the call that moves changes.                                       *)
Others(c) == \A d \in Calls \ {c} :
    /\ call'[d] = call[d] /\ conn'[d] = conn[d] /\ audit'[d] = audit[d]
    /\ sent'[d] = sent[d] /\ applied'[d] = applied[d] /\ stray'[d] = stray[d]

(* A step of one call need only keep what is said of that call.            *)
LEMMA Together ==
  ASSUME Inductive, NEW c \in Calls, Others(c), TypeOK', Good(c)'
  PROVE  Inductive'
<1>1. ASSUME NEW d \in Calls, d # c
      PROVE  Good(d)'
  <2>1. /\ call'[d] = call[d] /\ conn'[d] = conn[d] /\ audit'[d] = audit[d]
        /\ sent'[d] = sent[d] /\ applied'[d] = applied[d] /\ stray'[d] = stray[d]
    BY <1>1 DEF Others
  <2>2. Good(d)
    BY DEF Inductive
  <2>3. /\ Linked(d) <=> Linked(d)'
        /\ Counted(d) <=> Counted(d)'
        /\ InOrder(d) <=> InOrder(d)'
        /\ Truthful(d) <=> Truthful(d)'
        /\ Logged(d) <=> Logged(d)'
        /\ Paced(d) <=> Paced(d)'
    BY <2>1 DEF Linked, Counted, InOrder, Truthful, Logged, Paced, Step, Running
  <2> QED
    BY <2>2, <2>3 DEF Good
<1> QED
  BY <1>1 DEF Inductive
-----------------------------------------------------------------------------
(* How a call ends and how it goes on *)

AuditLines == [lines: Seq(Lines), lost: Nat]

(* A line of the log is appended, or counted as lost.                      *)
Extended(old, line, new) ==
    new \in {[lines |-> Append(old.lines, line), lost |-> old.lost],
             [lines |-> old.lines, lost |-> old.lost + 1]}

(* The log of the call is extended, the others are left alone.             *)
LEMMA AuditKeeps ==
  ASSUME audit \in [Calls -> AuditLines], NEW c \in Calls, NEW line \in Lines, Audit(c, line)
  PROVE  /\ audit' \in [Calls -> AuditLines] /\ \A d \in Calls \ {c} : audit'[d] = audit[d]
         /\ Extended(audit[c], line, audit'[c])
<1> USE DEF Extended
<1>1. audit[c].lines \in Seq(Lines) /\ audit[c].lost \in Nat
  BY DEF AuditLines
<1>2. Append(audit[c].lines, line) \in Seq(Lines)
  BY <1>1, AppendProperties
<1>3. CASE audit' = [audit EXCEPT ![c] = [lines |-> Append(@.lines, line), lost |-> @.lost]]
  BY <1>1, <1>2, <1>3 DEF AuditLines
<1>4. CASE audit' = [audit EXCEPT ![c] = [lines |-> @.lines, lost |-> @.lost + 1]]
  BY <1>1, <1>4 DEF AuditLines
<1> QED
  BY <1>3, <1>4 DEF Audit

(* The operation of a call is over, if it had one.                         *)
Released(c) ==
    /\ conn' = [conn EXCEPT ![c] = NoConn] /\ sent' = sent /\ applied' = applied /\ open' = open
    /\ stray' \in [Calls -> Nat] /\ \A d \in Calls \ {c} : stray'[d] = stray[d]
    /\ applied[c] + stray'[c] <= sent[c]

(* A released operation leaves the network in order and the other calls    *)
(* alone.                                                                  *)
LEMMA ReleasedNetwork ==
  ASSUME Inductive, NEW c \in Calls, Released(c)
  PROVE  /\ NetTypeOK' /\ conn'[c] = NoConn /\ conn'[c].pc = "idle"
         /\ \A d \in Calls \ {c} : /\ conn'[d] = conn[d] /\ sent'[d] = sent[d]
                                   /\ applied'[d] = applied[d] /\ stray'[d] = stray[d]
<1>1. NetTypeOK /\ NoConn \in Conn /\ NoConn.pc = "idle"
  BY DEF Inductive, TypeOK, Conn, NoConn
<1>2. conn' \in [Calls -> Conn] /\ conn'[c] = NoConn /\ \A d \in Calls \ {c} : conn'[d] = conn[d]
  BY <1>1 DEF Released, NetTypeOK
<1>3. sent' \in [Calls -> Nat] /\ applied' \in [Calls -> Nat] /\ stray' \in [Calls -> Nat] /\ open' \in BOOLEAN
  BY <1>1, Zenon DEF Released, NetTypeOK
<1> QED
  BY <1>1, <1>2, <1>3 DEF Released, NetTypeOK

(* A call that is not waiting has no operation to release.                 *)
LEMMA IdleIsReleased ==
  ASSUME Inductive, NEW c \in Calls, call[c].pc # "waiting", UNCHANGED netVars
  PROVE  Released(c)
<1>1. conn[c] = NoConn
  BY OperationsInProgress DEF Inductive, Good, Linked
<1>2. conn \in [Calls -> Conn] /\ stray \in [Calls -> Nat]
  BY DEF Inductive, TypeOK, NetTypeOK
<1>3. applied[c] + stray[c] <= sent[c]
  BY DEF Inductive, Good, Counted
<1> QED
  BY <1>1, <1>2, <1>3 DEF Released, netVars

(* The second line of a log.                                               *)
LEMMA SecondLine ==
  ASSUME NEW S, NEW first \in S, NEW second \in S
  PROVE  Append(<<first>>, second) = <<first, second>>
<1>1. ASSUME NEW one \in Seq(S), Len(one) = 1
      PROVE  /\ Append(one, second) \in Seq(S) /\ Len(Append(one, second)) = 2
             /\ Append(one, second)[1] = one[1] /\ Append(one, second)[2] = second
  <2>1. Append(one, second) \in Seq(S) /\ Len(Append(one, second)) = Len(one) + 1
    OBVIOUS
  <2>2. \A i \in 1 .. Len(one) : Append(one, second)[i] = one[i]
    OBVIOUS
  <2>3. Append(one, second)[Len(one) + 1] = second
    OBVIOUS
  <2> QED
    BY <1>1, <2>1, <2>2, <2>3
<1>2. <<first>> \in Seq(S) /\ Len(<<first>>) = 1 /\ <<first>>[1] = first
  OBVIOUS
<1>3. /\ <<first, second>> \in Seq(S) /\ Len(<<first, second>>) = 2
      /\ <<first, second>>[1] = first /\ <<first, second>>[2] = second
  OBVIOUS
<1> DEFINE one == <<first>>
           two == <<first, second>>
<1>4. one \in Seq(S) /\ Len(one) = 1 /\ one[1] = first
  BY <1>2
<1>5. two \in Seq(S) /\ Len(two) = 2 /\ two[1] = first /\ two[2] = second
  BY <1>3
<1> HIDE DEF one, two
<1>6. /\ Append(one, second) \in Seq(S) /\ Len(Append(one, second)) = 2
      /\ Append(one, second)[1] = first /\ Append(one, second)[2] = second
  BY <1>1, <1>4
<1>7. Append(one, second) = two
  BY <1>5, <1>6, SeqEqual
<1> QED
  BY <1>7 DEF one, two

(* An attempted write whose outcome is logged has a complete log.          *)
LEMMA AttemptedCompletes ==
  ASSUME NEW old, NEW new, NEW word \in Lines, Attempted(old), Extended(old, word, new)
  PROVE  Completed(new, word)
<1>1. Append(<<"attempt">>, word) = <<"attempt", word>>
  BY SecondLine DEF Lines
<1>2. Append(<<>>, word) = <<word>>
  OBVIOUS
<1>3. CASE old = [lines |-> <<"attempt">>, lost |-> 0]
  BY <1>1, <1>3 DEF Extended, Completed
<1>4. CASE old = [lines |-> <<>>, lost |-> 1]
  BY <1>2, <1>4 DEF Extended, Completed
<1> QED
  BY <1>3, <1>4 DEF Attempted

(* A call that ends tells the truth if its write, when it returns a value, *)
(* was carried out, and, when it raises, was not sent.                     *)
LEMMA EndKeeps ==
  ASSUME Inductive, NEW c \in Calls, Running(c), NEW outcome \in Outcomes, End(c, outcome), Released(c),
         outcome = "value" /\ HasWrite(call[c].prog) => applied[c] = 1,
         outcome = "raised" /\ call[c].prog.kind # "traced" => sent[c] = 0
  PROVE  Inductive'
<1>1. TypeOK /\ Good(c)
  BY DEF Inductive
<1>2. call[c].prog \in Programs
  BY <1>1, RunningCalls
<1>3. /\ call' \in [Calls -> Call] /\ \A d \in Calls \ {c} : call'[d] = call[d]
      /\ call'[c] = [pc |-> "done", prog |-> call[c].prog, outcome |-> outcome]
  BY <1>1, <1>2 DEF End, TypeOK, Call
<1>4. call'[c].pc = "done" /\ call'[c].prog = call[c].prog /\ call'[c].outcome = outcome
  BY <1>3
<1> DEFINE lines == Verdict(call[c].prog.kind, outcome)
<1>5. audit \in [Calls -> AuditLines]
  BY <1>1 DEF TypeOK, AuditLines
<1>6. lines \subseteq Lines
  BY DEF Verdict, Lines
<1>7. /\ audit' \in [Calls -> AuditLines] /\ \A d \in Calls \ {c} : audit'[d] = audit[d]
      /\ lines = {} => audit' = audit
      /\ lines # {} => \E line \in lines : Extended(audit[c], line, audit'[c])
  <2>1. CASE lines = {}
    BY <1>5, <2>1 DEF End
  <2>2. CASE lines # {}
    <3>1. PICK line \in lines : Audit(c, line)
      BY <2>2 DEF End
    <3> QED
      BY <1>5, <1>6, <2>2, <3>1, AuditKeeps
  <2> QED
    BY <2>1, <2>2
<1>8. TypeOK'
  <2>1. (\A d \in Calls : Running(d) => call[d].at \in DOMAIN call[d].prog.steps)'
    <3>1. ~Running(c)'
      BY <1>4 DEF Running
    <3>2. \A d \in Calls \ {c} : Running(d)' => call'[d].at \in DOMAIN call'[d].prog.steps
      BY <1>1, <1>3 DEF Running, TypeOK
    <3> QED
      BY <3>1, <3>2
  <2> QED
    BY <1>3, <1>7, <2>1, ReleasedNetwork DEF TypeOK, AuditLines
<1>9. Good(c)'
  <2>1. Linked(c)' /\ Paced(c)'
    BY <1>4, ReleasedNetwork DEF Linked, Paced
  <2>2. Counted(c)'
    <3>1. sent[c] <= 1 /\ sent'[c] = sent[c] /\ applied'[c] + stray'[c] <= sent'[c]
      BY <1>1 DEF Good, Counted, Released
    <3> QED
      BY <1>4, <3>1, ReleasedNetwork DEF Counted
  <2>3. InOrder(c)' /\ Truthful(c)'
    BY <1>4 DEF InOrder, Truthful, Running, Released
  <2>4. Logged(c)'
    <3> DEFINE word == IF outcome = "value" THEN "success" ELSE "failure"
    <3> SUFFICES ASSUME call[c].prog.kind = "audited"
                 PROVE  IF outcome # "cancelled" THEN Completed(audit'[c], word) ELSE Attempted(audit'[c])
      BY <1>4 DEF Logged
    <3>1. Attempted(audit[c])
      BY <1>1 DEF Good, Logged, Running
    <3>2. CASE outcome = "cancelled"
      BY <1>7, <3>1, <3>2 DEF Verdict
    <3>3. CASE outcome # "cancelled"
      <4>1. lines = {word} /\ word \in Lines
        BY <3>3 DEF Verdict, Lines
      <4>2. Extended(audit[c], word, audit'[c])
        BY <1>7, <4>1
      <4> QED
        BY <3>1, <3>3, <4>1, <4>2, AttemptedCompletes
    <3> QED
      BY <3>2, <3>3
  <2> QED
    BY <2>1, <2>2, <2>3, <2>4 DEF Good
<1> QED
  BY <1>3, <1>7, <1>8, <1>9, ReleasedNetwork, Together DEF Others

(* A call goes on at the same step or the next one, without an operation.  *)
Moved(c, pc, at) ==
    /\ call'[c].pc = pc /\ call'[c].prog = call[c].prog /\ call'[c].at = at
    /\ call' \in [Calls -> Call] /\ \A d \in Calls \ {c} : call'[d] = call[d]

(* A call may change what it is about without leaving its step.            *)
LEMMA SamePlace ==
  ASSUME TypeOK, NEW c \in Calls, Running(c), NEW pc \in {"next", "waiting", "asking", "pausing"},
         call' = [call EXCEPT ![c].pc = pc]
  PROVE  Moved(c, pc, call[c].at)
<1> DEFINE k == [pc |-> pc, prog |-> call[c].prog, at |-> call[c].at, attempt |-> call[c].attempt,
                 left |-> call[c].left, proof |-> call[c].proof]
<1>1. k \in Call
  BY RunningCalls DEF Call
<1>2. call \in [Calls -> Call]
  BY DEF TypeOK
<1>3. call[c] = [pc |-> call[c].pc, prog |-> call[c].prog, at |-> call[c].at,
                 attempt |-> call[c].attempt, left |-> call[c].left, proof |-> call[c].proof]
  BY RunningCalls
<1>4. [call[c] EXCEPT !.pc = pc] = k
  BY <1>3
<1>5. call' = [call EXCEPT ![c] = k]
  BY <1>4
<1> QED
  BY <1>1, <1>2, <1>5 DEF Moved

(* A call that goes on within its program, without having its write behind *)
(* it unless that was carried out.                                         *)
LEMMA MovedKeeps ==
  ASSUME Inductive, NEW c \in Calls, Running(c), NEW pc \in {"next", "asking", "pausing"},
         NEW at \in {call[c].at, call[c].at + 1}, at <= Len(call[c].prog.steps),
         Moved(c, pc, at), UNCHANGED audit, Released(c),
         WritesAt(call[c].prog, call[c].at) =>
            IF at = call[c].at THEN call[c].pc # "waiting" ELSE applied[c] = 1,
         pc = "asking" => call[c].prog.steps[at].as = "ask"
  PROVE  Inductive'
<1>1. TypeOK /\ Good(c)
  BY DEF Inductive
<1> DEFINE p == call[c].prog
           here == call[c].at
<1>2. p \in Programs /\ here \in 1 .. Len(p.steps) /\ Len(p.steps) \in 0 .. 6
      /\ DOMAIN p.steps = 1 .. Len(p.steps)
  BY <1>1, RunningCalls, StepsOfPrograms
<1>3. /\ call'[c].pc = pc /\ call'[c].prog = p /\ call'[c].at = at /\ call'[c].pc # "waiting"
      /\ \A d \in Calls \ {c} : call'[d] = call[d]
  BY DEF Moved
<1>4. TypeOK'
  <2>1. call'[c].at \in DOMAIN call'[c].prog.steps
    BY <1>2, <1>3
  <2>2. \A d \in Calls \ {c} : Running(d)' => call'[d].at \in DOMAIN call'[d].prog.steps
    BY <1>1, <1>3 DEF Running, TypeOK
  <2>3. call' \in [Calls -> Call] /\ audit' \in [Calls -> [lines: Seq(Lines), lost: Nat]]
    BY <1>1, Zenon DEF TypeOK, Moved
  <2> QED
    BY <2>1, <2>2, <2>3, ReleasedNetwork DEF TypeOK
<1>5. Good(c)'
  <2>1. Linked(c)' /\ Paced(c)'
    BY <1>3, ReleasedNetwork DEF Linked, Paced, Step
  <2>2. Counted(c)'
    <3>1. sent[c] <= 1 /\ sent'[c] = sent[c] /\ applied'[c] + stray'[c] <= sent'[c]
      BY <1>1 DEF Good, Counted, Released
    <3> QED
      BY <1>3, <3>1, ReleasedNetwork DEF Counted
  <2>3. InOrder(c)'
    <3> HIDE DEF p, here
    <3>0. InOrder(c) /\ sent'[c] = sent[c] /\ applied'[c] = applied[c]
      BY <1>1 DEF Good, Released
    <3>1. ASSUME \A i \in 1 .. at : WritesAt(p, i) => i = at
          PROVE  sent[c] = 0
      <4>1. \A i \in 1 .. here - 1 : ~WritesAt(p, i)
        BY <1>2, <3>1 DEF here
      <4>2. WritesAt(p, here) => at = here /\ call[c].pc # "waiting"
        BY <1>2, <3>1 DEF p, here
      <4>3. \A i \in 1 .. here : WritesAt(p, i) => i = here /\ call[c].pc # "waiting"
        BY <1>2, <4>1, <4>2
      <4> QED
        BY <3>0, <4>3 DEF InOrder, p, here
    <3>2. ASSUME NEW i \in 1 .. at - 1, WritesAt(p, i)
          PROVE  applied[c] = 1
      <4>1. i \in 1 .. here - 1 \/ (i = here /\ at # here)
        BY <1>2 DEF here
      <4>2. CASE i \in 1 .. here - 1
        BY <3>0, <3>2, <4>2 DEF InOrder, p, here
      <4>3. CASE i = here /\ at # here
        BY <3>2, <4>3 DEF p, here
      <4> QED
        BY <4>1, <4>2, <4>3
    <3> QED
      BY <1>3, <3>0, <3>1, <3>2, ReleasedNetwork DEF InOrder
  <2>4. Truthful(c)' /\ Logged(c)'
    <3>1. call'[c].pc # "done" /\ call'[c].pc # "idle" /\ call[c].pc # "done" /\ call[c].pc # "idle"
      BY <1>3 DEF Running
    <3>2. audit'[c] = audit[c] /\ Logged(c)
      BY <1>1 DEF Good
    <3> QED
      BY <1>3, <3>1, <3>2 DEF Truthful, Logged
  <2> QED
    BY <2>1, <2>2, <2>3, <2>4 DEF Good
<1> QED
  BY <1>3, <1>4, <1>5, ReleasedNetwork, Together DEF Others

(* To the next step, or, after the last, to the end.                       *)
LEMMA AdvanceKeeps ==
  ASSUME Inductive, NEW c \in Calls, Running(c), NEW proof \in {"none", "verified", "unverified"},
         Advance(c, proof), Released(c), WritesAt(call[c].prog, call[c].at) => applied[c] = 1
  PROVE  Inductive'
<1>1. TypeOK /\ Good(c)
  BY DEF Inductive
<1> DEFINE p == call[c].prog
           here == call[c].at
<1>2. /\ p \in Programs /\ here \in 1 .. Len(p.steps) /\ Len(p.steps) \in 0 .. 6 /\ here \in 1 .. 6
      /\ call[c].attempt \in 1 .. MaxAttempts /\ call[c].left \in 0 .. MaxDelay
      /\ call[c] = [pc |-> call[c].pc, prog |-> p, at |-> here,
                    attempt |-> call[c].attempt, left |-> call[c].left, proof |-> call[c].proof]
  BY <1>1, RunningCalls
<1>3. CASE here < Len(p.steps)
  <2> DEFINE next == [pc |-> "next", prog |-> p, at |-> here + 1, attempt |-> call[c].attempt,
                      left |-> call[c].left, proof |-> proof]
  <2>1. call' = [call EXCEPT ![c].pc = "next", ![c].at = @ + 1, ![c].proof = proof] /\ audit' = audit
    BY <1>3 DEF Advance
  <2>2. call' = [call EXCEPT ![c] = next]
    BY <1>1, <1>2, <2>1 DEF TypeOK
  <2>3. next \in Call
    <3>1. here + 1 \in 1 .. 6
      BY <1>1, <1>3, PlaceInProgram
    <3> HIDE DEF here
    <3> QED
      BY <1>2, <3>1 DEF Call
  <2>4. Moved(c, "next", here + 1)
    BY <1>1, <2>2, <2>3 DEF Moved, TypeOK
  <2>5. here + 1 <= Len(p.steps) /\ here + 1 # here
    BY <1>2, <1>3
  <2> HIDE DEF next
  <2> QED
    BY <2>1, <2>4, <2>5, MovedKeeps
<1>4. CASE ~(here < Len(p.steps))
  <2>1. End(c, "value") /\ here = Len(p.steps)
    BY <1>2, <1>4 DEF Advance
  <2>2. HasWrite(p) => applied[c] = 1
    <3>1. ASSUME NEW i \in 1 .. Len(p.steps), WritesAt(p, i)
          PROVE  applied[c] = 1
      <4>1. CASE i = here
        BY <3>1, <4>1
      <4>2. CASE i # here
        <5>1. i \in 1 .. here - 1
          BY <1>2, <2>1, <4>2
        <5> QED
          BY <1>1, <3>1, <5>1 DEF Good, InOrder
      <4> QED
        BY <4>1, <4>2
    <3> QED
      BY <1>2, <3>1, HasWriteIsWritesAt
  <2> QED
    BY <2>1, <2>2, EndKeeps DEF Outcomes
<1> QED
  BY <1>3, <1>4

(* Raising where no write has begun.                                       *)
LEMMA RaiseKeeps ==
  ASSUME Inductive, NEW c \in Calls, Running(c), Raise(c), Released(c),
         call[c].prog.kind # "traced" => sent[c] = 0
  PROVE  Inductive'
  BY EndKeeps DEF Raise, Outcomes

(* Before the step that writes, nothing was sent.                          *)
LEMMA NothingSentBefore ==
  ASSUME Inductive, NEW c \in Calls, Running(c),
         \A j \in 1 .. call[c].at - 1 : ~WritesAt(call[c].prog, j),
         WritesAt(call[c].prog, call[c].at) => call[c].pc # "waiting"
  PROVE  sent[c] = 0
<1>1. TypeOK /\ Good(c)
  BY DEF Inductive
<1>2. call[c].at \in 1 .. 6
  BY <1>1, RunningCalls
<1>3. ASSUME NEW i \in 1 .. call[c].at, WritesAt(call[c].prog, i)
      PROVE  i = call[c].at /\ call[c].pc # "waiting"
  <2>1. i \in 1 .. call[c].at - 1 \/ i = call[c].at
    BY <1>2
  <2> QED
    BY <1>3, <2>1
<1> QED
  BY <1>1, <1>3 DEF Good, InOrder

(* A step that is no direct read of a write has no write before it.        *)
LEMMA NoWriteBefore ==
  ASSUME NEW p \in Programs, NEW i \in 1 .. Len(p.steps), p.steps[i].as # "proof"
  PROVE  \A j \in 1 .. i - 1 : ~WritesAt(p, j)
<1>1. Len(p.steps) \in 0 .. 6
  BY ProgramsAreShaped DEF Shaped
<1>2. ASSUME NEW j \in 1 .. i - 1, WritesAt(p, j)
      PROVE  FALSE
  <2>1. j \in 1 .. Len(p.steps) /\ i \in j + 1 .. Len(p.steps)
    BY <1>1
  <2> QED
    BY <1>2, <2>1, ProgramsAreShaped DEF Shaped
<1> QED
  BY <1>2

-----------------------------------------------------------------------------
(* One lemma per step of a call *)

(* A call starts.                                                          *)
LEMMA StartInductive == ASSUME Inductive, NEW c \in Calls, NEW p \in Programs, Start(c, p) PROVE Inductive'
<1>1. TypeOK /\ Good(c) /\ call[c].pc = "idle"
  BY DEF Inductive, Start
<1>2. conn[c].pc = "idle" /\ sent[c] = 0 /\ audit[c] = NoAudit /\ sent[c] <= 1 /\ applied[c] + stray[c] <= sent[c]
  BY <1>1, OperationsInProgress DEF Good, Linked, Counted
<1>3. UNCHANGED <<conn, sent, applied, stray, open>>
  BY DEF Start, netVars
<1>4. Paced(c)' /\ NetTypeOK'
  BY <1>1, <1>2, <1>3 DEF Paced, TypeOK, NetTypeOK
<1>5. audit \in [Calls -> AuditLines]
  BY <1>1 DEF TypeOK, AuditLines
<1>6. CASE p.steps = <<>>
  <2>1. /\ call' = [call EXCEPT ![c] = [pc |-> "done", prog |-> p, outcome |-> "value"]]
        /\ Audit(c, "dry_run")
    BY <1>6 DEF Start
  <2>2. /\ call' \in [Calls -> Call] /\ \A d \in Calls \ {c} : call'[d] = call[d]
        /\ call'[c].pc = "done" /\ call'[c].prog = p /\ call'[c].outcome = "value"
    BY <1>1, <2>1 DEF TypeOK, Call, Outcomes
  <2>3. audit' \in [Calls -> AuditLines] /\ \A d \in Calls \ {c} : audit'[d] = audit[d]
    BY <1>5, <2>1, AuditKeeps DEF Lines
  <2>4. ~HasWrite(p) /\ p.kind # "audited"
    <3>1. Len(p.steps) = 0
      BY <1>6
    <3> QED
      BY <1>6, <3>1, HasWriteIsWritesAt, AuditedPrograms
  <2>5. Good(c)'
    BY <1>2, <1>3, <1>4, <2>2, <2>4 DEF Good, Linked, Counted, InOrder, Truthful, Logged, Running
  <2>6. TypeOK'
    BY <1>1, <1>4, <2>2, <2>3 DEF TypeOK, AuditLines, Running
  <2> QED
    BY <1>3, <2>2, <2>3, <2>5, <2>6, Together DEF Others
<1>7. CASE p.steps # <<>>
  <2> DEFINE begun == [pc |-> "next", prog |-> p, at |-> 1, attempt |-> 1, left |-> 0, proof |-> "none"]
  <2>1. /\ call' = [call EXCEPT ![c] = begun]
        /\ IF p.kind = "audited" THEN Audit(c, "attempt") ELSE audit' = audit
    BY <1>7 DEF Start
  <2>2. begun \in Call
    BY Numbers DEF Call
  <2>3. /\ call' \in [Calls -> Call] /\ \A d \in Calls \ {c} : call'[d] = call[d]
        /\ call'[c].pc = "next" /\ call'[c].prog = p /\ call'[c].at = 1
    BY <1>1, <2>1, <2>2 DEF TypeOK
  <2>4. /\ audit' \in [Calls -> AuditLines] /\ \A d \in Calls \ {c} : audit'[d] = audit[d]
        /\ p.kind = "audited" => Extended(audit[c], "attempt", audit'[c])
    <3>1. CASE p.kind = "audited"
      BY <1>5, <2>1, <3>1, AuditKeeps DEF Lines
    <3>2. CASE p.kind # "audited"
      BY <1>5, <2>1, <3>2
    <3> QED
      BY <3>1, <3>2
  <2>5. 1 \in DOMAIN p.steps
    <3>1. p.steps \in Seq(Steps) /\ Len(p.steps) \in 0 .. 6
      BY ProgramsAreShaped DEF Shaped
    <3>2. Len(p.steps) # 0
      BY <1>7, <3>1, EmptySeq
    <3> QED
      BY <3>1, <3>2, LenProperties
  <2>6. Good(c)'
    <3>1. Linked(c)' /\ Counted(c)' /\ InOrder(c)' /\ Truthful(c)'
      BY <1>2, <1>3, <2>3 DEF Linked, Counted, InOrder, Truthful, Running
    <3>2. Logged(c)'
      <4>1. audit[c].lines = <<>> /\ audit[c].lost = 0 /\ Append(<<>>, "attempt") = <<"attempt">>
        BY <1>2 DEF NoAudit
      <4>2. p.kind = "audited" => Attempted(audit'[c])
        BY <2>4, <4>1 DEF Extended, Attempted
      <4> QED
        BY <2>3, <4>2 DEF Logged
    <3> QED
      BY <1>4, <3>1, <3>2 DEF Good
  <2>7. TypeOK'
    BY <1>1, <1>4, <2>3, <2>4, <2>5 DEF TypeOK, AuditLines, Running
  <2> QED
    BY <1>3, <2>3, <2>4, <2>6, <2>7, Together DEF Others
<1> QED
  BY <1>6, <1>7

(* A call is refused before it sends anything.                             *)
LEMMA RefuseInductive == ASSUME Inductive, NEW c \in Calls, Refuse(c) PROVE Inductive'
<1>1. Running(c) /\ Released(c)
  BY IdleIsReleased DEF Refuse, Running
<1> QED
  BY <1>1, EndKeeps DEF Refuse, Outcomes

(* A lookup is answered from the cache.                                    *)
LEMMA SkipLookupInductive == ASSUME Inductive, NEW c \in Calls, SkipLookup(c) PROVE Inductive'
<1>1. Running(c) /\ Released(c)
  BY IdleIsReleased DEF SkipLookup, Running
<1>2. TypeOK
  BY DEF Inductive
<1>3. ~WritesAt(call[c].prog, call[c].at) /\ call[c].proof \in {"none", "verified", "unverified"}
  BY <1>1, <1>2, RunningCalls, StepsOfPrograms DEF SkipLookup, Step
<1> QED
  BY <1>1, <1>3, EndKeeps, AdvanceKeeps DEF SkipLookup, Outcomes

(* A question to the user.                                                 *)
LEMMA AskUserInductive == ASSUME Inductive, NEW c \in Calls, AskUser(c) PROVE Inductive'
<1>1. Running(c) /\ Released(c) /\ TypeOK
  BY IdleIsReleased DEF AskUser, Running, Inductive
<1>2. Moved(c, "asking", call[c].at)
  BY <1>1, SamePlace DEF AskUser
<1>3. call[c].at <= Len(call[c].prog.steps) /\ call[c].pc # "waiting" /\ call[c].prog.steps[call[c].at].as = "ask"
  BY <1>1, PlaceInProgram DEF AskUser, Step
<1> QED
  BY <1>1, <1>2, <1>3, MovedKeeps DEF AskUser

(* The next attempt of with_retries.                                       *)
LEMMA AgainInductive == ASSUME Inductive, NEW c \in Calls, Again(c) PROVE Inductive'
<1>1. Running(c) /\ Released(c) /\ TypeOK
  BY IdleIsReleased DEF Again, Running, Inductive
<1>2. Moved(c, "next", call[c].at)
  BY <1>1, SamePlace DEF Again
<1>3. call[c].at <= Len(call[c].prog.steps) /\ call[c].pc # "waiting"
  BY <1>1, PlaceInProgram DEF Again
<1> QED
  BY <1>1, <1>2, <1>3, MovedKeeps DEF Again

(* The answer of the user.                                                 *)
LEMMA UserAnswersInductive == ASSUME Inductive, NEW c \in Calls, UserAnswers(c) PROVE Inductive'
<1>1. Running(c) /\ Released(c) /\ TypeOK /\ Good(c)
  BY IdleIsReleased DEF UserAnswers, Running, Inductive
<1>2. ~WritesAt(call[c].prog, call[c].at) /\ call[c].proof \in {"none", "verified", "unverified"}
  BY <1>1, RunningCalls DEF UserAnswers, Good, Linked, Step, WritesAt
<1> QED
  BY <1>1, <1>2, EndKeeps, AdvanceKeeps DEF UserAnswers, Outcomes

(* A call that waits runs, and its operation is that of its step.          *)
LEMMA WaitingCalls ==
  ASSUME Inductive, NEW c \in Calls, call[c].pc = "waiting"
  PROVE  /\ Running(c) /\ conn[c].op = Step(c).op /\ conn[c].op \in Operation
         /\ conn[c].op.writes <=> WritesAt(call[c].prog, call[c].at)
         /\ conn[c].op.writes => ~conn[c].op.backoff
<1>1. TypeOK /\ Good(c) /\ Running(c)
  BY DEF Inductive, Running
<1>2. call[c].prog \in Programs /\ call[c].at \in 1 .. Len(call[c].prog.steps)
  BY <1>1, RunningCalls
<1>3. conn[c].op = Step(c).op /\ Step(c).as # "ask"
  BY <1>1 DEF Good, Linked
<1>4. conn[c].op \in Operation
  BY <1>2, <1>3, StepsOfPrograms DEF Step
<1>5. conn[c].op.writes <=> WritesAt(call[c].prog, call[c].at)
  BY <1>3 DEF Step, WritesAt
<1>6. WritesAt(call[c].prog, call[c].at) => conn[c].op \in WriteOps
  BY <1>2, <1>3, StepsOfPrograms DEF Step
<1> QED
  BY <1>1, <1>3, <1>4, <1>5, <1>6 DEF WriteOps

(* A call that waits for its operation, while the operation goes on.       *)
LEMMA WaitingKeeps ==
  ASSUME Inductive, NEW c \in Calls, call[c].pc = "waiting", UNCHANGED callVars, NetTypeOK',
         \A d \in Calls \ {c} : /\ conn'[d] = conn[d] /\ sent'[d] = sent[d]
                                /\ applied'[d] = applied[d] /\ stray'[d] = stray[d],
         conn'[c].pc # "idle", conn'[c].op = conn[c].op,
         conn'[c].pc = "sleeping" => conn[c].op.backoff,
         sent'[c] = sent[c], applied'[c] = applied[c] \/ applied'[c] = applied[c] + 1,
         conn'[c].pc = "returned" /\ conn'[c].result = Value /\ conn[c].op.writes => applied'[c] = 1,
         Counted(c)', Paced(c)'
  PROVE  Inductive'
<1>1. TypeOK /\ Good(c) /\ Running(c) /\ call' = call /\ audit' = audit
  BY DEF Inductive, Running, callVars
<1>2. TypeOK'
  BY <1>1 DEF TypeOK, Running
<1>3. Linked(c)'
  BY <1>1 DEF Linked, Good, Step
<1>4. applied[c] = 1 => applied'[c] = 1
  <2>1. sent'[c] <= 1 /\ applied'[c] + stray'[c] <= sent'[c]
    BY DEF Counted
  <2>2. sent'[c] \in Nat /\ applied'[c] \in Nat /\ stray'[c] \in Nat
    BY <1>2 DEF TypeOK, NetTypeOK
  <2> QED
    BY <2>1, <2>2
<1>5. InOrder(c)'
  <2>1. conn[c].op.writes <=> WritesAt(call[c].prog, call[c].at)
    BY WaitingCalls
  <2> QED
    BY <1>1, <1>4, <2>1 DEF InOrder, Good, Running
<1>6. Truthful(c)' /\ Logged(c)'
  BY <1>1 DEF Truthful, Logged, Good
<1> QED
  BY <1>1, <1>2, <1>3, <1>5, <1>6, Together DEF Good, Others

(* Pumble carries out the request on the wire.                             *)
LEMMA ServeInductive == ASSUME Inductive, NEW c \in Calls, Serve(c), UNCHANGED callVars PROVE Inductive'
<1>1. TypeOK /\ Good(c) /\ call[c].pc = "waiting" /\ conn[c].pc = "wire" /\ ~conn[c].served
  BY DEF Inductive, Good, Linked, Serve
<1> DEFINE n == conn[c]
           m == [n EXCEPT !.served = TRUE]
           Wire == [pc: {"wire"}, op: Operation, served: BOOLEAN, tries: Tries, age: 0 .. MaxElapsed + 1]
<1>2. n \in Wire
  BY <1>1 DEF TypeOK, NetTypeOK, Conn, NoConn
<1>3. /\ m \in Wire /\ m.pc = "wire" /\ m.op = n.op /\ m.tries = n.tries /\ m.age = n.age
      /\ m.served = TRUE
  BY <1>2
<1>4. m \in Conn
  BY <1>3 DEF Conn
<1>5. conn' = [conn EXCEPT ![c] = m]
  BY DEF Serve
<1> HIDE DEF m
<1>6. conn \in [Calls -> Conn] /\ sent \in [Calls -> Nat] /\ applied \in [Calls -> Nat] /\ stray \in [Calls -> Nat]
  BY <1>1 DEF TypeOK, NetTypeOK
<1>7. /\ conn' \in [Calls -> Conn] /\ conn'[c] = m /\ \A d \in Calls \ {c} : conn'[d] = conn[d]
      /\ sent' = sent /\ stray' = stray /\ open' = open
  BY <1>4, <1>5, <1>6 DEF Serve
<1>8. /\ applied' \in [Calls -> Nat] /\ \A d \in Calls \ {c} : applied'[d] = applied[d]
      /\ applied'[c] = IF n.op.writes THEN applied[c] + 1 ELSE applied[c]
  BY <1>6 DEF Serve, Count
<1>9. /\ conn'[c].pc = "wire" /\ conn'[c].op = n.op /\ conn'[c].served
      /\ conn'[c].tries = n.tries /\ conn'[c].age = n.age
  BY <1>3, <1>7
<1>10. NetTypeOK'
  BY <1>1, <1>6, <1>7, <1>8 DEF TypeOK, NetTypeOK
<1>11. Paced(c)'
  BY <1>1, <1>9 DEF Paced, Good
<1>12. Counted(c)'
  <2>1. Counted(c)
    BY <1>1 DEF Good
  <2>2. sent[c] \in Nat /\ applied[c] \in Nat /\ stray[c] \in Nat
    BY <1>6
  <2>3. call'[c].pc = "waiting"
    BY <1>1 DEF callVars
  <2>4. CASE n.op.writes
    BY <1>1, <1>7, <1>8, <1>9, <2>1, <2>2, <2>3, <2>4 DEF Counted
  <2>5. CASE ~n.op.writes
    BY <1>1, <1>7, <1>8, <1>9, <2>1, <2>3, <2>5 DEF Counted
  <2> QED
    BY <2>4, <2>5
<1>13. applied'[c] = applied[c] \/ applied'[c] = applied[c] + 1
  BY <1>8
<1> HIDE DEF m, n
<1> QED
  BY <1>1, <1>7, <1>8, <1>9, <1>10, <1>11, <1>12, <1>13, WaitingKeeps DEF n

(* Pumble carries out a request nobody waits for any more.                 *)
LEMMA ServeStrayInductive == ASSUME Inductive, NEW c \in Calls, ServeStray(c), UNCHANGED callVars PROVE Inductive'
<1>1. TypeOK /\ Good(c) /\ stray[c] > 0 /\ call' = call /\ audit' = audit /\ conn' = conn /\ sent' = sent
  BY DEF Inductive, ServeStray, callVars
<1>2. sent \in [Calls -> Nat] /\ applied \in [Calls -> Nat] /\ stray \in [Calls -> Nat]
  BY <1>1 DEF TypeOK, NetTypeOK
<1>3. /\ stray' \in [Calls -> Nat] /\ applied' \in [Calls -> Nat]
      /\ stray'[c] = stray[c] - 1 /\ applied'[c] = applied[c] + 1
      /\ \A d \in Calls \ {c} : stray'[d] = stray[d] /\ applied'[d] = applied[d]
  BY <1>1, <1>2 DEF ServeStray
<1>4. Counted(c) /\ sent[c] <= 1 /\ applied[c] + stray[c] <= sent[c]
  BY <1>1 DEF Good, Counted
<1>5. applied[c] = 0 /\ stray[c] = 1 /\ sent[c] = 1
  <2>1. sent[c] \in Nat /\ applied[c] \in Nat /\ stray[c] \in Nat
    BY <1>2
  <2> QED
    BY <1>1, <1>4, <2>1
<1>6. applied'[c] = 1 /\ stray'[c] = 0 /\ sent'[c] = 1
  BY <1>1, <1>3, <1>5
<1>7. ~(conn[c].pc = "wire" /\ conn[c].op.writes)
  BY <1>4, <1>5 DEF Counted
<1>8. Good(c)'
  <2>1. Linked(c)' /\ Logged(c)' /\ Paced(c)'
    BY <1>1 DEF Good, Linked, Logged, Paced, Step
  <2>2. Counted(c)'
    BY <1>1, <1>4, <1>5, <1>6, <1>7 DEF Counted
  <2>3. InOrder(c)' /\ Truthful(c)'
    BY <1>1, <1>6 DEF Good, InOrder, Truthful, Running
  <2> QED
    BY <2>1, <2>2, <2>3 DEF Good
<1>9. TypeOK'
  <2>1. NetTypeOK'
    BY <1>1, <1>2, <1>3 DEF TypeOK, NetTypeOK, ServeStray
  <2> QED
    BY <1>1, <2>1 DEF TypeOK, Running
<1> QED
  BY <1>1, <1>3, <1>8, <1>9, Together DEF Others
(* A request that is given up on may still arrive, once.                   *)
LEMMA GiveUpKeeps ==
  ASSUME Inductive, NEW c \in Calls, GiveUp(c) \/ UNCHANGED stray
  PROVE  /\ stray' \in [Calls -> Nat] /\ \A d \in Calls \ {c} : stray'[d] = stray[d]
         /\ applied[c] + stray'[c] <= sent[c] /\ sent[c] <= 1
<1>1. Counted(c) /\ stray \in [Calls -> Nat] /\ applied \in [Calls -> Nat] /\ sent \in [Calls -> Nat]
  BY DEF Inductive, Good, TypeOK, NetTypeOK
<1>2. applied[c] + stray[c] <= sent[c] /\ sent[c] <= 1
  BY <1>1 DEF Counted
<1>3. CASE UNCHANGED stray
  BY <1>1, <1>2, <1>3
<1>4. CASE GiveUp(c) /\ conn[c].pc = "wire" /\ ~conn[c].served /\ conn[c].op.writes
  <2>1. stray' = [stray EXCEPT ![c] = stray[c] + 1]
    BY <1>4 DEF GiveUp, Count
  <2>2. sent[c] = 1 /\ stray[c] = 0 /\ applied[c] = 0
    BY <1>1, <1>4 DEF Counted
  <2> QED
    BY <1>1, <2>1, <2>2
<1>5. CASE GiveUp(c) /\ ~(conn[c].pc = "wire" /\ ~conn[c].served /\ conn[c].op.writes)
  <2>1. stray' = [stray EXCEPT ![c] = stray[c]]
    BY <1>5 DEF GiveUp, Count
  <2> QED
    BY <1>1, <1>2, <2>1
<1> QED
  BY <1>3, <1>4, <1>5

(* Asked for or computed, a sleep takes a tick or longer.                  *)
LEMMA SleepsArePositive ==
  ASSUME NEW tries \in Tries, NEW asked \in Nat, NEW s \in Sleeps(tries, asked)
  PROVE  s \in Nat \ {0}
<1>1. CASE asked > 0
  BY <1>1 DEF Sleeps
<1>2. CASE ~(asked > 0)
  <2>1. PICK j \in {0, 1} : s = Min({MaxInterval, Interval[tries] + j})
    BY <1>2 DEF Sleeps
  <2>2. Interval[tries] \in Nat \ {0} /\ MaxInterval \in Nat \ {0}
    BY Numbers DEF Tries
  <2>3. Interval[tries] + j \in Nat \ {0}
    BY <2>2
  <2> QED
    BY <2>1, <2>2, <2>3, MinOfTwo
<1> QED
  BY <1>1, <1>2

(* A request that ends leads to a sleep of its operation or to its result. *)
LEMMA AfterFailureKeeps ==
  ASSUME Inductive, NEW c \in Calls, conn[c].pc = "wire", NEW result \in Result,
         NEW retryable, NEW asked \in Nat, AfterFailure(c, result, retryable, asked)
  PROVE  /\ conn' \in [Calls -> Conn] /\ \A d \in Calls \ {c} : conn'[d] = conn[d]
         /\ conn'[c].op = conn[c].op
         /\ \/ conn'[c].pc = "sleeping" /\ conn[c].op.backoff
            \/ conn'[c].pc = "returned" /\ conn'[c].result = result
         /\ Paced(c)'
<1>1. TypeOK /\ Paced(c) /\ conn \in [Calls -> Conn]
  BY DEF Inductive, Good, TypeOK, NetTypeOK
<1> DEFINE n == conn[c]
<1>2. /\ n.op \in Operation /\ n.tries \in Tries /\ n.age \in 0 .. MaxElapsed + 1
      /\ n.tries <= n.age + 1
  BY <1>1, OperationsInProgress DEF Paced
<1>3. CASE n.op.backoff /\ retryable /\ n.age <= MaxElapsed
  <2>1. PICK s \in Sleeps(n.tries, asked) : conn' = [conn EXCEPT ![c] =
            [pc |-> "sleeping", op |-> n.op, tries |-> n.tries, age |-> n.age, left |-> s]]
    BY <1>3 DEF AfterFailure
  <2>2. s \in Nat \ {0}
    BY <1>2, SleepsArePositive
  <2> DEFINE m == [pc |-> "sleeping", op |-> n.op, tries |-> n.tries, age |-> n.age, left |-> s]
  <2>3. m \in Conn
    BY <1>2, <2>2 DEF Conn
  <2>4. m.pc = "sleeping" /\ m.op = n.op /\ m.tries = n.tries /\ m.age = n.age /\ m.left = s
    OBVIOUS
  <2>5. conn' = [conn EXCEPT ![c] = m]
    BY <2>1
  <2> HIDE DEF m
  <2>6. conn' \in [Calls -> Conn] /\ conn'[c] = m /\ \A d \in Calls \ {c} : conn'[d] = conn[d]
    BY <1>1, <2>3, <2>5
  <2>8. n.tries \in Nat /\ n.age \in Nat
    BY <1>2, Numbers DEF Tries
  <2>7. n.tries <= MaxElapsed + 1 /\ s # 0
    <3> HIDE DEF n
    <3> QED
      BY <1>2, <1>3, <2>2, <2>8, Numbers
  <2> QED
    BY <1>2, <1>3, <2>4, <2>6, <2>7 DEF Paced
<1>4. CASE ~(n.op.backoff /\ retryable /\ n.age <= MaxElapsed)
  <2> DEFINE m == Returned(n.op, result)
  <2>1. conn' = [conn EXCEPT ![c] = m]
    BY <1>4 DEF AfterFailure
  <2>2. m \in Conn /\ m.pc = "returned" /\ m.op = n.op /\ m.result = result
    BY <1>2 DEF Conn, Returned
  <2> HIDE DEF m
  <2>3. conn' \in [Calls -> Conn] /\ conn'[c] = m /\ \A d \in Calls \ {c} : conn'[d] = conn[d]
    BY <1>1, <2>1, <2>2
  <2> QED
    BY <2>2, <2>3 DEF Paced
<1> QED
  BY <1>3, <1>4

(* What an answer and a broken request have in common.                     *)
LEMMA RequestEnds ==
  ASSUME Inductive, NEW c \in Calls, conn[c].pc = "wire", UNCHANGED callVars,
         NEW result \in Result, NEW retryable, NEW asked \in Nat,
         AfterFailure(c, result, retryable, asked), GiveUp(c) \/ UNCHANGED stray,
         UNCHANGED <<sent, applied, open>>, result = Value => conn[c].served
  PROVE  Inductive'
<1>1. TypeOK /\ Counted(c) /\ call[c].pc = "waiting" /\ call' = call
  BY DEF Inductive, Good, Linked, callVars
<1>2. /\ conn' \in [Calls -> Conn] /\ \A d \in Calls \ {c} : conn'[d] = conn[d]
      /\ conn'[c].op = conn[c].op
      /\ \/ conn'[c].pc = "sleeping" /\ conn[c].op.backoff
         \/ conn'[c].pc = "returned" /\ conn'[c].result = result
      /\ Paced(c)'
  BY AfterFailureKeeps
<1>3. /\ stray' \in [Calls -> Nat] /\ \A d \in Calls \ {c} : stray'[d] = stray[d]
      /\ applied[c] + stray'[c] <= sent[c] /\ sent[c] <= 1
  BY GiveUpKeeps
<1>4. NetTypeOK'
  BY <1>1, <1>2, <1>3 DEF TypeOK, NetTypeOK
<1>5. Counted(c)'
  BY <1>1, <1>2, <1>3 DEF Counted
<1>6. conn'[c].pc = "returned" /\ conn'[c].result = Value /\ conn[c].op.writes => applied[c] = 1
  BY <1>1, <1>2 DEF Counted
<1> QED
  BY <1>1, <1>2, <1>3, <1>4, <1>5, <1>6, WaitingKeeps

(* A response arrives.                                                     *)
LEMMA AnswerInductive == ASSUME Inductive, NEW c \in Calls, Answer(c), UNCHANGED callVars PROVE Inductive'
<1>1. PICK status \in Statuses, parses \in BOOLEAN, asked \in RetryAfters \cup {0} :
        /\ (status = "ok") => conn[c].served
        /\ AfterFailure(c, Judged(conn[c].op, status, parses), status \in conn[c].op.retried, asked)
        /\ IF status \in Refusals THEN UNCHANGED stray ELSE GiveUp(c)
  BY DEF Answer
<1>2. Judged(conn[c].op, status, parses) \in Result
  BY DEF Judged, Result, Value
<1>3. Judged(conn[c].op, status, parses) = Value => status = "ok"
  BY DEF Judged, Value
<1>4. asked \in Nat
  BY Numbers
<1>5. conn[c].pc = "wire" /\ UNCHANGED <<sent, applied, open>> /\ (GiveUp(c) \/ UNCHANGED stray)
  BY <1>1 DEF Answer
<1> QED
  BY <1>1, <1>2, <1>3, <1>4, <1>5, RequestEnds

(* None does.                                                              *)
LEMMA BreakInductive == ASSUME Inductive, NEW c \in Calls, Break(c), UNCHANGED callVars PROVE Inductive'
<1>1. PICK kind \in {"transport", "protocol"} : AfterFailure(c, [kind |-> kind], kind = "transport", 0)
  BY DEF Break
<1>2. [kind |-> kind] \in Result /\ [kind |-> kind] # Value
  BY DEF Result, Value
<1>3. conn[c].pc = "wire" /\ UNCHANGED <<sent, applied, open>> /\ GiveUp(c)
  BY DEF Break
<1> QED
  BY <1>1, <1>2, <1>3, RequestEnds
(* A request that leaves is on the wire, or it failed at once.             *)
LEMMA LeaveKeeps ==
  ASSUME Inductive, NEW c \in Calls, NEW op \in Operation, NEW tries \in Tries,
         NEW age \in 0 .. MaxElapsed + 1, Leave(c, op, tries, age)
  PROVE  /\ conn' \in [Calls -> Conn] /\ \A d \in Calls \ {c} : conn'[d] = conn[d]
         /\ sent' \in [Calls -> Nat] /\ \A d \in Calls \ {c} : sent'[d] = sent[d]
         /\ conn'[c].op = op
         /\ \/ /\ conn'[c].pc = "wire" /\ ~conn'[c].served
               /\ conn'[c].tries = tries /\ conn'[c].age = age
               /\ sent'[c] = IF op.writes THEN sent[c] + 1 ELSE sent[c]
            \/ conn'[c].pc = "returned" /\ conn'[c].result # Value /\ sent' = sent
<1>1. conn \in [Calls -> Conn] /\ sent \in [Calls -> Nat]
  BY DEF Inductive, TypeOK, NetTypeOK
<1>2. CASE /\ conn' = [conn EXCEPT ![c] = OnWire(op, tries, age)]
           /\ sent' = [sent EXCEPT ![c] = Count(@, op)]
  <2> DEFINE m == OnWire(op, tries, age)
  <2>1. m \in Conn /\ m.pc = "wire" /\ m.op = op /\ m.tries = tries /\ m.age = age
    BY DEF OnWire, Conn
  <2>2. ~m.served
    BY Zenon DEF OnWire
  <2>3. conn' = [conn EXCEPT ![c] = m]
    BY <1>2
  <2> HIDE DEF m
  <2>4. conn' \in [Calls -> Conn] /\ conn'[c] = m /\ \A d \in Calls \ {c} : conn'[d] = conn[d]
    BY <1>1, <2>1, <2>3
  <2>5. /\ sent' \in [Calls -> Nat] /\ \A d \in Calls \ {c} : sent'[d] = sent[d]
        /\ sent'[c] = IF op.writes THEN sent[c] + 1 ELSE sent[c]
    BY <1>1, <1>2 DEF Count
  <2> QED
    BY <2>1, <2>2, <2>4, <2>5
<1>3. CASE conn' = [conn EXCEPT ![c] = Returned(op, [kind |-> "local"])] /\ UNCHANGED sent
  <2> DEFINE m == Returned(op, [kind |-> "local"])
  <2>1. m \in Conn /\ m.pc = "returned" /\ m.op = op /\ m.result # Value
    BY DEF Returned, Conn, Result, Value
  <2>2. conn' = [conn EXCEPT ![c] = m]
    BY <1>3
  <2> HIDE DEF m
  <2>3. conn' \in [Calls -> Conn] /\ conn'[c] = m /\ \A d \in Calls \ {c} : conn'[d] = conn[d]
    BY <1>1, <2>1, <2>2
  <2> QED
    BY <1>1, <1>3, <2>1, <2>3
<1> QED
  BY <1>2, <1>3 DEF Leave

(* The next attempt of the generated client: never of a write.             *)
LEMMA ResendInductive == ASSUME Inductive, NEW c \in Calls, Resend(c), UNCHANGED callVars PROVE Inductive'
<1>1. TypeOK /\ Good(c) /\ conn[c].pc = "sleeping" /\ conn[c].left = 0 /\ call[c].pc = "waiting"
  BY DEF Inductive, Good, Linked, Resend
<1> DEFINE n == conn[c]
           tries == Min({n.tries + 1, MaxElapsed + 3})
<1>2. /\ n.op \in Operation /\ n.tries \in Tries /\ n.age \in 0 .. MaxElapsed + 1
      /\ n.tries <= n.age /\ n.tries <= MaxElapsed + 1
  BY <1>1, OperationsInProgress DEF Good, Paced
<1>3. n.op.backoff /\ ~n.op.writes
  BY <1>1, WaitingCalls DEF Good, Linked
<1>4. tries = n.tries + 1 /\ tries \in Tries /\ tries <= n.age + 1
  <2>1. n.tries \in Nat /\ n.tries + 1 <= MaxElapsed + 3 /\ MaxElapsed \in Nat /\ n.tries \in 1 .. MaxElapsed + 1
    BY <1>2, Numbers DEF Tries
  <2>2. tries = n.tries + 1
    BY <2>1, MinOfTwo
  <2> QED
    BY <1>2, <2>1, <2>2 DEF Tries
<1>5. Leave(c, n.op, tries, n.age) /\ applied' = applied /\ stray' = stray /\ open' = open
  BY DEF Resend
<1> HIDE DEF tries, n
<1>6. /\ conn' \in [Calls -> Conn] /\ \A d \in Calls \ {c} : conn'[d] = conn[d]
      /\ sent' \in [Calls -> Nat] /\ \A d \in Calls \ {c} : sent'[d] = sent[d]
      /\ conn'[c].op = n.op
      /\ \/ conn'[c].pc = "wire" /\ conn'[c].tries = tries /\ conn'[c].age = n.age /\ sent'[c] = sent[c]
         \/ conn'[c].pc = "returned" /\ conn'[c].result # Value /\ sent' = sent
  BY <1>2, <1>3, <1>4, <1>5, LeaveKeeps
<1>7. sent'[c] = sent[c] /\ conn'[c].pc \notin {"idle", "sleeping"}
  BY <1>6
<1>8. NetTypeOK'
  BY <1>1, <1>5, <1>6 DEF TypeOK, NetTypeOK
<1>9. Paced(c)'
  BY <1>4, <1>6 DEF Paced
<1>10. Counted(c)'
  BY <1>1, <1>3, <1>5, <1>6, <1>7 DEF Counted, Good, callVars, n
<1> QED
  BY <1>1, <1>3, <1>5, <1>6, <1>7, <1>8, <1>9, <1>10, WaitingKeeps DEF n

(* A step of the program is sent; a write only if none was sent before.    *)
LEMMA RequestInductive == ASSUME Inductive, NEW c \in Calls, Request(c) PROVE Inductive'
<1>1. TypeOK /\ Good(c) /\ Running(c) /\ call[c].pc = "next" /\ Step(c).as # "ask"
  BY DEF Inductive, Request, Running
<1> DEFINE p == call[c].prog
           here == call[c].at
           op == Step(c).op
<1>2. p \in Programs /\ here \in 1 .. Len(p.steps) /\ here \in 1 .. 6
  BY <1>1, RunningCalls
<1>3. op \in Operation /\ (op.writes <=> WritesAt(p, here))
  BY <1>1, <1>2, StepsOfPrograms DEF Step, WritesAt
<1>4. op.writes => \A j \in 1 .. here - 1 : ~WritesAt(p, j)
  BY <1>2, <1>3, StepsOfPrograms
<1>5. (\A j \in 1 .. here - 1 : ~WritesAt(p, j)) => sent[c] = 0
  BY <1>1, NothingSentBefore
<1>6. Leave(c, op, 1, 0) /\ applied' = applied /\ stray' = stray /\ open' = open /\ audit' = audit
  BY DEF Request, Invoke
<1>7. Moved(c, "waiting", here)
  BY <1>1, SamePlace DEF Request
<1>8. 1 \in Tries /\ 0 \in 0 .. MaxElapsed + 1
  BY Numbers DEF Tries
<1> HIDE DEF op
<1>9. /\ conn' \in [Calls -> Conn] /\ \A d \in Calls \ {c} : conn'[d] = conn[d]
      /\ sent' \in [Calls -> Nat] /\ \A d \in Calls \ {c} : sent'[d] = sent[d]
      /\ conn'[c].op = op
      /\ \/ /\ conn'[c].pc = "wire" /\ ~conn'[c].served
            /\ conn'[c].tries = 1 /\ conn'[c].age = 0
            /\ sent'[c] = IF op.writes THEN sent[c] + 1 ELSE sent[c]
         \/ conn'[c].pc = "returned" /\ conn'[c].result # Value /\ sent' = sent
  BY <1>3, <1>6, <1>8, LeaveKeeps
<1>10. NetTypeOK'
  BY <1>1, <1>6, <1>9 DEF TypeOK, NetTypeOK
<1>11. /\ call'[c].pc = "waiting" /\ call'[c].prog = p /\ call'[c].at = here
       /\ call' \in [Calls -> Call] /\ \A d \in Calls \ {c} : call'[d] = call[d]
  BY <1>7 DEF Moved
<1>12. TypeOK'
  <2>1. here \in DOMAIN p.steps
    BY <1>1 DEF TypeOK
  <2> QED
    BY <1>1, <1>6, <1>10, <1>11, <2>1 DEF TypeOK, Running
<1>13. Linked(c)' /\ Paced(c)'
  <2>1. conn'[c].pc \in {"wire", "returned"} /\ (conn'[c].pc = "wire" => conn'[c].tries <= conn'[c].age + 1)
    BY <1>9
  <2>2. Step(c)' = Step(c) /\ conn'[c].op = Step(c).op
    BY <1>9, <1>11 DEF Step, op
  <2> QED
    BY <1>1, <1>11, <2>1, <2>2 DEF Linked, Paced
<1>14. Counted(c)'
  <2>1. Counted(c) /\ sent[c] \in Nat /\ applied[c] \in Nat /\ stray[c] \in Nat
    BY <1>1 DEF Good, TypeOK, NetTypeOK
  <2>2. CASE op.writes
    <3>1. sent[c] = 0
      BY <1>4, <1>5, <2>2
    <3>2. applied[c] = 0 /\ stray[c] = 0
      BY <2>1, <3>1 DEF Counted
    <3> QED
      BY <1>6, <1>9, <1>11, <2>2, <3>1, <3>2 DEF Counted
  <2>3. CASE ~op.writes
    BY <1>6, <1>9, <1>11, <2>1, <2>3 DEF Counted
  <2> QED
    BY <2>2, <2>3
<1>15. InOrder(c)'
  <2>1. ASSUME \A i \in 1 .. here : ~WritesAt(p, i)
        PROVE  sent'[c] = 0
    <3>1. sent[c] = 0 /\ ~op.writes
      BY <1>2, <1>3, <1>5, <2>1
    <3> QED
      BY <1>9, <3>1
  <2>2. \A i \in 1 .. here - 1 : WritesAt(p, i) => applied'[c] = 1
    BY <1>1, <1>6 DEF Good, InOrder
  <2> HIDE DEF p, here
  <2> QED
    BY <1>9, <1>11, <2>1, <2>2 DEF InOrder
<1>16. Truthful(c)' /\ Logged(c)'
  BY <1>1, <1>6, <1>11 DEF Truthful, Logged, Good
<1> QED
  BY <1>6, <1>9, <1>11, <1>12, <1>13, <1>14, <1>15, <1>16, Together DEF Good, Others

(* After an operation that nothing guards: on, again, or out.              *)
LEMMA AfterBareKeeps ==
  ASSUME Inductive, NEW c \in Calls, call[c].pc = "waiting", conn[c].pc = "returned", Released(c),
         Step(c).as = "bare", AfterBare(c, conn[c].result)
  PROVE  Inductive'
<1>1. TypeOK /\ Good(c) /\ Running(c)
  BY DEF Inductive, Running
<1> DEFINE p == call[c].prog
           here == call[c].at
<1>2. /\ p \in Programs /\ here \in 1 .. Len(p.steps) /\ here \in 1 .. 6
      /\ call[c].attempt \in 1 .. MaxAttempts /\ call[c].proof \in {"none", "verified", "unverified"}
      /\ call[c] = [pc |-> call[c].pc, prog |-> p, at |-> here, attempt |-> call[c].attempt,
                    left |-> call[c].left, proof |-> call[c].proof]
  BY <1>1, RunningCalls
<1>3. WritesAt(p, here) => p.kind = "traced"
  BY <1>2, StepsOfPrograms DEF Step
<1>4. \A j \in 1 .. here - 1 : ~WritesAt(p, j)
  BY <1>2, NoWriteBefore DEF Step
<1>5. p.kind # "traced" => sent[c] = 0
  BY <1>1, <1>3, <1>4, NothingSentBefore
<1>6. CASE conn[c].result = Value
  <2>1. Advance(c, call[c].proof)
    BY <1>6 DEF AfterBare
  <2>2. WritesAt(p, here) => applied[c] = 1
    BY <1>1, <1>6 DEF Good, InOrder
  <2> QED
    BY <1>1, <1>2, <2>1, <2>2, AdvanceKeeps
<1>7. CASE conn[c].result # Value /\ p.kind = "retried" /\ call[c].attempt < MaxAttempts /\ Transient(conn[c].result)
  <2>1. PICK delay \in 0 .. MaxDelay :
          /\ call' = [call EXCEPT ![c].pc = "pausing", ![c].left = delay, ![c].attempt = @ + 1]
          /\ UNCHANGED audit
    BY <1>7 DEF AfterBare
  <2> DEFINE k == [pc |-> "pausing", prog |-> p, at |-> here, attempt |-> call[c].attempt + 1,
                   left |-> delay, proof |-> call[c].proof]
  <2>2. call' = [call EXCEPT ![c] = k]
    BY <1>1, <1>2, <2>1 DEF TypeOK
  <2>3. call[c].attempt + 1 \in 1 .. MaxAttempts
    BY <1>2, <1>7, Numbers
  <2>4. k \in Call
    BY <1>2, <2>3 DEF Call
  <2>5. k.pc = "pausing" /\ k.prog = p /\ k.at = here
    OBVIOUS
  <2> HIDE DEF k
  <2>6. Moved(c, "pausing", here)
    BY <1>1, <2>2, <2>4, <2>5 DEF Moved, TypeOK
  <2>7. here <= Len(p.steps) /\ ~WritesAt(p, here)
    BY <1>1, <1>3, <1>7, PlaceInProgram
  <2> QED
    BY <1>1, <2>1, <2>6, <2>7, MovedKeeps
<1>8. CASE conn[c].result # Value /\ ~(p.kind = "retried" /\ call[c].attempt < MaxAttempts /\ Transient(conn[c].result))
  <2>1. Raise(c)
    BY <1>8 DEF AfterBare
  <2> QED
    BY <1>1, <1>5, <2>1, RaiseKeeps
<1> QED
  BY <1>6, <1>7, <1>8

(* The coroutine resumes with its result.                                  *)
LEMMA TakeInductive == ASSUME Inductive, NEW c \in Calls, Take(c) PROVE Inductive'
<1>1. TypeOK /\ Good(c) /\ Running(c) /\ call[c].pc = "waiting" /\ conn[c].pc = "returned"
  BY DEF Inductive, Take, Running
<1>2. Released(c)
  <2>1. stray \in [Calls -> Nat] /\ applied[c] + stray[c] <= sent[c]
    BY <1>1 DEF TypeOK, NetTypeOK, Good, Counted
  <2> QED
    BY <2>1 DEF Take, Collect, Released
<1> DEFINE p == call[c].prog
           here == call[c].at
           ok == conn[c].result = Value
<1>3. /\ p \in Programs /\ here \in 1 .. Len(p.steps)
      /\ call[c].proof \in {"none", "verified", "unverified"}
  BY <1>1, RunningCalls
<1>4. WritesAt(p, here) => Step(c).as \in {"main", "bare"}
  BY <1>3, StepsOfPrograms DEF Step
<1>5. Step(c).as # "proof" => \A j \in 1 .. here - 1 : ~WritesAt(p, j)
  BY <1>3, NoWriteBefore DEF Step
<1>6. CASE Step(c).as = "lookup" /\ AfterLookup(c, ok)
  <2>1. ~WritesAt(p, here) /\ sent[c] = 0
    BY <1>1, <1>4, <1>5, <1>6, NothingSentBefore
  <2> QED
    BY <1>1, <1>2, <1>3, <1>6, <2>1, AdvanceKeeps, EndKeeps, RaiseKeeps DEF AfterLookup, Outcomes
<1>7. CASE Step(c).as = "main" /\ IF ok THEN Advance(c, call[c].proof) ELSE End(c, "failure")
  <2>1. ok /\ WritesAt(p, here) => applied[c] = 1
    BY <1>1 DEF Good, InOrder
  <2> QED
    BY <1>1, <1>2, <1>3, <1>7, <2>1, AdvanceKeeps, EndKeeps DEF Outcomes
<1>8. CASE Step(c).as = "soft" /\ Advance(c, call[c].proof)
  BY <1>1, <1>2, <1>3, <1>4, <1>8, AdvanceKeeps
<1>9. CASE Step(c).as = "proof" /\ AfterProof(c, ok)
  BY <1>1, <1>2, <1>4, <1>9, AdvanceKeeps DEF AfterProof
<1>10. CASE Step(c).as = "bare" /\ AfterBare(c, conn[c].result)
  BY <1>1, <1>2, <1>10, AfterBareKeeps
<1> QED
  BY <1>6, <1>7, <1>8, <1>9, <1>10 DEF Take

(* A cancellation, at any await.                                           *)
LEMMA CancelInductive == ASSUME Inductive, NEW c \in Calls, Cancel(c) PROVE Inductive'
<1>1. Running(c) /\ End(c, "cancelled")
  BY DEF Cancel, Running
<1>2. CASE call[c].pc = "waiting" /\ Drop(c)
  <2>1. /\ stray' \in [Calls -> Nat] /\ \A d \in Calls \ {c} : stray'[d] = stray[d]
        /\ applied[c] + stray'[c] <= sent[c]
    BY <1>2, GiveUpKeeps DEF Drop
  <2>2. Released(c)
    BY <1>2, <2>1 DEF Released, Drop
  <2> QED
    BY <1>1, <2>2, EndKeeps DEF Outcomes
<1>3. CASE call[c].pc \in {"asking", "pausing"} /\ UNCHANGED netVars
  BY <1>1, <1>3, IdleIsReleased, EndKeeps DEF Outcomes
<1> QED
  BY <1>2, <1>3 DEF Cancel

(* A call that is over makes room for another.                             *)
LEMMA RetireInductive == ASSUME Inductive, NEW c \in Calls, Retire(c) PROVE Inductive'
<1>1. TypeOK /\ Good(c) /\ call[c].pc = "done" /\ stray[c] = 0
  BY DEF Inductive, Retire
<1>2. conn[c].pc = "idle"
  BY <1>1, OperationsInProgress DEF Good, Linked
<1>3. /\ sent' \in [Calls -> Nat] /\ applied' \in [Calls -> Nat]
      /\ sent'[c] = 0 /\ applied'[c] = 0 /\ stray' = stray /\ conn' = conn /\ open' = open
      /\ \A d \in Calls \ {c} : sent'[d] = sent[d] /\ applied'[d] = applied[d]
  BY <1>1 DEF Retire, TypeOK, NetTypeOK
<1>4. /\ call' \in [Calls -> Call] /\ call'[c] = NoCall /\ \A d \in Calls \ {c} : call'[d] = call[d]
  BY <1>1 DEF Retire, TypeOK, Call
<1>5. NoAudit \in AuditLines
  BY DEF NoAudit, AuditLines
<1>6. /\ audit' \in [Calls -> AuditLines] /\ audit'[c] = NoAudit
      /\ \A d \in Calls \ {c} : audit'[d] = audit[d]
  BY <1>1, <1>5 DEF Retire, TypeOK, AuditLines
<1>7. call'[c].pc = "idle"
  BY <1>4 DEF NoCall
<1>8. TypeOK'
  <2>1. NetTypeOK'
    BY <1>1, <1>3 DEF TypeOK, NetTypeOK
  <2> QED
    BY <1>1, <1>4, <1>6, <1>7, <2>1 DEF TypeOK, AuditLines, Running
<1>9. Good(c)'
  BY <1>1, <1>2, <1>3, <1>6, <1>7
     DEF Good, Linked, Counted, InOrder, Truthful, Logged, Paced, Running
<1> QED
  BY <1>3, <1>4, <1>6, <1>8, <1>9, Together DEF Others

(* Nothing changes but whether the client is open.                         *)
LEMMA NothingMoves ==
  ASSUME Inductive, UNCHANGED <<conn, sent, applied, stray, call, audit>>, open' \in BOOLEAN
  PROVE  Inductive'
<1>1. /\ call' = call /\ audit' = audit /\ conn' = conn /\ sent' = sent /\ applied' = applied
      /\ stray' = stray /\ open' \in BOOLEAN
  OBVIOUS
<1>2. TypeOK'
  BY <1>1 DEF Inductive, TypeOK, NetTypeOK, Running
<1>3. ASSUME NEW c \in Calls PROVE Good(c)'
  <2>1. Good(c)
    BY DEF Inductive
  <2>2. /\ Linked(c) <=> Linked(c)'
        /\ Counted(c) <=> Counted(c)'
        /\ InOrder(c) <=> InOrder(c)'
        /\ Truthful(c) <=> Truthful(c)'
        /\ Logged(c) <=> Logged(c)'
        /\ Paced(c) <=> Paced(c)'
    BY <1>1 DEF Linked, Counted, InOrder, Truthful, Logged, Paced, Step, Running
  <2> QED
    BY <2>1, <2>2 DEF Good
<1> QED
  BY <1>2, <1>3 DEF Inductive

(* The client is closed under its calls.                                   *)
LEMMA CloseClientInductive == ASSUME Inductive, CloseClient PROVE Inductive'
<1>1. UNCHANGED <<conn, sent, applied, stray, call, audit>> /\ open' \in BOOLEAN
  BY DEF CloseClient, Close, callVars
<1> QED
  BY <1>1, NothingMoves

(* Growing older changes ages and what is left to sleep, nothing else, and *)
(* a sleep that ends has lasted a tick.                                    *)
LEMMA OlderKeeps ==
  ASSUME Inductive, NEW c \in Calls, NEW m, m = Older(conn[c])
  PROVE  /\ m \in Conn /\ m.pc = conn[c].pc
         /\ m.pc # "idle" => m.op = conn[c].op
         /\ m.pc = "wire" => /\ m.served = conn[c].served
                             /\ m.tries <= m.age + 1
         /\ m.pc = "sleeping" => /\ m.tries <= MaxElapsed + 1 /\ m.tries <= m.age + 1
                                 /\ m.left = 0 => m.tries <= m.age
         /\ m.pc = "returned" => m = conn[c]
<1> DEFINE n == conn[c]
<1>1. TypeOK /\ Paced(c) /\ n \in Conn
  BY DEF Inductive, Good, TypeOK, NetTypeOK
<1>2. ASSUME NEW age \in 0 .. MaxElapsed + 1
      PROVE  /\ Min({age + 1, MaxElapsed + 1}) \in 0 .. MaxElapsed + 1
             /\ Min({age + 1, MaxElapsed + 1}) = IF age + 1 <= MaxElapsed + 1 THEN age + 1 ELSE MaxElapsed + 1
  <2>1. age + 1 \in Nat /\ MaxElapsed + 1 \in Nat /\ MaxElapsed \in Nat
    BY Numbers
  <2> QED
    BY <2>1, MinOfTwo
<1>3. CASE n.pc = "sleeping"
  <2> DEFINE Sleeping == [pc: {"sleeping"}, op: Operation, tries: Tries, age: 0 .. MaxElapsed + 1, left: Nat]
  <2>1. n \in Sleeping
    BY <1>1, <1>3 DEF Conn, NoConn
  <2>2. m = [n EXCEPT !.age = Min({@ + 1, MaxElapsed + 1}), !.left = IF @ = 0 THEN 0 ELSE @ - 1]
    BY <1>3 DEF Older
  <2>3. /\ m \in Sleeping /\ m.pc = "sleeping" /\ m.op = n.op /\ m.tries = n.tries
        /\ m.age = Min({n.age + 1, MaxElapsed + 1}) /\ m.left = IF n.left = 0 THEN 0 ELSE n.left - 1
    <3> DEFINE age == Min({n.age + 1, MaxElapsed + 1})
               left == IF n.left = 0 THEN 0 ELSE n.left - 1
    <3>1. age \in 0 .. MaxElapsed + 1 /\ left \in Nat
      BY <1>2, <2>1
    <3>2. m = [n EXCEPT !.age = age, !.left = left]
      BY <2>2
    <3> HIDE DEF age, left
    <3>3. /\ m \in Sleeping /\ m.pc = "sleeping" /\ m.op = n.op /\ m.tries = n.tries
          /\ m.age = age /\ m.left = left
      BY <2>1, <3>1, <3>2
    <3> QED
      BY <3>3 DEF age, left
  <2>4. /\ n.tries <= MaxElapsed + 1 /\ n.tries <= n.age + 1
        /\ n.left = 0 => n.tries <= n.age
    BY <1>1, <1>3 DEF Paced
  <2>5. n.tries \in Nat /\ n.age \in 0 .. MaxElapsed + 1 /\ MaxElapsed \in Nat
    BY <2>1, Numbers DEF Tries
  <2>6. m.age = IF n.age + 1 <= MaxElapsed + 1 THEN n.age + 1 ELSE MaxElapsed + 1
    BY <1>2, <2>3, <2>5
  <2>7. m.tries <= m.age /\ m.tries <= m.age + 1
    BY <2>3, <2>4, <2>5, <2>6
  <2>8. m \in Conn
    BY <2>3 DEF Conn
  <2> QED
    BY <1>3, <2>3, <2>4, <2>7, <2>8
<1>4. CASE n.pc = "wire" /\ n.op.backoff
  <2> DEFINE Wire == [pc: {"wire"}, op: Operation, served: BOOLEAN, tries: Tries, age: 0 .. MaxElapsed + 1]
  <2>1. n \in Wire
    BY <1>1, <1>4 DEF Conn, NoConn
  <2>2. m = [n EXCEPT !.age = Min({@ + 1, MaxElapsed + 1})]
    BY <1>4 DEF Older
  <2>3. /\ m \in Wire /\ m.pc = "wire" /\ m.op = n.op /\ m.tries = n.tries
        /\ m.age = Min({n.age + 1, MaxElapsed + 1})
    BY <1>2, <2>1, <2>2
  <2>4. m.served = n.served
    BY <2>1, <2>2
  <2>5. n.tries <= n.age + 1
    BY <1>1, <1>4 DEF Paced
  <2>6. n.tries \in Tries /\ n.age \in 0 .. MaxElapsed + 1 /\ MaxElapsed \in Nat
    BY <2>1, Numbers
  <2>7. m.age = IF n.age + 1 <= MaxElapsed + 1 THEN n.age + 1 ELSE MaxElapsed + 1
    BY <1>2, <2>3, <2>6
  <2>8. n.age <= m.age
    BY <2>6, <2>7
  <2>9. m.age \in 0 .. MaxElapsed + 1
    BY <2>3
  <2>10. m.tries <= m.age + 1
    <3>1. \A t, a, b \in Nat : t <= a + 1 /\ a <= b => t <= b + 1
      OBVIOUS
    <3>2. n.tries \in Nat /\ n.age \in Nat /\ m.age \in Nat
      BY <2>6, <2>9 DEF Tries
    <3> QED
      BY <2>3, <2>5, <2>8, <3>1, <3>2
  <2>11. m \in Conn
    BY <2>3 DEF Conn
  <2> QED
    BY <1>4, <2>3, <2>4, <2>10, <2>11
<1>5. CASE ~(n.pc = "sleeping") /\ ~(n.pc = "wire" /\ n.op.backoff)
  <2>1. m = n
    BY <1>5 DEF Older
  <2>2. n.pc = "wire" => n.tries <= n.age + 1
    BY <1>1 DEF Paced
  <2> QED
    BY <1>1, <1>5, <2>1, <2>2
<1> QED
  BY <1>3, <1>4, <1>5

(* Time passes: ages grow, and sleeps are slept.                           *)
LEMMA TickInductive == ASSUME Inductive, Tick PROVE Inductive'
<1>1. TypeOK /\ call \in [Calls -> Call]
  BY DEF Inductive, TypeOK
<1>2. ASSUME NEW c \in Calls
      PROVE  /\ conn'[c] = Older(conn[c]) /\ sent' = sent /\ applied' = applied /\ stray' = stray
             /\ audit' = audit /\ open' = open
             /\ call'[c] \in Call /\ call'[c].pc = call[c].pc
             /\ Running(c) => call'[c].prog = call[c].prog /\ call'[c].at = call[c].at
             /\ call[c].pc \in {"idle", "done"} => call'[c] = call[c]
  <2>1. /\ conn'[c] = Older(conn[c]) /\ sent' = sent /\ applied' = applied /\ stray' = stray
        /\ audit' = audit /\ open' = open
        /\ call'[c] = IF call[c].pc = "pausing" /\ call[c].left > 0 THEN [call[c] EXCEPT !.left = @ - 1]
                      ELSE call[c]
    BY DEF Tick
  <2>2. CASE call[c].pc = "pausing" /\ call[c].left > 0
    <3> DEFINE k == call[c]
               Paused == [pc: {"next", "waiting", "asking", "pausing"}, prog: Programs, at: 1 .. 6,
                   attempt: 1 .. MaxAttempts, left: 0 .. MaxDelay, proof: {"none", "verified", "unverified"}]
    <3>1. k \in Paused
      BY <1>1, <2>2 DEF Call, NoCall
    <3>2. k.left - 1 \in 0 .. MaxDelay
      BY <2>2, <3>1, Numbers
    <3>3. call'[c] = [k EXCEPT !.left = k.left - 1]
      BY <2>1, <2>2
    <3>4. /\ call'[c] \in Paused /\ call'[c].pc = k.pc /\ call'[c].prog = k.prog
          /\ call'[c].at = k.at
      BY <3>1, <3>2, <3>3
    <3> QED
      BY <2>1, <2>2, <3>4 DEF Call
  <2>3. CASE ~(call[c].pc = "pausing" /\ call[c].left > 0)
    BY <1>1, <2>1, <2>3
  <2> QED
    BY <2>2, <2>3
<1>3. ASSUME NEW c \in Calls PROVE Good(c)' /\ conn'[c] \in Conn
  <2> DEFINE n == conn[c]
             m == conn'[c]
  <2>1. /\ m \in Conn /\ m.pc = n.pc
        /\ m.pc # "idle" => m.op = n.op
        /\ m.pc = "wire" => m.served = n.served /\ m.tries <= m.age + 1
        /\ m.pc = "sleeping" => /\ m.tries <= MaxElapsed + 1 /\ m.tries <= m.age + 1
                                /\ m.left = 0 => m.tries <= m.age
        /\ m.pc = "returned" => m = n
    BY <1>2, OlderKeeps
  <2>2. Good(c)
    BY DEF Inductive
  <2>3. call'[c].pc = call[c].pc /\ (call[c].pc \in {"idle", "done"} => call'[c] = call[c])
    BY <1>2
  <2>4. call[c].pc \in {"idle", "done"} \/ Running(c)
    BY <1>1 DEF Call, NoCall, Running
  <2>5. call[c].pc # "idle" => call'[c].prog = call[c].prog
    BY <1>2, <2>3, <2>4
  <2>6. Linked(c)'
    <3>1. Linked(c) /\ (call[c].pc # "idle" /\ call[c].pc # "done" => Step(c)' = Step(c))
      BY <1>2, <2>2, <2>4 DEF Good, Step
    <3> QED
      BY <2>1, <2>3, <3>1 DEF Linked
  <2>7. Counted(c)'
    <3>1. Counted(c) /\ sent' = sent /\ applied' = applied /\ stray' = stray /\ audit' = audit
      BY <1>2, <2>2 DEF Good
    <3> QED
      BY <2>1, <2>3, <3>1 DEF Counted
  <2>8. InOrder(c)'
    <3>1. CASE Running(c)
      BY <1>2, <2>1, <2>2, <2>3, <3>1 DEF InOrder, Good, Running
    <3>2. CASE ~Running(c)
      BY <2>3, <3>2 DEF InOrder, Running
    <3> QED
      BY <3>1, <3>2
  <2>9. Truthful(c)'
    BY <1>2, <2>2, <2>3 DEF Truthful, Good
  <2>10. Logged(c)'
    <3>1. call[c].pc = "done" => call'[c].outcome = call[c].outcome
      BY <2>3
    <3> QED
      BY <1>2, <2>2, <2>3, <2>5, <3>1 DEF Logged, Good
  <2>11. Paced(c)'
    <3>1. /\ m.pc = "wire" => m.tries <= m.age + 1
          /\ m.pc = "sleeping" => /\ m.tries <= MaxElapsed + 1 /\ m.tries <= m.age + 1
                                  /\ m.left = 0 => m.tries <= m.age
      BY <2>1, Zenon
    <3> QED
      BY <3>1 DEF Paced
  <2> QED
    BY <2>1, <2>6, <2>7, <2>8, <2>9, <2>10, <2>11 DEF Good
<1>4. TypeOK'
  <2>1. conn' = [c \in Calls |-> conn'[c]] /\ call' = [c \in Calls |-> call'[c]]
    BY DEF Tick
  <2>2. conn' \in [Calls -> Conn] /\ call' \in [Calls -> Call]
    BY <1>2, <1>3, <2>1
  <2>3. \A c \in Calls : Running(c)' => call'[c].at \in DOMAIN call'[c].prog.steps
    BY <1>1, <1>2 DEF Running, TypeOK
  <2>4. UNCHANGED <<sent, applied, stray, open, audit>>
    BY DEF Tick
  <2> QED
    BY <1>1, <2>2, <2>3, <2>4 DEF TypeOK, NetTypeOK
<1> QED
  BY <1>3, <1>4 DEF Inductive

-----------------------------------------------------------------------------
(* The theorems *)

(* At the start nothing is sent.                                           *)
LEMMA InitInductive == Init => Inductive
<1> SUFFICES ASSUME Init PROVE Inductive
  OBVIOUS
<1>1. ASSUME NEW c \in Calls
      PROVE  /\ conn[c] = NoConn /\ sent[c] = 0 /\ applied[c] = 0 /\ stray[c] = 0
             /\ call[c] = NoCall /\ audit[c] = NoAudit
  BY DEF Init, NetInit
<1>2. NoAudit \in AuditLines /\ NoConn \in Conn /\ NoCall \in Call
  BY DEF NoAudit, AuditLines, Conn, Call
<1>3. TypeOK
  <2>1. NetTypeOK
    BY <1>2 DEF Init, NetInit, NetTypeOK
  <2>2. audit \in [Calls -> AuditLines] /\ call \in [Calls -> Call]
    BY <1>2 DEF Init
  <2>3. \A c \in Calls : ~Running(c)
    BY <1>1 DEF Running, NoCall
  <2> QED
    BY <2>1, <2>2, <2>3 DEF TypeOK, AuditLines
<1>4. ASSUME NEW c \in Calls PROVE Good(c)
  BY <1>1 DEF Good, Linked, Counted, InOrder, Truthful, Logged, Paced, Running, NoConn, NoCall
<1> QED
  BY <1>3, <1>4 DEF Inductive

(* Every step keeps the invariant.                                         *)
LEMMA NextInductive == Inductive /\ [Next]_vars => Inductive'
<1> SUFFICES ASSUME Inductive, [Next]_vars PROVE Inductive'
  OBVIOUS
<1>1. ASSUME NEW c \in Calls, NEW p \in Programs, Start(c, p) PROVE Inductive'
  BY <1>1, StartInductive
<1>2. ASSUME NEW c \in Calls, Refuse(c) \/ UserAnswers(c) \/ Cancel(c) \/ Retire(c) PROVE Inductive'
  BY <1>2, RefuseInductive, UserAnswersInductive, CancelInductive, RetireInductive
<1>3. ASSUME NEW c \in Calls, Proceed(c) PROVE Inductive'
  BY <1>3, SkipLookupInductive, RequestInductive, AskUserInductive, TakeInductive, AgainInductive DEF Proceed
<1>4. ASSUME NEW c \in Calls, Network(c) PROVE Inductive'
  BY <1>4, ServeInductive, ServeStrayInductive, AnswerInductive, BreakInductive, ResendInductive DEF Network
<1>5. CASE Tick
  BY <1>5, TickInductive
<1>6. CASE CloseClient
  BY <1>6, CloseClientInductive
<1>7. CASE UNCHANGED vars
  <2>1. UNCHANGED <<conn, sent, applied, stray, call, audit>> /\ open' = open
    BY <1>7 DEF vars, netVars, callVars
  <2>2. open \in BOOLEAN
    BY DEF Inductive, TypeOK, NetTypeOK
  <2> QED
    BY <2>1, <2>2, NothingMoves
<1> QED
  BY <1>1, <1>2, <1>3, <1>4, <1>5, <1>6, <1>7 DEF Next

(* The invariant behind the other theorems.                                *)
THEOREM CallsAreSound == Spec => []Inductive
<1> QED
  BY InitInductive, NextInductive, PTL DEF Spec

(* Calls, operations in progress and audit lines are what they are meant   *)
(* to be.                                                                  *)
THEOREM TypeCorrect == Spec => []TypeOK
<1>1. Inductive => TypeOK
  BY DEF Inductive
<1> QED
  BY <1>1, CallsAreSound, PTL

(* A write is sent to Pumble once at most and carried out once at most,    *)
(* for every program of the client: whatever is lost, given up, cancelled  *)
(* or retried around it (writes have no retry configuration, and           *)
(* with_retries takes reads only).                                         *)
THEOREM WritesAreSentOnce == Spec => []WritesReachPumbleOnce
<1>1. Inductive => WritesReachPumbleOnce
  <2> SUFFICES ASSUME Inductive, NEW c \in Calls
               PROVE  sent[c] <= 1 /\ applied[c] + stray[c] <= 1
    BY DEF WritesReachPumbleOnce
  <2>1. sent[c] <= 1 /\ applied[c] + stray[c] <= sent[c]
    BY DEF Inductive, Good, Counted
  <2>2. sent[c] \in Nat /\ applied[c] \in Nat /\ stray[c] \in Nat
    BY DEF Inductive, TypeOK, NetTypeOK
  <2> QED
    BY <2>1, <2>2
<1> QED
  BY <1>1, CallsAreSound, PTL

(* A value means that the write was carried out, an exception that none    *)
(* was sent.                                                               *)
THEOREM CallersAreToldTheTruth == Spec => []OutcomesTellTheTruth
<1>1. Inductive => OutcomesTellTheTruth
  BY DEF Inductive, Good, Truthful, OutcomesTellTheTruth
<1> QED
  BY <1>1, CallsAreSound, PTL

(* A raw write is logged before it is sent, and when it has a result, as a *)
(* success only if it was carried out; whichever lines cannot be written,  *)
(* the others are there and right (raw_write.py adapter,                   *)
(* JsonlAuditWriter.write).                                                *)
THEOREM AuditLogIsTrue == Spec => []AuditIsTrue
<1>1. Inductive => AuditIsTrue
  <2> DEFINE told(c) == call[c].pc = "done" /\ call[c].outcome # "cancelled"
  <2> SUFFICES ASSUME Inductive, NEW c \in Calls, call[c].pc # "idle", call[c].prog.kind = "audited"
               PROVE  /\ Len(audit[c].lines) + audit[c].lost >= IF told(c) THEN 2 ELSE 1
                      /\ \A i \in DOMAIN audit[c].lines :
                          \/ audit[c].lines[i] = "attempt" /\ i = 1
                          \/ /\ i = Len(audit[c].lines) /\ call[c].pc = "done"
                             /\ \/ /\ audit[c].lines[i] = "success" /\ call[c].outcome # "failure"
                                   /\ applied[c] = 1
                                \/ audit[c].lines[i] = "failure" /\ call[c].outcome # "value"
    BY DEF AuditIsTrue
  <2>1. TypeOK /\ Truthful(c) /\ Logged(c)
    BY DEF Inductive, Good
  <2>2. call[c].prog \in Programs
    BY <2>1 DEF TypeOK, Call, NoCall
  <2>3. HasWrite(call[c].prog)
    BY <2>2, AuditedPrograms, HasWriteIsWritesAt
  <2>4. CASE told(c)
    <3> DEFINE word == IF call[c].outcome = "value" THEN "success" ELSE "failure"
    <3>1. Completed(audit[c], word)
      BY <2>1, <2>4 DEF Logged
    <3>2. call[c].outcome = "value" => applied[c] = 1
      BY <2>1, <2>3, <2>4 DEF Truthful
    <3>3. word \in {"success", "failure"} /\ (word = "success" <=> call[c].outcome = "value")
      OBVIOUS
    <3> HIDE DEF word
    <3>4. CASE audit[c] = [lines |-> <<"attempt", word>>, lost |-> 0]
      <4>1. /\ Len(audit[c].lines) = 2 /\ audit[c].lost = 0 /\ DOMAIN audit[c].lines = {1, 2}
            /\ audit[c].lines[1] = "attempt" /\ audit[c].lines[2] = word
        BY <3>4
      <4> QED
        BY <2>4, <3>2, <3>3, <4>1
    <3>5. CASE audit[c] = [lines |-> <<"attempt">>, lost |-> 1]
      BY <2>4, <3>5
    <3>6. CASE audit[c] = [lines |-> <<word>>, lost |-> 1]
      <4>1. /\ Len(audit[c].lines) = 1 /\ audit[c].lost = 1 /\ DOMAIN audit[c].lines = {1}
            /\ audit[c].lines[1] = word
        BY <3>6
      <4> QED
        BY <2>4, <3>2, <3>3, <4>1
    <3>7. CASE audit[c] = [lines |-> <<>>, lost |-> 2]
      BY <2>4, <3>7
    <3> QED
      BY <3>1, <3>4, <3>5, <3>6, <3>7 DEF Completed
  <2>5. CASE ~told(c)
    <3>1. Attempted(audit[c])
      BY <2>1, <2>5 DEF Logged
    <3> QED
      BY <2>5, <3>1 DEF Attempted
  <2> QED
    BY <2>4, <2>5
<1> QED
  BY <1>1, CallsAreSound, PTL

(* Whatever the backoff, as long as each delay is a tick or more, the time *)
(* an operation may take bounds its attempts.                              *)
THEOREM BackoffNeverHammers == Spec => []NoHammering
<1>1. Inductive => NoHammering
  <2> SUFFICES ASSUME Inductive, NEW c \in Calls, conn[c].pc \in {"wire", "sleeping"}
               PROVE  conn[c].tries <= MaxElapsed + 2
    BY DEF NoHammering
  <2>1. conn[c].tries \in Nat /\ conn[c].age \in 0 .. MaxElapsed + 1 /\ MaxElapsed \in Nat
    <3>1. conn[c].tries \in Tries /\ conn[c].age \in 0 .. MaxElapsed + 1
      BY OperationsInProgress DEF Inductive
    <3> QED
      BY <3>1, Numbers DEF Tries
  <2>2. conn[c].tries <= conn[c].age + 1
    BY DEF Inductive, Good, Paced
  <2> QED
    BY <2>1, <2>2
<1> QED
  BY <1>1, CallsAreSound, PTL
=============================================================================
