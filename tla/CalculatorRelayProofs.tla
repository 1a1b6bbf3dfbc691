------------------------ MODULE CalculatorRelayProofs ------------------------
(***************************************************************************)
(* Proofs about CalculatorRelay, for every number of chats, calls, edits,  *)
(* seconds and restarts: the type invariant, then RelayInvariant and with  *)
(* it the properties of pages, pins, answers and statuses.                 *)
(*                                                                         *)
(* Each part of RelayInvariant follows from two summaries of a step:       *)
(* Steady says what a step does to the tables, Origins where the           *)
(* coroutines it leaves come from.                                         *)
(***************************************************************************)
EXTENDS CalculatorRelay, TLAPS

(***************************************************************************)
(* Lemmas about the pieces actions are made of                             *)
(***************************************************************************)
LEMMA BoundsAreNat ==
  /\ MaxChats \in Nat /\ MaxCalls \in Nat /\ MaxEdits \in Nat
  /\ MaxTime \in Nat /\ MaxRestarts \in Nat /\ 1 \in ChatIds /\ MaxTime >= 1
  /\ ChatIds \subseteq Nat
BY RelayAssumption DEF ChatIds

(* A coroutine that only moves on is still one.                            *)
LEMMA JobMoves ==
  ASSUME NEW job \in Job, NEW at \in Place
  PROVE  /\ [job EXCEPT !.at = at] \in Job
         /\ \A c \in 0..MaxChats :
              /\ [job EXCEPT !.chat = c, !.at = at] \in Job
              /\ [job EXCEPT !.chat = c] \in Job
         /\ \A r \in 0..MaxTime : [job EXCEPT !.at = at, !.revision = r] \in Job
         /\ \A b \in BOOLEAN :
              [job EXCEPT !.kind = "completion", !.at = at, !.answered = b] \in Job
BY DEF Job

LEMMA MessageOfJob ==
  ASSUME NEW job \in Job, job.chat \in ChatIds
  PROVE  MessageOf(job) \in Message
BY DEF Job, MessageOf, Message

(***************************************************************************)
(* The statements of the database keep the tables' types                   *)
(***************************************************************************)
Tables ==
  /\ chats \in [DOMAIN chats -> Chat] /\ DOMAIN chats \subseteq ChatIds
  /\ asks \in [DOMAIN asks -> {"sending", "complete", "failed"}]
  /\ DOMAIN asks \subseteq Message
  /\ answers \subseteq Message /\ pinClock \in Nat
  /\ created \in 0..MaxChats
  /\ changes \in [ChatIds -> Seq(0..MaxTime)]

LEMMA TouchKeeps ==
  ASSUME Tables, now \in 0..MaxTime, NEW c, Touch(c)
  PROVE  DOMAIN chats' = DOMAIN chats /\ chats' \in [DOMAIN chats -> Chat]
<1>1. CASE c \in DOMAIN chats
  <2>1. [chats[c] EXCEPT !.revision = now] \in Chat
    BY <1>1 DEF Tables, Chat
  <2>2. chats' = [chats EXCEPT ![c] = [chats[c] EXCEPT !.revision = now]]
    BY <1>1 DEF Touch
  <2> QED BY <2>1, <2>2 DEF Tables
<1>2. CASE c \notin DOMAIN chats
  BY <1>2 DEF Tables, Touch
<1> QED BY <1>1, <1>2

LEMMA ChangeKeeps ==
  ASSUME Tables, now \in 0..MaxTime, NEW c \in ChatIds, MessagesChange(c)
  PROVE  changes' \in [ChatIds -> Seq(0..MaxTime)]
BY DEF Tables, MessagesChange

LEMMA StatementsKeepTables ==
  ASSUME Tables, now \in 0..MaxTime
  PROVE  /\ CreateConversation => Tables'
         /\ \A c : \A p \in BOOLEAN : SetPinned(c, p) => Tables'
         /\ \A c : RenameConversation(c) => Tables'
         /\ \A m \in Message : AddAsk(m) => Tables'
         /\ \A m \in Message : \A p \in BOOLEAN : AddAnswer(m, p) => Tables'
         /\ \A m : \A st \in {"sending", "complete", "failed"} :
              SetMessageStatus(m, st) => Tables'
         /\ \A c \in ChatIds : DeleteConversation(c) => Tables'
<1> USE BoundsAreNat
<1>1. CreateConversation => Tables'
  BY DEF CreateConversation, Tables, Chat, ChatIds
<1>2. ASSUME NEW c, NEW p \in BOOLEAN, SetPinned(c, p) PROVE Tables'
  <2>1. CASE c \in DOMAIN chats
    <3> DEFINE pin == IF p THEN pinClock + 1 ELSE 0
               new == [chats[c] EXCEPT !.pin = pin, !.revision = now]
    <3>2. chats' = [chats EXCEPT ![c] = new]
      BY <1>2, <2>1 DEF SetPinned
    <3>4. pin \in Nat
      BY DEF Tables
    <3> HIDE DEF pin
    <3>5. chats[c] \in Chat
      BY <2>1 DEF Tables
    <3>1. new \in Chat
      BY <3>4, <3>5 DEF Chat
    <3>6. chats \in [DOMAIN chats -> Chat]
      BY DEF Tables
    <3>3. chats' \in [DOMAIN chats -> Chat]
      BY <3>1, <3>2, <3>6
    <3> QED BY <1>2, <3>3 DEF SetPinned, Tables
  <2>2. CASE c \notin DOMAIN chats
    BY <1>2, <2>2 DEF SetPinned, Tables
  <2> QED BY <2>1, <2>2
<1>3. ASSUME NEW c, RenameConversation(c) PROVE Tables'
  BY <1>3, TouchKeeps DEF RenameConversation, Tables
<1>4. ASSUME NEW m \in Message, AddAsk(m) PROVE Tables'
  <2>1. m[1] \in ChatIds
    BY DEF Message
  <2>2. DOMAIN chats' = DOMAIN chats /\ chats' \in [DOMAIN chats -> Chat]
    BY <1>4, TouchKeeps DEF AddAsk
  <2>3. changes' \in [ChatIds -> Seq(0..MaxTime)]
    BY <1>4, <2>1, ChangeKeeps DEF AddAsk
  <2> QED BY <1>4, <2>2, <2>3 DEF AddAsk, Tables
<1>5. ASSUME NEW m \in Message, NEW p \in BOOLEAN, AddAnswer(m, p) PROVE Tables'
  <2>1. m[1] \in ChatIds
    BY DEF Message
  <2>2. DOMAIN chats' = DOMAIN chats /\ chats' \in [DOMAIN chats -> Chat]
    <3>1. CASE m[1] \in DOMAIN chats
      <4> DEFINE new == [chats[m[1]] EXCEPT !.revision = now, !.plain = @ /\ p]
      <4>1. new \in Chat
        BY <3>1 DEF Tables, Chat
      <4>2. chats' = [chats EXCEPT ![m[1]] = new]
        BY <1>5, <3>1 DEF AddAnswer
      <4> QED BY <4>1, <4>2 DEF Tables
    <3>2. CASE m[1] \notin DOMAIN chats
      BY <1>5, <3>2 DEF AddAnswer, Tables
    <3> QED BY <3>1, <3>2
  <2>3. changes' \in [ChatIds -> Seq(0..MaxTime)]
    BY <1>5, <2>1, ChangeKeeps DEF AddAnswer
  <2> QED BY <1>5, <2>2, <2>3 DEF AddAnswer, Tables
<1>6. ASSUME NEW m, NEW st \in {"sending", "complete", "failed"},
             SetMessageStatus(m, st)
      PROVE  Tables'
  <2>1. CASE m \in DOMAIN asks
    <3>1. m[1] \in ChatIds
      BY <2>1 DEF Tables, Message
    <3>2. DOMAIN chats' = DOMAIN chats /\ chats' \in [DOMAIN chats -> Chat]
      BY <1>6, <2>1, TouchKeeps DEF SetMessageStatus
    <3>3. changes' \in [ChatIds -> Seq(0..MaxTime)]
      BY <1>6, <2>1, <3>1, ChangeKeeps DEF SetMessageStatus
    <3> QED BY <1>6, <2>1, <3>2, <3>3 DEF SetMessageStatus, Tables
  <2>2. CASE m \notin DOMAIN asks
    BY <1>6, <2>2 DEF SetMessageStatus, database, Tables
  <2> QED BY <2>1, <2>2
<1>7. ASSUME NEW c \in ChatIds, DeleteConversation(c) PROVE Tables'
  <2>1. changes' \in [ChatIds -> Seq(0..MaxTime)]
    BY <1>7, ChangeKeeps DEF DeleteConversation
  <2> QED BY <1>7, <2>1 DEF DeleteConversation, Tables
<1> QED BY <1>1, <1>2, <1>3, <1>4, <1>5, <1>6, <1>7

(***************************************************************************)
(* Type correctness                                                        *)
(***************************************************************************)
LEMMA InitTypes == Init => TypeOK
<1> SUFFICES ASSUME Init PROVE TypeOK
  OBVIOUS
<1> USE BoundsAreNat DEF Init
<1>1. chats \in [DOMAIN chats -> Chat] /\ DOMAIN chats \subseteq ChatIds
  BY DEF Chat
<1>2. /\ asks \in [DOMAIN asks -> {"sending", "complete", "failed"}]
      /\ DOMAIN asks \subseteq Message
  OBVIOUS
<1>3. changes \in [ChatIds -> Seq(0..MaxTime)]
  OBVIOUS
<1>4. created \in 0..MaxChats
  BY RelayAssumption
<1> QED BY <1>1, <1>2, <1>3, <1>4 DEF TypeOK

LEMMA TypesOfTables == TypeOK => Tables /\ now \in 0..MaxTime
BY DEF TypeOK, Tables

(* What is left of TypeOK when the tables and the bounds keep theirs.      *)
LEMMA TypeOKFrom ==
  ASSUME Tables', jobs' \subseteq Job,
         calls' \in 0..MaxCalls, now' \in 0..MaxTime,
         edits' \in 0..MaxEdits, restarts' \in 0..MaxRestarts,
         pages' \subseteq [chat : ChatIds, revision : 0..MaxTime, shown : Nat],
         submitted' \in Seq(Message)
  PROVE  TypeOK'
BY DEF TypeOK, Tables

(***************************************************************************)
(* The type invariant needs to know where requests are: TypeOK and         *)
(* ChatsWereCreated are preserved together.                                *)
(***************************************************************************)
Typed == TypeOK /\ ChatsWereCreated

GoodJob(k, n) == k \in Job /\ (Located(k) => k.chat \in 1..n)

LEMMA TypedJobs ==
  Typed => \A k \in jobs : GoodJob(k, created) /\ created \in 0..MaxChats
BY DEF Typed, TypeOK, ChatsWereCreated, GoodJob

LEMMA TypedCounters ==
  Typed => /\ calls \in 0..MaxCalls /\ now \in 0..MaxTime /\ edits \in 0..MaxEdits
           /\ restarts \in 0..MaxRestarts /\ created \in 0..MaxChats
<1>1. TypeOK => /\ calls \in 0..MaxCalls /\ now \in 0..MaxTime /\ edits \in 0..MaxEdits
                /\ restarts \in 0..MaxRestarts /\ created \in 0..MaxChats
  BY DEF TypeOK
<1>2. QED BY <1>1 DEF Typed

LEMMA TypedRevisions ==
  Typed => \A c \in DOMAIN chats : chats[c].revision \in 0..MaxTime
<1>1. TypeOK => \A c \in DOMAIN chats : chats[c] \in Chat
  BY DEF TypeOK
<1>2. QED BY <1>1 DEF Typed, Chat

LEMMA TypedPages ==
  Typed => \A page \in pages : page.revision \in 0..MaxTime
<1>1. TypeOK => \A page \in pages : page \in [chat : ChatIds, revision : 0..MaxTime, shown : Nat]
  BY DEF TypeOK
<1>2. QED BY <1>1 DEF Typed

(* A step of coroutines alone.                                             *)
LEMMA JobStep ==
  ASSUME Typed, UNCHANGED <<database, bounds, pages, submitted>>,
         \A k \in jobs' : GoodJob(k, created)
  PROVE  Typed'
BY DEF Typed, TypeOK, ChatsWereCreated, GoodJob, database, bounds

(* A step of one coroutine that changes the tables by one statement.       *)
LEMMA TableStep ==
  ASSUME Typed, Tables', UNCHANGED <<bounds, pages, submitted>>,
         DOMAIN chats' \subseteq 1..created',
         \A m \in answers' : m[1] \in 1..created',
         \A k \in jobs' : GoodJob(k, created')
  PROVE  Typed'
BY TypeOKFrom DEF Typed, TypeOK, ChatsWereCreated, GoodJob, bounds

LEMMA LocatedMessage ==
  ASSUME Typed, NEW job \in jobs, job.chat \in 1..created
  PROVE  job.chat \in ChatIds /\ MessageOf(job) \in Message
<1>1. job \in Job /\ created \in 0..MaxChats
  BY TypedJobs DEF GoodJob
<1>2. job.chat \in ChatIds
  BY <1>1, BoundsAreNat DEF ChatIds
<1> QED BY <1>1, <1>2, MessageOfJob

LEMMA Moving ==
  ASSUME Typed, NEW job \in jobs, NEW at \in Place,
         job.chat \in 1..created \/ ~Located([job EXCEPT !.at = at]),
         Goes(job, at)
  PROVE  \A k \in jobs' : GoodJob(k, created)
<1>1. GoodJob(job, created)
  BY TypedJobs
<1>2. GoodJob([job EXCEPT !.at = at], created)
  BY <1>1, JobMoves DEF GoodJob, Job
<1> QED BY <1>2, TypedJobs DEF Goes, Becomes

LEMMA Finishing ==
  ASSUME Typed, NEW job \in jobs, Finishes(job)
  PROVE  \A k \in jobs' : GoodJob(k, created)
BY TypedJobs DEF Finishes

LEMMA Dispatching ==
  ASSUME Typed, NEW job \in jobs, job.kind = "call", job.chat \in 1..created,
         DispatchAndRender(job)
  PROVE  \A k \in jobs' : GoodJob(k, created)
<1> DEFINE render == [job EXCEPT !.at = "title"]
           completion == [job EXCEPT !.kind = "completion", !.at = "check",
                                     !.answered = MessageOf(job) \in answers]
<1>1. job \in Job
  BY TypedJobs DEF GoodJob
<1>2. render \in Job /\ render.chat = job.chat
  BY <1>1 DEF Job, Place
<1>3. completion \in Job /\ completion.chat = job.chat
  <2> DEFINE late == MessageOf(job) \in answers
  <2>1. late \in BOOLEAN
    OBVIOUS
  <2>2. \A b \in BOOLEAN :
          LET k == [job EXCEPT !.kind = "completion", !.at = "check", !.answered = b]
          IN  k \in Job /\ k.chat = job.chat
    BY <1>1 DEF Job, Place
  <2> QED BY <2>1, <2>2
<1>4. jobs' = (jobs \ {job}) \cup {render, completion}
  BY DEF DispatchAndRender
<1> HIDE DEF render, completion
<1> QED BY <1>2, <1>3, <1>4, TypedJobs DEF GoodJob

(***************************************************************************)
(* reply() up to the send path                                             *)
(***************************************************************************)
LEMMA CallTypes == Typed /\ Request => Typed'
<1> SUFFICES ASSUME Typed, NEW command \in Commands, NEW target \in Targets,
                    NEW session \in Sessions, NEW client \in ClientIds,
                    NEW known \in IF command = "POLL" THEN KnownRevisions(target) ELSE {0},
                    Call(command, target, session, client, known)
             PROVE  Typed'
  BY DEF Request
<1> USE BoundsAreNat
<1> DEFINE key == IF command = "SEND" /\ target.by = "slot"
                  THEN <<"legacy", calls + 1>> ELSE <<"client", client>>
           chat == IF target.by = "id" THEN target.n ELSE 0
           at   == FirstStep(command, target)
           new  == [id |-> calls + 1, kind |-> "call", command |-> command,
                    session |-> session, target |-> target, key |-> key,
                    chat |-> chat, known |-> known, revision |-> 0,
                    answered |-> FALSE, at |-> at]
<1>1. jobs' = jobs \cup {new} /\ calls' = calls + 1 /\ calls < MaxCalls
      /\ UNCHANGED <<database, now, edits, restarts, pages, submitted>>
  BY DEF Call
<1>2. calls \in 0..MaxCalls
  BY DEF Typed, TypeOK
<1>3. calls + 1 \in 1..MaxCalls
  BY <1>1, <1>2
<1>4. key \in Key
  BY <1>3 DEF Key
<1>5. target \in AnyTarget /\ command \in RelayCommands
  BY RelayAssumption
<1>6. chat \in 0..MaxChats
  BY <1>5 DEF AnyTarget, New, Id, Slot
<1>7. known \in 0..MaxTime
  <2>1. KnownRevisions(target) \subseteq 0..MaxTime
    BY TypedPages DEF KnownRevisions
  <2>2. known \in KnownRevisions(target) \/ known = 0
    OBVIOUS
  <2> QED BY <2>1, <2>2
<1>8. at \in Place /\ ~Located(new)
  <2>1. at \in {"vault", "open", "slot", "poll", "title", "read"}
    BY <1>5 DEF FirstStep, RelayCommands
  <2> HIDE DEF at
  <2> QED BY <2>1 DEF Place, Located
<1> HIDE DEF key, chat, at
<1>9. new \in Job
  BY <1>3, <1>4, <1>5, <1>6, <1>7, <1>8 DEF Job
<1>10. GoodJob(new, created)
  BY <1>8, <1>9 DEF GoodJob
<1> HIDE DEF new
<1>11. jobs' \subseteq Job /\ \A k \in jobs' : Located(k) => k.chat \in 1..created
  BY <1>1, <1>10, TypedJobs DEF GoodJob
<1>12. TypeOK'
  <2>1. Tables'
    BY <1>1, TypesOfTables DEF Typed, Tables, database
  <2>2. /\ calls' \in 0..MaxCalls /\ now' \in 0..MaxTime
        /\ edits' \in 0..MaxEdits /\ restarts' \in 0..MaxRestarts
    BY SMTT(40), <1>1, <1>2, TypedCounters, BoundsAreNat
  <2>3. /\ pages' \subseteq [chat : ChatIds, revision : 0..MaxTime, shown : Nat]
        /\ submitted' \in Seq(Message)
    BY <1>1 DEF Typed, TypeOK
  <2> QED BY <1>11, <2>1, <2>2, <2>3, TypeOKFrom
<1>13. ChatsWereCreated'
  BY <1>1, <1>11 DEF Typed, ChatsWereCreated, database
<1> QED BY <1>12, <1>13 DEF Typed

(* The awaits of a call that only read.                                    *)
LEMMA ReadingTypes ==
  ASSUME Typed, NEW job \in jobs
  PROVE  /\ ReplyFromTables(job) => Typed'
         /\ ReadVault(job) => Typed'
         /\ ResolveSlotAlias(job) => Typed'
         /\ OpenChat(job) => Typed'
         /\ PollChat(job) => Typed'
         /\ CheckConversation(job) => Typed'
<1>1. ASSUME ReplyFromTables(job) PROVE Typed'
  BY <1>1, Finishing, JobStep DEF ReplyFromTables
<1>2. ASSUME ReadVault(job) PROVE Typed'
  <2>1. UNCHANGED <<database, bounds, pages, submitted>>
    BY <1>2 DEF ReadVault
  <2>2. \/ Finishes(job)
        \/ Waits(job, "call", "vault") /\ \E at \in {"exists", "slot", "create"} : Goes(job, at)
    BY <1>2 DEF ReadVault
  <2>3. CASE Finishes(job)
    BY <2>1, <2>3, Finishing, JobStep
  <2>4. ASSUME NEW at \in {"exists", "slot", "create"}, Waits(job, "call", "vault"),
               Goes(job, at)
        PROVE  Typed'
    <3>1. ~Located([job EXCEPT !.at = at])
      BY <2>4, TypedJobs DEF Located, Waits, GoodJob, Job
    <3> QED BY <2>1, <2>4, <3>1, Moving, JobStep DEF Place
  <2> QED BY <2>2, <2>3, <2>4
<1>3. ASSUME ResolveSlotAlias(job) PROVE Typed'
  <2>1. UNCHANGED <<database, bounds, pages, submitted>> /\ Waits(job, "call", "slot")
    BY <1>3 DEF ResolveSlotAlias
  <2>2. ASSUME NEW c \in DOMAIN chats, NEW at \in {"exists", "open"},
               Becomes(job, [job EXCEPT !.chat = c, !.at = at])
        PROVE  Typed'
    <3> DEFINE k == [job EXCEPT !.chat = c, !.at = at]
    <3>1. job \in Job /\ c \in 0..MaxChats
      BY TypedJobs DEF GoodJob, Typed, TypeOK, ChatIds
    <3>2. k \in Job /\ k.at = at /\ k.kind = "call"
      BY <2>1, <3>1 DEF Job, Place, Waits
    <3> HIDE DEF k
    <3>3. GoodJob(k, created)
      BY <3>2 DEF GoodJob, Located
    <3>4. jobs' = (jobs \ {job}) \cup {k}
      BY <2>2 DEF Becomes, k
    <3> QED BY <2>1, <3>3, <3>4, TypedJobs, JobStep
  <2>3. ASSUME NEW at \in {"create", "read"}, Goes(job, at) PROVE Typed'
    <3>1. ~Located([job EXCEPT !.at = at])
      BY <2>1, TypedJobs DEF Located, Waits, GoodJob, Job
    <3> QED BY <2>1, <2>3, <3>1, Moving, JobStep DEF Place
  <2> QED BY <1>3, <2>2, <2>3 DEF ResolveSlotAlias
<1>4. ASSUME OpenChat(job) PROVE Typed'
  <2>1. UNCHANGED <<database, bounds, pages, submitted>> /\ Waits(job, "call", "open")
        /\ \E at \in {"title", "read"} : Goes(job, at)
    BY <1>4 DEF OpenChat
  <2>2. \A at \in {"title", "read"} : ~Located([job EXCEPT !.at = at])
    BY <2>1, TypedJobs DEF Located, Waits, GoodJob, Job
  <2> QED BY <2>1, <2>2, Moving, JobStep DEF Place
<1>5. ASSUME PollChat(job) PROVE Typed'
  <2>1. UNCHANGED <<database, bounds, pages, submitted>> /\ Waits(job, "call", "poll")
        /\ (Goes(job, "title") \/ Finishes(job))
    BY <1>5 DEF PollChat
  <2>2. ~Located([job EXCEPT !.at = "title"])
    BY <2>1, TypedJobs DEF Located, Waits, GoodJob, Job
  <2> QED BY <2>1, <2>2, Moving, Finishing, JobStep DEF Place
<1>6. ASSUME CheckConversation(job) PROVE Typed'
  <2>1. UNCHANGED <<database, bounds, pages, submitted>> /\ Waits(job, "call", "exists")
    BY <1>6 DEF CheckConversation
  <2>2. CASE job.chat \in DOMAIN chats
    <3>1. job.chat \in 1..created /\ Goes(job, "answered")
      BY <1>6, <2>2 DEF CheckConversation, Typed, ChatsWereCreated
    <3> QED BY <2>1, <3>1, Moving, JobStep DEF Place
  <2>3. CASE job.chat \notin DOMAIN chats
    <3>1. ~Located([job EXCEPT !.at = "create"])
      BY <2>1, TypedJobs DEF Located, Waits, GoodJob, Job
    <3> QED BY <1>6, <2>1, <2>3, <3>1, Moving, JobStep DEF CheckConversation, Place
  <2> QED BY <2>2, <2>3
<1> QED BY <1>1, <1>2, <1>3, <1>4, <1>5, <1>6

(***************************************************************************)
(* The send path                                                           *)
(***************************************************************************)
LEMMA CreatingTypes ==
  ASSUME Typed, NEW job \in jobs, CreateChat(job)
  PROVE  Typed'
<1> DEFINE k == [job EXCEPT !.chat = created + 1, !.at = "pin"]
<1>1. /\ created \in 0..MaxChats /\ created < MaxChats
      /\ created' = created + 1 /\ created + 1 \in 0..MaxChats
  BY BoundsAreNat, TypedJobs DEF CreateChat, CreateConversation
<1>2. k \in Job /\ k.chat = created + 1
  BY ZenonT(40), <1>1, TypedJobs DEF GoodJob, Job, Place
<1>3. jobs' = (jobs \ {job}) \cup {k}
  BY DEF CreateChat, Becomes
<1> HIDE DEF k
<1>4. \A i \in jobs' : GoodJob(i, created')
  BY <1>1, <1>2, <1>3, TypedJobs DEF GoodJob
<1>5. Tables'
  BY StatementsKeepTables, TypesOfTables DEF CreateChat, Typed
<1>6. DOMAIN chats' \subseteq 1..created' /\ \A m \in answers' : m[1] \in 1..created'
  BY <1>1 DEF CreateChat, CreateConversation, Typed, ChatsWereCreated
<1> QED BY <1>4, <1>5, <1>6, TableStep DEF CreateChat

LEMMA PinningTypes ==
  ASSUME Typed, NEW job \in jobs, PinNewChat(job)
  PROVE  Typed'
<1>1. Waits(job, "call", "pin") /\ SetPinned(job.chat, TRUE)
      /\ \E at \in {"answered", "read"} : Goes(job, at)
  BY DEF PinNewChat
<1>2. job.chat \in 1..created
  BY <1>1, TypedJobs DEF GoodJob, Located, Waits
<1>3. \A k \in jobs' : GoodJob(k, created)
  BY <1>1, <1>2, Moving DEF Place
<1>4. Tables'
  BY <1>1, StatementsKeepTables, TypesOfTables DEF Typed
<1>5. DOMAIN chats' = DOMAIN chats /\ UNCHANGED <<answers, created>>
  BY <1>1 DEF SetPinned, Typed, TypeOK
<1> QED BY <1>3, <1>4, <1>5, TableStep DEF PinNewChat, Typed, ChatsWereCreated

LEMMA SendingTypes ==
  ASSUME Typed, NEW job \in jobs
  PROVE  /\ CheckAnswer(job) => Typed'
         /\ CheckRecorded(job) => Typed'
         /\ CheckEmpty(job) => Typed'
         /\ TitleChat(job) => Typed'
         /\ RecordMessage(job) => Typed'
         /\ AnnounceMessage(job) => Typed'
<1>1. \A at \in {"answered", "recorded", "empty", "rename", "add", "announce"} :
        Waits(job, "call", at) => job.chat \in 1..created /\ job.kind = "call"
  BY TypedJobs DEF GoodJob, Located, Waits
<1>2. ASSUME CheckAnswer(job) PROVE Typed'
  <2>1. \E at \in {"title", "recorded"} : Goes(job, at)
    BY <1>2 DEF CheckAnswer
  <2> QED BY <1>1, <1>2, <2>1, Moving, JobStep DEF CheckAnswer, Place
<1>3. ASSUME CheckRecorded(job) PROVE Typed'
  BY <1>1, <1>3, Moving, Dispatching, JobStep DEF CheckRecorded, Place
<1>4. ASSUME CheckEmpty(job) PROVE Typed'
  <2>1. \E at \in {"add", "rename"} : Goes(job, at)
    BY <1>4 DEF CheckEmpty
  <2> QED BY <1>1, <1>4, <2>1, Moving, JobStep DEF CheckEmpty, Place
<1>5. ASSUME TitleChat(job) PROVE Typed'
  <2>1. \A k \in jobs' : GoodJob(k, created)
    BY <1>1, <1>5, Moving DEF TitleChat, Place
  <2>2. Tables'
    BY <1>5, StatementsKeepTables, TypesOfTables DEF TitleChat, Typed
  <2>3. DOMAIN chats' = DOMAIN chats /\ UNCHANGED <<answers, created>>
    BY <1>5, TouchKeeps, TypesOfTables DEF TitleChat, RenameConversation, Typed
  <2> QED BY <1>5, <2>1, <2>2, <2>3, TableStep DEF TitleChat, Typed, ChatsWereCreated
<1>6. ASSUME RecordMessage(job) PROVE Typed'
  <2>1. CASE Finishes(job) /\ UNCHANGED database
    BY <1>6, <2>1, Finishing, JobStep DEF RecordMessage, database
  <2>2. CASE AddAsk(MessageOf(job)) /\ Goes(job, "announce")
    <3>1. \A k \in jobs' : GoodJob(k, created)
      BY <1>1, <1>6, <2>2, Moving DEF RecordMessage, Place
    <3>2. MessageOf(job) \in Message
      <4>1. job \in Job /\ job.chat \in 1..created
        BY <1>1, <1>6, TypedJobs DEF RecordMessage, GoodJob
      <4> QED BY <4>1, LocatedMessage
    <3>3. Tables'
      BY <2>2, <3>2, StatementsKeepTables, TypesOfTables DEF Typed
    <3>4. DOMAIN chats' = DOMAIN chats /\ UNCHANGED <<answers, created>>
      BY <2>2, TouchKeeps, TypesOfTables DEF AddAsk, Typed
    <3> QED BY <1>6, <3>1, <3>3, <3>4, TableStep DEF RecordMessage, Typed, ChatsWereCreated
  <2> QED BY <1>6, <2>1, <2>2 DEF RecordMessage
<1>7. ASSUME AnnounceMessage(job) PROVE Typed'
  BY <1>1, <1>7, Finishing, Dispatching, JobStep DEF AnnounceMessage
<1> QED BY <1>2, <1>3, <1>4, <1>5, <1>6, <1>7

(***************************************************************************)
(* The completion                                                          *)
(***************************************************************************)
LEMMA CompletionTypes ==
  ASSUME Typed, NEW job \in jobs, Completion(job)
  PROVE  Typed'
<1>1. job.kind = "completion" /\ job.chat \in 1..created
  BY TypedJobs DEF GoodJob, Located, Waits, Completion, CheckUnanswered, CallProvider,
     ProviderAnswers, MarkComplete, StoreAnswer, AnnounceAnswer, MarkFailed
<1>2. MessageOf(job) \in Message
  BY <1>1, LocatedMessage
<1>3. ASSUME CheckUnanswered(job) PROVE Typed'
  BY <1>1, <1>3, Finishing, Moving, JobStep DEF CheckUnanswered, Place
<1>4. ASSUME CallProvider(job) PROVE Typed'
  <2>1. submitted' \in Seq(Message)
    BY <1>2, <1>4 DEF CallProvider, Typed, TypeOK
  <2>2. \A k \in jobs' : GoodJob(k, created)
    BY <1>1, <1>4, Moving DEF CallProvider, Place
  <2>3. Tables' /\ UNCHANGED <<bounds, pages, created, chats, answers>>
    BY <1>4, TypesOfTables DEF CallProvider, Typed, Tables, database
  <2>4. TypeOK'
    BY <2>1, <2>2, <2>3, TypeOKFrom DEF Typed, TypeOK, bounds, GoodJob
  <2> QED BY <2>2, <2>3, <2>4 DEF Typed, ChatsWereCreated, GoodJob
<1>5. ASSUME ProviderAnswers(job) PROVE Typed'
  BY <1>1, <1>5, Moving, JobStep DEF ProviderAnswers, Place
<1>6. ASSUME NEW status \in {"sending", "complete", "failed"},
             SetMessageStatus(MessageOf(job), status)
      PROVE  /\ Tables' /\ DOMAIN chats' = DOMAIN chats
             /\ UNCHANGED <<answers, created>>
  BY <1>6, StatementsKeepTables, TouchKeeps, TypesOfTables
     DEF SetMessageStatus, Typed, database
<1>7. ASSUME MarkComplete(job) PROVE Typed'
  <2>1. \A k \in jobs' : GoodJob(k, created)
    BY <1>1, <1>7, Moving DEF MarkComplete, Place
  <2> QED BY <1>6, <1>7, <2>1, TableStep DEF MarkComplete, Typed, ChatsWereCreated
<1>8. ASSUME StoreAnswer(job) PROVE Typed'
  <2>1. CASE Goes(job, "fail") /\ UNCHANGED database
    BY <1>1, <1>8, <2>1, Moving, JobStep DEF StoreAnswer, Place, database
  <2>2. ASSUME NEW plain \in BOOLEAN, AddAnswer(MessageOf(job), plain),
               Goes(job, "announce")
        PROVE  Typed'
    <3>1. \A k \in jobs' : GoodJob(k, created)
      BY <1>1, <2>2, Moving DEF Place
    <3>2. Tables'
      BY <1>2, <2>2, StatementsKeepTables, TypesOfTables DEF Typed
    <3>3. DOMAIN chats' = DOMAIN chats /\ created' = created
      BY <2>2 DEF AddAnswer, Typed, TypeOK
    <3>4. \A m \in answers' : m[1] \in 1..created'
      BY <1>1, <2>2, <3>3 DEF AddAnswer, Typed, ChatsWereCreated, MessageOf
    <3> QED BY <1>8, <3>1, <3>2, <3>3, <3>4, TableStep
            DEF StoreAnswer, Typed, ChatsWereCreated
  <2>3. {TRUE, PlainReplies} \subseteq BOOLEAN
    BY RelayAssumption
  <2> QED BY <1>8, <2>1, <2>2, <2>3 DEF StoreAnswer
<1>9. ASSUME AnnounceAnswer(job) PROVE Typed'
  <2>1. \E at \in {"title", "fail"} : Goes(job, at)
    BY <1>9 DEF AnnounceAnswer
  <2> QED BY <1>1, <1>9, <2>1, Moving, JobStep DEF AnnounceAnswer, Place
<1>10. ASSUME MarkFailed(job) PROVE Typed'
  <2>1. \A k \in jobs' : GoodJob(k, created)
    BY <1>10, Finishing DEF MarkFailed
  <2> QED BY <1>6, <1>10, <2>1, TableStep DEF MarkFailed, Typed, ChatsWereCreated
<1> QED BY <1>3, <1>4, <1>5, <1>7, <1>8, <1>9, <1>10 DEF Completion

(***************************************************************************)
(* Pages, the user and the clock                                           *)
(***************************************************************************)
LEMMA RenderTypes ==
  ASSUME Typed, NEW job \in jobs, Render(job)
  PROVE  Typed'
<1>1. ASSUME ReadTitle(job) PROVE Typed'
  <2>1. CASE job.chat \in DOMAIN chats
    <3>1. job.chat \in 1..created
      BY <2>1 DEF Typed, ChatsWereCreated
    <3> QED BY <1>1, <2>1, <3>1, Moving, JobStep DEF ReadTitle, Place
  <2>2. CASE job.chat \notin DOMAIN chats
    BY <1>1, <2>2, Finishing, JobStep DEF ReadTitle
  <2> QED BY <2>1, <2>2
<1>2. ASSUME ReadRevision(job) PROVE Typed'
  <2> DEFINE r == IF job.chat \in DOMAIN chats THEN chats[job.chat].revision ELSE 0
             k == [job EXCEPT !.at = "messages", !.revision = r]
  <2>1. r \in 0..MaxTime
    BY BoundsAreNat, TypedRevisions
  <2>2. job \in Job /\ job.chat \in 1..created
    BY <1>2, TypedJobs DEF ReadRevision, GoodJob, Located, Waits
  <2>3. jobs' = (jobs \ {job}) \cup {k}
    BY <1>2 DEF ReadRevision, Becomes
  <2> HIDE DEF r
  <2>4. k \in Job /\ k.chat = job.chat
    BY <2>1, <2>2 DEF Job, Place
  <2> HIDE DEF k
  <2>5. \A i \in jobs' : GoodJob(i, created)
    BY <2>2, <2>3, <2>4, TypedJobs DEF GoodJob
  <2> QED BY <1>2, <2>5, JobStep DEF ReadRevision
<1>3. ASSUME ReadMessages(job) PROVE Typed'
  <2>1. job \in Job /\ job.chat \in 1..created
    BY <1>3, TypedJobs DEF ReadMessages, GoodJob, Located, Waits
  <2>2. job.chat \in ChatIds /\ job.revision \in 0..MaxTime
    BY <2>1, LocatedMessage DEF Job
  <2>3. Len(changes[job.chat]) \in Nat
    BY <2>2 DEF Typed, TypeOK
  <2>4. pages' \subseteq [chat : ChatIds, revision : 0..MaxTime, shown : Nat]
    BY <1>3, <2>2, <2>3 DEF ReadMessages, Typed, TypeOK
  <2>5. \A k \in jobs' : GoodJob(k, created)
    BY <1>3, Finishing DEF ReadMessages
  <2>6. Tables' /\ UNCHANGED <<bounds, submitted, created, chats, answers>>
    BY <1>3, TypesOfTables DEF ReadMessages, Typed, Tables, database
  <2>7. TypeOK'
    BY <2>4, <2>5, <2>6, TypeOKFrom DEF Typed, TypeOK, bounds, GoodJob
  <2> QED BY <2>5, <2>6, <2>7 DEF Typed, ChatsWereCreated, GoodJob
<1> QED BY <1>1, <1>2, <1>3 DEF Render

LEMMA UserTypes ==
  ASSUME Typed, NEW c \in ChatIds, UserEdits(c)
  PROVE  Typed'
<1>1. edits' \in 0..MaxEdits /\ UNCHANGED <<jobs, calls, now, restarts, pages, submitted>>
  BY BoundsAreNat, TypedCounters DEF UserEdits
<1>2. Tables' /\ DOMAIN chats' \subseteq DOMAIN chats /\ answers' \subseteq answers
      /\ created' = created
  <2>1. CASE RenameConversation(c)
    BY <2>1, StatementsKeepTables, TouchKeeps, TypesOfTables
       DEF RenameConversation, Typed
  <2>2. CASE SetPinned(c, chats[c].pin = 0)
    <3> DEFINE unpinned == chats[c].pin = 0
    <3>1. unpinned \in BOOLEAN
      OBVIOUS
    <3>2. SetPinned(c, unpinned)
      BY <2>2
    <3> HIDE DEF unpinned
    <3>3. Tables'
      BY <3>1, <3>2, StatementsKeepTables, TypesOfTables DEF Typed
    <3> QED BY <3>2, <3>3 DEF SetPinned, Typed, TypeOK
  <2>3. CASE DeleteConversation(c)
    BY <2>3, StatementsKeepTables, TypesOfTables DEF DeleteConversation, Typed
  <2> QED BY <2>1, <2>2, <2>3 DEF UserEdits
<1>3. TypeOK'
  BY <1>1, <1>2, TypeOKFrom DEF Typed, TypeOK
<1>4. ChatsWereCreated'
  BY <1>1, <1>2 DEF Typed, ChatsWereCreated
<1> QED BY <1>3, <1>4 DEF Typed

LEMMA TickTypes == Typed /\ Tick => Typed'
<1> SUFFICES ASSUME Typed, Tick PROVE Typed'
  OBVIOUS
<1>1. now' \in 0..MaxTime /\ UNCHANGED <<database, jobs, calls, edits, restarts, pages, submitted>>
  BY BoundsAreNat, TypedCounters DEF Tick
<1> QED BY <1>1 DEF Typed, TypeOK, ChatsWereCreated, database

LEMMA RestartTypes == Typed /\ Restart => Typed'
<1> SUFFICES ASSUME Typed, Restart PROVE Typed'
  OBVIOUS
<1>1. /\ restarts' \in 0..MaxRestarts /\ jobs' = {}
      /\ UNCHANGED <<database, calls, now, edits, pages, submitted>>
  BY BoundsAreNat, TypedCounters DEF Restart
<1> QED BY <1>1 DEF Typed, TypeOK, ChatsWereCreated, database

LEMMA TypedStep == Typed /\ [Next]_vars => Typed'
<1>1. ASSUME Typed, Next PROVE Typed'
  <2>1. ASSUME NEW job \in jobs, Reply(job) PROVE Typed'
    BY <1>1, <2>1, ReadingTypes, CreatingTypes, PinningTypes, SendingTypes DEF Reply
  <2> QED BY <1>1, <2>1, CallTypes, CompletionTypes, RenderTypes, UserTypes,
             TickTypes, RestartTypes DEF Next
<1>2. ASSUME Typed, UNCHANGED vars PROVE Typed'
  BY <1>2 DEF Typed, TypeOK, ChatsWereCreated, vars, database
<1> QED BY <1>1, <1>2

LEMMA TypedInit == Init => Typed
<1> SUFFICES ASSUME Init PROVE ChatsWereCreated
  BY InitTypes DEF Typed
<1> QED BY DEF Init, ChatsWereCreated

(* Every table, coroutine, page and history keeps its type: statuses are   *)
(* among the three the code writes, revisions within the clock, and every  *)
(* provider call is for a message of a chat there was.                     *)
THEOREM RelayTypeCorrect == Spec => []TypeOK
<1>1. Spec => []Typed
  BY TypedInit, TypedStep, PTL DEF Spec
<1> QED BY <1>1, PTL DEF Typed

(***************************************************************************)
(* What every step does to the tables                                      *)
(***************************************************************************)
Steady ==
  /\ \A m \in DOMAIN asks : m[1] \in DOMAIN chats' => m \in DOMAIN asks'
  /\ \A m \in answers : m \in DOMAIN asks' => m \in answers'
  /\ \A m \in answers' :
        \/ m \in answers
        \/ m[1] \in 1..created /\ (m[1] \in DOMAIN chats => m \in DOMAIN asks)
  /\ \A c \in DOMAIN chats' : c \in DOMAIN chats \/ c = created + 1
  /\ \A c \in DOMAIN chats' :
        \/ chats'[c].revision = now
        \/ c \in DOMAIN chats /\ chats'[c].revision = chats[c].revision
  /\ \A c \in ChatIds : changes'[c] = changes[c] \/ changes'[c] = Append(changes[c], now)

LEMMA TouchIsSteady ==
  ASSUME Typed, NEW c, Touch(c)
  PROVE  /\ DOMAIN chats' = DOMAIN chats
         /\ \A d \in DOMAIN chats' :
              \/ chats'[d].revision = now
              \/ d \in DOMAIN chats /\ chats'[d].revision = chats[d].revision
<1>1. CASE c \in DOMAIN chats
  <2>1. chats' = [chats EXCEPT ![c].revision = now]
    BY <1>1 DEF Touch
  <2>2. chats[c] \in Chat
    BY <1>1 DEF Typed, TypeOK
  <2> QED BY <2>1, <2>2 DEF Chat
<1>2. CASE c \notin DOMAIN chats
  BY <1>2 DEF Touch
<1> QED BY <1>1, <1>2

LEMMA ChangeIsSteady ==
  ASSUME Typed, NEW c \in ChatIds, MessagesChange(c)
  PROVE  \A d \in ChatIds :
           changes'[d] = changes[d] \/ changes'[d] = Append(changes[d], now)
BY DEF MessagesChange, Typed, TypeOK

LEMMA StatementsAreSteady ==
  ASSUME Typed
  PROVE  /\ UNCHANGED database => Steady
         /\ CreateConversation => Steady
         /\ \A c : \A p \in BOOLEAN : SetPinned(c, p) => Steady
         /\ \A c : RenameConversation(c) => Steady
         /\ \A m \in Message : AddAsk(m) => Steady
         /\ \A m \in Message : \A p \in BOOLEAN :
              /\ AddAnswer(m, p)
              /\ m[1] \in 1..created /\ (m[1] \in DOMAIN chats => m \in DOMAIN asks)
              => Steady
         /\ \A m : \A st : SetMessageStatus(m, st) => Steady
         /\ \A c \in ChatIds : DeleteConversation(c) => Steady
<1>1. UNCHANGED database => Steady
  BY DEF Steady, database
<1>2. CreateConversation => Steady
  BY DEF CreateConversation, Steady, Typed, TypeOK, Chat
<1>3. ASSUME NEW c, NEW p \in BOOLEAN, SetPinned(c, p) PROVE Steady
  BY <1>3 DEF SetPinned, Steady, Typed, TypeOK, Chat
<1>4. ASSUME NEW c, RenameConversation(c) PROVE Steady
  BY <1>4, TouchIsSteady DEF RenameConversation, Steady
<1>5. ASSUME NEW m \in Message, AddAsk(m) PROVE Steady
  <2>1. m[1] \in ChatIds
    BY DEF Message
  <2> QED BY <1>5, <2>1, TouchIsSteady, ChangeIsSteady DEF AddAsk, Steady
<1>6. ASSUME NEW m \in Message, NEW p \in BOOLEAN, AddAnswer(m, p),
             m[1] \in 1..created, m[1] \in DOMAIN chats => m \in DOMAIN asks
      PROVE  Steady
  <2>1. m[1] \in ChatIds
    BY DEF Message
  <2>2. \A d \in ChatIds : changes'[d] = changes[d] \/ changes'[d] = Append(changes[d], now)
    BY <1>6, <2>1, ChangeIsSteady DEF AddAnswer
  <2>3. /\ DOMAIN chats' = DOMAIN chats
        /\ \A d \in DOMAIN chats' : chats'[d].revision = now
                                    \/ chats'[d].revision = chats[d].revision
    BY ZenonT(40), <1>6 DEF AddAnswer, Typed, TypeOK, Chat
  <2> QED BY <1>6, <2>2, <2>3 DEF AddAnswer, Steady
<1>7. ASSUME NEW m, NEW st, SetMessageStatus(m, st) PROVE Steady
  <2>1. CASE m \in DOMAIN asks
    <3>1. m[1] \in ChatIds
      BY <2>1 DEF Typed, TypeOK, Message
    <3> QED BY <1>7, <2>1, <3>1, TouchIsSteady, ChangeIsSteady
            DEF SetMessageStatus, Steady
  <2>2. CASE m \notin DOMAIN asks
    BY <1>1, <1>7, <2>2 DEF SetMessageStatus
  <2> QED BY <2>1, <2>2
<1>8. ASSUME NEW c \in ChatIds, DeleteConversation(c) PROVE Steady
  <2>1. \A d \in ChatIds : changes'[d] = changes[d] \/ changes'[d] = Append(changes[d], now)
    BY <1>8, ChangeIsSteady DEF DeleteConversation
  <2> QED BY <1>8, <2>1 DEF DeleteConversation, Steady
<1> QED BY <1>1, <1>2, <1>3, <1>4, <1>5, <1>6, <1>7, <1>8

(* A completion is for a message that was recorded, so what it writes is.  *)
LEMMA StepIsSteady == Typed /\ QuestionsWereRecorded /\ Next => Steady
<1> SUFFICES ASSUME Typed, QuestionsWereRecorded, Next PROVE Steady
  OBVIOUS
<1>1. ASSUME UNCHANGED database PROVE Steady
  BY <1>1, StatementsAreSteady
<1>2. ASSUME NEW job \in jobs, Reply(job) PROVE Steady
  <2>1. ASSUME PinNewChat(job) PROVE Steady
    BY <2>1, StatementsAreSteady DEF PinNewChat
  <2>2. ASSUME RecordMessage(job), AddAsk(MessageOf(job)) PROVE Steady
    <3>1. job.chat \in 1..created
      BY <2>2, TypedJobs DEF RecordMessage, Waits, GoodJob, Located
    <3> QED BY <2>2, <3>1, LocatedMessage, StatementsAreSteady
  <2>3. ASSUME CreateChat(job) \/ TitleChat(job) PROVE Steady
    BY <2>3, StatementsAreSteady DEF CreateChat, TitleChat
  <2> QED BY <1>1, <1>2, <2>1, <2>2, <2>3
          DEF Reply, ReplyFromTables, ReadVault, ResolveSlotAlias, OpenChat, PollChat,
              CheckConversation, CheckAnswer, CheckRecorded, CheckEmpty,
              RecordMessage, AnnounceMessage
<1>3. ASSUME NEW job \in jobs, Completion(job) PROVE Steady
  <2>1. ASSUME StoreAnswer(job), NEW plain \in BOOLEAN, AddAnswer(MessageOf(job), plain)
        PROVE  Steady
    <3>1. job.kind = "completion" /\ job.chat \in 1..created
      BY <2>1, TypedJobs DEF StoreAnswer, Waits, GoodJob, Located
    <3>2. job.chat \in DOMAIN chats => MessageOf(job) \in DOMAIN asks
      BY <3>1 DEF QuestionsWereRecorded
    <3>3. MessageOf(job) \in Message /\ MessageOf(job)[1] = job.chat
      BY <3>1, LocatedMessage DEF MessageOf
    <3> QED BY <2>1, <3>1, <3>2, <3>3, StatementsAreSteady
  <2>2. ASSUME MarkComplete(job) \/ MarkFailed(job) PROVE Steady
    BY <2>2, StatementsAreSteady DEF MarkComplete, MarkFailed
  <2>3. {TRUE, PlainReplies} \subseteq BOOLEAN
    BY RelayAssumption
  <2> QED BY <1>1, <1>3, <2>1, <2>2, <2>3
          DEF Completion, CheckUnanswered, CallProvider, ProviderAnswers, StoreAnswer,
              AnnounceAnswer
<1>4. ASSUME NEW job \in jobs, Render(job) PROVE Steady
  BY <1>1, <1>4 DEF Render, ReadTitle, ReadRevision, ReadMessages
<1>5. ASSUME NEW c \in ChatIds, UserEdits(c) PROVE Steady
  <2>1. \A u : u = (chats[c].pin = 0) => u \in BOOLEAN
    OBVIOUS
  <2>2. ASSUME SetPinned(c, chats[c].pin = 0) PROVE Steady
    <3> DEFINE u == chats[c].pin = 0
    <3>1. u \in BOOLEAN /\ SetPinned(c, u)
      BY <2>2
    <3> HIDE DEF u
    <3> QED BY <3>1, StatementsAreSteady
  <2> QED BY <1>5, <2>2, StatementsAreSteady DEF UserEdits
<1>6. ASSUME Request \/ Tick \/ Restart PROVE Steady
  BY <1>1, <1>6 DEF Request, Call, Tick, Restart
<1> QED BY <1>2, <1>3, <1>4, <1>5, <1>6 DEF Next

(***************************************************************************)
(* Where the coroutines a step leaves come from                            *)
(***************************************************************************)
Asked(k) ==
  k.kind = "call" /\ ~k.answered /\ k.revision = 0 /\ k.at # "announce"

Moved(k, j) ==
  /\ k.kind = j.kind /\ k.key = j.key /\ k.chat = j.chat /\ k.answered = j.answered
  /\ \/ k.revision = j.revision
     \/ k.revision = 0
     \/ \E c \in DOMAIN chats : k.revision = chats[c].revision
  /\ ~(Waits(j, "completion", "check") /\ MessageOf(j) \in answers)
  /\ k.kind = "call" /\ k.at = "announce" => MessageOf(k) \in DOMAIN asks'

Redirected(k, j) ==
  /\ k.kind = "call" /\ j.kind = "call" /\ k.at # "announce"
  /\ k.answered = j.answered /\ k.revision = j.revision

Launched(k, j) ==
  /\ k.kind = "completion" /\ j.kind = "call" /\ k.at = "check"
  /\ k.key = j.key /\ k.chat = j.chat /\ k.revision = j.revision
  /\ j.at = "announce" \/ MessageOf(j) \in DOMAIN asks
  /\ k.answered => MessageOf(k) \in answers

Origins ==
  \A k \in jobs' :
     \/ k \in jobs
     \/ Asked(k)
     \/ \E j \in jobs : Moved(k, j) \/ Redirected(k, j) \/ Launched(k, j)

LEMMA GoingOrigins ==
  ASSUME Typed, NEW job \in jobs, NEW at \in Place, Goes(job, at),
         ~(Waits(job, "completion", "check") /\ MessageOf(job) \in answers),
         job.kind = "call" /\ at = "announce" => MessageOf(job) \in DOMAIN asks'
  PROVE  Origins
<1> DEFINE k == [job EXCEPT !.at = at]
<1>1. job \in Job
  BY DEF Typed, TypeOK
<1>2. /\ k.kind = job.kind /\ k.key = job.key /\ k.chat = job.chat
      /\ k.answered = job.answered /\ k.revision = job.revision /\ k.at = at
  BY <1>1 DEF Job
<1>3. jobs' = (jobs \ {job}) \cup {k}
  BY DEF Goes, Becomes
<1> HIDE DEF k
<1>4. Moved(k, job)
  BY <1>2 DEF Moved, MessageOf
<1> QED BY <1>3, <1>4 DEF Origins

LEMMA DispatchOrigins ==
  ASSUME Typed, NEW job \in jobs, DispatchAndRender(job), job.kind = "call",
         job.at = "announce" \/ MessageOf(job) \in DOMAIN asks
  PROVE  Origins
<1> DEFINE late == MessageOf(job) \in answers
           render == [job EXCEPT !.at = "title"]
           launch == [job EXCEPT !.kind = "completion", !.at = "check", !.answered = late]
<1>1. job \in Job
  BY DEF Typed, TypeOK
<1>2. /\ render.kind = job.kind /\ render.key = job.key /\ render.chat = job.chat
      /\ render.answered = job.answered /\ render.revision = job.revision
      /\ render.at = "title"
  BY <1>1 DEF Job
<1>3. \A b \in BOOLEAN :
        LET k == [job EXCEPT !.kind = "completion", !.at = "check", !.answered = b]
        IN  /\ k.kind = "completion" /\ k.key = job.key /\ k.chat = job.chat
            /\ k.answered = b /\ k.revision = job.revision /\ k.at = "check"
  BY <1>1 DEF Job
<1>4. jobs' = (jobs \ {job}) \cup {render, launch}
  BY DEF DispatchAndRender
<1>5. late \in BOOLEAN
  OBVIOUS
<1>6. /\ launch.kind = "completion" /\ launch.key = job.key /\ launch.chat = job.chat
      /\ launch.answered = late /\ launch.revision = job.revision /\ launch.at = "check"
  BY <1>3, <1>5
<1> HIDE DEF render, launch
<1>7. Moved(render, job)
  BY <1>2 DEF Moved, Waits
<1>8. Launched(launch, job)
  BY <1>6 DEF Launched, MessageOf
<1> QED BY <1>4, <1>7, <1>8 DEF Origins

LEMMA FinishingOrigins ==
  ASSUME NEW job, Finishes(job)
  PROVE  Origins
BY DEF Finishes, Origins

LEMMA ReplyOrigins ==
  ASSUME Typed, NEW job \in jobs, Reply(job)
  PROVE  Origins
<1>1. job \in Job /\ job.kind = "call"
  BY DEF Typed, TypeOK, Reply, Waits, ReplyFromTables, ReadVault, ResolveSlotAlias,
         OpenChat, PollChat, CheckConversation, CreateChat, PinNewChat, CheckAnswer,
         CheckRecorded, CheckEmpty, TitleChat, RecordMessage, AnnounceMessage
<1>2. ASSUME NEW at \in Place \ {"announce"}, Goes(job, at) PROVE Origins
  BY <1>1, <1>2, GoingOrigins DEF Waits
<1>3. ASSUME NEW c, NEW at \in {"pin", "exists", "open"},
             Becomes(job, [job EXCEPT !.chat = c, !.at = at])
      PROVE  Origins
  <2> DEFINE k == [job EXCEPT !.chat = c, !.at = at]
  <2>1. /\ k.kind = "call" /\ k.at = at
        /\ k.answered = job.answered /\ k.revision = job.revision
    BY <1>1 DEF Job
  <2>2. jobs' = (jobs \ {job}) \cup {k}
    BY <1>3 DEF Becomes
  <2> HIDE DEF k
  <2>3. Redirected(k, job)
    BY <1>1, <2>1 DEF Redirected
  <2> QED BY <2>2, <2>3 DEF Origins
<1>4. ASSUME ReplyFromTables(job) PROVE Origins
  BY <1>4, FinishingOrigins DEF ReplyFromTables
<1>5. ASSUME ReadVault(job) PROVE Origins
  BY SMTT(40), <1>2, <1>5, FinishingOrigins DEF ReadVault, Place
<1>6. ASSUME ResolveSlotAlias(job) PROVE Origins
  BY <1>2, <1>3, <1>6 DEF ResolveSlotAlias, Place
<1>7. ASSUME OpenChat(job) \/ PollChat(job) PROVE Origins
  BY <1>2, <1>7, FinishingOrigins DEF OpenChat, PollChat, Place
<1>8. ASSUME CheckConversation(job) PROVE Origins
  BY SMTT(40), <1>2, <1>8 DEF CheckConversation, Place
<1>9. ASSUME CreateChat(job) PROVE Origins
  BY <1>3, <1>9 DEF CreateChat
<1>10. ASSUME PinNewChat(job) \/ CheckAnswer(job) PROVE Origins
  <2>1. \E at \in {"answered", "read", "title", "recorded"} : Goes(job, at)
    BY <1>10 DEF PinNewChat, CheckAnswer
  <2> QED BY <1>2, <2>1 DEF Place
<1>11. ASSUME CheckRecorded(job) PROVE Origins
  BY <1>1, <1>2, <1>11, DispatchOrigins DEF CheckRecorded, Place
<1>12. ASSUME CheckEmpty(job) \/ TitleChat(job) PROVE Origins
  <2>1. \E at \in {"add", "rename"} : Goes(job, at)
    BY <1>12 DEF CheckEmpty, TitleChat
  <2> QED BY <1>2, <2>1 DEF Place
<1>13. ASSUME RecordMessage(job) PROVE Origins
  <2>1. CASE Finishes(job)
    BY <2>1, FinishingOrigins
  <2>2. CASE AddAsk(MessageOf(job)) /\ Goes(job, "announce")
    <3>1. MessageOf(job) \in DOMAIN asks'
      BY <2>2 DEF AddAsk
    <3> QED BY <1>1, <2>2, <3>1, GoingOrigins DEF Place, Waits
  <2> QED BY <1>13, <2>1, <2>2 DEF RecordMessage
<1>14. ASSUME AnnounceMessage(job) PROVE Origins
  BY <1>1, <1>14, FinishingOrigins, DispatchOrigins DEF AnnounceMessage, Waits
<1> QED BY <1>4, <1>5, <1>6, <1>7, <1>8, <1>9, <1>10, <1>11, <1>12, <1>13, <1>14
        DEF Reply

LEMMA CompletionOrigins ==
  ASSUME Typed, NEW job \in jobs, Completion(job)
  PROVE  Origins
<1>1. job.kind = "completion"
  BY DEF Completion, Waits, CheckUnanswered, CallProvider, ProviderAnswers, MarkComplete,
         StoreAnswer, AnnounceAnswer, MarkFailed
<1>2. ASSUME NEW at \in Place, Goes(job, at),
             job.at # "check" \/ MessageOf(job) \notin answers
      PROVE  Origins
  BY <1>1, <1>2, GoingOrigins DEF Waits
<1>3. ASSUME CheckUnanswered(job) PROVE Origins
  BY <1>2, <1>3, FinishingOrigins DEF CheckUnanswered, Place
<1>4. ASSUME CallProvider(job) \/ ProviderAnswers(job) \/ AnnounceAnswer(job)
      PROVE  Origins
  <2>1. job.at # "check" /\ \E at \in {"provider", "complete", "fail", "title"} : Goes(job, at)
    BY <1>4 DEF CallProvider, ProviderAnswers, AnnounceAnswer, Waits
  <2> QED BY <1>2, <2>1 DEF Place
<1>5. ASSUME MarkComplete(job) \/ StoreAnswer(job) PROVE Origins
  <2>1. job.at # "check" /\ \E at \in {"store", "fail", "announce"} : Goes(job, at)
    BY <1>5 DEF MarkComplete, StoreAnswer, Waits
  <2> QED BY <1>2, <2>1 DEF Place
<1>6. ASSUME MarkFailed(job) PROVE Origins
  BY <1>6, FinishingOrigins DEF MarkFailed
<1> QED BY <1>3, <1>4, <1>5, <1>6 DEF Completion

LEMMA RenderOrigins ==
  ASSUME Typed, NEW job \in jobs, Render(job)
  PROVE  Origins
<1>1. ASSUME ReadTitle(job) PROVE Origins
  BY <1>1, GoingOrigins, FinishingOrigins DEF ReadTitle, Waits, Place
<1>2. ASSUME ReadRevision(job) PROVE Origins
  <2> DEFINE r == IF job.chat \in DOMAIN chats THEN chats[job.chat].revision ELSE 0
             k == [job EXCEPT !.at = "messages", !.revision = r]
  <2>1. job \in Job /\ job.at = "revision"
    BY <1>2 DEF Typed, TypeOK, ReadRevision, Waits
  <2>2. r = 0 \/ \E c \in DOMAIN chats : r = chats[c].revision
    OBVIOUS
  <2>3. jobs' = (jobs \ {job}) \cup {k}
    BY <1>2 DEF ReadRevision, Becomes
  <2> HIDE DEF r
  <2>4. /\ k.kind = job.kind /\ k.key = job.key /\ k.chat = job.chat
        /\ k.answered = job.answered /\ k.revision = r /\ k.at = "messages"
    BY <2>1 DEF Job
  <2> HIDE DEF k
  <2>5. Moved(k, job)
    BY <2>1, <2>2, <2>4 DEF Moved, Waits
  <2> QED BY <2>3, <2>5 DEF Origins
<1>3. ASSUME ReadMessages(job) PROVE Origins
  BY <1>3, FinishingOrigins DEF ReadMessages
<1> QED BY <1>1, <1>2, <1>3 DEF Render

LEMMA StepHasOrigins == Typed /\ Next => Origins
<1> SUFFICES ASSUME Typed, Next PROVE Origins
  OBVIOUS
<1>1. ASSUME Request PROVE Origins
  <2> PICK command \in Commands, target \in Targets, session \in Sessions,
           client \in ClientIds :
             \E known : Call(command, target, session, client, known)
    BY <1>1 DEF Request
  <2> PICK known : Call(command, target, session, client, known)
    OBVIOUS
  <2> DEFINE key == IF command = "SEND" /\ target.by = "slot"
                    THEN <<"legacy", calls + 1>> ELSE <<"client", client>>
             new == [id |-> calls + 1, kind |-> "call", command |-> command,
                     session |-> session, target |-> target, key |-> key,
                     chat |-> IF target.by = "id" THEN target.n ELSE 0,
                     known |-> known, revision |-> 0,
                     answered |-> FALSE, at |-> FirstStep(command, target)]
  <2>1. /\ jobs' = jobs \cup {new}
        /\ new.kind = "call" /\ new.answered = FALSE /\ new.revision = 0
        /\ new.at = FirstStep(command, target)
    BY DEF Call
  <2> HIDE DEF new
  <2>2. new.at # "announce"
    BY <2>1 DEF FirstStep
  <2>3. Asked(new)
    BY <2>1, <2>2 DEF Asked
  <2> QED BY <2>1, <2>3 DEF Origins
<1>2. ASSUME jobs' \subseteq jobs PROVE Origins
  BY <1>2 DEF Origins
<1> QED BY <1>1, <1>2, ReplyOrigins, CompletionOrigins, RenderOrigins
        DEF Next, UserEdits, Tick, Restart

(***************************************************************************)
(* The parts of the invariant                                              *)
(***************************************************************************)
LEMMA StepTime == Typed /\ Next => now' \in Nat /\ now \in Nat /\ now' >= now
<1> SUFFICES ASSUME Typed, Next PROVE now' \in Nat /\ now \in Nat /\ now' >= now
  OBVIOUS
<1>1. now \in Nat
  BY BoundsAreNat DEF Typed, TypeOK
<1>2. UNCHANGED now \/ now' = now + 1
  <2>1. ASSUME Request \/ Tick \/ Restart \/ (\E c \in ChatIds : UserEdits(c))
        PROVE  UNCHANGED now \/ now' = now + 1
    BY <2>1 DEF Request, Call, Tick, Restart, UserEdits, bounds
  <2>2. ASSUME NEW job \in jobs, Reply(job)
        PROVE  UNCHANGED now \/ now' = now + 1
    BY <2>2 DEF Reply, ReplyFromTables, ReadVault, ResolveSlotAlias, OpenChat, PollChat,
       CheckConversation, CreateChat, PinNewChat, CheckAnswer, CheckRecorded,
       CheckEmpty, TitleChat, RecordMessage, AnnounceMessage, bounds
  <2>3. ASSUME NEW job \in jobs, Completion(job)
        PROVE  UNCHANGED now \/ now' = now + 1
    BY <2>3 DEF Completion, CheckUnanswered, CallProvider, ProviderAnswers, MarkComplete,
       StoreAnswer, AnnounceAnswer, MarkFailed, bounds
  <2>4. ASSUME NEW job \in jobs, Render(job)
        PROVE  UNCHANGED now \/ now' = now + 1
    BY <2>4 DEF Render, ReadTitle, ReadRevision, ReadMessages, bounds
  <2> QED BY <2>1, <2>2, <2>3, <2>4 DEF Next
<1> QED BY <1>1, <1>2

(* A page names the revision its coroutine read, and shows what there was. *)
NewPage(page) ==
  \E job \in jobs :
     /\ page.chat = job.chat /\ page.revision = job.revision
     /\ page.shown = Len(changes[job.chat])
     /\ page.chat \in ChatIds

LEMMA StepPages == Typed /\ Next =>
  \A page \in pages' : page \in pages \/ (NewPage(page) /\ UNCHANGED database)
<1> SUFFICES ASSUME Typed, Next
             PROVE  \A page \in pages' :
                      page \in pages \/ (NewPage(page) /\ UNCHANGED database)
  OBVIOUS
<1>1. ASSUME NEW job \in jobs, ReadMessages(job)
      PROVE  \A page \in pages' :
               page \in pages \/ (NewPage(page) /\ UNCHANGED database)
  <2>1. job.chat \in ChatIds
    <3>1. job.chat \in 1..created
      BY <1>1, TypedJobs DEF ReadMessages, Waits, GoodJob, Located
    <3> QED BY <3>1, LocatedMessage
  <2> QED BY <1>1, <2>1 DEF ReadMessages, NewPage
<1>2. (\A job \in jobs : ~ReadMessages(job)) => pages' = pages
  <2>1. ASSUME Request \/ Tick \/ Restart \/ (\E c \in ChatIds : UserEdits(c))
        PROVE  pages' = pages
    BY <2>1 DEF Request, Call, Tick, Restart, UserEdits
  <2>2. ASSUME NEW job \in jobs, Reply(job)
        PROVE  pages' = pages
    BY <2>2 DEF Reply, ReplyFromTables, ReadVault, ResolveSlotAlias, OpenChat, PollChat,
       CheckConversation, CreateChat, PinNewChat, CheckAnswer, CheckRecorded,
       CheckEmpty, TitleChat, RecordMessage, AnnounceMessage
  <2>3. ASSUME NEW job \in jobs, Completion(job)
        PROVE  pages' = pages
    BY <2>3 DEF Completion, CheckUnanswered, CallProvider, ProviderAnswers, MarkComplete,
       StoreAnswer, AnnounceAnswer, MarkFailed
  <2>4. ASSUME NEW job \in jobs, Render(job), ~ReadMessages(job)
        PROVE  pages' = pages
    BY <2>4 DEF Render, ReadTitle, ReadRevision
  <2> QED BY <2>1, <2>2, <2>3, <2>4 DEF Next
<1> QED BY <1>1, <1>2

LEMMA RevisionsStep == Typed /\ QuestionsWereRecorded /\ RevisionsArePast /\ Next
                       => RevisionsArePast'
<1> SUFFICES ASSUME Typed, QuestionsWereRecorded, RevisionsArePast, Next
             PROVE  RevisionsArePast'
  OBVIOUS
<1> USE StepTime
<1>1. ASSUME NEW c \in DOMAIN chats' PROVE chats'[c].revision <= now'
  <2>1. \A d \in DOMAIN chats : chats[d].revision \in Nat /\ chats[d].revision <= now
    BY BoundsAreNat DEF RevisionsArePast, Typed, TypeOK, Chat
  <2>2. chats'[c].revision = now \/ \E d \in DOMAIN chats : chats'[c].revision = chats[d].revision
    BY StepIsSteady DEF Steady
  <2> QED BY <2>1, <2>2
<1>2. ASSUME NEW k \in jobs' PROVE k.revision <= now'
  <2>1. \A d \in DOMAIN chats : chats[d].revision \in Nat /\ chats[d].revision <= now
    BY BoundsAreNat DEF RevisionsArePast, Typed, TypeOK, Chat
  <2>2. \A j \in jobs : j.revision \in Nat /\ j.revision <= now
    BY BoundsAreNat DEF RevisionsArePast, Typed, TypeOK, Job
  <2>3. \/ k.revision = 0
        \/ \E j \in jobs : k.revision = j.revision
        \/ \E d \in DOMAIN chats : k.revision = chats[d].revision
    BY StepHasOrigins DEF Origins, Asked, Moved, Redirected, Launched
  <2> QED BY <2>1, <2>2, <2>3
<1>3. ASSUME NEW page \in pages' PROVE page.revision <= now'
  <2>1. \A j \in jobs : j.revision \in Nat /\ j.revision <= now
    BY BoundsAreNat DEF RevisionsArePast, Typed, TypeOK, Job
  <2>2. \A p \in pages : p.revision \in Nat /\ p.revision <= now
    BY BoundsAreNat DEF RevisionsArePast, Typed, TypeOK
  <2>3. page \in pages \/ \E j \in jobs : page.revision = j.revision
    BY StepPages DEF NewPage
  <2> QED BY <2>1, <2>2, <2>3
<1> QED BY <1>1, <1>2, <1>3 DEF RevisionsArePast

(* A change is written under the present second, which no page's revision  *)
(* exceeds: what comes after a page cannot be older than its revision.     *)
LEMMA PagesStep == Typed /\ QuestionsWereRecorded /\ RevisionsArePast
                   /\ PageCoversItsRevision /\ Next => PageCoversItsRevision'
<1> SUFFICES ASSUME Typed, QuestionsWereRecorded, RevisionsArePast,
                    PageCoversItsRevision, Next,
                    NEW page \in pages', NEW i \in DOMAIN changes'[page.chat],
                    changes'[page.chat][i] < page.revision
             PROVE  i <= page.shown
  BY DEF PageCoversItsRevision
<1>1. CASE page \in pages
  <2>1. /\ page.chat \in ChatIds /\ page.revision \in Nat /\ page.revision <= now
        /\ now \in Nat /\ changes[page.chat] \in Seq(0..MaxTime)
    BY <1>1, BoundsAreNat DEF RevisionsArePast, Typed, TypeOK
  <2>2. \/ changes'[page.chat] = changes[page.chat]
        \/ changes'[page.chat] = Append(changes[page.chat], now)
    BY <2>1, StepIsSteady DEF Steady
  <2>3. i \in DOMAIN changes[page.chat] /\ changes[page.chat][i] < page.revision
    <3> DEFINE before == changes[page.chat]
               after  == changes'[page.chat]
    <3>1. before \in Seq(0..MaxTime) /\ i \in DOMAIN after /\ after[i] < page.revision
      BY <2>1
    <3>2. after = before \/ after = Append(before, now)
      BY <2>2
    <3> HIDE DEF before, after
    <3>3. CASE after = before
      BY <3>1, <3>3 DEF before
    <3>4. CASE after = Append(before, now)
      <4>1. Len(before) \in Nat /\ i \in 1..(Len(before) + 1)
        BY <3>1, <3>4
      <4>2. i # Len(before) + 1
        BY <2>1, <3>1, <3>4, <4>1
      <4>3. i \in 1..Len(before) /\ before[i] = after[i]
        BY <3>1, <3>4, <4>1, <4>2
      <4> QED BY <3>1, <4>3 DEF before
    <3> QED BY <3>2, <3>3, <3>4
  <2> QED BY <1>1, <2>3 DEF PageCoversItsRevision
<1>2. CASE NewPage(page) /\ UNCHANGED database
  <2>1. page.chat \in ChatIds /\ page.shown = Len(changes'[page.chat])
    BY <1>2 DEF NewPage, database
  <2>2. changes'[page.chat] \in Seq(0..MaxTime)
    BY <1>2, <2>1 DEF database, Typed, TypeOK
  <2> QED BY <2>1, <2>2
<1> QED BY <1>1, <1>2, StepPages

LEMMA QuestionsStep == Typed /\ QuestionsWereRecorded /\ Next => QuestionsWereRecorded'
<1> SUFFICES ASSUME Typed, QuestionsWereRecorded, Next,
                    NEW k \in jobs', k.kind = "completion" \/ k.at = "announce",
                    k.chat \in DOMAIN chats'
             PROVE  MessageOf(k) \in DOMAIN asks'
  BY DEF QuestionsWereRecorded
<1>1. Steady /\ Origins
  BY StepIsSteady, StepHasOrigins
<1>2. ASSUME NEW j \in jobs, j.key = k.key, j.chat = k.chat,
             j.kind = "completion" \/ j.at = "announce" \/ MessageOf(j) \in DOMAIN asks,
             Located(j)
      PROVE  MessageOf(k) \in DOMAIN asks'
  <2>1. j.chat \in 1..created /\ created \in Nat
    BY <1>2, TypedJobs, BoundsAreNat DEF GoodJob
  <2>2. j.chat \in DOMAIN chats
    BY <1>1, <1>2, <2>1 DEF Steady
  <2>3. MessageOf(j) \in DOMAIN asks
    BY <1>2, <2>2 DEF QuestionsWereRecorded
  <2> QED BY <1>1, <1>2, <2>3 DEF Steady, MessageOf
<1>3. CASE k \in jobs
  <2>1. Located(k)
    BY DEF Located
  <2> QED BY <1>2, <1>3, <2>1
<1>4. CASE Asked(k)
  BY <1>4 DEF Asked
<1>5. ASSUME NEW j \in jobs, Moved(k, j) PROVE MessageOf(k) \in DOMAIN asks'
  <2>1. CASE k.kind = "completion"
    BY <1>2, <1>5, <2>1 DEF Moved, Located
  <2>2. CASE k.kind # "completion"
    <3>1. k.kind = "call"
      BY <1>5, <2>2 DEF Moved, Typed, TypeOK, Job
    <3> QED BY <1>5, <2>2, <3>1 DEF Moved
  <2> QED BY <2>1, <2>2
<1>6. ASSUME NEW j \in jobs, Redirected(k, j) PROVE MessageOf(k) \in DOMAIN asks'
  BY <1>6 DEF Redirected
<1>7. ASSUME NEW j \in jobs, Launched(k, j) PROVE MessageOf(k) \in DOMAIN asks'
  <2>1. CASE j.at = "announce"
    BY <1>2, <1>7, <2>1 DEF Launched, Located
  <2>2. CASE MessageOf(j) \in DOMAIN asks
    BY <1>1, <1>7, <2>2 DEF Launched, Steady, MessageOf
  <2> QED BY <1>7, <2>1, <2>2 DEF Launched
<1> QED BY <1>1, <1>3, <1>4, <1>5, <1>6, <1>7 DEF Origins

LEMMA AnswersStep == Typed /\ QuestionsWereRecorded /\ AnswersHaveTheirQuestion /\ Next
                     => AnswersHaveTheirQuestion'
<1> SUFFICES ASSUME Typed, QuestionsWereRecorded, AnswersHaveTheirQuestion, Next,
                    NEW m \in answers', m[1] \in DOMAIN chats'
             PROVE  m \in DOMAIN asks'
  BY DEF AnswersHaveTheirQuestion
<1>1. Steady /\ created \in Nat
  BY StepIsSteady, BoundsAreNat, TypedCounters
<1>2. m[1] \in 1..created
  BY <1>1 DEF Steady, Typed, ChatsWereCreated
<1>3. m[1] \in DOMAIN chats
  BY <1>1, <1>2 DEF Steady
<1>4. m \in DOMAIN asks
  BY <1>1, <1>3 DEF Steady, AnswersHaveTheirQuestion
<1> QED BY <1>1, <1>4 DEF Steady

(* Without the user, answers only come, and pins stay.                     *)
LEMMA WithoutTheUser ==
  ASSUME Typed, Next, edits' = 0
  PROVE  /\ edits = 0 /\ answers \subseteq answers'
         /\ \A c \in DOMAIN chats' :
              chats'[c].pin = 0 =>
                \/ c \in DOMAIN chats /\ chats[c].pin = 0
                \/ \E job \in jobs : CreateChat(job) /\ c = created + 1
<1> DEFINE Quiet == /\ edits = 0 /\ answers \subseteq answers'
                    /\ \A c \in DOMAIN chats' :
                         chats'[c].pin = 0 =>
                           \/ c \in DOMAIN chats /\ chats[c].pin = 0
                           \/ \E job \in jobs : CreateChat(job) /\ c = created + 1
<1>1. ASSUME UNCHANGED <<database, edits>> PROVE Quiet
  BY <1>1 DEF database
<1>2. ASSUME NEW c, Touch(c), UNCHANGED edits, answers \subseteq answers' PROVE Quiet
  <2>1. CASE c \in DOMAIN chats
    <3>1. chats' = [chats EXCEPT ![c].revision = now]
      BY <1>2, <2>1 DEF Touch
    <3>2. \A d \in DOMAIN chats : chats[d] \in Chat
      BY DEF Typed, TypeOK
    <3>3. DOMAIN chats' = DOMAIN chats /\ \A d \in DOMAIN chats : chats'[d].pin = chats[d].pin
      BY <3>1, <3>2 DEF Chat
    <3> QED BY <1>2, <3>3
  <2>2. CASE c \notin DOMAIN chats
    BY <1>2, <2>2 DEF Touch
  <2> QED BY <2>1, <2>2
<1>3. ASSUME NEW job \in jobs, Reply(job) PROVE Quiet
  <2>1. ASSUME CreateChat(job) PROVE Quiet
    BY <2>1 DEF CreateChat, CreateConversation, bounds
  <2>2. ASSUME PinNewChat(job) PROVE Quiet
    <3>1. /\ SetPinned(job.chat, TRUE) /\ UNCHANGED <<edits, answers>>
          /\ pinClock + 1 # 0
      BY <2>2 DEF PinNewChat, SetPinned, bounds, Typed, TypeOK
    <3> QED BY SMTT(40), <3>1 DEF SetPinned, Typed, TypeOK, Chat
  <2>3. ASSUME TitleChat(job) PROVE Quiet
    BY <1>2, <2>3 DEF TitleChat, RenameConversation, bounds
  <2>4. ASSUME RecordMessage(job) PROVE Quiet
    BY <1>1, <1>2, <2>4 DEF RecordMessage, AddAsk, bounds, database
  <2> QED BY <1>1, <1>3, <2>1, <2>2, <2>3, <2>4
          DEF Reply, ReplyFromTables, ReadVault, ResolveSlotAlias, OpenChat, PollChat,
              CheckConversation, CheckAnswer, CheckRecorded, CheckEmpty,
              AnnounceMessage, bounds
<1>4. ASSUME NEW job \in jobs, Completion(job) PROVE Quiet
  <2>1. ASSUME NEW st, SetMessageStatus(MessageOf(job), st), UNCHANGED edits PROVE Quiet
    BY <1>1, <1>2, <2>1 DEF SetMessageStatus
  <2>2. ASSUME NEW plain, AddAnswer(MessageOf(job), plain), UNCHANGED edits PROVE Quiet
    BY ZenonT(40), <2>2 DEF AddAnswer, Typed, TypeOK, Chat
  <2> QED BY <1>1, <1>4, <2>1, <2>2
          DEF Completion, CheckUnanswered, CallProvider, ProviderAnswers, MarkComplete,
              StoreAnswer, AnnounceAnswer, MarkFailed, bounds
<1>5. ASSUME NEW job \in jobs, Render(job) PROVE Quiet
  BY <1>1, <1>5 DEF Render, ReadTitle, ReadRevision, ReadMessages, bounds
<1>6. ASSUME NEW c \in ChatIds, UserEdits(c) PROVE FALSE
  BY <1>6 DEF UserEdits, Typed, TypeOK
<1>7. ASSUME Request \/ Tick \/ Restart PROVE Quiet
  BY <1>1, <1>7 DEF Request, Call, Tick, Restart
<1>8. Quiet
  BY <1>3, <1>4, <1>5, <1>6, <1>7 DEF Next
<1> QED BY <1>8

LEMMA LateStep == Typed /\ LateCompletionsWait /\ Next => LateCompletionsWait'
<1> SUFFICES ASSUME Typed, LateCompletionsWait, Next, edits' = 0,
                    NEW k \in jobs', k.answered
             PROVE  k.kind = "completion" /\ k.at = "check" /\ MessageOf(k) \in answers'
  BY DEF LateCompletionsWait, Waits, MessageOf
<1>1. edits = 0 /\ answers \subseteq answers' /\ Origins
  BY WithoutTheUser, StepHasOrigins
<1>2. \A j \in jobs : j.answered =>
         /\ Waits(j, "completion", "check") /\ MessageOf(j) \in answers
         /\ j.kind # "call" /\ j.at = "check"
  BY <1>1 DEF LateCompletionsWait, Waits
<1>3. k \in jobs \/ \E j \in jobs : Launched(k, j)
  BY <1>1, <1>2 DEF Origins, Asked, Moved, Redirected
<1> QED BY <1>1, <1>2, <1>3 DEF Launched, Waits

(***************************************************************************)
(* Coroutines that wait are only ended by their own step or a restart      *)
(***************************************************************************)
LEMMA StepLeaves ==
  ASSUME Typed, Next, NEW j \in jobs, j \notin jobs', restarts' = restarts
  PROVE  Reply(j) \/ Completion(j) \/ Render(j)
<1>1. ASSUME NEW job \in jobs, Reply(job) \/ Completion(job) \/ Render(job)
      PROVE  jobs \ {job} \subseteq jobs'
  BY <1>1 DEF Reply, ReplyFromTables, ReadVault, ResolveSlotAlias, OpenChat, PollChat,
     CheckConversation, CreateChat, PinNewChat, CheckAnswer, CheckRecorded, CheckEmpty,
     TitleChat, RecordMessage, AnnounceMessage,
     Completion, CheckUnanswered, CallProvider, ProviderAnswers, MarkComplete,
     StoreAnswer, AnnounceAnswer, MarkFailed, Render, ReadTitle, ReadRevision,
     ReadMessages, Goes, Becomes, Finishes, DispatchAndRender
<1>2. ~Restart
  BY BoundsAreNat, TypedCounters DEF Restart
<1>3. ASSUME Request \/ Tick \/ (\E c \in ChatIds : UserEdits(c))
      PROVE  jobs \subseteq jobs'
  BY <1>3 DEF Request, Call, Tick, UserEdits
<1> QED BY <1>1, <1>2, <1>3 DEF Next

LEMMA NoRestart ==
  ASSUME Typed, Next, restarts' = 0
  PROVE  restarts = 0
<1>1. UNCHANGED restarts \/ restarts' = restarts + 1
  <2>1. ASSUME Request \/ Tick \/ Restart \/ (\E c \in ChatIds : UserEdits(c))
        PROVE  UNCHANGED restarts \/ restarts' = restarts + 1
    BY <2>1 DEF Request, Call, Tick, Restart, UserEdits, bounds
  <2>2. ASSUME NEW job \in jobs, Reply(job)
        PROVE  UNCHANGED restarts \/ restarts' = restarts + 1
    BY <2>2 DEF Reply, ReplyFromTables, ReadVault, ResolveSlotAlias, OpenChat, PollChat,
       CheckConversation, CreateChat, PinNewChat, CheckAnswer, CheckRecorded,
       CheckEmpty, TitleChat, RecordMessage, AnnounceMessage, bounds
  <2>3. ASSUME NEW job \in jobs, Completion(job)
        PROVE  UNCHANGED restarts \/ restarts' = restarts + 1
    BY <2>3 DEF Completion, CheckUnanswered, CallProvider, ProviderAnswers, MarkComplete,
       StoreAnswer, AnnounceAnswer, MarkFailed, bounds
  <2>4. ASSUME NEW job \in jobs, Render(job)
        PROVE  UNCHANGED restarts \/ restarts' = restarts + 1
    BY <2>4 DEF Render, ReadTitle, ReadRevision, ReadMessages, bounds
  <2> QED BY <2>1, <2>2, <2>3, <2>4 DEF Next
<1> QED BY <1>1, BoundsAreNat, TypedCounters

LEMMA PinnedStep == Typed /\ NewChatsArePinned /\ Next => NewChatsArePinned'
<1> SUFFICES ASSUME Typed, NewChatsArePinned, Next, edits' = 0, restarts' = 0,
                    NEW c \in DOMAIN chats', chats'[c].pin = 0
             PROVE  \E k \in jobs' : k.kind = "call" /\ k.at = "pin" /\ k.chat = c
  BY DEF NewChatsArePinned, Waits
<1>1. edits = 0 /\ restarts = 0
  BY WithoutTheUser, NoRestart
<1>2. CASE c \in DOMAIN chats /\ chats[c].pin = 0
  <2>1. PICK j \in jobs : Waits(j, "call", "pin") /\ j.chat = c
    BY <1>1, <1>2 DEF NewChatsArePinned
  <2>2. ~PinNewChat(j)
    <3>1. ASSUME SetPinned(c, TRUE) PROVE FALSE
      <4>1. chats' = [chats EXCEPT ![c].pin = pinClock + 1, ![c].revision = now]
        BY <1>2, <3>1 DEF SetPinned
      <4>2. chats'[c].pin = pinClock + 1 /\ pinClock \in Nat
        BY <1>2, <4>1 DEF Typed, TypeOK, Chat
      <4> QED BY <4>2
    <3> QED BY <2>1, <3>1 DEF PinNewChat
  <2>3. ~(Reply(j) \/ Completion(j) \/ Render(j))
    BY <2>1, <2>2
       DEF Reply, Waits, ReplyFromTables, ReadVault, ResolveSlotAlias, OpenChat,
           PollChat, CheckConversation, CreateChat, CheckAnswer, CheckRecorded,
           CheckEmpty, TitleChat, RecordMessage, AnnounceMessage, Completion,
           CheckUnanswered, CallProvider, ProviderAnswers, MarkComplete, StoreAnswer,
           AnnounceAnswer, MarkFailed, Render, ReadTitle, ReadRevision, ReadMessages
  <2>4. j \in jobs'
    BY <1>1, <2>3, StepLeaves
  <2> QED BY <2>1, <2>4 DEF Waits
<1>3. ASSUME NEW job \in jobs, CreateChat(job), c = created + 1
      PROVE  \E k \in jobs' : k.kind = "call" /\ k.at = "pin" /\ k.chat = c
  <2>1. job \in Job /\ job.kind = "call"
    BY <1>3 DEF CreateChat, Waits, Typed, TypeOK
  <2>2. [job EXCEPT !.chat = created + 1, !.at = "pin"] \in jobs'
    BY <1>3 DEF CreateChat, Becomes
  <2> QED BY <1>3, <2>1, <2>2 DEF Job
<1> QED BY <1>2, <1>3, WithoutTheUser

(* The statuses: only MarkComplete makes a message complete.               *)
LEMMA StepCompletes ==
  ASSUME Typed, Next, NEW m \in DOMAIN asks', asks'[m] = "complete"
  PROVE  \/ m \in DOMAIN asks /\ asks[m] = "complete"
         \/ \E job \in jobs : MarkComplete(job) /\ MessageOf(job) = m
<1> DEFINE Done == \/ m \in DOMAIN asks /\ asks[m] = "complete"
                   \/ \E job \in jobs : MarkComplete(job) /\ MessageOf(job) = m
<1>1. ASSUME UNCHANGED asks PROVE Done
  BY <1>1
<1>2. ASSUME NEW job \in jobs, Reply(job) PROVE Done
  <2>1. ASSUME NEW k, AddAsk(k) PROVE Done
    BY <2>1 DEF AddAsk
  <2> QED BY <1>1, <1>2, <2>1
          DEF Reply, ReplyFromTables, ReadVault, ResolveSlotAlias, OpenChat, PollChat,
              CheckConversation, CreateChat, CreateConversation, PinNewChat, SetPinned,
              CheckAnswer, CheckRecorded, CheckEmpty, TitleChat, RenameConversation,
              RecordMessage, AnnounceMessage, database
<1>3. ASSUME NEW job \in jobs, Completion(job) PROVE Done
  <2>1. ASSUME NEW k, NEW st, SetMessageStatus(k, st)
        PROVE  Done \/ (m = k /\ st = "complete")
    BY <2>1 DEF SetMessageStatus, database, Typed, TypeOK
  <2>2. ASSUME MarkComplete(job) PROVE Done
    BY <2>1, <2>2 DEF MarkComplete
  <2>3. ASSUME MarkFailed(job) PROVE Done
    BY <2>1, <2>3 DEF MarkFailed
  <2> QED BY <1>1, <1>3, <2>2, <2>3
          DEF Completion, CheckUnanswered, CallProvider, ProviderAnswers, StoreAnswer,
              AddAnswer, AnnounceAnswer, database
<1>4. ASSUME NEW job \in jobs, Render(job) PROVE Done
  BY <1>1, <1>4 DEF Render, ReadTitle, ReadRevision, ReadMessages, database
<1>5. ASSUME NEW c \in ChatIds, UserEdits(c) PROVE Done
  BY <1>1, <1>5 DEF UserEdits, RenameConversation, SetPinned, DeleteConversation
<1>6. ASSUME Request \/ Tick \/ Restart PROVE Done
  BY <1>1, <1>6 DEF Request, Call, Tick, Restart, database
<1>7. Done
  BY <1>2, <1>3, <1>4, <1>5, <1>6 DEF Next
<1> QED BY <1>7

LEMMA CompleteStep == Typed /\ QuestionsWereRecorded /\ CompleteMeansAnswered /\ Next
                      => CompleteMeansAnswered'
<1> DEFINE Answered(m) ==
      \/ m \in answers'
      \/ \E k \in jobs' : k.kind = "completion" /\ k.at = "store" /\ MessageOf(k) = m
<1> SUFFICES ASSUME Typed, QuestionsWereRecorded, CompleteMeansAnswered, Next,
                    restarts' = 0, NEW m \in DOMAIN asks', asks'[m] = "complete"
             PROVE  Answered(m)
  BY DEF CompleteMeansAnswered, Waits, MessageOf
<1>1. restarts = 0 /\ Steady
  BY NoRestart, StepIsSteady
<1>2. ASSUME NEW job \in jobs, MarkComplete(job), MessageOf(job) = m PROVE Answered(m)
  <2>1. job \in Job /\ job.kind = "completion"
    BY <1>2 DEF MarkComplete, Waits, Typed, TypeOK
  <2>2. [job EXCEPT !.at = "store"] \in jobs'
    BY <1>2 DEF MarkComplete, Goes, Becomes
  <2>3. LET k == [job EXCEPT !.at = "store"]
        IN  k.kind = "completion" /\ k.at = "store" /\ MessageOf(k) = m
    BY <1>2, <2>1 DEF Job, MessageOf
  <2> QED BY <2>2, <2>3
<1>3. CASE m \in DOMAIN asks /\ asks[m] = "complete"
  <2>1. CASE m \in answers
    BY <1>1, <2>1 DEF Steady
  <2>2. ASSUME NEW j \in jobs, Waits(j, "completion", "store"), MessageOf(j) = m
        PROVE  Answered(m)
    <3>1. CASE j \in jobs'
      BY <2>2, <3>1 DEF Waits
    <3>2. CASE j \notin jobs'
      <4>1. Reply(j) \/ Completion(j) \/ Render(j)
        BY <1>1, <3>2, StepLeaves
      <4>2. StoreAnswer(j)
        BY <2>2, <4>1
           DEF Reply, Waits, ReplyFromTables, ReadVault, ResolveSlotAlias, OpenChat,
               PollChat, CheckConversation, CreateChat, PinNewChat, CheckAnswer,
               CheckRecorded, CheckEmpty, TitleChat, RecordMessage, AnnounceMessage,
               Completion, CheckUnanswered, CallProvider, ProviderAnswers, MarkComplete,
               AnnounceAnswer, MarkFailed, Render, ReadTitle, ReadRevision, ReadMessages
      <4> QED BY <2>2, <4>2 DEF StoreAnswer, AddAnswer, database
    <3> QED BY <3>1, <3>2
  <2> QED BY <1>1, <1>3, <2>1, <2>2 DEF CompleteMeansAnswered
<1> QED BY <1>2, <1>3, StepCompletes

(***************************************************************************)
(* The theorems                                                            *)
(***************************************************************************)
Inductive == Typed /\ RelayInvariant

LEMMA InductiveInit == Init => Inductive
<1> SUFFICES ASSUME Init PROVE RelayInvariant
  BY TypedInit DEF Inductive
<1> QED BY TypedInit DEF Init, Typed, RelayInvariant, ChatsWereCreated,
        QuestionsWereRecorded, LateCompletionsWait, RevisionsArePast,
        PageCoversItsRevision, NewChatsArePinned, AnswersHaveTheirQuestion,
        CompleteMeansAnswered

LEMMA InductiveStep == Inductive /\ [Next]_vars => Inductive'
<1>1. ASSUME Inductive, Next PROVE Inductive'
  <2>1. Typed'
    BY <1>1, TypedStep DEF Inductive
  <2> QED BY <1>1, <2>1, QuestionsStep, LateStep, RevisionsStep, PagesStep, PinnedStep,
             AnswersStep, CompleteStep
          DEF Inductive, RelayInvariant, Typed
<1>2. ASSUME Inductive, UNCHANGED vars PROVE Inductive'
  <2>1. Typed'
    BY <1>2, TypedStep DEF Inductive
  <2> QED BY <1>2, <2>1 DEF Inductive, RelayInvariant, ChatsWereCreated,
        QuestionsWereRecorded, LateCompletionsWait, RevisionsArePast,
        PageCoversItsRevision, NewChatsArePinned, AnswersHaveTheirQuestion,
        CompleteMeansAnswered, vars, database, Waits, MessageOf
<1> QED BY <1>1, <1>2

(* Everything RelayInvariant says: questions precede their answers, chats  *)
(* stay pinned, nothing is complete without an answer in sight, and no     *)
(* coroutine or page is ahead of the clock.                                *)
THEOREM RelayIsConsistent == Spec => []RelayInvariant
<1>1. Spec => []Inductive
  BY InductiveInit, InductiveStep, PTL DEF Spec
<1> QED BY <1>1, PTL DEF Inductive

(* A page never names a revision later than a change it leaves out, for    *)
(* any interleaving of sends, completions, edits and renderings: a POLL    *)
(* for that revision hides no change of an earlier second.                 *)
THEOREM PagesCoverTheirRevisions == Spec => []PageCoversItsRevision
BY RelayIsConsistent, PTL DEF RelayInvariant

(* Whatever calls overlap, a chat made for the calculator gets on its list *)
(* of pinned chats, or the call that made it is just about to pin it.      *)
THEOREM NewChatsStayPinned == Spec => []NewChatsArePinned
BY RelayIsConsistent, PTL DEF RelayInvariant

(* A stored answer always has its recorded question in its chat.           *)
THEOREM AnswersFollowQuestions == Spec => []AnswersHaveTheirQuestion
BY RelayIsConsistent, PTL DEF RelayInvariant

(* While the app lives, a message marked complete has its answer stored or *)
(* its completion about to store it.                                       *)
THEOREM CompleteMessagesHaveAnswers == Spec => []CompleteMeansAnswered
BY RelayIsConsistent, PTL DEF RelayInvariant

(* A completion that started after its answer was stored is stopped by the *)
(* check before the provider call, however late it runs.                   *)
THEOREM LateCompletionsAreStopped == Spec => AnsweredMessageIsNotResubmitted
<1>1. ASSUME LateCompletionsWait, edits = 0, NEW job \in jobs, CallProvider(job)
      PROVE  ~job.answered
  BY <1>1 DEF LateCompletionsWait, CallProvider, Waits
<1>2. RelayInvariant /\ [Next]_vars
      => [\A job \in jobs : edits = 0 /\ CallProvider(job) => ~job.answered]_vars
  BY <1>1 DEF RelayInvariant
<1> QED BY <1>2, RelayIsConsistent, PTL DEF Spec, AnsweredMessageIsNotResubmitted
=============================================================================
