--------------------------- MODULE CalculatorRelay ---------------------------
(***************************************************************************)
(* The phone's relay: class CalculatorRelay of                             *)
(* relay/data/calculator_relay.dart on top of the tables of                *)
(* conversations/data/app_database.dart.                                   *)
(*                                                                         *)
(* reply() is called once per request the Pico completes; the calls, and   *)
(* the provider completions they leave behind, are coroutines that overlap *)
(* at every await.  A step is one await's answer and the code up to the    *)
(* next await.  Each statement or transaction of the database is one step; *)
(* DateTime columns hold whole seconds, so rows written within a second    *)
(* carry the same time.                                                    *)
(*                                                                         *)
(* Text is abstract: of a chat it matters whether all of it is ASCII, of a *)
(* page which revision it names and which changes of the chat it shows.    *)
(***************************************************************************)
EXTENDS Integers, Sequences, FiniteSets

CONSTANTS
  MaxChats,      \* bound: chats there can ever be, C1, C2, ...
  ClientIds,     \* the clientMessageIds the calculator uses
  Sessions,      \* idempotency keys the transports make up
  Targets,       \* chats requests name: New, Id(c) and Slot(s)
  Commands,      \* the commands of this instance
  MaxCalls,      \* bound: calls of reply()
  MaxEdits,      \* bound: renames, pins and deletions on the phone
  MaxTime,       \* bound: seconds that pass
  MaxRestarts,   \* bound: how often the app is killed
  PlainReplies   \* whether providers answer in ASCII only

RelayCommands == {"LIST", "CATALOG", "NEW", "OPEN", "POLL", "SCROLL", "SEND"}

New     == [by |-> "new", n |-> 0]
Id(c)   == [by |-> "id", n |-> c]
Slot(s) == [by |-> "slot", n |-> s]
AnyTarget == {New} \cup {Id(c) : c \in 1..MaxChats} \cup {Slot(s) : s \in 0..MaxChats}

ASSUME RelayAssumption ==
  /\ MaxChats \in Nat \ {0} /\ MaxCalls \in Nat /\ MaxEdits \in Nat
  /\ MaxTime \in Nat \ {0} /\ MaxRestarts \in Nat
  /\ Targets \subseteq AnyTarget /\ Commands \subseteq RelayCommands
  /\ PlainReplies \in BOOLEAN

VARIABLES
  chats,         \* table Conversations: what is kept of each chat there is
  asks,          \* table ChatMessages, role user: status of each message
  answers,       \* table ChatMessages, role assistant, by the message answered
  pinClock,      \* the millisecond clock, as far as pinOrder shows it
  jobs,          \* coroutines between two awaits
  calls,         \* calls of reply() so far
  now,           \* the clock, in seconds
  edits, restarts,      \* what has been used of the bounds
  created,       \* history: chats created so far
  changes,       \* history: when the messages of each chat changed
  pages,         \* history: chat pages rendered, with revision and changes shown
  submitted      \* history: provider calls, in order

database == <<chats, asks, answers, pinClock, created, changes>>
vars == <<database, jobs, calls, now, edits, restarts, pages, submitted>>

ChatIds == 1..MaxChats
Key     == ({"client"} \X ClientIds) \cup ({"legacy"} \X (1..MaxCalls))
Message == ChatIds \X Key
Chat    == [pin : Nat, revision : 0..MaxTime, plain : BOOLEAN]

Place == {"read", "vault", "slot", "open", "poll", "exists", "create", "pin",
          "answered", "recorded", "empty", "rename", "add", "announce",
          "title", "revision", "messages",
          "check", "history", "provider", "complete", "store", "fail"}

Job == [id : 1..MaxCalls, kind : {"call", "completion"}, command : RelayCommands,
        session : Sessions, target : AnyTarget, key : Key,
        chat : 0..MaxChats, known : 0..MaxTime, revision : 0..MaxTime,
        answered : BOOLEAN, at : Place]

TypeOK ==
  /\ chats \in [DOMAIN chats -> Chat] /\ DOMAIN chats \subseteq ChatIds
  /\ asks \in [DOMAIN asks -> {"sending", "complete", "failed"}]
  /\ DOMAIN asks \subseteq Message
  /\ answers \subseteq Message /\ pinClock \in Nat
  /\ jobs \subseteq Job
  /\ calls \in 0..MaxCalls /\ now \in 0..MaxTime
  /\ edits \in 0..MaxEdits /\ restarts \in 0..MaxRestarts
  /\ created \in 0..MaxChats
  /\ changes \in [ChatIds -> Seq(0..MaxTime)]
  /\ pages \subseteq [chat : ChatIds, revision : 0..MaxTime, shown : Nat]
  /\ submitted \in Seq(Message)

(* One pinned chat with nothing in it, made by the user; the clock runs.   *)
Init ==
  /\ chats = [c \in {1} |-> [pin |-> 1, revision |-> 1, plain |-> TRUE]]
  /\ asks = [m \in {} |-> "sending"] /\ answers = {} /\ pinClock = 1
  /\ jobs = {} /\ calls = 0 /\ now = 1 /\ edits = 0 /\ restarts = 0
  /\ created = 1
  /\ changes = [c \in ChatIds |-> <<>>]
  /\ pages = {} /\ submitted = <<>>

(***************************************************************************)
(* Database statements                                                     *)
(***************************************************************************)
TouchAhead(c) ==
  chats' = [d \in DOMAIN chats |->
              IF d = c THEN [chats[d] EXCEPT !.revision = now + 1] ELSE chats[d]]

Touch(c) == IF c \in DOMAIN chats
            THEN chats' = [chats EXCEPT ![c].revision = now] ELSE UNCHANGED chats

MessagesChange(c) == changes' = [changes EXCEPT ![c] = Append(@, now)]

CreateConversation ==
  /\ created < MaxChats
  /\ created' = created + 1
  /\ chats' = [c \in DOMAIN chats \cup {created + 1} |->
                 IF c = created + 1 THEN [pin |-> 0, revision |-> now, plain |-> TRUE]
                 ELSE chats[c]]
  /\ UNCHANGED <<asks, answers, pinClock, changes>>

SetPinned(c, pinned) ==
  /\ pinClock' = IF pinned THEN pinClock + 1 ELSE pinClock
  /\ chats' = IF c \in DOMAIN chats
              THEN [chats EXCEPT ![c].pin = IF pinned THEN pinClock + 1 ELSE 0,
                                 ![c].revision = now]
              ELSE chats
  /\ UNCHANGED <<asks, answers, created, changes>>

RenameConversation(c) ==
  Touch(c) /\ UNCHANGED <<asks, answers, pinClock, created, changes>>

AddAsk(m) ==
  /\ asks' = [k \in DOMAIN asks \cup {m} |-> IF k = m THEN "sending" ELSE asks[k]]
  /\ Touch(m[1]) /\ MessagesChange(m[1])
  /\ UNCHANGED <<answers, pinClock, created>>

AddAnswer(m, plain) ==
  /\ answers' = answers \cup {m}
  /\ chats' = IF m[1] \in DOMAIN chats
              THEN [chats EXCEPT ![m[1]].revision = now,
                                 ![m[1]].plain = @ /\ plain]
              ELSE chats
  /\ MessagesChange(m[1])
  /\ UNCHANGED <<asks, pinClock, created>>

SetMessageStatus(m, status) ==
  IF m \in DOMAIN asks
  THEN /\ asks' = [asks EXCEPT ![m] = status]
       /\ Touch(m[1]) /\ MessagesChange(m[1])
       /\ UNCHANGED <<answers, pinClock, created>>
  ELSE UNCHANGED database

(* getPinnedProjectionBySlot: the pinned chats in the order of pinning.    *)
InSlot(s, c) ==
  /\ chats[c].pin > 0
  /\ Cardinality({d \in DOMAIN chats : chats[d].pin \in 1..chats[c].pin}) = s

(* ascii.encode of the catalog throws when a pinned chat holds other text. *)
CatalogEncodes == \A c \in DOMAIN chats : chats[c].pin > 0 => chats[c].plain

DeleteMessagesOnly(c) ==
  /\ asks' = [m \in {k \in DOMAIN asks : k[1] # c} |-> asks[m]]
  /\ answers' = {m \in answers : m[1] # c}
  /\ MessagesChange(c)
  /\ UNCHANGED <<chats, pinClock, created>>

DeleteConversation(c) ==
  /\ chats' = [d \in DOMAIN chats \ {c} |-> chats[d]]
  /\ asks' = [m \in {k \in DOMAIN asks : k[1] # c} |-> asks[m]]
  /\ answers' = {m \in answers : m[1] # c}
  /\ MessagesChange(c)
  /\ UNCHANGED <<pinClock, created>>

(***************************************************************************)
(* Coroutines                                                              *)
(***************************************************************************)
bounds == <<calls, now, edits, restarts>>

Waits(job, kind, at) == job \in jobs /\ job.kind = kind /\ job.at = at

Becomes(job, next) == jobs' = (jobs \ {job}) \cup {next}
Goes(job, at)      == Becomes(job, [job EXCEPT !.at = at])
Finishes(job)      == jobs' = jobs \ {job}

MessageOf(job) == <<job.chat, job.key>>

(* unawaited(_completeAssistantReply(..)), then _renderChat.               *)
DispatchAndRender(job) ==
  jobs' = (jobs \ {job}) \cup {[job EXCEPT !.at = "title"],
                               [job EXCEPT !.kind = "completion", !.at = "check",
                                           !.answered = MessageOf(job) \in answers]}

(***************************************************************************)
(* reply(), the parsed command and the calls it makes before any await     *)
(***************************************************************************)
FirstStep(command, target) ==
  CASE command \in {"SEND", "NEW"} -> "vault"
    [] command = "OPEN" -> IF target.by = "id" THEN "open"
                           ELSE IF target.by = "slot" /\ target.n > 0 THEN "slot"
                           ELSE "vault"
    [] command = "POLL" -> "poll"
    [] command = "SCROLL" -> "title"
    [] OTHER -> "read"

(* A request under a key in flight shares the running call's future.       *)
Call(command, target, session, client, known) ==
  /\ calls < MaxCalls
  /\ \A job \in jobs : job.kind = "call" => job.session # session
  /\ command \in {"POLL", "SCROLL"} => target.by = "id"
  /\ calls' = calls + 1
  /\ LET key == IF command = "SEND" /\ target.by = "slot"
                THEN <<"legacy", calls + 1>> ELSE <<"client", client>>
     IN jobs' = jobs \cup
          {[id |-> calls + 1, kind |-> "call", command |-> command,
            session |-> session, target |-> target, key |-> key,
            chat |-> IF target.by = "id" THEN target.n ELSE 0,
            known |-> known, revision |-> 0,
            answered |-> FALSE, at |-> FirstStep(command, target)]}
  /\ UNCHANGED <<database, now, edits, restarts, pages, submitted>>

(* LIST and CATALOG read and reply.                                        *)
ReplyFromTables(job) ==
  /\ Waits(job, "call", "read") /\ Finishes(job)
  /\ UNCHANGED <<database, bounds, pages, submitted>>

(* The vault's favorite profile: none, and a SEND ends with a page saying  *)
(* so; NEW makes a chat without a profile.                                 *)
ReadVault(job) ==
  /\ Waits(job, "call", "vault")
  /\ \/ job.command = "SEND" /\ Finishes(job)
     \/ job.command = "SEND" /\ job.target.by = "id" /\ Goes(job, "exists")
     \/ job.command = "SEND" /\ job.target.by = "slot" /\ job.target.n > 0 /\ Goes(job, "slot")
     \/ /\ job.command # "SEND" \/ job.target \in {New, Slot(0)}
        /\ Goes(job, "create")
  /\ UNCHANGED <<database, bounds, pages, submitted>>

ResolveSlotAlias(job) ==
  /\ Waits(job, "call", "slot")
  /\ IF \E c \in DOMAIN chats : InSlot(job.target.n, c)
     THEN \E c \in DOMAIN chats :
            /\ InSlot(job.target.n, c)
            /\ Becomes(job, [job EXCEPT !.chat = c,
                  !.at = IF job.command = "SEND" THEN "exists" ELSE "open"])
     ELSE IF job.command = "SEND" THEN Goes(job, "create") ELSE Goes(job, "read")
  /\ UNCHANGED <<database, bounds, pages, submitted>>

OpenChat(job) ==
  /\ Waits(job, "call", "open")
  /\ Goes(job, IF job.chat \in DOMAIN chats THEN "title" ELSE "read")
  /\ UNCHANGED <<database, bounds, pages, submitted>>

PollChat(job) ==
  /\ Waits(job, "call", "poll")
  /\ IF job.chat \in DOMAIN chats /\ chats[job.chat].revision > job.known
     THEN Goes(job, "title") ELSE Finishes(job)
  /\ UNCHANGED <<database, bounds, pages, submitted>>

(***************************************************************************)
(* _newChatText and _resolveConversationId                                 *)
(***************************************************************************)
CheckConversation(job) ==
  /\ Waits(job, "call", "exists")
  /\ Goes(job, IF job.chat \in DOMAIN chats THEN "answered" ELSE "create")
  /\ UNCHANGED <<database, bounds, pages, submitted>>

CreateChat(job) ==
  /\ Waits(job, "call", "create")
  /\ CreateConversation
  /\ Becomes(job, [job EXCEPT !.chat = created + 1, !.at = "pin"])
  /\ UNCHANGED <<bounds, pages, submitted>>

PinOnlyAskedFor(job) ==
  /\ Waits(job, "call", "pin")
  /\ SetPinned(job.chat, job.command = "NEW")
  /\ Goes(job, IF job.command = "SEND" THEN "answered" ELSE "read")
  /\ UNCHANGED <<bounds, pages, submitted>>

PinNewChat(job) ==
  /\ Waits(job, "call", "pin")
  /\ SetPinned(job.chat, TRUE)
  /\ Goes(job, IF job.command = "SEND" THEN "answered" ELSE "read")
  /\ UNCHANGED <<bounds, pages, submitted>>

(***************************************************************************)
(* _sendPromptToChat                                                       *)
(***************************************************************************)
CheckAnswer(job) ==
  /\ Waits(job, "call", "answered")
  /\ Goes(job, IF MessageOf(job) \in answers THEN "title" ELSE "recorded")
  /\ UNCHANGED <<database, bounds, pages, submitted>>

CheckRecorded(job) ==
  /\ Waits(job, "call", "recorded")
  /\ IF MessageOf(job) \in DOMAIN asks THEN DispatchAndRender(job)
     ELSE Goes(job, "empty")
  /\ UNCHANGED <<database, bounds, pages, submitted>>

CheckEmpty(job) ==
  /\ Waits(job, "call", "empty")
  /\ Goes(job, IF \E m \in DOMAIN asks \cup answers : m[1] = job.chat
               THEN "add" ELSE "rename")
  /\ UNCHANGED <<database, bounds, pages, submitted>>

TitleChat(job) ==
  /\ Waits(job, "call", "rename")
  /\ RenameConversation(job.chat)
  /\ Goes(job, "add")
  /\ UNCHANGED <<bounds, pages, submitted>>

(* The insert fails when the same message was recorded meanwhile, and the  *)
(* calculator is told of the error.                                        *)
RecordMessage(job) ==
  /\ Waits(job, "call", "add")
  /\ IF MessageOf(job) \in DOMAIN asks
     THEN Finishes(job) /\ UNCHANGED database
     ELSE AddAsk(MessageOf(job)) /\ Goes(job, "announce")
  /\ UNCHANGED <<bounds, pages, submitted>>

AnnounceMessage(job) ==
  /\ Waits(job, "call", "announce")
  /\ IF CatalogEncodes THEN DispatchAndRender(job) ELSE Finishes(job)
  /\ UNCHANGED <<database, bounds, pages, submitted>>

(***************************************************************************)
(* _completeAssistantReply                                                 *)
(***************************************************************************)
TrustTheCaller(job) ==
  /\ Waits(job, "completion", "check")
  /\ Goes(job, "history")
  /\ UNCHANGED <<database, bounds, pages, submitted>>

CheckUnanswered(job) ==
  /\ Waits(job, "completion", "check")
  /\ IF MessageOf(job) \in answers THEN Finishes(job) ELSE Goes(job, "history")
  /\ UNCHANGED <<database, bounds, pages, submitted>>

CallProvider(job) ==
  /\ Waits(job, "completion", "history")
  /\ submitted' = Append(submitted, MessageOf(job))
  /\ Goes(job, "provider")
  /\ UNCHANGED <<database, bounds, pages>>

ProviderAnswers(job) ==
  /\ Waits(job, "completion", "provider")
  /\ Goes(job, "complete") \/ Goes(job, "fail")
  /\ UNCHANGED <<database, bounds, pages, submitted>>

MarkComplete(job) ==
  /\ Waits(job, "completion", "complete")
  /\ SetMessageStatus(MessageOf(job), "complete")
  /\ Goes(job, "store")
  /\ UNCHANGED <<bounds, pages, submitted>>

StoreAnswer(job) ==
  /\ Waits(job, "completion", "store")
  /\ IF MessageOf(job) \in answers
     THEN Goes(job, "fail") /\ UNCHANGED database
     ELSE /\ \E plain \in {TRUE, PlainReplies} : AddAnswer(MessageOf(job), plain)
          /\ Goes(job, "announce")
  /\ UNCHANGED <<bounds, pages, submitted>>

AnnounceAnswer(job) ==
  /\ Waits(job, "completion", "announce")
  /\ Goes(job, IF CatalogEncodes THEN "title" ELSE "fail")
  /\ UNCHANGED <<database, bounds, pages, submitted>>

MarkSettled(job) ==
  /\ Waits(job, "completion", "fail")
  /\ SetMessageStatus(MessageOf(job), "complete")
  /\ Finishes(job)
  /\ UNCHANGED <<bounds, pages, submitted>>

FailSilently(job) ==
  /\ Waits(job, "completion", "fail")
  /\ Finishes(job)
  /\ UNCHANGED <<database, bounds, pages, submitted>>

MarkFailed(job) ==
  /\ Waits(job, "completion", "fail")
  /\ SetMessageStatus(MessageOf(job), "failed")
  /\ Finishes(job)
  /\ UNCHANGED <<bounds, pages, submitted>>

(***************************************************************************)
(* _renderChat: title, then revision, then messages                        *)
(***************************************************************************)
ReadTitle(job) ==
  /\ Waits(job, job.kind, "title")
  /\ IF job.chat \in DOMAIN chats THEN Goes(job, "revision") ELSE Finishes(job)
  /\ UNCHANGED <<database, bounds, pages, submitted>>

ReadRevision(job) ==
  /\ Waits(job, job.kind, "revision")
  /\ Becomes(job, [job EXCEPT !.at = "messages",
                    !.revision = IF job.chat \in DOMAIN chats
                                 THEN chats[job.chat].revision ELSE 0])
  /\ UNCHANGED <<database, bounds, pages, submitted>>

ReadMessages(job) ==
  /\ Waits(job, job.kind, "messages")
  /\ pages' = pages \cup {[chat |-> job.chat, revision |-> job.revision,
                           shown |-> Len(changes[job.chat])]}
  /\ Finishes(job)
  /\ UNCHANGED <<database, bounds, submitted>>

MessagesThenRevision(job) ==
  \/ ReadTitle(job)
  \/ /\ Waits(job, job.kind, "revision") /\ Goes(job, "messages")
     /\ pages' = pages \cup {[chat |-> job.chat, revision |-> 0,
                              shown |-> Len(changes[job.chat])]}
     /\ UNCHANGED <<database, bounds, submitted>>
  \/ /\ Waits(job, job.kind, "messages") /\ Finishes(job)
     /\ \E page \in pages :
          /\ page.chat = job.chat /\ page.revision = 0
          /\ pages' = pages \cup
               {[page EXCEPT !.revision = IF job.chat \in DOMAIN chats
                                          THEN chats[job.chat].revision ELSE 0]}
     /\ UNCHANGED <<database, bounds, submitted>>

Render(job) == ReadTitle(job) \/ ReadRevision(job) \/ ReadMessages(job)

(***************************************************************************)
(* The user, the clock, the operating system                               *)
(***************************************************************************)
UserEdits(c) ==
  /\ edits < MaxEdits /\ edits' = edits + 1
  /\ c \in DOMAIN chats
  /\ \/ RenameConversation(c)
     \/ SetPinned(c, chats[c].pin = 0)
     \/ DeleteConversation(c)
  /\ UNCHANGED <<jobs, calls, now, restarts, pages, submitted>>

Tick ==
  /\ now < MaxTime /\ now' = now + 1
  /\ UNCHANGED <<database, jobs, calls, edits, restarts, pages, submitted>>

(* Killed and started again: only the database is left.                    *)
Restart ==
  /\ restarts < MaxRestarts /\ restarts' = restarts + 1
  /\ jobs' = {}
  /\ UNCHANGED <<database, calls, now, edits, pages, submitted>>

(***************************************************************************)
(* The system                                                              *)
(***************************************************************************)
Reply(job) ==
  \/ ReplyFromTables(job) \/ ReadVault(job) \/ ResolveSlotAlias(job)
  \/ OpenChat(job) \/ PollChat(job) \/ CheckConversation(job)
  \/ CreateChat(job) \/ PinNewChat(job) \/ CheckAnswer(job)
  \/ CheckRecorded(job) \/ CheckEmpty(job) \/ TitleChat(job)
  \/ RecordMessage(job) \/ AnnounceMessage(job)

Completion(job) ==
  \/ CheckUnanswered(job) \/ CallProvider(job) \/ ProviderAnswers(job)
  \/ MarkComplete(job) \/ StoreAnswer(job) \/ AnnounceAnswer(job)
  \/ MarkFailed(job)

(* A POLL names a revision that the calculator has been shown.             *)
KnownRevisions(target) ==
  {0} \cup {page.revision : page \in {p \in pages : p.chat = target.n}}

Request ==
  \E command \in Commands, target \in Targets, session \in Sessions,
     client \in ClientIds :
    \E known \in IF command = "POLL" THEN KnownRevisions(target) ELSE {0} :
       Call(command, target, session, client, known)

Next ==
  \/ Request
  \/ \E job \in jobs : Reply(job) \/ Completion(job) \/ Render(job)
  \/ \E c \in ChatIds : UserEdits(c)
  \/ Tick \/ Restart

Spec == Init /\ [][Next]_vars

(***************************************************************************)
(* Properties                                                              *)
(***************************************************************************)
(* What a page shows under its revision includes every change of the       *)
(* chat's messages made before that second, whatever was written while the *)
(* page was put together: a later POLL that answers NO UPDATE for that     *)
(* revision hides nothing older than it.                                   *)
PageCoversItsRevision ==
  \A page \in pages : \A i \in DOMAIN changes[page.chat] :
     changes[page.chat][i] < page.revision => i <= page.shown

(* A completion started for a message whose answer is already stored never *)
(* reaches the provider, as long as the user changes nothing: the answer   *)
(* may have come after the request looked for it.                          *)
AnsweredMessageIsNotResubmitted ==
  [][\A job \in jobs : edits = 0 /\ CallProvider(job) => ~job.answered]_vars

(* A chat the relay made is on the calculator's list of pinned chats, or   *)
(* the call that made it is about to pin it; only the user unpinning it or *)
(* the app being killed in between leaves it out.                          *)
NewChatsArePinned ==
  edits = 0 /\ restarts = 0 =>
    \A c \in DOMAIN chats : chats[c].pin = 0 =>
       \E job \in jobs : Waits(job, "call", "pin") /\ job.chat = c

(* An answer is stored for a message of the same chat that was recorded    *)
(* before, unless the user deleted the chat meanwhile.                     *)
AnswersHaveTheirQuestion ==
  \A m \in answers : m[1] \in DOMAIN chats => m \in DOMAIN asks

(* A message marked complete has its answer, or the completion that marked *)
(* it is about to store one; only killing the app in between breaks this.  *)
CompleteMeansAnswered ==
  restarts = 0 =>
    \A m \in DOMAIN asks : asks[m] = "complete" =>
       \/ m \in answers
       \/ \E job \in jobs : Waits(job, "completion", "store") /\ MessageOf(job) = m

(* Why these hold.  Chat ids are never used again, so a chat that exists   *)
(* kept the questions of everything under way in it; a completion that was *)
(* started late waits, with the answer in place, for its only check; and   *)
(* nothing carries a revision of the future.                               *)
Located(job) == \/ job.kind = "completion"
                \/ job.at \in {"pin", "answered", "recorded", "empty", "rename",
                               "add", "announce", "revision", "messages"}

ChatsWereCreated ==
  /\ DOMAIN chats \subseteq 1..created
  /\ \A m \in answers : m[1] \in 1..created
  /\ \A job \in jobs : Located(job) => job.chat \in 1..created

QuestionsWereRecorded ==
  \A job \in jobs :
     /\ job.kind = "completion" \/ job.at = "announce"
     /\ job.chat \in DOMAIN chats
     => MessageOf(job) \in DOMAIN asks

LateCompletionsWait ==
  edits = 0 =>
    \A job \in jobs : job.answered =>
       Waits(job, "completion", "check") /\ MessageOf(job) \in answers

RevisionsArePast ==
  /\ \A c \in DOMAIN chats : chats[c].revision <= now
  /\ \A job \in jobs : job.revision <= now
  /\ \A page \in pages : page.revision <= now

RelayInvariant ==
  /\ ChatsWereCreated /\ QuestionsWereRecorded /\ LateCompletionsWait
  /\ RevisionsArePast
  /\ PageCoversItsRevision /\ NewChatsArePinned
  /\ AnswersHaveTheirQuestion /\ CompleteMeansAnswered

(* Dart's event loop and the database go on; nothing is assumed of the     *)
(* provider, as its HTTP client is given no timeout.                       *)
FairSpec == Spec /\ WF_vars(\E job \in jobs : Completion(job) /\ job.at # "provider")

Sending(m)    == m \in DOMAIN asks /\ asks[m] = "sending"
Dispatched(m) == \E job \in jobs : job.kind = "completion" /\ MessageOf(job) = m
AtProvider(m) == \E job \in jobs : Waits(job, "completion", "provider") /\ MessageOf(job) = m

(* A message a completion was started for does not stay "sending" for      *)
(* ever, whatever is thrown meanwhile and however completions of the same  *)
(* message overlap, unless the chat is deleted, the app is killed, or a    *)
(* call to the provider for this very message is never answered.           *)
DispatchedMessagesSettle ==
  \A m \in Message :
    Sending(m) /\ Dispatched(m)
      ~> \/ ~Sending(m) \/ m[1] \notin DOMAIN chats \/ restarts > 0
         \/ []AtProvider(m)

(***************************************************************************)
(* What the repository says of this code and the code does not do          *)
(***************************************************************************)
(* "duplicate client message id does not duplicate provider calls".        *)
ProviderCalledOnce ==
  \A k, l \in DOMAIN submitted :
     submitted[k][2] = submitted[l][2] /\ submitted[k][2][1] = "client" => k = l
=============================================================================
