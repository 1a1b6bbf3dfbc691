-------------------------------- MODULE AxeMock --------------------------------
(***************************************************************************)
(* src/src/raw_axe_mock.py, which answers the calculator without a phone.  *)
(* It keeps its chats in memory and writes them all to one file after each *)
(* change; a prompt gets its canned reply some seconds later, when the     *)
(* next request finds it due.                                              *)
(***************************************************************************)
EXTENDS RawLink

CONSTANTS
  Seed,        \* _seed_chats: the number of messages of each chat
  Window,      \* CHAT_TEXT_ROWS, a message taking one row
  MaxFailures  \* bound: writes of the file that fail, and resets

ASSUME MockAssumption ==
  Seed \in Seq(Nat) /\ Len(Seed) > 0 /\ Window \in Nat /\ MaxFailures \in Nat

VARIABLES
  chats,     \* CHATS in the order of the list: [id, rows, asked, replied]
  active,    \* _active_chat_id
  offset,    \* _active_chat_offset
  pending,   \* _pending_replies: [chat, nth], its chat and its number there
  store,     \* chats.v1.json: [chats, active], or CutFile
  intact,    \* history: the last write of the file went through
  lost,      \* history: the replies owed when the Pico was reset, by chat
  failures

ActiveChat == -1   \* the ACTIVE of a command
CutFile == [chats |-> <<>>, active |-> ActiveChat]

mockVars == <<chats, active, offset, pending, store, intact, lost, failures>>

Seeded == [i \in 1..Len(Seed) |->
             [id |-> i - 1, rows |-> Seed[i], asked |-> 0, replied |-> 0]]

Ids == {chats[i].id : i \in 1..Len(chats)}

MockTypeOK ==
  /\ Len(chats) >= Len(Seed) /\ offset \in Nat /\ failures \in 0..MaxFailures
  /\ {p.chat : p \in pending} \subseteq Ids /\ active \in Ids
  /\ intact \in BOOLEAN

(* What a command works on: memory, and whether it wrote the file.         *)
State(list, current, place, prompts, written) ==
  [chats |-> list, active |-> current, offset |-> place,
   pending |-> prompts, saves |-> written]
Memory == State(chats, active, offset, pending, FALSE)
Document(mem) == [chats |-> mem.chats, active |-> mem.active]

Find(mem, id) == CHOOSE i \in 1..Len(mem.chats) : mem.chats[i].id = id
Bottom(chat)  == IF chat.rows > Window THEN chat.rows - Window ELSE 0

MockInit ==
  /\ chats = Seeded /\ active = 0 /\ offset = 0 /\ pending = {}
  /\ store = [chats |-> Seeded, active |-> 0]
  /\ intact = TRUE /\ lost = [i \in {} |-> 0] /\ failures = 0
-----------------------------------------------------------------------------
(* The chat after n replies, and after a prompt.                           *)
Replied(chat, n) == [id |-> chat.id, rows |-> chat.rows + n,
                     asked |-> chat.asked, replied |-> chat.replied + n]
Asked(chat) == [id |-> chat.id, rows |-> chat.rows + 1,
                asked |-> chat.asked + 1, replied |-> chat.replied]

(* The prompts of a chat, a prompt being known by its place in its chat.   *)
PromptsOf(id, prompts) == {p \in prompts : p.chat = id}

(* Mutant: the list of the replies still to come is not put back.          *)
ForgetTheRest(mem, due) == {}
Remaining(mem, due) == mem.pending \ due

ProcessPending(mem, due) ==
  State([i \in 1..Len(mem.chats) |->
           Replied(mem.chats[i], Cardinality(PromptsOf(mem.chats[i].id, due)))],
        mem.active, mem.offset, Remaining(mem, due), mem.saves \/ due # {})

NewChat(mem) ==
  LET id == Len(mem.chats)
  IN State(<<[id |-> id, rows |-> 1, asked |-> 0, replied |-> 0]>> \o mem.chats,
           id, 0, mem.pending, TRUE)

(* Mutant: ACTIVE is kept as the active chat.                              *)
SendPromptUnresolved(mem, target) ==
  LET id    == IF target = ActiveChat THEN mem.active ELSE target
      known == \E i \in 1..Len(mem.chats) : mem.chats[i].id = id
      in    == IF known THEN mem ELSE NewChat(mem)
      at    == Find(in, IF known THEN id ELSE in.active)
      chat  == Asked(in.chats[at])
  IN State([in.chats EXCEPT ![at] = chat], target, Bottom(chat),
           in.pending \union {[chat |-> chat.id, nth |-> chat.asked]}, TRUE)

(* The prompt goes to the chat at a place of the list.                     *)
SendTo(mem, at) ==
  LET chat == Asked(mem.chats[at])
  IN State([mem.chats EXCEPT ![at] = chat], chat.id, Bottom(chat),
           mem.pending \union {[chat |-> chat.id, nth |-> chat.asked]}, TRUE)

SendPrompt(mem, target) ==
  LET id == IF target = ActiveChat THEN mem.active ELSE target
  IN IF \E i \in 1..Len(mem.chats) : mem.chats[i].id = id
     THEN SendTo(mem, Find(mem, id))
     ELSE SendTo(NewChat(mem), 1)

(* Mutant: opening a chat keeps the place read to in another.              *)
OpenAtOffset(mem, slot) ==
  IF slot = 0 THEN NewChat(mem)
  ELSE IF slot \in 1..Len(mem.chats)
  THEN State(mem.chats, mem.chats[slot].id, mem.offset, mem.pending, TRUE)
  ELSE mem

(* Mutant: opening a chat is not written down.                             *)
OpenUnsaved(mem, slot) ==
  IF slot = 0 THEN NewChat(mem)
  ELSE IF slot \in 1..Len(mem.chats)
  THEN State(mem.chats, mem.chats[slot].id, 0, mem.pending, mem.saves)
  ELSE mem

Open(mem, slot) ==
  IF slot = 0 THEN NewChat(mem)
  ELSE IF slot \in 1..Len(mem.chats)
  THEN State(mem.chats, mem.chats[slot].id, 0, mem.pending, TRUE)
  ELSE mem

Scroll(mem, delta) ==
  LET bottom == Bottom(mem.chats[Find(mem, mem.active)])
      moved  == IF delta = "DOWN" THEN mem.offset + 1
                ELSE IF mem.offset > 0 THEN mem.offset - 1 ELSE 0
  IN State(mem.chats, mem.active, IF moved > bottom THEN bottom ELSE moved,
           mem.pending, mem.saves)

(* _response_for.  LIST, ACTIVE and what it does not know change nothing.  *)
Respond(mem, command) ==
  CASE command.name = "NEW"  -> NewChat(mem)
    [] command.name = "SEND" -> SendPrompt(mem, command.arg)
    [] command.name = "OPEN" -> Open(mem, command.arg)
    [] command.name \in {"UP", "DOWN"} -> Scroll(mem, command.name)
    [] OTHER -> mem

(* All pages but those of UP and DOWN are made after another look at the   *)
(* replies that are due.                                                   *)
Handled(command, early, due) ==
  LET mem == Respond(ProcessPending(Memory, early), command)
  IN IF command.name \in {"UP", "DOWN", "OTHER"} THEN mem
     ELSE ProcessPending(mem, due)
-----------------------------------------------------------------------------
(* _save_store logs a failure and leaves what it wrote of the file.        *)
Saved(mem) ==
  \/ ~mem.saves /\ UNCHANGED <<store, intact, failures>>
  \/ mem.saves /\ store' = Document(mem) /\ intact' = TRUE /\ UNCHANGED failures
  \/ /\ mem.saves /\ failures < MaxFailures /\ failures' = failures + 1
     /\ store' = CutFile /\ intact' = FALSE

ServeRequest ==
  /\ \E id \in 1..Len(frames) :
       /\ FrameRead(id) /\ frames[id].type = "request"
       /\ frames[id].name # "PING"
       /\ \E early \in SUBSET pending :
            \E due \in SUBSET (pending \ early) :
              LET mem == Handled(frames[id], early, due) IN
              /\ chats' = mem.chats /\ active' = mem.active
              /\ offset' = mem.offset /\ pending' = mem.pending
              /\ Saved(mem)
  /\ UNCHANGED lost /\ WriteFrame

(* A PING, and what is answered with an ERROR frame: another type, a       *)
(* payload that is not ASCII (after a look at the replies), a frame that   *)
(* does not check.                                                         *)
Decline ==
  /\ \/ \E id \in 1..Len(frames) :
          FrameRead(id) /\ (frames[id].type # "request" \/ frames[id].name = "PING")
     \/ FrameRead(0)
  /\ WriteFrame /\ UNCHANGED mockVars

MockFrameError ==
  /\ FrameBroken /\ UNCHANGED <<frames, out, mockVars>>

(* A reset, which may fall into a write of the file: _load_store takes the *)
(* file, or the seed if it cannot; the replies to come are forgotten.      *)
Boot(file) ==
  LET doc == IF file = CutFile THEN [chats |-> Seeded, active |-> 0] ELSE file
  IN /\ chats' = doc.chats /\ active' = doc.active /\ store' = doc
     /\ offset' = 0 /\ pending' = {} /\ intact' = TRUE
     /\ lost' = [id \in {doc.chats[i].id : i \in 1..Len(doc.chats)} |->
                  LET chat == doc.chats[Find(doc, id)] IN chat.asked - chat.replied]

ResetMock ==
  /\ failures < MaxFailures /\ failures' = failures + 1
  /\ got' = <<>> /\ UNCHANGED <<frames, out, breaks>>
  /\ \/ Boot(store)
     \/ Whole /\ Boot(CutFile)

MockStep == ServeRequest \/ Decline \/ MockFrameError \/ ResetMock
=============================================================================
