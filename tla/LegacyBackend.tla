------------------------------ MODULE LegacyBackend ------------------------------
(***************************************************************************)
(* src/backend/app.py: the first relay, a web service over one SQLite      *)
(* file.  Every request runs in a thread with a connection of its own.     *)
(* SQLite lets one connection write at a time and shows the others what is *)
(* committed; a connection that is closed without a commit leaves nothing. *)
(***************************************************************************)
EXTENDS Integers, FiniteSets

CONSTANTS
  Requests,    \* the threads
  Keys,        \* idempotency keys
  Ids, Texts,  \* messages' ids and texts
  Chats,       \* conversations to pin
  MaxPinned,
  MaxCrashes,  \* bound
  None

VARIABLES
  recorded,  \* idempotency: [key -> response, or None]
  messages,  \* messages: [id -> [user, assistant], each a text, or None]
  pins,      \* pins: the conversations of the table
  writer,    \* the thread whose connection is writing, or None
  step,      \* [thread -> where it is]
  body,      \* [thread -> its request]
  result,    \* [thread -> its response, or None]
  crashes

vars == <<recorded, messages, pins, writer, step, body, result, crashes>>

Answer == [id : Ids, text : Texts]
Post == [op : {"message"}, key : Keys, id : Ids, text : Texts]
Put  == [op : {"pins"}, chats : SUBSET Chats, twice : BOOLEAN]
Writing == {"inserted", "replaced"}

ASSUME BackendAssumption ==
  /\ MaxPinned \in Nat /\ MaxCrashes \in Nat /\ IsFiniteSet(Chats)
  /\ None \notin Answer \cup Post \cup Put \cup Requests

TypeOK ==
  /\ recorded \in [Keys -> Answer \cup {None}]
  /\ messages \in [Ids -> [user : Texts, assistant : Texts] \cup {None}]
  /\ pins \in SUBSET Chats
  /\ writer \in Requests \cup {None}
  /\ step \in [Requests -> {"new", "asked", "missed", "recorded", "listed", "done"} \cup Writing]
  /\ body \in [Requests -> Post \cup Put \cup {None}]
  /\ \A r \in Requests :
       /\ (step[r] \in Writing) <=> (writer = r)
       /\ (body[r] = None) <=> (step[r] = "new")
       /\ step[r] \in {"missed", "inserted", "recorded"} => body[r].op = "message"
       /\ step[r] \in {"replaced", "listed"} => body[r].op = "pins"
       /\ result[r] # None => step[r] = "done"
  /\ result = [r \in Requests |-> result[r]] /\ crashes \in 0..MaxCrashes

Init ==
  /\ recorded = [k \in Keys |-> None] /\ messages = [i \in Ids |-> None]
  /\ pins = {} /\ writer = None /\ crashes = 0
  /\ step = [r \in Requests |-> "new"] /\ body = [r \in Requests |-> None]
  /\ result = [r \in Requests |-> None]

Arrive(r) ==
  /\ step[r] = "new" /\ step' = [step EXCEPT ![r] = "asked"]
  /\ \E b \in Post \cup Put : body' = [body EXCEPT ![r] = b]
  /\ UNCHANGED <<recorded, messages, pins, writer, result, crashes>>

Returns(r, response) ==
  /\ step' = [step EXCEPT ![r] = "done"] /\ result' = [result EXCEPT ![r] = response]

(* An error response: whatever the thread wrote goes with its connection.  *)
Raises(r) ==
  /\ step' = [step EXCEPT ![r] = "done"] /\ writer' = None
  /\ UNCHANGED <<recorded, messages, pins, body, result, crashes>>
-----------------------------------------------------------------------------
(* create_message                                                          *)
ReturnCached(r) ==
  /\ step[r] = "asked" /\ body[r].op = "message" /\ recorded[body[r].key] # None
  /\ Returns(r, recorded[body[r].key])
  /\ UNCHANGED <<recorded, messages, pins, writer, body, crashes>>

NotCached(r) ==
  /\ step[r] = "asked" /\ body[r].op = "message" /\ recorded[body[r].key] = None
  /\ step' = [step EXCEPT ![r] = "missed"]
  /\ UNCHANGED <<recorded, messages, pins, writer, body, result, crashes>>

(* The first INSERT opens the transaction; both messages are replaced.     *)
InsertMessages(r) ==
  /\ step[r] = "missed" /\ writer = None /\ writer' = r
  /\ step' = [step EXCEPT ![r] = "inserted"]
  /\ UNCHANGED <<recorded, messages, pins, body, result, crashes>>

Response(r) == [id |-> body[r].id, text |-> body[r].text]

(* Mutant: INSERT OR REPLACE for the key too.                              *)
RecordOrReplace(r) ==
  /\ step[r] = "inserted"
  /\ recorded' = [recorded EXCEPT ![body[r].key] = Response(r)]
  /\ messages' = [messages EXCEPT ![body[r].id] =
                    [user |-> body[r].text, assistant |-> body[r].text]]
  /\ writer' = None /\ step' = [step EXCEPT ![r] = "recorded"]
  /\ UNCHANGED <<pins, body, result, crashes>>

(* INSERT of the key, and the commit of it with both messages.             *)
Record(r) ==
  /\ step[r] = "inserted" /\ recorded[body[r].key] = None
  /\ recorded' = [recorded EXCEPT ![body[r].key] = Response(r)]
  /\ messages' = [messages EXCEPT ![body[r].id] =
                    [user |-> body[r].text, assistant |-> body[r].text]]
  /\ writer' = None /\ step' = [step EXCEPT ![r] = "recorded"]
  /\ UNCHANGED <<pins, body, result, crashes>>

(* IntegrityError: another thread recorded the key since the SELECT.       *)
DuplicateKey(r) ==
  /\ step[r] = "inserted" /\ recorded[body[r].key] # None /\ Raises(r)

ReturnRecorded(r) ==
  /\ step[r] = "recorded" /\ Returns(r, Response(r))
  /\ UNCHANGED <<recorded, messages, pins, writer, body, crashes>>

(* OperationalError: the database stayed locked.                           *)
Locked(r) ==
  /\ writer \notin {None, r}
  /\ step[r] = "missed" \/ (step[r] = "asked" /\ body[r].op = "pins")
  /\ step' = [step EXCEPT ![r] = "done"]
  /\ UNCHANGED <<recorded, messages, pins, writer, body, result, crashes>>
-----------------------------------------------------------------------------
(* put_pins                                                                *)
PinCount(b) == Cardinality(b.chats) + (IF b.twice THEN 1 ELSE 0)

TooMany(r) ==
  /\ step[r] = "asked" /\ body[r].op = "pins" /\ PinCount(body[r]) > MaxPinned
  /\ step' = [step EXCEPT ![r] = "done"]
  /\ UNCHANGED <<recorded, messages, pins, writer, body, result, crashes>>

DeletePins(r) ==
  /\ step[r] = "asked" /\ body[r].op = "pins" /\ PinCount(body[r]) <= MaxPinned
  /\ writer = None /\ writer' = r /\ step' = [step EXCEPT ![r] = "replaced"]
  /\ UNCHANGED <<recorded, messages, pins, body, result, crashes>>

DuplicatePin(r) == step[r] = "replaced" /\ body[r].twice /\ Raises(r)

(* Mutant: the pins are added to those that are there.                     *)
CommitAdded(r) ==
  /\ step[r] = "replaced" /\ ~body[r].twice /\ pins' = pins \cup body[r].chats
  /\ writer' = None /\ step' = [step EXCEPT ![r] = "listed"]
  /\ UNCHANGED <<recorded, messages, body, result, crashes>>

CommitPins(r) ==
  /\ step[r] = "replaced" /\ ~body[r].twice /\ pins' = body[r].chats
  /\ writer' = None /\ step' = [step EXCEPT ![r] = "listed"]
  /\ UNCHANGED <<recorded, messages, body, result, crashes>>

(* get_pins, over a connection of its own.                                 *)
ReturnPins(r) ==
  /\ step[r] = "listed" /\ Returns(r, pins)
  /\ UNCHANGED <<recorded, messages, pins, writer, body, crashes>>

(* The service is killed and started again; the clients hear nothing.      *)
Crash ==
  /\ crashes < MaxCrashes /\ crashes' = crashes + 1 /\ writer' = None
  /\ step' = [r \in Requests |-> IF step[r] = "new" THEN "new" ELSE "done"]
  /\ UNCHANGED <<recorded, messages, pins, body, result>>

Serve(r) ==
  \/ ReturnCached(r) \/ NotCached(r) \/ InsertMessages(r) \/ Record(r)
  \/ DuplicateKey(r) \/ ReturnRecorded(r) \/ Locked(r)
  \/ TooMany(r) \/ DeletePins(r) \/ DuplicatePin(r) \/ CommitPins(r) \/ ReturnPins(r)

Next == Crash \/ \E r \in Requests : Arrive(r) \/ Serve(r)

Spec == Init /\ [][Next]_vars
-----------------------------------------------------------------------------
(* backend/README.md: "idempotent text message processing".  Two requests  *)
(* under one key that are answered get one answer, however they overlap,   *)
(* whatever their texts, and through restarts.                             *)
OneAnswerPerKey ==
  \A r, q \in Requests :
    ( /\ result[r] # None /\ body[r].op = "message"
      /\ result[q] # None /\ body[q].op = "message" /\ body[q].key = body[r].key )
      => result[r] = result[q]

(* An answer that went out can be given again.                             *)
AnswersAreRecorded ==
  \A r \in Requests :
    (result[r] # None /\ body[r].op = "message") => recorded[body[r].key] = result[r]

(* A record of an answer is never replaced, and it comes with its message. *)
RecordsAreKept ==
  [][\A k \in Keys :
       /\ recorded[k] # None => recorded'[k] = recorded[k]
       /\ recorded'[k] # recorded[k] => messages'[recorded'[k].id].user = recorded'[k].text]_vars

(* The pinned chats are always those of one request, or none: never what   *)
(* a refused or interrupted request left.                                  *)
PinsAreOfOnePut ==
  /\ Cardinality(pins) <= MaxPinned
  /\ pins # {} => \E r \in Requests :
       /\ body[r] # None /\ body[r].op = "pins" /\ ~body[r].twice
       /\ pins = body[r].chats
=============================================================================
