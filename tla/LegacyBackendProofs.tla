-------------------------- MODULE LegacyBackendProofs --------------------------
(***************************************************************************)
(* Proofs about LegacyBackend for every number of threads, keys and chats. *)
(***************************************************************************)
EXTENDS LegacyBackend, FiniteSetTheorems, TLAPS

(***************************************************************************)
(* The inductive invariant.  A thread that committed its record still      *)
(* finds it there, and one that emptied the table of pins has passed the   *)
(* check of their number.                                                  *)
(***************************************************************************)
CommittedIsRecorded ==
  \A r \in Requests : step[r] = "recorded" => recorded[body[r].key] = Response(r)

ReplacedIsCounted ==
  \A r \in Requests : step[r] = "replaced" => PinCount(body[r]) <= MaxPinned

BackendInvariant ==
  TypeOK /\ AnswersAreRecorded /\ PinsAreOfOnePut /\ CommittedIsRecorded /\ ReplacedIsCounted

(* What a thread's place says of its request.                              *)
LEMMA Bodies ==
  ASSUME TypeOK, NEW r \in Requests
  PROVE  /\ step[r] \in {"asked", "missed", "inserted", "recorded"} /\ body[r].op = "message" =>
              /\ body[r] \in Post /\ body[r].key \in Keys /\ body[r].id \in Ids
              /\ body[r].text \in Texts /\ Response(r) \in Answer /\ Response(r) # None
         /\ step[r] \in {"asked", "replaced", "listed"} /\ body[r].op = "pins" =>
              body[r] \in Put /\ body[r].chats \in SUBSET Chats /\ body[r].twice \in BOOLEAN
         /\ step[r] \in {"missed", "inserted", "recorded"} => body[r].op = "message"
         /\ step[r] \in {"replaced", "listed"} => body[r].op = "pins"
<1>1. step[r] # "new" => body[r] \in Post \cup Put
  BY DEF TypeOK
<1>2. \A b \in Post : b.op = "message" /\ b.key \in Keys /\ b.id \in Ids /\ b.text \in Texts
  BY DEF Post
<1>3. \A b \in Put : b.op = "pins" /\ b.chats \in SUBSET Chats /\ b.twice \in BOOLEAN
  BY DEF Put
<1>4. step[r] # "new" /\ body[r].op = "message" => body[r] \in Post
  BY <1>1, <1>3
<1>5. step[r] # "new" /\ body[r].op = "pins" => body[r] \in Put
  BY <1>1, <1>2
<1>6. \A i \in Ids, t \in Texts : [id |-> i, text |-> t] \in Answer
  BY DEF Answer
<1>7. None \notin Answer
  BY BackendAssumption DEF Answer
<1>8. step[r] \in {"missed", "inserted", "recorded"} => body[r].op = "message"
  BY DEF TypeOK
<1>9. step[r] \in {"replaced", "listed"} => body[r].op = "pins"
  BY DEF TypeOK
<1>10. QED BY <1>2, <1>3, <1>4, <1>5, <1>6, <1>7, <1>8, <1>9 DEF Response

LEMMA BackendInit_Invariant == Init => BackendInvariant
<1> SUFFICES ASSUME Init PROVE BackendInvariant
  OBVIOUS
<1>1. TypeOK
  BY BackendAssumption DEF Init, TypeOK, Writing
<1>2. Cardinality({}) = 0
  BY FS_EmptySet
<1>3. PinsAreOfOnePut
  BY <1>2, BackendAssumption DEF Init, PinsAreOfOnePut
<1>4. AnswersAreRecorded /\ CommittedIsRecorded /\ ReplacedIsCounted
  BY DEF Init, AnswersAreRecorded, CommittedIsRecorded, ReplacedIsCounted
<1>5. QED BY <1>1, <1>3, <1>4 DEF BackendInvariant

LEMMA TypesStay == BackendInvariant /\ [Next]_vars => TypeOK'
<1> SUFFICES ASSUME BackendInvariant, [Next]_vars PROVE TypeOK'
  OBVIOUS
<1>1. TypeOK
  BY DEF BackendInvariant
<1>2. None \notin Requests /\ MaxCrashes \in Nat
  BY BackendAssumption
<1>3. CASE Crash
  BY <1>1, <1>2, <1>3 DEF Crash, TypeOK, Writing
<1>4. ASSUME NEW r \in Requests, Arrive(r) PROVE TypeOK'
  <2>1. PICK b \in Post \cup Put : body' = [body EXCEPT ![r] = b]
    BY <1>4 DEF Arrive
  <2>2. b # None
    BY BackendAssumption
  <2>3. QED BY <1>1, <1>2, <1>4, <2>1, <2>2 DEF Arrive, TypeOK, Writing
<1>5. ASSUME NEW r \in Requests, ReturnCached(r) \/ NotCached(r) \/ InsertMessages(r)
      PROVE  TypeOK'
  BY <1>1, <1>2, <1>5 DEF ReturnCached, NotCached, InsertMessages, Returns, TypeOK, Writing
<1>6. ASSUME NEW r \in Requests, Record(r) PROVE TypeOK'
  <2>1. /\ body[r].key \in Keys /\ body[r].id \in Ids /\ body[r].text \in Texts
        /\ Response(r) \in Answer
    BY <1>1, <1>6, Bodies DEF Record
  <2>2. /\ recorded' \in [Keys -> Answer \cup {None}]
        /\ messages' \in [Ids -> [user : Texts, assistant : Texts] \cup {None}]
    BY <1>1, <1>6, <2>1 DEF Record, TypeOK
  <2>3. QED BY <1>1, <1>2, <1>6, <2>2 DEF Record, TypeOK, Writing
<1>7. ASSUME NEW r \in Requests, DuplicateKey(r) \/ ReturnRecorded(r) \/ DuplicatePin(r)
      PROVE  TypeOK'
  BY <1>1, <1>2, <1>7 DEF DuplicateKey, ReturnRecorded, DuplicatePin, Raises, Returns, TypeOK,
                          Writing
<1>8. ASSUME NEW r \in Requests, Locked(r) \/ TooMany(r) \/ DeletePins(r) \/ ReturnPins(r)
      PROVE  TypeOK'
  <2>1. CASE Locked(r)
    BY <1>1, <1>2, <2>1 DEF Locked, TypeOK, Writing
  <2>2. CASE TooMany(r)
    BY <1>1, <1>2, <2>2 DEF TooMany, TypeOK, Writing
  <2>3. CASE DeletePins(r)
    BY <1>1, <1>2, <2>3 DEF DeletePins, TypeOK, Writing
  <2>4. CASE ReturnPins(r)
    BY <1>1, <1>2, <2>4 DEF ReturnPins, Returns, TypeOK, Writing
  <2>5. QED BY <1>8, <2>1, <2>2, <2>3, <2>4
<1>9. ASSUME NEW r \in Requests, CommitPins(r) PROVE TypeOK'
  <2>1. body[r].chats \in SUBSET Chats /\ body[r].op = "pins"
    BY <1>1, <1>9, Bodies DEF CommitPins
  <2>2. QED BY <1>1, <1>2, <1>9, <2>1 DEF CommitPins, TypeOK, Writing
<1>10. CASE UNCHANGED vars
  BY <1>1, <1>10 DEF vars, TypeOK
<1>11. QED BY <1>3, <1>4, <1>5, <1>6, <1>7, <1>8, <1>9, <1>10 DEF Next, Serve

(***************************************************************************)
(* Records and answers                                                     *)
(***************************************************************************)

(* A step adds at most one record, where there was none, and never another *)
(* request's: what was recorded stays.                                     *)
LEMMA RecordsStay ==
  BackendInvariant /\ [Next]_vars =>
    \A k \in Keys :
      /\ recorded[k] # None => recorded'[k] = recorded[k]
      /\ recorded'[k] # recorded[k] => messages'[recorded'[k].id].user = recorded'[k].text
<1> SUFFICES ASSUME BackendInvariant, [Next]_vars, NEW k \in Keys
             PROVE  /\ recorded[k] # None => recorded'[k] = recorded[k]
                    /\ recorded'[k] # recorded[k] =>
                         messages'[recorded'[k].id].user = recorded'[k].text
  OBVIOUS
<1>1. TypeOK
  BY DEF BackendInvariant
<1>2. ASSUME NEW r \in Requests, Record(r)
      PROVE  /\ recorded[k] # None => recorded'[k] = recorded[k]
             /\ recorded'[k] # recorded[k] =>
                  messages'[recorded'[k].id].user = recorded'[k].text
  <2>1. body[r].id \in Ids /\ body[r].key \in Keys
    BY <1>1, <1>2, Bodies DEF Record
  <2>2. recorded'[k] # recorded[k] => k = body[r].key /\ recorded'[k] = Response(r)
    BY <1>1, <1>2, <2>1 DEF Record, TypeOK
  <2>3. messages'[body[r].id] = [user |-> body[r].text, assistant |-> body[r].text]
    BY <1>1, <1>2, <2>1 DEF Record, TypeOK
  <2>4. recorded[body[r].key] = None
    BY <1>2 DEF Record
  <2>5. QED BY <2>2, <2>3, <2>4 DEF Response
<1>3. (\A r \in Requests : ~Record(r)) => recorded' = recorded
  BY DEF Next, Serve, vars, Crash, Arrive, ReturnCached, NotCached, InsertMessages,
         DuplicateKey, ReturnRecorded, Locked, TooMany, DeletePins, DuplicatePin,
         CommitPins, ReturnPins, Raises
<1>4. QED BY <1>2, <1>3

(* A request stays what it was when it arrived.                            *)
LEMMA BodiesStay ==
  BackendInvariant /\ [Next]_vars =>
    \A r \in Requests : body[r] # None => body'[r] = body[r]
<1> SUFFICES ASSUME BackendInvariant, [Next]_vars, NEW r \in Requests, body[r] # None
             PROVE  body'[r] = body[r]
  OBVIOUS
<1>1. TypeOK
  BY DEF BackendInvariant
<1>2. ASSUME NEW q \in Requests, Arrive(q) PROVE body'[r] = body[r]
  BY <1>1, <1>2 DEF Arrive, TypeOK
<1>3. (\A q \in Requests : ~Arrive(q)) => body' = body
  BY DEF Next, Serve, vars, Crash, Record, ReturnCached, NotCached, InsertMessages,
         DuplicateKey, ReturnRecorded, Locked, TooMany, DeletePins, DuplicatePin,
         CommitPins, ReturnPins, Raises
<1>4. QED BY <1>2, <1>3

(* What a thread newly has to show for a message request is on record.     *)
LEMMA NewAnswers ==
  BackendInvariant /\ [Next]_vars =>
    \A r \in Requests :
      /\ result'[r] # result[r] /\ body[r].op = "message" =>
           /\ step[r] \in {"asked", "recorded"} /\ recorded' = recorded
           /\ result'[r] = recorded[body[r].key]
      /\ step'[r] = "recorded" /\ step[r] # "recorded" =>
           /\ body' = body /\ step[r] = "inserted"
           /\ recorded'[body[r].key] = Response(r)
<1> SUFFICES ASSUME BackendInvariant, [Next]_vars, NEW r \in Requests
             PROVE  /\ result'[r] # result[r] /\ body[r].op = "message" =>
                         /\ step[r] \in {"asked", "recorded"} /\ recorded' = recorded
                         /\ result'[r] = recorded[body[r].key]
                    /\ step'[r] = "recorded" /\ step[r] # "recorded" =>
                         /\ body' = body /\ step[r] = "inserted"
                         /\ recorded'[body[r].key] = Response(r)
  OBVIOUS
<1> DEFINE Goal == /\ result'[r] # result[r] /\ body[r].op = "message" =>
                        /\ step[r] \in {"asked", "recorded"} /\ recorded' = recorded
                        /\ result'[r] = recorded[body[r].key]
                   /\ step'[r] = "recorded" /\ step[r] # "recorded" =>
                        /\ body' = body /\ step[r] = "inserted"
                        /\ recorded'[body[r].key] = Response(r)
<1>1. TypeOK /\ CommittedIsRecorded
  BY DEF BackendInvariant
<1>2. step \in [Requests -> {"new", "asked", "missed", "recorded", "listed", "done"} \cup Writing]
  BY <1>1 DEF TypeOK
<1>3. ASSUME NEW q \in Requests, Record(q) PROVE Goal
  <2>1. body[q].key \in Keys
    BY <1>1, <1>3, Bodies DEF Record
  <2>2. recorded'[body[q].key] = Response(q)
    BY <1>1, <1>3, <2>1 DEF Record, TypeOK
  <2>3. QED BY <1>2, <1>3, <2>2 DEF Record
<1>4. ASSUME NEW q \in Requests, ReturnCached(q) PROVE Goal
  <2>1. result'[r] # result[r] => q = r
    BY <1>4 DEF ReturnCached, Returns
  <2>2. result'[q] = recorded[body[q].key] \/ result' = result
    BY <1>1, <1>4 DEF ReturnCached, Returns, TypeOK
  <2>3. step'[r] = "recorded" => step[r] = "recorded"
    BY <1>2, <1>4 DEF ReturnCached, Returns
  <2>4. QED BY <1>4, <2>1, <2>2, <2>3 DEF ReturnCached, Returns
<1>5. ASSUME NEW q \in Requests, ReturnRecorded(q) PROVE Goal
  <2>1. recorded[body[q].key] = Response(q)
    BY <1>1, <1>5 DEF ReturnRecorded, CommittedIsRecorded
  <2>2. step'[r] = "recorded" => step[r] = "recorded"
    BY <1>2, <1>5 DEF ReturnRecorded, Returns
  <2>3. QED BY <1>5, <2>1, <2>2 DEF ReturnRecorded, Returns
<1>6. ASSUME NEW q \in Requests, ReturnPins(q) PROVE Goal
  <2>1. body[q].op = "pins"
    BY <1>1, <1>6, Bodies DEF ReturnPins
  <2>2. step'[r] = "recorded" => step[r] = "recorded"
    BY <1>2, <1>6 DEF ReturnPins, Returns
  <2>3. QED BY <1>6, <2>1, <2>2 DEF ReturnPins, Returns
<1>7. ASSUME NEW q \in Requests,
             \/ Arrive(q) \/ NotCached(q) \/ InsertMessages(q) \/ DuplicateKey(q) \/ Locked(q)
             \/ TooMany(q) \/ DeletePins(q) \/ DuplicatePin(q) \/ CommitPins(q)
      PROVE  Goal
  <2>1. result' = result
    BY <1>7 DEF Arrive, NotCached, InsertMessages, DuplicateKey, Locked, TooMany, DeletePins,
                DuplicatePin, CommitPins, Raises
  <2>2. step'[r] = "recorded" => step[r] = "recorded"
    BY <1>2, <1>7 DEF Arrive, NotCached, InsertMessages, DuplicateKey, Locked, TooMany,
                DeletePins, DuplicatePin, CommitPins, Raises
  <2>3. QED BY <2>1, <2>2
<1>8. CASE Crash
  BY <1>2, <1>8 DEF Crash
<1>9. CASE UNCHANGED vars
  BY <1>9 DEF vars
<1>10. QED BY <1>3, <1>4, <1>5, <1>6, <1>7, <1>8, <1>9 DEF Next, Serve

LEMMA AnswersStayRecorded ==
  BackendInvariant /\ [Next]_vars => AnswersAreRecorded' /\ CommittedIsRecorded'
<1> SUFFICES ASSUME BackendInvariant, [Next]_vars, NEW r \in Requests
             PROVE  /\ result'[r] # None /\ body'[r].op = "message" =>
                         recorded'[body'[r].key] = result'[r]
                    /\ step'[r] = "recorded" =>
                         recorded'[body'[r].key] = Response(r)'
  BY DEF AnswersAreRecorded, CommittedIsRecorded
<1>1. TypeOK /\ AnswersAreRecorded /\ CommittedIsRecorded /\ TypeOK'
  BY TypesStay DEF BackendInvariant
<1>2. ASSUME body[r] = None
      PROVE  result'[r] = None /\ step'[r] # "recorded"
  <2>1. step[r] = "new" /\ result[r] = None
    BY <1>1, <1>2 DEF TypeOK
  <2>2. step'[r] \in {"new", "asked"}
    <3>1. step \in [Requests -> {"new", "asked", "missed", "recorded", "listed", "done"} \cup Writing]
      BY <1>1 DEF TypeOK
    <3>2. QED
      BY <2>1, <3>1 DEF Next, Serve, vars, Crash, Arrive, Record, ReturnCached, NotCached,
           InsertMessages, DuplicateKey, ReturnRecorded, Locked, TooMany, DeletePins,
           DuplicatePin, CommitPins, ReturnPins, Raises, Returns
  <2>3. QED BY <1>1, <2>2 DEF TypeOK
<1>3. ASSUME body[r] # None PROVE body'[r] = body[r]
  BY <1>3, BodiesStay
<1>4. ASSUME body[r] # None, result'[r] # None, body[r].op = "message"
      PROVE  recorded'[body[r].key] = result'[r]
  <2>1. body[r].key \in Keys
    <3>1. body[r] \in Post \cup Put
      BY <1>1, <1>4 DEF TypeOK
    <3>2. QED BY <1>4, <3>1 DEF Post, Put
  <2>2. CASE result'[r] = result[r]
    BY <1>1, <1>4, <2>1, <2>2, RecordsStay DEF AnswersAreRecorded
  <2>3. CASE result'[r] # result[r]
    BY <1>4, <2>3, NewAnswers
  <2>4. QED BY <2>2, <2>3
<1>5. ASSUME body[r] # None, step'[r] = "recorded"
      PROVE  recorded'[body[r].key] = Response(r)
  <2>1. CASE step[r] = "recorded"
    <3>1. body[r].key \in Keys /\ Response(r) # None
      BY <1>1, <2>1, Bodies
    <3>2. QED BY <1>1, <2>1, <3>1, RecordsStay DEF CommittedIsRecorded
  <2>2. CASE step[r] # "recorded"
    BY <1>5, <2>2, NewAnswers
  <2>3. QED BY <2>1, <2>2
<1>6. QED BY <1>2, <1>3, <1>4, <1>5 DEF Response

(***************************************************************************)
(* Pins                                                                    *)
(***************************************************************************)
LEMMA PinsStay == BackendInvariant /\ [Next]_vars => PinsAreOfOnePut' /\ ReplacedIsCounted'
<1> SUFFICES ASSUME BackendInvariant, [Next]_vars PROVE PinsAreOfOnePut' /\ ReplacedIsCounted'
  OBVIOUS
<1>1. TypeOK /\ PinsAreOfOnePut /\ ReplacedIsCounted
  BY DEF BackendInvariant
<1>2. step \in [Requests -> {"new", "asked", "missed", "recorded", "listed", "done"} \cup Writing]
  BY <1>1 DEF TypeOK
<1>3. \A r \in Requests : step[r] # "new" => body'[r] = body[r]
  BY <1>1, BodiesStay DEF TypeOK
<1>4. ASSUME NEW r \in Requests, step'[r] = "replaced"
      PROVE  PinCount(body[r]) <= MaxPinned /\ step[r] # "new"
  <2>1. ASSUME NEW q \in Requests, Serve(q), ~DeletePins(q) PROVE step[r] = "replaced"
    <3>1. step' = step \/ \E s : s # "replaced" /\ step' = [step EXCEPT ![q] = s]
      BY <2>1 DEF Serve, Record, ReturnCached, NotCached, InsertMessages, DuplicateKey,
           ReturnRecorded, Locked, TooMany, DuplicatePin, CommitPins, ReturnPins, Raises,
           Returns
    <3>2. QED BY <1>2, <1>4, <3>1
  <2>2. ASSUME NEW q \in Requests, Arrive(q) PROVE step[r] = "replaced"
    BY <1>2, <1>4, <2>2 DEF Arrive
  <2>3. CASE Crash \/ UNCHANGED vars
    BY <1>1, <1>2, <1>4, <2>3 DEF Crash, vars, ReplacedIsCounted
  <2>4. ASSUME NEW q \in Requests, DeletePins(q)
        PROVE  step[r] = "replaced" \/ DeletePins(r)
    BY <1>2, <1>4, <2>4 DEF DeletePins
  <2>5. step[r] = "replaced" \/ DeletePins(r)
    BY <1>4, <2>1, <2>2, <2>3, <2>4 DEF Next, Crash, vars
  <2>6. QED BY <1>1, <2>5 DEF ReplacedIsCounted, DeletePins
<1>5. ReplacedIsCounted'
  <2>1. SUFFICES ASSUME NEW r \in Requests, step'[r] = "replaced"
                 PROVE  PinCount(body'[r]) <= MaxPinned
    BY DEF ReplacedIsCounted, PinCount
  <2>2. QED BY <1>3, <1>4, <2>1
<1>6. CASE pins' = pins
  <2>1. ASSUME pins # {}
        PROVE  \E r \in Requests : /\ body'[r] # None /\ body'[r].op = "pins"
                                   /\ ~body'[r].twice /\ pins = body'[r].chats
    <3>1. PICK r \in Requests : /\ body[r] # None /\ body[r].op = "pins"
                                /\ ~body[r].twice /\ pins = body[r].chats
      BY <1>1, <2>1 DEF PinsAreOfOnePut
    <3>2. body'[r] = body[r]
      BY <3>1, BodiesStay
    <3>3. QED BY <3>1, <3>2
  <2>2. QED BY <1>1, <1>5, <1>6, <2>1 DEF PinsAreOfOnePut
<1>7. ASSUME NEW r \in Requests, CommitPins(r) PROVE PinsAreOfOnePut'
  <2>1. /\ step[r] = "replaced" /\ ~body[r].twice /\ pins' = body[r].chats /\ body' = body
        /\ body[r].chats \in SUBSET Chats /\ body[r].op = "pins" /\ body[r] # None
    BY <1>1, <1>7, Bodies DEF CommitPins, TypeOK
  <2>2. Cardinality(pins') <= MaxPinned
    <3>1. PinCount(body[r]) <= MaxPinned
      BY <1>1, <2>1 DEF ReplacedIsCounted
    <3>2. PinCount(body[r]) = Cardinality(pins') + 0
      BY <2>1 DEF PinCount
    <3>3. Cardinality(pins') \in Nat
      BY <2>1, BackendAssumption, FS_Subset, FS_CardinalityType
    <3>4. QED BY <3>1, <3>2, <3>3
  <2>3. QED BY <2>1, <2>2 DEF PinsAreOfOnePut
<1>8. (\A r \in Requests : ~CommitPins(r)) => pins' = pins
  BY DEF Next, Serve, vars, Crash, Arrive, Record, ReturnCached, NotCached,
         InsertMessages, DuplicateKey, ReturnRecorded, Locked, TooMany, DeletePins,
         DuplicatePin, ReturnPins, Raises
<1>9. QED BY <1>5, <1>6, <1>7, <1>8

(***************************************************************************)
(* The theorems                                                            *)
(***************************************************************************)
LEMMA BackendInvariant_Stays == BackendInvariant /\ [Next]_vars => BackendInvariant'
BY TypesStay, AnswersStayRecorded, PinsStay DEF BackendInvariant

(* The tables, the write lock and the threads keep their types: the lock   *)
(* is always that of the one thread in the middle of its writes.           *)
THEOREM BackendTypeCorrect == Spec => []TypeOK
<1>1. BackendInvariant => TypeOK
  BY DEF BackendInvariant
<1>2. QED BY <1>1, BackendInit_Invariant, BackendInvariant_Stays, PTL DEF Spec

(* Every answer to a message request is on record under its key, however   *)
(* the requests of one key overlap and whatever a restart cuts off.        *)
THEOREM AnswersStayOnRecord == Spec => []AnswersAreRecorded
<1>1. BackendInvariant => AnswersAreRecorded
  BY DEF BackendInvariant
<1>2. QED BY <1>1, BackendInit_Invariant, BackendInvariant_Stays, PTL DEF Spec

(* create_message gives one answer per idempotency key.                    *)
THEOREM KeysHaveOneAnswer == Spec => []OneAnswerPerKey
<1>1. BackendInvariant => OneAnswerPerKey
  BY DEF BackendInvariant, AnswersAreRecorded, OneAnswerPerKey
<1>2. QED BY <1>1, BackendInit_Invariant, BackendInvariant_Stays, PTL DEF Spec

(* The table of pins is empty or one accepted request's, within the limit. *)
THEOREM PinsAreWhole == Spec => []PinsAreOfOnePut
<1>1. BackendInvariant => PinsAreOfOnePut
  BY DEF BackendInvariant
<1>2. QED BY <1>1, BackendInit_Invariant, BackendInvariant_Stays, PTL DEF Spec

(* A record is made once, with the message it answers, and then stays.     *)
THEOREM RecordsLast == Spec => RecordsAreKept
<1>1. BackendInvariant /\ [Next]_vars =>
        [\A k \in Keys :
           /\ recorded[k] # None => recorded'[k] = recorded[k]
           /\ recorded'[k] # recorded[k] =>
                messages'[recorded'[k].id].user = recorded'[k].text]_vars
  BY RecordsStay
<1>2. QED
  BY <1>1, BackendInit_Invariant, BackendInvariant_Stays, PTL DEF Spec, RecordsAreKept
=============================================================================
