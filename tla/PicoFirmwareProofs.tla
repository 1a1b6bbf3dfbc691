--------------------------- MODULE PicoFirmwareProofs ---------------------------
(***************************************************************************)
(* Proofs about the bridge and the mock of PicoFirmware for every set of   *)
(* frames, every number of relays, resets and catalogs, and every seed.    *)
(***************************************************************************)
EXTENDS PicoFirmware, FiniteSetTheorems, TLAPS

-----------------------------------------------------------------------------
(***************************************************************************)
(* The bridge.  The inductive invariant speaks of a relay while it is      *)
(* open.  What an old one received is gone when the next one is opened;    *)
(* what the phone still owes it from before makes the next one late.       *)
(***************************************************************************)
Message == [type : {"pages", "catalog"}, of : Nat, asOf : Nat]
Relayed == stage # "connect"
Pages == {i \in 1..Len(inbox) : inbox[i].type = "pages"}
Catalogs == {i \in 1..Len(inbox) : inbox[i].type = "catalog"}
Good == {i \in Catalogs : inbox[i].of \notin BadCatalogs}

RelayTypes ==
  /\ served \in Seq(Int) /\ inbox \in Seq(Message) /\ owed \subseteq Nat
  /\ catalogs \in Nat /\ offered \in Nat /\ cache \in Int /\ late \in BOOLEAN
  /\ unwritten \subseteq Nat
  /\ stage \in {"connect", "await", "read", "wait", "ended"}
  /\ relay \in {"none", "advertising", "up", "lost"}
  /\ (stage = "connect") <=> (relay = "none")

(* The one answer to come is to the request being served.                  *)
OneAnswerComes ==
  Relayed /\ ~late =>
    /\ owed \subseteq {Serving} /\ (owed # {} => stage = "wait")
    /\ \A i \in Pages : stage = "wait" /\ owed = {} /\ inbox[i].of = Serving
    /\ \A i, j \in Pages : i = j

(* The catalogs to come are newer than the file, each than the one before. *)
CatalogsComeInOrder ==
  /\ cache <= catalogs
  /\ Relayed =>
       /\ \A i \in Catalogs : cache < inbox[i].of /\ inbox[i].of <= catalogs
       /\ \A i, j \in Catalogs : i < j => inbox[i].of < inbox[j].of

(* The file is as new as the n-th catalog, or a write raised that would    *)
(* have made it so.                                                        *)
Filed(n) == cache >= n \/ \E k \in unwritten : k >= n

(* What was offered is filed, or comes before the answers to it.           *)
AnswersComeAfterCatalogs ==
  Relayed =>
    /\ offered > 0 => Filed(offered) \/ \E j \in Good : inbox[j].of = offered
    /\ \A i \in Pages : inbox[i].asOf > 0 =>
         Filed(inbox[i].asOf) \/ \E j \in Good : j < i /\ inbox[j].of = inbox[i].asOf

BridgeInvariant ==
  /\ RelayTypes /\ OneAnswerComes /\ CatalogsComeInOrder /\ AnswersComeAfterCatalogs
  /\ AnswersMatchUnlessLate /\ AnswersFollowTheirCatalog

LEMMA BridgeInit_Invariant == Init => BridgeInvariant
<1> SUFFICES ASSUME BridgeInit PROVE BridgeInvariant
  BY DEF Init
<1>1. RelayTypes /\ CatalogsComeInOrder
  <2>1. <<>> \in Seq(Message) /\ <<>> \in Seq(Int)
    OBVIOUS
  <2>2. RelayTypes
    <3>1. served \in Seq(Int) /\ inbox \in Seq(Message)
      BY <2>1 DEF BridgeInit
    <3>2. /\ owed \subseteq Nat /\ catalogs \in Nat /\ offered \in Nat /\ cache \in Int
          /\ unwritten \subseteq Nat
          /\ stage = "connect" /\ relay = "none"
      BY DEF BridgeInit
    <3>3. late \in BOOLEAN
      BY Zenon DEF BridgeInit
    <3>4. QED BY <3>1, <3>2, <3>3 DEF RelayTypes
  <2>3. CatalogsComeInOrder
    BY DEF BridgeInit, CatalogsComeInOrder, Relayed
  <2>4. QED BY <2>2, <2>3
<1>2. OneAnswerComes /\ AnswersComeAfterCatalogs
  BY DEF BridgeInit, OneAnswerComes, AnswersComeAfterCatalogs, Relayed
<1>3. AnswersMatchUnlessLate /\ AnswersFollowTheirCatalog
  BY DEF BridgeInit, AnswersMatchUnlessLate, AnswersFollowTheirCatalog
<1>4. QED BY <1>1, <1>2, <1>3 DEF BridgeInvariant

(* Where the inbox and the catalogs stay, the last two parts do.           *)
LEMMA InboxStays ==
  ASSUME BridgeInvariant, UNCHANGED <<inbox, catalogs, offered, fileVars>>,
         Relayed' => Relayed
  PROVE  CatalogsComeInOrder' /\ AnswersComeAfterCatalogs'
<1>1. Pages' = Pages /\ Catalogs' = Catalogs /\ Good' = Good
  BY DEF Pages, Catalogs, Good
<1>2. QED
  BY <1>1
     DEF BridgeInvariant, CatalogsComeInOrder, AnswersComeAfterCatalogs, Filed, fileVars

(* A message more.                                                         *)
LEMMA Appended ==
  ASSUME inbox \in Seq(Message), NEW m \in Message, inbox' = Append(inbox, m)
  PROVE  /\ inbox' \in Seq(Message) /\ Len(inbox') = Len(inbox) + 1 /\ Len(inbox) \in Nat
         /\ inbox'[Len(inbox')] = m
         /\ \A i \in 1..Len(inbox) : inbox'[i] = inbox[i]
         /\ Pages' = Pages \cup (IF m.type = "pages" THEN {Len(inbox')} ELSE {})
         /\ Catalogs' = Catalogs \cup (IF m.type = "catalog" THEN {Len(inbox')} ELSE {})
<1>1. /\ inbox' \in Seq(Message) /\ Len(inbox') = Len(inbox) + 1 /\ Len(inbox) \in Nat
      /\ inbox'[Len(inbox')] = m
      /\ \A i \in 1..Len(inbox) : inbox'[i] = inbox[i]
  OBVIOUS
<1>2. 1..Len(inbox') = (1..Len(inbox)) \cup {Len(inbox')}
  BY <1>1
<1>3. QED BY <1>1, <1>2 DEF Pages, Catalogs

(* What kind of message it is.                                             *)
LEMMA MessageTypes ==
  ASSUME inbox \in Seq(Message)
  PROVE  \A i \in 1..Len(inbox) :
           /\ i \in Nat /\ 1 <= i /\ inbox[i] \in Message
           /\ inbox[i].of \in Nat /\ inbox[i].asOf \in Nat
           /\ inbox[i].type \in {"pages", "catalog"}
<1> SUFFICES ASSUME NEW i \in 1..Len(inbox)
             PROVE  /\ i \in Nat /\ 1 <= i /\ inbox[i] \in Message
                    /\ inbox[i].of \in Nat /\ inbox[i].asOf \in Nat
                    /\ inbox[i].type \in {"pages", "catalog"}
  OBVIOUS
<1>1. inbox[i] \in Message /\ i \in Nat /\ 1 <= i
  OBVIOUS
<1>2. QED BY <1>1 DEF Message

(* A message less.                                                         *)
LEMMA Taken ==
  ASSUME inbox \in Seq(Message), inbox # <<>>, inbox' = Tail(inbox)
  PROVE  /\ inbox' \in Seq(Message) /\ Len(inbox) \in Nat /\ Len(inbox') = Len(inbox) - 1
         /\ Head(inbox) = inbox[1] /\ Head(inbox) \in Message /\ 1 \in 1..Len(inbox)
         /\ \A i \in 1..Len(inbox') : i + 1 \in 1..Len(inbox) /\ inbox'[i] = inbox[i + 1]
         /\ \A i \in 2..Len(inbox) : i - 1 \in 1..Len(inbox') /\ inbox'[i - 1] = inbox[i]
OBVIOUS

(* A step that is not the bridge's, nor the phone's.                       *)
LEMMA BridgeWaits == BridgeInvariant /\ UNCHANGED bridgeVars => BridgeInvariant'
<1> SUFFICES ASSUME BridgeInvariant, UNCHANGED bridgeVars PROVE BridgeInvariant'
  OBVIOUS
<1> USE DEF bridgeVars, phoneVars, serveVars, fileVars
<1>1. Pages' = Pages /\ (Relayed' <=> Relayed) /\ Serving' = Serving
  BY DEF Pages, Relayed, Serving
<1>2. CatalogsComeInOrder' /\ AnswersComeAfterCatalogs'
  BY <1>1, InboxStays
<1>3. RelayTypes' /\ OneAnswerComes'
  BY <1>1 DEF BridgeInvariant, RelayTypes, OneAnswerComes
<1>4. AnswersMatchUnlessLate' /\ AnswersFollowTheirCatalog'
  BY DEF BridgeInvariant, AnswersMatchUnlessLate, AnswersFollowTheirCatalog
<1>5. QED BY <1>2, <1>3, <1>4 DEF BridgeInvariant

(* A relay comes or goes.                                                  *)
LEMMA RelaysChange ==
  ASSUME BridgeInvariant,
         \/ ConnectTransport \/ WaitTransportReady \/ TransportDisconnected
         \/ PhoneConnects \/ PhoneLeaves \/ RawFrameErrorEscapes \/ ResetBridge
  PROVE  BridgeInvariant'
<1> USE DEF phoneVars, serveVars, fileVars
<1>1. RelayTypes /\ OneAnswerComes /\ CatalogsComeInOrder /\ AnswersComeAfterCatalogs
      /\ AnswersMatchUnlessLate /\ AnswersFollowTheirCatalog
  BY DEF BridgeInvariant
<1>2. UNCHANGED <<served, answered, catalogs>>
  BY DEF ConnectTransport, WaitTransportReady, TransportDisconnected, PhoneConnects,
         PhoneLeaves, RawFrameErrorEscapes, ResetBridge
<1>3. AnswersMatchUnlessLate' /\ AnswersFollowTheirCatalog'
  BY <1>1, <1>2 DEF AnswersMatchUnlessLate, AnswersFollowTheirCatalog
<1>4. CASE ConnectTransport
  <2>1. /\ inbox' = <<>> /\ owed' \subseteq owed /\ offered' = 0 /\ cache' = cache
        /\ stage' = "await" /\ relay' \in {"advertising", "up"} /\ unwritten' = unwritten
    BY <1>4 DEF ConnectTransport
  <2>6. late' = (owed' # {}) /\ late' \in BOOLEAN
    <3>1. late' = (owed' # {})
      BY <1>4 DEF ConnectTransport
    <3>2. QED BY Zenon, <3>1
  <2>2. Pages' = {} /\ Catalogs' = {}
    BY <2>1 DEF Pages, Catalogs
  <2>3. RelayTypes'
    <3>1. <<>> \in Seq(Message)
      OBVIOUS
    <3>2. QED BY <1>1, <1>2, <2>1, <2>6, <3>1 DEF RelayTypes
  <2>4. OneAnswerComes' /\ CatalogsComeInOrder' /\ AnswersComeAfterCatalogs'
    <3>1. ~late' => owed' = {}
      BY <2>6
    <3>2. OneAnswerComes'
      BY <2>2, <3>1 DEF OneAnswerComes
    <3>3. CatalogsComeInOrder' /\ AnswersComeAfterCatalogs'
      BY <1>1, <1>2, <2>1, <2>2 DEF CatalogsComeInOrder, AnswersComeAfterCatalogs
    <3>4. QED BY <3>2, <3>3
  <2>5. QED BY <1>3, <2>3, <2>4 DEF BridgeInvariant
<1>5. CASE ResetBridge
  <2>1. stage' = "connect" /\ relay' = "none" /\ ~Relayed' /\ cache' \in {cache, -1}
        /\ UNCHANGED <<inbox, owed, offered, late, unwritten>>
    BY <1>5 DEF ResetBridge, Relayed
  <2>2. RelayTypes'
    BY <1>1, <1>2, <2>1 DEF RelayTypes
  <2>3. OneAnswerComes' /\ CatalogsComeInOrder' /\ AnswersComeAfterCatalogs'
    BY <1>1, <1>2, <2>1
       DEF OneAnswerComes, CatalogsComeInOrder, AnswersComeAfterCatalogs, RelayTypes
  <2>4. QED BY <1>3, <2>2, <2>3 DEF BridgeInvariant
<1>6. CASE \/ WaitTransportReady \/ TransportDisconnected \/ PhoneConnects
           \/ PhoneLeaves \/ RawFrameErrorEscapes
  <2>1. /\ UNCHANGED <<inbox, offered, late, cache, unwritten, owed>>
        /\ stage' = "wait" <=> stage = "wait"
        /\ Relayed' => Relayed
    BY <1>1, <1>6 DEF WaitTransportReady, TransportDisconnected, PhoneConnects, PhoneLeaves,
                 RawFrameErrorEscapes, Relayed, RelayTypes
  <2>2. RelayTypes'
    <3>1. /\ stage' \in {"connect", "await", "read", "wait", "ended"}
          /\ relay' \in {"none", "advertising", "up", "lost"}
          /\ (stage' = "connect") <=> (relay' = "none")
      BY <1>1, <1>6 DEF WaitTransportReady, TransportDisconnected, PhoneConnects, PhoneLeaves,
                   RawFrameErrorEscapes, RelayTypes
    <3>2. QED BY <1>1, <1>2, <2>1, <3>1 DEF RelayTypes
  <2>3. Pages' = Pages /\ Serving' = Serving
    BY <1>2, <2>1 DEF Pages, Serving
  <2>4. OneAnswerComes'
    BY <1>1, <1>2, <2>1, <2>3 DEF OneAnswerComes
  <2>5. CatalogsComeInOrder' /\ AnswersComeAfterCatalogs'
    BY <1>2, <2>1, InboxStays
  <2>6. QED BY <1>3, <2>2, <2>4, <2>5 DEF BridgeInvariant
<1>7. QED BY <1>4, <1>5, <1>6

(* A request is read, or given up.                                         *)
LEMMA RequestsAreServed ==
  ASSUME BridgeInvariant, SendRelay \/ SendRelayRaises \/ WaitFails
  PROVE  BridgeInvariant'
<1> USE DEF phoneVars, serveVars, fileVars
<1>1. RelayTypes /\ OneAnswerComes /\ CatalogsComeInOrder /\ AnswersComeAfterCatalogs
      /\ AnswersMatchUnlessLate /\ AnswersFollowTheirCatalog
  BY DEF BridgeInvariant
<1>2. UNCHANGED <<inbox, catalogs, offered, cache, unwritten, relay, answered>>
  BY DEF SendRelay, SendRelayRaises, WaitFails
<1>3. Relayed /\ Relayed' /\ stage' \in {"read", "wait"} /\ stage \in {"read", "wait"}
  BY DEF SendRelay, SendRelayRaises, WaitFails, RequestRead, Relayed
<1>4. CatalogsComeInOrder' /\ AnswersComeAfterCatalogs'
  BY <1>2, <1>3, InboxStays
<1>5. AnswersMatchUnlessLate' /\ AnswersFollowTheirCatalog'
  BY <1>1, <1>2 DEF AnswersMatchUnlessLate, AnswersFollowTheirCatalog
<1>6. Pages' = Pages
  BY <1>2 DEF Pages
<1>7. RequestRead => served' \in Seq(Int) /\ Len(served') \in Nat
  <2>1. \A id \in 0..Len(frames) : id \in Int
    OBVIOUS
  <2>2. QED BY <1>1, <2>1 DEF RequestRead, RelayTypes
<1>8. RelayTypes' /\ OneAnswerComes'
  <2>1. CASE SendRelay
    <3>1. stage = "read" /\ stage' = "wait" /\ late' = late /\ owed' = owed \cup {Len(served')}
      BY <2>1 DEF SendRelay, RequestRead
    <3>2. RelayTypes'
      BY <1>1, <1>2, <1>3, <1>7, <2>1, <3>1 DEF RelayTypes, Relayed, SendRelay
    <3>3. OneAnswerComes'
      BY <1>1, <1>3, <1>6, <3>1 DEF OneAnswerComes, Serving
    <3>4. QED BY <3>2, <3>3
  <2>2. CASE SendRelayRaises
    <3>1. stage = "read" /\ stage' = stage /\ late' = late /\ owed' = owed
      BY <2>2 DEF SendRelayRaises, RequestRead
    <3>2. RelayTypes'
      BY <1>1, <1>2, <1>3, <1>7, <2>2, <3>1 DEF RelayTypes, Relayed, SendRelayRaises
    <3>3. OneAnswerComes'
      BY <1>1, <1>3, <1>6, <3>1 DEF OneAnswerComes
    <3>4. QED BY <3>2, <3>3
  <2>3. CASE WaitFails
    <3>1. late' = TRUE /\ owed' = owed /\ served' = served
      BY <2>3 DEF WaitFails
    <3>2. QED BY <1>1, <1>2, <1>3, <3>1 DEF RelayTypes, Relayed, OneAnswerComes
  <2>4. QED BY <2>1, <2>2, <2>3
<1>9. QED BY <1>4, <1>5, <1>8 DEF BridgeInvariant

(* The phone sends a message.                                              *)
LEMMA MessagesArrive ==
  ASSUME BridgeInvariant, PhoneAnswers \/ PhoneSendsCatalog
  PROVE  BridgeInvariant'
<1> USE DEF phoneVars, serveVars, fileVars
<1>1. RelayTypes /\ OneAnswerComes /\ CatalogsComeInOrder /\ AnswersComeAfterCatalogs
      /\ AnswersMatchUnlessLate /\ AnswersFollowTheirCatalog
  BY DEF BridgeInvariant
<1>2. UNCHANGED <<stage, served, late, cache, unwritten, relay, answered>>
      /\ Relayed /\ Relayed'
  BY <1>1 DEF PhoneAnswers, PhoneSendsCatalog, RelayTypes, Relayed
<1>3. AnswersMatchUnlessLate' /\ AnswersFollowTheirCatalog'
  BY <1>1, <1>2 DEF AnswersMatchUnlessLate, AnswersFollowTheirCatalog
<1>4. Serving' = Serving /\ Serving \in Nat
  BY <1>1, <1>2 DEF Serving, RelayTypes
<1>5. CASE PhoneAnswers
  <2>0. PICK k \in owed :
          /\ owed' = owed \ {k}
          /\ inbox' = Append(inbox, [type |-> "pages", of |-> k, asOf |-> offered])
    BY <1>5 DEF PhoneAnswers
  <2> DEFINE m == [type |-> "pages", of |-> k, asOf |-> offered]
  <2>1. owed' = owed \ {k} /\ inbox' = Append(inbox, m)
    BY <2>0
  <2>2. m \in Message /\ m.type = "pages" /\ m.of = k /\ m.asOf = offered
    BY <1>1 DEF Message, RelayTypes
  <2>3. UNCHANGED <<catalogs, offered>>
    BY <1>5 DEF PhoneAnswers
  <2> HIDE DEF m
  <2>4. /\ inbox' \in Seq(Message) /\ Len(inbox') = Len(inbox) + 1
        /\ inbox'[Len(inbox')] = m
        /\ \A i \in 1..Len(inbox) : inbox'[i] = inbox[i]
        /\ Pages' = Pages \cup {Len(inbox')} /\ Catalogs' = Catalogs
        /\ Len(inbox) \in Nat
    <3>1. inbox \in Seq(Message)
      BY <1>1 DEF RelayTypes
    <3>2. QED BY <2>1, <2>2, <3>1, Appended
  <2>5. Good' = Good /\ \A i \in Catalogs : i \in 1..Len(inbox) /\ inbox'[i] = inbox[i]
    BY <2>4 DEF Good, Catalogs
  <2>6. \A i \in Pages : i \in 1..Len(inbox) /\ inbox'[i] = inbox[i]
    BY <2>4 DEF Pages
  <2>7. RelayTypes'
    BY <1>1, <1>2, <2>1, <2>3, <2>4 DEF RelayTypes
  <2>8. OneAnswerComes'
    BY <1>1, <1>2, <1>4, <2>1, <2>2, <2>4, <2>6 DEF OneAnswerComes
  <2>9. CatalogsComeInOrder'
    BY <1>1, <1>2, <2>3, <2>4, <2>5 DEF CatalogsComeInOrder
  <2>10. AnswersComeAfterCatalogs'
    <3>1. offered > 0 => Filed(offered) \/ \E j \in Good : inbox[j].of = offered
      BY <1>1, <1>2 DEF AnswersComeAfterCatalogs
    <3>2. \A j \in Good : j \in 1..Len(inbox) /\ inbox'[j] = inbox[j] /\ j < Len(inbox')
      BY <2>4, <2>5 DEF Good
    <3>3. \A i \in Pages : inbox'[i].asOf > 0 =>
            Filed(inbox'[i].asOf)
              \/ \E j \in Good : j < i /\ inbox'[j].of = inbox'[i].asOf
      BY <1>1, <1>2, <2>6, <3>2 DEF AnswersComeAfterCatalogs
    <3>4. QED
      BY <1>2, <2>2, <2>3, <2>4, <2>5, <3>1, <3>2, <3>3 DEF AnswersComeAfterCatalogs, Filed
  <2>11. QED BY <1>3, <2>7, <2>8, <2>9, <2>10 DEF BridgeInvariant
<1>6. CASE PhoneSendsCatalog
  <2> DEFINE m == [type |-> "catalog", of |-> catalogs', asOf |-> 0]
  <2>1. /\ inbox' = Append(inbox, m) /\ owed' = owed /\ catalogs' = catalogs + 1
        /\ offered' = IF catalogs' \in BadCatalogs THEN offered ELSE catalogs'
    BY <1>6 DEF PhoneSendsCatalog
  <2>2. m \in Message /\ m.type = "catalog" /\ m.of = catalogs'
    BY <1>1, <2>1 DEF Message, RelayTypes
  <2> HIDE DEF m
  <2>3. /\ inbox' \in Seq(Message) /\ Len(inbox') = Len(inbox) + 1
        /\ inbox'[Len(inbox')] = m
        /\ \A i \in 1..Len(inbox) : inbox'[i] = inbox[i]
        /\ Catalogs' = Catalogs \cup {Len(inbox')} /\ Pages' = Pages
        /\ Len(inbox) \in Nat
    <3>1. inbox \in Seq(Message)
      BY <1>1 DEF RelayTypes
    <3>2. QED BY <2>1, <2>2, <3>1, Appended
  <2>4. \A i \in Catalogs : i \in 1..Len(inbox) /\ inbox'[i] = inbox[i] /\ i < Len(inbox')
    BY <2>3 DEF Catalogs
  <2>5. \A i \in Pages : i \in 1..Len(inbox) /\ inbox'[i] = inbox[i]
    BY <2>3 DEF Pages
  <2>6. /\ Good \subseteq Good' /\ (\A j \in Good : inbox'[j] = inbox[j])
        /\ catalogs' \notin BadCatalogs => Len(inbox') \in Good'
    BY <2>2, <2>3, <2>4 DEF Good
  <2>7. RelayTypes'
    BY <1>1, <1>2, <2>1, <2>3 DEF RelayTypes
  <2>8. OneAnswerComes'
    BY <1>1, <1>2, <1>4, <2>1, <2>3, <2>5 DEF OneAnswerComes
  <2>9. CatalogsComeInOrder'
    <3>1. catalogs \in Nat /\ cache \in Int /\ Len(inbox') \in Nat
      BY <1>1, <2>3 DEF RelayTypes
    <3>2. \A i \in Catalogs : inbox[i].of \in Nat
      BY <1>1, MessageTypes DEF RelayTypes, Catalogs
    <3>3. QED BY <1>1, <1>2, <2>1, <2>2, <2>3, <2>4, <3>1, <3>2 DEF CatalogsComeInOrder
  <2>10. AnswersComeAfterCatalogs'
    <3>1. \A i \in Pages' : inbox'[i].asOf > 0 =>
            Filed(inbox'[i].asOf)
              \/ \E j \in Good' : j < i /\ inbox'[j].of = inbox'[i].asOf
      BY <1>1, <1>2, <2>3, <2>5, <2>6 DEF AnswersComeAfterCatalogs
    <3>2. offered' > 0 => Filed(offered') \/ \E j \in Good' : inbox'[j].of = offered'
      BY <1>1, <1>2, <2>1, <2>2, <2>3, <2>6 DEF AnswersComeAfterCatalogs
    <3>3. QED BY <1>2, <3>1, <3>2 DEF AnswersComeAfterCatalogs, Filed
  <2>11. QED BY <1>3, <2>7, <2>8, <2>9, <2>10 DEF BridgeInvariant
<1>7. QED BY <1>5, <1>6

(* The bridge takes a message.                                             *)
LEMMA MessagesArePolled ==
  ASSUME BridgeInvariant, PollCatalog \/ PollAnswer
  PROVE  BridgeInvariant'
<1> USE DEF phoneVars, serveVars, fileVars
<1>1. RelayTypes /\ OneAnswerComes /\ CatalogsComeInOrder /\ AnswersComeAfterCatalogs
      /\ AnswersMatchUnlessLate /\ AnswersFollowTheirCatalog
  BY DEF BridgeInvariant
<1>2. /\ inbox # <<>> /\ inbox' = Tail(inbox) /\ Relayed /\ Relayed' /\ stage = "wait"
      /\ UNCHANGED <<served, late, relay, owed, catalogs, offered>>
  BY DEF PollCatalog, PollAnswer, Relayed
<1>3. /\ inbox' \in Seq(Message) /\ Len(inbox) \in Nat /\ Len(inbox') = Len(inbox) - 1
      /\ Head(inbox) = inbox[1] /\ Head(inbox) \in Message /\ 1 \in 1..Len(inbox)
      /\ \A i \in 1..Len(inbox') : i + 1 \in 1..Len(inbox) /\ inbox'[i] = inbox[i + 1]
      /\ \A i \in 2..Len(inbox) : i - 1 \in 1..Len(inbox') /\ inbox'[i - 1] = inbox[i]
  BY <1>1, <1>2, Taken DEF RelayTypes
<1>4. /\ \A i \in Good : i \in Nat /\ i >= 1
      /\ \A i \in Pages' : i \in Nat /\ i + 1 \in Pages /\ inbox'[i] = inbox[i + 1]
      /\ \A i \in Catalogs' : i \in Nat /\ i + 1 \in Catalogs /\ inbox'[i] = inbox[i + 1]
      /\ \A i \in Good \ {1} : i \in Nat /\ i - 1 \in Good' /\ inbox'[i - 1] = inbox[i]
  <2>1. \A i \in Pages' : i \in Nat /\ i + 1 \in Pages /\ inbox'[i] = inbox[i + 1]
    BY <1>3 DEF Pages
  <2>2. \A i \in Catalogs' : i \in Nat /\ i + 1 \in Catalogs /\ inbox'[i] = inbox[i + 1]
    BY <1>3 DEF Catalogs
  <2>3. ASSUME NEW i \in Good \ {1}
        PROVE  i \in Nat /\ i - 1 \in Good' /\ inbox'[i - 1] = inbox[i]
    <3>1. i \in 2..Len(inbox) /\ inbox[i].type = "catalog" /\ inbox[i].of \notin BadCatalogs
      BY <1>3 DEF Good, Catalogs
    <3>2. QED BY <1>3, <3>1 DEF Good, Catalogs
  <2>4. \A i \in Good : i \in Nat /\ i >= 1
    BY <1>3 DEF Good, Catalogs
  <2>5. QED BY <2>1, <2>2, <2>3, <2>4
<1>5. /\ cache \in Int /\ offered \in Nat /\ catalogs \in Nat
      /\ \A i \in 1..Len(inbox) : inbox[i].of \in Nat /\ inbox[i].asOf \in Nat
  BY <1>1, MessageTypes DEF RelayTypes
<1> DEFINE FiledNext(n) == cache' >= n \/ \E k \in unwritten' : k >= n
<1>6. ASSUME \A n \in Nat : Filed(n) => FiledNext(n), 1 \in Good => FiledNext(inbox[1].of)
      PROVE  AnswersComeAfterCatalogs'
  <2> HIDE DEF FiledNext
  <2>1. ASSUME NEW n \in Nat, Filed(n) \/ \E j \in Good : inbox[j].of = n
        PROVE  FiledNext(n) \/ \E j \in Good' : inbox'[j].of = n
    BY <1>4, <1>6, <2>1
  <2>2. ASSUME NEW i \in Pages', inbox'[i].asOf > 0
        PROVE  FiledNext(inbox'[i].asOf)
                 \/ \E j \in Good' : j < i /\ inbox'[j].of = inbox'[i].asOf
    <3>1. i \in Nat /\ i + 1 \in Pages /\ inbox'[i] = inbox[i + 1]
          /\ i + 1 \in 1..Len(inbox)
      BY <1>4 DEF Pages
    <3>2. inbox[i + 1].asOf \in Nat
      BY <1>5, <3>1
    <3>3. CASE Filed(inbox[i + 1].asOf)
      BY <1>6, <3>1, <3>2, <3>3
    <3>4. ASSUME NEW j \in Good, j < i + 1, inbox[j].of = inbox[i + 1].asOf
          PROVE  FiledNext(inbox'[i].asOf)
                   \/ \E l \in Good' : l < i /\ inbox'[l].of = inbox'[i].asOf
      <4>1. CASE j = 1
        BY <1>6, <3>1, <3>4, <4>1
      <4>2. CASE j # 1
        <5>1. j \in Nat /\ j - 1 \in Good' /\ inbox'[j - 1] = inbox[j] /\ j - 1 < i
          BY <1>4, <3>1, <3>4, <4>2
        <5>2. QED BY <3>1, <3>4, <5>1
      <4>3. QED BY <4>1, <4>2
    <3>5. QED BY <1>1, <1>2, <2>2, <3>1, <3>3, <3>4 DEF AnswersComeAfterCatalogs
  <2>3. offered > 0 => FiledNext(offered) \/ \E j \in Good' : inbox'[j].of = offered
    BY <1>1, <1>2, <1>5, <2>1 DEF AnswersComeAfterCatalogs
  <2>4. QED BY <1>2, <2>2, <2>3 DEF AnswersComeAfterCatalogs, Filed, FiledNext
<1>7. \A i, j \in Catalogs' : i < j => inbox'[i].of < inbox'[j].of
  <2>1. SUFFICES ASSUME NEW i \in Catalogs', NEW j \in Catalogs', i < j
                 PROVE  inbox'[i].of < inbox'[j].of
    OBVIOUS
  <2>2. /\ i \in Nat /\ i + 1 \in Catalogs /\ inbox'[i] = inbox[i + 1]
        /\ j \in Nat /\ j + 1 \in Catalogs /\ inbox'[j] = inbox[j + 1]
        /\ i + 1 < j + 1
    BY <1>4, <2>1
  <2>3. \A k, l \in Catalogs : k < l => inbox[k].of < inbox[l].of
    BY <1>1, <1>2 DEF CatalogsComeInOrder
  <2>4. QED BY <2>2, <2>3
<1>8. CASE PollCatalog
  <2>1. UNCHANGED <<stage, answered>> /\ inbox[1].type = "catalog" /\ 1 \in Catalogs
        /\ Save(inbox[1].of)
    BY <1>3, <1>8 DEF PollCatalog, IsCatalog, Catalogs
  <2>2. /\ cache < inbox[1].of /\ inbox[1].of <= catalogs /\ inbox[1].of \in Nat
        /\ cache <= catalogs /\ unwritten \subseteq Nat
    BY <1>1, <1>2, <1>3, <1>5, <2>1 DEF CatalogsComeInOrder, RelayTypes
  <2>3. /\ cache' \in Int /\ cache' <= inbox[1].of /\ cache' <= catalogs
        /\ unwritten' \subseteq Nat
        /\ \A n \in Nat : Filed(n) => FiledNext(n)
        /\ 1 \in Good => FiledNext(inbox[1].of)
    <3>1. CASE inbox[1].of \in BadCatalogs /\ cache' = cache /\ unwritten' = unwritten
      <4>1. \A n \in Nat : Filed(n) => FiledNext(n)
        BY <3>1 DEF Filed
      <4>2. 1 \notin Good
        BY <3>1 DEF Good
      <4>3. cache' \in Int /\ cache' <= inbox[1].of /\ cache' <= catalogs
        BY <1>5, <2>2, <3>1
      <4>4. QED BY <2>2, <3>1, <4>1, <4>2, <4>3
    <3>2. CASE cache' = inbox[1].of /\ UNCHANGED unwritten
      BY <1>5, <2>2, <3>2 DEF Filed
    <3>3. CASE cache' \in {cache, -1} /\ unwritten' = unwritten \cup {inbox[1].of}
      <4>1. ASSUME NEW n \in Nat, Filed(n) PROVE FiledNext(n)
        BY <1>5, <2>2, <3>3, <4>1 DEF Filed
      <4>2. FiledNext(inbox[1].of)
        BY <2>2, <3>3
      <4>3. cache' \in Int /\ cache' <= inbox[1].of /\ cache' <= catalogs
        BY <1>5, <2>2, <3>3
      <4>5. unwritten' \subseteq Nat
        BY <2>2, <3>3
      <4>4. QED BY <4>1, <4>2, <4>3, <4>5
    <3>4. QED BY <2>1, <3>1, <3>2, <3>3 DEF Save
  <2>4. RelayTypes'
    BY <1>1, <1>2, <1>3, <2>1, <2>3 DEF RelayTypes
  <2>5. OneAnswerComes'
    <3>1. Serving' = Serving
      BY <1>2 DEF Serving
    <3>2. SUFFICES ASSUME ~late PROVE OneAnswerComes'
      BY <1>2 DEF OneAnswerComes
    <3>3. /\ owed \subseteq {Serving}
          /\ \A i \in Pages : owed = {} /\ inbox[i].of = Serving
          /\ \A i, j \in Pages : i = j
      BY <1>1, <1>2, <3>2 DEF OneAnswerComes
    <3>4. \A i \in Pages' : owed = {} /\ inbox'[i].of = Serving
      BY <1>4, <3>3
    <3>5. \A i, j \in Pages' : i = j
      <4>1. TAKE i, j \in Pages'
      <4>2. i \in Nat /\ j \in Nat /\ i + 1 \in Pages /\ j + 1 \in Pages
        BY <1>4
      <4>3. QED BY <3>3, <4>2
    <3>6. QED BY <1>2, <2>1, <3>1, <3>3, <3>4, <3>5 DEF OneAnswerComes
  <2>6. CatalogsComeInOrder'
    <3>1. ASSUME NEW i \in Catalogs'
          PROVE  cache' < inbox'[i].of /\ inbox'[i].of <= catalogs
      <4>1. i \in Nat /\ i + 1 \in Catalogs /\ inbox'[i] = inbox[i + 1] /\ 1 < i + 1
            /\ i + 1 \in 1..Len(inbox)
        BY <1>4 DEF Catalogs
      <4>2. inbox[1].of < inbox[i + 1].of /\ inbox[i + 1].of <= catalogs
        BY <1>1, <1>2, <2>1, <4>1 DEF CatalogsComeInOrder
      <4>3. QED BY <1>5, <2>2, <2>3, <4>1, <4>2
    <3>2. \A i, j \in Catalogs' : i < j => inbox'[i].of < inbox'[j].of
      BY <1>7
    <3>3. QED BY <1>2, <2>3, <3>1, <3>2 DEF CatalogsComeInOrder
  <2>7. AnswersComeAfterCatalogs'
    BY <1>6, <2>3
  <2>8. AnswersMatchUnlessLate' /\ AnswersFollowTheirCatalog'
    BY <1>1, <2>1 DEF AnswersMatchUnlessLate, AnswersFollowTheirCatalog
  <2>9. QED BY <2>4, <2>5, <2>6, <2>7, <2>8 DEF BridgeInvariant
<1>9. CASE PollAnswer
  <2>1. /\ stage' = "read" /\ cache' = cache /\ inbox[1].type # "catalog"
        /\ answered' = answered \cup
             {[request |-> Serving, answer |-> inbox[1], late |-> late, cached |-> cache,
               unwritten |-> unwritten]}
        /\ unwritten' = unwritten
    BY <1>3, <1>9 DEF PollAnswer, IsCatalog
  <2>2. 1 \in Pages /\ 1 \notin Good
    BY <1>3, <2>1 DEF Pages, Good, Catalogs, Message
  <2>3. RelayTypes'
    BY <1>1, <1>2, <1>3, <2>1 DEF RelayTypes
  <2>4. OneAnswerComes'
    <3>1. Relayed /\ ~late => Pages' = {} /\ owed = {}
      <4>1. SUFFICES ASSUME Relayed, ~late PROVE Pages' = {} /\ owed = {}
        OBVIOUS
      <4>2. owed = {} /\ \A i \in Pages : i = 1
        BY <1>1, <2>2, <4>1 DEF OneAnswerComes
      <4>3. ASSUME NEW i \in Pages' PROVE FALSE
        <5>1. i \in Nat /\ i >= 1 /\ i + 1 \in Pages
          BY <1>3, <1>4 DEF Pages
        <5>2. QED BY <4>2, <5>1
      <4>4. QED BY <4>2, <4>3
    <3>2. QED BY <1>2, <2>1, <3>1 DEF OneAnswerComes
  <2>5. CatalogsComeInOrder'
    <3>1. \A i \in Catalogs' : cache < inbox'[i].of /\ inbox'[i].of <= catalogs
      BY <1>1, <1>2, <1>4 DEF CatalogsComeInOrder
    <3>2. QED BY <1>1, <1>2, <1>7, <2>1, <3>1 DEF CatalogsComeInOrder
  <2>6. AnswersComeAfterCatalogs'
    BY <1>6, <2>1, <2>2 DEF Filed
  <2>7. AnswersMatchUnlessLate'
    <3>1. ~late => inbox[1].of = Serving
      BY <1>1, <1>2, <2>2 DEF OneAnswerComes
    <3>2. late \in BOOLEAN
      BY <1>1 DEF RelayTypes
    <3>3. QED BY <1>1, <2>1, <3>1, <3>2 DEF AnswersMatchUnlessLate
  <2>8. AnswersFollowTheirCatalog'
    <3>1. inbox[1].asOf > 0 => Filed(inbox[1].asOf)
      <4>1. \A j \in Good : j \in Nat /\ j > 1
        BY <1>4, <2>2
      <4>2. QED BY <1>1, <1>2, <2>2, <4>1 DEF AnswersComeAfterCatalogs
    <3>2. QED BY <1>1, <2>1, <3>1 DEF AnswersFollowTheirCatalog, Filed
  <2>9. QED BY <2>3, <2>4, <2>5, <2>6, <2>7, <2>8 DEF BridgeInvariant
<1>10. QED BY <1>8, <1>9

LEMMA BridgeInvariant_Inductive == BridgeInvariant /\ [Next]_vars => BridgeInvariant'
<1> SUFFICES ASSUME BridgeInvariant, [Next]_vars PROVE BridgeInvariant'
  OBVIOUS
<1>1. CASE UNCHANGED bridgeVars
  BY <1>1, BridgeWaits
<1>2. CASE BridgeStep
  <2>1. CASE ExpectedRequest
    BY <1>1, <2>1, BridgeWaits DEF ExpectedRequest
  <2>2. CASE \/ ConnectTransport \/ WaitTransportReady \/ TransportDisconnected
             \/ PhoneConnects \/ PhoneLeaves \/ RawFrameErrorEscapes \/ ResetBridge
    BY <2>2, RelaysChange
  <2>3. CASE SendRelay \/ SendRelayRaises \/ WaitFails
    BY <2>3, RequestsAreServed
  <2>4. CASE PhoneAnswers \/ PhoneSendsCatalog
    BY <2>4, MessagesArrive
  <2>5. CASE PollCatalog \/ PollAnswer
    BY <2>5, MessagesArePolled
  <2>6. QED BY <1>2, <2>1, <2>2, <2>3, <2>4, <2>5 DEF BridgeStep
<1>3. QED
  <2>1. UNCHANGED vars => UNCHANGED bridgeVars
    BY DEF vars
  <2>2. Next => UNCHANGED bridgeVars \/ BridgeStep
    BY DEF Next, OnTheLink
  <2>3. QED BY <1>1, <1>2, <2>1, <2>2

THEOREM BridgeInvariantHolds == Spec => []BridgeInvariant
<1>1. QED BY BridgeInit_Invariant, BridgeInvariant_Inductive, PTL DEF Spec

(* The answer the calculator gets is the answer to the request it made,    *)
(* whatever catalogs, lost relays and resets come between, unless an       *)
(* earlier request went without its answer, on the relay or, the phone     *)
(* still at work on it, on one before.                                     *)
THEOREM AnswersMatch == Spec => []AnswersMatchUnlessLate
<1>1. BridgeInvariant => AnswersMatchUnlessLate
  BY DEF BridgeInvariant
<1>2. QED BY <1>1, BridgeInvariantHolds, PTL

(* When the calculator gets an answer, pins.v1 is as new as the newest     *)
(* readable catalog the phone sent on the relay before that answer, unless *)
(* the write of that one or of a newer one raised.                         *)
THEOREM AnswersFollow == Spec => []AnswersFollowTheirCatalog
<1>1. BridgeInvariant => AnswersFollowTheirCatalog
  BY DEF BridgeInvariant
<1>2. QED BY <1>1, BridgeInvariantHolds, PTL
-----------------------------------------------------------------------------
(***************************************************************************)
(* The mock.  The inductive invariant speaks of what a command works on,   *)
(* which is memory, and of the file, from which memory is taken again: the *)
(* numbers of the chats are below their count, so that the count is the    *)
(* number of no chat; a prompt to be answered is one of its chat's; and a  *)
(* chat's prompts are answered, to be answered, or gone with a reset.      *)
(***************************************************************************)
Chat == [id : Nat, rows : Nat, asked : Nat, replied : Nat]

ListSound(list) ==
  /\ list \in Seq(Chat) /\ Len(list) >= Len(Seed)
  /\ \A i \in 1..Len(list) : list[i].id < Len(list)
  /\ \A i, j \in 1..Len(list) : list[i].id = list[j].id => i = j

InList(id, list) == \E i \in 1..Len(list) : list[i].id = id

PlaceSound(list, current, place) ==
  /\ place \in Nat
  /\ \A i \in 1..Len(list) : list[i].id = current => place <= Bottom(list[i])

PromptsSound(list, prompts) ==
  /\ IsFiniteSet(prompts)
  /\ \A p \in prompts : \E i \in 1..Len(list) :
       list[i].id = p.chat /\ p.nth \in Nat /\ p.nth <= list[i].asked

GoneSound(list, gone) ==
  \A id \in DOMAIN gone : gone[id] \in Int /\ InList(id, list)

Balanced(list, prompts, gone) ==
  \A i \in 1..Len(list) :
    list[i].asked - list[i].replied =
      Cardinality(PromptsOf(list[i].id, prompts))
        + (IF list[i].id \in DOMAIN gone THEN gone[list[i].id] ELSE 0)

MemSound(mem, gone) ==
  /\ ListSound(mem.chats) /\ InList(mem.active, mem.chats) /\ mem.saves \in BOOLEAN
  /\ PlaceSound(mem.chats, mem.active, mem.offset)
  /\ PromptsSound(mem.chats, mem.pending) /\ GoneSound(mem.chats, gone)
  /\ Balanced(mem.chats, mem.pending, gone)

DocSound(doc) ==
  doc = Document(doc) /\ ListSound(doc.chats) /\ InList(doc.active, doc.chats)

FileSound == store = CutFile \/ DocSound(store)

MockInvariant ==
  /\ MemSound(Memory, lost) /\ FileSound /\ StoreMatchesMemory
  /\ intact \in BOOLEAN /\ failures \in 0..MaxFailures

(* What was not written down is what it was.                               *)
Kept(before, after) ==
  after.saves \/ (before.saves = after.saves /\ before.chats = after.chats
                    /\ before.active = after.active)

LEMMA FindFinds ==
  ASSUME NEW mem, NEW id, InList(id, mem.chats)
  PROVE  Find(mem, id) \in 1..Len(mem.chats) /\ mem.chats[Find(mem, id)].id = id
BY DEF Find, InList

LEMMA TopFits ==
  ASSUME NEW list, ListSound(list), NEW current
  PROVE  PlaceSound(list, current, 0)
<1>1. \A i \in 1..Len(list) : list[i] \in Chat
  BY DEF ListSound
<1>2. \A i \in 1..Len(list) : 0 <= Bottom(list[i])
  BY <1>1, MockAssumption DEF Bottom, Chat
<1>3. QED BY <1>2 DEF PlaceSound

LEMMA ProcessedSound ==
  ASSUME NEW mem, NEW gone, MemSound(mem, gone), NEW due \in SUBSET mem.pending
  PROVE  MemSound(ProcessPending(mem, due), gone) /\ Kept(mem, ProcessPending(mem, due))
<1> DEFINE after == ProcessPending(mem, due)
           list == mem.chats
           n(id) == Cardinality(PromptsOf(id, due))
<1>1. list \in Seq(Chat) /\ Len(list) \in Nat /\ IsFiniteSet(mem.pending) /\ mem.saves \in BOOLEAN
  BY DEF MemSound, ListSound, PromptsSound
<1>2. after = State([i \in 1..Len(list) |-> Replied(list[i], n(list[i].id))],
                    mem.active, mem.offset, mem.pending \ due, mem.saves \/ due # {})
  BY DEF ProcessPending, Remaining
<1>3. ASSUME NEW id
      PROVE  /\ n(id) \in Nat /\ Cardinality(PromptsOf(id, mem.pending)) \in Nat
             /\ Cardinality(PromptsOf(id, mem.pending \ due))
                   = Cardinality(PromptsOf(id, mem.pending)) - n(id)
  <2> DEFINE all == PromptsOf(id, mem.pending)
             some == PromptsOf(id, due)
  <2>1. all \subseteq mem.pending /\ some \subseteq all /\ all \cap some = some
        /\ PromptsOf(id, mem.pending \ due) = all \ some
    BY DEF PromptsOf
  <2>2. IsFiniteSet(all) /\ IsFiniteSet(some)
    BY <1>1, <2>1, FS_Subset
  <2>3. Cardinality(all) \in Nat /\ Cardinality(some) \in Nat
    BY <2>2, FS_CardinalityType
  <2>4. Cardinality(all \ some) = Cardinality(all) - Cardinality(all \cap some)
    BY <2>2, FS_Difference
  <2>5. QED BY <2>1, <2>3, <2>4
<1> HIDE DEF n
<1>4. /\ after.chats \in Seq(Chat) /\ Len(after.chats) = Len(list)
      /\ after.active = mem.active /\ after.offset = mem.offset
      /\ after.pending = mem.pending \ due /\ after.saves = (mem.saves \/ due # {})
      /\ \A i \in 1..Len(list) :
           /\ after.chats[i].id = list[i].id /\ after.chats[i].asked = list[i].asked
           /\ after.chats[i].rows = list[i].rows + n(list[i].id)
           /\ after.chats[i].replied = list[i].replied + n(list[i].id)
  <2> DEFINE new == [i \in 1..Len(list) |-> Replied(list[i], n(list[i].id))]
  <2>1. \A i \in 1..Len(list) : list[i] \in Chat /\ n(list[i].id) \in Nat
    BY <1>1, <1>3
  <2>2. \A i \in 1..Len(list) : Replied(list[i], n(list[i].id)) \in Chat
    BY <2>1 DEF Chat, Replied
  <2>3. new \in [1..Len(list) -> Chat]
    BY <2>2
  <2>4. new \in Seq(Chat) /\ Len(new) = Len(list)
    BY <1>1, <2>3
  <2>5. QED BY <1>2, <2>4 DEF State, Replied
<1>5. \A i \in 1..Len(list) : list[i] \in Chat
  BY <1>1
<1> HIDE DEF after
<1>6. ListSound(after.chats) /\ InList(after.active, after.chats) /\ after.saves \in BOOLEAN
  BY <1>1, <1>4 DEF MemSound, ListSound, InList
<1>7. PlaceSound(after.chats, after.active, after.offset)
  <2>1. \A i \in 1..Len(list) : Bottom(list[i]) <= Bottom(after.chats[i])
        /\ Bottom(list[i]) \in Nat /\ Bottom(after.chats[i]) \in Nat
    <3> TAKE i \in 1..Len(list)
    <3>1. list[i].rows \in Nat /\ n(list[i].id) \in Nat /\ Window \in Nat
      BY <1>3, <1>5, MockAssumption DEF Chat
    <3>2. after.chats[i].rows = list[i].rows + n(list[i].id)
      BY <1>4
    <3>3. QED BY <3>1, <3>2 DEF Bottom
  <2>2. \A i \in 1..Len(list) : list[i].id = mem.active => mem.offset <= Bottom(list[i])
    BY DEF MemSound, PlaceSound
  <2>3. mem.offset \in Nat
    BY DEF MemSound, PlaceSound
  <2>4. QED BY <1>4, <2>1, <2>2, <2>3 DEF PlaceSound
<1>8. PromptsSound(after.chats, after.pending)
  <2>1. IsFiniteSet(after.pending)
    BY <1>1, <1>4, FS_Subset
  <2>2. QED BY <1>4, <2>1 DEF MemSound, PromptsSound
<1>9. GoneSound(after.chats, gone)
  BY <1>4 DEF MemSound, GoneSound, InList
<1>10. Balanced(after.chats, after.pending, gone)
  <2> SUFFICES ASSUME NEW i \in 1..Len(list)
               PROVE  after.chats[i].asked - after.chats[i].replied =
                        Cardinality(PromptsOf(after.chats[i].id, after.pending))
                          + (IF after.chats[i].id \in DOMAIN gone
                             THEN gone[after.chats[i].id] ELSE 0)
    BY <1>4 DEF Balanced
  <2>1. list[i].asked - list[i].replied =
          Cardinality(PromptsOf(list[i].id, mem.pending))
            + (IF list[i].id \in DOMAIN gone THEN gone[list[i].id] ELSE 0)
    BY DEF MemSound, Balanced
  <2>2. list[i].asked \in Nat /\ list[i].replied \in Nat
    BY <1>5 DEF Chat
  <2>3. list[i].id \in DOMAIN gone => gone[list[i].id] \in Int
    BY DEF MemSound, GoneSound
  <2>4. after.chats[i].id = list[i].id /\ after.chats[i].asked = list[i].asked
        /\ after.chats[i].replied = list[i].replied + n(list[i].id)
        /\ after.pending = mem.pending \ due
    BY <1>4
  <2>5. QED
    <3> DEFINE id == list[i].id
               owing == Cardinality(PromptsOf(id, mem.pending))
               left == IF id \in DOMAIN gone THEN gone[id] ELSE 0
    <3>1. left \in Int
      BY <2>3
    <3>2. list[i].asked - list[i].replied = owing + left
      BY <2>1
    <3>3. owing \in Nat /\ n(id) \in Nat
          /\ Cardinality(PromptsOf(id, mem.pending \ due)) = owing - n(id)
      BY <1>3
    <3>4. list[i].asked - (list[i].replied + n(id)) = (owing - n(id)) + left
      <4> DEFINE a == list[i].asked
                 r == list[i].replied
                 k == n(id)
      <4>1. a \in Nat /\ r \in Nat /\ k \in Nat /\ owing \in Nat /\ left \in Int /\ a - r = owing + left
        BY <2>2, <3>1, <3>2, <3>3
      <4> HIDE DEF a, r, k, left, owing
      <4>2. a - (r + k) = (owing - k) + left
        BY <4>1
      <4>3. QED BY <4>2 DEF a, r, k
    <3>5. QED BY <2>4, <3>3, <3>4 DEF left
<1>11. Kept(mem, after)
  <2>1. CASE due = {}
    <3>1. ASSUME NEW id PROVE n(id) = 0
      <4>1. PromptsOf(id, due) = {}
        BY <2>1 DEF PromptsOf
      <4>2. QED BY <4>1, FS_EmptySet DEF n
    <3>2. \A i \in 1..Len(list) : after.chats[i] = list[i]
      <4>1. \A i \in 1..Len(list) : after.chats[i] \in Chat
        BY <1>4
      <4>2. TAKE i \in 1..Len(list)
      <4>3. list[i] \in Chat /\ after.chats[i] \in Chat /\ n(list[i].id) = 0
        BY <1>5, <3>1, <4>1
      <4>4. list[i].rows + 0 = list[i].rows /\ list[i].replied + 0 = list[i].replied
        BY <4>3 DEF Chat
      <4>5. after.chats[i].id = list[i].id /\ after.chats[i].asked = list[i].asked
            /\ after.chats[i].rows = list[i].rows /\ after.chats[i].replied = list[i].replied
        BY <1>4, <4>3, <4>4
      <4>6. QED BY <4>3, <4>5 DEF Chat
    <3>3. after.chats = list
      BY <1>1, <1>4, <3>2
    <3>4. QED BY <1>1, <1>4, <2>1, <3>3 DEF Kept
  <2>2. CASE due # {}
    BY <1>4, <2>2 DEF Kept
  <2>3. QED BY <2>1, <2>2
<1>12. QED BY <1>6, <1>7, <1>8, <1>9, <1>10, <1>11 DEF MemSound, after

LEMMA NewChatSound ==
  ASSUME NEW mem, NEW gone, MemSound(mem, gone)
  PROVE  /\ MemSound(NewChat(mem), gone) /\ NewChat(mem).saves
         /\ NewChat(mem).pending = mem.pending
<1> DEFINE after == NewChat(mem)
           list == mem.chats
           len == Len(list)
           chat == [id |-> len, rows |-> 1, asked |-> 0, replied |-> 0]
<1>1. list \in Seq(Chat) /\ len \in Nat /\ IsFiniteSet(mem.pending) /\ chat \in Chat
      /\ \A i \in 1..len : list[i] \in Chat
  <2>1. list \in Seq(Chat) /\ IsFiniteSet(mem.pending)
    BY DEF MemSound, ListSound, PromptsSound
  <2>2. len \in Nat /\ \A i \in 1..len : list[i] \in Chat
    BY <2>1
  <2>3. chat \in Chat
    BY <2>2 DEF Chat
  <2>4. QED BY <2>1, <2>2, <2>3
<1>2. after = State(<<chat>> \o list, len, 0, mem.pending, TRUE)
  BY DEF NewChat
<1>3. /\ after.active = len /\ after.offset = 0 /\ after.pending = mem.pending
      /\ after.saves = TRUE /\ after.chats = <<chat>> \o list
  BY <1>2 DEF State
<1>4. after.chats \in Seq(Chat) /\ Len(after.chats) = len + 1 /\ after.chats[1] = chat
      /\ \A i \in 1..len : after.chats[i + 1] = list[i]
  BY <1>1, <1>3
<1>5. \A i \in 1..len : list[i].id \in Nat /\ list[i].id < len
  BY <1>1 DEF MemSound, ListSound, Chat
<1> DEFINE new == after.chats
<1>6. /\ new \in Seq(Chat) /\ Len(new) = len + 1
      /\ new[1].id = len /\ new[1].asked = 0 /\ new[1].replied = 0
      /\ \A i \in 1..len : new[i + 1] = list[i]
  BY <1>4
<1> HIDE DEF after, new, chat, len
<1>7. ASSUME NEW i \in 1..(len + 1), i # 1
      PROVE  i - 1 \in 1..len /\ new[i] = list[i - 1]
  <2>1. i - 1 \in 1..len /\ (i - 1) + 1 = i
    BY <1>1, <1>7
  <2>2. new[(i - 1) + 1] = list[i - 1]
    BY <1>6, <2>1
  <2>3. QED BY <2>1, <2>2
<1>8. ASSUME NEW i \in 1..len
      PROVE  i + 1 \in 1..(len + 1) /\ new[i + 1] = list[i]
  BY <1>1, <1>6
<1>9. ListSound(new)
  <2>1. len + 1 >= Len(Seed)
    BY <1>1, MockAssumption DEF MemSound, ListSound, len
  <2>2. ASSUME NEW i \in 1..(len + 1) PROVE new[i].id < len + 1
    <3>1. CASE i = 1
      BY <1>1, <1>6, <3>1
    <3>2. CASE i # 1
      BY <1>1, <1>5, <1>7, <3>2
    <3>3. QED BY <3>1, <3>2
  <2>3. ASSUME NEW i \in 1..(len + 1), NEW j \in 1..(len + 1), new[i].id = new[j].id PROVE i = j
    <3>1. CASE i = 1 /\ j # 1
      <4>1. j - 1 \in 1..len /\ list[j - 1].id = len
        BY <1>6, <1>7, <2>3, <3>1
      <4>2. list[j - 1].id < len
        BY <1>5, <4>1
      <4>3. QED BY <1>1, <4>1, <4>2
    <3>2. CASE i # 1 /\ j = 1
      <4>1. i - 1 \in 1..len /\ list[i - 1].id = len
        BY <1>6, <1>7, <2>3, <3>2
      <4>2. list[i - 1].id < len
        BY <1>5, <4>1
      <4>3. QED BY <1>1, <4>1, <4>2
    <3>3. CASE i # 1 /\ j # 1
      <4>1. list[i - 1].id = list[j - 1].id /\ i - 1 \in 1..len /\ j - 1 \in 1..len
        BY <1>7, <2>3, <3>3
      <4>2. i - 1 = j - 1
        BY <4>1 DEF MemSound, ListSound, len
      <4>3. QED BY <4>2
    <3>4. QED BY <3>1, <3>2, <3>3
  <2>4. QED BY <1>6, <2>1, <2>2, <2>3 DEF ListSound
<1>10. InList(len, new)
  <2>1. 1 \in 1..Len(new)
    BY <1>1, <1>6
  <2>2. QED BY <1>6, <2>1 DEF InList
<1>11. PlaceSound(new, len, 0)
  BY <1>9, TopFits
<1>12. PromptsSound(new, mem.pending)
  <2>1. ASSUME NEW p \in mem.pending
        PROVE \E i \in 1..(len + 1) : new[i].id = p.chat /\ p.nth \in Nat /\ p.nth <= new[i].asked
    <3>1. PICK i \in 1..len : list[i].id = p.chat /\ p.nth \in Nat /\ p.nth <= list[i].asked
      BY DEF MemSound, PromptsSound, len
    <3>2. QED BY <1>8, <3>1
  <2>2. QED BY <1>1, <1>6, <2>1 DEF PromptsSound
<1>13. GoneSound(new, gone)
  <2>1. ASSUME NEW id \in DOMAIN gone PROVE gone[id] \in Int /\ \E i \in 1..(len + 1) : new[i].id = id
    <3>1. gone[id] \in Int /\ \E i \in 1..len : list[i].id = id
      BY DEF MemSound, GoneSound, InList, len
    <3>2. PICK i \in 1..len : list[i].id = id
      BY <3>1
    <3>3. QED BY <1>8, <3>1, <3>2
  <2>2. QED BY <1>6, <2>1 DEF GoneSound, InList
<1>14. Balanced(new, mem.pending, gone)
  <2>1. len \notin DOMAIN gone
    <3>1. ASSUME len \in DOMAIN gone PROVE FALSE
      <4>1. \E i \in 1..len : list[i].id = len
        BY <3>1 DEF MemSound, GoneSound, InList, len
      <4>2. QED BY <1>1, <1>5, <4>1
    <3>2. QED BY <3>1
  <2>2. PromptsOf(len, mem.pending) = {}
    <3>1. ASSUME NEW p \in mem.pending, p.chat = len PROVE FALSE
      <4>1. \E i \in 1..len : list[i].id = len
        BY <3>1 DEF MemSound, PromptsSound, len
      <4>2. QED BY <1>1, <1>5, <4>1
    <3>2. QED BY <3>1 DEF PromptsOf
  <2>3. ASSUME NEW i \in 1..(len + 1)
        PROVE  new[i].asked - new[i].replied =
                 Cardinality(PromptsOf(new[i].id, mem.pending))
                   + (IF new[i].id \in DOMAIN gone THEN gone[new[i].id] ELSE 0)
    <3>1. CASE i = 1
      <4>1. new[i].id = len /\ new[i].asked = 0 /\ new[i].replied = 0
        BY <1>6, <3>1
      <4>2. Cardinality(PromptsOf(len, mem.pending)) = 0
        BY <2>2, FS_EmptySet
      <4>3. QED BY <2>1, <4>1, <4>2
    <3>2. CASE i # 1
      <4>1. new[i] = list[i - 1] /\ i - 1 \in 1..len
        BY <1>7, <3>2
      <4>2. list[i - 1].asked - list[i - 1].replied =
              Cardinality(PromptsOf(list[i - 1].id, mem.pending))
                + (IF list[i - 1].id \in DOMAIN gone THEN gone[list[i - 1].id] ELSE 0)
        BY <4>1 DEF MemSound, Balanced, len
      <4>3. QED BY <4>1, <4>2
    <3>3. QED BY <3>1, <3>2
  <2>4. QED BY <1>6, <2>3 DEF Balanced
<1>15. QED BY <1>3, <1>9, <1>10, <1>11, <1>12, <1>13, <1>14 DEF MemSound, after, new

LEMMA SendToSound ==
  ASSUME NEW mem, NEW gone, MemSound(mem, gone), NEW at \in 1..Len(mem.chats)
  PROVE  /\ MemSound(SendTo(mem, at), gone) /\ SendTo(mem, at).saves
         /\ mem.pending \subseteq SendTo(mem, at).pending
<1> DEFINE list == mem.chats
           chat == Asked(list[at])
           prompt == [chat |-> chat.id, nth |-> chat.asked]
           new == [list EXCEPT ![at] = chat]
           after == SendTo(mem, at)
<1>1. list \in Seq(Chat) /\ IsFiniteSet(mem.pending) /\ \A i \in 1..Len(list) : list[i] \in Chat
  <2>1. list \in Seq(Chat) /\ IsFiniteSet(mem.pending)
    BY DEF MemSound, ListSound, PromptsSound
  <2>2. QED BY <2>1
<1>2. chat \in Chat /\ chat.id = list[at].id /\ chat.rows = list[at].rows + 1
      /\ chat.asked = list[at].asked + 1 /\ chat.replied = list[at].replied
  <2>1. list[at] \in Chat
    BY <1>1
  <2>2. list[at].rows + 1 \in Nat /\ list[at].asked + 1 \in Nat
    BY <2>1 DEF Chat
  <2>3. QED BY <2>1, <2>2 DEF Asked, Chat
<1>3. /\ after.chats = new /\ after.active = chat.id /\ after.offset = Bottom(chat)
      /\ after.pending = mem.pending \union {prompt} /\ after.saves = TRUE
  BY DEF SendTo, State
<1>4. /\ new \in Seq(Chat) /\ Len(new) = Len(list) /\ new[at] = chat
      /\ \A i \in 1..Len(list) : i # at => new[i] = list[i]
  BY <1>1, <1>2
<1>5. prompt.chat = chat.id /\ prompt.nth = chat.asked
  OBVIOUS
<1> HIDE DEF new, chat, after, prompt
<1>6. \A i \in 1..Len(list) : new[i].id = list[i].id
  BY <1>2, <1>4
<1>7. \A i, j \in 1..Len(list) : list[i].id = list[j].id => i = j
  BY DEF MemSound, ListSound
<1>8. ListSound(new)
  <2>1. Len(list) >= Len(Seed) /\ \A i \in 1..Len(list) : list[i].id < Len(list)
    BY DEF MemSound, ListSound
  <2>2. QED BY <1>4, <1>6, <1>7, <2>1 DEF ListSound
<1>9. InList(chat.id, new)
  BY <1>4 DEF InList
<1>10. PlaceSound(new, chat.id, Bottom(chat))
  <2>1. Bottom(chat) \in Nat
    BY SMTT(40), <1>2, MockAssumption DEF Bottom, Chat
  <2>2. \A i \in 1..Len(list) : new[i].id = chat.id => new[i] = chat
    BY <1>2, <1>4, <1>6, <1>7
  <2>3. QED BY <1>4, <2>1, <2>2 DEF PlaceSound
<1>11. PromptsSound(new, mem.pending \union {prompt})
  <2>1. IsFiniteSet(mem.pending \union {prompt})
    BY <1>1, FS_AddElement
  <2>2. ASSUME NEW p \in mem.pending
        PROVE \E i \in 1..Len(new) : new[i].id = p.chat /\ p.nth \in Nat /\ p.nth <= new[i].asked
    <3>1. PICK i \in 1..Len(list) : list[i].id = p.chat /\ p.nth \in Nat /\ p.nth <= list[i].asked
      BY DEF MemSound, PromptsSound
    <3>2. list[i].asked \in Nat /\ list[i].asked <= new[i].asked
      <4>1. list[i].asked \in Nat
        BY <1>1 DEF Chat
      <4>2. QED BY <1>2, <1>4, <4>1
    <3>3. new[i].asked \in Nat
      <4>1. new[i] \in Chat
        BY <1>4
      <4>2. QED BY <4>1 DEF Chat
    <3>4. QED BY <1>4, <1>6, <3>1, <3>2, <3>3
  <2>3. \E i \in 1..Len(new) :
          new[i].id = prompt.chat /\ prompt.nth \in Nat /\ prompt.nth <= new[i].asked
    <3>1. chat.asked \in Nat
      BY <1>2 DEF Chat
    <3>2. QED BY <1>4, <1>5, <3>1
  <2>4. QED BY <2>1, <2>2, <2>3 DEF PromptsSound
<1>12. GoneSound(new, gone)
  BY <1>4, <1>6 DEF MemSound, GoneSound, InList
<1>13. prompt \notin mem.pending
  <2>1. SUFFICES ASSUME prompt \in mem.pending PROVE FALSE
    OBVIOUS
  <2>2. PICK i \in 1..Len(list) : list[i].id = prompt.chat /\ prompt.nth <= list[i].asked
    BY <2>1 DEF MemSound, PromptsSound
  <2>3. i = at
    BY <1>2, <1>5, <1>7, <2>2
  <2>4. list[at].asked \in Nat
    BY <1>1 DEF Chat
  <2>5. QED BY <1>2, <1>5, <2>2, <2>3, <2>4
<1>14. Balanced(new, mem.pending \union {prompt}, gone)
  <2> SUFFICES ASSUME NEW i \in 1..Len(list)
               PROVE  new[i].asked - new[i].replied =
                        Cardinality(PromptsOf(new[i].id, mem.pending \union {prompt}))
                          + (IF new[i].id \in DOMAIN gone THEN gone[new[i].id] ELSE 0)
    BY <1>4 DEF Balanced
  <2> DEFINE id == list[i].id
             before == PromptsOf(id, mem.pending)
             left == IF id \in DOMAIN gone THEN gone[id] ELSE 0
  <2>1. list[i].asked - list[i].replied = Cardinality(before) + left
    BY DEF MemSound, Balanced
  <2>2. left \in Int
    BY DEF MemSound, GoneSound
  <2>3. IsFiniteSet(before) /\ Cardinality(before) \in Nat
    <3>1. before \subseteq mem.pending
      BY DEF PromptsOf
    <3>2. QED BY <1>1, <3>1, FS_Subset, FS_CardinalityType
  <2>4. CASE i = at
    <3>1. PromptsOf(id, mem.pending \union {prompt}) = before \union {prompt}
      BY <1>2, <1>5, <2>4 DEF PromptsOf
    <3>2. prompt \notin before
      BY <1>13 DEF PromptsOf
    <3>3. Cardinality(before \union {prompt}) = Cardinality(before) + 1
      BY <2>3, <3>2, FS_AddElement
    <3>4. list[i].asked \in Nat /\ list[i].replied \in Nat
      BY <1>1 DEF Chat
    <3>5. new[i].id = id /\ new[i].asked = list[i].asked + 1 /\ new[i].replied = list[i].replied
      BY <1>2, <1>4, <2>4
    <3>6. (list[i].asked + 1) - list[i].replied = (Cardinality(before) + 1) + left
      <4> DEFINE a == list[i].asked
                 r == list[i].replied
                 c == Cardinality(before)
      <4>1. a \in Nat /\ r \in Nat /\ c \in Nat /\ left \in Int /\ a - r = c + left
        BY <2>1, <2>2, <2>3, <3>4
      <4> HIDE DEF a, r, c, left
      <4>2. (a + 1) - r = (c + 1) + left
        BY <4>1
      <4>3. QED BY <4>2 DEF a, r, c
    <3>7. QED BY <3>1, <3>3, <3>5, <3>6
  <2>5. CASE i # at
    <3>1. prompt.chat # id
      BY <1>2, <1>5, <1>7, <2>5
    <3>2. PromptsOf(id, mem.pending \union {prompt}) = before
      BY <3>1 DEF PromptsOf
    <3>3. QED BY <1>4, <2>1, <2>5, <3>2
  <2>6. QED BY <2>4, <2>5
<1>15. QED BY <1>3, <1>8, <1>9, <1>10, <1>11, <1>12, <1>14 DEF MemSound, after

LEMMA RespondSound ==
  ASSUME NEW mem, NEW gone, MemSound(mem, gone), NEW command
  PROVE  /\ MemSound(Respond(mem, command), gone) /\ Kept(mem, Respond(mem, command))
         /\ mem.pending \subseteq Respond(mem, command).pending
<1> DEFINE Fine(after) == MemSound(after, gone) /\ Kept(mem, after) /\ mem.pending \subseteq after.pending
<1>1. Fine(NewChat(mem))
  BY NewChatSound DEF Kept
<1>2. ASSUME NEW target PROVE Fine(SendPrompt(mem, target))
  <2> DEFINE id == IF target = ActiveChat THEN mem.active ELSE target
  <2>1. CASE InList(id, mem.chats)
    <3>1. SendPrompt(mem, target) = SendTo(mem, Find(mem, id)) /\ Find(mem, id) \in 1..Len(mem.chats)
      BY <2>1, FindFinds DEF SendPrompt, InList
    <3>2. QED BY <3>1, SendToSound DEF Kept
  <2>2. CASE ~InList(id, mem.chats)
    <3> DEFINE in == NewChat(mem)
    <3>1. SendPrompt(mem, target) = SendTo(in, 1)
      BY <2>2 DEF SendPrompt, InList
    <3>2. MemSound(in, gone) /\ in.pending = mem.pending
      BY NewChatSound
    <3> HIDE DEF in
    <3>3. 1 \in 1..Len(in.chats)
      <4>1. in.chats \in Seq(Chat) /\ Len(in.chats) >= Len(Seed)
        BY <3>2 DEF MemSound, ListSound
      <4>2. QED BY <4>1, MockAssumption
    <3>4. QED BY <3>1, <3>2, <3>3, SendToSound DEF Kept
  <2>3. QED BY <2>1, <2>2
<1>3. Fine(mem)
  BY DEF Kept
<1>4. ASSUME NEW slot PROVE Fine(Open(mem, slot))
  <2>1. CASE slot \in 1..Len(mem.chats) /\ slot # 0
    <3> DEFINE after == Open(mem, slot)
    <3>1. /\ after.chats = mem.chats /\ after.active = mem.chats[slot].id
          /\ after.offset = 0 /\ after.pending = mem.pending /\ after.saves = TRUE
      BY <2>1 DEF Open, State
    <3> HIDE DEF after
    <3>2. PlaceSound(mem.chats, mem.chats[slot].id, 0)
      BY TopFits DEF MemSound
    <3>3. InList(mem.chats[slot].id, mem.chats)
      BY <2>1 DEF InList
    <3>4. MemSound(after, gone)
      <4>1. PlaceSound(after.chats, after.active, after.offset)
        BY <3>1, <3>2
      <4>2. after.saves \in BOOLEAN /\ InList(after.active, after.chats)
        BY <3>1, <3>3
      <4>3. QED BY <3>1, <4>1, <4>2 DEF MemSound
    <3>5. QED BY <3>1, <3>4 DEF Kept, after
  <2>2. QED BY <1>1, <1>3, <2>1 DEF Open
<1>5. ASSUME NEW delta PROVE Fine(Scroll(mem, delta))
  <2> DEFINE after == Scroll(mem, delta)
             at == Find(mem, mem.active)
             bottom == Bottom(mem.chats[at])
  <2>1. /\ after.chats = mem.chats /\ after.active = mem.active
        /\ after.pending = mem.pending /\ after.saves = mem.saves
    BY DEF Scroll, State
  <2>2. at \in 1..Len(mem.chats) /\ mem.chats[at].id = mem.active
    BY FindFinds DEF MemSound
  <2>3. bottom \in Nat
    <3>1. mem.chats \in Seq(Chat)
      BY DEF MemSound, ListSound
    <3>2. mem.chats[at] \in Chat
      BY <2>2, <3>1
    <3>3. QED BY <3>2, MockAssumption DEF Bottom, Chat
  <2>4. mem.offset \in Nat
    BY DEF MemSound, PlaceSound
  <2>5. after.offset \in Nat /\ after.offset <= bottom
    <3> DEFINE moved == IF delta = "DOWN" THEN mem.offset + 1
                        ELSE IF mem.offset > 0 THEN mem.offset - 1 ELSE 0
    <3>1. after.offset = IF moved > bottom THEN bottom ELSE moved
      BY DEF Scroll, State
    <3>2. moved \in Nat
      BY <2>4
    <3> HIDE DEF moved, bottom, after
    <3>3. QED BY <2>3, <3>1, <3>2
  <2>6. \A i \in 1..Len(mem.chats) : mem.chats[i].id = mem.active => i = at
    BY <2>2 DEF MemSound, ListSound
  <2> HIDE DEF after, at
  <2>7. PlaceSound(mem.chats, mem.active, after.offset)
    BY <2>5, <2>6 DEF PlaceSound
  <2>8. MemSound(after, gone)
    BY <2>1, <2>7 DEF MemSound
  <2>9. QED BY <2>1, <2>8 DEF Kept, after
<1> HIDE DEF Fine
<1>6. \/ Respond(mem, command) \in {mem, NewChat(mem), SendPrompt(mem, command.arg)}
      \/ Respond(mem, command) \in {Open(mem, command.arg), Scroll(mem, command.name)}
  BY DEF Respond
<1>7. Fine(Respond(mem, command))
  BY <1>1, <1>2, <1>3, <1>4, <1>5, <1>6
<1>8. QED BY <1>7 DEF Fine

(* Memory after a step, from a value it is known to have.                  *)
LEMMA MemoryBecomes ==
  ASSUME NEW mem, NEW gone, MemSound(mem, gone),
         chats' = mem.chats, active' = mem.active, offset' = mem.offset,
         pending' = mem.pending, lost' = gone
  PROVE  MemSound(Memory, lost)'
BY DEF MemSound, Memory, State, ListSound, InList, PlaceSound, PromptsSound, GoneSound,
       Balanced, Bottom, PromptsOf

LEMMA HandledSound ==
  ASSUME MemSound(Memory, lost), NEW command,
         NEW early \in SUBSET pending, NEW due \in SUBSET (pending \ early)
  PROVE  MemSound(Handled(command, early, due), lost) /\ Kept(Memory, Handled(command, early, due))
<1> DEFINE first == ProcessPending(Memory, early)
           mem == Respond(first, command)
<1>1. Memory.pending = pending
  BY DEF Memory, State
<1>2. MemSound(first, lost) /\ Kept(Memory, first)
  BY <1>1, ProcessedSound
<1>3. first.pending = pending \ early
  BY <1>1 DEF ProcessPending, Remaining, State
<1>4. Handled(command, early, due)
        = IF command.name \in {"UP", "DOWN", "OTHER"} THEN mem ELSE ProcessPending(mem, due)
  BY DEF Handled
<1> HIDE DEF first
<1>5. MemSound(mem, lost) /\ Kept(first, mem) /\ first.pending \subseteq mem.pending
  BY <1>2, RespondSound
<1> HIDE DEF mem
<1>6. MemSound(ProcessPending(mem, due), lost) /\ Kept(mem, ProcessPending(mem, due))
  BY <1>3, <1>5, ProcessedSound
<1>7. Kept(Memory, mem) /\ Kept(Memory, ProcessPending(mem, due))
  BY <1>2, <1>5, <1>6 DEF Kept
<1>8. QED BY <1>4, <1>5, <1>6, <1>7

LEMMA RequestsKeepTheMock ==
  ASSUME MockInvariant, ServeRequest
  PROVE  MockInvariant'
<1>1. PICK command, early, due :
        /\ early \in SUBSET pending /\ due \in SUBSET (pending \ early)
        /\ chats' = Handled(command, early, due).chats
        /\ active' = Handled(command, early, due).active
        /\ offset' = Handled(command, early, due).offset
        /\ pending' = Handled(command, early, due).pending
        /\ Saved(Handled(command, early, due)) /\ lost' = lost
  BY DEF ServeRequest
<1> DEFINE mem == Handled(command, early, due)
<1>2. MemSound(mem, lost) /\ Kept(Memory, mem)
  BY <1>1, HandledSound DEF MockInvariant
<1> HIDE DEF mem
<1>3. /\ chats' = mem.chats /\ active' = mem.active /\ offset' = mem.offset
      /\ pending' = mem.pending /\ Saved(mem) /\ lost' = lost
  BY <1>1 DEF mem
<1>4. MemSound(Memory, lost)'
  BY <1>2, <1>3, MemoryBecomes
<1>5. FileSound' /\ StoreMatchesMemory' /\ intact' \in BOOLEAN /\ failures' \in 0..MaxFailures
  <2>1. CASE ~mem.saves /\ UNCHANGED <<store, intact, failures>>
    <3>1. chats' = chats /\ active' = active
      BY <1>2, <1>3, <2>1 DEF Kept, Memory, State
    <3>2. FileSound' /\ intact' \in BOOLEAN /\ failures' \in 0..MaxFailures
      BY <2>1 DEF MockInvariant, FileSound, DocSound, Document, ListSound, InList, CutFile
    <3>3. StoreMatchesMemory'
      BY <2>1, <3>1 DEF MockInvariant, StoreMatchesMemory, Document, Memory, State
    <3>4. QED BY <3>2, <3>3
  <2>2. CASE store' = Document(mem) /\ intact' = TRUE /\ UNCHANGED failures
    <3>1. store' = Document(store') /\ store'.chats = mem.chats /\ store'.active = mem.active
      BY <2>2 DEF Document
    <3>2. ListSound(mem.chats) /\ InList(mem.active, mem.chats)
      BY <1>2 DEF MemSound
    <3>3. FileSound'
      BY <3>1, <3>2 DEF FileSound, DocSound, Document, ListSound, InList
    <3>4. StoreMatchesMemory'
      BY <1>3, <2>2 DEF StoreMatchesMemory, Document, Memory, State
    <3>5. QED BY <2>2, <3>3, <3>4 DEF MockInvariant
  <2>3. CASE /\ failures < MaxFailures /\ failures' = failures + 1
             /\ store' = CutFile /\ intact' = FALSE
    <3>1. FileSound' /\ StoreMatchesMemory'
      BY <2>3 DEF FileSound, StoreMatchesMemory, CutFile
    <3>2. intact' \in BOOLEAN
      BY <2>3
    <3>3. failures' \in 0..MaxFailures
      BY <2>3, MockAssumption DEF MockInvariant
    <3>4. QED BY <3>1, <3>2, <3>3
  <2>4. QED BY <1>3, <2>1, <2>2, <2>3 DEF Saved
<1>6. QED BY <1>4, <1>5 DEF MockInvariant

LEMMA SeededSound ==
  /\ ListSound(Seeded) /\ InList(0, Seeded)
  /\ \A i \in 1..Len(Seeded) : Seeded[i].asked = 0 /\ Seeded[i].replied = 0
<1>1. Len(Seed) \in Nat /\ Len(Seed) > 0 /\ \A i \in 1..Len(Seed) : Seed[i] \in Nat
  BY MockAssumption
<1>2. \A i \in 1..Len(Seed) :
        [id |-> i - 1, rows |-> Seed[i], asked |-> 0, replied |-> 0] \in Chat
  <2>1. \A i \in 1..Len(Seed) : i - 1 \in Nat
    BY <1>1
  <2>2. QED BY <1>1, <2>1 DEF Chat
<1>3. Seeded \in [1..Len(Seed) -> Chat]
  BY <1>2 DEF Seeded
<1>4. Seeded \in Seq(Chat) /\ Len(Seeded) = Len(Seed)
  BY <1>1, <1>3
<1>5. \A i \in 1..Len(Seed) : /\ Seeded[i].id = i - 1 /\ Seeded[i].asked = 0
                              /\ Seeded[i].replied = 0 /\ Seeded[i] \in Chat
  BY <1>3 DEF Seeded
<1>6. ListSound(Seeded)
  BY <1>1, <1>4, <1>5 DEF ListSound
<1>7. InList(0, Seeded)
  <2>1. 1 \in 1..Len(Seed) /\ Seeded[1].id = 0
    BY <1>1, <1>5
  <2>2. QED BY <1>4, <2>1 DEF InList
<1>8. QED BY <1>4, <1>5, <1>6, <1>7

LEMMA NoneAreAsked ==
  ASSUME NEW list
  PROVE  /\ PromptsSound(list, {})
         /\ \A id : PromptsOf(id, {}) = {} /\ Cardinality(PromptsOf(id, {})) = 0
BY FS_EmptySet DEF PromptsSound, PromptsOf

LEMMA ResetsKeepTheMock ==
  ASSUME MockInvariant, ResetMock
  PROVE  MockInvariant'
<1>1. PICK file : Boot(file) /\ (file = store \/ file = CutFile)
  BY DEF ResetMock
<1> DEFINE doc == IF file = CutFile THEN [chats |-> Seeded, active |-> 0] ELSE file
           list == doc.chats
           gone == [id \in {list[i].id : i \in 1..Len(list)} |->
                      LET chat == list[Find(doc, id)] IN chat.asked - chat.replied]
           mem == [chats |-> list, active |-> doc.active, offset |-> 0,
                   pending |-> {}, saves |-> FALSE]
<1>2. DocSound(doc)
  <2>1. DocSound([chats |-> Seeded, active |-> 0])
    BY SeededSound DEF DocSound, Document
  <2>2. QED BY <1>1, <2>1 DEF MockInvariant, FileSound
<1>3. /\ chats' = list /\ active' = doc.active /\ store' = doc /\ offset' = 0
      /\ pending' = {} /\ intact' = TRUE /\ lost' = gone
  BY <1>1 DEF Boot
<1> HIDE DEF doc
<1>4. ListSound(list) /\ InList(doc.active, list) /\ PlaceSound(list, doc.active, 0)
      /\ \A i \in 1..Len(list) : list[i] \in Chat
  BY <1>2, TopFits DEF DocSound, ListSound
<1>5. \A i \in 1..Len(list) : Find(doc, list[i].id) = i
  <2>1. \A i \in 1..Len(list) : InList(list[i].id, doc.chats)
    BY DEF InList
  <2>2. QED BY <1>4, <2>1, FindFinds DEF ListSound
<1>6. /\ DOMAIN gone = {list[i].id : i \in 1..Len(list)}
      /\ \A i \in 1..Len(list) : gone[list[i].id] = list[i].asked - list[i].replied
  BY <1>5
<1>7. \A i \in 1..Len(list) : list[i].asked \in Nat /\ list[i].replied \in Nat
  BY <1>4 DEF Chat
<1> HIDE DEF gone, list
<1>8. GoneSound(list, gone)
  BY <1>6, <1>7 DEF GoneSound, InList
<1>9. Balanced(list, {}, gone)
  <2>1. \A i \in 1..Len(list) : list[i].id \in DOMAIN gone
    BY <1>6
  <2>2. \A i \in 1..Len(list) : Cardinality(PromptsOf(list[i].id, {})) = 0
    BY NoneAreAsked
  <2>3. ASSUME NEW i \in 1..Len(list)
        PROVE  list[i].asked - list[i].replied =
                 Cardinality(PromptsOf(list[i].id, {}))
                   + (IF list[i].id \in DOMAIN gone THEN gone[list[i].id] ELSE 0)
    <3>1. gone[list[i].id] = list[i].asked - list[i].replied /\ gone[list[i].id] \in Int
      <4>1. gone[list[i].id] = list[i].asked - list[i].replied
        BY <1>6
      <4>2. list[i].asked \in Nat /\ list[i].replied \in Nat
        BY <1>7
      <4>3. list[i].asked - list[i].replied \in Int
        BY <4>2
      <4>4. QED BY <4>1, <4>3
    <3>2. gone[list[i].id] = 0 + gone[list[i].id]
      BY <3>1
    <3>3. QED BY <2>1, <2>2, <3>1, <3>2
  <2>4. QED BY <2>3 DEF Balanced
<1>10. MemSound(mem, gone)
  BY <1>4, <1>8, <1>9, NoneAreAsked DEF MemSound, mem
<1>11. MemSound(Memory, lost)'
  BY <1>3, <1>10, MemoryBecomes DEF mem, list
<1>12. FileSound' /\ StoreMatchesMemory'
  <2>1. doc = [chats |-> doc.chats, active |-> doc.active]
    BY <1>2 DEF DocSound, Document
  <2>2. StoreMatchesMemory'
    BY <1>3, <2>1 DEF StoreMatchesMemory, Document, Memory, State, list
  <2>3. FileSound'
    BY <1>2, <1>3 DEF FileSound, DocSound, Document, ListSound, InList
  <2>4. QED BY <2>2, <2>3
<1>13. intact' \in BOOLEAN /\ failures' \in 0..MaxFailures
  BY <1>3, MockAssumption DEF MockInvariant, ResetMock
<1>14. QED BY <1>11, <1>12, <1>13 DEF MockInvariant

LEMMA MockInit_Invariant == Init => MockInvariant
<1> SUFFICES ASSUME MockInit PROVE MockInvariant
  BY DEF Init
<1> DEFINE mem == [chats |-> Seeded, active |-> 0, offset |-> 0, pending |-> {}, saves |-> FALSE]
<1>1. Memory = mem /\ DOMAIN lost = {}
  BY DEF MockInit, Memory, State
<1>2. GoneSound(Seeded, lost) /\ Balanced(Seeded, {}, lost)
  BY <1>1, SeededSound, NoneAreAsked DEF GoneSound, Balanced
<1>3. MemSound(mem, lost)
  BY <1>2, SeededSound, TopFits, NoneAreAsked DEF MemSound
<1>4. FileSound /\ StoreMatchesMemory
  BY SeededSound DEF MockInit, FileSound, DocSound, Document, StoreMatchesMemory, Memory, State
<1>5. QED BY <1>1, <1>3, <1>4, MockAssumption DEF MockInit, MockInvariant

LEMMA MockInvariant_Inductive == MockInvariant /\ [Next]_vars => MockInvariant'
<1> SUFFICES ASSUME MockInvariant, [Next]_vars PROVE MockInvariant'
  OBVIOUS
<1>1. CASE UNCHANGED mockVars
  <2>1. MemSound(Memory, lost)'
    BY <1>1 DEF mockVars, MockInvariant, MemSound, Memory, State, ListSound, InList, PlaceSound,
                PromptsSound, GoneSound, Balanced, Bottom, PromptsOf
  <2>2. QED BY <1>1, <2>1 DEF mockVars, MockInvariant, FileSound, DocSound, ListSound, InList,
               CutFile, StoreMatchesMemory, Document, Memory, State
<1>2. CASE ServeRequest
  BY <1>2, RequestsKeepTheMock
<1>3. CASE ResetMock
  BY <1>3, ResetsKeepTheMock
<1>4. UNCHANGED mockVars \/ ServeRequest \/ ResetMock
  BY DEF Next, vars, OnTheLink, MockStep, Decline, MockFrameError
<1>5. QED BY <1>1, <1>2, <1>3, <1>4

THEOREM MockInvariantHolds == Spec => []MockInvariant
<1>1. QED BY MockInit_Invariant, MockInvariant_Inductive, PTL DEF Spec

(* The file of the mock holds its chats whenever it listens, if the last   *)
(* write of it went through: each command that changes them writes them.   *)
THEOREM StoreIsMemory == Spec => []StoreMatchesMemory
<1>1. MockInvariant => StoreMatchesMemory
  BY DEF MockInvariant
<1>2. QED BY <1>1, MockInvariantHolds, PTL

(* Every prompt got its one reply in its own chat or will get it, in       *)
(* whatever order the replies fall due, except those a reset dropped.      *)
THEOREM PromptsGetTheirReplies == Spec => []PromptsAreAnswered
<1>1. MockInvariant => PromptsAreAnswered
  BY DEF MockInvariant, MemSound, Balanced, Memory, State, PromptsAreAnswered
<1>2. QED BY <1>1, MockInvariantHolds, PTL

(* The chat numbers stay unique, and the place read to lies in the chat    *)
(* that is active.                                                         *)
THEOREM ChatsKeepTheirNumbers == Spec => []ChatsAreAddressable
<1>1. MockInvariant => ChatsAreAddressable
  BY SMTT(40) DEF MockInvariant, MemSound, ListSound, PlaceSound, Memory, State, ChatsAreAddressable
<1>2. QED BY <1>1, MockInvariantHolds, PTL

-----------------------------------------------------------------------------
(***************************************************************************)
(* The types.  While a request waits for its answer no frame is being      *)
(* read: the mock, which reads at any time, leaves the bridge where it is. *)
(***************************************************************************)
Wire == [frame : 0..MaxFrames, part : Range(Parts)]

LinkTypes ==
  /\ frames \in Seq(Frames) /\ Len(frames) <= MaxFrames
  /\ out \in Seq(Wire) /\ Len(out) <= 3 /\ got \in Seq(Wire) /\ Len(got) <= 3
  /\ breaks \in 0..MaxBreaks

PhoneTypes ==
  /\ stage \in {"connect", "await", "read", "wait", "ended"}
  /\ relay \in {"none", "advertising", "up", "lost"} /\ relays \in 0..MaxRelays
  /\ catalogs \in 0..MaxCatalogs /\ offered \in 0..catalogs
  /\ resets \in 0..MaxResets
  /\ (stage = "connect") <=> (relay = "none")
  /\ firmware \in {"bridge", "mock"} /\ (firmware = "mock" => stage = "connect")

ServedTypes ==
  /\ served \in Seq(0..MaxFrames) /\ owed \subseteq 1..Len(served)
  /\ stage = "wait" => got = <<>> /\ served # <<>>

TypeInvariant == LinkTypes /\ PhoneTypes /\ ServedTypes

LEMMA Bounded ==
  ASSUME NEW S, NEW n \in Nat, NEW s \in Seq(S), Len(s) <= n
  PROVE  s \in BoundedSeq(S, n)
<1>1. s \in [1..Len(s) -> S] /\ Len(s) \in 0..n
  OBVIOUS
<1>2. QED BY <1>1 DEF BoundedSeq, SeqOf

LEMMA WirePieces ==
  /\ Range(Parts) = {"start", "head", "body"} /\ FalseStart \in Wire
  /\ \A id \in 0..MaxFrames : Pieces(id) \in Seq(Wire) /\ Len(Pieces(id)) = 3
<1>1. Parts \in [1..3 -> {"start", "head", "body"}] /\ Parts[1] = "start"
      /\ Parts[2] = "head" /\ Parts[3] = "body" /\ DOMAIN Parts = 1..3
  BY DEF Parts
<1>2. Range(Parts) = {"start", "head", "body"}
  <2>1. \A x \in 1..3 : x = 1 \/ x = 2 \/ x = 3
    OBVIOUS
  <2>2. QED BY <1>1, <2>1 DEF Range
<1>3. \A id \in 0..MaxFrames, i \in 1..3 : Piece(id, Parts[i]) \in Wire
  BY <1>1, <1>2 DEF Piece, Wire
<1>4. \A id \in 0..MaxFrames : Pieces(id) \in [1..3 -> Wire]
  BY <1>3 DEF Pieces
<1>5. \A id \in 0..MaxFrames : Pieces(id) \in Seq(Wire) /\ Len(Pieces(id)) = 3
  <2>1. ASSUME NEW n \in Nat, NEW s \in [1..n -> Wire] PROVE s \in Seq(Wire) /\ Len(s) = n
    OBVIOUS
  <2>2. QED BY <1>4, <2>1
<1>6. FalseStart \in Wire
  BY <1>2, LinkAssumption DEF FalseStart, Piece, Wire
<1>7. QED BY <1>2, <1>5, <1>6

LEMMA TypeInvariant_TypeOK == TypeInvariant /\ MockInvariant => TypeOK
<1> SUFFICES ASSUME TypeInvariant, MockInvariant PROVE TypeOK
  OBVIOUS
<1>1. LinkTypeOK
  <2>1. out \in BoundedSeq(Wire, 3) /\ got \in BoundedSeq(Wire, 3)
    BY Bounded DEF TypeInvariant, LinkTypes
  <2>2. Range(frames) \subseteq Frames
    BY DEF TypeInvariant, LinkTypes, Range
  <2>3. QED BY <2>1, <2>2 DEF LinkTypeOK, TypeInvariant, LinkTypes, Wire
<1>2. BridgeTypeOK
  <2>1. Range(served) \subseteq 0..MaxFrames
    <3> DEFINE S == 0..MaxFrames
    <3>1. served \in Seq(S)
      BY DEF TypeInvariant, ServedTypes
    <3> HIDE DEF S
    <3>2. Range(served) \subseteq S
      BY <3>1 DEF Range
    <3>3. QED BY <3>2 DEF S
  <2>2. QED BY <2>1 DEF BridgeTypeOK, TypeInvariant, PhoneTypes, ServedTypes
<1>3. MockTypeOK
  <2>1. Len(chats) >= Len(Seed) /\ offset \in Nat /\ failures \in 0..MaxFailures /\ intact \in BOOLEAN
    BY DEF MockInvariant, MemSound, ListSound, PlaceSound, Memory, State
  <2>2. active \in Ids
    BY DEF MockInvariant, MemSound, InList, Memory, State, Ids
  <2>3. {p.chat : p \in pending} \subseteq Ids
    <3>1. \A p \in pending : \E i \in 1..Len(chats) : chats[i].id = p.chat
      BY DEF MockInvariant, MemSound, PromptsSound, Memory, State
    <3>2. QED BY <3>1 DEF Ids
  <2>4. QED BY <2>1, <2>2, <2>3 DEF MockTypeOK
<1>4. QED BY <1>1, <1>2, <1>3 DEF TypeOK

LEMMA TypeInit == Init => TypeInvariant
<1> SUFFICES ASSUME Init PROVE TypeInvariant
  OBVIOUS
<1>1. <<>> \in Seq(Wire) /\ <<>> \in Seq(Frames) /\ <<>> \in Seq(0..MaxFrames)
  OBVIOUS
<1>2. LinkTypes
  BY <1>1, LinkAssumption DEF Init, LinkInit, LinkTypes
<1>3. PhoneTypes
  BY BridgeAssumption DEF Init, BridgeInit, PhoneTypes
<1>4. ServedTypes
  BY <1>1 DEF Init, BridgeInit, ServedTypes
<1>5. QED BY <1>2, <1>3, <1>4 DEF TypeInvariant

(* The link, whoever reads.                                                *)
LEMMA FramesBegin ==
  ASSUME LinkTypes, CalcSends
  PROVE  LinkTypes'
<1>1. PICK f \in Frames : frames' = Append(frames, f)
  BY DEF CalcSends
<1>2. frames' \in Seq(Frames) /\ Len(frames') = Len(frames) + 1 /\ Len(frames) \in Nat
  BY <1>1 DEF LinkTypes
<1>3. Len(frames') \in 0..MaxFrames
  BY <1>2, LinkAssumption DEF CalcSends, LinkTypes
<1>4. out' \in Seq(Wire) /\ Len(out') = 3
  BY <1>3, WirePieces DEF CalcSends
<1>5. Len(frames') <= MaxFrames /\ Len(out') <= 3
  BY <1>3, <1>4
<1>6. got' = got /\ breaks' = breaks
  BY DEF CalcSends
<1>7. got' \in Seq(Wire) /\ Len(got') <= 3 /\ breaks' \in 0..MaxBreaks
  BY <1>6 DEF LinkTypes
<1>8. QED BY <1>2, <1>4, <1>5, <1>7 DEF LinkTypes

LEMMA PiecesPass ==
  ASSUME LinkTypes, Hunt \/ Noise \/ ReadOn
  PROVE  LinkTypes'
<1> HIDE DEF Wire
<1>1. out # <<>> => Head(out) \in Wire /\ Tail(out) \in Seq(Wire) /\ Len(Tail(out)) <= 3
  BY DEF LinkTypes
<1>2. FalseStart \in Wire
  BY WirePieces
<1>5. CASE Hunt
  <2>1. got' \in {<<>>, <<Head(out)>>, <<FalseStart>>} /\ out' = Tail(out) /\ out # <<>>
        /\ UNCHANGED <<frames, breaks>>
    BY <1>5 DEF Hunt
  <2>2. got' \in Seq(Wire) /\ Len(got') <= 3
    <3>1. CASE got' = <<>>
      BY <3>1
    <3>2. ASSUME NEW w \in Wire, got' = <<w>> PROVE got' \in Seq(Wire) /\ Len(got') <= 3
      BY <3>2
    <3>3. Head(out) \in Wire
      BY <1>1, <2>1
    <3>4. QED BY <1>2, <2>1, <3>1, <3>2, <3>3
  <2>3. QED BY <1>1, <2>1, <2>2 DEF LinkTypes
<1>6. CASE Noise
  <2>1. got' \in Seq(Wire) /\ Len(got') <= 3
    <3>1. got' = <<FalseStart>>
      BY <1>6 DEF Noise
    <3>2. <<FalseStart>> \in Seq(Wire) /\ Len(<<FalseStart>>) = 1
      BY <1>2
    <3>3. QED BY <3>1, <3>2
  <2>2. QED BY <1>6, <2>1, LinkAssumption DEF Noise, Break, LinkTypes
<1>7. CASE ReadOn
  <2>1. got' \in Seq(Wire) /\ Len(got') <= 3
    <3>1. CASE Len(got) < 3
      <4>1. got' = Append(got, Head(out)) /\ Head(out) \in Wire
        BY <1>1, <1>7, <3>1 DEF ReadOn
      <4>2. got \in Seq(Wire) /\ Len(got) \in Nat
        BY DEF LinkTypes
      <4>3. got' \in Seq(Wire) /\ Len(got') = Len(got) + 1
        BY <4>1, <4>2
      <4>4. QED BY <3>1, <4>2, <4>3
    <3>2. CASE ~(Len(got) < 3)
      BY <1>7, <3>2 DEF ReadOn, LinkTypes
    <3>3. QED BY <3>1, <3>2
  <2>2. QED BY <1>1, <1>7, <2>1 DEF ReadOn, LinkTypes
<1>8. QED BY <1>5, <1>6, <1>7

(* A step of the programs takes what is read, and breaks off a frame.      *)
LEMMA ProgramsRead ==
  ASSUME LinkTypes, UNCHANGED <<frames, out>>, got' = got \/ got' = <<>>,
         breaks' = breaks \/ Break
  PROVE  LinkTypes'
<1>2. breaks' \in 0..MaxBreaks
  BY LinkAssumption DEF Break, LinkTypes
<1>3. got' \in Seq(Wire) /\ Len(got') <= 3
  <2>1. got \in Seq(Wire) /\ Len(got) <= 3
    BY DEF LinkTypes
  <2>2. CASE got' = <<>>
    BY <2>2
  <2>3. QED BY <2>1, <2>2
<1>4. frames' \in Seq(Frames) /\ Len(frames') <= MaxFrames
  BY DEF LinkTypes
<1>5. out' \in Seq(Wire) /\ Len(out') <= 3
  BY DEF LinkTypes
<1>6. QED BY <1>2, <1>3, <1>4, <1>5 DEF LinkTypes

LEMMA BridgeTypes_Inductive ==
  ASSUME TypeInvariant, BridgeStep, firmware = "bridge", firmware' = firmware
  PROVE  TypeInvariant'
<1> USE DEF phoneVars, serveVars, fileVars, linkVars
<1>1. LinkTypes /\ PhoneTypes /\ ServedTypes
  BY DEF TypeInvariant
<1>2. LinkTypes'
  <2>1. UNCHANGED <<frames, out>> /\ (got' = got \/ got' = <<>>) /\ (breaks' = breaks \/ Break)
    BY DEF BridgeStep, ConnectTransport, WaitTransportReady, TransportDisconnected, PhoneConnects,
           PhoneLeaves, PhoneAnswers, PhoneSendsCatalog, SendRelay, SendRelayRaises,
           ExpectedRequest, RawFrameErrorEscapes, PollCatalog, PollAnswer, WaitFails,
           ResetBridge, RequestRead, FrameRead, FrameBroken, WriteFrame
  <2>2. QED BY <1>1, <2>1, ProgramsRead
<1>3. PhoneTypes'
  BY <1>1, BridgeAssumption
     DEF BridgeStep, ConnectTransport, WaitTransportReady, TransportDisconnected, PhoneConnects,
         PhoneLeaves, PhoneAnswers, PhoneSendsCatalog, SendRelay, SendRelayRaises,
         ExpectedRequest, RawFrameErrorEscapes, PollCatalog, PollAnswer, WaitFails,
         ResetBridge, RequestRead, bridgeVars, PhoneTypes
<1>4. ServedTypes'
  <2>1. ASSUME RequestRead
        PROVE  /\ served' \in Seq(0..MaxFrames) /\ Len(served') = Len(served) + 1
               /\ Len(served) \in Nat /\ got' = <<>> /\ served' # <<>>
    <3>1. PICK id \in 0..Len(frames) : served' = Append(served, id) /\ got' = <<>>
      BY <2>1 DEF RequestRead, FrameRead
    <3>2. id \in 0..MaxFrames
      BY <1>1, LinkAssumption DEF LinkTypes
    <3>3. QED BY <1>1, <3>1, <3>2 DEF ServedTypes
  <2>2. CASE SendRelay
    <3>1. owed' = owed \cup {Len(served')}
      BY <2>2 DEF SendRelay
    <3>2. owed' \subseteq 1..Len(served')
      <4>1. owed \subseteq 1..Len(served)
        BY <1>1 DEF ServedTypes
      <4>2. Len(served') = Len(served) + 1 /\ Len(served) \in Nat
        BY <2>1, <2>2 DEF SendRelay
      <4> DEFINE n == Len(served)
      <4>3. owed \subseteq 1..n /\ owed' = owed \cup {n + 1} /\ n \in Nat
        BY <3>1, <4>1, <4>2
      <4> HIDE DEF n
      <4>4. owed' \subseteq 1..(n + 1)
        BY <4>3
      <4>5. QED BY <4>2, <4>4 DEF n
    <3>3. QED BY <2>1, <2>2, <3>2 DEF SendRelay, ServedTypes
  <2>3. CASE SendRelayRaises
    <3>1. owed' = owed /\ stage' # "wait"
      BY <2>3 DEF SendRelayRaises, RequestRead
    <3>2. QED BY <1>1, <2>1, <2>3, <3>1 DEF SendRelayRaises, ServedTypes
  <2>4. CASE UNCHANGED served /\ owed' \subseteq owed /\ (stage' = "wait" => stage = "wait" /\ got' = got)
    BY <1>1, <2>4 DEF ServedTypes
  <2>5. CASE ConnectTransport
    BY <1>1, <2>5 DEF ConnectTransport, ServedTypes
  <2>6. ASSUME ~SendRelay, ~SendRelayRaises, ~ConnectTransport
        PROVE  UNCHANGED served /\ owed' \subseteq owed /\ (stage' = "wait" => stage = "wait" /\ got' = got)
    BY <2>6 DEF BridgeStep, WaitTransportReady, TransportDisconnected, PhoneConnects,
           PhoneLeaves, PhoneAnswers, PhoneSendsCatalog, bridgeVars,
           ExpectedRequest, RawFrameErrorEscapes, PollCatalog, PollAnswer, WaitFails, ResetBridge
  <2>7. QED BY <2>2, <2>3, <2>4, <2>5, <2>6
<1>5. QED BY <1>2, <1>3, <1>4 DEF TypeInvariant

LEMMA TypeInvariant_Inductive == TypeInvariant /\ [Next]_vars => TypeInvariant'
<1> SUFFICES ASSUME TypeInvariant, [Next]_vars PROVE TypeInvariant'
  OBVIOUS
<1>1. LinkTypes /\ PhoneTypes /\ ServedTypes
  BY DEF TypeInvariant
<1>2. ASSUME UNCHANGED <<bridgeVars, firmware>>, LinkTypes', got' = got \/ stage # "wait"
      PROVE  TypeInvariant'
  BY <1>1, <1>2 DEF bridgeVars, phoneVars, serveVars, TypeInvariant, PhoneTypes, ServedTypes
<1>3. CASE OnTheLink
  <2>1. LinkTypes'
    <3>1. CASE CalcGivesUp
      <4>1. <<>> \in Seq(Wire) /\ Len(<<>>) = 0
        OBVIOUS
      <4>2. QED BY <1>1, <3>1, <4>1, LinkAssumption DEF CalcGivesUp, Break, LinkTypes, Wire
    <3>2. QED BY <1>1, <1>3, <3>1, FramesBegin, PiecesPass DEF OnTheLink
  <2>2. got' = got \/ stage # "wait"
    BY <1>1, <1>3 DEF OnTheLink, CalcSends, CalcGivesUp, Listening, PhoneTypes
  <2>3. QED BY <1>2, <1>3, <2>1, <2>2 DEF OnTheLink
<1>4. CASE firmware = "bridge" /\ BridgeStep /\ UNCHANGED <<mockVars, firmware>>
  BY <1>4, BridgeTypes_Inductive
<1>5. CASE firmware = "mock" /\ MockStep /\ UNCHANGED <<bridgeVars, firmware>>
  <2>1. UNCHANGED <<frames, out>> /\ (got' = got \/ got' = <<>>) /\ (breaks' = breaks \/ Break)
    BY <1>5 DEF MockStep, ServeRequest, Decline, MockFrameError, ResetMock, FrameRead, FrameBroken,
                WriteFrame
  <2>2. LinkTypes'
    BY <1>1, <2>1, ProgramsRead
  <2>3. QED BY <1>1, <1>2, <1>5, <2>2 DEF PhoneTypes
<1>6. CASE UNCHANGED vars
  <2>1. LinkTypes'
    BY <1>1, <1>6, ProgramsRead DEF vars, linkVars
  <2>2. QED BY <1>2, <1>6, <2>1 DEF vars, linkVars
<1>7. QED BY <1>3, <1>4, <1>5, <1>6 DEF Next

(* Every variable keeps its type; in particular a request waits for its    *)
(* answer with no frame half read, the replies still to come are those of  *)
(* chats in the list, and the active chat is in it.                        *)
THEOREM TypesAreRespected == Spec => []TypeOK
<1>1. Spec => []TypeInvariant
  BY TypeInit, TypeInvariant_Inductive, PTL DEF Spec
<1>2. QED BY <1>1, MockInvariantHolds, TypeInvariant_TypeOK, PTL
=============================================================================
