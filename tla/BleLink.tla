------------------------------- MODULE BleLink -------------------------------
(***************************************************************************)
(* The request path of the product: the bridge loop of src/src/bridge.py   *)
(* takes one raw request frame at a time from the calculator, sends it     *)
(* through BleTransport, waits for the phone (BleRelayService), and hands  *)
(* the calculator one RESPONSE or ERROR frame.                             *)
(*                                                                         *)
(* pc is where the bridge is:                                              *)
(*   "opening"  _connect_transport / _wait_transport_ready                 *)
(*   "listen"   top of the supervisor loop, reading the calculator         *)
(*   "pump", "notify", "pop"   inside _wait_for_phone_response, in poll()  *)
(***************************************************************************)
EXTENDS BleTransport, BleRelayService

CONSTANTS
  RequestLens,      \* chunks a calculator request may take
  ReplyKinds,       \* the frames relay.reply returns in this instance
  UpdateKinds,      \* the frames the updates stream emits in this instance
  MaxRequests,      \* bound: requests the calculator makes
  MaxPowerCycles,   \* bound: how often the Pico loses power
  PhoneIsSlow,      \* whether the phone may take over 30 s to answer, or over
                    \* the 1 s of settling to subscribe
  CalculatorLeaves  \* whether the calculator may not take its RESPONSE frame

ASSUME LinkAssumption ==
  /\ RequestLens \subseteq 0..MaxLen /\ RequestLens # {}
  /\ ReplyKinds \subseteq ReplyFrames
  /\ UpdateKinds \subseteq UpdateFrames
  /\ MaxRequests \in Nat /\ MaxPowerCycles \in Nat 
  /\ PhoneIsSlow \in BOOLEAN /\ CalculatorLeaves \in BOOLEAN

VARIABLES
  pc,
  asked,        \* the calculator's requests, in order
  outcome,      \* what the calculator was answered to each of them
  powerCycles   \* how much of MaxPowerCycles is used

bridgeVars == <<pc, asked, outcome, powerCycles>>
vars == <<channelVars, picoVars, phoneVars, bridgeVars>>

Outcome == [status : {"pending", "answered", "error", "lost"},
            message : MessageType \cup {<<>>}]
NoMessage == <<>>
Ended(status) == [status |-> status, message |-> NoMessage]

BridgeTypeOK ==
  /\ pc \in {"opening", "listen", "pump", "notify", "pop"}
  /\ asked \in Seq(Payload)
  /\ Len(asked) <= MaxRequests
  /\ outcome \in Seq(Outcome)
  /\ Len(outcome) = Len(asked)
  /\ powerCycles \in 0..MaxPowerCycles

TypeOK == ChannelTypeOK /\ PicoTypeOK /\ PhoneTypeOK /\ BridgeTypeOK

Init ==
  /\ ChannelInit /\ PicoInit /\ PhoneInit
  /\ pc = "opening"
  /\ asked = <<>> /\ outcome = <<>>
  /\ powerCycles = 0

current == Len(asked)
EndRequest(result) == outcome' = [outcome EXCEPT ![current] = result]

(***************************************************************************)
(* run()                                                                   *)
(***************************************************************************)
TransportReady ==
  /\ pc = "opening" /\ linked
  /\ PhoneIsSlow \/ phone = "up"
  /\ pc' = "listen"
  /\ UNCHANGED <<asked, outcome, powerCycles, channelVars, picoVars, phoneVars>>

(* The loop finds the phone gone: close(), then a new BLETransport.        *)
ReopenTransport ==
  /\ pc = "listen" /\ ~linked
  /\ Reopen
  /\ pc' = "opening"
  /\ UNCHANGED <<asked, outcome, powerCycles, phoneVars>>

PowerCycle ==
  /\ powerCycles < MaxPowerCycles
  /\ powerCycles' = powerCycles + 1
  /\ Reopen
  /\ pc' = "opening"
  /\ IF pc \in {"pump", "notify", "pop"} THEN EndRequest(Ended("lost"))
                                        ELSE UNCHANGED outcome
  /\ UNCHANGED <<asked, phoneVars>>

(***************************************************************************)
(* _service_raw_axe_once: a REQUEST frame has been read                    *)
(***************************************************************************)
NewRequest(len) ==
  /\ pc = "listen" /\ current < MaxRequests
  /\ asked' = Append(asked, [kind |-> "request", id |-> current + 1, len |-> len])
  /\ UNCHANGED <<powerCycles, phoneVars>>

SendRequest(len) ==
  /\ NewRequest(len)
  /\ linked
  /\ Send(asked'[current + 1])
  /\ outcome' = Append(outcome, Ended("pending"))
  /\ pc' = "pump"

(* send() raises OSError: the calculator gets an ERROR frame at once.      *)
RefuseRequest(len) ==
  /\ NewRequest(len)
  /\ ~linked
  /\ outcome' = Append(outcome, Ended("error"))
  /\ UNCHANGED <<pc, channelVars, picoVars>>

(***************************************************************************)
(* _wait_for_phone_response                                                *)
(***************************************************************************)
Pump ==
  /\ pc = "pump"
  /\ \/ (PumpRetry \/ PumpNext) /\ pc' = "notify"
     \/ PumpIdle /\ pc' = "pop"
  /\ UNCHANGED <<asked, outcome, powerCycles, phoneVars>>

NotifyWaiting ==
  /\ pc = "notify"
  /\ PumpNotify
  /\ pc' = "pop"
  /\ UNCHANGED <<asked, outcome, powerCycles, phoneVars>>

(* gatts_notify raises out of poll().                                      *)
NotifyFails ==
  /\ pc = "notify"
  /\ PumpNotifyRaises
  /\ EndRequest(Ended("error"))
  /\ pc' = "listen"
  /\ UNCHANGED <<asked, powerCycles, phoneVars>>

AckTimeout ==
  /\ pc = "pump"
  /\ PumpGivesUp
  /\ EndRequest(Ended("error"))
  /\ pc' = "listen"
  /\ UNCHANGED <<asked, powerCycles, phoneVars>>

(* Mutant: poll is called until it returns something.                      *)
PollForEver == FALSE

ResponseTimeout ==
  /\ pc = "pump" /\ PhoneIsSlow
  /\ EndRequest(Ended("error"))
  /\ pc' = "listen"
  /\ UNCHANGED <<asked, powerCycles, channelVars, picoVars, phoneVars>>

NothingCompleted ==
  /\ pc = "pop" /\ completed = <<>>
  /\ pc' = "pump"
  /\ UNCHANGED <<asked, outcome, powerCycles, channelVars, picoVars, phoneVars>>

(* Mutant: a catalog frame is not told from a page frame.                  *)
NeverACatalog(message) == FALSE

IsCatalog(message) == message[1].of.kind \in {"catalogReply", "catalogUpdate"}

(* _maybe_save_catalog takes the frame, and the wait goes on.              *)
TakeCatalog ==
  /\ pc = "pop" /\ PopCompleted /\ IsCatalog(Head(completed))
  /\ pc' = "pump"
  /\ UNCHANGED <<asked, outcome, powerCycles, phoneVars>>

(* Any other frame is the answer, whatever session it came under; if the   *)
(* calculator does not take the RESPONSE frame an ERROR frame follows.     *)
TakeAnswer ==
  /\ pc = "pop" /\ PopCompleted /\ ~IsCatalog(Head(completed))
  /\ \/ EndRequest([status |-> "answered", message |-> Head(completed)])
     \/ CalculatorLeaves /\ EndRequest(Ended("error"))
  /\ pc' = "listen"
  /\ UNCHANGED <<asked, powerCycles, phoneVars>>

(***************************************************************************)
(* The system                                                              *)
(***************************************************************************)
Bridge ==
  \/ TransportReady \/ ReopenTransport \/ PowerCycle
  \/ \E len \in RequestLens : SendRequest(len) \/ RefuseRequest(len)
  \/ Pump \/ NotifyWaiting \/ NotifyFails \/ AckTimeout \/ ResponseTimeout
  \/ NothingCompleted \/ TakeCatalog \/ TakeAnswer

Irq ==
  /\ \/ IrqWrite
     \/ \E n \in 2..Len(writes) : IrqGluedWrites(n)
     \/ IrqDisconnect
  /\ UNCHANGED <<phoneVars, bridgeVars>>

Phone ==
  /\ \/ Connect \/ Discover \/ Subscribe \/ Disconnect
     \/ ReceiveNotification \/ MissNotification
     \/ \E h \in handlers : CallRelay(h)
     \/ \E h \in handlers, kind \in ReplyKinds : RelayReplies(h, kind)
     \/ \E kind \in UpdateKinds : SendAsyncUpdate(kind)
     \/ WriteFirst \/ WriteAgain \/ WriteGivesUp \/ WriteFails
  /\ UNCHANGED <<picoVars, bridgeVars>>

Next == Bridge \/ Irq \/ Phone

Spec == Init /\ [][Next]_vars

(***************************************************************************)
(* Properties                                                              *)
(***************************************************************************)
IsPending(n) == n \in DOMAIN outcome /\ outcome[n].status = "pending"
Answered(n, id) == /\ n \in DOMAIN outcome
                   /\ outcome[n].status = "answered"
                   /\ outcome[n].message[1].of.kind = "reply"
                   /\ outcome[n].message[1].of.id = id

(* What the phone hands to relay.reply is always one request the           *)
(* calculator made, all of it and nothing else: chunks of two requests are *)
(* never put together, however the link duplicates, loses or breaks off.   *)
RequestsArriveWhole ==
  \A i \in DOMAIN accepted :
     \E n \in DOMAIN asked : accepted[i].message = Message(asked[n])

(* Why that holds.  Request chunks under way are the calculator's own, and *)
(* the session tells those of different requests apart (session ids start  *)
(* again with every transport, but then nothing is under way); the phone   *)
(* collects one request at a time, and while the connection it collects    *)
(* from lasts, whatever arrives under that session belongs to it.  A       *)
(* connection that ends takes the half-collected request with it.          *)
PacketsOf(queue) == {queue[i] : i \in DOMAIN queue}

UnderWay == {p \in PacketsOf(outgoing) \cup {waiting} \cup PacketsOf(notifications) :
               p.type = "REQUEST_CHUNK"}

ChunksAreGenuine ==
  \A p \in UnderWay :
     /\ p.session_id \in 1..session_id
     /\ \E n \in DOMAIN asked : /\ p.chunk = [of |-> asked[n], at |-> p.sequence]
                                /\ p.total_length = asked[n].len

SessionsTellRequestsApart ==
  \A p, q \in UnderWay : p.session_id = q.session_id => p.chunk.of = q.chunk.of

Collects(request) ==
  /\ assembler.total_length = request.len
  /\ \A i \in 0..MaxLen :
       assembler.chunks[i] \in {NoChunk, [of |-> request, at |-> i]}
  /\ linked => /\ assembler.session_id <= session_id
               /\ \A p \in UnderWay : p.session_id = assembler.session_id
                                        => p.chunk.of = request

OneRequestIsCollected ==
  assembler # EmptyAssembler =>
     /\ phone = "up" /\ assembler.session_id # NoSession
     /\ \E n \in DOMAIN asked : Collects(asked[n])

RequestInvariant ==
  /\ session_id <= Len(asked)
  /\ ChunksAreGenuine /\ SessionsTellRequestsApart
  /\ OneRequestIsCollected
  /\ RequestsArriveWhole

(* Retransmission never makes the phone take in a request twice, and       *)
(* requests reach it in the order the calculator made them, including one  *)
(* the Pico had already given up on.                                       *)
RequestsArriveOnceInOrder ==
  \A i, j \in DOMAIN accepted :
     i < j => accepted[i].message[1].of.id < accepted[j].message[1].of.id

(* What the Pico completes is always one whole message that the phone has  *)
(* queued, and the phone's retransmissions never complete it once more.    *)
ResponsesArriveWholeOnce ==
  \A i \in DOMAIN received :
     LET payload == received[i][1].of IN
     /\ received[i] = Message(payload)
     /\ Cardinality({j \in DOMAIN received : received[j] = received[i]})
          <= Cardinality({k \in DOMAIN queued : queued[k] = payload})

(* Up to the first request that ends in an error frame, and until a page   *)
(* update reaches the Pico, every answer the calculator gets is the answer *)
(* to the request it made: neither a retransmission nor a catalog frame    *)
(* nor a reconnection on its own can shift answers by one.                 *)
AnswersMatchUntilDisturbed ==
  LET undisturbed ==
        /\ \A n \in DOMAIN outcome : outcome[n].status \in {"pending", "answered"}
        /\ \A i \in DOMAIN received : received[i][1].of.kind # "update"
  IN undisturbed =>
       \A n \in DOMAIN outcome :
          outcome[n].status = "answered" => Answered(n, n)

(* An acknowledgement the Pico consumes for a REQUEST_END means that the   *)
(* phone has taken the request in.                                         *)
AckReachesPico ==
  IrqWrite /\ Head(writes).type = "ACK" /\ waiting # NoPacket /\ waiting' = NoPacket

AcknowledgedRequestIsAccepted ==
  [][(AckReachesPico /\ waiting.type = "REQUEST_END")
       => \E i \in DOMAIN accepted : accepted[i].session = waiting.session_id]_vars

(* A message the phone considers delivered (its RESPONSE_END was           *)
(* acknowledged) has been put together whole by the Pico, although the     *)
(* Pico also acknowledges a RESPONSE_END that completes nothing; and it    *)
(* has been completed, unless it was dropped because the notification of   *)
(* its acknowledgement raised, when the repeated end is what is            *)
(* acknowledged.                                                           *)
Completed(payload) == \E i \in DOMAIN received : received[i] = Message(payload)
Dropped(payload) == Message(payload) \in lost

HeadDelivered ==
  /\ ReceiveNotification /\ Head(notifications).type = "ACK"
  /\ Len(sendChain') < Len(sendChain)

AcknowledgedResponseIsCompleted ==
  [][HeadDelivered =>
       LET payload == Head(sendChain).payload IN
       Completed(payload) \/ Dropped(payload)]_vars

(* The bridge never leaves the calculator without a frame: a request it    *)
(* has taken ends in an answer or an error, whatever the phone does.       *)
FairBridge ==
  /\ WF_vars(Pump) /\ WF_vars(NotifyWaiting) /\ WF_vars(NothingCompleted)
  /\ WF_vars(TakeCatalog) /\ WF_vars(TakeAnswer)
  /\ SF_vars(ResponseTimeout)      \* 30 s pass while the loop polls

FairSpec == Spec /\ FairBridge

EveryRequestEnds ==
  \A n \in 1..MaxRequests : IsPending(n) ~> (n \in DOMAIN outcome /\ ~IsPending(n))

(***************************************************************************)
(* What the repository says of this code and the code does not do          *)
(***************************************************************************)
(* "the phone reply is returned as one raw response frame": the answer the *)
(* calculator gets to a request is the phone's reply to that request.      *)
AnswerBelongsToRequest ==
  \A n \in DOMAIN outcome : outcome[n].status = "answered" => Answered(n, n)
=============================================================================
