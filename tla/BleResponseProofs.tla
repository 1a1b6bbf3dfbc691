-------------------------- MODULE BleResponseProofs --------------------------
(***************************************************************************)
(* Proofs about BleLink: the way of the replies.  Until the connection     *)
(* first breaks, what the Pico completes is whole, each message once, and  *)
(* a message whose end was acknowledged has been completed.  Beyond a      *)
(* break neither is promised: the Pico keeps what it has half collected,   *)
(* and its sessions start again.  That the answer to a request is its own  *)
(* is promised across breaks too, until the first error frame or update.   *)
(*                                                                         *)
(* In the first part messages are known by their place in queued.  On one  *)
(* connection the session tells them apart: a reply has that of its        *)
(* request, which is the request's number, and updates have those above    *)
(* PhoneSessionBase.                                                       *)
(***************************************************************************)
EXTENDS BleLinkProofs

(* The phone's own sessions are not those of requests, and do not go round.*)
SessionsSuffice ==
  MaxRequests <= PhoneSessionBase /\ MaxUpdates <= SessionLimit - PhoneSessionBase

Unbroken  == drops = 0 /\ powerCycles = 0
Connected == pc # "opening" => linked

SessionsAreIds ==
  /\ session_id = Len(asked)
  /\ \A p \in UnderWay : p.session_id = p.chunk.of.id
  /\ \A k \in 0..MaxLen : assembler.chunks[k] # NoChunk =>
       assembler.session_id = assembler.chunks[k].of.id
  /\ \A i \in DOMAIN accepted : accepted[i].session = IdOf(i)

HandlersAreApart ==
  /\ \A h \in handlers : IsAccepted(h.session) /\ h.request[1].of.id = h.session
  /\ \A g, h \in handlers : g.session = h.session => g = h

(***************************************************************************)
(* The chain is the last part of what was ever queued: Done messages are   *)
(* done with, the next is at position.                                     *)
(***************************************************************************)
Done == Len(queued) - Len(sendChain)

SessionOf(payload) ==
  IF payload.kind \in UpdateFrames THEN PhoneSessionBase + payload.id ELSE payload.id

ChainIsQueued ==
  /\ Len(sendChain) <= Len(queued)
  /\ \A i \in DOMAIN sendChain :
       sendChain[i] = [session |-> SessionOf(queued[Done + i]), payload |-> queued[Done + i]]

QueueIsApart ==
  /\ nextPhoneSession = PhoneSessionBase + updates
  /\ \A k \in DOMAIN queued :
       /\ queued[k].len = ReplyLen
       /\ \/ queued[k].kind \in UpdateFrames /\ queued[k].id \in 1..updates
          \/ /\ queued[k].kind \in ReplyFrames /\ IsAccepted(queued[k].id)
             /\ \A h \in handlers : h.session # queued[k].id
  /\ \A j, k \in DOMAIN queued : SessionOf(queued[j]) = SessionOf(queued[k]) => j = k

Served == HandlersAreApart /\ ChainIsQueued /\ QueueIsApart

(***************************************************************************)
(* What is under way, and what has arrived                                 *)
(***************************************************************************)
IsResponse(p) == p.type \in {"RESPONSE_CHUNK", "RESPONSE_END"}
Responses == {p \in PacketsOf(writes) : IsResponse(p)}
PicoAcks  == {p \in PacketsOf(notifications) : p.type = "ACK"}

IsOf(p, k)    == p.session_id = SessionOf(queued[k])
Reached(k, n) == k <= Done \/ (k = Done + 1 /\ n <= position)

PacketOf(k, n) == ResponsePackets(SessionOf(queued[k]), queued[k])[n + 1]

WritesAreGenuine ==
  \A p \in Responses : \E k \in DOMAIN queued :
    p = PacketOf(k, p.sequence) /\ p.sequence <= ReplyLen /\ Reached(k, p.sequence)

WritesAreInOrder ==
  \A i, j \in DOMAIN writes :
    i < j /\ IsResponse(writes[i]) /\ IsResponse(writes[j]) =>
      \A k, l \in DOMAIN queued :
        IsOf(writes[i], k) /\ IsOf(writes[j], l) =>
          k < l \/ (k = l /\ writes[i].sequence <= writes[j].sequence)

(* The message half collected comes before all that is under way.          *)
Collecting ==
  incoming # EmptyAssembler =>
    \E k \in DOMAIN queued :
      /\ IsOf(incoming, k) /\ incoming.total_length = ReplyLen
      /\ \A n \in 0..MaxLen : incoming.chunks[n] \in {NoChunk, [of |-> queued[k], at |-> n]}
      /\ Reached(k, 0)
      /\ \A p \in Responses, l \in DOMAIN queued : IsOf(p, l) => k <= l

(* The messages put together whole, completed or dropped.                  *)
Whole == {received[i] : i \in DOMAIN received} \cup lost

Delivered(k) == Message(queued[k]) \in Whole

(* No chunk of a message that was put together comes any more.             *)
ReceivedOnce ==
  /\ \A message \in Whole : \E k \in DOMAIN queued : message = Message(queued[k])
  /\ \A i, j \in DOMAIN received : received[i] = received[j] => i = j
  /\ \A k \in DOMAIN queued : Delivered(k) =>
       /\ Reached(k, ReplyLen)
       /\ \A p \in Responses, l \in DOMAIN queued :
            p.type = "RESPONSE_CHUNK" /\ IsOf(p, l) => k < l
       /\ \A l \in DOMAIN queued : incoming # EmptyAssembler /\ IsOf(incoming, l) => k < l

(* Chunk n of message k is collected, or the message was put together.     *)
Got(k, n) ==
  \/ Delivered(k)
  \/ n < ReplyLen /\ IsOf(incoming, k) /\ incoming.chunks[n] # NoChunk

AcksAreTrue ==
  /\ \A p \in PicoAcks : \E k \in DOMAIN queued :
       IsOf(p, k) /\ Reached(k, p.sequence) /\ (k = Done + 1 => Got(k, p.sequence))
  /\ sendChain # <<>> => \A n \in 0..(position - 1) : Got(Done + 1, n)

PicoSendsNoAcks == \A p \in {waiting} \cup PacketsOf(outgoing) : p.type # "ACK"

Arriving == WritesAreGenuine /\ WritesAreInOrder /\ Collecting /\ ReceivedOnce /\ AcksAreTrue

OneConnection ==
  Connected /\ SessionsAreIds /\ Served /\ PicoSendsNoAcks /\ Arriving

ResponseInvariant == Unbroken => OneConnection

-----------------------------------------------------------------------------
(***************************************************************************)
(* While the connection lasts no transport is opened anew, and a request's *)
(* number is its session.                                                  *)
(***************************************************************************)
LEMMA StaysConnected ==
  ASSUME TypeOK, Unbroken => Connected, [Next]_vars, Unbroken'
  PROVE  /\ Unbroken /\ Connected /\ Connected'
         /\ ~ReopenTransport /\ ~PowerCycle /\ ~IrqDisconnect
         /\ \A len \in RequestLens : ~RefuseRequest(len)
<1>1. drops \in Nat /\ powerCycles \in Nat
  BY DEF TypeOK, ChannelTypeOK, BridgeTypeOK
<1>2. drops' \in {drops, drops + 1} /\ powerCycles' \in {powerCycles, powerCycles + 1}
  <2>1. CASE Bridge
    BY <2>1 DEF Bridge, TransportReady, ReopenTransport, PowerCycle, SendRequest,
       RefuseRequest, NewRequest, Send, Reopen, Pump, NotifyWaiting, NotifyFails, AckTimeout,
       ResponseTimeout, NothingCompleted, TakeCatalog, TakeAnswer, PumpRetry, PumpNext,
       PumpIdle, PumpNotify, PumpNotifyRaises, NotifyRaises, PumpGivesUp, PopCompleted,
       channelVars, picoVars
  <2>2. CASE Irq
    BY <2>2 DEF Irq, IrqWrite, IrqGluedWrites, IrqDisconnect, bridgeVars
  <2>3. CASE Phone
    BY <2>3 DEF Phone, Connect, Discover, Subscribe, Disconnect, ReceiveNotification,
       MissNotification, CallRelay, RelayReplies, SendAsyncUpdate, WriteFirst, WriteAgain,
       WriteGivesUp, WriteFails, channelVars, bridgeVars
  <2>4. QED BY <2>1, <2>2, <2>3 DEF Next, vars, channelVars, bridgeVars
<1>3. Unbroken /\ drops' = drops /\ powerCycles' = powerCycles
  BY <1>1, <1>2 DEF Unbroken
<1>4. ~PowerCycle /\ ~IrqDisconnect
  BY <1>1, <1>3 DEF PowerCycle, IrqDisconnect
<1>5. ~ReopenTransport /\ \A len \in RequestLens : ~RefuseRequest(len)
  BY <1>3 DEF ReopenTransport, RefuseRequest, NewRequest, Connected
<1>6. Connected'
  <2>1. CASE Bridge
    BY <1>3, <1>4, <1>5, <2>1 DEF Bridge, Connected, TransportReady, SendRequest, NewRequest,
       Send, Pump, NotifyWaiting, NotifyFails, AckTimeout, ResponseTimeout, NothingCompleted,
       TakeCatalog, TakeAnswer, PumpRetry, PumpNext, PumpIdle, PumpNotify, PumpNotifyRaises,
       NotifyRaises, PumpGivesUp, PopCompleted, channelVars, picoVars
  <2>2. CASE Irq
    BY <1>3, <1>4, <2>2 DEF Irq, IrqWrite, IrqGluedWrites, Connected, bridgeVars
  <2>3. CASE Phone
    BY <1>3, <2>3 DEF Phone, Connect, Discover, Subscribe, Disconnect, ReceiveNotification,
       MissNotification, CallRelay, RelayReplies, SendAsyncUpdate, WriteFirst, WriteAgain,
       WriteGivesUp, WriteFails, channelVars, bridgeVars, Connected
  <2>4. QED BY <1>3, <2>1, <2>2, <2>3 DEF Next, vars, channelVars, bridgeVars, Connected
<1>7. QED BY <1>3, <1>4, <1>5, <1>6


Known == TypeOK /\ RequestInvariant /\ OrderInvariant

LEMMA StreamsMove ==
  ASSUME TypeOK, [Next]_vars, \A len \in RequestLens : ~SendRequest(len)
  PROVE  StreamStep
<1>1. CASE Bridge
  <2>1. CASE ReopenTransport \/ PowerCycle
    BY <2>1 DEF StreamStep, ReopenTransport, PowerCycle, Reopen, FreshTransport
  <2>2. CASE \E len \in RequestLens : RefuseRequest(len)
    BY <2>2 DEF StreamStep, RefuseRequest, channelVars, picoVars
  <2>3. CASE Pump \/ NotifyWaiting \/ NotifyFails \/ AckTimeout
    BY <2>3 DEF StreamStep, Pump, NotifyWaiting, NotifyFails, AckTimeout, PumpRetry, PumpNext,
       PumpIdle, PumpNotify, PumpNotifyRaises, NotifyRaises, PumpGivesUp, Notify, picoVars,
       channelVars
  <2>4. CASE TransportReady \/ ResponseTimeout \/ NothingCompleted \/ TakeCatalog \/ TakeAnswer
    BY <2>4 DEF TransportReady, ResponseTimeout, NothingCompleted, TakeCatalog, TakeAnswer,
       PopCompleted, channelVars, picoVars, StreamStep
  <2>5. QED BY <1>1, <2>1, <2>2, <2>3, <2>4 DEF Bridge
<1>2. CASE Irq
  BY <1>2, IrqMovesStream
<1>3. CASE Phone
  <2>1. UNCHANGED <<outgoing, waiting>>
    BY <1>3 DEF Phone, picoVars
  <2>2. CASE ReceiveNotification \/ MissNotification
    BY SMTT(40), <2>1, <2>2 DEF StreamStep, ReceiveNotification, MissNotification
  <2>3. CASE ~ReceiveNotification /\ ~MissNotification
    BY <1>3, <2>1, <2>3 DEF Phone, StreamStep, Connect, Discover, Subscribe, Disconnect,
       CallRelay, RelayReplies, SendAsyncUpdate, WriteFirst, WriteAgain, WriteGivesUp,
       WriteFails, channelVars
  <2>4. QED BY <2>2, <2>3
<1>4. CASE UNCHANGED vars
  BY <1>4 DEF StreamStep, vars, channelVars, picoVars
<1>5. QED BY <1>1, <1>2, <1>3, <1>4 DEF Next

LEMMA SendKeepsSessions ==
  ASSUME SessionsSuffice, Known, SessionsAreIds, NEW len \in RequestLens, SendRequest(len)
  PROVE  SessionsAreIds'
<1> DEFINE request == [kind |-> "request", id |-> Len(asked) + 1, len |-> len]
           packets == RequestPackets(session_id + 1, request)
<1>0. TypeOK
  BY DEF Known
<1>1. /\ asked \in Seq(Payload) /\ Len(asked) \in Nat /\ Len(asked) < MaxRequests
      /\ asked' = Append(asked, request)
      /\ UNCHANGED <<waiting, notifications, accepted, assembler>>
  BY <1>0 DEF SendRequest, NewRequest, Send, current, TypeOK, BridgeTypeOK, phoneVars,
     channelVars
<1>2. /\ NextSession = session_id + 1 /\ session_id \in Nat /\ session_id = Len(asked)
      /\ session_id + 1 \in Nat
  BY <1>0, <1>1, ChannelAssumption, LinkAssumption
  DEF NextSession, SessionsAreIds, SessionsSuffice, TypeOK, PicoTypeOK
<1>3. request \in Payload /\ request.id = Len(asked) + 1
  BY <1>1, LinkAssumption DEF Payload, PayloadKinds
<1>4. session_id' = session_id + 1 /\ outgoing' = outgoing \o packets
  <2>1. asked'[current + 1] = request
    BY <1>1 DEF current
  <2>2. QED BY <1>2, <2>1 DEF SendRequest, Send
<1> HIDE DEF request
<1>5. /\ packets \in Seq(Packet)
      /\ \A p \in PacketsOf(packets) :
           /\ p.session_id = session_id + 1
           /\ p.type = "REQUEST_CHUNK" => p.chunk.of = request
  BY <1>2, <1>3, NewPackets
<1> HIDE DEF packets
<1>6. PacketsOf(outgoing') = PacketsOf(outgoing) \cup PacketsOf(packets)
  BY <1>0, <1>4, <1>5, PacketsOfQueue, QueueTypes
<1>7. \A p \in UnderWay' :
        p \in UnderWay \/ (p.session_id = session_id + 1 /\ p.chunk.of = request)
  BY <1>1, <1>5, <1>6 DEF UnderWay
<1>8. session_id' = Len(asked')
  BY <1>1, <1>2, <1>4
<1>9. \A p \in UnderWay' : p.session_id = p.chunk.of.id
  BY <1>2, <1>3, <1>7 DEF SessionsAreIds
<1>10. QED BY <1>1, <1>8, <1>9 DEF SessionsAreIds, IdOf

(* What the phone takes in is the newest request so far.                   *)
LEMMA AcceptsTheNewest ==
  ASSUME Known, SessionsAreIds, NEW session, CanFinish(assembler, session)
  PROVE  /\ Assembled(assembler)[1].of.id = session /\ session \in Nat
         /\ \A i \in DOMAIN accepted : accepted[i].session < session
<1>0. TypeOK /\ RequestInvariant /\ OrderInvariant
  BY DEF Known
<1>1. /\ assembler.session_id = session /\ session \in Nat
      /\ 1 \in 1..assembler.total_length /\ 0 \in 0..MaxLen /\ assembler.chunks[0] # NoChunk
  <2>1. /\ assembler.session_id = session /\ session # NoSession
        /\ \A k \in 0..(assembler.total_length - 1) : assembler.chunks[k] # NoChunk
    BY DEF CanFinish
  <2>2. session \in Nat /\ assembler.total_length \in Nat /\ assembler.total_length > 0
    BY <1>0, <2>1, MaxLenAssumption DEF TypeOK, PhoneTypeOK, Assembler
  <2>3. QED BY <2>1, <2>2, MaxLenAssumption
<1>2. Assembled(assembler)[1] = assembler.chunks[0]
  BY <1>1 DEF Assembled
<1>3. assembler.chunks[0].of.id = session
  BY <1>1 DEF SessionsAreIds
<1>4. \A i \in DOMAIN accepted : accepted[i].session < session
  BY <1>0, <1>1, <1>3 DEF OrderInvariant, NothingComesTwice, SessionsAreIds
<1>5. QED BY <1>1, <1>2, <1>3, <1>4

LEMMA SessionsStay ==
  ASSUME Known, SessionsAreIds, [Next]_vars,
         session_id' = session_id, asked' = asked, StreamStep,
         \/ accepted' = accepted /\ assembler' \in {EmptyAssembler, assembler}
         \/ ReceiveNotification /\ OnRequestChunk(Head(notifications))
         \/ ReceiveNotification /\ OnRequestEnd(Head(notifications))
  PROVE  SessionsAreIds'
<1> DEFINE packet == Head(notifications)
<1>0. TypeOK /\ RequestInvariant /\ OrderInvariant
  BY DEF Known
<1>1. session_id' = Len(asked') /\ \A p \in UnderWay' : p.session_id = p.chunk.of.id
  BY <1>0, StreamMoves DEF OrderInvariant, SessionsAreIds
<1>2. \A k \in 0..MaxLen : EmptyAssembler.chunks[k] = NoChunk
  BY DEF EmptyAssembler, NoChunks
<1>3. CASE accepted' = accepted /\ assembler' \in {EmptyAssembler, assembler}
  BY <1>1, <1>2, <1>3 DEF SessionsAreIds, IdOf
<1>4. CASE ReceiveNotification /\ OnRequestChunk(packet)
  <2>1. packet \in UnderWay /\ packet \in Packet
    <3>1. packet \in PacketsOf(notifications) /\ packet \in Packet
      BY <1>0, <1>4, PacketsOfQueue, QueueTypes DEF ReceiveNotification
    <3>2. QED BY <1>4, <3>1 DEF UnderWay, OnRequestChunk
  <2>2. accepted' = accepted /\ assembler' = AssemblerAdd(assembler, packet)
    BY <1>4 DEF OnRequestChunk
  <2> HIDE DEF packet
  <2>3. packet.session_id = packet.chunk.of.id /\ packet.sequence \in 0..MaxLen
    BY <2>1 DEF SessionsAreIds, Packet, Envelope
  <2> DEFINE kept == IF assembler.session_id \in {NoSession, packet.session_id}
                     THEN assembler.chunks ELSE NoChunks
  <2>4. /\ kept \in [0..MaxLen -> Chunk]
        /\ \A k \in 0..MaxLen : kept[k] # NoChunk => kept[k].of.id = packet.session_id
    <3>1. assembler.session_id = NoSession => \A k \in 0..MaxLen : assembler.chunks[k] = NoChunk
      BY <1>0, <1>2 DEF RequestInvariant, OneRequestIsCollected
    <3>2. \A k \in 0..MaxLen : NoChunks[k] = NoChunk
      BY DEF NoChunks
    <3>3. assembler.chunks \in [0..MaxLen -> Chunk] /\ NoChunks \in [0..MaxLen -> Chunk]
      BY <1>0, NoPacketType DEF TypeOK, PhoneTypeOK, Assembler, NoChunks
    <3>4. QED BY <3>1, <3>2, <3>3 DEF SessionsAreIds
  <2>5. /\ assembler'.session_id = packet.session_id
        /\ assembler'.chunks = IF kept[packet.sequence] = NoChunk
                               THEN [kept EXCEPT ![packet.sequence] = packet.chunk] ELSE kept
    BY <2>2 DEF AssemblerAdd
  <2> HIDE DEF kept
  <2>6. \A k \in 0..MaxLen : assembler'.chunks[k] \in {packet.chunk, kept[k]}
    BY <2>3, <2>4, <2>5
  <2>7. \A k \in 0..MaxLen : assembler'.chunks[k] # NoChunk =>
          assembler'.session_id = assembler'.chunks[k].of.id
    BY <2>3, <2>4, <2>5, <2>6
  <2>8. QED BY <1>1, <2>2, <2>7 DEF SessionsAreIds, IdOf
<1>5. CASE ReceiveNotification /\ OnRequestEnd(packet)
  <2>1. CASE ~CanFinish(assembler, packet.session_id)
    BY <1>3, <1>5, <2>1 DEF OnRequestEnd, AssemblerFinish
  <2>2. CASE CanFinish(assembler, packet.session_id)
    <3> DEFINE Entry == [session : Nat, message : MessageType]
               entry == [session |-> packet.session_id, message |-> Assembled(assembler)]
    <3>1. /\ accepted \in Seq(Entry) /\ accepted' = Append(accepted, entry)
          /\ assembler' = EmptyAssembler
      BY <1>0, <1>5, <2>2 DEF OnRequestEnd, AssemblerFinish, TypeOK, PhoneTypeOK
    <3>2. entry.session = entry.message[1].of.id
      BY <2>2, AcceptsTheNewest
    <3> HIDE DEF Entry, entry
    <3>3. \A i \in DOMAIN accepted' :
            (i \in DOMAIN accepted /\ accepted'[i] = accepted[i]) \/ accepted'[i] = entry
      BY <3>1
    <3>4. \A i \in DOMAIN accepted' : accepted'[i].session = accepted'[i].message[1].of.id
      BY <3>2, <3>3 DEF SessionsAreIds, IdOf
    <3>5. QED BY <1>1, <1>2, <3>1, <3>4 DEF SessionsAreIds, IdOf
  <2>3. QED BY <2>1, <2>2
<1>6. QED BY <1>3, <1>4, <1>5

(* A step that does not end the connection *)
Lasts ==
  /\ [Next]_vars
  /\ ~ReopenTransport /\ ~PowerCycle /\ ~IrqDisconnect
  /\ \A len \in RequestLens : ~RefuseRequest(len)

LEMMA SessionsKeep ==
  ASSUME SessionsSuffice, Known, SessionsAreIds, Lasts PROVE SessionsAreIds'
<1>1. ASSUME NEW len \in RequestLens, SendRequest(len) PROVE SessionsAreIds'
  BY <1>1, SendKeepsSessions
<1>2. CASE \A len \in RequestLens : ~SendRequest(len)
  <2>1. StreamStep
    BY <1>2, StreamsMove DEF Known, Lasts
  <2>2. CASE Bridge
    <3>1. UNCHANGED <<session_id, asked, accepted, assembler>>
      BY <1>2, <2>2 DEF Lasts, Bridge, TransportReady, Pump, NotifyWaiting, NotifyFails,
         AckTimeout, ResponseTimeout, NothingCompleted, TakeCatalog, TakeAnswer, PumpRetry,
         PumpNext, PumpIdle, PumpNotify, PumpNotifyRaises, NotifyRaises, PumpGivesUp,
         PopCompleted, phoneVars, picoVars
    <3>2. QED BY <2>1, <3>1, SessionsStay DEF Lasts
  <2>3. CASE Irq
    <3>1. UNCHANGED <<session_id, asked, accepted, assembler>>
      BY <2>3 DEF Lasts, Irq, IrqWrite, IrqGluedWrites, phoneVars, bridgeVars, picoVars
    <3>2. QED BY <2>1, <3>1, SessionsStay DEF Lasts
  <2>4. CASE Phone
    <3>1. UNCHANGED <<session_id, asked>>
      BY SMTT(40), <2>4 DEF Phone, picoVars, bridgeVars
    <3>2. \/ accepted' = accepted /\ assembler' \in {EmptyAssembler, assembler}
          \/ ReceiveNotification /\ OnRequestChunk(Head(notifications))
          \/ ReceiveNotification /\ OnRequestEnd(Head(notifications))
      BY <2>4 DEF Phone, Connect, Discover, Subscribe, Disconnect, ReceiveNotification,
         OnPicoAck, OnUndecodable, MissNotification, CallRelay, RelayReplies,
         SendAsyncUpdate, WriteFirst, WriteAgain, WriteGivesUp, WriteFails, phoneVars
    <3>3. QED BY <2>1, <3>1, <3>2, SessionsStay DEF Lasts
  <2>5. CASE UNCHANGED vars
    <3>1. UNCHANGED <<session_id, asked, accepted, assembler>>
      BY <2>5 DEF vars, picoVars, phoneVars, bridgeVars
    <3>2. QED BY <2>1, <3>1, SessionsStay DEF Lasts
  <2>6. QED BY <2>2, <2>3, <2>4, <2>5 DEF Lasts, Next
<1>3. QED BY <1>1, <1>2

(***************************************************************************)
(* What the handlers and the queue of the phone do                         *)
(***************************************************************************)
LEMMA PhoneTypes ==
  ASSUME TypeOK
  PROVE  /\ handlers \subseteq Handler /\ IsFiniteSet(handlers)
         /\ sendChain \in Seq(Outgoing) /\ Len(sendChain) \in Nat
         /\ queued \in Seq(Payload) /\ Len(queued) \in Nat
         /\ position \in 0..ReplyLen /\ ReplyLen \in 1..MaxLen /\ MaxLen \in Nat
         /\ accepted \in Seq([session : Nat, message : MessageType])
         /\ updates \in Nat /\ updates <= MaxUpdates
BY ServiceAssumption, MaxLenAssumption DEF TypeOK, PhoneTypeOK

(* An accepted session is that of a request, and no update has it.         *)
LEMMA AcceptedSessions ==
  ASSUME SessionsSuffice, Known, SessionsAreIds, NEW session, IsAccepted(session)
  PROVE  session \in 1..PhoneSessionBase
<1>1. PICK i \in DOMAIN accepted : accepted[i].session = session
  BY DEF IsAccepted
<1>2. session \in 1..Len(asked)
  BY <1>1, IdsWereAsked DEF Known, OrderInvariant, SessionsAreIds
<1>3. Len(asked) <= MaxRequests /\ Len(asked) \in Nat
  BY DEF Known, TypeOK, BridgeTypeOK
<1>4. QED BY <1>2, <1>3, ChannelAssumption, LinkAssumption DEF SessionsSuffice

(* What the phone does to handlers, accepted and the queue                 *)
Taking(session) ==
  /\ \A i \in DOMAIN accepted : accepted[i].session < session
  /\ \E entry \in [session : Nat, message : MessageType] :
       entry.session = session /\ accepted' = Append(accepted, entry)
  /\ \E h \in Handler : /\ h.session = session /\ h.request[1].of.id = session
                        /\ handlers' = handlers \cup {h}

Replacing(h) ==
  \E g : g.session = h.session /\ g.request = h.request /\ handlers' = (handlers \ {h}) \cup {g}

HandlersMove ==
  \/ accepted' = accepted /\ handlers' \subseteq handlers
  \/ \E session \in Nat : Taking(session)
  \/ accepted' = accepted /\ \E h \in handlers : Replacing(h)

LEMMA HandlersStayApart ==
  ASSUME TypeOK, HandlersAreApart, HandlersMove
  PROVE  /\ HandlersAreApart'
         /\ \A s : IsAccepted(s) => IsAccepted(s)'
         /\ \A s : IsAccepted(s) /\ (\A h \in handlers : h.session # s)
                     => \A h \in handlers' : h.session # s
<1>1. CASE accepted' = accepted /\ handlers' \subseteq handlers
  BY <1>1 DEF HandlersAreApart, IsAccepted
<1>2. ASSUME NEW session \in Nat, Taking(session)
      PROVE  /\ HandlersAreApart'
             /\ \A s : IsAccepted(s) => IsAccepted(s)'
             /\ \A s : IsAccepted(s) => s # session
             /\ \A h \in handlers' : h \in handlers \/ h.session = session
  <2> DEFINE Entry == [session : Nat, message : MessageType]
  <2>1. PICK entry \in Entry : entry.session = session /\ accepted' = Append(accepted, entry)
    BY <1>2 DEF Taking
  <2>2. accepted \in Seq(Entry)
    BY PhoneTypes
  <2> HIDE DEF Entry
  <2>3. /\ \A i \in DOMAIN accepted : i \in DOMAIN accepted' /\ accepted'[i] = accepted[i]
        /\ Len(accepted) + 1 \in DOMAIN accepted' /\ accepted'[Len(accepted) + 1] = entry
    BY <2>1, <2>2
  <2>4. \A s : s = session \/ IsAccepted(s) => IsAccepted(s)'
    BY <2>1, <2>3 DEF IsAccepted
  <2>5. \A s : IsAccepted(s) => s # session
    BY <1>2, <2>2 DEF IsAccepted, Taking
  <2>6. PICK h \in Handler : /\ h.session = session /\ h.request[1].of.id = session
                             /\ handlers' = handlers \cup {h}
    BY <1>2 DEF Taking
  <2>7. \A g \in handlers : g.session # session
    BY <2>5 DEF HandlersAreApart
  <2>8. HandlersAreApart'
    BY <2>4, <2>6, <2>7 DEF HandlersAreApart
  <2>9. QED BY <2>4, <2>5, <2>6, <2>8
<1>3. ASSUME NEW h \in handlers, accepted' = accepted, Replacing(h)
      PROVE  /\ HandlersAreApart'
             /\ \A s : IsAccepted(s) => IsAccepted(s)'
             /\ \A g \in handlers' : g \in handlers \/ g.session = h.session
  BY <1>3 DEF HandlersAreApart, IsAccepted, Replacing
<1>4. QED BY <1>1, <1>2, <1>3 DEF HandlersMove

LEMMA ReceivingHandlers ==
  ASSUME Known, SessionsAreIds, HandlersAreApart, ReceiveNotification
  PROVE  HandlersMove
<1> DEFINE packet == Head(notifications)
<1>1. CASE ~OnRequestEnd(packet) \/ ~CanFinish(assembler, packet.session_id)
  <2>1. accepted' = accepted /\ handlers' = handlers
    BY <1>1 DEF ReceiveNotification, OnPicoAck, OnRequestChunk, OnRequestEnd, OnUndecodable
  <2>2. QED BY <2>1 DEF HandlersMove
<1>2. CASE OnRequestEnd(packet) /\ CanFinish(assembler, packet.session_id)
  <2> DEFINE session == packet.session_id
             entry == [session |-> session, message |-> Assembled(assembler)]
             h == [id |-> Len(accepted) + 1, session |-> session,
                   request |-> Assembled(assembler), state |-> "acking"]
  <2>1. /\ accepted' = Append(accepted, entry) /\ handlers' = handlers \cup {h}
        /\ Len(accepted) + 1 \in Nat
    BY <1>2, PhoneTypes DEF OnRequestEnd, Known
  <2>2. /\ Assembled(assembler)[1].of.id = session /\ session \in Nat
        /\ \A i \in DOMAIN accepted : accepted[i].session < session
    BY <1>2, AcceptsTheNewest
  <2>3. Assembled(assembler) \in MessageType
    BY <1>2, <2>2, AssemblerType DEF Known, TypeOK, PhoneTypeOK
  <2>4. entry \in [session : Nat, message : MessageType] /\ h \in Handler
    BY <2>1, <2>2, <2>3 DEF Handler
  <2>5. Taking(session)
    <3>1. entry.session = session /\ h.session = session /\ h.request[1].of.id = session
      BY <2>2
    <3> HIDE DEF entry, h, session
    <3>2. QED BY <2>1, <2>2, <2>4, <3>1 DEF Taking
  <2>6. QED BY <2>2, <2>5 DEF HandlersMove
<1>3. QED BY <1>1, <1>2

LEMMA CallingHandlers ==
  ASSUME Known, HandlersAreApart, NEW h \in handlers, CallRelay(h)
  PROVE  HandlersMove
<1> DEFINE inFlight == {g \in handlers : g.state = "replying" /\ g.session = h.session}
           called == [h EXCEPT !.state = "replying", !.request = h.request]
<1>1. inFlight = {}
  BY DEF HandlersAreApart, CallRelay
<1>2. handlers' = (handlers \ {h}) \cup {called} /\ accepted' = accepted
  BY <1>1 DEF CallRelay
<1>3. called.session = h.session /\ called.request = h.request
  BY PhoneTypes DEF Known, Handler
<1> HIDE DEF called
<1>4. QED BY <1>2, <1>3 DEF HandlersMove, Replacing

LEMMA HandlersKeep ==
  ASSUME Known, SessionsAreIds, HandlersAreApart, Lasts PROVE HandlersMove
<1>1. CASE Bridge \/ Irq \/ UNCHANGED vars
  <2>1. accepted' = accepted /\ handlers' = handlers
    BY <1>1 DEF Lasts, Irq, vars, Bridge, TransportReady, Pump, NotifyWaiting, NotifyFails,
       AckTimeout, SendRequest, NewRequest, ResponseTimeout, NothingCompleted, TakeCatalog,
       TakeAnswer, phoneVars
  <2>2. QED BY <2>1 DEF HandlersMove
<1>2. CASE Phone
  <2>1. CASE ReceiveNotification
    BY <2>1, ReceivingHandlers
  <2>2. ASSUME NEW h \in handlers, CallRelay(h) PROVE HandlersMove
    BY <2>2, CallingHandlers
  <2>3. ASSUME ~ReceiveNotification, \A h \in handlers : ~CallRelay(h)
        PROVE  accepted' = accepted /\ handlers' \subseteq handlers
    BY <1>2, <2>3 DEF Phone, Connect, Discover, Subscribe, Disconnect, MissNotification,
       RelayReplies, SendAsyncUpdate, WriteFirst, WriteAgain, WriteGivesUp, WriteFails,
       phoneVars
  <2>4. QED BY <2>1, <2>2, <2>3 DEF HandlersMove
<1>3. QED BY <1>1, <1>2 DEF Lasts, Next


LEMMA AppendOne ==
  ASSUME NEW S, NEW s \in Seq(S), NEW x \in S
  PROVE  s \o [i \in 1..1 |-> x] = Append(s, x)
<1>1. [i \in 1..1 |-> x] = <<x>>
  OBVIOUS
<1>2. QED BY <1>1

(* The messages of the phone: the chain is cut, or takes one more, or the  *)
(* packet after the acknowledged one is next.                              *)
Cut ==
  /\ sendChain # <<>> /\ queued' = queued /\ position' = 0
  /\ sendChain' \in {<<>>, Tail(sendChain)}

Enqueues(payload) ==
  /\ queued' = Append(queued, payload)
  /\ sendChain' = Append(sendChain, [session |-> SessionOf(payload), payload |-> payload])
  /\ position' = position

Advances ==
  /\ UNCHANGED <<sendChain, queued>>
  /\ sendChain # <<>> /\ position < ReplyLen /\ position' = position + 1

QueueMoves ==
  \/ UNCHANGED <<sendChain, queued, position>>
  \/ Cut
  \/ Advances
  \/ \E payload \in Payload :
       /\ Enqueues(payload)
       /\ \A k \in DOMAIN queued : SessionOf(queued[k]) # SessionOf(payload)

LEMMA ChainFacts ==
  ASSUME TypeOK, ChainIsQueued
  PROVE  /\ Done \in 0..Len(queued) /\ Done \in Nat
         /\ sendChain = <<>> => Done = Len(queued) /\ position = 0
         /\ sendChain # <<>> =>
              /\ Done + 1 \in DOMAIN queued /\ Done < Len(queued)
              /\ Head(sendChain) = [session |-> SessionOf(queued[Done + 1]),
                                    payload |-> queued[Done + 1]]
<1>1. /\ Len(sendChain) \in Nat /\ Len(queued) \in Nat /\ Len(sendChain) <= Len(queued)
      /\ sendChain \in Seq(Outgoing) /\ queued \in Seq(Payload)
  BY PhoneTypes DEF ChainIsQueued
<1>2. /\ Done \in 0..Len(queued) /\ Done \in Nat
      /\ sendChain = <<>> => Done = Len(queued)
      /\ sendChain # <<>> => Done + 1 \in DOMAIN queued /\ Done < Len(queued)
  BY <1>1 DEF Done
<1>3. sendChain = <<>> => position = 0
  BY ServiceAssumption DEF TypeOK, PhoneTypeOK
<1>4. ASSUME sendChain # <<>>
      PROVE  Head(sendChain) = [session |-> SessionOf(queued[Done + 1]),
                                payload |-> queued[Done + 1]]
  <2>1. 1 \in DOMAIN sendChain /\ Head(sendChain) = sendChain[1]
    BY <1>1, <1>4
  <2>2. QED BY <2>1 DEF ChainIsQueued
<1>5. QED BY <1>2, <1>3, <1>4

(* What was queued stays so, and what was reached.                         *)
LEMMA QueueGrows ==
  ASSUME TypeOK, ChainIsQueued, QueueMoves
  PROVE  /\ ChainIsQueued'
         /\ \A k \in DOMAIN queued : k \in DOMAIN queued' /\ queued'[k] = queued[k]
         /\ Done' \in Nat /\ Done <= Done' /\ Len(queued') \in Nat
         /\ Done' = Done => position <= position'
         /\ \A k \in DOMAIN queued' :
              \/ k \in DOMAIN queued
              \/ /\ k = Len(queued) + 1 /\ Done' = Done /\ position' = position
                 /\ \A j \in DOMAIN queued : SessionOf(queued[j]) # SessionOf(queued'[k])
<1>0. /\ Len(sendChain) \in Nat /\ Len(queued) \in Nat /\ Len(sendChain) <= Len(queued)
      /\ sendChain \in Seq(Outgoing) /\ queued \in Seq(Payload) /\ position \in Nat
      /\ Done \in 0..Len(queued) /\ Done \in Nat
  BY PhoneTypes, ChainFacts DEF ChainIsQueued
<1>1. CASE UNCHANGED <<sendChain, queued, position>>
  BY <1>0, <1>1 DEF Done, ChainIsQueued
<1>2. CASE Advances
  BY <1>0, <1>2 DEF Done, ChainIsQueued, Advances
<1>3. CASE Cut
  <2>1. CASE sendChain' = <<>>
    BY <1>0, <1>3, <2>1 DEF Done, ChainIsQueued, Cut
  <2>2. CASE sendChain' = Tail(sendChain)
    <3>1. Len(sendChain') = Len(sendChain) - 1 /\ Done' = Done + 1
      BY <1>0, <1>3, <2>2 DEF Cut, Done
    <3>2. \A i \in DOMAIN sendChain' :
            /\ i + 1 \in DOMAIN sendChain /\ sendChain'[i] = sendChain[i + 1]
            /\ Done' + i = Done + (i + 1)
      BY <1>0, <1>3, <2>2, <3>1 DEF Cut
    <3>3. ChainIsQueued'
      BY <1>0, <1>3, <3>1, <3>2 DEF Cut, ChainIsQueued
    <3>4. QED BY <1>0, <1>3, <3>1, <3>3 DEF Cut
  <2>3. QED BY <1>3, <2>1, <2>2 DEF Cut
<1>4. ASSUME NEW payload \in Payload, Enqueues(payload),
             \A k \in DOMAIN queued : SessionOf(queued[k]) # SessionOf(payload)
      PROVE  /\ ChainIsQueued' /\ Done' = Done /\ position' = position
             /\ \A k \in DOMAIN queued : k \in DOMAIN queued' /\ queued'[k] = queued[k]
             /\ \A k \in DOMAIN queued' :
                  \/ k \in DOMAIN queued
                  \/ /\ k = Len(queued) + 1
                     /\ \A j \in DOMAIN queued : SessionOf(queued[j]) # SessionOf(queued'[k])
  <2> DEFINE item == [session |-> SessionOf(payload), payload |-> payload]
  <2>1. /\ queued' = Append(queued, payload) /\ sendChain' = Append(sendChain, item)
        /\ position' = position
    BY <1>4 DEF Enqueues
  <2> HIDE DEF item
  <2>2. /\ Len(queued') = Len(queued) + 1 /\ Len(sendChain') = Len(sendChain) + 1
        /\ DOMAIN queued = 1..Len(queued) /\ DOMAIN queued' = 1..(Len(queued) + 1)
        /\ DOMAIN sendChain' = 1..(Len(sendChain) + 1) /\ DOMAIN sendChain = 1..Len(sendChain)
        /\ \A k \in DOMAIN queued : queued'[k] = queued[k]
        /\ queued'[Len(queued) + 1] = payload
        /\ \A i \in DOMAIN sendChain : sendChain'[i] = sendChain[i]
        /\ sendChain'[Len(sendChain) + 1] = item
    BY <1>0, <2>1
  <2>3. Done' = Done /\ Done + Len(sendChain) = Len(queued)
    BY <1>0, <2>2 DEF Done
  <2>4. \A i \in DOMAIN sendChain : Done + i \in DOMAIN queued
    BY <1>0, <2>2, <2>3
  <2>5. \A i \in DOMAIN sendChain' :
          sendChain'[i] = [session |-> SessionOf(queued'[Done + i]), payload |-> queued'[Done + i]]
    <3>1. \A i \in DOMAIN sendChain :
            sendChain'[i] = [session |-> SessionOf(queued'[Done + i]), payload |-> queued'[Done + i]]
      BY <2>2, <2>4 DEF ChainIsQueued
    <3>2. sendChain'[Len(sendChain) + 1]
            = [session |-> SessionOf(queued'[Done + (Len(sendChain) + 1)]),
               payload |-> queued'[Done + (Len(sendChain) + 1)]]
      <4>1. Done + (Len(sendChain) + 1) = Len(queued) + 1
        BY <1>0, <2>3
      <4>2. QED BY <2>2, <4>1 DEF item
    <3>3. \A i \in DOMAIN sendChain' : i \in DOMAIN sendChain \/ i = Len(sendChain) + 1
      BY <1>0, <2>2
    <3>4. QED BY <3>1, <3>2, <3>3
  <2>6. ChainIsQueued'
    BY <1>0, <2>2, <2>3, <2>5 DEF ChainIsQueued
  <2>7. QED BY <1>0, <1>4, <2>1, <2>2, <2>3, <2>6
<1>5. ASSUME NEW payload \in Payload, Enqueues(payload)
      PROVE  Len(queued') \in Nat
  BY <1>0, <1>5 DEF Enqueues
<1>6. QED BY <1>0, <1>1, <1>2, <1>3, <1>4, <1>5 DEF QueueMoves


(* No message of the queue has the session of one that awaits its reply,   *)
(* and none that of the next update.                                       *)
LEMMA SessionsAreFree ==
  ASSUME SessionsSuffice, Known, SessionsAreIds, Served
  PROVE  /\ \A h \in handlers, k \in DOMAIN queued : SessionOf(queued[k]) # h.session
         /\ \A k \in DOMAIN queued : SessionOf(queued[k]) # PhoneSessionBase + (updates + 1)
         /\ \A k \in DOMAIN queued : SessionOf(queued[k]) \in Nat \ {0}
<1>0. PhoneSessionBase \in Nat /\ PhoneSessionBase >= 1 /\ updates \in Nat
  BY ChannelAssumption, PhoneTypes DEF Known
<1>1. \A h \in handlers : h.session \in 1..PhoneSessionBase
  BY AcceptedSessions DEF Served, HandlersAreApart
<1>2. ASSUME NEW k \in DOMAIN queued
      PROVE  /\ \A h \in handlers : SessionOf(queued[k]) # h.session
             /\ SessionOf(queued[k]) # PhoneSessionBase + (updates + 1)
             /\ SessionOf(queued[k]) \in Nat \ {0}
  <2>1. CASE queued[k].kind \in UpdateFrames /\ queued[k].id \in 1..updates
    <3>1. SessionOf(queued[k]) = PhoneSessionBase + queued[k].id
      BY <2>1 DEF SessionOf
    <3>2. QED BY <1>0, <1>1, <2>1, <3>1
  <2>2. CASE /\ queued[k].kind \in ReplyFrames /\ IsAccepted(queued[k].id)
             /\ \A h \in handlers : h.session # queued[k].id
    <3>1. SessionOf(queued[k]) = queued[k].id
      BY <2>2 DEF SessionOf, ReplyFrames, UpdateFrames
    <3>2. queued[k].id \in 1..PhoneSessionBase
      BY <2>2, AcceptedSessions
    <3>3. QED BY <1>0, <2>2, <3>1, <3>2
  <2>3. QED BY <2>1, <2>2 DEF Served, QueueIsApart
<1>3. QED BY <1>2

(* A payload that may be queued next                                       *)
MayBeQueued(payload) ==
  /\ payload \in Payload /\ payload.len = ReplyLen
  /\ \A k \in DOMAIN queued : SessionOf(queued[k]) # SessionOf(payload)

LEMMA ReplyIsQueued ==
  ASSUME SessionsSuffice, Known, SessionsAreIds, Served,
         NEW h \in handlers, NEW kind \in ReplyKinds, RelayReplies(h, kind)
  PROVE  /\ handlers' = handlers \ {h} /\ accepted' = accepted
         /\ UNCHANGED <<updates, nextPhoneSession, position>>
         /\ \/ UNCHANGED <<sendChain, queued>>
            \/ \E payload : /\ payload.kind \in ReplyFrames /\ payload.id = h.session
                            /\ MayBeQueued(payload) /\ Enqueues(payload)
<1> DEFINE sharing == {g \in handlers : g.state = "replying" /\ g.session = h.session}
           payload == ReplyTo(h.request, kind)
           item == [session |-> h.session, payload |-> payload]
           responses == [i \in 1..Cardinality(sharing) |-> item]
<1>1. sharing = {h}
  BY DEF RelayReplies, Served, HandlersAreApart
<1>2. Cardinality(sharing) = 1
  BY <1>1, FS_Singleton
<1>3. /\ handlers' = handlers \ {h} /\ accepted' = accepted
      /\ UNCHANGED <<updates, nextPhoneSession, position>>
  BY <1>1 DEF RelayReplies
<1>4. h \in Handler /\ h.request \in MessageType /\ h.session \in Nat
  BY PhoneTypes DEF Known, Handler
<1>5. /\ payload \in Payload /\ payload.len = ReplyLen /\ payload.kind = kind
      /\ payload.id = h.session /\ kind \in ReplyFrames
      /\ payload \in [kind : PayloadKinds, id : Nat, len : {ReplyLen}]
  <2>1. payload.id = h.session /\ payload.len = ReplyLen /\ payload.kind = kind
    BY DEF ReplyTo, Served, HandlersAreApart
  <2>2. payload \in [kind : PayloadKinds, id : Nat, len : {ReplyLen}]
    BY <1>4, ReplyToType
  <2>3. kind \in ReplyFrames
    BY LinkAssumption
  <2>4. ReplyLen \in 0..MaxLen
    BY ServiceAssumption
  <2> HIDE DEF payload
  <2>5. QED BY <2>1, <2>2, <2>3, <2>4 DEF Payload
<1>6. SessionOf(payload) = h.session
  BY <1>5 DEF SessionOf, ReplyFrames, UpdateFrames
<1>7. MayBeQueued(payload)
  BY <1>5, <1>6, SessionsAreFree DEF MayBeQueued
<1>8. ASSUME CanWrite PROVE Enqueues(payload)
  <2>1. /\ sendChain' = sendChain \o responses
        /\ queued' = queued \o [i \in DOMAIN responses |-> responses[i].payload]
    BY <1>8 DEF RelayReplies
  <2> HIDE DEF payload, sharing
  <2>2. responses = [i \in 1..1 |-> item]
    BY <1>2
  <2>3. [i \in DOMAIN responses |-> responses[i].payload] = [i \in 1..1 |-> payload]
    BY <2>2
  <2>4. item \in Outgoing
    BY <1>4, <1>5 DEF Outgoing
  <2>5. sendChain' = Append(sendChain, item)
    BY <2>1, <2>2, <2>4, AppendOne, PhoneTypes DEF Known
  <2>6. queued' = Append(queued, payload)
    BY ZenonT(40), <1>5, <2>1, <2>3, AppendOne, PhoneTypes DEF Known
  <2>7. QED BY <1>3, <1>6, <2>5, <2>6 DEF Enqueues
<1> HIDE DEF payload, sharing, responses
<1>9. ~CanWrite => UNCHANGED <<sendChain, queued>>
  BY DEF RelayReplies
<1>10. QED BY <1>3, <1>5, <1>7, <1>8, <1>9

LEMMA UpdateIsQueued ==
  ASSUME SessionsSuffice, Known, SessionsAreIds, Served,
         NEW kind \in UpdateKinds, SendAsyncUpdate(kind)
  PROVE  /\ UNCHANGED <<handlers, accepted>>
         /\ updates' = updates + 1 /\ nextPhoneSession' = PhoneSessionBase + updates'
         /\ \E payload : /\ payload.kind \in UpdateFrames /\ payload.id = updates'
                         /\ MayBeQueued(payload) /\ Enqueues(payload)
<1> DEFINE payload == [kind |-> kind, id |-> updates + 1, len |-> ReplyLen]
<1>1. /\ PhoneSessionBase \in Nat /\ SessionLimit \in Nat /\ updates \in Nat
      /\ MaxUpdates \in Nat /\ updates < MaxUpdates /\ updates + 1 \in Nat
  BY SMTT(40), ChannelAssumption, ServiceAssumption, PhoneTypes DEF SendAsyncUpdate, Known
<1>2. nextPhoneSession' = PhoneSessionBase + (updates + 1)
  BY <1>1 DEF SendAsyncUpdate, Served, QueueIsApart, SessionsSuffice
<1>3. /\ UNCHANGED <<handlers, accepted, position>> /\ updates' = updates + 1
      /\ sendChain' = Append(sendChain, [session |-> nextPhoneSession', payload |-> payload])
      /\ queued' = Append(queued, payload)
  BY DEF SendAsyncUpdate
<1>4. payload \in Payload /\ kind \in UpdateFrames
  BY <1>1, LinkAssumption, ServiceAssumption DEF Payload, PayloadKinds
<1>5. SessionOf(payload) = PhoneSessionBase + (updates + 1)
  BY <1>4 DEF SessionOf
<1>6. payload.kind \in UpdateFrames /\ payload.id = updates + 1 /\ payload.len = ReplyLen
  BY <1>4
<1> HIDE DEF payload
<1>7. MayBeQueued(payload) /\ Enqueues(payload)
  BY <1>2, <1>3, <1>4, <1>5, <1>6, SessionsAreFree DEF MayBeQueued, Enqueues
<1>8. QED BY <1>2, <1>3, <1>6, <1>7


LEMMA QueueStaysApart ==
  ASSUME TypeOK, Served, HandlersMove,
         \/ UNCHANGED <<queued, updates, nextPhoneSession>>
         \/ \E h \in handlers : \E payload :
              /\ payload.kind \in ReplyFrames /\ payload.id = h.session
              /\ MayBeQueued(payload) /\ Enqueues(payload)
              /\ handlers' = handlers \ {h} /\ accepted' = accepted
              /\ UNCHANGED <<updates, nextPhoneSession>>
         \/ \E payload :
              /\ payload.kind \in UpdateFrames /\ payload.id = updates'
              /\ MayBeQueued(payload) /\ Enqueues(payload)
              /\ UNCHANGED <<handlers, accepted>>
              /\ updates' = updates + 1 /\ nextPhoneSession' = PhoneSessionBase + updates'
  PROVE  QueueIsApart'
<1>0. queued \in Seq(Payload) /\ updates \in Nat
  BY PhoneTypes
<1>1. /\ \A s : IsAccepted(s) => IsAccepted(s)'
      /\ \A s : IsAccepted(s) /\ (\A h \in handlers : h.session # s)
                  => \A h \in handlers' : h.session # s
  BY HandlersStayApart DEF Served
<1>2. CASE UNCHANGED <<queued, updates, nextPhoneSession>>
  BY <1>1, <1>2 DEF Served, QueueIsApart
<1>3. ASSUME NEW payload, MayBeQueued(payload), Enqueues(payload),
             updates <= updates', updates' \in Nat,
             \/ payload.kind \in UpdateFrames /\ payload.id \in 1..updates'
             \/ /\ payload.kind \in ReplyFrames /\ IsAccepted(payload.id)'
                /\ \A h \in handlers' : h.session # payload.id,
             nextPhoneSession' = PhoneSessionBase + updates'
      PROVE  QueueIsApart'
  <2>1. /\ DOMAIN queued' = DOMAIN queued \cup {Len(queued) + 1}
        /\ Len(queued) + 1 \notin DOMAIN queued
        /\ \A k \in DOMAIN queued : queued'[k] = queued[k]
        /\ queued'[Len(queued) + 1] = payload
    BY <1>0, <1>3 DEF Enqueues, MayBeQueued
  <2>2. \A k \in DOMAIN queued :
          /\ queued[k].len = ReplyLen
          /\ \/ queued[k].kind \in UpdateFrames /\ queued[k].id \in 1..updates'
             \/ /\ queued[k].kind \in ReplyFrames
                /\ \E i \in DOMAIN accepted' : accepted'[i].session = queued[k].id
                /\ \A h \in handlers' : h.session # queued[k].id
    <3>1. ASSUME NEW i \in 1..updates PROVE i \in 1..updates'
      BY <1>0, <1>3, <3>1
    <3>2. ASSUME NEW k \in DOMAIN queued,
                 queued[k].kind \in ReplyFrames, IsAccepted(queued[k].id),
                 \A h \in handlers : h.session # queued[k].id
          PROVE  /\ \E i \in DOMAIN accepted' : accepted'[i].session = queued[k].id
                 /\ \A h \in handlers' : h.session # queued[k].id
      <4> DEFINE s == queued[k].id
      <4>1. IsAccepted(s) /\ \A h \in handlers : h.session # s
        BY <3>2
      <4>2. \A r : IsAccepted(r) /\ (\A h \in handlers : h.session # r)
                     => \A h \in handlers' : h.session # r
        BY <1>1
      <4>3. \A h \in handlers' : h.session # s
        BY <4>1, <4>2
      <4>4. \A r : IsAccepted(r) => \E i \in DOMAIN accepted' : accepted'[i].session = r
        BY <1>1 DEF IsAccepted
      <4>5. \E i \in DOMAIN accepted' : accepted'[i].session = s
        BY <4>1, <4>4
      <4>6. QED BY <4>3, <4>5
    <3>3. QED BY <3>1, <3>2 DEF Served, QueueIsApart
  <2>3. \A j, k \in DOMAIN queued' :
          SessionOf(queued'[j]) = SessionOf(queued'[k]) => j = k
    BY <1>3, <2>1 DEF MayBeQueued, Served, QueueIsApart
  <2>4. QED BY <1>3, <2>1, <2>2, <2>3 DEF QueueIsApart, MayBeQueued, IsAccepted
<1>4. ASSUME NEW payload, NEW h \in handlers,
             payload.kind \in ReplyFrames, payload.id = h.session,
             MayBeQueued(payload), Enqueues(payload),
             handlers' = handlers \ {h}, accepted' = accepted,
             UNCHANGED <<updates, nextPhoneSession>>
      PROVE  QueueIsApart'
  <2>1. IsAccepted(payload.id)' /\ \A g \in handlers' : g.session # payload.id
    BY <1>1, <1>4 DEF Served, HandlersAreApart
  <2>2. nextPhoneSession' = PhoneSessionBase + updates'
    BY <1>4 DEF Served, QueueIsApart
  <2>3. updates <= updates' /\ updates' \in Nat
    BY <1>0, <1>4
  <2>4. QED BY <1>3, <1>4, <2>1, <2>2, <2>3
<1>5. ASSUME NEW payload,
             payload.kind \in UpdateFrames, payload.id = updates',
             MayBeQueued(payload), Enqueues(payload),
             updates' = updates + 1, nextPhoneSession' = PhoneSessionBase + updates'
      PROVE  QueueIsApart'
  <2>1. payload.id \in 1..updates' /\ updates <= updates' /\ updates' \in Nat
    BY <1>0, <1>5
  <2>2. QED BY <1>3, <1>5, <2>1
<1>6. QED BY <1>2, <1>4, <1>5

(* What a step does to the phone's queue, and that its parts stay apart    *)
LEMMA ServedKeeps ==
  ASSUME SessionsSuffice, Known, SessionsAreIds, Served, Lasts
  PROVE  Served' /\ QueueMoves
<1>0. TypeOK /\ HandlersMove
  BY HandlersKeep DEF Known, Served
<1>1. ASSUME NEW h \in handlers, NEW kind \in ReplyKinds, RelayReplies(h, kind)
      PROVE  QueueMoves /\ QueueIsApart'
  <2>1. /\ handlers' = handlers \ {h} /\ accepted' = accepted
        /\ UNCHANGED <<updates, nextPhoneSession, position>>
    BY <1>1, ReplyIsQueued
  <2>2. CASE UNCHANGED <<sendChain, queued>>
    BY <1>0, <2>1, <2>2, QueueStaysApart DEF QueueMoves
  <2>3. ASSUME NEW payload, payload.kind \in ReplyFrames, payload.id = h.session,
               MayBeQueued(payload), Enqueues(payload)
        PROVE  QueueMoves /\ QueueIsApart'
    <3>1. QueueMoves
      BY <2>3 DEF QueueMoves, MayBeQueued
    <3>2. QueueIsApart'
      BY <1>0, <2>1, <2>3, QueueStaysApart
    <3>3. QED BY <3>1, <3>2
  <2>4. QED BY <1>1, <2>2, <2>3, ReplyIsQueued
<1>2. ASSUME NEW kind \in UpdateKinds, SendAsyncUpdate(kind)
      PROVE  QueueMoves /\ QueueIsApart'
  <2>1. PICK payload : /\ payload.kind \in UpdateFrames /\ payload.id = updates'
                       /\ MayBeQueued(payload) /\ Enqueues(payload)
    BY <1>2, UpdateIsQueued
  <2>2. /\ UNCHANGED <<handlers, accepted>>
        /\ updates' = updates + 1 /\ nextPhoneSession' = PhoneSessionBase + updates'
    BY <1>2, UpdateIsQueued
  <2>3. QueueMoves
    BY <2>1 DEF QueueMoves, MayBeQueued
  <2>4. QueueIsApart'
    BY <1>0, <2>1, <2>2, QueueStaysApart
  <2>5. QED BY <2>3, <2>4
<1>3. ASSUME \A h \in handlers, kind \in ReplyKinds : ~RelayReplies(h, kind),
             \A kind \in UpdateKinds : ~SendAsyncUpdate(kind)
      PROVE  QueueMoves /\ QueueIsApart'
  <2>1. UNCHANGED <<queued, updates, nextPhoneSession>> /\ QueueMoves
    <3>1. CASE Bridge \/ Irq \/ UNCHANGED vars
      <4>1. UNCHANGED phoneVars
        BY <3>1 DEF Lasts, Irq, vars, Bridge, TransportReady, Pump, NotifyWaiting, NotifyFails,
           AckTimeout, SendRequest, NewRequest, ResponseTimeout, NothingCompleted,
           TakeCatalog, TakeAnswer
      <4>2. QED BY <4>1 DEF phoneVars, QueueMoves
    <3>2. CASE Phone
      <4>1. UNCHANGED <<queued, updates, nextPhoneSession>>
        BY <1>3, <3>2 DEF Phone, Connect, Discover, Subscribe, Disconnect,
           ReceiveNotification, MissNotification, CallRelay, WriteFirst, WriteAgain,
           WriteGivesUp, WriteFails, phoneVars
      <4>2. CASE Disconnect
        <5>1. sendChain = <<>> => position = 0
          BY <1>0, ServiceAssumption DEF TypeOK, PhoneTypeOK
        <5>2. QED BY <4>1, <4>2, <5>1 DEF Disconnect, QueueMoves, Cut
      <4>3. CASE ReceiveNotification
        <5>1. CASE UNCHANGED <<sendChain, position>>
          BY <4>1, <5>1 DEF QueueMoves
        <5>2. CASE ~UNCHANGED <<sendChain, position>>
          <6>1. OnPicoAck(Head(notifications)) /\ attempt > 0
            BY <4>3, <5>2 DEF ReceiveNotification, OnPicoAck, OnRequestChunk,
               OnRequestEnd, OnUndecodable
          <6>2. sendChain # <<>> /\ Head(sendChain).payload.len = ReplyLen
            <7>1. sendChain # <<>> /\ sendChain \in Seq(Outgoing)
              BY <1>0, <6>1 DEF TypeOK, PhoneTypeOK
            <7>2. Head(sendChain) \in Outgoing
              BY <7>1
            <7>3. QED BY <7>1, <7>2 DEF Outgoing
          <6>3. \/ position = ReplyLen /\ sendChain' = Tail(sendChain) /\ position' = 0
                \/ position # ReplyLen /\ position' = position + 1 /\ sendChain' = sendChain
            BY <5>2, <6>1, <6>2 DEF OnPicoAck, NextInChain
          <6>4. position # ReplyLen => position < ReplyLen
            BY <1>0, PhoneTypes
          <6>5. QED BY <4>1, <6>2, <6>3, <6>4 DEF QueueMoves, Cut, Advances
        <5>3. QED BY <5>1, <5>2
      <4>4. CASE WriteGivesUp \/ WriteFails
        BY <4>1, <4>4 DEF WriteGivesUp, WriteFails, NextInChain, QueueMoves, Cut
      <4>5. CASE ~Disconnect /\ ~ReceiveNotification /\ ~WriteGivesUp /\ ~WriteFails
        <5>1. UNCHANGED <<sendChain, position>>
          BY <1>3, <3>2, <4>5 DEF Phone, Connect, Discover, Subscribe, MissNotification,
             CallRelay, WriteFirst, WriteAgain, phoneVars
        <5>2. QED BY <4>1, <5>1 DEF QueueMoves
      <4>6. QED BY <4>1, <4>2, <4>3, <4>4, <4>5
    <3>3. QED BY <3>1, <3>2 DEF Lasts, Next
  <2>2. QED BY <1>0, <2>1, QueueStaysApart
<1>4. QueueMoves /\ QueueIsApart'
  BY <1>1, <1>2, <1>3
<1>5. QED BY <1>0, <1>4, HandlersStayApart, QueueGrows DEF Served


(***************************************************************************)
(* Steps that bring no reply and take none                                 *)
(***************************************************************************)
LEMMA PacketFields ==
  ASSUME TypeOK, Served, NEW k \in DOMAIN queued, NEW n \in 0..ReplyLen
  PROVE  /\ PacketOf(k, n).session_id = SessionOf(queued[k])
         /\ PacketOf(k, n).sequence = n
         /\ PacketOf(k, n).total_length = ReplyLen
         /\ n < ReplyLen => /\ PacketOf(k, n).type = "RESPONSE_CHUNK"
                            /\ PacketOf(k, n).chunk = [of |-> queued[k], at |-> n]
         /\ n = ReplyLen => PacketOf(k, n).type = "RESPONSE_END"
<1>1. queued[k].len = ReplyLen /\ ReplyLen \in Nat
  BY PhoneTypes DEF Served, QueueIsApart
<1>2. n + 1 \in 1..(ReplyLen + 1) /\ (n + 1) - 1 = n
  BY <1>1
<1>3. PacketOf(k, n) = IF n + 1 <= ReplyLen
                       THEN Encode("RESPONSE_CHUNK", SessionOf(queued[k]), n, ReplyLen,
                                   [of |-> queued[k], at |-> n])
                       ELSE Encode("RESPONSE_END", SessionOf(queued[k]), ReplyLen, ReplyLen,
                                   NoChunk)
  BY <1>1, <1>2 DEF PacketOf, ResponsePackets, Packets
<1>4. (n < ReplyLen <=> n + 1 <= ReplyLen) /\ (n < ReplyLen \/ n = ReplyLen)
  BY <1>1
<1>5. QED BY <1>3, <1>4 DEF Encode

LEMMA MessagesDiffer ==
  ASSUME NEW a, NEW b, a.len = ReplyLen, b.len = ReplyLen, Message(a) = Message(b)
  PROVE  a = b
<1>1. 1 \in 1..ReplyLen
  BY ServiceAssumption, MaxLenAssumption
<1>2. Message(a)[1] = [of |-> a, at |-> 0] /\ Message(b)[1] = [of |-> b, at |-> 0]
  BY <1>1 DEF Message
<1>3. QED BY <1>2

LEMMA Growth ==
  ASSUME TypeOK, TypeOK', Served, Served', QueueMoves
  PROVE  /\ \A k \in DOMAIN queued : k \in DOMAIN queued' /\ queued'[k] = queued[k]
         /\ \A k \in DOMAIN queued, l \in DOMAIN queued' :
              SessionOf(queued'[l]) = SessionOf(queued[k]) => l = k
         /\ \A k \in DOMAIN queued, l \in DOMAIN queued' :
              Message(queued'[l]) = Message(queued[k]) => l = k
         /\ \A k \in DOMAIN queued, n \in Nat : Reached(k, n) => Reached(k, n)'
         /\ \A k \in DOMAIN queued, n \in Nat :
              Reached(k, n) /\ k = Done' + 1 => Done' = Done
<1>1. /\ \A k \in DOMAIN queued : k \in DOMAIN queued' /\ queued'[k] = queued[k]
      /\ Done \in Nat /\ Done' \in Nat /\ Done <= Done'
      /\ Done' = Done => position <= position'
  BY QueueGrows, ChainFacts DEF Served
<1>2. \A k, l \in DOMAIN queued' : SessionOf(queued'[l]) = SessionOf(queued'[k]) => l = k
  BY DEF Served, QueueIsApart
<1>3. \A k \in DOMAIN queued, l \in DOMAIN queued' :
        SessionOf(queued'[l]) = SessionOf(queued[k]) => l = k
  BY <1>1, <1>2
<1>4. ASSUME NEW k \in DOMAIN queued, NEW l \in DOMAIN queued',
             Message(queued'[l]) = Message(queued[k])
      PROVE  l = k
  <2>1. queued[k].len = ReplyLen /\ queued'[l].len = ReplyLen
    BY DEF Served, QueueIsApart
  <2>2. queued'[l] = queued[k]
    BY <1>4, <2>1, MessagesDiffer
  <2>3. QED BY <1>3, <2>2
<1>5. position \in Nat /\ position' \in Nat /\ queued \in Seq(Payload)
  BY DEF TypeOK, PhoneTypeOK
<1>6. ASSUME NEW k \in DOMAIN queued, NEW n \in Nat, Reached(k, n)
      PROVE  Reached(k, n)' /\ (k = Done' + 1 => Done' = Done)
  <2>1. k \in Nat
    BY <1>5
  <2>2. QED BY <1>1, <1>5, <1>6, <2>1 DEF Reached
<1>7. QED BY <1>1, <1>3, <1>4, <1>6

(* Of the responses under way the first d are gone, and none is new.       *)
LessIsWritten ==
  \E d \in Nat : \A j \in DOMAIN writes' : IsResponse(writes'[j]) =>
    j + d \in DOMAIN writes /\ writes'[j] = writes[j + d]

LEMMA LessIsUnderWay ==
  ASSUME LessIsWritten PROVE Responses' \subseteq Responses
<1>1. ASSUME NEW p \in Responses' PROVE p \in Responses
  <2>1. PICK j \in DOMAIN writes' : p = writes'[j] /\ IsResponse(writes'[j])
    BY DEF Responses, PacketsOf
  <2>2. \E i \in DOMAIN writes : writes'[j] = writes[i]
    BY <2>1 DEF LessIsWritten
  <2>3. QED BY <2>1, <2>2 DEF Responses, PacketsOf
<1>2. QED BY <1>1

LEMMA WritesStay ==
  ASSUME TypeOK, TypeOK', Served, Served', QueueMoves, Arriving, LessIsWritten
  PROVE  /\ WritesAreGenuine' /\ WritesAreInOrder'
         /\ \A p \in Responses', l \in DOMAIN queued' :
              IsOf(p, l)' => p \in Responses /\ l \in DOMAIN queued /\ IsOf(p, l)
<1>1. Responses' \subseteq Responses
  BY LessIsUnderWay
<1>2. ASSUME NEW p \in Responses
      PROVE  \E k \in DOMAIN queued :
               /\ p = PacketOf(k, p.sequence) /\ p.sequence <= ReplyLen
               /\ Reached(k, p.sequence) /\ IsOf(p, k)
               /\ p.sequence \in 0..ReplyLen /\ p.sequence \in Nat
  <2>1. PICK k \in DOMAIN queued : /\ p = PacketOf(k, p.sequence) /\ p.sequence <= ReplyLen
                                   /\ Reached(k, p.sequence)
    BY DEF Arriving, WritesAreGenuine
  <2>2. p \in Packet
    BY QueueTypes DEF Responses, PacketsOf
  <2>3. p.sequence \in 0..ReplyLen /\ p.sequence \in Nat
    BY <2>1, <2>2, PhoneTypes DEF Packet, Envelope
  <2>4. IsOf(p, k)
    <3>1. PacketOf(k, p.sequence).session_id = SessionOf(queued[k])
      BY <2>3, PacketFields
    <3>2. QED BY <2>1, <3>1, Zenon DEF IsOf
  <2>5. QED BY <2>1, <2>3, <2>4
<1>3. WritesAreGenuine'
  <2>1. ASSUME NEW p \in Responses'
        PROVE  \E k \in DOMAIN queued' :
                 /\ p = PacketOf(k, p.sequence)' /\ p.sequence <= ReplyLen
                 /\ Reached(k, p.sequence)'
    <3>1. PICK k \in DOMAIN queued : /\ p = PacketOf(k, p.sequence) /\ p.sequence <= ReplyLen
                                     /\ Reached(k, p.sequence) /\ p.sequence \in Nat
      BY <1>1, <1>2
    <3>2. k \in DOMAIN queued' /\ queued'[k] = queued[k] /\ Reached(k, p.sequence)'
      BY <3>1, Growth
    <3>3. PacketOf(k, p.sequence)' = PacketOf(k, p.sequence)
      BY <3>2 DEF PacketOf
    <3>4. QED BY <3>1, <3>2, <3>3
  <2>2. QED BY <2>1 DEF WritesAreGenuine
<1>4. ASSUME NEW p \in Responses', NEW l \in DOMAIN queued', IsOf(p, l)'
      PROVE  p \in Responses /\ l \in DOMAIN queued /\ IsOf(p, l)
  <2>1. PICK k \in DOMAIN queued : IsOf(p, k)
    BY <1>1, <1>2
  <2>2. l = k
    BY <1>4, <2>1, Growth DEF IsOf
  <2>3. QED BY <1>1, <2>1, <2>2
<1>5. WritesAreInOrder'
  <2>1. PICK d \in Nat : \A j \in DOMAIN writes' : IsResponse(writes'[j]) =>
                           j + d \in DOMAIN writes /\ writes'[j] = writes[j + d]
    BY DEF LessIsWritten
  <2>2. ASSUME NEW i \in DOMAIN writes', NEW j \in DOMAIN writes', i < j,
               IsResponse(writes'[i]), IsResponse(writes'[j]),
               NEW k \in DOMAIN queued', NEW l \in DOMAIN queued',
               writes'[i].session_id = SessionOf(queued'[k]),
               writes'[j].session_id = SessionOf(queued'[l])
        PROVE  k < l \/ (k = l /\ writes'[i].sequence <= writes'[j].sequence)
    <3>1. /\ i + d \in DOMAIN writes /\ writes'[i] = writes[i + d]
          /\ j + d \in DOMAIN writes /\ writes'[j] = writes[j + d]
      BY <2>1, <2>2
    <3>2. writes'[i] \in Responses' /\ writes'[j] \in Responses'
      BY <2>2 DEF Responses, PacketsOf
    <3>3. /\ k \in DOMAIN queued /\ writes'[i].session_id = SessionOf(queued[k])
          /\ l \in DOMAIN queued /\ writes'[j].session_id = SessionOf(queued[l])
      BY <1>4, <2>2, <3>2 DEF IsOf
    <3>4. i + d < j + d
      <4>1. i \in Nat /\ j \in Nat
        BY DEF TypeOK, ChannelTypeOK
      <4>2. QED BY <2>2, <4>1
    <3>5. QED BY <2>2, <3>1, <3>3, <3>4 DEF Arriving, WritesAreInOrder, IsOf
  <2>3. QED BY <2>2 DEF WritesAreInOrder, IsOf
<1>6. QED BY <1>3, <1>4, <1>5


(* What was collected, completed and acknowledged stays so.                *)
LEMMA ArrivingStays ==
  ASSUME TypeOK, TypeOK', Served, Served', QueueMoves, Arriving, LessIsWritten,
         UNCHANGED <<incoming, received, lost>>, PicoAcks' \subseteq PicoAcks,
         Advances => Got(Done + 1, position)
  PROVE  Arriving'
<1>0. /\ \A k \in DOMAIN queued : k \in DOMAIN queued' /\ queued'[k] = queued[k]
      /\ \A k \in DOMAIN queued, l \in DOMAIN queued' :
           SessionOf(queued'[l]) = SessionOf(queued[k]) => l = k
      /\ \A k \in DOMAIN queued, l \in DOMAIN queued' :
           Message(queued'[l]) = Message(queued[k]) => l = k
      /\ \A k \in DOMAIN queued, n \in Nat : Reached(k, n) => Reached(k, n)'
      /\ \A k \in DOMAIN queued, n \in Nat : Reached(k, n) /\ k = Done' + 1 => Done' = Done
  BY Growth
<1>1. /\ WritesAreGenuine' /\ WritesAreInOrder'
      /\ \A p \in Responses', l \in DOMAIN queued' :
           IsOf(p, l)' => p \in Responses /\ l \in DOMAIN queued /\ IsOf(p, l)
  BY WritesStay
<1>2. ReplyLen \in Nat /\ 0 \in Nat
  BY PhoneTypes
<1>3. ASSUME incoming # EmptyAssembler
      PROVE  \E k \in DOMAIN queued : IsOf(incoming, k)
  BY <1>3 DEF Arriving, Collecting
<1>4. \A l \in DOMAIN queued' :
        incoming # EmptyAssembler /\ incoming.session_id = SessionOf(queued'[l])
          => l \in DOMAIN queued /\ IsOf(incoming, l)
  BY <1>0, <1>3 DEF IsOf
<1>5. Collecting'
  <2>1. SUFFICES ASSUME incoming # EmptyAssembler
                 PROVE  \E k \in DOMAIN queued' :
                   /\ incoming.session_id = SessionOf(queued'[k])
                   /\ incoming.total_length = ReplyLen
                   /\ \A n \in 0..MaxLen : incoming.chunks[n] \in {NoChunk, [of |-> queued'[k], at |-> n]}
                   /\ Reached(k, 0)'
                   /\ \A p \in Responses', l \in DOMAIN queued' : IsOf(p, l)' => k <= l
    BY DEF Collecting, IsOf
  <2>2. PICK k \in DOMAIN queued :
          /\ IsOf(incoming, k) /\ incoming.total_length = ReplyLen
          /\ \A n \in 0..MaxLen : incoming.chunks[n] \in {NoChunk, [of |-> queued[k], at |-> n]}
          /\ Reached(k, 0)
          /\ \A p \in Responses, l \in DOMAIN queued : IsOf(p, l) => k <= l
    BY <2>1 DEF Arriving, Collecting
  <2>3. k \in DOMAIN queued' /\ queued'[k] = queued[k] /\ Reached(k, 0)'
    BY <1>0, <1>2, <2>2
  <2>4. QED BY <1>1, <2>2, <2>3 DEF IsOf
<1>6. ReceivedOnce'
  <2>4. incoming' = incoming /\ received' = received /\ Whole' = Whole
    BY DEF Whole
  <2>1. \A message \in Whole : \E k \in DOMAIN queued' : message = Message(queued'[k])
    BY <1>0 DEF Arriving, ReceivedOnce
  <2>2. ASSUME NEW k \in DOMAIN queued', Delivered(k)'
        PROVE  /\ Reached(k, ReplyLen)'
               /\ \A p \in Responses', l \in DOMAIN queued' :
                    p.type = "RESPONSE_CHUNK" /\ IsOf(p, l)' => k < l
               /\ \A l \in DOMAIN queued' :
                    incoming # EmptyAssembler /\ incoming.session_id = SessionOf(queued'[l])
                      => k < l
    <3>1. Message(queued'[k]) \in Whole
      BY <2>2, <2>4 DEF Delivered
    <3>2. PICK j \in DOMAIN queued : Message(queued'[k]) = Message(queued[j])
      BY <3>1 DEF Arriving, ReceivedOnce
    <3>3. k \in DOMAIN queued /\ Delivered(k)
      BY <1>0, <3>1, <3>2 DEF Delivered
    <3>4. /\ Reached(k, ReplyLen)
          /\ \A p \in Responses, l \in DOMAIN queued :
               p.type = "RESPONSE_CHUNK" /\ IsOf(p, l) => k < l
          /\ \A l \in DOMAIN queued : incoming # EmptyAssembler /\ IsOf(incoming, l) => k < l
      BY <3>3 DEF Arriving, ReceivedOnce
    <3>5. QED BY <1>0, <1>1, <1>2, <1>4, <3>3, <3>4
  <2>3. \A i, j \in DOMAIN received : received[i] = received[j] => i = j
    BY DEF Arriving, ReceivedOnce
  <2>5. QED BY <2>1, <2>2, <2>3, <2>4 DEF ReceivedOnce, IsOf
<1>7. \A k \in DOMAIN queued : \A n : Got(k, n) => Got(k, n)'
  BY <1>0 DEF Got, Delivered, Whole, IsOf
<1>8. AcksAreTrue'
  <2>1. ASSUME NEW p \in PicoAcks'
        PROVE  \E k \in DOMAIN queued' :
                 /\ IsOf(p, k)' /\ Reached(k, p.sequence)'
                 /\ (k = Done' + 1 => Got(k, p.sequence)')
    <3>1. PICK k \in DOMAIN queued : /\ IsOf(p, k) /\ Reached(k, p.sequence)
                                     /\ (k = Done + 1 => Got(k, p.sequence))
      BY DEF Arriving, AcksAreTrue
    <3>2. p.sequence \in Nat
      <4>1. p \in Packet
        BY QueueTypes DEF PicoAcks, PacketsOf
      <4>2. QED BY <4>1, MaxLenAssumption DEF Packet, Envelope
    <3>3. k \in DOMAIN queued' /\ IsOf(p, k)' /\ Reached(k, p.sequence)'
      BY <1>0, <3>1, <3>2 DEF IsOf
    <3>4. k = Done' + 1 => Got(k, p.sequence)'
      BY <1>0, <1>7, <3>1, <3>2
    <3>5. QED BY <3>3, <3>4
  <2>2. ASSUME NEW n \in 0..(position' - 1), sendChain' # <<>>
        PROVE  Done' = Done /\ Got(Done + 1, n)'
    <3>0. /\ position \in Nat /\ Done \in Nat
          /\ sendChain = <<>> => position = 0
          /\ sendChain # <<>> => Done + 1 \in DOMAIN queued
      BY ChainFacts, PhoneTypes DEF Served
    <3>1. ~Cut
      BY <2>2 DEF Cut
    <3>2. ASSUME NEW payload \in Payload, Enqueues(payload)
          PROVE  Done' = Done /\ position' = position
      BY <3>2, PhoneTypes DEF Enqueues, Done
    <3>3. Done' = Done /\ (position' = position \/ Advances)
      BY <3>1, <3>2 DEF QueueMoves, Advances, Done
    <3>4. sendChain # <<>>
      BY <2>2, <3>0, <3>3 DEF Advances
    <3>5. n \in 0..(position - 1) \/ (Advances /\ n = position)
      BY <2>2, <3>0, <3>3 DEF Advances
    <3>6. Got(Done + 1, n)
      BY <3>4, <3>5 DEF Arriving, AcksAreTrue
    <3>7. QED
      <4> DEFINE k == Done + 1
      <4>1. k \in DOMAIN queued /\ Got(k, n)
        BY <3>0, <3>4, <3>6
      <4>2. k' = k
        BY <3>3
      <4> HIDE DEF k
      <4>3. Got(k, n)'
        BY <1>0, <4>1, <4>2 DEF Got, Delivered, Whole, IsOf
      <4>4. QED BY <3>3, <4>3 DEF k
  <2>3. QED BY <2>1, <2>2 DEF AcksAreTrue
<1>9. QED BY <1>1, <1>5, <1>6, <1>8 DEF Arriving


(***************************************************************************)
(* The phone writes the packet it has come to                              *)
(***************************************************************************)
LEMMA ResponseFacts ==
  ASSUME TypeOK, Served, Arriving, NEW p \in Responses
  PROVE  /\ p \in Packet /\ p.sequence \in 0..ReplyLen
         /\ \E k \in DOMAIN queued :
              /\ IsOf(p, k) /\ Reached(k, p.sequence) /\ p.total_length = ReplyLen
              /\ IF p.sequence < ReplyLen
                 THEN p.type = "RESPONSE_CHUNK" /\ p.chunk = [of |-> queued[k], at |-> p.sequence]
                 ELSE p.type = "RESPONSE_END" /\ p.sequence = ReplyLen
<1>1. PICK k \in DOMAIN queued : /\ p = PacketOf(k, p.sequence) /\ p.sequence <= ReplyLen
                                 /\ Reached(k, p.sequence)
  BY DEF Arriving, WritesAreGenuine
<1>2. p \in Packet
  BY QueueTypes DEF Responses, PacketsOf
<1>3. p.sequence \in 0..ReplyLen /\ ReplyLen \in Nat
  BY <1>1, <1>2, PhoneTypes DEF Packet, Envelope
<1> DEFINE n == p.sequence
           packet == PacketOf(k, n)
<1>4. /\ packet.session_id = SessionOf(queued[k]) /\ packet.total_length = ReplyLen
      /\ n < ReplyLen => /\ packet.type = "RESPONSE_CHUNK"
                         /\ packet.chunk = [of |-> queued[k], at |-> n]
      /\ n = ReplyLen => packet.type = "RESPONSE_END"
  BY <1>3, PacketFields
<1>5. p = packet /\ (n < ReplyLen \/ n = ReplyLen)
  BY <1>1, <1>3
<1> HIDE DEF packet
<1>6. IsOf(p, k)
  BY <1>4, <1>5, Zenon DEF IsOf
<1>7. CASE n < ReplyLen
  BY <1>1, <1>2, <1>3, <1>4, <1>5, <1>6, <1>7
<1>8. CASE n = ReplyLen
  BY <1>1, <1>2, <1>3, <1>4, <1>5, <1>6, <1>8
<1>9. QED BY <1>5, <1>7, <1>8

LEMMA SessionsApart ==
  ASSUME Served, NEW p, NEW k \in DOMAIN queued, NEW l \in DOMAIN queued, IsOf(p, k), IsOf(p, l)
  PROVE  k = l
BY DEF Served, QueueIsApart, IsOf

LEMMA CurrentIsNext ==
  ASSUME TypeOK, Served, sendChain # <<>>
  PROVE  /\ CurrentPacket = PacketOf(Done + 1, position) /\ Done + 1 \in DOMAIN queued
         /\ CurrentPacket.session_id = SessionOf(queued[Done + 1])
         /\ CurrentPacket.sequence = position
         /\ position < ReplyLen \/ CurrentPacket.type = "RESPONSE_END"
         /\ IsResponse(CurrentPacket)
<1> DEFINE k == Done + 1
<1>0. Head(sendChain) = [session |-> SessionOf(queued[k]), payload |-> queued[k]]
  BY ChainFacts DEF Served
<1>1. k \in DOMAIN queued /\ position \in 0..ReplyLen /\ ReplyLen \in Nat
  BY ChainFacts, PhoneTypes DEF Served
<1> HIDE DEF k
<1>2. CurrentPacket = PacketOf(k, position)
  BY <1>0 DEF CurrentPacket, PacketOf
<1>3. position < ReplyLen \/ position = ReplyLen
  BY <1>1
<1>4. /\ CurrentPacket.session_id = SessionOf(queued[k]) /\ CurrentPacket.sequence = position
      /\ position < ReplyLen => CurrentPacket.type = "RESPONSE_CHUNK"
      /\ position = ReplyLen => CurrentPacket.type = "RESPONSE_END"
  <2>1. ASSUME NEW n \in 0..ReplyLen
        PROVE  /\ PacketOf(k, n).session_id = SessionOf(queued[k])
               /\ PacketOf(k, n).sequence = n
               /\ n < ReplyLen => PacketOf(k, n).type = "RESPONSE_CHUNK"
               /\ n = ReplyLen => PacketOf(k, n).type = "RESPONSE_END"
    <3>1. k \in DOMAIN queued
      BY <1>1
    <3>2. QED BY ZenonT(40), <3>1, PacketFields
  <2>2. QED BY <1>1, <1>2, <2>1
<1>5. IsResponse(CurrentPacket)
  BY <1>3, <1>4 DEF IsResponse
<1>6. position < ReplyLen \/ CurrentPacket.type = "RESPONSE_END"
  BY <1>3, <1>4
<1>7. QED BY <1>1, <1>2, <1>4, <1>5, <1>6 DEF k

LEMMA ElementsOfQueue ==
  ASSUME NEW q \in Seq(Packet)
  PROVE  \A p \in PacketsOf(q) : p \in Packet
BY DEF PacketsOf

LEMMA AcksHavePlaces ==
  ASSUME TypeOK
  PROVE  \A p \in PicoAcks : p \in Packet /\ p.sequence \in 0..MaxLen
<1>1. \A p \in PacketsOf(notifications) : p \in Packet
  BY ElementsOfQueue, QueueTypes
<1>2. \A p \in Packet : p.sequence \in 0..MaxLen
  BY DEF Packet, Envelope
<1>3. QED BY <1>1, <1>2 DEF PicoAcks

LEMMA ArrivingWrite ==
  ASSUME TypeOK, Served, Arriving, sendChain # <<>>, Write(CurrentPacket),
         UNCHANGED <<notifications, incoming, received, lost, sendChain, queued, position>>
  PROVE  Arriving'
<1> DEFINE packet == CurrentPacket
           next == Done + 1
<1>1. /\ packet = PacketOf(next, position) /\ next \in DOMAIN queued
      /\ packet.session_id = SessionOf(queued[next]) /\ packet.sequence = position
      /\ position < ReplyLen \/ packet.type = "RESPONSE_END"
      /\ IsResponse(packet)
  BY CurrentIsNext
<1>2. /\ writes' = Append(writes, packet) /\ writes \in Seq(Packet) /\ packet \in Packet
      /\ notifications' = notifications
  BY QueueTypes, CurrentPacketType DEF Write
<1>3. /\ Done' = Done /\ position' = position /\ queued' = queued /\ sendChain' = sendChain
      /\ incoming' = incoming /\ received' = received /\ Whole' = Whole
  BY DEF Done, Whole
<1>4. /\ Done \in Nat /\ position \in 0..ReplyLen /\ ReplyLen \in Nat /\ queued \in Seq(Payload)
  BY ChainFacts, PhoneTypes DEF Served
<1> HIDE DEF packet
<1>5. Responses' = Responses \cup {packet}
  BY <1>1, <1>2, PacketsOfQueue DEF Responses
<1>6. \A k \in DOMAIN queued : IsOf(packet, k) => k = next
  <2>1. IsOf(packet, next)
    BY <1>1 DEF IsOf
  <2>2. QED BY <1>1, <2>1, SessionsApart
<1>7. WritesAreGenuine'
  <2>1. packet.sequence <= ReplyLen /\ Reached(next, packet.sequence)
    BY <1>1, <1>4 DEF Reached
  <2>2. packet = PacketOf(next, packet.sequence)
    BY <1>1
  <2>3. QED BY <1>1, <1>3, <1>5, <2>1, <2>2 DEF Arriving, WritesAreGenuine, Reached, PacketOf
<1>8. WritesAreInOrder'
  <2>1. ASSUME NEW i \in DOMAIN writes', NEW j \in DOMAIN writes', i < j,
               IsResponse(writes'[i]), IsResponse(writes'[j]),
               NEW k \in DOMAIN queued, NEW l \in DOMAIN queued,
               IsOf(writes'[i], k), writes'[j].session_id = SessionOf(queued[l]),
               writes'[i].session_id = SessionOf(queued[k])
        PROVE  k < l \/ (k = l /\ writes'[i].sequence <= writes'[j].sequence)
    <3>1. i \in DOMAIN writes /\ writes'[i] = writes[i]
      BY <1>2, <2>1
    <3>2. CASE j \in DOMAIN writes
      <4>1. writes'[j] = writes[j]
        BY <1>2, <3>2
      <4>2. QED BY <2>1, <3>1, <3>2, <4>1 DEF Arriving, WritesAreInOrder, IsOf
    <3>3. CASE j \notin DOMAIN writes
      <4>1. writes'[j] = packet
        BY <1>2, <2>1, <3>3
      <4>2. l = next
        BY <1>6, <2>1, <4>1 DEF IsOf
      <4>3. writes[i] \in Responses
        BY <2>1, <3>1 DEF Responses, PacketsOf
      <4>4. Reached(k, writes[i].sequence)
        <5>1. PICK m \in DOMAIN queued : IsOf(writes[i], m) /\ Reached(m, writes[i].sequence)
          BY <4>3, ResponseFacts
        <5>2. m = k
          BY <2>1, <3>1, <5>1, SessionsApart DEF IsOf
        <5>3. QED BY <5>1, <5>2
      <4>5. k \in Nat
        BY <1>4
      <4>6. QED BY <1>1, <1>4, <3>1, <4>1, <4>2, <4>4, <4>5 DEF Reached
    <3>4. QED BY <3>2, <3>3
  <2>2. QED BY <1>3, <2>1 DEF WritesAreInOrder, IsOf
<1>9. Collecting'
  <2>1. SUFFICES ASSUME incoming # EmptyAssembler PROVE Collecting'
    BY <1>3 DEF Collecting
  <2>2. PICK k \in DOMAIN queued :
          /\ IsOf(incoming, k) /\ incoming.total_length = ReplyLen
          /\ \A n \in 0..MaxLen : incoming.chunks[n] \in {NoChunk, [of |-> queued[k], at |-> n]}
          /\ Reached(k, 0)
          /\ \A p \in Responses, l \in DOMAIN queued : IsOf(p, l) => k <= l
    BY <2>1 DEF Arriving, Collecting
  <2>3. k <= next
    BY <1>4, <2>2 DEF Reached
  <2>4. \A p \in Responses', l \in DOMAIN queued : IsOf(p, l) => k <= l
    BY <1>5, <1>6, <2>2, <2>3
  <2>5. QED BY <1>3, <2>2, <2>4 DEF Collecting, IsOf, Reached
<1>10. ReceivedOnce'
  <2>1. ASSUME NEW k \in DOMAIN queued, Delivered(k), packet.type = "RESPONSE_CHUNK"
        PROVE  k < next
    <3>1. Reached(k, ReplyLen) /\ k \in Nat
      BY <1>4, <2>1 DEF Arriving, ReceivedOnce
    <3>2. position < ReplyLen
      BY <1>1, <2>1
    <3>3. QED BY <1>4, <3>1, <3>2 DEF Reached
  <2>2. \A k \in DOMAIN queued : Delivered(k) =>
          \A p \in Responses', l \in DOMAIN queued :
            p.type = "RESPONSE_CHUNK" /\ IsOf(p, l) => k < l
    BY <1>5, <1>6, <2>1 DEF Arriving, ReceivedOnce
  <2>3. QED BY <1>3, <2>2 DEF Arriving, ReceivedOnce, Delivered, IsOf, Reached
<1>11. AcksAreTrue'
  BY <1>2, <1>3 DEF Arriving, AcksAreTrue, PicoAcks, PacketsOf, IsOf, Reached, Got, Delivered
<1>12. QED BY <1>7, <1>8, <1>9, <1>10, <1>11 DEF Arriving


(***************************************************************************)
(* The Pico reads the next response packet                                 *)
(***************************************************************************)
LEMMA ReadingIsLess ==
  ASSUME TypeOK, writes # <<>>, writes' = Tail(writes) PROVE LessIsWritten
<1>1. \A j \in DOMAIN writes' : j + 1 \in DOMAIN writes /\ writes'[j] = writes[j + 1]
  BY QueueTypes
<1>2. 1 \in Nat
  OBVIOUS
<1>3. QED BY <1>1, <1>2 DEF LessIsWritten

LEMMA ReadingOrder ==
  ASSUME TypeOK, Served, Arriving, writes # <<>>, writes' = Tail(writes),
         IsResponse(Head(writes))
  PROVE  /\ Head(writes) \in Responses
         /\ \A q \in Responses', k, l \in DOMAIN queued : IsOf(Head(writes), k) /\ IsOf(q, l) =>
              k < l \/ (k = l /\ Head(writes).sequence <= q.sequence)
<1>1. 1 \in DOMAIN writes /\ Head(writes) = writes[1]
  BY QueueTypes
<1>2. ASSUME NEW q \in Responses'
      PROVE  \E j \in DOMAIN writes : 1 < j /\ q = writes[j] /\ IsResponse(writes[j])
  <2>1. PICK j \in DOMAIN writes' : q = writes'[j] /\ IsResponse(writes'[j])
    BY DEF Responses, PacketsOf
  <2>2. j + 1 \in DOMAIN writes /\ writes'[j] = writes[j + 1] /\ 1 < j + 1
    BY QueueTypes
  <2>3. QED BY <2>1, <2>2
<1>3. QED BY <1>1, <1>2 DEF Arriving, WritesAreInOrder, Responses, PacketsOf

(* A chunk: what was collected under its session is kept, and goes on.     *)
LEMMA ArrivingChunk ==
  ASSUME TypeOK, TypeOK', Served, Served', Arriving,
         \A k \in DOMAIN queued : SessionOf(queued[k]) # NoSession,
         writes # <<>>, writes' = Tail(writes), OnResponseChunk(Head(writes)),
         UNCHANGED <<sendChain, queued, position>>
  PROVE  Arriving'
<1> DEFINE p == Head(writes)
           n == p.sequence
<1>1. /\ LessIsWritten /\ QueueMoves
      /\ Done' = Done /\ position' = position /\ queued' = queued /\ sendChain' = sendChain
  BY ReadingIsLess DEF QueueMoves, Done
<1>2. /\ WritesAreGenuine' /\ WritesAreInOrder'
      /\ Responses' \subseteq Responses
  BY <1>1, WritesStay, LessIsUnderWay
<1>3. /\ p.type = "RESPONSE_CHUNK" /\ IsResponse(p)
      /\ incoming' = AssemblerAdd(incoming, p) /\ received' = received /\ Whole' = Whole
      /\ notifications' \in {notifications, Append(notifications, AckOf(p))}
  BY DEF OnResponseChunk, Notify, NotifyRaises, IsResponse, Whole
<1>4. /\ p \in Responses
      /\ \A q \in Responses', k, l \in DOMAIN queued :
           IsOf(p, k) /\ IsOf(q, l) => k < l \/ (k = l /\ n <= q.sequence)
  BY <1>3, ReadingOrder
<1> HIDE DEF p
<1>5. PICK k \in DOMAIN queued :
        /\ IsOf(p, k) /\ Reached(k, n) /\ p.total_length = ReplyLen
        /\ n < ReplyLen /\ n \in 0..ReplyLen /\ p \in Packet
        /\ p.chunk = [of |-> queued[k], at |-> n]
  BY <1>3, <1>4, ResponseFacts
<1>6. /\ Done \in Nat /\ ReplyLen \in 1..MaxLen /\ MaxLen \in Nat /\ k \in Nat
      /\ n \in 0..MaxLen /\ n \in Nat /\ position \in 0..ReplyLen /\ incoming \in Assembler
      /\ \A l \in DOMAIN queued : l \in Nat
  <2>1. ReplyLen \in 1..MaxLen /\ MaxLen \in Nat /\ queued \in Seq(Payload)
        /\ position \in 0..ReplyLen /\ Done \in Nat /\ incoming \in Assembler
    BY PhoneTypes, ChainFacts DEF Served, TypeOK, PicoTypeOK
  <2>2. QED BY <1>5, <2>1
<1>7. p.chunk # NoChunk
  <2>1. queued[k].kind # "none"
    BY DEF Served, QueueIsApart, UpdateFrames, ReplyFrames
  <2>2. p.chunk.of = queued[k] /\ NoChunk.of.kind = "none"
    BY <1>5 DEF NoChunk, NoPayload
  <2>3. QED BY <2>1, <2>2
<1> DEFINE kept == IF incoming.session_id \in {NoSession, p.session_id}
                   THEN incoming.chunks ELSE NoChunks
<1>8. incoming # EmptyAssembler =>
        \E j \in DOMAIN queued :
          /\ IsOf(incoming, j)
          /\ \A m \in 0..MaxLen : incoming.chunks[m] \in {NoChunk, [of |-> queued[j], at |-> m]}
          /\ j <= k
  BY <1>4, <1>5 DEF Arriving, Collecting
<1>9. /\ kept \in [0..MaxLen -> Chunk]
      /\ \A m \in 0..MaxLen : kept[m] \in {NoChunk, [of |-> queued[k], at |-> m]}
  <2>1. NoChunks \in [0..MaxLen -> Chunk] /\ \A m \in 0..MaxLen : NoChunks[m] = NoChunk
    BY NoPacketType DEF NoChunks
  <2>2. incoming.chunks \in [0..MaxLen -> Chunk]
    BY <1>6 DEF Assembler
  <2>3. CASE incoming = EmptyAssembler
    BY <2>1, <2>3 DEF EmptyAssembler
  <2>4. CASE incoming # EmptyAssembler /\ incoming.session_id = p.session_id
    <3>1. PICK j \in DOMAIN queued :
            /\ IsOf(incoming, j)
            /\ \A m \in 0..MaxLen : incoming.chunks[m] \in {NoChunk, [of |-> queued[j], at |-> m]}
      BY <1>8, <2>4
    <3>2. j = k
      BY ZenonT(40), <1>5, <2>4, <3>1, SessionsApart DEF IsOf
    <3>3. QED BY <2>2, <2>4, <3>1, <3>2
  <2>5. CASE incoming # EmptyAssembler /\ incoming.session_id # p.session_id
    <3>1. incoming.session_id # NoSession
      BY <1>8, <2>5 DEF IsOf
    <3>2. QED BY <2>1, <2>5, <3>1
  <2>6. QED BY <2>3, <2>4, <2>5
<1>10. /\ incoming'.session_id = p.session_id /\ incoming'.total_length = ReplyLen
       /\ incoming'.chunks = IF kept[n] = NoChunk THEN [kept EXCEPT ![n] = p.chunk] ELSE kept
  BY <1>3, <1>5 DEF AssemblerAdd
<1>11. incoming.session_id = p.session_id => kept = incoming.chunks
  OBVIOUS
<1> HIDE DEF kept
<1>12. /\ \A m \in 0..MaxLen : incoming'.chunks[m] \in {NoChunk, [of |-> queued[k], at |-> m]}
       /\ \A m \in 0..MaxLen : kept[m] # NoChunk => incoming'.chunks[m] # NoChunk
       /\ incoming'.chunks[n] # NoChunk
  <2>1. CASE kept[n] = NoChunk
    BY <1>5, <1>6, <1>7, <1>9, <1>10, <2>1
  <2>2. CASE kept[n] # NoChunk
    BY <1>6, <1>9, <1>10, <2>2
  <2>3. QED BY <2>1, <2>2
<1>13. incoming'.session_id = SessionOf(queued[k]) /\ Reached(k, 0)
  BY <1>1, <1>5, <1>6, <1>10 DEF IsOf, Reached
<1>14. Collecting'
  <2>1. \A q \in Responses', l \in DOMAIN queued : IsOf(q, l) => k <= l
    BY <1>4, <1>5, <1>6
  <2>2. QED BY <1>1, <1>10, <1>12, <1>13, <2>1 DEF Collecting, IsOf, Reached
<1>15. \A j \in DOMAIN queued : Delivered(j) => j < k
  BY <1>3, <1>4, <1>5 DEF Arriving, ReceivedOnce
<1>16. ReceivedOnce'
  <2>1. \A l \in DOMAIN queued : incoming'.session_id = SessionOf(queued[l]) => l = k
    BY <1>13 DEF Served, QueueIsApart
  <2>2. \A j \in DOMAIN queued : Delivered(j) =>
          \A q \in Responses', l \in DOMAIN queued :
            q.type = "RESPONSE_CHUNK" /\ IsOf(q, l) => j < l
    BY <1>2 DEF Arriving, ReceivedOnce
  <2>3. QED BY <1>1, <1>3, <1>15, <2>1, <2>2
        DEF Arriving, ReceivedOnce, Delivered, IsOf, Reached
<1>17. ASSUME NEW m \in 0..MaxLen, Got(Done + 1, m), Done + 1 \in DOMAIN queued
       PROVE  Got(Done + 1, m)'
  <2>1. CASE Delivered(Done + 1)
    BY <1>1, <1>3, <2>1 DEF Got, Delivered
  <2>2. CASE m < ReplyLen /\ IsOf(incoming, Done + 1) /\ incoming.chunks[m] # NoChunk
    <3>1. incoming # EmptyAssembler
      BY <1>6, <2>2 DEF EmptyAssembler, NoChunks
    <3>2. Done + 1 <= k
      BY <1>8, <1>17, <2>2, <3>1, SessionsApart
    <3>3. k = Done + 1
      BY <1>5, <1>6, <3>2 DEF Reached
    <3>4. kept[m] # NoChunk
      BY <1>5, <1>11, <2>2, <3>3 DEF IsOf
    <3>5. incoming'.chunks[m] # NoChunk /\ incoming'.session_id = SessionOf(queued'[Done' + 1])
      BY <1>1, <1>12, <1>13, <3>3, <3>4
    <3>6. QED BY <2>2, <3>5 DEF Got, IsOf
  <2>3. QED BY <1>17, <2>1, <2>2 DEF Got
<1>18. AcksAreTrue'
  <2>1. AckOf(p) \in Packet /\ notifications \in Seq(Packet)
    BY <1>5, AckOfType, QueueTypes
  <2>2. PicoAcks' \subseteq PicoAcks \cup {AckOf(p)}
    <3>1. PacketsOf(Append(notifications, AckOf(p))) = PacketsOf(notifications) \cup {AckOf(p)}
      BY <2>1, PacketsOfQueue
    <3>2. PacketsOf(notifications') \subseteq PacketsOf(notifications) \cup {AckOf(p)}
      BY <1>3, <3>1, Zenon
    <3>3. QED BY <3>2 DEF PicoAcks
  <2>3. ASSUME NEW q \in PicoAcks
        PROVE  \E j \in DOMAIN queued' :
                 IsOf(q, j)' /\ Reached(j, q.sequence)' /\ (j = Done' + 1 => Got(j, q.sequence)')
    <3>1. PICK j \in DOMAIN queued : /\ IsOf(q, j) /\ Reached(j, q.sequence)
                                     /\ (j = Done + 1 => Got(j, q.sequence))
      BY DEF Arriving, AcksAreTrue
    <3>2. q.sequence \in 0..MaxLen
      BY AcksHavePlaces
    <3>3. ASSUME j = Done + 1 PROVE Got(j, q.sequence)'
      <4>1. Got(Done + 1, q.sequence)'
        BY <1>17, <3>1, <3>2, <3>3
      <4>2. QED BY <1>1, <3>3, <4>1 DEF Got, Delivered, IsOf
    <3>4. IsOf(q, j)' /\ Reached(j, q.sequence)' /\ j \in DOMAIN queued'
      BY <1>1, <3>1 DEF IsOf, Reached
    <3>5. QED BY <1>1, <3>3, <3>4
  <2>4. ASSUME NEW q, q = AckOf(p)
        PROVE  k \in DOMAIN queued' /\ IsOf(q, k)' /\ Reached(k, q.sequence)' /\ Got(k, q.sequence)'
    <3>1. q.session_id = SessionOf(queued[k]) /\ q.sequence = n
      BY <1>5, <2>4 DEF AckOf, Encode, IsOf
    <3>2. Reached(k, q.sequence)
      BY <1>5, <3>1
    <3>3. q.sequence < ReplyLen /\ incoming'.chunks[q.sequence] # NoChunk
      BY <1>5, <1>12, <3>1
    <3>4. QED BY <1>1, <1>13, <3>1, <3>2, <3>3 DEF IsOf, Reached, Got
  <2>5. sendChain' # <<>> => \A m \in 0..(position' - 1) : Got(Done + 1, m)'
    <3>1. sendChain # <<>> => Done + 1 \in DOMAIN queued
      BY ChainFacts DEF Served
    <3>2. \A m \in 0..(position - 1) : m \in 0..MaxLen
      BY <1>6
    <3>3. QED BY <1>1, <1>17, <3>1, <3>2 DEF Arriving, AcksAreTrue
  <2>6. \A q \in PicoAcks' : \E j \in DOMAIN queued' :
          IsOf(q, j)' /\ Reached(j, q.sequence)' /\ (j = Done' + 1 => Got(j, q.sequence)')
    BY <2>2, <2>3, <2>4
  <2>7. QED BY <2>5, <2>6 DEF AcksAreTrue
<1>19. QED BY <1>2, <1>14, <1>16, <1>18 DEF Arriving


(* The end of a message: it completes the one collected, or nothing.       *)
LEMMA ArrivingEnd ==
  ASSUME TypeOK, TypeOK', Served, Served', Arriving,
         \A k \in DOMAIN queued : SessionOf(queued[k]) # NoSession,
         writes # <<>>, writes' = Tail(writes), OnResponseEnd(Head(writes)),
         UNCHANGED <<sendChain, queued, position>>
  PROVE  Arriving'
<1> DEFINE p == Head(writes)
<1>1. /\ LessIsWritten /\ QueueMoves
      /\ Done' = Done /\ position' = position /\ queued' = queued /\ sendChain' = sendChain
  BY ReadingIsLess DEF QueueMoves, Done
<1>2. /\ WritesAreGenuine' /\ WritesAreInOrder'
      /\ Responses' \subseteq Responses
  BY <1>1, WritesStay, LessIsUnderWay
<1>3. /\ p.type = "RESPONSE_END" /\ IsResponse(p)
      /\ incoming' = AssemblerFinish(incoming, p.session_id)
      /\ IF CanFinish(incoming, p.session_id)
         THEN \/ received' = Append(received, Assembled(incoming)) /\ lost' = lost
              \/ received' = received /\ lost' = lost \cup {Assembled(incoming)}
         ELSE received' = received /\ lost' = lost
      /\ notifications' \in {notifications, Append(notifications, AckOf(p))}
  BY DEF OnResponseEnd, Complete, Notify, NotifyRaises, IsResponse
<1>4. /\ p \in Responses
      /\ \A q \in Responses', k, l \in DOMAIN queued :
           IsOf(p, k) /\ IsOf(q, l) => k < l \/ (k = l /\ p.sequence <= q.sequence)
  BY <1>3, ReadingOrder
<1> HIDE DEF p
<1>5. PICK k \in DOMAIN queued :
        IsOf(p, k) /\ Reached(k, ReplyLen) /\ p.sequence = ReplyLen /\ p \in Packet
  BY <1>3, <1>4, ResponseFacts
<1>6. /\ Done \in Nat /\ ReplyLen \in 1..MaxLen /\ MaxLen \in Nat /\ k \in Nat
      /\ position \in 0..ReplyLen /\ received \in Seq(MessageType)
      /\ \A l \in DOMAIN queued : l \in Nat
  <2>1. ReplyLen \in 1..MaxLen /\ MaxLen \in Nat /\ queued \in Seq(Payload)
        /\ position \in 0..ReplyLen /\ Done \in Nat /\ received \in Seq(MessageType)
    BY PhoneTypes, ChainFacts DEF Served, TypeOK, PicoTypeOK
  <2>2. QED BY <2>1
<1>7. \A l \in DOMAIN queued : SessionOf(queued[l]) # EmptyAssembler.session_id
  BY DEF EmptyAssembler
<1>8. \A q \in Responses', l \in DOMAIN queued :
        q.type = "RESPONSE_CHUNK" /\ IsOf(q, l) => k < l
  <2>1. ASSUME NEW q \in Responses', NEW l \in DOMAIN queued,
               q.type = "RESPONSE_CHUNK", IsOf(q, l)
        PROVE  k < l
    <3>1. q.sequence < ReplyLen /\ q.sequence \in 0..ReplyLen
      BY <1>2, <2>1, ResponseFacts
    <3>2. QED BY <1>4, <1>5, <1>6, <2>1, <3>1
  <2>2. QED BY <2>1
<1>9. ASSUME incoming # EmptyAssembler
      PROVE  \E j \in DOMAIN queued :
          /\ IsOf(incoming, j) /\ incoming.total_length = ReplyLen /\ j <= k
          /\ \A m \in 0..MaxLen : incoming.chunks[m] \in {NoChunk, [of |-> queued[j], at |-> m]}
  BY <1>4, <1>5, <1>9 DEF Arriving, Collecting
<1>10. PICK ack \in Packet : ack = AckOf(p)
  BY <1>5, AckOfType
<1>11. /\ ack.type = "ACK" /\ ack.sequence = ReplyLen /\ ack.session_id = SessionOf(queued[k])
       /\ PicoAcks' \subseteq PicoAcks \cup {ack}
  <2>1. ack.type = "ACK" /\ ack.sequence = ReplyLen /\ ack.session_id = SessionOf(queued[k])
    BY <1>5, <1>10 DEF AckOf, Encode, IsOf
  <2>2. PacketsOf(Append(notifications, ack)) = PacketsOf(notifications) \cup {ack}
    BY PacketsOfQueue, QueueTypes
  <2>3. PacketsOf(notifications') \subseteq PacketsOf(notifications) \cup {ack}
    BY <1>3, <1>10, <2>2, Zenon
  <2>4. QED BY <2>1, <2>3 DEF PicoAcks
<1>12. ASSUME \A m \in 0..MaxLen : Got(Done + 1, m) /\ Done + 1 \in DOMAIN queued => Got(Done + 1, m)',
              k = Done + 1 => Got(k, ReplyLen)'
       PROVE  AcksAreTrue'
  <2>1. ASSUME NEW q \in PicoAcks
        PROVE  \E j \in DOMAIN queued' :
                 IsOf(q, j)' /\ Reached(j, q.sequence)' /\ (j = Done' + 1 => Got(j, q.sequence)')
    <3>1. PICK j \in DOMAIN queued : /\ IsOf(q, j) /\ Reached(j, q.sequence)
                                     /\ (j = Done + 1 => Got(j, q.sequence))
      BY DEF Arriving, AcksAreTrue
    <3>2. q.sequence \in 0..MaxLen
      BY AcksHavePlaces
    <3>3. ASSUME j = Done + 1 PROVE Got(j, q.sequence)'
      <4>1. Got(Done + 1, q.sequence)'
        BY <1>12, <3>1, <3>2, <3>3
      <4>2. QED BY <1>1, <3>3, <4>1 DEF Got, Delivered, IsOf
    <3>4. IsOf(q, j)' /\ Reached(j, q.sequence)' /\ j \in DOMAIN queued'
      BY <1>1, <3>1 DEF IsOf, Reached
    <3>5. QED BY <1>1, <3>3, <3>4
  <2>2. IsOf(ack, k)' /\ Reached(k, ack.sequence)' /\ (k = Done' + 1 => Got(k, ack.sequence)')
        /\ k \in DOMAIN queued'
    BY <1>1, <1>5, <1>11, <1>12 DEF IsOf, Reached, Got
  <2>3. sendChain' # <<>> => \A m \in 0..(position' - 1) : Got(Done + 1, m)'
    <3>1. sendChain # <<>> => Done + 1 \in DOMAIN queued
      BY ChainFacts DEF Served
    <3>2. \A m \in 0..(position - 1) : m \in 0..MaxLen
      BY <1>6
    <3>3. QED BY <1>1, <1>12, <3>1, <3>2 DEF Arriving, AcksAreTrue
  <2>4. \A q \in PicoAcks' : \E j \in DOMAIN queued' :
          IsOf(q, j)' /\ Reached(j, q.sequence)' /\ (j = Done' + 1 => Got(j, q.sequence)')
    BY <1>11, <2>1, <2>2
  <2>5. QED BY <2>3, <2>4 DEF AcksAreTrue
<1>13. CASE ~CanFinish(incoming, p.session_id)
  <2>1. incoming' = incoming /\ received' = received /\ Whole' = Whole
    BY <1>3, <1>13 DEF AssemblerFinish, Whole
  <2>2. Collecting'
    BY <1>1, <1>2, <2>1 DEF Arriving, Collecting, IsOf, Reached
  <2>3. ReceivedOnce'
    <3>1. \A j \in DOMAIN queued : Delivered(j) =>
            \A q \in Responses', l \in DOMAIN queued :
              q.type = "RESPONSE_CHUNK" /\ IsOf(q, l) => j < l
      BY <1>2 DEF Arriving, ReceivedOnce
    <3>2. QED BY <1>1, <2>1, <3>1 DEF Arriving, ReceivedOnce, Delivered, IsOf, Reached
  <2>4. \A m \in 0..MaxLen : Got(Done + 1, m) => Got(Done + 1, m)'
    BY <1>1, <2>1 DEF Got, Delivered, Whole, IsOf
  <2>5. ASSUME k = Done + 1 PROVE Got(k, ReplyLen)'
    <3>1. /\ position = ReplyLen /\ Done + 1 \in DOMAIN queued
          /\ sendChain # <<>>
      <4>1. position = ReplyLen
        BY <1>5, <1>6, <2>5 DEF Reached
      <4>2. QED BY <1>5, <1>6, <2>5, <4>1, ChainFacts DEF Served
    <3>2. \A m \in 0..(ReplyLen - 1) : Got(k, m)
      BY <2>5, <3>1 DEF Arriving, AcksAreTrue
    <3>3. CASE Delivered(k)
      BY <1>1, <2>1, <3>3 DEF Got, Delivered
    <3>4. CASE ~Delivered(k)
      <4>1. \A m \in 0..(ReplyLen - 1) : IsOf(incoming, k) /\ incoming.chunks[m] # NoChunk
        BY <3>2, <3>4 DEF Got
      <4>2. 0 \in 0..(ReplyLen - 1) /\ 0 \in 0..MaxLen
        BY <1>6
      <4>3. IsOf(incoming, k) /\ incoming # EmptyAssembler
        <5>1. EmptyAssembler.chunks[0] = NoChunk
          BY <4>2 DEF EmptyAssembler, NoChunks
        <5>2. IsOf(incoming, k) /\ incoming.chunks[0] # NoChunk
          BY <4>1, <4>2
        <5>3. QED BY <5>1, <5>2, Zenon
      <4>4. /\ incoming.total_length = ReplyLen /\ incoming.session_id = p.session_id
            /\ incoming.session_id # NoSession
        BY <1>5, <1>9, <4>3 DEF IsOf
      <4>5. CanFinish(incoming, p.session_id)
        BY <4>1, <4>4 DEF CanFinish
      <4>6. QED BY <1>13, <4>5
    <3>5. QED BY <3>3, <3>4
  <2>6. QED BY <1>2, <1>12, <2>2, <2>3, <2>4, <2>5 DEF Arriving
<1>14. CASE CanFinish(incoming, p.session_id)
  <2>1. /\ incoming' = EmptyAssembler
        /\ IsOf(incoming, k) /\ incoming # EmptyAssembler
        /\ \A m \in 0..(incoming.total_length - 1) : incoming.chunks[m] # NoChunk
    <3>1. /\ incoming.session_id = p.session_id /\ incoming.session_id # NoSession
          /\ \A m \in 0..(incoming.total_length - 1) : incoming.chunks[m] # NoChunk
      BY <1>14 DEF CanFinish
    <3>2. EmptyAssembler.session_id = NoSession
      BY DEF EmptyAssembler
    <3>3. incoming # EmptyAssembler
      BY <3>1, <3>2, Zenon
    <3>4. IsOf(incoming, k)
      BY <1>5, <3>1 DEF IsOf
    <3>5. incoming' = EmptyAssembler
      BY <1>3, <1>14 DEF AssemblerFinish
    <3>6. QED BY <3>1, <3>3, <3>4, <3>5
  <2>2. /\ incoming.total_length = ReplyLen
        /\ \A m \in 0..MaxLen : incoming.chunks[m] \in {NoChunk, [of |-> queued[k], at |-> m]}
    <3>1. PICK j \in DOMAIN queued :
          /\ IsOf(incoming, j) /\ incoming.total_length = ReplyLen
          /\ \A m \in 0..MaxLen : incoming.chunks[m] \in {NoChunk, [of |-> queued[j], at |-> m]}
      BY <1>9, <2>1
    <3>2. j = k
      BY <2>1, <3>1, SessionsApart
    <3>3. QED BY <3>1, <3>2
  <2>3. Assembled(incoming) = Message(queued[k])
    <3>1. queued[k].len = ReplyLen
      BY DEF Served, QueueIsApart
    <3>2. \A i \in 1..ReplyLen : i - 1 \in 0..(ReplyLen - 1) /\ i - 1 \in 0..MaxLen
      BY <1>6
    <3>3. \A i \in 1..ReplyLen : incoming.chunks[i - 1] = [of |-> queued[k], at |-> i - 1]
      BY <2>1, <2>2, <3>2
    <3>4. QED BY <2>2, <3>1, <3>3 DEF Assembled, Message
  <2> DEFINE message == Message(queued[k])
             last == Len(received) + 1
  <2>4. \/ received' = Append(received, message) /\ lost' = lost
        \/ received' = received /\ lost' = lost \cup {message}
    BY <1>3, <1>14, <2>3
  <2> HIDE DEF message
  <2>appended. ASSUME received' = Append(received, message)
         PROVE  /\ DOMAIN received' = DOMAIN received \cup {last} /\ received'[last] = message
                /\ \A i \in DOMAIN received : received'[i] = received[i]
    BY <1>6, <2>appended
  <2> HIDE DEF last
  <2>whole. Whole' = Whole \cup {message}
    <3>1. CASE received' = Append(received, message) /\ lost' = lost
      <4> DEFINE Of(s) == {s[i] : i \in DOMAIN s}
      <4>1. Of(received') = Of(received) \cup {message}
        <5>1. /\ DOMAIN received' = DOMAIN received \cup {last} /\ received'[last] = message
              /\ \A i \in DOMAIN received : received'[i] = received[i]
          BY <2>appended, <3>1
        <5>2. \A m \in Of(received') : m \in Of(received) \cup {message}
          BY <5>1
        <5>3. \A m \in Of(received) \cup {message} : m \in Of(received')
          BY <5>1
        <5>4. QED BY <5>2, <5>3
      <4>2. Whole = Of(received) \cup lost /\ Whole' = Of(received') \cup lost'
        BY DEF Whole
      <4> HIDE DEF Of
      <4>3. QED BY <3>1, <4>1, <4>2
    <3>2. CASE received' = received /\ lost' = lost \cup {message}
      BY <3>2 DEF Whole
    <3>3. QED BY <2>4, <3>1, <3>2
  <2>5. ~Delivered(k)
    <3>1. Delivered(k) => k < k
      BY <2>1 DEF Arriving, ReceivedOnce
    <3>2. QED BY <1>6, <3>1
  <2>6. \A j \in DOMAIN queued : Delivered(j)' <=> Delivered(j) \/ j = k
    <3>1. \A j \in DOMAIN queued : Message(queued[j]) = message => j = k
      BY <1>1, Growth DEF message
    <3>2. QED BY <1>1, <2>whole, <3>1 DEF Delivered, message
  <2>7. Collecting'
    BY <2>1 DEF Collecting
  <2>8. ReceivedOnce'
    <3>1. \A m \in Whole' : \E j \in DOMAIN queued : m = Message(queued[j])
      BY <2>whole DEF Arriving, ReceivedOnce, message
    <3>2. \A i \in DOMAIN received : received[i] # message
      BY <2>5 DEF Delivered, Whole, message
    <3>3. \A i, j \in DOMAIN received' : received'[i] = received'[j] => i = j
      <4>1. \A i, j \in DOMAIN received : received[i] = received[j] => i = j
        BY DEF Arriving, ReceivedOnce
      <4>2. CASE received' = received
        BY <4>1, <4>2
      <4>3. CASE received' = Append(received, message)
        BY <2>appended, <3>2, <4>1, <4>3
      <4>4. QED BY <2>4, <4>2, <4>3
    <3>4. ASSUME NEW j \in DOMAIN queued, Delivered(j)'
          PROVE  /\ Reached(j, ReplyLen)
                 /\ \A q \in Responses', l \in DOMAIN queued :
                      q.type = "RESPONSE_CHUNK" /\ IsOf(q, l) => j < l
      <4>1. CASE j = k
        BY <1>5, <1>8, <4>1
      <4>2. CASE Delivered(j)
        BY <1>2, <4>2 DEF Arriving, ReceivedOnce
      <4>3. QED BY <2>6, <3>4, <4>1, <4>2
    <3>5. QED BY <1>1, <2>1, <3>1, <3>3, <3>4 DEF ReceivedOnce, IsOf, Reached
  <2>9. Got(k, ReplyLen)'
    BY <2>6 DEF Got
  <2>10. ASSUME NEW m \in 0..MaxLen, Got(Done + 1, m), Done + 1 \in DOMAIN queued
         PROVE  Got(Done + 1, m)'
    <3> DEFINE next == Done + 1
    <3>1. Delivered(next) \/ IsOf(incoming, next)
      BY <2>10 DEF Got
    <3>2. next' = next
      BY <1>1
    <3>3. next = k \/ Delivered(next)
      BY <2>1, <2>10, <3>1, SessionsApart
    <3> HIDE DEF next
    <3>4. PICK j \in DOMAIN queued : j = next
      BY <2>10 DEF next
    <3>5. Delivered(j)'
      BY <2>6, <3>3, <3>4
    <3>6. Delivered(next)'
      BY <3>2, <3>4, <3>5 DEF Delivered
    <3>7. QED BY <3>6 DEF next, Got
  <2>11. QED BY <1>2, <1>12, <2>7, <2>8, <2>9, <2>10 DEF Arriving
<1>15. QED BY <1>13, <1>14


(***************************************************************************)
(* Every step that does not end the connection                             *)
(***************************************************************************)
LEMMA SendsKeep ==
  ASSUME SessionsSuffice, Known, SessionsAreIds, PicoSendsNoAcks, Lasts
  PROVE  PicoSendsNoAcks'
<1>0. TypeOK /\ NoPacket.type # "ACK"
  BY DEF Known, NoPacket, Encode
<1>1. ASSUME NEW len \in RequestLens, SendRequest(len) PROVE PicoSendsNoAcks'
  <2> DEFINE request == [kind |-> "request", id |-> Len(asked) + 1, len |-> len]
             packets == RequestPackets(session_id + 1, request)
  <2>1. /\ asked \in Seq(Payload) /\ Len(asked) \in Nat /\ Len(asked) < MaxRequests
        /\ asked' = Append(asked, request) /\ waiting' = waiting
    BY <1>0, <1>1 DEF SendRequest, NewRequest, Send, current, TypeOK, BridgeTypeOK
  <2>2. NextSession = session_id + 1 /\ session_id \in Nat /\ session_id + 1 \in Nat
    BY <1>0, <2>1, ChannelAssumption, LinkAssumption
    DEF NextSession, SessionsAreIds, SessionsSuffice, TypeOK, PicoTypeOK
  <2>3. request \in Payload
    BY <2>1, LinkAssumption DEF Payload, PayloadKinds
  <2>4. outgoing' = outgoing \o packets
    <3>1. asked'[current + 1] = request
      BY <2>1 DEF current
    <3>2. QED BY <1>1, <2>2, <3>1 DEF SendRequest, Send
  <2> HIDE DEF request
  <2>5. /\ packets \in Seq(Packet)
        /\ \A p \in PacketsOf(packets) : p.type \in {"REQUEST_CHUNK", "REQUEST_END"}
    BY <2>2, <2>3, NewPackets
  <2> HIDE DEF packets
  <2>6. PacketsOf(outgoing') = PacketsOf(outgoing) \cup PacketsOf(packets)
    BY <1>0, <2>4, <2>5, PacketsOfQueue, QueueTypes
  <2>7. QED BY <2>1, <2>5, <2>6 DEF PicoSendsNoAcks
<1>2. CASE \A len \in RequestLens : ~SendRequest(len)
  <2>1. StreamStep
    BY <1>0, <1>2, StreamsMove DEF Lasts
  <2>2. \/ outgoing' = outgoing
        \/ outgoing' = <<>>
        \/ outgoing # <<>> /\ outgoing' = Tail(outgoing)
    BY <2>1 DEF StreamStep
  <2>3. PacketsOf(outgoing') \subseteq PacketsOf(outgoing)
    BY <1>0, <2>2, PacketsOfQueue, QueueTypes
  <2>4. waiting' \in {waiting, NoPacket} \/ (outgoing # <<>> /\ waiting' = Head(outgoing))
    BY <2>1 DEF StreamStep
  <2>5. waiting' \in {waiting, NoPacket} \cup PacketsOf(outgoing)
    BY <1>0, <2>4, PacketsOfQueue, QueueTypes
  <2>6. QED BY <1>0, <2>3, <2>5 DEF PicoSendsNoAcks
<1>3. QED BY <1>1, <1>2

LEMMA SameWrites == ASSUME TypeOK, writes' = writes PROVE LessIsWritten
<1>1. \A j \in DOMAIN writes : j + 0 = j
  BY QueueTypes
<1>2. 0 \in Nat
  OBVIOUS
<1>3. QED BY <1>1, <1>2 DEF LessIsWritten

LEMMA AcksAreLess ==
  ASSUME TypeOK, NEW p \in Packet, Write(AckOf(p)) PROVE LessIsWritten
<1>1. AckOf(p) \in Packet /\ ~IsResponse(AckOf(p)) /\ writes' = Append(writes, AckOf(p))
  BY AckOfType DEF AckOf, Encode, IsResponse, Write
<1>2. \A j \in DOMAIN writes' : j \notin DOMAIN writes => writes'[j] = AckOf(p)
  BY <1>1, QueueTypes
<1>3. \A j \in DOMAIN writes : writes'[j] = writes[j] /\ j + 0 = j
  BY <1>1, QueueTypes
<1>4. 0 \in Nat
  OBVIOUS
<1>5. QED BY <1>1, <1>2, <1>3, <1>4, Zenon DEF LessIsWritten

(* An acknowledgement that moves the phone on is of a chunk that was       *)
(* collected, or of the end of a message that was completed.               *)
LEMMA AcksAreBelieved ==
  ASSUME TypeOK, Served, Arriving, notifications # <<>>, Head(notifications).type = "ACK",
         sendChain # <<>>, SameKey(Head(notifications), CurrentPacket)
  PROVE  Got(Done + 1, position)
<1> DEFINE p == Head(notifications)
<1>1. p \in PicoAcks
  BY PacketsOfQueue, QueueTypes DEF PicoAcks
<1>2. PICK k \in DOMAIN queued : IsOf(p, k) /\ (k = Done + 1 => Got(k, p.sequence))
  BY <1>1 DEF Arriving, AcksAreTrue
<1>3. Done + 1 \in DOMAIN queued /\ IsOf(p, Done + 1) /\ p.sequence = position
  BY CurrentIsNext DEF SameKey, IsOf
<1>4. k = Done + 1
  BY <1>2, <1>3, SessionsApart
<1>5. QED BY <1>2, <1>3, <1>4

LEMMA ReceivingKeepsArriving ==
  ASSUME TypeOK, TypeOK', Served, Served', QueueMoves, Arriving, ReceiveNotification,
         UNCHANGED <<incoming, received, lost>>
  PROVE  Arriving'
<1> DEFINE p == Head(notifications)
<1>1. p \in Packet /\ PicoAcks' \subseteq PicoAcks
  BY PacketsOfQueue, QueueTypes DEF ReceiveNotification, PicoAcks
<1>2. LessIsWritten
  BY <1>1, SameWrites, AcksAreLess
  DEF ReceiveNotification, OnPicoAck, OnRequestChunk, OnRequestEnd, OnUndecodable
<1>3. ASSUME Advances PROVE Got(Done + 1, position)
  <2>1. sendChain # <<>> /\ position' # position
    BY <1>3, PhoneTypes DEF Advances
  <2>2. OnPicoAck(p) /\ SameKey(p, CurrentPacket) /\ notifications # <<>>
    BY <2>1 DEF ReceiveNotification, OnPicoAck, OnRequestChunk, OnRequestEnd, OnUndecodable
  <2>3. QED BY <2>1, <2>2, AcksAreBelieved DEF OnPicoAck
<1> HIDE DEF p
<1>4. QED BY <1>1, <1>2, <1>3, ArrivingStays

LEMMA ArrivingKeeps ==
  ASSUME SessionsSuffice, Known, TypeOK', SessionsAreIds, Served, PicoSendsNoAcks, Arriving, Lasts
  PROVE  Arriving'
<1>0. TypeOK /\ Served' /\ QueueMoves
  BY ServedKeeps DEF Known
<1>1. \A k \in DOMAIN queued : SessionOf(queued[k]) # NoSession
  BY SessionsAreFree DEF NoSession
<1>2. ASSUME UNCHANGED <<incoming, received, lost>>, LessIsWritten, ~Advances, PicoAcks' \subseteq PicoAcks
      PROVE  Arriving'
  BY <1>0, <1>2, ArrivingStays
<1>3. ASSUME position' = position PROVE ~Advances
  BY <1>0, <1>3, PhoneTypes DEF Advances
<1>4. CASE Bridge
  <2>1. UNCHANGED <<incoming, received, lost, writes, position>>
    BY <1>4 DEF Lasts, Bridge, TransportReady, SendRequest, Send, NewRequest, Pump,
       NotifyWaiting, NotifyFails, AckTimeout, ResponseTimeout, NothingCompleted, TakeCatalog,
       TakeAnswer, PumpRetry, PumpNext, PumpIdle, PumpNotify, PumpNotifyRaises, NotifyRaises,
       PumpGivesUp, PopCompleted, phoneVars, picoVars, channelVars
  <2>2. notifications' = notifications \/ notifications' = Append(notifications, waiting)
    BY <1>4 DEF Lasts, Bridge, TransportReady, SendRequest, Send, NewRequest, Pump,
       NotifyWaiting, NotifyFails, AckTimeout, ResponseTimeout, NothingCompleted, TakeCatalog,
       TakeAnswer, PumpRetry, PumpNext, PumpIdle, PumpNotify, PumpNotifyRaises, NotifyRaises,
       PumpGivesUp, PopCompleted, Notify, phoneVars, picoVars, channelVars
  <2>3. PicoAcks' \subseteq PicoAcks
    <3>1. PacketsOf(notifications') \subseteq PacketsOf(notifications) \cup {waiting}
      <4>1. PacketsOf(Append(notifications, waiting)) = PacketsOf(notifications) \cup {waiting}
        BY <1>0, PacketsOfQueue, QueueTypes
      <4>2. QED BY <2>2, <4>1, Zenon
    <3>2. waiting.type # "ACK"
      BY DEF PicoSendsNoAcks
    <3>3. QED BY <3>1, <3>2 DEF PicoAcks
  <2>4. QED BY <1>0, <1>2, <1>3, <2>1, <2>3, SameWrites
<1>5. CASE Irq
  <2>1. UNCHANGED <<sendChain, queued, position>>
    BY <1>5 DEF Irq, phoneVars
  <2>2. CASE IrqWrite /\ OnAck(Head(writes))
    <3>1. /\ UNCHANGED <<incoming, received, lost, notifications>>
          /\ writes # <<>> /\ writes' = Tail(writes)
      BY <2>2 DEF IrqWrite, OnAck
    <3>2. PicoAcks' = PicoAcks
      BY <3>1 DEF PicoAcks
    <3>3. QED BY <1>0, <1>2, <1>3, <2>1, <3>1, <3>2, ReadingIsLess
  <2>3. CASE IrqWrite /\ OnResponseChunk(Head(writes))
    BY <1>0, <1>1, <2>1, <2>3, ArrivingChunk DEF IrqWrite
  <2>4. CASE IrqWrite /\ OnResponseEnd(Head(writes))
    BY <1>0, <1>1, <2>1, <2>4, ArrivingEnd DEF IrqWrite
  <2>5. ASSUME NEW n \in 2..Len(writes), IrqGluedWrites(n) PROVE Arriving'
    <3>1. /\ UNCHANGED <<incoming, received, lost, notifications>>
          /\ writes' = SubSeq(writes, n + 1, Len(writes))
      BY <2>5 DEF IrqGluedWrites, picoVars
    <3>2. \A j \in DOMAIN writes' : j + n \in DOMAIN writes /\ writes'[j] = writes[j + n]
      BY <1>0, <3>1, QueueTypes
    <3>3. n \in Nat
      BY <1>0, QueueTypes
    <3>4. LessIsWritten
      BY <3>2, <3>3 DEF LessIsWritten
    <3>5. PicoAcks' = PicoAcks
      BY <3>1 DEF PicoAcks
    <3>6. QED BY <1>2, <1>3, <2>1, <3>1, <3>4, <3>5
  <2>6. QED BY <1>5, <2>2, <2>3, <2>4, <2>5 DEF Lasts, Irq, IrqWrite
<1>6. CASE Phone
  <2>1. UNCHANGED <<incoming, received, lost>>
    BY <1>6 DEF Phone, picoVars
  <2>2. CASE ReceiveNotification
    BY <1>0, <2>1, <2>2, ReceivingKeepsArriving
  <2>3. CASE WriteFirst \/ WriteAgain
    <3>1. /\ sendChain # <<>> /\ Write(CurrentPacket)
          /\ UNCHANGED <<notifications, sendChain, queued, position>>
      BY <2>3 DEF WriteFirst, WriteAgain
    <3>2. QED BY <1>0, <2>1, <3>1, ArrivingWrite
  <2>4. CASE ~ReceiveNotification /\ ~WriteFirst /\ ~WriteAgain
    <3>1. /\ writes' = writes
          /\ notifications' = notifications
               \/ (notifications # <<>> /\ notifications' = Tail(notifications))
      BY ZenonT(40), <1>6, <2>4 DEF Phone, Connect, Discover, Subscribe, Disconnect,
         MissNotification, CallRelay, RelayReplies, SendAsyncUpdate, WriteGivesUp, WriteFails,
         channelVars
    <3>2. position' \in {position, 0}
      BY <1>6, <2>4 DEF Phone, Connect, Discover, Subscribe, Disconnect, MissNotification,
         CallRelay, RelayReplies, SendAsyncUpdate, WriteGivesUp, WriteFails, NextInChain,
         phoneVars
    <3>3. ~Advances
      BY <1>0, <3>2, PhoneTypes DEF Advances
    <3>4. PicoAcks' \subseteq PicoAcks
      BY <1>0, <3>1, PacketsOfQueue, QueueTypes DEF PicoAcks
    <3>5. QED BY SMTT(40), <1>0, <1>2, <2>1, <3>1, <3>3, <3>4, SameWrites
  <2>5. QED BY <2>2, <2>3, <2>4
<1>7. CASE UNCHANGED vars
  <2>1. /\ UNCHANGED <<incoming, received, lost, writes, notifications, position>>
    BY <1>7 DEF vars, picoVars, channelVars, phoneVars
  <2>2. PicoAcks' = PicoAcks
    BY <2>1 DEF PicoAcks
  <2>3. QED BY <1>0, <1>2, <1>3, <2>1, <2>2, SameWrites
<1>8. QED BY <1>4, <1>5, <1>6, <1>7 DEF Lasts, Next


(***************************************************************************)
(* The invariant                                                           *)
(***************************************************************************)
LEMMA InitOneConnection == Init => OneConnection
<1> SUFFICES ASSUME Init PROVE OneConnection
  OBVIOUS
<1>1. /\ linked = FALSE /\ notifications = <<>> /\ writes = <<>>
      /\ session_id = 0 /\ outgoing = <<>> /\ waiting = NoPacket /\ incoming = EmptyAssembler
      /\ completed = <<>> /\ received = <<>> /\ lost = {}
      /\ assembler = EmptyAssembler /\ handlers = {}
      /\ sendChain = <<>> /\ position = 0 /\ nextPhoneSession = PhoneSessionBase
      /\ accepted = <<>> /\ queued = <<>> /\ updates = 0
      /\ pc = "opening" /\ asked = <<>> /\ outcome = <<>>
  BY DEF Init, ChannelInit, PicoInit, PhoneInit
<1>2. PacketsOf(<<>>) = {} /\ NoPacket.type = "NONE"
  BY PacketsOfQueue DEF NoPacket, Encode
<1>3. \A k \in 0..MaxLen : EmptyAssembler.chunks[k] = NoChunk
  BY DEF EmptyAssembler, NoChunks
<1>4. Connected /\ SessionsAreIds /\ PicoSendsNoAcks
  BY <1>1, <1>2, <1>3 DEF Connected, SessionsAreIds, PicoSendsNoAcks, UnderWay
<1>5. Served
  BY <1>1, ChannelAssumption DEF Served, HandlersAreApart, ChainIsQueued, QueueIsApart
<1>6. Responses = {} /\ PicoAcks = {}
  BY <1>1, <1>2 DEF Responses, PicoAcks
<1>7. Arriving
  <2>1. Whole = {}
    BY <1>1 DEF Whole
  <2>2. QED
    BY <1>1, <1>6, <2>1 DEF Arriving, WritesAreGenuine, WritesAreInOrder, Collecting,
       ReceivedOnce, AcksAreTrue, Delivered
<1>8. QED BY <1>4, <1>5, <1>7 DEF OneConnection

LEMMA OneConnectionLasts ==
  ASSUME SessionsSuffice, Known, TypeOK', ResponseInvariant, [Next]_vars
  PROVE  ResponseInvariant'
<1> SUFFICES ASSUME Unbroken' PROVE OneConnection'
  BY DEF ResponseInvariant
<1>1. Unbroken /\ Connected' /\ Lasts
  BY StaysConnected DEF Known, ResponseInvariant, OneConnection, Lasts
<1>2. OneConnection
  BY <1>1 DEF ResponseInvariant
<1>3. QED
  BY <1>1, <1>2, SessionsKeep, ServedKeeps, SendsKeep, ArrivingKeeps
  DEF OneConnection, Known

LEMMA KnownHolds ==
  ASSUME SessionsSuffice PROVE Spec => []Known
<1>1. MaxRequests <= SessionLimit
  BY ChannelAssumption, LinkAssumption DEF SessionsSuffice
<1>2. Spec => []TypeOK /\ []RequestInvariant /\ []OrderInvariant
  BY <1>1, TypeCorrect, RequestInvariantHolds, OrderInvariantHolds
<1>3. TypeOK /\ RequestInvariant /\ OrderInvariant => Known
  BY DEF Known
<1>4. QED BY <1>2, <1>3, PTL

LEMMA ResponseInvariantHolds ==
  ASSUME SessionsSuffice PROVE Spec => []ResponseInvariant
<1>1. Init => ResponseInvariant
  BY InitOneConnection DEF ResponseInvariant
<1>2. Known /\ Known' /\ ResponseInvariant /\ [Next]_vars => ResponseInvariant'
  BY OneConnectionLasts DEF Known
<1>3. Spec => []Known
  BY KnownHolds
<1>4. QED BY <1>1, <1>2, <1>3, PTL DEF Spec


(***************************************************************************)
(* What follows                                                            *)
(***************************************************************************)
(* A message completed is one of the queue, and known by its first chunk.  *)
LEMMA ReceivedMessages ==
  ASSUME TypeOK, Served, Arriving, NEW i \in DOMAIN received
  PROVE  \E k \in DOMAIN queued :
           received[i] = Message(queued[k]) /\ received[i][1].of = queued[k]
<1>1. PICK k \in DOMAIN queued : received[i] = Message(queued[k])
  BY DEF Arriving, ReceivedOnce, Whole
<1>2. queued[k].len = ReplyLen /\ 1 \in 1..ReplyLen
  BY ServiceAssumption, MaxLenAssumption DEF Served, QueueIsApart
<1>3. Message(queued[k])[1] = [of |-> queued[k], at |-> 0]
  BY <1>2 DEF Message
<1>4. received[i][1].of = queued[k]
  BY <1>1, <1>3
<1>5. QED BY <1>1, <1>4

LEMMA MessagesComeOnce ==
  ASSUME TypeOK, Served, Arriving PROVE ResponsesArriveWholeOnce
<1> SUFFICES ASSUME NEW i \in DOMAIN received
             PROVE  LET payload == received[i][1].of IN
                    /\ received[i] = Message(payload)
                    /\ Cardinality({j \in DOMAIN received : received[j] = received[i]})
                         <= Cardinality({k \in DOMAIN queued : queued[k] = payload})
  BY DEF ResponsesArriveWholeOnce
<1>1. PICK k \in DOMAIN queued :
        received[i] = Message(queued[k]) /\ received[i][1].of = queued[k]
  BY ReceivedMessages
<1>2. {j \in DOMAIN received : received[j] = received[i]} = {i}
  BY DEF Arriving, ReceivedOnce
<1>3. {l \in DOMAIN queued : queued[l] = queued[k]} = {k}
  BY DEF Served, QueueIsApart
<1>4. Cardinality({i}) = 1 /\ Cardinality({k}) = 1
  BY FS_Singleton
<1>5. QED BY <1>1, <1>2, <1>3, <1>4

(* Until the connection breaks, what the Pico completes is always one      *)
(* whole message of those the phone queued, and each of them once, however *)
(* often the phone repeats its packets.                                    *)
THEOREM RepliesComeWholeOnce ==
  ASSUME SessionsSuffice
  PROVE  Spec => [](Unbroken => ResponsesArriveWholeOnce)
<1>1. Known /\ ResponseInvariant => (Unbroken => ResponsesArriveWholeOnce)
  BY MessagesComeOnce DEF Known, ResponseInvariant, OneConnection
<1>2. QED BY <1>1, KnownHolds, ResponseInvariantHolds, PTL

LEMMA DeliveredStep ==
  ASSUME TypeOK, Served, Arriving, HeadDelivered
  PROVE  LET payload == Head(sendChain).payload IN Completed(payload) \/ Dropped(payload)
<1> DEFINE p == Head(notifications)
<1>1. /\ ReceiveNotification /\ p.type = "ACK" /\ notifications # <<>>
      /\ Len(sendChain') < Len(sendChain) /\ Len(sendChain) \in Nat
  BY PhoneTypes DEF HeadDelivered, ReceiveNotification
<1>2. OnPicoAck(p) /\ sendChain' # sendChain
  BY <1>1 DEF ReceiveNotification, OnRequestChunk, OnRequestEnd, OnUndecodable
<1>3. attempt > 0 /\ SameKey(p, CurrentPacket) /\ position = Head(sendChain).payload.len
  BY <1>2 DEF OnPicoAck
<1>4. /\ sendChain # <<>> /\ Done + 1 \in DOMAIN queued
      /\ Head(sendChain).payload = queued[Done + 1]
  <2>1. sendChain # <<>>
    BY <1>3 DEF TypeOK, PhoneTypeOK
  <2>2. QED BY <2>1, ChainFacts DEF Served
<1>5. position = ReplyLen
  BY <1>3, <1>4 DEF Served, QueueIsApart
<1>6. Got(Done + 1, position)
  BY <1>1, <1>3, <1>4, AcksAreBelieved
<1>7. Delivered(Done + 1)
  BY <1>5, <1>6, PhoneTypes DEF Got
<1>8. QED BY <1>4, <1>7 DEF Delivered, Whole, Completed, Dropped

(* Until the connection breaks, a message whose last packet was            *)
(* acknowledged has been put together whole by the Pico, although the Pico *)
(* also acknowledges an end that completes nothing: it has been completed, *)
(* or dropped because the notification of its acknowledgement raised.      *)
THEOREM DeliveredMessagesAreCompleted ==
  ASSUME SessionsSuffice
  PROVE  Spec => [][Unbroken /\ HeadDelivered =>
                      LET payload == Head(sendChain).payload IN
                      Completed(payload) \/ Dropped(payload)]_vars
<1>1. Known /\ ResponseInvariant /\ [Next]_vars =>
        [Unbroken /\ HeadDelivered => LET payload == Head(sendChain).payload IN
                                      Completed(payload) \/ Dropped(payload)]_vars
  BY DeliveredStep DEF Known, ResponseInvariant, OneConnection
<1>2. QED BY <1>1, KnownHolds, ResponseInvariantHolds, PTL DEF Spec

(* The same for an instance in which no connection breaks.                 *)
THEOREM AcknowledgedResponsesAreCompleted ==
  ASSUME SessionsSuffice, MaxDrops = 0, MaxPowerCycles = 0
  PROVE  Spec => AcknowledgedResponseIsCompleted
<1>1. TypeOK => Unbroken
  BY DEF TypeOK, ChannelTypeOK, BridgeTypeOK, Unbroken
<1>2. Known /\ [Unbroken /\ HeadDelivered => LET payload == Head(sendChain).payload IN
                                            Completed(payload) \/ Dropped(payload)]_vars
        => [HeadDelivered => LET payload == Head(sendChain).payload IN
                             Completed(payload) \/ Dropped(payload)]_vars
  BY <1>1 DEF Known
<1>3. QED BY <1>2, KnownHolds, DeliveredMessagesAreCompleted, PTL
          DEF AcknowledgedResponseIsCompleted

(***************************************************************************)
(* The answers, also when the connection breaks.  Until the first error    *)
(* frame every earlier request was answered, so that it was taken in and   *)
(* its handler is gone: all there is on the way belongs to the request     *)
(* being served, or is a catalog.  Of an earlier reply only the end can    *)
(* still be repeated, and it completes nothing under the session of the    *)
(* request being served.                                                   *)
(***************************************************************************)
(* No session of a request is one of the phone's own, which may go round.  *)
RequestsFit == MaxRequests < PhoneSessionBase

Undisturbed ==
  /\ \A n \in DOMAIN outcome : outcome[n].status \in {"pending", "answered"}
  /\ \A i \in DOMAIN received : received[i][1].of.kind # "update"

Open == pc \in {"pump", "notify", "pop"}

PendingIsOpen ==
  \A n \in DOMAIN outcome : outcome[n].status = "pending" <=> n = current /\ Open

PhoneStartsAfresh == phone \in {"down", "connecting"} => sendChain = <<>>

WasAccepted(n) == \E i \in DOMAIN accepted : IdOf(i) = n

EarlierWereAccepted == \A n \in 1..current : n # current \/ ~Open => WasAccepted(n)

(* The request being served has the newest session.                        *)
NewestSession ==
  /\ session_id <= current
  /\ Open => /\ session_id > 0
             /\ \A p \in UnderWay : p.chunk.of.id = current => p.session_id = session_id
             /\ \A k \in 0..MaxLen :
                  assembler.chunks[k] # NoChunk /\ assembler.chunks[k].of.id = current
                    => assembler.session_id = session_id

(***************************************************************************)
(* A reply that is due is that to the request being served, which none has *)
(* reached yet.                                                            *)
(***************************************************************************)
IsReply(payload)   == payload.kind \in ReplyFrames
FromPhone(payload) == payload.kind \in ReplyFrames \cup UpdateFrames
InUse(session)     == session \in 1..session_id \/ session >= PhoneSessionBase

NoReplyCompleted == \A i \in DOMAIN completed : ~IsReply(completed[i][1].of)

IsDue(payload, session) ==
  IsReply(payload) => Open /\ payload.id = current /\ session = session_id /\ NoReplyCompleted

(* A message of the chain some chunk of which is still to be acknowledged  *)
Unfinished(i) == i # 1 \/ position < ReplyLen

ChainIsDue ==
  linked => \A i \in DOMAIN sendChain :
    /\ InUse(sendChain[i].session) /\ FromPhone(sendChain[i].payload)
    /\ Unfinished(i) => IsDue(sendChain[i].payload, sendChain[i].session)

OneOfSession ==
  linked => \A i, j \in DOMAIN sendChain :
    sendChain[i].session = session_id /\ sendChain[j].session = session_id => i = j

WritesAreDue ==
  \A p \in Responses :
    /\ InUse(p.session_id)
    /\ p.type = "RESPONSE_CHUNK" => FromPhone(p.chunk.of) /\ IsDue(p.chunk.of, p.session_id)

(* No chunk of the session comes behind an end of it.                      *)
EndsOf(session) == {p \in Responses : p.type = "RESPONSE_END" /\ p.session_id = session}

EndsComeAfter ==
  /\ linked => \A i \in DOMAIN sendChain :
       Unfinished(i) /\ sendChain[i].session = session_id => EndsOf(session_id) = {}
  /\ \A i, j \in DOMAIN writes :
       i < j /\ writes[i] \in EndsOf(session_id) /\ writes[j].type = "RESPONSE_CHUNK"
         => writes[j].session_id # session_id

IncomingIsDue ==
  /\ incoming.session_id = NoSession \/ InUse(incoming.session_id)
  /\ \A k \in 0..MaxLen : incoming.chunks[k] # NoChunk =>
        FromPhone(incoming.chunks[k].of) /\ IsDue(incoming.chunks[k].of, incoming.session_id)

CompletedIsDue ==
  /\ \A i \in DOMAIN completed :
       /\ FromPhone(completed[i][1].of) /\ completed[i][1].of.kind # "update"
       /\ IsReply(completed[i][1].of) => Open /\ completed[i][1].of.id = current
  /\ \A i, j \in DOMAIN completed :
       IsReply(completed[i][1].of) /\ IsReply(completed[j][1].of) => i = j

(* No reply is on the way before its request is taken in, nor while a      *)
(* handler works on it.                                                    *)
Untouched ==
  /\ \A p \in Responses : p.session_id # session_id
  /\ incoming.session_id # session_id
  /\ linked => \A i \in DOMAIN sendChain : sendChain[i].session # session_id
  /\ NoReplyCompleted

OneHandler ==
  /\ \A h \in handlers : h.request[1].of.id = current /\ h.session = session_id
  /\ \A g, h \in handlers : g = h
  /\ handlers # {} => Open /\ WasAccepted(current)
  /\ Open /\ (handlers # {} \/ ~WasAccepted(current)) => Untouched

OnTheWay ==
  ChainIsDue /\ OneOfSession /\ WritesAreDue /\ EndsComeAfter /\ IncomingIsDue /\ CompletedIsDue

AnswersMatch == \A n \in DOMAIN outcome : outcome[n].status = "answered" => Answered(n, n)

OnTrack ==
  EarlierWereAccepted /\ NewestSession /\ OneHandler /\ OnTheWay /\ AnswersMatch

AnswerInvariant == PendingIsOpen /\ PhoneStartsAfresh /\ (Undisturbed => OnTrack)

(***************************************************************************)
(* Types                                                                   *)
(***************************************************************************)
LEMMA LinkTypes ==
  ASSUME TypeOK
  PROVE  /\ completed \in Seq(MessageType) /\ received \in Seq(MessageType)
         /\ sendChain \in Seq(Outgoing) /\ Len(sendChain) \in Nat
         /\ position \in 0..ReplyLen /\ ReplyLen \in 1..MaxLen /\ MaxLen \in Nat
         /\ (sendChain = <<>> => position = 0)
         /\ writes \in Seq(Packet) /\ session_id \in Nat
         /\ outcome \in Seq(Outcome) /\ asked \in Seq(Payload)
         /\ Len(outcome) = Len(asked) /\ current = Len(asked) /\ current \in Nat
         /\ current <= MaxRequests /\ MaxRequests \in Nat
         /\ accepted \in Seq([session : Nat, message : MessageType])
         /\ handlers \subseteq Handler
         /\ PhoneSessionBase \in Nat /\ PhoneSessionBase <= SessionLimit
         /\ nextPhoneSession \in Nat /\ nextPhoneSession >= PhoneSessionBase
         /\ incoming \in Assembler
BY ServiceAssumption, MaxLenAssumption, ChannelAssumption, LinkAssumption
DEF TypeOK, PicoTypeOK, PhoneTypeOK, ChannelTypeOK, BridgeTypeOK, current

LEMMA LinkNumbers ==
  ASSUME TypeOK
  PROVE  /\ current \in Nat /\ session_id \in Nat /\ MaxRequests \in Nat
         /\ SessionLimit \in Nat /\ PhoneSessionBase \in Nat /\ PhoneSessionBase <= SessionLimit
         /\ nextPhoneSession \in Nat /\ nextPhoneSession >= PhoneSessionBase
         /\ position \in 0..ReplyLen /\ ReplyLen \in Nat
BY LinkTypes, ChannelAssumption

LEMMA SessionsDoNotMeet ==
  ASSUME RequestsFit, TypeOK, NewestSession
  PROVE  session_id \in Nat /\ session_id < PhoneSessionBase
BY LinkTypes DEF RequestsFit, NewestSession

(***************************************************************************)
(* Steps that bring nothing new                                            *)
(***************************************************************************)
SameRequest ==
  /\ session_id' = session_id /\ asked' = asked /\ (Open' <=> Open)
  /\ NoReplyCompleted => NoReplyCompleted'

(* The first d messages of the chain are gone, and none is new.             *)
ChainShrinks ==
  linked' => \E d \in Nat : \A i \in DOMAIN sendChain' :
    /\ linked /\ i + d \in DOMAIN sendChain /\ sendChain'[i] = sendChain[i + d]
    /\ Unfinished(i)' => Unfinished(i + d)

LEMMA ChainStays ==
  ASSUME TypeOK', SameRequest, ChainShrinks, Responses' \subseteq Responses,
         ChainIsDue, OneOfSession, EndsComeAfter
  PROVE  /\ ChainIsDue' /\ OneOfSession'
         /\ (linked => \A i \in DOMAIN sendChain :
               Unfinished(i) /\ sendChain[i].session = session_id => EndsOf(session_id) = {})'
<1>1. ASSUME linked'
      PROVE  \E d \in Nat : \A i \in DOMAIN sendChain' :
               /\ linked /\ i + d \in DOMAIN sendChain /\ sendChain'[i] = sendChain[i + d]
               /\ Unfinished(i)' => Unfinished(i + d)
  BY <1>1 DEF ChainShrinks
<1>2. EndsOf(session_id) = {} => EndsOf(session_id)' = {}
  BY DEF EndsOf, SameRequest
<1>3. current' = current
  BY DEF SameRequest, current
<1>4. ChainIsDue'
  <2> SUFFICES ASSUME linked', NEW i \in DOMAIN sendChain'
               PROVE  (/\ InUse(sendChain[i].session) /\ FromPhone(sendChain[i].payload)
                       /\ Unfinished(i) => IsDue(sendChain[i].payload, sendChain[i].session))'
    BY DEF ChainIsDue
  <2>1. PICK j \in DOMAIN sendChain : linked /\ sendChain'[i] = sendChain[j]
                                        /\ (Unfinished(i)' => Unfinished(j))
    BY <1>1
  <2>2. /\ InUse(sendChain[j].session) /\ FromPhone(sendChain[j].payload)
        /\ Unfinished(j) => IsDue(sendChain[j].payload, sendChain[j].session)
    BY <2>1 DEF ChainIsDue
  <2>3. QED BY <1>3, <2>1, <2>2 DEF SameRequest, InUse, FromPhone, IsDue, IsReply
<1>5. OneOfSession'
  <2> SUFFICES ASSUME linked', NEW i \in DOMAIN sendChain', NEW j \in DOMAIN sendChain',
                      sendChain'[i].session = session_id', sendChain'[j].session = session_id'
               PROVE  i = j
    BY DEF OneOfSession
  <2>1. PICK d \in Nat : \A k \in DOMAIN sendChain' :
          linked /\ k + d \in DOMAIN sendChain /\ sendChain'[k] = sendChain[k + d]
    BY <1>1
  <2>2. i + d = j + d
    BY <2>1 DEF OneOfSession, SameRequest
  <2>3. i \in Nat /\ j \in Nat
    <3>1. sendChain' \in Seq(Outgoing)
      BY DEF TypeOK, PhoneTypeOK
    <3>2. QED BY <3>1
  <2>4. QED BY <2>2, <2>3
<1>6. ASSUME linked', NEW i \in DOMAIN sendChain', Unfinished(i)', sendChain'[i].session = session_id'
      PROVE  EndsOf(session_id)' = {}
  <2>1. PICK j \in DOMAIN sendChain : linked /\ sendChain'[i] = sendChain[j] /\ Unfinished(j)
    BY <1>1, <1>6
  <2>2. EndsOf(session_id) = {}
    BY <1>6, <2>1 DEF EndsComeAfter, SameRequest
  <2>3. QED BY <1>2, <2>2
<1>7. QED BY <1>4, <1>5, <1>6

LEMMA WritesStayDue ==
  ASSUME TypeOK, TypeOK', SameRequest, LessIsWritten, WritesAreDue, EndsComeAfter
  PROVE  /\ WritesAreDue'
         /\ (\A i, j \in DOMAIN writes :
               i < j /\ writes[i] \in EndsOf(session_id) /\ writes[j].type = "RESPONSE_CHUNK"
                 => writes[j].session_id # session_id)'
<1>1. Responses' \subseteq Responses
  BY LessIsUnderWay
<1>2. current' = current
  BY DEF SameRequest, current
<1>3. WritesAreDue'
  <2> SUFFICES ASSUME NEW p \in Responses'
               PROVE  (/\ InUse(p.session_id)
                       /\ p.type = "RESPONSE_CHUNK" =>
                            FromPhone(p.chunk.of) /\ IsDue(p.chunk.of, p.session_id))'
    BY DEF WritesAreDue
  <2>1. /\ InUse(p.session_id)
        /\ p.type = "RESPONSE_CHUNK" => FromPhone(p.chunk.of) /\ IsDue(p.chunk.of, p.session_id)
    BY <1>1 DEF WritesAreDue
  <2>2. QED BY <1>2, <2>1 DEF SameRequest, InUse, FromPhone, IsDue, IsReply
<1>4. ASSUME NEW i \in DOMAIN writes', NEW j \in DOMAIN writes', i < j,
             writes'[i] \in EndsOf(session_id)', writes'[j].type = "RESPONSE_CHUNK"
      PROVE  writes'[j].session_id # session_id'
  <2>1. IsResponse(writes'[i]) /\ IsResponse(writes'[j])
    BY <1>4 DEF EndsOf, Responses, IsResponse
  <2>2. PICK d \in Nat : \A k \in DOMAIN writes' : IsResponse(writes'[k]) =>
          k + d \in DOMAIN writes /\ writes'[k] = writes[k + d]
    BY DEF LessIsWritten
  <2>3. /\ i + d \in DOMAIN writes /\ writes'[i] = writes[i + d]
        /\ j + d \in DOMAIN writes /\ writes'[j] = writes[j + d]
    BY <2>1, <2>2
  <2>4. i + d < j + d
    <3>1. writes' \in Seq(Packet)
      BY DEF TypeOK, ChannelTypeOK
    <3>2. QED BY <1>4, <3>1
  <2>5. writes[i + d] \in EndsOf(session_id)
    BY <1>1, <1>4, <2>3 DEF EndsOf, SameRequest
  <2>6. QED BY <1>4, <2>3, <2>4, <2>5 DEF EndsComeAfter, SameRequest
<1>5. QED BY <1>3, <1>4

LEMMA IncomingStays ==
  ASSUME SameRequest, incoming' \in {EmptyAssembler, incoming}, IncomingIsDue
  PROVE  IncomingIsDue'
<1>0. /\ \A k \in 0..MaxLen : EmptyAssembler.chunks[k] = NoChunk
      /\ EmptyAssembler.session_id = NoSession
  BY DEF EmptyAssembler, NoChunks
<1>1. current' = current
  BY DEF SameRequest, current
<1>2. incoming'.session_id = NoSession \/ InUse(incoming.session_id)'
  BY <1>0 DEF IncomingIsDue, InUse, SameRequest
<1>3. ASSUME NEW k \in 0..MaxLen, incoming'.chunks[k] # NoChunk
      PROVE  (FromPhone(incoming.chunks[k].of) /\ IsDue(incoming.chunks[k].of, incoming.session_id))'
  <2>1. incoming' = incoming
    BY <1>0, <1>3
  <2>2. FromPhone(incoming.chunks[k].of) /\ IsDue(incoming.chunks[k].of, incoming.session_id)
    BY <1>3, <2>1 DEF IncomingIsDue
  <2>3. QED BY <1>1, <2>1, <2>2 DEF SameRequest, FromPhone, IsDue, IsReply
<1>4. QED BY <1>2, <1>3 DEF IncomingIsDue

(* The bridge polls one message, or none.                                  *)
Polled == completed # <<>> /\ completed' = Tail(completed)

LEMMA PolledMessages ==
  ASSUME TypeOK, Polled
  PROVE  /\ \A i \in DOMAIN completed' : i \in Nat /\ i + 1 \in DOMAIN completed
                                           /\ completed'[i] = completed[i + 1]
         /\ 1 \in DOMAIN completed /\ Head(completed) = completed[1]
<1> DEFINE S == MessageType
<1>1. completed \in Seq(S)
  BY LinkTypes
<1> HIDE DEF S
<1>2. QED BY <1>1 DEF Polled

LEMMA CompletedStays ==
  ASSUME TypeOK, asked' = asked, completed' = completed \/ Polled, CompletedIsDue
  PROVE  /\ (Open' <=> Open) => CompletedIsDue'
         /\ NoReplyCompleted => NoReplyCompleted'
<1>1. current' = current
  BY DEF current
<1>2. CASE completed' = completed
  BY <1>1, <1>2 DEF CompletedIsDue, NoReplyCompleted
<1>3. CASE Polled
  <2>1. \A i \in DOMAIN completed' : i \in Nat /\ i + 1 \in DOMAIN completed
                                           /\ completed'[i] = completed[i + 1]
    BY <1>3, PolledMessages
  <2>2. NoReplyCompleted => NoReplyCompleted'
    BY <2>1 DEF NoReplyCompleted
  <2>3. ASSUME Open' <=> Open, NEW i \in DOMAIN completed'
        PROVE  /\ FromPhone(completed'[i][1].of) /\ completed'[i][1].of.kind # "update"
               /\ IsReply(completed'[i][1].of) => Open' /\ completed'[i][1].of.id = current'
    <3>1. i + 1 \in DOMAIN completed /\ completed'[i] = completed[i + 1]
      BY <2>1
    <3>2. /\ FromPhone(completed[i + 1][1].of) /\ completed[i + 1][1].of.kind # "update"
          /\ IsReply(completed[i + 1][1].of) => Open /\ completed[i + 1][1].of.id = current
      BY <3>1 DEF CompletedIsDue
    <3>3. QED BY <1>1, <2>3, <3>1, <3>2
  <2>4. ASSUME NEW i \in DOMAIN completed', NEW j \in DOMAIN completed',
               IsReply(completed'[i][1].of), IsReply(completed'[j][1].of)
        PROVE  i = j
    <3>1. /\ i + 1 \in DOMAIN completed /\ completed'[i] = completed[i + 1] /\ i \in Nat
          /\ j + 1 \in DOMAIN completed /\ completed'[j] = completed[j + 1] /\ j \in Nat
      BY <2>1
    <3>2. i + 1 = j + 1
      BY <2>4, <3>1 DEF CompletedIsDue
    <3>3. QED BY <3>1, <3>2
  <2>5. QED BY <2>2, <2>3, <2>4 DEF CompletedIsDue
<1>4. QED BY <1>2, <1>3

LEMMA UntouchedStays ==
  ASSUME SameRequest, ChainShrinks, Responses' \subseteq Responses,
         incoming' \in {EmptyAssembler, incoming}, session_id # NoSession, Untouched
  PROVE  Untouched'
<1>1. ASSUME linked', NEW i \in DOMAIN sendChain' PROVE sendChain'[i].session # session_id'
  <2>1. PICK j \in DOMAIN sendChain : linked /\ sendChain'[i] = sendChain[j]
    BY <1>1 DEF ChainShrinks
  <2>2. QED BY <2>1 DEF Untouched, SameRequest
<1>2. EmptyAssembler.session_id = NoSession
  BY DEF EmptyAssembler
<1>3. QED BY <1>1, <1>2 DEF Untouched, SameRequest

LEMMA HandlersStayOne ==
  ASSUME SameRequest, accepted' = accepted, handlers' \subseteq handlers, OneHandler,
         Open /\ Untouched => Untouched'
  PROVE  OneHandler'
<1>1. current' = current /\ \A n : WasAccepted(n)' <=> WasAccepted(n)
  BY DEF SameRequest, current, WasAccepted, IdOf
<1>2. \A h \in handlers' : h.request[1].of.id = current' /\ h.session = session_id'
  BY <1>1 DEF OneHandler, SameRequest
<1>3. handlers' # {} => handlers # {}
  OBVIOUS
<1>4. WasAccepted(current)' <=> WasAccepted(current)
  BY <1>1 DEF WasAccepted, IdOf
<1>5. QED BY <1>2, <1>3, <1>4 DEF OneHandler, SameRequest

(* A step that serves the same request, takes nothing new in and brings    *)
(* nothing new under way.                                                  *)
BringsNothing ==
  /\ session_id' = session_id /\ asked' = asked /\ (Open' <=> Open)
  /\ accepted' = accepted /\ outcome' = outcome
  /\ incoming' \in {EmptyAssembler, incoming}
  /\ handlers' \subseteq handlers
  /\ completed' = completed \/ Polled
  /\ ChainShrinks /\ LessIsWritten

LEMMA NothingNew ==
  ASSUME TypeOK, TypeOK', OnTrack, BringsNothing, NewestSession' PROVE OnTrack'
<1>1. SameRequest
  BY CompletedStays DEF SameRequest, BringsNothing, OnTrack, OnTheWay
<1>2. Responses' \subseteq Responses
  BY LessIsUnderWay DEF BringsNothing
<1>3. OneHandler'
  <2>1. Open => session_id # NoSession
    BY DEF OnTrack, NewestSession, NoSession
  <2>2. QED
    BY <1>1, <1>2, <2>1, UntouchedStays, HandlersStayOne DEF OnTrack, BringsNothing
<1>4. OnTheWay'
  BY <1>1, <1>2, ChainStays, WritesStayDue, IncomingStays, CompletedStays
  DEF OnTrack, OnTheWay, BringsNothing, EndsComeAfter
<1>5. EarlierWereAccepted' /\ AnswersMatch'
  BY DEF OnTrack, BringsNothing, EarlierWereAccepted, AnswersMatch, Answered, WasAccepted, IdOf,
     current
<1>6. QED BY <1>3, <1>4, <1>5 DEF OnTrack

LEMMA NewestStays ==
  ASSUME TypeOK, RequestInvariant, OrderInvariant, NewestSession, StreamStep,
         session_id' = session_id, asked' = asked, Open' <=> Open,
         assembler' \in {EmptyAssembler, assembler}
  PROVE  NewestSession'
<1>1. UnderWay' \subseteq UnderWay
  BY StreamMoves DEF OrderInvariant
<1>2. \A k \in 0..MaxLen : EmptyAssembler.chunks[k] = NoChunk
  BY DEF EmptyAssembler, NoChunks
<1>3. QED BY <1>1, <1>2 DEF NewestSession, current

LEMMA CollectingStays ==
  ASSUME TypeOK, RequestInvariant, OrderInvariant, NewestSession, StreamStep,
         session_id' = session_id, asked' = asked, Open' <=> Open,
         ReceiveNotification, OnRequestChunk(Head(notifications))
  PROVE  NewestSession'
<1> DEFINE packet == Head(notifications)
<1>1. UnderWay' \subseteq UnderWay
  BY StreamMoves DEF OrderInvariant
<1>2. packet \in UnderWay /\ packet \in Packet
  <2>1. packet \in PacketsOf(notifications) /\ packet \in Packet
    BY PacketsOfQueue, QueueTypes DEF ReceiveNotification
  <2>2. QED BY <2>1 DEF UnderWay, OnRequestChunk
<1>3. assembler' = AssemblerAdd(assembler, packet)
  BY DEF OnRequestChunk
<1> HIDE DEF packet
<1> DEFINE kept == IF assembler.session_id \in {NoSession, packet.session_id}
                   THEN assembler.chunks ELSE NoChunks
<1>4. /\ assembler'.session_id = packet.session_id
      /\ assembler'.chunks = IF kept[packet.sequence] = NoChunk
                             THEN [kept EXCEPT ![packet.sequence] = packet.chunk] ELSE kept
  BY <1>3 DEF AssemblerAdd
<1>5. kept \in [0..MaxLen -> Chunk] /\ packet.sequence \in 0..MaxLen
  BY <1>2, NoPacketType DEF TypeOK, PhoneTypeOK, Assembler, NoChunks, Packet, Envelope
<1>6. ASSUME Open, NEW k \in 0..MaxLen, kept[k] # NoChunk, kept[k].of.id = current
      PROVE  packet.session_id = session_id
  <2>1. \A n \in 0..MaxLen : NoChunks[n] = NoChunk /\ EmptyAssembler.chunks[n] = NoChunk
    BY DEF EmptyAssembler, NoChunks
  <2>2. kept = assembler.chunks /\ assembler.session_id \in {NoSession, packet.session_id}
    BY <1>6, <2>1
  <2>3. assembler # EmptyAssembler
    BY <1>6, <2>1, <2>2
  <2>4. assembler.session_id = packet.session_id
    BY <2>2, <2>3 DEF RequestInvariant, OneRequestIsCollected
  <2>5. QED BY <1>6, <2>2, <2>4 DEF NewestSession
<1> HIDE DEF kept
<1>7. \A k \in 0..MaxLen : assembler'.chunks[k] \in {packet.chunk, kept[k]}
  BY <1>4, <1>5
<1>8. ASSUME Open, NEW k \in 0..MaxLen,
             assembler'.chunks[k] # NoChunk, assembler'.chunks[k].of.id = current
      PROVE  assembler'.session_id = session_id
  <2>1. CASE assembler'.chunks[k] = packet.chunk
    BY <1>2, <1>4, <1>8, <2>1 DEF NewestSession
  <2>2. CASE assembler'.chunks[k] = kept[k]
    BY <1>4, <1>6, <1>8, <2>2
  <2>3. QED BY <1>7, <2>1, <2>2
<1>9. QED BY <1>1, <1>8 DEF NewestSession, current

LEMMA SameChain ==
  ASSUME TypeOK, sendChain' = sendChain, position' = position \/ position' = position + 1,
         linked' => linked
  PROVE  ChainShrinks
<1>1. \A i \in DOMAIN sendChain : i + 0 = i
  BY LinkTypes
<1>2. \A i \in DOMAIN sendChain : Unfinished(i)' => Unfinished(i)
  BY LinkTypes DEF Unfinished
<1>3. 0 \in Nat
  OBVIOUS
<1>4. QED BY <1>1, <1>2, <1>3 DEF ChainShrinks

LEMMA NextOfChain ==
  ASSUME TypeOK, sendChain # <<>>, sendChain' = Tail(sendChain), linked' => linked
  PROVE  ChainShrinks
<1>1. \A i \in DOMAIN sendChain' : /\ i + 1 \in DOMAIN sendChain /\ i + 1 # 1
                                   /\ sendChain'[i] = sendChain[i + 1]
  <2> DEFINE S == Outgoing
  <2>1. sendChain \in Seq(S)
    BY LinkTypes
  <2> HIDE DEF S
  <2>2. QED BY <2>1
<1>2. 1 \in Nat
  OBVIOUS
<1>3. QED BY <1>1, <1>2 DEF ChainShrinks, Unfinished

LEMMA EmptyChain == ASSUME sendChain' = <<>> PROVE ChainShrinks
<1>1. 0 \in Nat /\ DOMAIN sendChain' = {}
  OBVIOUS
<1>2. QED BY <1>1 DEF ChainShrinks

LEMMA GluedIsLess ==
  ASSUME TypeOK, NEW n \in 2..Len(writes), writes' = SubSeq(writes, n + 1, Len(writes))
  PROVE  LessIsWritten
<1>1. \A j \in DOMAIN writes' : j + n \in DOMAIN writes /\ writes'[j] = writes[j + n]
  BY QueueTypes
<1>2. n \in Nat
  BY QueueTypes
<1>3. QED BY <1>1, <1>2 DEF LessIsWritten

LEMMA NoWritesAreLess == ASSUME writes' = <<>> PROVE LessIsWritten
<1>1. 0 \in Nat /\ DOMAIN writes' = {}
  OBVIOUS
<1>2. QED BY <1>1 DEF LessIsWritten

LEMMA BridgeWaits ==
  ASSUME Known, TypeOK', OnTrack,
         TransportReady \/ Pump \/ NotifyWaiting \/ NothingCompleted \/ TakeCatalog
  PROVE  OnTrack'
<1>0. TypeOK /\ RequestInvariant /\ OrderInvariant
  BY DEF Known
<1>1. /\ UNCHANGED <<session_id, asked, outcome, incoming, writes, linked>>
      /\ UNCHANGED <<accepted, handlers, sendChain, position, assembler>>
      /\ Open' <=> Open
  BY DEF TransportReady, Pump, NotifyWaiting, NotifyFails, NothingCompleted, TakeCatalog,
     Open, PumpRetry, PumpNext, PumpIdle, PumpNotify, PumpNotifyRaises, NotifyRaises,
     PopCompleted, channelVars, picoVars, phoneVars
<1>2. completed' = completed \/ Polled
  BY DEF TransportReady, Pump, NotifyWaiting, NotifyFails, NothingCompleted, TakeCatalog,
     Polled, PumpRetry, PumpNext, PumpIdle, PumpNotify, PumpNotifyRaises, NotifyRaises,
     PopCompleted, picoVars
<1>3. StreamStep
  BY DEF TransportReady, Pump, NotifyWaiting, NotifyFails, NothingCompleted, TakeCatalog,
     StreamStep, PumpRetry, PumpNext, PumpIdle, PumpNotify, PumpNotifyRaises, NotifyRaises,
     Notify, PopCompleted, channelVars, picoVars
<1>4. ChainShrinks /\ LessIsWritten
  BY <1>0, <1>1, SameChain, SameWrites
<1>5. NewestSession'
  BY <1>0, <1>1, <1>3, NewestStays DEF OnTrack
<1>6. QED BY <1>0, <1>1, <1>2, <1>4, <1>5, NothingNew DEF BringsNothing

LEMMA IrqBringsNothing ==
  ASSUME Known, TypeOK', OnTrack, Irq,
         ~(IrqWrite /\ OnResponseChunk(Head(writes))), ~(IrqWrite /\ OnResponseEnd(Head(writes)))
  PROVE  OnTrack'
<1>0. TypeOK /\ RequestInvariant /\ OrderInvariant
  BY DEF Known
<1>1. /\ UNCHANGED <<session_id, asked, outcome, incoming, completed>>
      /\ UNCHANGED <<accepted, handlers, sendChain, position, assembler>>
      /\ (linked' => linked) /\ (Open' <=> Open)
  BY DEF Irq, IrqWrite, IrqGluedWrites, IrqDisconnect, OnAck, Open, picoVars, phoneVars,
     bridgeVars
<1>2. LessIsWritten
  BY <1>0, ReadingIsLess, GluedIsLess, NoWritesAreLess
  DEF Irq, IrqWrite, IrqGluedWrites, IrqDisconnect
<1>3. StreamStep
  BY <1>0, IrqMovesStream
<1>4. ChainShrinks
  BY <1>0, <1>1, SameChain
<1>5. NewestSession'
  BY <1>0, <1>1, <1>3, NewestStays DEF OnTrack
<1>6. QED BY <1>0, <1>1, <1>2, <1>4, <1>5, NothingNew DEF BringsNothing

LEMMA PhoneBringsNothing ==
  ASSUME Known, TypeOK', PhoneStartsAfresh, OnTrack,
         \/ Connect \/ Discover \/ Subscribe \/ Disconnect \/ MissNotification
         \/ WriteGivesUp \/ WriteFails,
         UNCHANGED <<picoVars, bridgeVars>>
  PROVE  OnTrack'
<1>0. TypeOK /\ RequestInvariant /\ OrderInvariant
  BY DEF Known
<1>1. /\ UNCHANGED <<session_id, asked, outcome, incoming, completed, accepted, writes>>
      /\ handlers' \subseteq handlers /\ assembler' \in {EmptyAssembler, assembler}
      /\ Open' <=> Open
  BY DEF Connect, Discover, Subscribe, Disconnect, MissNotification, WriteGivesUp, WriteFails,
     Open, picoVars, phoneVars, channelVars, bridgeVars
<1>2. ChainShrinks
  <2>1. CASE Connect \/ Disconnect
    BY <2>1, EmptyChain DEF Connect, Disconnect, PhoneStartsAfresh
  <2>2. CASE Discover \/ Subscribe \/ MissNotification
    BY <1>0, <2>2, SameChain DEF Discover, Subscribe, MissNotification, phoneVars, channelVars
  <2>3. CASE WriteGivesUp \/ WriteFails
    BY <1>0, <2>3, NextOfChain DEF WriteGivesUp, WriteFails, NextInChain, channelVars
  <2>4. QED BY <2>1, <2>2, <2>3
<1>3. StreamStep
  BY DEF Connect, Discover, Subscribe, Disconnect, MissNotification, WriteGivesUp, WriteFails,
     StreamStep, picoVars, channelVars
<1>4. NewestSession'
  BY <1>0, <1>1, <1>3, NewestStays DEF OnTrack
<1>5. LessIsWritten
  BY <1>0, <1>1, SameWrites
<1>6. QED BY <1>0, <1>1, <1>2, <1>4, <1>5, NothingNew DEF BringsNothing

LEMMA ReceivingBringsNothing ==
  ASSUME Known, TypeOK', OnTrack, ReceiveNotification, UNCHANGED <<picoVars, bridgeVars>>,
         \/ ~OnRequestEnd(Head(notifications))
         \/ ~CanFinish(assembler, Head(notifications).session_id)
  PROVE  OnTrack'
<1> DEFINE packet == Head(notifications)
<1>0. TypeOK /\ RequestInvariant /\ OrderInvariant
  BY DEF Known
<1>1. /\ UNCHANGED <<session_id, asked, outcome, incoming, completed, accepted, handlers>>
      /\ linked' = linked /\ (Open' <=> Open) /\ notifications # <<>>
  BY DEF ReceiveNotification, OnPicoAck, OnRequestChunk, OnRequestEnd, OnUndecodable,
     Open, picoVars, bridgeVars
<1>2. packet \in Packet
  BY <1>0, <1>1, PacketsOfQueue, QueueTypes
<1>3. StreamStep
  BY DEF ReceiveNotification, StreamStep, picoVars
<1>4. LessIsWritten
  BY <1>0, <1>2, SameWrites, AcksAreLess
  DEF ReceiveNotification, OnPicoAck, OnRequestChunk, OnRequestEnd, OnUndecodable
<1>5. ChainShrinks
  <2>1. CASE sendChain' = sendChain /\ (position' = position \/ position' = position + 1)
    BY <1>0, <1>1, <2>1, SameChain
  <2>2. CASE OnPicoAck(packet) /\ attempt > 0 /\ sendChain' = Tail(sendChain)
    <3>1. sendChain # <<>>
      BY <1>0, <2>2 DEF TypeOK, PhoneTypeOK
    <3>2. QED BY <1>0, <1>1, <2>2, <3>1, NextOfChain
  <2>3. QED
    BY <2>1, <2>2 DEF ReceiveNotification, OnPicoAck, OnRequestChunk, OnRequestEnd,
       OnUndecodable, NextInChain
<1>6. NewestSession'
  <2>1. CASE OnRequestChunk(packet)
    BY <1>0, <1>1, <1>3, <2>1, CollectingStays DEF OnTrack
  <2>2. CASE ~OnRequestChunk(packet)
    <3>1. assembler' = assembler
      BY <2>2 DEF ReceiveNotification, OnPicoAck, OnRequestEnd, OnUndecodable, AssemblerFinish
    <3>2. QED BY <1>0, <1>1, <1>3, <3>1, NewestStays DEF OnTrack
  <2>3. QED BY <2>1, <2>2
<1>7. QED BY <1>0, <1>1, <1>4, <1>5, <1>6, NothingNew DEF BringsNothing

(***************************************************************************)
(* A request is taken in: it is the one being served.                      *)
(***************************************************************************)
LEMMA TakesTheCurrent ==
  ASSUME Known, OnTrack, NEW session, CanFinish(assembler, session)
  PROVE  /\ Assembled(assembler)[1].of.id = current /\ session = session_id
         /\ Open /\ handlers = {} /\ Untouched
<1>0. TypeOK /\ RequestInvariant /\ OrderInvariant
  BY DEF Known
<1>1. /\ assembler.session_id = session
      /\ 1 \in 1..assembler.total_length /\ 0 \in 0..MaxLen /\ assembler.chunks[0] # NoChunk
  <2>1. /\ assembler.session_id = session /\ session # NoSession
        /\ \A k \in 0..(assembler.total_length - 1) : assembler.chunks[k] # NoChunk
    BY DEF CanFinish
  <2>2. assembler.total_length \in Nat /\ assembler.total_length > 0
    BY <1>0, <2>1, MaxLenAssumption DEF TypeOK, PhoneTypeOK, Assembler
  <2>3. QED BY <2>1, <2>2, MaxLenAssumption
<1> DEFINE newest == assembler.chunks[0].of.id
<1>2. Assembled(assembler)[1].of.id = newest
  BY <1>1 DEF Assembled
<1>3. newest \in 1..current
  BY <1>0, <1>1, IdsWereAsked DEF OrderInvariant, current
<1>4. ~WasAccepted(newest)
  <2>1. \A i \in DOMAIN accepted : IdOf(i) < newest
    BY <1>0, <1>1 DEF OrderInvariant, NothingComesTwice
  <2>2. newest \in Nat
    <3>1. current \in Nat
      BY <1>0, LinkNumbers
    <3>2. QED BY <1>3, <3>1
  <2> HIDE DEF newest
  <2>3. QED BY <2>1, <2>2 DEF WasAccepted
<1>5. newest = current /\ Open
  BY <1>3, <1>4 DEF OnTrack, EarlierWereAccepted
<1>6. assembler.session_id = session_id
  BY <1>1, <1>5 DEF OnTrack, NewestSession
<1>7. handlers = {} /\ Untouched
  BY <1>4, <1>5 DEF OnTrack, OneHandler
<1>8. QED BY <1>1, <1>2, <1>5, <1>6, <1>7

LEMMA AcceptingIsOnTrack ==
  ASSUME Known, TypeOK', OnTrack, ReceiveNotification, UNCHANGED <<picoVars, bridgeVars>>,
         OnRequestEnd(Head(notifications)), CanFinish(assembler, Head(notifications).session_id)
  PROVE  OnTrack'
<1> DEFINE packet == Head(notifications)
           request == Assembled(assembler)
           entry == [session |-> packet.session_id, message |-> request]
           h == [id |-> Len(accepted) + 1, session |-> packet.session_id,
                 request |-> request, state |-> "acking"]
<1>0. TypeOK /\ RequestInvariant /\ OrderInvariant
  BY DEF Known
<1>1. /\ request[1].of.id = current /\ packet.session_id = session_id
      /\ Open /\ handlers = {} /\ Untouched
  BY TakesTheCurrent
<1>2. /\ accepted' = Append(accepted, entry) /\ handlers' = handlers \cup {h}
      /\ assembler' = EmptyAssembler /\ Write(AckOf(packet))
      /\ UNCHANGED <<session_id, asked, outcome, incoming, completed, sendChain, position>>
      /\ linked' = linked /\ (Open' <=> Open) /\ packet \in Packet
  BY <1>0, PacketsOfQueue, QueueTypes
  DEF OnRequestEnd, AssemblerFinish, ReceiveNotification, Open, picoVars, bridgeVars
<1>3. h.request[1].of.id = current /\ h.session = session_id /\ entry.message[1].of.id = current
  BY <1>1
<1> HIDE DEF packet, h, entry, request
<1>4. /\ \A i \in DOMAIN accepted : i \in DOMAIN accepted' /\ accepted'[i] = accepted[i]
      /\ Len(accepted) + 1 \in DOMAIN accepted' /\ accepted'[Len(accepted) + 1] = entry
  <2> DEFINE Entry == [session : Nat, message : MessageType]
  <2>1. accepted \in Seq(Entry)
    BY <1>0, LinkTypes
  <2> HIDE DEF Entry
  <2>2. QED BY <1>2, <2>1
<1>5. current' = current /\ WasAccepted(current)'
  <2>1. current' = current
    BY <1>2 DEF current
  <2>2. QED BY <1>3, <1>4, <2>1 DEF WasAccepted, IdOf
<1>6. \A n \in 1..current : n # current => WasAccepted(n)'
  <2>1. \A n : WasAccepted(n) => WasAccepted(n)'
    BY <1>4 DEF WasAccepted, IdOf
  <2>2. QED BY <2>1 DEF OnTrack, EarlierWereAccepted
<1>7. EarlierWereAccepted'
  <2> SUFFICES ASSUME NEW n \in 1..current' PROVE WasAccepted(n)'
    BY DEF EarlierWereAccepted
  <2>1. CASE n = current
    BY <1>5, <2>1 DEF WasAccepted
  <2>2. CASE n # current
    BY <1>5, <1>6, <2>2
  <2>3. QED BY <2>1, <2>2
<1>8. NewestSession'
  <2>1. StreamStep
    BY DEF ReceiveNotification, StreamStep, picoVars
  <2>2. QED BY <1>0, <1>2, <2>1, NewestStays DEF OnTrack
<1>9. /\ ChainShrinks /\ LessIsWritten /\ Responses' \subseteq Responses
      /\ SameRequest
  <2>1. ChainShrinks /\ LessIsWritten
    BY <1>0, <1>2, SameChain, AcksAreLess
  <2>2. SameRequest
    BY <1>2 DEF SameRequest, NoReplyCompleted
  <2>3. QED BY <2>1, <2>2, LessIsUnderWay
<1>10. OneHandler'
  <2>1. Untouched'
    BY <1>1, <1>2, <1>9, UntouchedStays DEF OnTrack, NewestSession, NoSession
  <2>2. handlers' = {h}
    BY <1>1, <1>2
  <2>3. QED BY <1>1, <1>2, <1>3, <1>5, <2>1, <2>2 DEF OneHandler
<1>11. OnTheWay'
  BY <1>0, <1>2, <1>9, ChainStays, WritesStayDue, IncomingStays, CompletedStays
  DEF OnTrack, OnTheWay, EndsComeAfter
<1>12. AnswersMatch'
  BY <1>2 DEF OnTrack, AnswersMatch, Answered
<1>13. QED BY <1>7, <1>8, <1>10, <1>11, <1>12 DEF OnTrack

(***************************************************************************)
(* The phone queues and writes                                             *)
(***************************************************************************)
LEMMA CallingIsOnTrack ==
  ASSUME Known, TypeOK', OnTrack, NEW h \in handlers, CallRelay(h),
         UNCHANGED <<picoVars, bridgeVars>>
  PROVE  OnTrack'
<1> DEFINE inFlight == {g \in handlers : g.state = "replying" /\ g.session = h.session}
           called == [h EXCEPT !.state = "replying", !.request = h.request]
<1>0. TypeOK /\ RequestInvariant /\ OrderInvariant
  BY DEF Known
<1>1. inFlight = {} /\ handlers = {h}
  BY DEF OnTrack, OneHandler, CallRelay
<1>2. handlers' = {called}
  BY <1>1 DEF CallRelay
<1>3. called.session = h.session /\ called.request = h.request
  BY <1>0, LinkTypes DEF Handler
<1> HIDE DEF called
<1>4. /\ UNCHANGED <<session_id, asked, outcome, incoming, completed, accepted, writes>>
      /\ UNCHANGED <<sendChain, position, assembler, linked>>
      /\ (Open' <=> Open) /\ StreamStep
  BY DEF CallRelay, Open, StreamStep, picoVars, channelVars, bridgeVars
<1>5. SameRequest /\ ChainShrinks /\ LessIsWritten /\ Responses' \subseteq Responses
  <2>1. SameRequest
    BY <1>4 DEF SameRequest, NoReplyCompleted
  <2>2. QED BY <1>0, <1>4, <2>1, SameChain, SameWrites, LessIsUnderWay
<1>6. OneHandler'
  <2>1. current' = current /\ WasAccepted(current)' /\ Open /\ Untouched
    BY <1>1, <1>4 DEF OnTrack, OneHandler, current, WasAccepted, IdOf
  <2>4. Untouched'
    BY <1>4, <1>5, <2>1, UntouchedStays DEF OnTrack, NewestSession, NoSession
  <2>2. h.request[1].of.id = current /\ h.session = session_id
    BY DEF OnTrack, OneHandler
  <2>3. QED BY <1>2, <1>3, <1>4, <2>1, <2>2, <2>4 DEF OneHandler
<1>7. OnTheWay'
  BY <1>0, <1>4, <1>5, ChainStays, WritesStayDue, IncomingStays, CompletedStays
  DEF OnTrack, OnTheWay, EndsComeAfter
<1>8. NewestSession'
  BY <1>0, <1>4, NewestStays DEF OnTrack
<1>9. EarlierWereAccepted' /\ AnswersMatch'
  BY <1>4 DEF OnTrack, EarlierWereAccepted, AnswersMatch, Answered, WasAccepted, IdOf, current
<1>10. QED BY <1>6, <1>7, <1>8, <1>9 DEF OnTrack

(* One message more on the chain                                           *)
Queues(message) ==
  /\ sendChain' = Append(sendChain, message)
  /\ position' = position /\ linked' = linked

LEMMA QueuedMessages ==
  ASSUME TypeOK, NEW message \in Outgoing, Queues(message)
  PROVE  /\ \A i \in DOMAIN sendChain : /\ i \in DOMAIN sendChain' /\ sendChain'[i] = sendChain[i]
                                        /\ Unfinished(i)' <=> Unfinished(i)
         /\ \A i \in DOMAIN sendChain' :
              i \in DOMAIN sendChain \/ (i = Len(sendChain) + 1 /\ sendChain'[i] = message)
<1> DEFINE S == Outgoing
<1>1. sendChain \in Seq(S) /\ message \in S
  BY LinkTypes
<1> HIDE DEF S
<1>2. \A i \in DOMAIN sendChain : i \in DOMAIN sendChain' /\ sendChain'[i] = sendChain[i]
  BY <1>1 DEF Queues
<1>3. \A i \in DOMAIN sendChain' :
        i \in DOMAIN sendChain \/ (i = Len(sendChain) + 1 /\ sendChain'[i] = message)
  BY <1>1 DEF Queues
<1>4. \A i \in DOMAIN sendChain : Unfinished(i)' <=> Unfinished(i)
  BY DEF Queues, Unfinished
<1>5. QED BY <1>2, <1>3, <1>4

(* The message must be due, and new for its session.                       *)
LEMMA QueueingIsOnTrack ==
  ASSUME TypeOK, TypeOK', SameRequest, NEW message \in Outgoing, Queues(message),
         ChainIsDue, OneOfSession, EndsComeAfter, Responses' = Responses,
         FromPhone(message.payload), linked => InUse(message.session),
         linked => IsDue(message.payload, message.session),
         linked /\ message.session = session_id =>
           /\ EndsOf(session_id) = {}
           /\ \A i \in DOMAIN sendChain : sendChain[i].session # session_id
  PROVE  /\ ChainIsDue' /\ OneOfSession'
         /\ (linked => \A i \in DOMAIN sendChain :
               Unfinished(i) /\ sendChain[i].session = session_id => EndsOf(session_id) = {})'
<1>1. \A i \in DOMAIN sendChain' :
        \/ i \in DOMAIN sendChain /\ sendChain'[i] = sendChain[i] /\ (Unfinished(i)' => Unfinished(i))
        \/ i = Len(sendChain) + 1 /\ sendChain'[i] = message
  BY QueuedMessages
<1>2. /\ current' = current /\ linked' = linked /\ EndsOf(session_id)' = EndsOf(session_id)
      /\ session_id' = session_id
  BY DEF Queues, SameRequest, EndsOf, current
<1>3. ChainIsDue'
  <2> SUFFICES ASSUME linked', NEW i \in DOMAIN sendChain'
               PROVE  (/\ InUse(sendChain[i].session) /\ FromPhone(sendChain[i].payload)
                       /\ Unfinished(i) => IsDue(sendChain[i].payload, sendChain[i].session))'
    BY DEF ChainIsDue
  <2>1. CASE i \in DOMAIN sendChain /\ sendChain'[i] = sendChain[i] /\ (Unfinished(i)' => Unfinished(i))
    <3>1. /\ InUse(sendChain[i].session) /\ FromPhone(sendChain[i].payload)
          /\ Unfinished(i) => IsDue(sendChain[i].payload, sendChain[i].session)
      BY <1>2, <2>1 DEF ChainIsDue
    <3>2. QED BY <1>2, <2>1, <3>1 DEF SameRequest, InUse, FromPhone, IsDue, IsReply
  <2>2. CASE sendChain'[i] = message
    BY <1>2, <2>2 DEF SameRequest, InUse, FromPhone, IsDue, IsReply
  <2>3. QED BY <1>1, <2>1, <2>2
<1>4. OneOfSession'
  BY <1>1, <1>2 DEF OneOfSession
<1>5. QED BY <1>1, <1>2, <1>3, <1>4 DEF EndsComeAfter

LEMMA ReplyingIsOnTrack ==
  ASSUME RequestsFit, Known, TypeOK', OnTrack, NEW h \in handlers, NEW kind \in ReplyKinds,
         RelayReplies(h, kind), UNCHANGED <<picoVars, bridgeVars>>
  PROVE  OnTrack'
<1> DEFINE sharing == {g \in handlers : g.state = "replying" /\ g.session = h.session}
           message == [session |-> h.session, payload |-> ReplyTo(h.request, kind)]
           responses == [i \in 1..Cardinality(sharing) |-> message]
<1>0. TypeOK /\ RequestInvariant /\ OrderInvariant
  BY DEF Known
<1>1. sharing = {h} /\ handlers = {h} /\ Cardinality(sharing) = 1
  <2>1. sharing = {h} /\ handlers = {h}
    BY DEF OnTrack, OneHandler, RelayReplies
  <2>2. QED BY <2>1, FS_Singleton
<1>2. /\ Open /\ Untouched /\ h.request[1].of.id = current /\ h.session = session_id
  BY <1>1 DEF OnTrack, OneHandler
<1>3. h \in Handler /\ h.request \in MessageType /\ h.session \in Nat
  BY <1>0, LinkTypes DEF Handler
<1>4. /\ message \in Outgoing /\ message.session = session_id
      /\ message.payload.kind \in ReplyFrames /\ message.payload.id = current
  <2>1. message.payload \in [kind : PayloadKinds, id : Nat, len : {ReplyLen}]
    BY <1>3, ReplyToType
  <2>2. message.payload.kind = kind /\ message.payload.id = current
    BY <1>2 DEF ReplyTo
  <2>3. QED BY <1>2, <1>3, <2>1, <2>2, LinkAssumption DEF Outgoing
<1> HIDE DEF message
<1>5. /\ UNCHANGED <<session_id, asked, outcome, incoming, completed, accepted, writes>>
      /\ UNCHANGED <<position, assembler, linked>>
      /\ (Open' <=> Open) /\ StreamStep /\ handlers' = {}
  BY <1>1 DEF RelayReplies, Open, StreamStep, picoVars, channelVars, bridgeVars
<1>6. sendChain' = sendChain \/ Queues(message)
  <2>1. sendChain' = sendChain \/ sendChain' = sendChain \o responses
    BY DEF RelayReplies, message
  <2>2. responses = [i \in 1..1 |-> message]
    BY <1>1
  <2>3. sendChain \o [i \in 1..1 |-> message] = Append(sendChain, message)
    <3> DEFINE S == Outgoing
    <3>1. sendChain \in Seq(S) /\ message \in S
      BY <1>0, <1>4, LinkTypes
    <3> HIDE DEF S
    <3>2. QED BY <3>1, AppendOne
  <2>4. QED BY <1>5, <2>1, <2>2, <2>3 DEF Queues
<1>7. SameRequest /\ LessIsWritten /\ Responses' = Responses
  BY <1>0, <1>5, SameWrites DEF SameRequest, NoReplyCompleted, Responses
<1>8. /\ ChainIsDue' /\ OneOfSession'
      /\ (linked => \A i \in DOMAIN sendChain :
            Unfinished(i) /\ sendChain[i].session = session_id => EndsOf(session_id) = {})'
  <2>1. CASE sendChain' = sendChain
    <3>1. ChainShrinks
      BY <1>0, <1>5, <2>1, SameChain
    <3>2. QED BY <1>7, <3>1, ChainStays DEF OnTrack, OnTheWay
  <2>2. CASE Queues(message)
    <3>1. FromPhone(message.payload) /\ InUse(message.session)
            /\ IsDue(message.payload, message.session)
      <4>1. session_id \in 1..session_id
        BY <1>0, <1>2, LinkTypes DEF OnTrack, NewestSession
      <4>2. QED BY <1>2, <1>4, <4>1 DEF FromPhone, InUse, IsDue, Untouched
    <3>2. EndsOf(session_id) = {}
            /\ (linked => \A i \in DOMAIN sendChain : sendChain[i].session # session_id)
      BY <1>2 DEF Untouched, EndsOf
    <3>3. QED BY <1>0, <1>4, <1>7, <2>2, <3>1, <3>2, QueueingIsOnTrack DEF OnTrack, OnTheWay
  <2>3. QED BY <1>6, <2>1, <2>2
<1>9. OneHandler'
  <2>1. WasAccepted(current)'
    BY <1>1, <1>5 DEF OnTrack, OneHandler, WasAccepted, IdOf, current
  <2>2. QED BY <1>5, <2>1 DEF OneHandler
<1>10. OnTheWay'
  BY <1>0, <1>5, <1>7, <1>8, WritesStayDue, IncomingStays, CompletedStays
  DEF OnTrack, OnTheWay, EndsComeAfter
<1>11. NewestSession'
  BY <1>0, <1>5, NewestStays DEF OnTrack
<1>12. EarlierWereAccepted' /\ AnswersMatch'
  BY <1>5 DEF OnTrack, EarlierWereAccepted, AnswersMatch, Answered, WasAccepted, IdOf, current
<1>13. QED BY <1>9, <1>10, <1>11, <1>12 DEF OnTrack

LEMMA UpdatingIsOnTrack ==
  ASSUME RequestsFit, Known, TypeOK', OnTrack, NEW kind \in UpdateKinds,
         SendAsyncUpdate(kind), UNCHANGED <<picoVars, bridgeVars>>
  PROVE  OnTrack'
<1> DEFINE message == [session |-> nextPhoneSession',
                       payload |-> [kind |-> kind, id |-> updates + 1, len |-> ReplyLen]]
<1>0. TypeOK /\ RequestInvariant /\ OrderInvariant
  BY DEF Known
<1>1. /\ message \in Outgoing /\ message.payload.kind \in UpdateFrames
      /\ message.session >= PhoneSessionBase /\ message.session # session_id
  <2>1. nextPhoneSession' \in Nat /\ nextPhoneSession' >= PhoneSessionBase
    <3>1. nextPhoneSession' \in {PhoneSessionBase, nextPhoneSession + 1}
      BY DEF SendAsyncUpdate
    <3>2. QED BY <1>0, <3>1, LinkNumbers
  <2>2. session_id \in Nat /\ session_id < PhoneSessionBase
    BY <1>0, SessionsDoNotMeet DEF OnTrack
  <2>3. updates + 1 \in Nat /\ kind \in UpdateFrames
    BY <1>0, LinkAssumption DEF TypeOK, PhoneTypeOK
  <2>4. PhoneSessionBase \in Nat
    BY <1>0, LinkTypes
  <2>5. message \in Outgoing
    BY <2>1, <2>3 DEF Outgoing, PayloadKinds
  <2>6. QED BY <2>1, <2>2, <2>3, <2>4, <2>5
<1>2. Queues(message)
  BY DEF SendAsyncUpdate, Queues, channelVars
<1> HIDE DEF message
<1>3. /\ UNCHANGED <<session_id, asked, outcome, incoming, completed, accepted, writes>>
      /\ UNCHANGED <<handlers, assembler, linked>>
      /\ (Open' <=> Open) /\ StreamStep
  BY DEF SendAsyncUpdate, Open, StreamStep, picoVars, channelVars, bridgeVars
<1>4. SameRequest /\ LessIsWritten /\ Responses' = Responses
  BY <1>0, <1>3, SameWrites DEF SameRequest, NoReplyCompleted, Responses
<1>5. /\ ChainIsDue' /\ OneOfSession'
      /\ (linked => \A i \in DOMAIN sendChain :
            Unfinished(i) /\ sendChain[i].session = session_id => EndsOf(session_id) = {})'
  <2>1. FromPhone(message.payload) /\ InUse(message.session)
          /\ IsDue(message.payload, message.session)
    BY <1>1 DEF FromPhone, InUse, IsDue, IsReply, ReplyFrames, UpdateFrames
  <2>2. QED BY <1>0, <1>1, <1>2, <1>4, <2>1, QueueingIsOnTrack DEF OnTrack, OnTheWay
<1>6. OneHandler'
  <2>1. Untouched => Untouched'
    <3>1. \A i \in DOMAIN sendChain' :
            (i \in DOMAIN sendChain /\ sendChain'[i] = sendChain[i]) \/ sendChain'[i] = message
      BY <1>0, <1>1, <1>2, QueuedMessages
    <3>2. QED BY <1>1, <1>3, <1>4, <3>1 DEF Untouched, SameRequest
  <2>2. QED BY <1>3, <1>4, <2>1, HandlersStayOne DEF OnTrack
<1>7. OnTheWay'
  BY <1>0, <1>3, <1>4, <1>5, WritesStayDue, IncomingStays, CompletedStays
  DEF OnTrack, OnTheWay, EndsComeAfter
<1>8. NewestSession'
  BY <1>0, <1>3, NewestStays DEF OnTrack
<1>9. EarlierWereAccepted' /\ AnswersMatch'
  BY <1>3 DEF OnTrack, EarlierWereAccepted, AnswersMatch, Answered, WasAccepted, IdOf, current
<1>10. QED BY <1>6, <1>7, <1>8, <1>9 DEF OnTrack

(* The packet that is being written                                        *)
LEMMA CurrentPacketFields ==
  ASSUME TypeOK, sendChain # <<>>
  PROVE  /\ 1 \in DOMAIN sendChain /\ CurrentPacket.session_id = sendChain[1].session
         /\ Unfinished(1) => /\ CurrentPacket.type = "RESPONSE_CHUNK"
                             /\ CurrentPacket.chunk.of = sendChain[1].payload
         /\ ~Unfinished(1) => CurrentPacket.type = "RESPONSE_END"
<1>1. 1 \in DOMAIN sendChain /\ Head(sendChain) = sendChain[1] /\ sendChain[1] \in Outgoing
  <2> DEFINE S == Outgoing
  <2>1. sendChain \in Seq(S)
    BY LinkTypes
  <2> HIDE DEF S
  <2>2. 1 \in DOMAIN sendChain /\ Head(sendChain) = sendChain[1] /\ sendChain[1] \in S
    BY <2>1
  <2>3. QED BY <2>2 DEF S
<1> DEFINE payload == sendChain[1].payload
           session == sendChain[1].session
<1>2. payload.len = ReplyLen
  BY <1>1 DEF Outgoing
<1>3. /\ position \in 0..ReplyLen /\ ReplyLen \in Nat /\ position + 1 \in 1..(ReplyLen + 1)
      /\ (Unfinished(1) <=> position + 1 <= ReplyLen)
  BY LinkNumbers DEF Unfinished
<1>4. CurrentPacket = IF position + 1 <= ReplyLen
                      THEN Encode("RESPONSE_CHUNK", session, (position + 1) - 1, ReplyLen,
                                  [of |-> payload, at |-> (position + 1) - 1])
                      ELSE Encode("RESPONSE_END", session, ReplyLen, ReplyLen, NoChunk)
  BY <1>1, <1>2, <1>3 DEF CurrentPacket, ResponsePackets, Packets
<1>5. QED BY <1>1, <1>3, <1>4 DEF Encode

LEMMA WritingIsOnTrack ==
  ASSUME Known, TypeOK', OnTrack, WriteFirst \/ WriteAgain, UNCHANGED <<picoVars, bridgeVars>>
  PROVE  OnTrack'
<1> DEFINE packet == CurrentPacket
<1>0. TypeOK /\ RequestInvariant /\ OrderInvariant
  BY DEF Known
<1>1. /\ UNCHANGED <<session_id, asked, outcome, incoming, completed, accepted, handlers>>
      /\ UNCHANGED <<sendChain, position, assembler, linked>> /\ linked
      /\ sendChain # <<>> /\ writes' = Append(writes, packet)
      /\ (Open' <=> Open) /\ StreamStep
  BY DEF WriteFirst, WriteAgain, Write, Open, StreamStep, picoVars, bridgeVars
<1>2. packet \in Packet
  BY <1>0, <1>1, CurrentPacketType
<1>3. /\ 1 \in DOMAIN sendChain /\ packet.session_id = sendChain[1].session
      /\ Unfinished(1) => packet.type = "RESPONSE_CHUNK" /\ packet.chunk.of = sendChain[1].payload
      /\ ~Unfinished(1) => packet.type = "RESPONSE_END"
  BY <1>0, <1>1, CurrentPacketFields
<1> HIDE DEF packet
<1>4. /\ \A i \in DOMAIN writes : i \in Nat /\ i \in DOMAIN writes' /\ writes'[i] = writes[i]
      /\ \A i \in DOMAIN writes' :
           /\ i \in Nat
           /\ (i \in DOMAIN writes /\ i <= Len(writes)) \/ (i = Len(writes) + 1 /\ writes'[i] = packet)
      /\ Len(writes) \in Nat
  BY <1>0, <1>1, <1>2, QueueTypes
<1>5. Responses' \subseteq Responses \cup {packet}
  BY <1>4 DEF Responses, PacketsOf
<1>6. /\ SameRequest /\ ChainIsDue /\ OneOfSession /\ WritesAreDue /\ EndsComeAfter
      /\ current' = current
  BY <1>1 DEF SameRequest, NoReplyCompleted, OnTrack, OnTheWay, current
<1>7. ChainIsDue' /\ OneOfSession'
  BY <1>1, <1>6 DEF ChainIsDue, OneOfSession, InUse, FromPhone, IsDue, IsReply, Unfinished,
     SameRequest
<1>8. WritesAreDue'
  <2> SUFFICES ASSUME NEW p \in Responses'
               PROVE  (/\ InUse(p.session_id)
                       /\ p.type = "RESPONSE_CHUNK" =>
                            FromPhone(p.chunk.of) /\ IsDue(p.chunk.of, p.session_id))'
    BY DEF WritesAreDue
  <2>1. /\ InUse(p.session_id)
        /\ p.type = "RESPONSE_CHUNK" => FromPhone(p.chunk.of) /\ IsDue(p.chunk.of, p.session_id)
    <3>1. CASE p \in Responses
      BY <1>6, <3>1 DEF WritesAreDue
    <3>2. CASE p = packet
      BY <1>1, <1>3, <1>6, <3>2 DEF ChainIsDue
    <3>3. QED BY <1>5, <3>1, <3>2
  <2>2. QED BY <1>6, <2>1 DEF SameRequest, InUse, FromPhone, IsDue, IsReply
<1>9. packet \in EndsOf(session_id)' \/ EndsOf(session_id)' \subseteq EndsOf(session_id)
  BY <1>5, <1>6 DEF EndsOf, SameRequest
<1>10. EndsComeAfter'
  <2>1. ASSUME NEW i \in DOMAIN sendChain', Unfinished(i)', sendChain'[i].session = session_id'
        PROVE  EndsOf(session_id)' = {}
    <3>1. Unfinished(i) /\ sendChain[i].session = session_id /\ i \in DOMAIN sendChain
      BY <1>1, <2>1 DEF Unfinished
    <3>2. EndsOf(session_id) = {}
      BY <1>1, <1>6, <3>1 DEF EndsComeAfter
    <3>3. ASSUME packet \in EndsOf(session_id)' PROVE FALSE
      <4>1. packet.type = "RESPONSE_END" /\ packet.session_id = session_id
        BY <1>1, <3>3 DEF EndsOf
      <4>2. ~Unfinished(1) /\ sendChain[1].session = session_id
        BY <1>3, <4>1
      <4>3. i = 1
        BY <1>1, <1>3, <1>6, <3>1, <4>2 DEF OneOfSession
      <4>4. QED BY <3>1, <4>2, <4>3
    <3>4. QED BY <1>9, <3>2, <3>3
  <2>2. ASSUME NEW i \in DOMAIN writes', NEW j \in DOMAIN writes', i < j,
               writes'[i] \in EndsOf(session_id)', writes'[j].type = "RESPONSE_CHUNK"
        PROVE  writes'[j].session_id # session_id'
    <3>1. i \in DOMAIN writes /\ writes'[i] = writes[i]
      BY <1>4, <2>2
    <3>2. writes[i] \in EndsOf(session_id)
      BY <1>6, <2>2, <3>1 DEF EndsOf, Responses, PacketsOf, SameRequest
    <3>3. CASE j \in DOMAIN writes
      BY <1>4, <1>6, <2>2, <3>1, <3>2, <3>3 DEF EndsComeAfter, SameRequest
    <3>4. CASE writes'[j] = packet
      <4>1. Unfinished(1)
        BY <1>3, <2>2, <3>4
      <4>2. sendChain[1].session # session_id
        BY <1>1, <1>3, <1>6, <3>2, <4>1 DEF EndsComeAfter
      <4>3. QED BY <1>1, <1>3, <3>4, <4>2
    <3>5. QED BY <1>4, <3>3, <3>4
  <2>3. QED BY <2>1, <2>2 DEF EndsComeAfter
<1>11. OneHandler'
  <2>1. Untouched => Untouched'
    <3>1. Untouched => packet.session_id # session_id
      BY <1>1, <1>3 DEF Untouched
    <3>2. QED BY <1>1, <1>5, <1>6, <3>1 DEF Untouched, SameRequest
  <2>2. QED BY <1>1, <1>6, <2>1, HandlersStayOne DEF OnTrack
<1>12. OnTheWay'
  BY <1>0, <1>1, <1>6, <1>7, <1>8, <1>10, IncomingStays, CompletedStays DEF OnTrack, OnTheWay
<1>13. NewestSession'
  BY <1>0, <1>1, NewestStays DEF OnTrack
<1>14. EarlierWereAccepted' /\ AnswersMatch'
  BY <1>1 DEF OnTrack, EarlierWereAccepted, AnswersMatch, Answered, WasAccepted, IdOf, current
<1>15. QED BY <1>11, <1>12, <1>13, <1>14 DEF OnTrack

(***************************************************************************)
(* The Pico reads                                                          *)
(***************************************************************************)
LEMMA ReadingChunkIsOnTrack ==
  ASSUME Known, TypeOK', OnTrack, IrqWrite, OnResponseChunk(Head(writes)),
         UNCHANGED <<phoneVars, bridgeVars>>
  PROVE  OnTrack'
<1> DEFINE packet == Head(writes)
<1>0. TypeOK /\ RequestInvariant /\ OrderInvariant
  BY DEF Known
<1>1. /\ UNCHANGED <<session_id, asked, outcome, completed, accepted, handlers>>
      /\ UNCHANGED <<sendChain, position, assembler, linked>>
      /\ writes # <<>> /\ writes' = Tail(writes)
      /\ incoming' = AssemblerAdd(incoming, packet) /\ packet.type = "RESPONSE_CHUNK"
      /\ (Open' <=> Open)
  BY DEF IrqWrite, OnResponseChunk, Open, phoneVars, bridgeVars
<1>2. packet \in Responses /\ packet \in Packet /\ packet.sequence \in 0..MaxLen
  <2>1. packet \in PacketsOf(writes) /\ packet \in Packet
    BY <1>0, <1>1, PacketsOfQueue, QueueTypes
  <2>2. packet.sequence \in 0..MaxLen
    BY <2>1 DEF Packet, Envelope
  <2>3. QED BY <1>1, <2>1, <2>2 DEF Responses, IsResponse
<1>3. /\ InUse(packet.session_id) /\ FromPhone(packet.chunk.of)
      /\ IsDue(packet.chunk.of, packet.session_id)
  BY <1>1, <1>2 DEF OnTrack, OnTheWay, WritesAreDue
<1> HIDE DEF packet
<1>4. /\ SameRequest /\ LessIsWritten /\ ChainShrinks /\ Responses' \subseteq Responses
      /\ StreamStep /\ current' = current
  <2>1. SameRequest /\ current' = current
    BY <1>1 DEF SameRequest, NoReplyCompleted, current
  <2>2. StreamStep
    BY <1>0, IrqMovesStream DEF Irq
  <2>3. QED BY <1>0, <1>1, <2>1, <2>2, ReadingIsLess, LessIsUnderWay, SameChain
<1> DEFINE kept == IF incoming.session_id \in {NoSession, packet.session_id}
                   THEN incoming.chunks ELSE NoChunks
<1>5. /\ incoming'.session_id = packet.session_id
      /\ incoming'.chunks = IF kept[packet.sequence] = NoChunk
                            THEN [kept EXCEPT ![packet.sequence] = packet.chunk] ELSE kept
  BY <1>1 DEF AssemblerAdd
<1>6. kept \in [0..MaxLen -> Chunk]
  BY <1>0, NoPacketType, LinkTypes DEF Assembler, NoChunks
<1>7. ASSUME NEW k \in 0..MaxLen, kept[k] # NoChunk
      PROVE  FromPhone(kept[k].of) /\ IsDue(kept[k].of, packet.session_id)
  <2>1. kept = incoming.chunks /\ incoming.session_id \in {NoSession, packet.session_id}
    BY <1>7 DEF NoChunks
  <2>2. FromPhone(incoming.chunks[k].of) /\ IsDue(incoming.chunks[k].of, incoming.session_id)
    BY <1>7, <2>1 DEF OnTrack, OnTheWay, IncomingIsDue
  <2>3. incoming.session_id = NoSession => ~IsReply(incoming.chunks[k].of)
    BY <1>0, <2>2, LinkTypes DEF NoSession, IsDue, OnTrack, NewestSession
  <2>4. QED BY <2>1, <2>2, <2>3 DEF IsDue
<1> HIDE DEF kept
<1>8. \A k \in 0..MaxLen : incoming'.chunks[k] \in {packet.chunk, kept[k]}
  BY <1>2, <1>5, <1>6
<1>9. IncomingIsDue'
  <2>1. InUse(incoming.session_id)'
    BY <1>3, <1>4, <1>5 DEF InUse, SameRequest
  <2>2. ASSUME NEW k \in 0..MaxLen, incoming'.chunks[k] # NoChunk
        PROVE  (FromPhone(incoming.chunks[k].of) /\ IsDue(incoming.chunks[k].of, incoming.session_id))'
    <3>1. FromPhone(incoming'.chunks[k].of) /\ IsDue(incoming'.chunks[k].of, incoming'.session_id)
      BY <1>3, <1>5, <1>7, <1>8, <2>2
    <3>2. QED BY <1>4, <3>1 DEF SameRequest, FromPhone, IsDue, IsReply
  <2>3. QED BY <2>1, <2>2 DEF IncomingIsDue
<1>10. OneHandler'
  <2>1. Untouched => Untouched'
    <3>1. \A i \in DOMAIN sendChain' : sendChain'[i] = sendChain[i] /\ i \in DOMAIN sendChain
      BY <1>1
    <3>2. Untouched => packet.session_id # session_id
      BY <1>2 DEF Untouched
    <3>3. QED BY <1>1, <1>4, <1>5, <3>2 DEF Untouched, SameRequest
  <2>2. QED BY <1>1, <1>4, <2>1, HandlersStayOne DEF OnTrack
<1>11. OnTheWay'
  BY <1>0, <1>1, <1>4, <1>9, ChainStays, WritesStayDue, CompletedStays
  DEF OnTrack, OnTheWay, EndsComeAfter
<1>12. NewestSession'
  BY <1>0, <1>1, <1>4, NewestStays DEF OnTrack
<1>13. EarlierWereAccepted' /\ AnswersMatch'
  BY <1>1 DEF OnTrack, EarlierWereAccepted, AnswersMatch, Answered, WasAccepted, IdOf, current
<1>14. QED BY <1>10, <1>11, <1>12, <1>13 DEF OnTrack

LEMMA ReadingEndIsOnTrack ==
  ASSUME Known, TypeOK', OnTrack, Undisturbed', IrqWrite, OnResponseEnd(Head(writes)),
         UNCHANGED <<phoneVars, bridgeVars>>
  PROVE  OnTrack'
<1> DEFINE packet == Head(writes)
           message == Assembled(incoming)
           payload == incoming.chunks[0].of
<1>0. TypeOK /\ RequestInvariant /\ OrderInvariant
  BY DEF Known
<1>1. /\ UNCHANGED <<session_id, asked, outcome, accepted, handlers>>
      /\ UNCHANGED <<sendChain, position, assembler, linked>>
      /\ writes # <<>> /\ writes' = Tail(writes) /\ packet.type = "RESPONSE_END"
      /\ (Open' <=> Open)
  BY DEF IrqWrite, OnResponseEnd, Open, phoneVars, bridgeVars
<1>2. /\ LessIsWritten /\ ChainShrinks /\ Responses' \subseteq Responses
      /\ StreamStep /\ current' = current
  <2>1. StreamStep
    BY <1>0, IrqMovesStream DEF Irq
  <2>2. QED BY <1>0, <1>1, <2>1, ReadingIsLess, LessIsUnderWay, SameChain DEF current
<1>3. NewestSession'
  BY <1>0, <1>1, <1>2, NewestStays DEF OnTrack
<1>4. CASE ~CanFinish(incoming, packet.session_id) \/ NotifyRaises
  <2>1. completed' = completed /\ incoming' \in {EmptyAssembler, incoming}
    <3>1. completed' = completed
      <4>1. NotifyRaises => ~UNCHANGED mishaps
        BY <1>0 DEF NotifyRaises, TypeOK, ChannelTypeOK
      <4>2. QED BY <1>4, <4>1 DEF OnResponseEnd
    <3>2. QED BY <3>1 DEF OnResponseEnd, AssemblerFinish
  <2>2. QED BY <1>0, <1>1, <1>2, <1>3, <2>1, NothingNew DEF BringsNothing
<1>5. CASE CanFinish(incoming, packet.session_id) /\ ~NotifyRaises
  <2>1. /\ incoming' = EmptyAssembler /\ completed' = Append(completed, message)
        /\ received' = Append(received, message)
    BY <1>5 DEF OnResponseEnd, Complete, AssemblerFinish
  <2>2. /\ incoming.session_id = packet.session_id
        /\ 1 \in 1..incoming.total_length /\ 0 \in 0..MaxLen /\ incoming.chunks[0] # NoChunk
    <3>1. /\ incoming.session_id = packet.session_id /\ incoming.session_id # NoSession
          /\ \A k \in 0..(incoming.total_length - 1) : incoming.chunks[k] # NoChunk
      BY <1>5 DEF CanFinish
    <3>2. incoming.total_length \in Nat /\ incoming.total_length > 0
      <4>1. incoming \in Assembler
        BY <1>0 DEF TypeOK, PicoTypeOK
      <4>2. incoming.total_length \in 0..MaxLen /\ incoming.total_length > 0
        BY <3>1, <4>1 DEF Assembler
      <4>3. QED BY <4>2, MaxLenAssumption
    <3>3. QED BY <3>1, <3>2, MaxLenAssumption
  <2>3. message[1].of = payload
    BY <2>2 DEF Assembled
  <2>4. message \in MessageType
    <3>1. packet \in Packet
      BY <1>0, <1>1, PacketsOfQueue, QueueTypes
    <3>2. packet.session_id \in Nat
      BY <3>1 DEF Packet, Envelope
    <3>3. QED BY <1>0, <1>5, <3>2, AssemblerType, LinkTypes
  <2>5. FromPhone(payload) /\ IsDue(payload, packet.session_id)
    BY <2>2 DEF OnTrack, OnTheWay, IncomingIsDue
  <2> HIDE DEF message, payload
  <2>6. /\ \A i \in DOMAIN completed : i \in DOMAIN completed' /\ completed'[i] = completed[i]
        /\ \A i \in DOMAIN completed' :
             (i \in DOMAIN completed /\ completed'[i] = completed[i]) \/ i = Len(completed) + 1
        /\ completed'[Len(completed) + 1] = message
        /\ Len(received) + 1 \in DOMAIN received' /\ received'[Len(received) + 1] = message
    <3> DEFINE S == MessageType
    <3>1. completed \in Seq(S) /\ received \in Seq(S) /\ message \in S
      BY <1>0, <2>4, LinkTypes
    <3> HIDE DEF S
    <3>2. QED BY <2>1, <3>1
  <2>7. payload.kind # "update"
    BY <2>3, <2>6 DEF Undisturbed
  <2>8. packet \in EndsOf(session_id) \/ packet.session_id # session_id
    <3>1. packet \in PacketsOf(writes)
      BY <1>0, <1>1, PacketsOfQueue, QueueTypes
    <3>2. QED BY <1>1, <3>1 DEF EndsOf, Responses, IsResponse
  <2>9. IncomingIsDue'
    <3>1. \A k \in 0..MaxLen : EmptyAssembler.chunks[k] = NoChunk
      BY DEF EmptyAssembler, NoChunks
    <3>2. EmptyAssembler.session_id = NoSession
      BY DEF EmptyAssembler
    <3>3. QED BY <2>1, <3>1, <3>2 DEF IncomingIsDue
  <2>10. CompletedIsDue'
    <3>1. ASSUME NEW i \in DOMAIN completed'
          PROVE  /\ FromPhone(completed'[i][1].of) /\ completed'[i][1].of.kind # "update"
                 /\ IsReply(completed'[i][1].of) => Open' /\ completed'[i][1].of.id = current'
      <4>1. CASE i \in DOMAIN completed /\ completed'[i] = completed[i]
        BY <1>1, <1>2, <4>1 DEF OnTrack, OnTheWay, CompletedIsDue
      <4>2. CASE i = Len(completed) + 1
        BY <1>1, <1>2, <2>3, <2>5, <2>6, <2>7, <4>2 DEF IsDue
      <4>3. QED BY <2>6, <4>1, <4>2
    <3>2. ASSUME NEW i \in DOMAIN completed', NEW j \in DOMAIN completed',
                 IsReply(completed'[i][1].of), IsReply(completed'[j][1].of)
          PROVE  i = j
      <4>1. CASE IsReply(payload)
        <5>1. NoReplyCompleted
          BY <2>5, <4>1 DEF IsDue
        <5>2. i = Len(completed) + 1 /\ j = Len(completed) + 1
          BY <2>6, <3>2, <5>1 DEF NoReplyCompleted
        <5>3. QED BY <5>2
      <4>2. CASE ~IsReply(payload)
        <5>1. /\ i \in DOMAIN completed /\ completed'[i] = completed[i]
              /\ j \in DOMAIN completed /\ completed'[j] = completed[j]
          BY <2>3, <2>6, <3>2, <4>2
        <5>2. QED BY <3>2, <5>1 DEF OnTrack, OnTheWay, CompletedIsDue
      <4>3. QED BY <4>1, <4>2
    <3>3. QED BY <3>1, <3>2 DEF CompletedIsDue
  <2>11. /\ ChainIsDue' /\ OneOfSession' /\ WritesAreDue' /\ EndsComeAfter'
         /\ OneHandler'
    <3>1. CASE IsReply(payload)
      <4>1. /\ Open /\ packet.session_id = session_id /\ packet \in EndsOf(session_id)
            /\ EndsOf(session_id)' \subseteq EndsOf(session_id)
        BY <1>1, <1>2, <2>5, <2>8, <3>1 DEF IsDue, EndsOf
      <4>2. /\ ChainIsDue /\ OneOfSession /\ WritesAreDue /\ EndsComeAfter /\ OneHandler
        BY DEF OnTrack, OnTheWay
      <4>3. ASSUME linked', NEW i \in DOMAIN sendChain', Unfinished(i)'
            PROVE  sendChain'[i].session # session_id'
        BY <1>1, <4>1, <4>2, <4>3 DEF EndsComeAfter, Unfinished
      <4>4. ChainIsDue'
        <5> SUFFICES ASSUME linked', NEW i \in DOMAIN sendChain'
                     PROVE  (/\ InUse(sendChain[i].session) /\ FromPhone(sendChain[i].payload)
                             /\ Unfinished(i) => IsDue(sendChain[i].payload, sendChain[i].session))'
          BY DEF ChainIsDue
        <5>1. /\ InUse(sendChain[i].session) /\ FromPhone(sendChain[i].payload)
              /\ Unfinished(i) => IsDue(sendChain[i].payload, sendChain[i].session)
          BY <1>1, <4>2 DEF ChainIsDue
        <5>2. InUse(sendChain[i].session)' /\ FromPhone(sendChain[i].payload)'
          BY <1>1, <5>1 DEF InUse, FromPhone
        <5>3. Unfinished(i)' => IsDue(sendChain[i].payload, sendChain[i].session)'
          BY <1>1, <4>3, <5>1 DEF IsDue, IsReply, Unfinished
        <5>4. QED BY <5>2, <5>3
      <4>5. OneOfSession'
        BY <1>1, <4>2 DEF OneOfSession
      <4>6. \A p \in Responses' : p.type = "RESPONSE_CHUNK" => p.session_id # session_id
        <5>1. ASSUME NEW p \in Responses', p.type = "RESPONSE_CHUNK"
              PROVE  p.session_id # session_id
          <6>1. PICK j \in DOMAIN writes' : p = writes'[j]
            BY DEF Responses, PacketsOf
          <6>2. j + 1 \in DOMAIN writes /\ writes'[j] = writes[j + 1] /\ 1 < j + 1
            BY <1>0, <1>1, QueueTypes
          <6>3. 1 \in DOMAIN writes /\ packet = writes[1]
            BY <1>0, <1>1, QueueTypes
          <6>4. QED BY <4>1, <4>2, <5>1, <6>1, <6>2, <6>3 DEF EndsComeAfter
        <5>2. QED BY <5>1
      <4>7. WritesAreDue'
        <5> SUFFICES ASSUME NEW p \in Responses'
                     PROVE  (/\ InUse(p.session_id)
                             /\ p.type = "RESPONSE_CHUNK" =>
                                  FromPhone(p.chunk.of) /\ IsDue(p.chunk.of, p.session_id))'
          BY DEF WritesAreDue
        <5>1. /\ InUse(p.session_id)
              /\ p.type = "RESPONSE_CHUNK" =>
                   FromPhone(p.chunk.of) /\ IsDue(p.chunk.of, p.session_id)
          BY <1>2, <4>2 DEF WritesAreDue
        <5>2. p.type = "RESPONSE_CHUNK" => ~IsReply(p.chunk.of)
          BY <4>6, <5>1 DEF IsDue
        <5>3. QED BY <1>1, <5>1, <5>2 DEF InUse, FromPhone, IsDue, IsReply
      <4>8. EndsComeAfter'
        <5>1. ASSUME NEW i \in DOMAIN writes', NEW j \in DOMAIN writes',
                     writes'[j].type = "RESPONSE_CHUNK"
              PROVE  writes'[j].session_id # session_id'
          <6>1. writes'[j] \in Responses'
            BY <5>1 DEF Responses, PacketsOf, IsResponse
          <6>2. QED BY <1>1, <4>6, <5>1, <6>1
        <5>2. QED BY <4>3, <5>1 DEF EndsComeAfter
      <4>9. OneHandler'
        <5>1. ~Untouched
          BY <2>2, <4>1 DEF Untouched
        <5>2. handlers' = {} /\ WasAccepted(current)'
          BY <1>1, <1>2, <4>1, <4>2, <5>1 DEF OneHandler, WasAccepted, IdOf
        <5>3. QED BY <5>2 DEF OneHandler
      <4>10. QED BY <4>4, <4>5, <4>7, <4>8, <4>9
    <3>2. CASE ~IsReply(payload)
      <4>1. NoReplyCompleted => NoReplyCompleted'
        BY <2>3, <2>6, <3>2 DEF NoReplyCompleted
      <4>2. SameRequest
        BY <1>1, <4>1 DEF SameRequest
      <4>3. ChainIsDue' /\ OneOfSession' /\ WritesAreDue' /\ EndsComeAfter'
        BY <1>0, <1>2, <4>2, ChainStays, WritesStayDue DEF OnTrack, OnTheWay, EndsComeAfter
      <4>4. Open /\ Untouched => Untouched'
        <5>1. Open => session_id > 0
          BY DEF OnTrack, NewestSession
        <5>2. EmptyAssembler.session_id = 0
          BY DEF EmptyAssembler, NoSession
        <5>3. QED BY <1>1, <1>2, <2>1, <4>1, <5>1, <5>2 DEF Untouched
      <4>5. QED BY <1>1, <4>2, <4>3, <4>4, HandlersStayOne DEF OnTrack
    <3>3. QED BY <3>1, <3>2
  <2>12. EarlierWereAccepted' /\ AnswersMatch'
    BY <1>1 DEF OnTrack, EarlierWereAccepted, AnswersMatch, Answered, WasAccepted, IdOf, current
  <2>13. QED BY <1>3, <2>9, <2>10, <2>11, <2>12 DEF OnTrack, OnTheWay
<1>6. QED BY <1>4, <1>5

(***************************************************************************)
(* The calculator is answered                                              *)
(***************************************************************************)
Keeps == UNCHANGED <<outcome, asked>> /\ (Open' <=> Open)

Asks(request, result) ==
  /\ ~Open /\ (Open' <=> result.status = "pending")
  /\ asked' = Append(asked, request) /\ outcome' = Append(outcome, result)

Ends(result) ==
  /\ Open /\ ~Open' /\ result.status # "pending"
  /\ asked' = asked /\ EndRequest(result)

LEMMA OutcomesAsked ==
  ASSUME TypeOK, NEW request \in Payload, NEW result \in Outcome, Asks(request, result)
  PROVE  /\ current' = current + 1 /\ DOMAIN outcome' = DOMAIN outcome \cup {current'}
         /\ current' \notin DOMAIN outcome /\ current \in Nat
         /\ outcome'[current'] = result
         /\ \A n \in DOMAIN outcome : outcome'[n] = outcome[n]
<1> DEFINE S == Outcome
           P == Payload
<1>1. /\ outcome \in Seq(S) /\ result \in S /\ Len(outcome) = current
      /\ asked \in Seq(P) /\ request \in P /\ current = Len(asked) /\ current \in Nat
  BY LinkTypes
<1> HIDE DEF S, P
<1>2. current' = current + 1
  BY <1>1 DEF Asks, current
<1>3. QED BY <1>1, <1>2 DEF Asks

LEMMA OutcomesEnd ==
  ASSUME TypeOK, NEW result, Ends(result)
  PROVE  /\ current' = current /\ DOMAIN outcome' = DOMAIN outcome
         /\ \A n \in DOMAIN outcome :
              outcome'[n] = IF n = current THEN result ELSE outcome[n]
BY LinkTypes DEF Ends, EndRequest, current

LEMMA RequestsMove ==
  ASSUME TypeOK, Next
  PROVE  \/ Keeps
         \/ \E request \in Payload, result \in Outcome : Asks(request, result)
         \/ \E result : Ends(result)
<1>0. \A status \in {"pending", "error", "lost"} :
        Ended(status) \in Outcome /\ Ended(status).status = status
  BY DEF Ended, Outcome, NoMessage
<1>1. CASE TransportReady \/ ReopenTransport
  BY <1>1 DEF TransportReady, ReopenTransport, Keeps, Open
<1>2. CASE PowerCycle
  <2>1. CASE Open
    BY <1>0, <1>2, <2>1 DEF PowerCycle, Open, Ends
  <2>2. CASE ~Open
    BY <1>2, <2>2 DEF PowerCycle, Open, Keeps
  <2>3. QED BY <2>1, <2>2
<1>3. ASSUME NEW len \in RequestLens, SendRequest(len) \/ RefuseRequest(len)
      PROVE  \E request \in Payload, result \in Outcome : Asks(request, result)
  <2> DEFINE request == [kind |-> "request", id |-> current + 1, len |-> len]
  <2>1. request \in Payload
    BY LinkTypes, LinkAssumption DEF Payload, PayloadKinds
  <2>2. asked' = Append(asked, request)
    BY <1>3 DEF SendRequest, RefuseRequest, NewRequest
  <2> HIDE DEF request
  <2>3. CASE SendRequest(len)
    <3>1. Asks(request, Ended("pending"))
      BY <1>0, <2>2, <2>3 DEF SendRequest, NewRequest, Asks, Open
    <3>2. QED BY <1>0, <2>1, <3>1
  <2>4. CASE RefuseRequest(len)
    <3>1. Asks(request, Ended("error"))
      BY <1>0, <2>2, <2>4 DEF RefuseRequest, NewRequest, Asks, Open
    <3>2. QED BY <1>0, <2>1, <3>1
  <2>5. QED BY <1>3, <2>3, <2>4
<1>4. CASE Pump \/ NotifyWaiting \/ NothingCompleted \/ TakeCatalog
  BY <1>4 DEF Pump, NotifyWaiting, NotifyFails, NothingCompleted, TakeCatalog, Keeps, Open
<1>5. CASE NotifyFails \/ AckTimeout \/ ResponseTimeout
  BY <1>0, <1>5 DEF NotifyFails, AckTimeout, ResponseTimeout, Ends, Open
<1>6. CASE TakeAnswer
  <2>1. CASE EndRequest([status |-> "answered", message |-> Head(completed)])
    BY <1>6, <2>1 DEF TakeAnswer, Ends, Open
  <2>2. CASE EndRequest(Ended("error"))
    BY <1>0, <1>6, <2>2 DEF TakeAnswer, Ends, Open
  <2>3. QED BY <1>6, <2>1, <2>2 DEF TakeAnswer
<1>7. CASE Irq \/ Phone
  BY <1>7 DEF Irq, Phone, bridgeVars, Keeps, Open
<1>8. QED BY <1>1, <1>2, <1>3, <1>4, <1>5, <1>6, <1>7 DEF Next, Bridge

LEMMA PendingStays ==
  ASSUME TypeOK, PendingIsOpen, Next PROVE PendingIsOpen'
<1>1. CASE Keeps
  BY <1>1 DEF Keeps, PendingIsOpen, current
<1>2. ASSUME NEW request \in Payload, NEW result \in Outcome, Asks(request, result)
      PROVE  PendingIsOpen'
  <2>1. /\ DOMAIN outcome' = DOMAIN outcome \cup {current'} /\ current' \notin DOMAIN outcome
        /\ outcome'[current'] = result
        /\ \A n \in DOMAIN outcome : outcome'[n] = outcome[n]
    BY <1>2, OutcomesAsked
  <2>2. ASSUME NEW n \in DOMAIN outcome'
        PROVE  outcome'[n].status = "pending" <=> n = current' /\ Open'
    <3>1. CASE n = current'
      BY <1>2, <2>1, <3>1 DEF Asks
    <3>2. CASE n \in DOMAIN outcome
      BY <1>2, <2>1, <3>2 DEF Asks, PendingIsOpen
    <3>3. QED BY <2>1, <3>1, <3>2
  <2>3. QED BY <2>2 DEF PendingIsOpen
<1>3. ASSUME NEW result, Ends(result) PROVE PendingIsOpen'
  <2>1. /\ DOMAIN outcome' = DOMAIN outcome
        /\ \A n \in DOMAIN outcome : outcome'[n] = IF n = current THEN result ELSE outcome[n]
    BY <1>3, OutcomesEnd
  <2>2. QED BY <1>3, <2>1 DEF Ends, PendingIsOpen
<1>4. QED BY <1>1, <1>2, <1>3, RequestsMove

(* What a later state is not disturbed by has not disturbed an earlier one.*)
LEMMA ReceivedGrows ==
  ASSUME TypeOK, TypeOK', Next
  PROVE  \A i \in DOMAIN received : i \in DOMAIN received' /\ received'[i] = received[i]
<1> DEFINE S == MessageType
<1>1. received \in Seq(S) /\ received' \in Seq(S)
  BY LinkTypes DEF TypeOK, PicoTypeOK
<1>2. received' = received \/ \E m : received' = Append(received, m)
  <2>1. CASE Bridge
    BY SMTT(40), <2>1 DEF Bridge, TransportReady, ReopenTransport, PowerCycle, Reopen,
       SendRequest, Send, RefuseRequest, Pump, PumpRetry, PumpNext, PumpIdle, NotifyWaiting,
       NotifyFails, PumpNotify, PumpNotifyRaises, NotifyRaises, AckTimeout, PumpGivesUp,
       ResponseTimeout, NothingCompleted, TakeCatalog, TakeAnswer, PopCompleted, picoVars
  <2>2. CASE Irq
    BY <2>2 DEF Irq, IrqWrite, OnAck, OnResponseChunk, OnResponseEnd, Complete,
       IrqGluedWrites, IrqDisconnect, picoVars
  <2>3. CASE Phone
    BY <2>3 DEF Phone, picoVars
  <2>4. QED BY <2>1, <2>2, <2>3 DEF Next
<1> HIDE DEF S
<1>3. CASE received' = received
  BY <1>3
<1>4. ASSUME NEW m, received' = Append(received, m)
      PROVE  \A i \in DOMAIN received : i \in DOMAIN received' /\ received'[i] = received[i]
  BY <1>1, <1>4
<1>5. QED BY <1>2, <1>3, <1>4

LEMMA WasUndisturbed ==
  ASSUME TypeOK, TypeOK', PendingIsOpen, Next, Undisturbed' PROVE Undisturbed
<1>1. \A i \in DOMAIN received : received[i][1].of.kind # "update"
  BY ReceivedGrows DEF Undisturbed
<1>2. ASSUME NEW n \in DOMAIN outcome PROVE outcome[n].status \in {"pending", "answered"}
  <2>1. CASE Keeps
    BY <2>1 DEF Keeps, Undisturbed
  <2>2. ASSUME NEW request \in Payload, NEW result \in Outcome, Asks(request, result)
        PROVE  outcome[n].status \in {"pending", "answered"}
    BY <2>2, OutcomesAsked DEF Undisturbed
  <2>3. ASSUME NEW result, Ends(result)
        PROVE  outcome[n].status \in {"pending", "answered"}
    <3>1. CASE n = current
      BY <2>3, <3>1 DEF Ends, PendingIsOpen
    <3>2. CASE n # current
      BY <2>3, <3>2, OutcomesEnd DEF Undisturbed
    <3>3. QED BY <3>1, <3>2
  <2>4. QED BY <2>1, <2>2, <2>3, RequestsMove
<1>3. QED BY <1>1, <1>2 DEF Undisturbed

LEMMA OnlyAnswersEnd ==
  ASSUME TypeOK, Undisturbed', NewestSession, NEW result, Ends(result)
  PROVE  result.status = "answered" /\ current \in DOMAIN outcome
<1>1. current \in DOMAIN outcome
  BY LinkTypes DEF NewestSession, Ends
<1>2. result.status \in {"pending", "answered"}
  BY <1>1, OutcomesEnd DEF Undisturbed
<1>3. QED BY <1>1, <1>2 DEF Ends

LEMMA PhoneStaysAfresh ==
  ASSUME PhoneStartsAfresh, Next PROVE PhoneStartsAfresh'
<1>1. CASE Bridge
  BY <1>1 DEF Bridge, TransportReady, ReopenTransport, PowerCycle, SendRequest, NewRequest,
     RefuseRequest, Pump, NotifyWaiting, NotifyFails, AckTimeout, ResponseTimeout,
     NothingCompleted, TakeCatalog, TakeAnswer, phoneVars, PhoneStartsAfresh
<1>2. CASE Irq
  BY <1>2 DEF Irq, phoneVars, PhoneStartsAfresh
<1>3. CASE Phone
  <2>1. CASE Connect \/ Discover \/ Subscribe \/ Disconnect \/ MissNotification
    BY <2>1 DEF Connect, Discover, Subscribe, Disconnect, MissNotification, phoneVars,
       PhoneStartsAfresh
  <2>2. CASE ReceiveNotification
    BY <2>2 DEF ReceiveNotification, PhoneStartsAfresh
  <2>3. ASSUME NEW h \in handlers,
               CallRelay(h) \/ \E kind \in ReplyKinds : RelayReplies(h, kind)
        PROVE  PhoneStartsAfresh'
    BY <2>3 DEF CallRelay, RelayReplies, CanWrite, PhoneStartsAfresh
  <2>4. ASSUME NEW kind \in UpdateKinds, SendAsyncUpdate(kind) PROVE PhoneStartsAfresh'
    BY <2>4 DEF SendAsyncUpdate, PhoneStartsAfresh
  <2>5. CASE WriteFirst \/ WriteAgain \/ WriteGivesUp \/ WriteFails
    BY <2>5 DEF WriteFirst, WriteAgain, WriteGivesUp, WriteFails, NextInChain, PhoneStartsAfresh
  <2>6. QED BY <1>3, <2>1, <2>2, <2>3, <2>4, <2>5 DEF Phone
<1>4. QED BY <1>1, <1>2, <1>3 DEF Next

(***************************************************************************)
(* The bridge's own steps                                                  *)
(***************************************************************************)
LEMMA AnsweringIsOnTrack ==
  ASSUME Known, TypeOK', OnTrack, Undisturbed', TakeAnswer PROVE OnTrack'
<1> DEFINE message == Head(completed)
           payload == message[1].of
           answer == [status |-> "answered", message |-> message]
<1>0. TypeOK /\ RequestInvariant /\ OrderInvariant
  BY DEF Known
<1>1. /\ UNCHANGED <<session_id, asked, incoming, accepted, handlers, writes>>
      /\ UNCHANGED <<sendChain, position, assembler, linked>>
      /\ Open /\ ~Open' /\ Polled /\ StreamStep
  BY DEF TakeAnswer, PopCompleted, Open, Polled, StreamStep, phoneVars, channelVars
<1>2. /\ current' = current /\ NewestSession /\ OneHandler /\ CompletedIsDue
      /\ ChainIsDue /\ OneOfSession /\ WritesAreDue /\ EndsComeAfter /\ IncomingIsDue
  BY <1>1 DEF current, OnTrack, OnTheWay
<1>3. Ends(answer)
  <2>1. CASE EndRequest(answer)
    BY <1>1, <2>1 DEF Ends
  <2>2. CASE EndRequest(Ended("error"))
    <3>1. Ended("error").status = "error"
      BY DEF Ended
    <3>2. Ends(Ended("error"))
      BY <1>1, <2>2, <3>1 DEF Ends
    <3>3. QED BY <1>0, <1>2, <3>1, <3>2, OnlyAnswersEnd
  <2>3. QED BY <2>1, <2>2 DEF TakeAnswer
<1>4. /\ 1 \in DOMAIN completed /\ message = completed[1]
      /\ \A i \in DOMAIN completed' : i \in Nat /\ i + 1 \in DOMAIN completed
                                        /\ completed'[i] = completed[i + 1]
  BY <1>0, <1>1, PolledMessages
<1>5. payload.kind = "reply" /\ payload.id = current /\ IsReply(payload)
  <2>1. /\ FromPhone(payload) /\ payload.kind # "update"
        /\ IsReply(payload) => payload.id = current
    BY <1>2, <1>4 DEF CompletedIsDue
  <2>2. ~IsCatalog(message)
    BY DEF TakeAnswer
  <2>3. QED BY <2>1, <2>2 DEF FromPhone, IsCatalog, IsReply, ReplyFrames, UpdateFrames
<1>6. ~NoReplyCompleted
  BY <1>4, <1>5 DEF NoReplyCompleted
<1>7. \A i \in DOMAIN completed' : ~IsReply(completed'[i][1].of)
  <2>1. ASSUME NEW i \in DOMAIN completed', IsReply(completed'[i][1].of) PROVE FALSE
    <3>1. i \in Nat /\ i + 1 \in DOMAIN completed /\ IsReply(completed[i + 1][1].of)
      BY <1>4, <2>1
    <3>2. 1 \in DOMAIN completed /\ IsReply(completed[1][1].of)
      BY <1>4, <1>5
    <3>3. \A k, j \in DOMAIN completed :
            IsReply(completed[k][1].of) /\ IsReply(completed[j][1].of) => k = j
      BY <1>2 DEF CompletedIsDue
    <3>4. i + 1 = 1
      BY <3>1, <3>2, <3>3
    <3>5. i # 0
      <4> DEFINE S == MessageType
      <4>1. completed' \in Seq(S)
        BY DEF TypeOK, PicoTypeOK
      <4> HIDE DEF S
      <4>2. QED BY <2>1, <4>1
    <3>6. QED BY <3>1, <3>4, <3>5
  <2>2. QED BY <2>1
<1>8. answer.status = "answered" /\ answer.message = message
  OBVIOUS
<1> HIDE DEF answer
<1>9. AnswersMatch'
  <2> SUFFICES ASSUME NEW n \in DOMAIN outcome', outcome'[n].status = "answered"
               PROVE  Answered(n, n)'
    BY DEF AnswersMatch
  <2>1. n \in DOMAIN outcome /\ outcome'[n] = IF n = current THEN answer ELSE outcome[n]
    BY <1>0, <1>3, OutcomesEnd
  <2>2. CASE n = current
    BY <1>5, <1>8, <2>1, <2>2 DEF Answered
  <2>3. CASE n # current
    BY <2>1, <2>3 DEF OnTrack, AnswersMatch, Answered
  <2>4. QED BY <2>2, <2>3
<1> HIDE DEF message, payload
<1>10. handlers' = {} /\ WasAccepted(current)
  BY <1>1, <1>2, <1>6 DEF OneHandler, Untouched
<1>11. OneHandler'
  BY <1>1, <1>10 DEF OneHandler
<1>12. EarlierWereAccepted'
  BY <1>1, <1>2, <1>10 DEF OnTrack, EarlierWereAccepted, WasAccepted, IdOf
<1>13. NewestSession'
  BY <1>1, <1>2 DEF NewestSession
<1>14. ChainIsDue' /\ OneOfSession' /\ WritesAreDue' /\ EndsComeAfter' /\ IncomingIsDue'
  <2>1. Responses' = Responses
    BY <1>1 DEF Responses, PacketsOf
  <2>2. ChainIsDue' /\ OneOfSession'
    BY <1>1, <1>2, <1>6 DEF ChainIsDue, OneOfSession, InUse, FromPhone, IsDue, IsReply, Unfinished
  <2>3. WritesAreDue'
    BY <1>1, <1>2, <1>6, <2>1 DEF WritesAreDue, InUse, FromPhone, IsDue, IsReply
  <2>4. EndsComeAfter'
    BY <1>1, <1>2, <2>1 DEF EndsComeAfter, EndsOf, Unfinished
  <2>5. IncomingIsDue'
    BY <1>1, <1>2, <1>6 DEF IncomingIsDue, InUse, FromPhone, IsDue, IsReply
  <2>6. QED BY <2>2, <2>3, <2>4, <2>5
<1>15. CompletedIsDue'
  <2>1. \A i \in DOMAIN completed' :
          FromPhone(completed'[i][1].of) /\ completed'[i][1].of.kind # "update"
    BY <1>2, <1>4 DEF CompletedIsDue
  <2>2. QED BY <1>7, <2>1 DEF CompletedIsDue
<1>16. QED BY <1>9, <1>11, <1>12, <1>13, <1>14, <1>15 DEF OnTrack, OnTheWay

(* A new transport begins with nothing on the way.                         *)
LEMMA ReopeningIsOnTrack ==
  ASSUME Known, TypeOK', OnTrack, ~Open, Reopen, pc' = "opening",
         UNCHANGED <<outcome, asked, phoneVars>>
  PROVE  OnTrack'
<1>0. TypeOK
  BY DEF Known
<1>1. /\ session_id' = 0 /\ ~linked' /\ ~Open'
      /\ incoming' = EmptyAssembler /\ completed' = <<>> /\ writes' = <<>>
      /\ UNCHANGED <<outcome, asked, handlers, accepted>>
  BY DEF Reopen, FreshTransport, Open, phoneVars
<1>2. DOMAIN completed' = {} /\ DOMAIN writes' = {} /\ Responses' = {}
  BY <1>1 DEF Responses, PacketsOf
<1>3. handlers' = {} /\ current' = current
  BY <1>1 DEF OnTrack, OneHandler, current
<1>4. OneHandler'
  BY <1>1, <1>3 DEF OneHandler
<1>5. NewestSession'
  BY <1>0, <1>1, <1>3, LinkTypes DEF NewestSession
<1>6. IncomingIsDue'
  <2>1. /\ \A k \in 0..MaxLen : EmptyAssembler.chunks[k] = NoChunk
        /\ EmptyAssembler.session_id = NoSession
    BY DEF EmptyAssembler, NoChunks
  <2>2. QED BY <1>1, <2>1 DEF IncomingIsDue
<1>7. OnTheWay'
  BY <1>1, <1>2, <1>6
  DEF OnTheWay, ChainIsDue, OneOfSession, WritesAreDue, EndsComeAfter, CompletedIsDue
<1>8. EarlierWereAccepted' /\ AnswersMatch'
  BY <1>1, <1>3 DEF OnTrack, EarlierWereAccepted, AnswersMatch, Answered, WasAccepted, IdOf
<1>9. QED BY <1>4, <1>5, <1>7, <1>8 DEF OnTrack

(* The session of a new request is used by nothing that is on the way.     *)
LEMMA AskingIsOnTrack ==
  ASSUME RequestsFit, Known, TypeOK', OnTrack, NEW len \in RequestLens, SendRequest(len)
  PROVE  OnTrack'
<1> DEFINE request == [kind |-> "request", id |-> current + 1, len |-> len]
           packets == RequestPackets(session_id + 1, request)
<1>0. TypeOK /\ RequestInvariant /\ OrderInvariant
  BY DEF Known
<1>1. /\ UNCHANGED <<incoming, completed, waiting, notifications, accepted, handlers, writes>>
      /\ UNCHANGED <<sendChain, position, assembler, linked>>
      /\ ~Open /\ Open' /\ asked' = Append(asked, request) /\ current < MaxRequests
      /\ outcome' = Append(outcome, Ended("pending"))
  BY DEF SendRequest, NewRequest, Send, Open, phoneVars, channelVars
<1>2. /\ session_id \in Nat /\ session_id <= current /\ current \in Nat
      /\ session_id + 1 \in Nat /\ session_id + 1 < PhoneSessionBase /\ PhoneSessionBase \in Nat
      /\ session_id # SessionLimit
  <2>1. session_id <= current /\ current < MaxRequests /\ MaxRequests < PhoneSessionBase
    BY <1>1 DEF OnTrack, NewestSession, RequestsFit
  <2>2. QED BY <1>0, <2>1, LinkNumbers
<1>3. request \in Payload /\ request.id = current + 1
  BY <1>2, LinkAssumption DEF Payload, PayloadKinds
<1>4. session_id' = session_id + 1 /\ outgoing' = outgoing \o packets
  <2>1. asked'[current + 1] = request
    BY <1>0, <1>1, QueueTypes DEF current
  <2>2. NextSession = session_id + 1
    BY <1>2 DEF NextSession
  <2>3. QED BY <2>1, <2>2 DEF SendRequest, Send
<1>5. Ended("pending").status = "pending" /\ Ended("pending") \in Outcome
  BY DEF Ended, Outcome, NoMessage
<1>6. Asks(request, Ended("pending"))
  BY <1>1, <1>5 DEF Asks
<1> HIDE DEF request
<1>7. /\ current' = current + 1 /\ outcome'[current'] = Ended("pending")
      /\ DOMAIN outcome' = DOMAIN outcome \cup {current'}
      /\ \A n \in DOMAIN outcome : outcome'[n] = outcome[n]
  BY <1>0, <1>3, <1>5, <1>6, OutcomesAsked
<1>8. /\ OneHandler /\ CompletedIsDue /\ ChainIsDue /\ OneOfSession /\ WritesAreDue
      /\ EndsComeAfter /\ IncomingIsDue /\ EarlierWereAccepted
      /\ Responses' = Responses
  BY <1>1 DEF OnTrack, OnTheWay, Responses, PacketsOf
<1>9. \A session : InUse(session) => session # session_id' /\ InUse(session)'
  BY <1>2, <1>4 DEF InUse
<1>10. \A payload, session : IsDue(payload, session) => IsDue(payload, session)'
  BY <1>1 DEF IsDue, IsReply
<1>11. /\ \A p \in Responses : p.session_id # session_id'
       /\ linked => \A i \in DOMAIN sendChain : sendChain[i].session # session_id'
       /\ incoming.session_id # session_id'
       /\ NoReplyCompleted'
  <2>1. NoSession # session_id'
    BY <1>2, <1>4 DEF NoSession
  <2>2. NoReplyCompleted'
    BY <1>1, <1>8 DEF NoReplyCompleted, CompletedIsDue
  <2>3. QED BY <1>8, <1>9, <2>1, <2>2 DEF WritesAreDue, ChainIsDue, IncomingIsDue
<1>12. Untouched'
  BY <1>1, <1>8, <1>11 DEF Untouched
<1>13. OneHandler'
  BY <1>1, <1>8, <1>12 DEF OneHandler
<1>14. OnTheWay'
  <2>1. ChainIsDue'
    BY <1>1, <1>8, <1>9, <1>10 DEF ChainIsDue, FromPhone, Unfinished
  <2>2. OneOfSession'
    BY <1>1, <1>11 DEF OneOfSession
  <2>3. WritesAreDue'
    BY <1>8, <1>9, <1>10 DEF WritesAreDue, FromPhone
  <2>4. EndsComeAfter'
    BY <1>1, <1>8, <1>11 DEF EndsComeAfter, EndsOf
  <2>5. IncomingIsDue'
    BY <1>1, <1>8, <1>9, <1>10 DEF IncomingIsDue, FromPhone
  <2>6. CompletedIsDue'
    BY <1>1, <1>8, <1>11 DEF CompletedIsDue, FromPhone, NoReplyCompleted
  <2>7. QED BY <2>1, <2>2, <2>3, <2>4, <2>5, <2>6 DEF OnTheWay
<1>15. NewestSession'
  <2>1. /\ packets \in Seq(Packet)
        /\ \A p \in PacketsOf(packets) :
             /\ p.session_id = session_id + 1
             /\ p.type = "REQUEST_CHUNK" => p.chunk.of = request
    BY <1>2, <1>3, NewPackets
  <2> HIDE DEF packets
  <2>2. PacketsOf(outgoing') = PacketsOf(outgoing) \cup PacketsOf(packets)
    BY <1>0, <1>4, <2>1, PacketsOfQueue, QueueTypes
  <2>3. \A p \in UnderWay' : p \in UnderWay \/ p.session_id = session_id'
    BY <1>1, <1>4, <2>1, <2>2 DEF UnderWay
  <2>4. /\ \A p \in UnderWay : p.chunk.of.id # current'
        /\ \A k \in 0..MaxLen : assembler.chunks[k] # NoChunk =>
             assembler.chunks[k].of.id # current'
    BY <1>0, <1>2, <1>7, IdsWereAsked DEF OrderInvariant, current
  <2>5. session_id' <= current' /\ session_id' > 0
    BY <1>2, <1>4, <1>7
  <2>6. QED BY <1>1, <2>3, <2>4, <2>5 DEF NewestSession
<1>16. EarlierWereAccepted'
  <2>1. \A n \in 1..current : WasAccepted(n)'
    BY <1>1, <1>8 DEF EarlierWereAccepted, WasAccepted, IdOf
  <2>2. QED BY <1>1, <1>2, <1>7, <2>1 DEF EarlierWereAccepted
<1>17. AnswersMatch'
  BY <1>5, <1>7 DEF OnTrack, AnswersMatch, Answered
<1>18. QED BY <1>13, <1>14, <1>15, <1>16, <1>17 DEF OnTrack

(***************************************************************************)
(* Every step                                                              *)
(***************************************************************************)
LEMMA AnswersKeep ==
  ASSUME RequestsFit, Known, TypeOK', AnswerInvariant, [Next]_vars PROVE AnswerInvariant'
<1>0. TypeOK /\ PendingIsOpen /\ PhoneStartsAfresh
  BY DEF Known, AnswerInvariant
<1>1. CASE UNCHANGED vars
  <2>1. /\ UNCHANGED <<session_id, asked, outcome, incoming, completed, received, accepted>>
        /\ UNCHANGED <<handlers, writes, sendChain, position, assembler, linked, phone, pc>>
        /\ StreamStep
    BY <1>1 DEF vars, channelVars, picoVars, phoneVars, bridgeVars, StreamStep
  <2>2. (Open' <=> Open) /\ (Undisturbed' => Undisturbed)
    BY <2>1 DEF Open, Undisturbed
  <2>3. PendingIsOpen' /\ PhoneStartsAfresh'
    BY <1>0, <2>1, <2>2 DEF PendingIsOpen, PhoneStartsAfresh, current
  <2>4. ASSUME OnTrack PROVE OnTrack'
    <3>1. ChainShrinks /\ LessIsWritten
      BY <1>0, <2>1, SameChain, SameWrites
    <3>2. NewestSession'
      BY <1>0, <2>1, <2>2, <2>4, NewestStays DEF OnTrack, Known
    <3>3. QED BY <1>0, <2>1, <2>2, <2>4, <3>1, <3>2, NothingNew DEF BringsNothing
  <2>5. QED BY <2>2, <2>3, <2>4 DEF AnswerInvariant
<1>2. CASE Next
  <2>1. PendingIsOpen' /\ PhoneStartsAfresh'
    BY <1>0, <1>2, PendingStays, PhoneStaysAfresh
  <2> SUFFICES ASSUME Undisturbed' PROVE OnTrack'
    BY <2>1 DEF AnswerInvariant
  <2>2. OnTrack /\ NewestSession
    BY <1>0, <1>2, WasUndisturbed DEF AnswerInvariant, OnTrack
  <2>3. \A result : Ends(result) => result.status = "answered"
    BY <1>0, <2>2, OnlyAnswersEnd
  <2>4. ASSUME NEW status \in {"error", "lost"}, Ends(Ended(status)) PROVE FALSE
    BY <2>3, <2>4 DEF Ended
  <2>5. CASE Bridge
    <3>1. CASE TransportReady \/ Pump \/ NotifyWaiting \/ NothingCompleted \/ TakeCatalog
      BY <2>2, <3>1, BridgeWaits
    <3>2. CASE ReopenTransport \/ PowerCycle
      <4>1. ASSUME Open PROVE FALSE
        <5>1. PowerCycle /\ ~Open' /\ asked' = asked /\ EndRequest(Ended("lost"))
          BY <3>2, <4>1 DEF ReopenTransport, PowerCycle, Open
        <5>2. Ended("lost").status = "lost"
          BY DEF Ended
        <5>3. Ends(Ended("lost"))
          BY <4>1, <5>1, <5>2 DEF Ends
        <5>4. QED BY <2>4, <5>3
      <4>2. /\ Reopen /\ pc' = "opening"
            /\ UNCHANGED <<outcome, asked, phoneVars>>
        BY <3>2, <4>1 DEF ReopenTransport, PowerCycle, Open
      <4>3. QED BY <2>2, <4>1, <4>2, ReopeningIsOnTrack
    <3>3. ASSUME NEW len \in RequestLens, SendRequest(len) PROVE OnTrack'
      BY <2>2, <3>3, AskingIsOnTrack
    <3>4. ASSUME NEW len \in RequestLens, RefuseRequest(len) PROVE FALSE
      <4>1. outcome' = Append(outcome, Ended("error")) /\ Ended("error").status = "error"
        BY <3>4 DEF RefuseRequest, Ended
      <4>2. Ended("error") \in Outcome
        BY DEF Ended, Outcome, NoMessage
      <4>3. Len(outcome) + 1 \in DOMAIN outcome' /\ outcome'[Len(outcome) + 1] = Ended("error")
        <5> DEFINE S == Outcome
        <5>1. outcome \in Seq(S) /\ Ended("error") \in S
          BY <1>0, <4>2, LinkTypes
        <5> HIDE DEF S
        <5>2. QED BY <4>1, <5>1
      <4>4. QED BY <4>1, <4>3 DEF Undisturbed
    <3>5. CASE NotifyFails \/ AckTimeout \/ ResponseTimeout
      <4>1. Ended("error").status = "error"
        BY DEF Ended
      <4>2. Ends(Ended("error"))
        BY <3>5, <4>1 DEF NotifyFails, AckTimeout, ResponseTimeout, Ends, Open
      <4>3. QED BY <2>4, <4>2
    <3>6. CASE TakeAnswer
      BY <2>2, <3>6, AnsweringIsOnTrack
    <3>7. QED BY <2>5, <3>1, <3>2, <3>3, <3>4, <3>5, <3>6 DEF Bridge
  <2>6. CASE Irq
    <3>1. CASE IrqWrite /\ OnResponseChunk(Head(writes))
      BY <2>2, <2>6, <3>1, ReadingChunkIsOnTrack DEF Irq
    <3>2. CASE IrqWrite /\ OnResponseEnd(Head(writes))
      BY <2>2, <2>6, <3>2, ReadingEndIsOnTrack DEF Irq
    <3>3. QED BY <2>2, <2>6, <3>1, <3>2, IrqBringsNothing
  <2>7. CASE Phone
    <3>0. UNCHANGED <<picoVars, bridgeVars>>
      BY <2>7 DEF Phone
    <3>1. CASE \/ Connect \/ Discover \/ Subscribe \/ Disconnect \/ MissNotification
               \/ WriteGivesUp \/ WriteFails
      BY <1>0, <2>2, <3>0, <3>1, PhoneBringsNothing
    <3>2. CASE ReceiveNotification
      BY <2>2, <3>0, <3>2, ReceivingBringsNothing, AcceptingIsOnTrack
    <3>3. ASSUME NEW h \in handlers, CallRelay(h) PROVE OnTrack'
      BY <2>2, <3>0, <3>3, CallingIsOnTrack
    <3>4. ASSUME NEW h \in handlers, NEW kind \in ReplyKinds, RelayReplies(h, kind)
          PROVE  OnTrack'
      BY <2>2, <3>0, <3>4, ReplyingIsOnTrack
    <3>5. ASSUME NEW kind \in UpdateKinds, SendAsyncUpdate(kind) PROVE OnTrack'
      BY <2>2, <3>0, <3>5, UpdatingIsOnTrack
    <3>6. CASE WriteFirst \/ WriteAgain
      BY <2>2, <3>0, <3>6, WritingIsOnTrack
    <3>7. QED BY <2>7, <3>1, <3>2, <3>3, <3>4, <3>5, <3>6 DEF Phone
  <2>8. QED BY <1>2, <2>5, <2>6, <2>7 DEF Next
<1>3. QED BY <1>1, <1>2

LEMMA InitAnswerInvariant == Init => AnswerInvariant
<1> SUFFICES ASSUME Init PROVE AnswerInvariant
  OBVIOUS
<1>1. /\ linked = FALSE /\ writes = <<>> /\ session_id = 0
      /\ incoming = EmptyAssembler /\ completed = <<>> /\ sendChain = <<>>
      /\ handlers = {} /\ outcome = <<>> /\ asked = <<>> /\ pc = "opening"
  BY DEF Init, ChannelInit, PicoInit, PhoneInit
<1>2. /\ current = 0 /\ ~Open /\ Responses = {}
      /\ DOMAIN outcome = {} /\ DOMAIN completed = {} /\ DOMAIN writes = {}
  BY <1>1 DEF current, Open, Responses, PacketsOf
<1>3. PendingIsOpen /\ PhoneStartsAfresh
  BY <1>1, <1>2 DEF PendingIsOpen, PhoneStartsAfresh
<1>4. IncomingIsDue
  <2>1. /\ \A k \in 0..MaxLen : EmptyAssembler.chunks[k] = NoChunk
        /\ EmptyAssembler.session_id = NoSession
    BY DEF EmptyAssembler, NoChunks
  <2>2. QED BY <1>1, <2>1 DEF IncomingIsDue
<1>5. OnTheWay
  BY <1>1, <1>2, <1>4
  DEF OnTheWay, ChainIsDue, OneOfSession, WritesAreDue, EndsComeAfter, CompletedIsDue
<1>6. EarlierWereAccepted /\ NewestSession /\ OneHandler /\ AnswersMatch
  BY <1>1, <1>2 DEF EarlierWereAccepted, NewestSession, OneHandler, AnswersMatch
<1>7. QED BY <1>3, <1>5, <1>6 DEF AnswerInvariant, OnTrack

LEMMA AnswerInvariantHolds ==
  ASSUME RequestsFit PROVE Spec => []AnswerInvariant
<1>1. MaxRequests <= SessionLimit
  BY ChannelAssumption, LinkAssumption DEF RequestsFit
<1>2. Spec => []TypeOK /\ []RequestInvariant /\ []OrderInvariant
  BY <1>1, TypeCorrect, RequestInvariantHolds, OrderInvariantHolds
<1>3. TypeOK /\ RequestInvariant /\ OrderInvariant => Known
  BY DEF Known
<1>4. Known /\ TypeOK' /\ AnswerInvariant /\ [Next]_vars => AnswerInvariant'
  BY AnswersKeep
<1>5. QED BY <1>2, <1>3, <1>4, InitAnswerInvariant, PTL DEF Spec

(* Up to the first error frame or page update every answer the calculator  *)
(* gets is that to its request, however often the connection breaks, the   *)
(* Pico loses power or a packet is repeated.                               *)
THEOREM AnswersBelongToRequests ==
  ASSUME RequestsFit PROVE Spec => []AnswersMatchUntilDisturbed
<1>1. AnswerInvariant => AnswersMatchUntilDisturbed
  BY DEF AnswerInvariant, OnTrack, AnswersMatch, Undisturbed, AnswersMatchUntilDisturbed
<1>2. QED BY <1>1, AnswerInvariantHolds, PTL

=============================================================================
