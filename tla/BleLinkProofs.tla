---------------------------- MODULE BleLinkProofs ----------------------------
(***************************************************************************)
(* Proofs about BleLink for every value of its constants: its types, and   *)
(* the way of the requests.  The phone takes in whole requests and nothing *)
(* else, once each and in the order they were made, and what it            *)
(* acknowledged it has taken in, as long as the calculator makes no more   *)
(* requests than there are session ids.  The inductive invariants are      *)
(* RequestInvariant of the module, OrderInvariant and AckInvariant.        *)
(***************************************************************************)
EXTENDS BleLink, SequenceTheorems, FiniteSetTheorems, TLAPS

(***************************************************************************)
(* What the protocol's helpers return                                      *)
(***************************************************************************)
(* chunk_message and the end packet are a sequence of well-formed packets. *)
LEMMA PacketsType ==
  ASSUME NEW chunkType \in PacketTypes,
         NEW endType \in PacketTypes \ {"REQUEST_CHUNK", "RESPONSE_CHUNK"},
         NEW session \in Nat, NEW payload \in Payload
  PROVE  /\ Packets(chunkType, endType, session, payload) \in Seq(Packet)
         /\ Len(Packets(chunkType, endType, session, payload)) = payload.len + 1
<1> DEFINE packet(i) == IF i <= payload.len
                        THEN Encode(chunkType, session, i - 1, payload.len,
                                    [of |-> payload, at |-> i - 1])
                        ELSE Encode(endType, session, payload.len, payload.len, NoChunk)
<1>1. payload.len \in 0..MaxLen /\ payload.len + 1 \in Nat
  BY MaxLenAssumption DEF Payload
<1>2. ASSUME NEW i \in 1..(payload.len + 1) PROVE packet(i) \in Packet
  <2>1. CASE i <= payload.len
    <3>1. i - 1 \in 0..MaxLen /\ i - 1 < payload.len
      BY <1>1, <2>1, MaxLenAssumption
    <3>2. [of |-> payload, at |-> i - 1] \in Chunk
      BY <3>1 DEF Chunk
    <3>3. Encode(chunkType, session, i - 1, payload.len,
                 [of |-> payload, at |-> i - 1]) \in Packet
      BY <1>1, <3>1, <3>2 DEF Packet, Envelope, Encode
    <3>4. QED BY <2>1, <3>3
  <2>2. CASE ~(i <= payload.len)
    <3>1. NoChunk \in Chunk
      BY MaxLenAssumption DEF NoChunk, Chunk, Payload, NoPayload, PayloadKinds
    <3>2. Encode(endType, session, payload.len, payload.len, NoChunk) \in Packet
      BY <1>1, <3>1 DEF Packet, Envelope, Encode
    <3>3. QED BY <2>2, <3>2
  <2>3. QED BY <2>1, <2>2
<1>3. Packets(chunkType, endType, session, payload)
        = [i \in 1..(payload.len + 1) |-> packet(i)]
  BY DEF Packets
<1> HIDE DEF packet
<1>4. QED BY <1>1, <1>2, <1>3

LEMMA NoPacketType == NoPacket \in Packet /\ NoChunk \in Chunk
<1>1. NoChunk \in Chunk
  BY MaxLenAssumption DEF NoChunk, Chunk, Payload, NoPayload, PayloadKinds
<1>2. QED
  BY <1>1, MaxLenAssumption DEF NoPacket, Packet, Envelope, Encode, PacketTypes

(* Queues of packets and the packets put on them.                          *)
LEMMA QueueType ==
  /\ <<>> \in Seq(Packet) /\ <<>> \in Seq(MessageType)
  /\ \A q \in Seq(Packet), p \in Packet : Append(q, p) \in Seq(Packet)
  /\ \A q \in Seq(MessageType), m \in MessageType : Append(q, m) \in Seq(MessageType)
OBVIOUS

LEMMA AckOfType ==
  ASSUME NEW packet \in Packet PROVE AckOf(packet) \in Packet
BY NoPacketType DEF AckOf, Packet, Envelope, Encode, PacketTypes

LEMMA AssemblerType ==
  /\ EmptyAssembler \in Assembler
  /\ \A a \in Assembler, p \in Packet :
        p.type \in {"REQUEST_CHUNK", "RESPONSE_CHUNK"} => AssemblerAdd(a, p) \in Assembler
  /\ \A a \in Assembler, s \in Nat : AssemblerFinish(a, s) \in Assembler
  /\ \A a \in Assembler, s \in Nat :
        CanFinish(a, s) => Assembled(a) \in MessageType
<1>1. NoChunks \in [0..MaxLen -> Chunk]
  BY NoPacketType DEF NoChunks
<1>2. EmptyAssembler \in Assembler
  BY <1>1, MaxLenAssumption DEF EmptyAssembler, Assembler, NoSession
<1>3. ASSUME NEW a \in Assembler, NEW p \in Packet,
             p.type \in {"REQUEST_CHUNK", "RESPONSE_CHUNK"}
      PROVE  AssemblerAdd(a, p) \in Assembler
  <2> DEFINE kept == IF a.session_id \in {NoSession, p.session_id}
                     THEN a.chunks ELSE NoChunks
             filled == IF kept[p.sequence] = NoChunk
                       THEN [kept EXCEPT ![p.sequence] = p.chunk] ELSE kept
  <2>1. kept \in [0..MaxLen -> Chunk]
    BY <1>1 DEF Assembler
  <2>2. p.sequence \in 0..MaxLen /\ p.chunk \in Chunk /\ p.session_id \in Nat
          /\ p.total_length \in 0..MaxLen /\ p.total_length > 0
    BY <1>3, MaxLenAssumption DEF Packet, Envelope
  <2>3. filled \in [0..MaxLen -> Chunk]
    BY <2>1, <2>2
  <2>4. AssemblerAdd(a, p) = [session_id |-> p.session_id,
                              total_length |-> p.total_length, chunks |-> filled]
    BY DEF AssemblerAdd
  <2> HIDE DEF filled
  <2>5. QED BY <2>2, <2>3, <2>4 DEF Assembler
<1>4. ASSUME NEW a \in Assembler, NEW s \in Nat, CanFinish(a, s)
      PROVE  Assembled(a) \in MessageType
  <2>1. a.total_length \in 0..MaxLen /\ a.total_length > 0
          /\ a.chunks \in [0..MaxLen -> Chunk]
    BY <1>4 DEF CanFinish, Assembler
  <2>2. \A i \in 1..a.total_length : a.chunks[i - 1] \in Chunk
    BY <2>1, MaxLenAssumption
  <2>3. Assembled(a) \in Seq(Chunk) /\ Len(Assembled(a)) = a.total_length
    BY <2>1, <2>2, MaxLenAssumption DEF Assembled
  <2>4. QED BY <2>1, <2>3 DEF MessageType
<1>5. QED BY <1>2, <1>3, <1>4 DEF AssemblerFinish

(***************************************************************************)
(* Type correctness                                                        *)
(***************************************************************************)
LEMMA InitTypeOK == Init => TypeOK
<1> SUFFICES ASSUME Init PROVE TypeOK
  OBVIOUS
<1>1. ChannelTypeOK
  <2>1. notifications \in Seq(Packet) /\ writes \in Seq(Packet) /\ linked \in BOOLEAN
    BY QueueType DEF Init, ChannelInit
  <2>2. drops \in 0..MaxDrops /\ mishaps \in 0..MaxMishaps /\ timers \in 0..MaxTimers
    BY ChannelAssumption DEF Init, ChannelInit
  <2>3. QED BY <2>1, <2>2 DEF ChannelTypeOK
<1>2. PicoTypeOK
  <2>1. waiting \in Packet /\ incoming \in Assembler
    BY NoPacketType, AssemblerType DEF Init, PicoInit
  <2>2. QED BY <2>1, ChannelAssumption DEF Init, PicoInit, PicoTypeOK
<1>3. PhoneTypeOK
  <2>1. assembler \in Assembler /\ IsFiniteSet(handlers)
    BY AssemblerType, FS_EmptySet DEF Init, PhoneInit
  <2>2. QED
    BY <2>1, ChannelAssumption, ServiceAssumption
    DEF Init, PhoneInit, PhoneTypeOK, PhoneStates
<1>4. BridgeTypeOK
  BY LinkAssumption DEF Init, BridgeTypeOK
<1>5. QED BY <1>1, <1>2, <1>3, <1>4 DEF TypeOK

LEMMA SendTypeOK ==
  ASSUME TypeOK, NEW payload \in Payload, Send(payload)
  PROVE  ChannelTypeOK' /\ PicoTypeOK'
<1>1. NextSession \in 0..SessionLimit /\ NextSession \in Nat
  BY ChannelAssumption DEF NextSession, TypeOK, PicoTypeOK
<1>2. RequestPackets(NextSession, payload) \in Seq(Packet)
  BY <1>1, PacketsType DEF RequestPackets, PacketTypes
<1>3. outgoing' \in Seq(Packet)
  BY <1>2 DEF Send, TypeOK, PicoTypeOK
<1>4. QED
  BY <1>1, <1>3 DEF Send, TypeOK, PicoTypeOK, ChannelTypeOK, channelVars

LEMMA PumpTypeOK ==
  ASSUME TypeOK,
         \/ PumpRetry \/ PumpGivesUp \/ PumpNext \/ PumpIdle
         \/ PumpNotify \/ PumpNotifyRaises
  PROVE  ChannelTypeOK' /\ PicoTypeOK'
<1> USE DEF TypeOK, ChannelTypeOK, PicoTypeOK
<1>1. CASE PumpRetry
  BY <1>1, ChannelAssumption DEF PumpRetry, TimerExpires
<1>2. CASE PumpGivesUp
  BY <1>2, ChannelAssumption, NoPacketType DEF PumpGivesUp, TimerExpires
<1>3. CASE PumpNext
  BY <1>3, ChannelAssumption DEF PumpNext, channelVars
<1>4. CASE PumpIdle
  BY <1>4 DEF PumpIdle, picoVars, channelVars
<1>5. CASE PumpNotify
  <2>1. notifications' \in Seq(Packet)
    BY <1>5, QueueType DEF PumpNotify, Notify
  <2>2. UNCHANGED <<picoVars, linked, writes, drops, mishaps, timers>>
    BY <1>5 DEF PumpNotify
  <2>3. QED BY <2>1, <2>2 DEF picoVars
<1>6. CASE PumpNotifyRaises
  BY <1>6, ChannelAssumption DEF PumpNotifyRaises, NotifyRaises, picoVars
<1>7. QED BY <1>1, <1>2, <1>3, <1>4, <1>5, <1>6

LEMMA IrqTypeOK ==
  ASSUME TypeOK,
         \/ IrqWrite
         \/ \E n \in 2..Len(writes) : IrqGluedWrites(n)
         \/ IrqDisconnect
  PROVE  ChannelTypeOK' /\ PicoTypeOK'
<1> USE DEF TypeOK, ChannelTypeOK, PicoTypeOK
<1>1. CASE IrqWrite
  <2> DEFINE packet == Head(writes)
  <2>1. packet \in Packet /\ Tail(writes) \in Seq(Packet)
          /\ AckOf(packet) \in Packet /\ packet.session_id \in Nat
    <3>1. packet \in Packet /\ Tail(writes) \in Seq(Packet)
      BY <1>1 DEF IrqWrite
    <3>2. QED BY <3>1, AckOfType DEF Packet, Envelope
  <2>2. CASE OnAck(packet)
    BY <1>1, <2>1, <2>2, NoPacketType DEF IrqWrite, OnAck
  <2>3. NotifyRaises => mishaps' \in 0..MaxMishaps /\ notifications' \in Seq(Packet)
    BY ChannelAssumption DEF NotifyRaises
  <2>4. Notify(AckOf(packet)) => notifications' \in Seq(Packet)
    BY <2>1, QueueType DEF Notify
  <2>5. CASE OnResponseChunk(packet)
    <3>1. incoming' \in Assembler
      BY <2>1, <2>5, AssemblerType DEF OnResponseChunk
    <3>2. notifications' \in Seq(Packet) /\ mishaps' \in 0..MaxMishaps
      BY <2>3, <2>4, <2>5 DEF OnResponseChunk
    <3>3. QED BY <1>1, <2>1, <2>5, <3>1, <3>2 DEF IrqWrite, OnResponseChunk
  <2>6. CASE OnResponseEnd(packet)
    <3>1. incoming' \in Assembler
      BY <2>1, <2>6, AssemblerType DEF OnResponseEnd
    <3>2. notifications' \in Seq(Packet) /\ mishaps' \in 0..MaxMishaps
      BY <2>3, <2>4, <2>6 DEF OnResponseEnd
    <3>3. CanFinish(incoming, packet.session_id) => Assembled(incoming) \in MessageType
      BY <2>1, AssemblerType
    <3>4. /\ completed' \in Seq(MessageType) /\ received' \in Seq(MessageType)
          /\ lost' \subseteq MessageType
      <4>1. CASE CanFinish(incoming, packet.session_id)
        BY <2>6, <3>3, <4>1, QueueType DEF OnResponseEnd, Complete
      <4>2. CASE ~CanFinish(incoming, packet.session_id)
        BY <2>6, <4>2 DEF OnResponseEnd
      <4>3. QED BY <4>1, <4>2
    <3>5. QED BY <1>1, <2>1, <2>6, <3>1, <3>2, <3>4 DEF IrqWrite, OnResponseEnd
  <2>7. QED BY <1>1, <2>2, <2>5, <2>6 DEF IrqWrite
<1>2. ASSUME NEW n \in 2..Len(writes), IrqGluedWrites(n)
      PROVE  ChannelTypeOK' /\ PicoTypeOK'
  <2>1. SubSeq(writes, n + 1, Len(writes)) \in Seq(Packet)
    BY <1>2
  <2>2. QED BY <1>2, <2>1, ChannelAssumption DEF IrqGluedWrites, picoVars
<1>3. CASE IrqDisconnect
  <2>1. drops' \in 0..MaxDrops
    BY <1>3, ChannelAssumption DEF IrqDisconnect
  <2>2. /\ linked' \in BOOLEAN /\ waiting' \in Packet
        /\ notifications' \in Seq(Packet) /\ writes' \in Seq(Packet)
    BY <1>3, NoPacketType, QueueType DEF IrqDisconnect
  <2>3. QED BY <1>3, <2>1, <2>2 DEF IrqDisconnect
<1>4. QED BY <1>1, <1>2, <1>3

LEMMA BridgeTypeOKStep ==
  ASSUME TypeOK, Bridge PROVE TypeOK'
<1> USE DEF TypeOK, BridgeTypeOK
<1>0. /\ current \in Nat
      /\ \A result \in Outcome : EndRequest(result)
           => outcome' \in Seq(Outcome) /\ Len(outcome') = Len(outcome)
      /\ \A s \in {"pending", "answered", "error", "lost"} : Ended(s) \in Outcome
  BY DEF current, EndRequest, Outcome, Ended, NoMessage
<1>1. CASE TransportReady
  BY <1>1 DEF TransportReady, channelVars, picoVars, phoneVars, ChannelTypeOK,
     PicoTypeOK, PhoneTypeOK
<1>2. Reopen => ChannelTypeOK' /\ PicoTypeOK'
  <2> SUFFICES ASSUME Reopen PROVE ChannelTypeOK' /\ PicoTypeOK'
    OBVIOUS
  <2>1. ChannelTypeOK'
    BY QueueType DEF Reopen, ChannelTypeOK
  <2>2. outgoing' \in Seq(Packet) /\ completed' \in Seq(MessageType)
          /\ waiting' \in Packet /\ incoming' \in Assembler
    BY NoPacketType, AssemblerType, QueueType DEF Reopen, FreshTransport
  <2>3. session_id' \in 0..SessionLimit /\ waiting_retries' \in 0..AckRetries
    BY ChannelAssumption DEF Reopen, FreshTransport
  <2>4. QED BY <2>1, <2>2, <2>3 DEF Reopen, PicoTypeOK
<1>3. CASE ReopenTransport
  BY <1>2, <1>3 DEF ReopenTransport, phoneVars, PhoneTypeOK
<1>4. CASE PowerCycle
  BY <1>0, <1>2, <1>4, LinkAssumption DEF PowerCycle, phoneVars, PhoneTypeOK
<1>5. ASSUME NEW len \in RequestLens, NewRequest(len)
      PROVE  /\ asked' \in Seq(Payload) /\ Len(asked') = Len(asked) + 1
             /\ Len(asked') <= MaxRequests
             /\ asked'[current + 1] \in Payload
             /\ PhoneTypeOK' /\ powerCycles' = powerCycles
  <2>1. [kind |-> "request", id |-> current + 1, len |-> len] \in Payload
    BY <1>0, LinkAssumption DEF Payload, PayloadKinds
  <2>2. QED
    BY <1>5, <2>1, LinkAssumption DEF NewRequest, current, phoneVars, PhoneTypeOK
<1>6. ASSUME NEW len \in RequestLens, SendRequest(len) PROVE TypeOK'
  <2>1. Send(asked'[current + 1]) /\ NewRequest(len)
    BY <1>6 DEF SendRequest
  <2>2. ChannelTypeOK' /\ PicoTypeOK'
    BY <1>5, <2>1, SendTypeOK
  <2>3. QED BY <1>0, <1>5, <1>6, <2>1, <2>2 DEF SendRequest
<1>7. ASSUME NEW len \in RequestLens, RefuseRequest(len) PROVE TypeOK'
  BY SMTT(40), <1>0, <1>5, <1>7 DEF RefuseRequest, channelVars, picoVars, ChannelTypeOK,
     PicoTypeOK
<1>8. CASE Pump
  BY <1>8, PumpTypeOK DEF Pump, phoneVars, PhoneTypeOK
<1>9. CASE NotifyWaiting
  BY <1>9, PumpTypeOK DEF NotifyWaiting, phoneVars, PhoneTypeOK
<1>10. CASE AckTimeout
  BY <1>0, <1>10, PumpTypeOK DEF AckTimeout, phoneVars, PhoneTypeOK
<1>11. CASE ResponseTimeout
  BY <1>0, <1>11 DEF ResponseTimeout, channelVars, picoVars, phoneVars,
     ChannelTypeOK, PicoTypeOK, PhoneTypeOK
<1>12. CASE NothingCompleted
  BY <1>12 DEF NothingCompleted, channelVars, picoVars, phoneVars,
     ChannelTypeOK, PicoTypeOK, PhoneTypeOK
<1>13. PopCompleted => ChannelTypeOK' /\ PicoTypeOK' /\ Head(completed) \in MessageType
  BY DEF PopCompleted, channelVars, ChannelTypeOK, PicoTypeOK
<1>14. CASE TakeCatalog
  BY <1>13, <1>14 DEF TakeCatalog, phoneVars, PhoneTypeOK
<1>15. CASE TakeAnswer
  <2>1. Head(completed) \in MessageType /\ ChannelTypeOK' /\ PicoTypeOK'
    BY <1>13, <1>15 DEF TakeAnswer
  <2>2. [status |-> "answered", message |-> Head(completed)] \in Outcome
    BY <2>1 DEF Outcome
  <2>3. QED BY <1>0, <1>15, <2>1, <2>2 DEF TakeAnswer, phoneVars, PhoneTypeOK
<1>16. CASE NotifyFails
  BY <1>0, <1>16, PumpTypeOK DEF NotifyFails, phoneVars, PhoneTypeOK
<1>17. QED
  BY <1>1, <1>3, <1>4, <1>6, <1>7, <1>8, <1>9, <1>10, <1>11, <1>12, <1>14, <1>15,
     <1>16
  DEF Bridge

(***************************************************************************)
(* The phone                                                               *)
(***************************************************************************)
LEMMA QueueBounds ==
  ReplyLen \in Nat /\ WriteAttempts \in Nat /\ 0 \in 0..ReplyLen /\ 0 \in 0..WriteAttempts
BY MaxLenAssumption, ChannelAssumption, ServiceAssumption

(* NextInChain leaves a chain of the same kind with nothing written of it. *)
LEMMA NextInChainType ==
  ASSUME PhoneTypeOK, sendChain # <<>>, NextInChain
  PROVE  /\ sendChain' \in Seq(Outgoing)
         /\ position' \in 0..ReplyLen /\ attempt' \in 0..WriteAttempts
         /\ attempt' > 0 \/ position' > 0 => sendChain' # <<>>
BY QueueBounds DEF NextInChain, PhoneTypeOK

LEMMA ReceiveTypeOK ==
  ASSUME TypeOK, ReceiveNotification PROVE ChannelTypeOK' /\ PhoneTypeOK'
<1> USE DEF TypeOK
<1> DEFINE packet == Head(notifications)
<1>1. packet \in Packet /\ Tail(notifications) \in Seq(Packet)
        /\ AckOf(packet) \in Packet /\ packet.session_id \in Nat
  <2>1. packet \in Packet /\ Tail(notifications) \in Seq(Packet)
    BY DEF ReceiveNotification, ChannelTypeOK
  <2>2. QED BY <2>1, AckOfType DEF Packet, Envelope
<1>2. CASE OnPicoAck(packet)
  <2>1. ChannelTypeOK'
    BY <1>1, <1>2 DEF ReceiveNotification, OnPicoAck, ChannelTypeOK
  <2>2. /\ sendChain' \in Seq(Outgoing) /\ position' \in 0..ReplyLen
        /\ attempt' \in 0..WriteAttempts
        /\ attempt' > 0 \/ position' > 0 => sendChain' # <<>>
    <3>1. CASE attempt > 0 /\ SameKey(packet, CurrentPacket)
      <4>1. sendChain # <<>> /\ sendChain \in Seq(Outgoing)
        BY <3>1 DEF PhoneTypeOK
      <4>2. Head(sendChain).payload.len = ReplyLen /\ Tail(sendChain) \in Seq(Outgoing)
        <5>1. Head(sendChain) \in Outgoing /\ Tail(sendChain) \in Seq(Outgoing)
          BY <4>1
        <5>2. QED BY <5>1 DEF Outgoing
      <4>3. CASE position = Head(sendChain).payload.len
        BY <1>2, <3>1, <4>2, <4>3, QueueBounds DEF OnPicoAck, NextInChain
      <4>4. CASE position # Head(sendChain).payload.len
        BY <1>2, <3>1, <4>1, <4>2, <4>4, QueueBounds DEF OnPicoAck, PhoneTypeOK
      <4>5. QED BY <4>3, <4>4
    <3>2. CASE ~(attempt > 0 /\ SameKey(packet, CurrentPacket))
      BY <1>2, <3>2 DEF OnPicoAck, PhoneTypeOK
    <3>3. QED BY <3>1, <3>2
  <2>3. QED BY <1>2, <2>1, <2>2 DEF ReceiveNotification, OnPicoAck, PhoneTypeOK
<1>3. CASE OnRequestChunk(packet)
  <2>1. assembler' \in Assembler /\ writes' \in Seq(Packet)
    BY <1>1, <1>3, AssemblerType, QueueType
    DEF OnRequestChunk, Write, PhoneTypeOK, ChannelTypeOK
  <2>2. QED
    BY <1>1, <1>3, <2>1 DEF ReceiveNotification, OnRequestChunk, PhoneTypeOK, ChannelTypeOK
<1>4. CASE OnRequestEnd(packet)
  <2>1. assembler' \in Assembler
    BY <1>1, <1>4, AssemblerType DEF OnRequestEnd, PhoneTypeOK
  <2>2. /\ writes' \in Seq(Packet) /\ handlers' \in SUBSET Handler
        /\ IsFiniteSet(handlers') /\ accepted' \in Seq([session : Nat, message : MessageType])
    <3>1. CASE CanFinish(assembler, packet.session_id)
      <4> DEFINE request == Assembled(assembler)
                 handler == [id |-> Len(accepted) + 1, session |-> packet.session_id,
                             request |-> request, state |-> "acking"]
      <4>1. request \in MessageType
        BY <1>1, <3>1, AssemblerType DEF PhoneTypeOK
      <4>2. accepted' = Append(accepted, [session |-> packet.session_id,
                                          message |-> request])
            /\ handlers' = handlers \cup {handler} /\ writes' = Append(writes, AckOf(packet))
        BY <1>4, <3>1 DEF OnRequestEnd, Write
      <4> HIDE DEF request
      <4>3. handler \in Handler
        BY <1>1, <4>1 DEF Handler, PhoneTypeOK
      <4>4. accepted' \in Seq([session : Nat, message : MessageType])
        BY <1>1, <4>1, <4>2 DEF PhoneTypeOK
      <4>5. IsFiniteSet(handlers')
        BY <4>2, FS_AddElement DEF PhoneTypeOK
      <4> HIDE DEF handler
      <4>6. QED BY <1>1, <4>2, <4>3, <4>4, <4>5, QueueType DEF PhoneTypeOK, ChannelTypeOK
    <3>2. CASE ~CanFinish(assembler, packet.session_id)
      BY <1>4, <3>2 DEF OnRequestEnd, PhoneTypeOK, ChannelTypeOK
    <3>3. QED BY <3>1, <3>2
  <2>3. QED
    BY <1>1, <1>4, <2>1, <2>2 DEF ReceiveNotification, OnRequestEnd, PhoneTypeOK, ChannelTypeOK
<1>5. CASE OnUndecodable(packet)
  BY <1>1, <1>5 DEF ReceiveNotification, OnUndecodable, PhoneTypeOK, ChannelTypeOK
<1>6. QED
  BY <1>2, <1>3, <1>4, <1>5 DEF ReceiveNotification

(* The packet being written is one of the packets of a response.           *)
LEMMA CurrentPacketType ==
  ASSUME TypeOK, sendChain # <<>> PROVE CurrentPacket \in Packet
<1>1. Head(sendChain) \in Outgoing
  BY DEF TypeOK, PhoneTypeOK
<1>2. Head(sendChain).payload \in Payload /\ Head(sendChain).session \in Nat
        /\ Head(sendChain).payload.len = ReplyLen
  BY <1>1, ServiceAssumption, MaxLenAssumption DEF Outgoing, Payload
<1> DEFINE packets == ResponsePackets(Head(sendChain).session, Head(sendChain).payload)
<1>3. packets \in Seq(Packet) /\ Len(packets) = ReplyLen + 1
  BY <1>2, PacketsType DEF ResponsePackets, PacketTypes
<1>4. position + 1 \in 1..(ReplyLen + 1)
  BY QueueBounds DEF TypeOK, PhoneTypeOK
<1> HIDE DEF packets
<1>5. packets[position + 1] \in Packet
  BY <1>3, <1>4
<1>6. QED BY <1>5 DEF packets, CurrentPacket

LEMMA WriteTypeOK ==
  ASSUME TypeOK, WriteFirst \/ WriteAgain \/ WriteGivesUp \/ WriteFails
  PROVE  ChannelTypeOK' /\ PhoneTypeOK'
<1>1. sendChain # <<>>
  BY DEF WriteFirst, WriteAgain, WriteGivesUp, WriteFails
<1>2. CurrentPacket \in Packet
  BY <1>1, CurrentPacketType
<1>3. TimerExpires => timers' \in 0..MaxTimers
  BY ChannelAssumption DEF TimerExpires, TypeOK, ChannelTypeOK
<1>4. ASSUME Write(CurrentPacket) PROVE writes' \in Seq(Packet)
  BY <1>2, <1>4, QueueType DEF Write, TypeOK, ChannelTypeOK
<1>5. CASE WriteFirst
  <2>1. writes' \in Seq(Packet) /\ attempt' \in 0..WriteAttempts
    BY <1>4, <1>5, ChannelAssumption DEF WriteFirst
  <2>2. QED BY <1>1, <1>5, <2>1 DEF WriteFirst, TypeOK, ChannelTypeOK, PhoneTypeOK
<1>6. CASE WriteAgain
  <2>1. writes' \in Seq(Packet) /\ attempt' \in 0..WriteAttempts /\ timers' \in 0..MaxTimers
    BY <1>3, <1>4, <1>6, ChannelAssumption DEF WriteAgain
  <2>2. QED BY <1>1, <1>6, <2>1 DEF WriteAgain, TypeOK, ChannelTypeOK, PhoneTypeOK
<1>7. CASE WriteGivesUp
  BY <1>1, <1>3, <1>7, NextInChainType DEF WriteGivesUp, TypeOK, ChannelTypeOK, PhoneTypeOK
<1>8. CASE WriteFails
  BY <1>1, <1>8, NextInChainType
  DEF WriteFails, TypeOK, channelVars, ChannelTypeOK, PhoneTypeOK
<1>9. QED BY <1>5, <1>6, <1>7, <1>8

LEMMA ConnectionTypeOK ==
  ASSUME TypeOK,
         Connect \/ Discover \/ Subscribe \/ Disconnect \/ MissNotification
  PROVE  ChannelTypeOK' /\ PhoneTypeOK'
<1> USE DEF TypeOK, ChannelTypeOK, PhoneTypeOK, PhoneStates
<1>1. CASE Connect
  BY <1>1 DEF Connect
<1>2. CASE Discover
  BY <1>2 DEF Discover, channelVars
<1>3. CASE Subscribe
  BY <1>3 DEF Subscribe, channelVars
<1>4. CASE Disconnect
  <2>1. handlers' \in SUBSET Handler /\ IsFiniteSet(handlers')
    BY <1>4, FS_Subset DEF Disconnect
  <2>2. sendChain' \in Seq(Outgoing) /\ assembler' \in Assembler
    BY <1>4, AssemblerType DEF Disconnect
  <2>3. QED BY <1>4, <2>1, <2>2, QueueBounds DEF Disconnect, channelVars
<1>5. CASE MissNotification
  BY <1>5 DEF MissNotification, phoneVars
<1>6. QED BY <1>1, <1>2, <1>3, <1>4, <1>5

(* The frame a request is answered with is a payload of the relay's.       *)
LEMMA ReplyToType ==
  ASSUME NEW request \in MessageType, NEW kind \in ReplyKinds
  PROVE  ReplyTo(request, kind) \in [kind : PayloadKinds, id : Nat, len : {ReplyLen}]
<1>1. request[1] \in Chunk
  BY DEF MessageType
<1>2. request[1].of.id \in Nat
  BY <1>1 DEF Chunk, Payload
<1>3. QED BY <1>2, LinkAssumption DEF ReplyTo, PayloadKinds

LEMMA RelayTypeOK ==
  ASSUME TypeOK,
         \/ \E h \in handlers : CallRelay(h)
         \/ \E h \in handlers, kind \in ReplyKinds : RelayReplies(h, kind)
         \/ \E kind \in UpdateKinds : SendAsyncUpdate(kind)
  PROVE  ChannelTypeOK' /\ PhoneTypeOK'
<1>1. ASSUME NEW h \in handlers, CallRelay(h)
      PROVE  ChannelTypeOK' /\ PhoneTypeOK'
  <2>1. h \in Handler /\ handlers \subseteq Handler /\ IsFiniteSet(handlers)
    BY DEF TypeOK, PhoneTypeOK
  <2>2. PICK request \in {g.request : g \in handlers} :
          handlers' = (handlers \ {h}) \cup
                        {[h EXCEPT !.state = "replying", !.request = request]}
    BY <1>1 DEF CallRelay
  <2>3. request \in MessageType
    BY <2>1 DEF Handler
  <2>4. [h EXCEPT !.state = "replying", !.request = request] \in Handler
    BY <2>1, <2>3 DEF Handler
  <2>5. handlers' \in SUBSET Handler
    BY <2>1, <2>2, <2>4
  <2>6. IsFiniteSet(handlers')
    BY <2>1, <2>2, FS_RemoveElement, FS_AddElement
  <2>7. QED
    BY <1>1, <2>5, <2>6
    DEF CallRelay, TypeOK, channelVars, ChannelTypeOK, PhoneTypeOK
<1>2. ASSUME NEW h \in handlers, NEW kind \in ReplyKinds, RelayReplies(h, kind)
      PROVE  ChannelTypeOK' /\ PhoneTypeOK'
  <2> DEFINE sharing == {g \in handlers : g.state = "replying" /\ g.session = h.session}
             reply == ReplyTo(h.request, kind)
             responses == [i \in 1..Cardinality(sharing) |->
                             [session |-> h.session, payload |-> reply]]
  <2>1. h \in Handler /\ handlers \subseteq Handler /\ IsFiniteSet(handlers)
    BY DEF TypeOK, PhoneTypeOK
  <2>2. /\ handlers' = handlers \ sharing
        /\ IF CanWrite
           THEN /\ sendChain' = sendChain \o responses
                /\ queued' = queued \o [i \in DOMAIN responses |-> responses[i].payload]
           ELSE UNCHANGED <<sendChain, queued>>
        /\ UNCHANGED <<phone, assembler, position, attempt, nextPhoneSession,
                       accepted, updates, channelVars>>
    BY <1>2 DEF RelayReplies
  <2>3. IsFiniteSet(sharing) /\ IsFiniteSet(handlers') /\ handlers' \in SUBSET Handler
    BY <2>1, <2>2, FS_Subset
  <2>4. Cardinality(sharing) \in Nat
    BY <2>3, FS_CardinalityType
  <2>5. /\ reply \in [kind : PayloadKinds, id : Nat, len : {ReplyLen}]
        /\ h.session \in Nat
    BY <2>1, ReplyToType DEF Handler
  <2>6. reply \in Payload
    BY <2>5, ServiceAssumption DEF Payload
  <2> HIDE DEF sharing, reply
  <2>7. responses \in Seq(Outgoing)
    <3>1. [session |-> h.session, payload |-> reply] \in Outgoing
      BY <2>5 DEF Outgoing
    <3>2. QED BY <2>4, <3>1
  <2>8. [i \in DOMAIN responses |-> responses[i].payload] \in Seq(Payload)
    BY <2>4, <2>6
  <2> HIDE DEF responses
  <2>9. sendChain \in Seq(Outgoing) /\ queued \in Seq(Payload)
    BY DEF TypeOK, PhoneTypeOK
  <2>10. sendChain' \in Seq(Outgoing) /\ queued' \in Seq(Payload)
    BY <2>2, <2>7, <2>8, <2>9, ConcatProperties
  <2>11. sendChain # <<>> => sendChain' # <<>>
    BY <2>2, <2>7, <2>9, ConcatProperties, EmptySeq
  <2>12. QED
    BY SMTT(40), <2>2, <2>3, <2>10, <2>11 DEF TypeOK, channelVars, ChannelTypeOK, PhoneTypeOK
<1>3. ASSUME NEW kind \in UpdateKinds, SendAsyncUpdate(kind)
      PROVE  ChannelTypeOK' /\ PhoneTypeOK'
  <2> DEFINE payload == [kind |-> kind, id |-> updates + 1, len |-> ReplyLen]
  <2>1. /\ payload \in [kind : PayloadKinds, id : Nat, len : {ReplyLen}]
        /\ payload \in Payload
    BY LinkAssumption, ServiceAssumption DEF Payload, PayloadKinds, TypeOK, PhoneTypeOK
  <2>2. nextPhoneSession' \in PhoneSessionBase..SessionLimit /\ updates' \in 0..MaxUpdates
    BY <1>3, ChannelAssumption, ServiceAssumption DEF SendAsyncUpdate, TypeOK, PhoneTypeOK
  <2>3. /\ sendChain' = Append(sendChain, [session |-> nextPhoneSession', payload |-> payload])
        /\ queued' = Append(queued, payload)
    BY <1>3 DEF SendAsyncUpdate
  <2>4. [session |-> nextPhoneSession', payload |-> payload] \in Outgoing
    BY <2>1, <2>2, ChannelAssumption DEF Outgoing
  <2> HIDE DEF payload
  <2>5. sendChain' \in Seq(Outgoing) /\ sendChain' # <<>> /\ queued' \in Seq(Payload)
    BY <2>1, <2>3, <2>4 DEF TypeOK, PhoneTypeOK
  <2>6. QED
    BY <1>3, <2>2, <2>5
    DEF SendAsyncUpdate, TypeOK, channelVars, ChannelTypeOK, PhoneTypeOK
<1>4. QED BY <1>1, <1>2, <1>3

(***************************************************************************)
(* The theorem                                                             *)
(***************************************************************************)
LEMMA NextTypeOK == TypeOK /\ [Next]_vars => TypeOK'
<1> SUFFICES ASSUME TypeOK, [Next]_vars PROVE TypeOK'
  OBVIOUS
<1>1. CASE Bridge
  BY <1>1, BridgeTypeOKStep
<1>2. CASE Irq
  <2>1. ChannelTypeOK' /\ PicoTypeOK'
    BY <1>2, IrqTypeOK DEF Irq
  <2>2. QED
    BY <1>2, <2>1 DEF Irq, TypeOK, phoneVars, bridgeVars, PhoneTypeOK, BridgeTypeOK
<1>3. CASE Phone
  <2>1. ChannelTypeOK' /\ PhoneTypeOK'
    BY <1>3, ConnectionTypeOK, ReceiveTypeOK, RelayTypeOK, WriteTypeOK DEF Phone
  <2>2. QED
    BY <1>3, <2>1 DEF Phone, TypeOK, picoVars, bridgeVars, PicoTypeOK, BridgeTypeOK
<1>4. CASE UNCHANGED vars
  BY <1>4 DEF vars, channelVars, picoVars, phoneVars, bridgeVars,
     TypeOK, ChannelTypeOK, PicoTypeOK, PhoneTypeOK, BridgeTypeOK
<1>5. QED BY <1>1, <1>2, <1>3, <1>4 DEF Next

(* Every variable keeps its type: in particular no retry counter passes    *)
(* its limit, the write position stays within the message being sent, and  *)
(* no empty message is ever completed on either side.                      *)
THEOREM TypeCorrect == Spec => []TypeOK
<1>1. Init => TypeOK
  BY InitTypeOK
<1>2. TypeOK /\ [Next]_vars => TypeOK'
  BY NextTypeOK
<1>3. QED BY <1>1, <1>2, PTL DEF Spec
(***************************************************************************)
(* Packets of a queue                                                      *)
(***************************************************************************)
LEMMA PacketsOfQueue ==
  /\ PacketsOf(<<>>) = {}
  /\ \A q \in Seq(Packet) :
       /\ \A p \in Packet : PacketsOf(Append(q, p)) = PacketsOf(q) \cup {p}
       /\ q # <<>> => Head(q) \in PacketsOf(q) /\ PacketsOf(Tail(q)) \subseteq PacketsOf(q)
  /\ \A q, r \in Seq(Packet) : PacketsOf(q \o r) = PacketsOf(q) \cup PacketsOf(r)
<1>1. PacketsOf(<<>>) = {}
  BY DEF PacketsOf
<1>2. ASSUME NEW q \in Seq(Packet), NEW p \in Packet
      PROVE  PacketsOf(Append(q, p)) = PacketsOf(q) \cup {p}
  <2>1. DOMAIN Append(q, p) = DOMAIN q \cup {Len(q) + 1}
    OBVIOUS
  <2>2. /\ \A i \in DOMAIN q : Append(q, p)[i] = q[i]
        /\ Append(q, p)[Len(q) + 1] = p
    OBVIOUS
  <2>3. QED BY <2>1, <2>2, Zenon DEF PacketsOf
<1>3. ASSUME NEW q \in Seq(Packet), q # <<>>
      PROVE  Head(q) \in PacketsOf(q) /\ PacketsOf(Tail(q)) \subseteq PacketsOf(q)
  <2>1. 1 \in DOMAIN q /\ Head(q) = q[1]
    BY <1>3
  <2>2. \A i \in DOMAIN Tail(q) : i + 1 \in DOMAIN q /\ Tail(q)[i] = q[i + 1]
    BY <1>3
  <2>3. QED BY <2>1, <2>2 DEF PacketsOf
<1>4. ASSUME NEW q \in Seq(Packet), NEW r \in Seq(Packet)
      PROVE  PacketsOf(q \o r) = PacketsOf(q) \cup PacketsOf(r)
  <2>1. \A i \in DOMAIN q : i \in DOMAIN (q \o r) /\ (q \o r)[i] = q[i]
    OBVIOUS
  <2>2. \A i \in DOMAIN r : Len(q) + i \in DOMAIN (q \o r) /\ (q \o r)[Len(q) + i] = r[i]
    OBVIOUS
  <2>3. \A i \in DOMAIN (q \o r) : i \in DOMAIN q \/ i - Len(q) \in DOMAIN r
    OBVIOUS
  <2>4. \A i \in DOMAIN (q \o r) : (q \o r)[i] \in PacketsOf(q) \cup PacketsOf(r)
    <3>1. SUFFICES ASSUME NEW i \in DOMAIN (q \o r)
                   PROVE  (q \o r)[i] \in PacketsOf(q) \cup PacketsOf(r)
      OBVIOUS
    <3>2. CASE i \in DOMAIN q
      BY <2>1, <3>2 DEF PacketsOf
    <3>3. CASE i - Len(q) \in DOMAIN r
      <4>1. (q \o r)[i] = r[i - Len(q)]
        <5>1. Len(q) + (i - Len(q)) = i
          OBVIOUS
        <5>2. QED BY <2>2, <3>3, <5>1
      <4>2. QED BY <3>3, <4>1 DEF PacketsOf
    <3>4. QED BY <2>3, <3>2, <3>3
  <2>5. PacketsOf(q) \subseteq PacketsOf(q \o r)
    BY <2>1 DEF PacketsOf
  <2>6. PacketsOf(r) \subseteq PacketsOf(q \o r)
    BY <2>2 DEF PacketsOf
  <2>7. PacketsOf(q \o r) \subseteq PacketsOf(q) \cup PacketsOf(r)
    BY <2>4 DEF PacketsOf
  <2>8. QED BY <2>5, <2>6, <2>7
<1>5. QED BY <1>1, <1>2, <1>3, <1>4

LEMMA NotARequestChunk ==
  /\ NoPacket.type # "REQUEST_CHUNK"
  /\ \A p \in Packet : AckOf(p).type # "REQUEST_CHUNK"
BY DEF NoPacket, AckOf, Encode

LEMMA UnderWayType == ASSUME TypeOK PROVE UnderWay \subseteq Packet
BY DEF UnderWay, PacketsOf, TypeOK, ChannelTypeOK, PicoTypeOK

(***************************************************************************)
(* Steps that put no request chunk under way and collect none              *)
(***************************************************************************)
LEMMA QuietStep ==
  ASSUME TypeOK, RequestInvariant,
         UnderWay' \subseteq UnderWay, session_id' = session_id,
         asked' \in Seq(Payload), Len(asked) <= Len(asked'),
         \A n \in DOMAIN asked : asked'[n] = asked[n],
         accepted' = accepted,
         \/ assembler' = EmptyAssembler
         \/ assembler' = assembler /\ phone' = phone /\ (linked' => linked)
  PROVE  RequestInvariant'
<1>0. asked \in Seq(Payload) /\ \A n \in DOMAIN asked : n \in DOMAIN asked'
  BY DEF TypeOK, BridgeTypeOK
<1>1. (session_id <= Len(asked))'
  BY <1>0 DEF RequestInvariant, TypeOK, PicoTypeOK
<1>2. ChunksAreGenuine'
  <2> SUFFICES ASSUME NEW p \in UnderWay'
               PROVE  /\ p.session_id \in 1..session_id'
                      /\ \E n \in DOMAIN asked' :
                           /\ p.chunk = [of |-> asked'[n], at |-> p.sequence]
                           /\ p.total_length = asked'[n].len
    BY DEF ChunksAreGenuine
  <2>1. /\ p.session_id \in 1..session_id
        /\ \E n \in DOMAIN asked : /\ p.chunk = [of |-> asked[n], at |-> p.sequence]
                                   /\ p.total_length = asked[n].len
    BY DEF RequestInvariant, ChunksAreGenuine
  <2>2. QED BY <1>0, <2>1
<1>3. SessionsTellRequestsApart'
  BY DEF RequestInvariant, SessionsTellRequestsApart
<1>4. OneRequestIsCollected'
  <2>1. CASE assembler' = EmptyAssembler
    BY <2>1 DEF OneRequestIsCollected
  <2>2. CASE assembler' = assembler /\ assembler # EmptyAssembler
               /\ phone' = phone /\ (linked' => linked)
    <3>1. /\ phone = "up" /\ assembler.session_id # NoSession
          /\ \E n \in DOMAIN asked : Collects(asked[n])
      BY <2>2 DEF RequestInvariant, OneRequestIsCollected
    <3>2. PICK n \in DOMAIN asked : Collects(asked[n])
      BY <3>1
    <3>3. Collects(asked[n])'
      BY <1>0, <2>2, <3>2 DEF Collects
    <3>4. QED BY <1>0, <2>2, <3>1, <3>3 DEF OneRequestIsCollected
  <2>3. QED BY <2>1, <2>2
<1>5. RequestsArriveWhole'
  BY <1>0 DEF RequestInvariant, RequestsArriveWhole
<1>6. QED BY <1>1, <1>2, <1>3, <1>4, <1>5 DEF RequestInvariant

(* The transport starts again: nothing is under way and nobody is linked.  *)
LEMMA ReopenStep ==
  ASSUME TypeOK, RequestInvariant, Reopen,
         asked' = asked, accepted' = accepted, assembler' = assembler, phone' = phone
  PROVE  RequestInvariant'
<1>1. UnderWay' = {}
  BY PacketsOfQueue, NotARequestChunk DEF UnderWay, Reopen, FreshTransport
<1>2. (session_id <= Len(asked))'
  BY DEF Reopen, FreshTransport, TypeOK, BridgeTypeOK
<1>3. ChunksAreGenuine' /\ SessionsTellRequestsApart'
  BY <1>1 DEF ChunksAreGenuine, SessionsTellRequestsApart
<1>4. OneRequestIsCollected'
  <2> SUFFICES ASSUME assembler # EmptyAssembler PROVE OneRequestIsCollected'
    BY DEF OneRequestIsCollected
  <2>1. /\ phone = "up" /\ assembler.session_id # NoSession
        /\ \E n \in DOMAIN asked : Collects(asked[n])
    BY DEF RequestInvariant, OneRequestIsCollected
  <2>2. \A n \in DOMAIN asked : Collects(asked[n]) => Collects(asked[n])'
    BY DEF Collects, Reopen
  <2>3. QED BY <2>1, <2>2 DEF OneRequestIsCollected
<1>5. RequestsArriveWhole'
  BY DEF RequestInvariant, RequestsArriveWhole
<1>6. QED BY <1>2, <1>3, <1>4, <1>5 DEF RequestInvariant

(***************************************************************************)
(* send(): a new session for a new request                                 *)
(***************************************************************************)
LEMMA SendStep ==
  ASSUME MaxRequests <= SessionLimit, TypeOK, RequestInvariant,
         NEW len \in RequestLens, SendRequest(len)
  PROVE  RequestInvariant'
<1> DEFINE request == [kind |-> "request", id |-> current + 1, len |-> len]
           packets == RequestPackets(NextSession, request)
<1>1. /\ asked \in Seq(Payload) /\ Len(asked) < MaxRequests
      /\ asked' = Append(asked, request)
      /\ asked'[Len(asked) + 1] = request
      /\ UNCHANGED <<waiting, notifications, linked, accepted, assembler, phone>>
  BY DEF SendRequest, NewRequest, Send, current, TypeOK, BridgeTypeOK, phoneVars, channelVars
<1>2. NextSession = session_id + 1 /\ session_id \in Nat /\ session_id <= Len(asked)
  BY <1>1, ChannelAssumption, LinkAssumption
  DEF NextSession, RequestInvariant, TypeOK, PicoTypeOK
<1>3. session_id' = session_id + 1 /\ outgoing' = outgoing \o packets
  BY <1>1, <1>2 DEF SendRequest, Send, current
<1>4. request \in Payload /\ packets \in Seq(Packet)
  <2>1. request \in Payload
    BY LinkAssumption DEF Payload, PayloadKinds, current, TypeOK, BridgeTypeOK
  <2>2. QED BY <1>2, <2>1, PacketsType DEF RequestPackets, PacketTypes
<1>5. \A p \in PacketsOf(packets) : p.type = "REQUEST_CHUNK" =>
        /\ p.session_id = session_id + 1 /\ p.total_length = request.len
        /\ p.chunk = [of |-> request, at |-> p.sequence]
  <2>1. len \in Nat
    BY LinkAssumption, MaxLenAssumption
  <2>2. \A k \in DOMAIN packets :
          packets[k] = IF k <= len
                       THEN Encode("REQUEST_CHUNK", NextSession, k - 1, len,
                                   [of |-> request, at |-> k - 1])
                       ELSE Encode("REQUEST_END", NextSession, len, len, NoChunk)
    BY DEF RequestPackets, Packets
  <2>3. request.len = len
    OBVIOUS
  <2> HIDE DEF packets, request
  <2>4. \A k \in DOMAIN packets : packets[k].type = "REQUEST_CHUNK" =>
          packets[k] = Encode("REQUEST_CHUNK", NextSession, k - 1, len,
                              [of |-> request, at |-> k - 1])
    BY <2>2 DEF Encode
  <2>5. \A k \in DOMAIN packets : packets[k].type = "REQUEST_CHUNK" =>
          /\ packets[k].session_id = NextSession /\ packets[k].total_length = len
          /\ packets[k].sequence = k - 1 /\ packets[k].chunk = [of |-> request, at |-> k - 1]
    BY <2>4 DEF Encode
  <2>6. QED BY <1>2, <2>3, <2>5, Zenon DEF PacketsOf
<1> HIDE DEF packets, request
<1> DEFINE Own(p) == /\ p.session_id = session_id + 1 /\ p.total_length = request.len
                     /\ p.chunk = [of |-> request, at |-> p.sequence]
           Known(p) == /\ p.session_id \in 1..session_id
                       /\ \E n \in DOMAIN asked :
                            /\ p.chunk = [of |-> asked[n], at |-> p.sequence]
                            /\ p.total_length = asked[n].len
<1>6. \A p : Own(p) => p.chunk.of = request /\ p.session_id = session_id + 1
  OBVIOUS
<1>7. \A p : Known(p) => p.session_id \in 1..session_id
  OBVIOUS
<1>8. \A p \in UnderWay' :
        p \in UnderWay \/ Own(p)
  <2>1. PacketsOf(outgoing') = PacketsOf(outgoing) \cup PacketsOf(packets)
    BY <1>3, <1>4, PacketsOfQueue DEF TypeOK, PicoTypeOK
  <2>2. QED BY <1>1, <1>5, <2>1 DEF UnderWay
<1>9. \A p \in UnderWay : Known(p)
  BY DEF RequestInvariant, ChunksAreGenuine
<1>10. \A n \in DOMAIN asked : n \in DOMAIN asked' /\ asked'[n] = asked[n]
  BY <1>1, <1>4
<1>11. (session_id <= Len(asked))'
  BY <1>1, <1>2, <1>3, <1>4
<1>12. ChunksAreGenuine'
  <2> SUFFICES ASSUME NEW p \in UnderWay'
               PROVE  /\ p.session_id \in 1..session_id'
                      /\ \E n \in DOMAIN asked' :
                           /\ p.chunk = [of |-> asked'[n], at |-> p.sequence]
                           /\ p.total_length = asked'[n].len
    BY DEF ChunksAreGenuine
  <2>1. CASE p \in UnderWay
    <3>1. Known(p)
      BY <1>9, <2>1
    <3>2. p.session_id \in 1..session_id'
      BY <1>2, <1>3, <3>1
    <3>3. QED BY <1>10, <3>1, <3>2
  <2>2. CASE Own(p)
    <3>1. Len(asked) + 1 \in DOMAIN asked'
      BY <1>1, <1>4
    <3>2. p.session_id \in 1..session_id'
      BY <1>2, <1>3, <2>2
    <3>3. QED BY <1>1, <2>2, <3>1, <3>2
  <2>3. QED BY <1>8, <2>1, <2>2
<1>13. SessionsTellRequestsApart'
  <2> SUFFICES ASSUME NEW p \in UnderWay', NEW q \in UnderWay',
                      p.session_id = q.session_id
               PROVE  p.chunk.of = q.chunk.of
    BY DEF SessionsTellRequestsApart
  <2>1. CASE p \in UnderWay /\ q \in UnderWay
    BY <2>1 DEF RequestInvariant, SessionsTellRequestsApart
  <2>2. CASE Own(p) /\ Own(q)
    BY <1>6, <2>2
  <2> HIDE DEF Own, Known
  <2>3. ASSUME NEW a \in UnderWay, NEW b, Own(b) PROVE a.session_id # b.session_id
    <3>1. a.session_id \in 1..session_id /\ b.session_id = session_id + 1
      BY <1>6, <1>7, <1>9, <2>3
    <3>2. QED BY <1>2, <3>1
  <2>4. QED BY <1>8, <2>1, <2>2, <2>3
<1>14. OneRequestIsCollected'
  <2> SUFFICES ASSUME assembler # EmptyAssembler PROVE OneRequestIsCollected'
    BY <1>1 DEF OneRequestIsCollected
  <2>1. /\ phone = "up" /\ assembler.session_id # NoSession
        /\ \E n \in DOMAIN asked : Collects(asked[n])
    BY DEF RequestInvariant, OneRequestIsCollected
  <2>2. PICK n \in DOMAIN asked : Collects(asked[n])
    BY <2>1
  <2>3. assembler.session_id \in Nat
    BY DEF TypeOK, PhoneTypeOK, Assembler
  <2>4. Collects(asked[n])'
    <3>1. /\ (assembler.total_length = asked[n].len)'
          /\ (\A k \in 0..MaxLen :
                assembler.chunks[k] \in {NoChunk, [of |-> asked[n], at |-> k]})'
      BY <1>1, <1>10, <2>2 DEF Collects
    <3>2. ASSUME linked'
          PROVE  /\ assembler'.session_id <= session_id'
                 /\ \A p \in UnderWay' : p.session_id = assembler'.session_id
                                          => p.chunk.of = asked'[n]
      <4>1. /\ assembler.session_id <= session_id
            /\ \A p \in UnderWay : p.session_id = assembler.session_id
                                    => p.chunk.of = asked[n]
        BY <1>1, <2>2, <3>2 DEF Collects
      <4>2. /\ assembler.session_id # session_id + 1
            /\ assembler.session_id <= session_id + 1
        BY <1>2, <2>3, <4>1
      <4>3. assembler'.session_id <= session_id'
        BY <1>1, <1>3, <4>2
      <4> HIDE DEF Own, Known
      <4>4. \A p \in UnderWay' : p.session_id = assembler.session_id
                                 => p.chunk.of = asked[n]
        BY <1>8, <1>6, <4>1, <4>2
      <4>5. QED BY <1>1, <1>10, <4>3, <4>4
    <3>3. QED BY <3>1, <3>2 DEF Collects
  <2>5. QED BY <1>1, <1>10, <2>1, <2>4 DEF OneRequestIsCollected
<1>15. RequestsArriveWhole'
  BY <1>1, <1>10 DEF RequestInvariant, RequestsArriveWhole
<1>16. QED BY <1>11, <1>12, <1>13, <1>14, <1>15 DEF RequestInvariant

(***************************************************************************)
(* The Pico's other steps                                                  *)
(***************************************************************************)
LEMMA PumpStep ==
  ASSUME TypeOK, PumpRetry \/ PumpGivesUp \/ PumpNext \/ PumpIdle \/ PumpNotify
  PROVE  /\ UnderWay' \subseteq UnderWay /\ session_id' = session_id
         /\ linked' = linked
<1> USE DEF UnderWay
<1>1. CASE PumpRetry
  BY <1>1 DEF PumpRetry
<1>2. CASE PumpGivesUp
  BY <1>2, NotARequestChunk DEF PumpGivesUp
<1>3. CASE PumpNext
  <2>1. Head(outgoing) \in PacketsOf(outgoing) /\ PacketsOf(outgoing') \subseteq PacketsOf(outgoing)
    BY <1>3, PacketsOfQueue DEF PumpNext, TypeOK, PicoTypeOK
  <2>2. QED BY <1>3, <2>1 DEF PumpNext, channelVars
<1>4. CASE PumpIdle
  BY <1>4 DEF PumpIdle, picoVars, channelVars
<1>5. CASE PumpNotify
  <2>1. PacketsOf(notifications') \subseteq PacketsOf(notifications) \cup {waiting}
    <3>1. waiting \in Packet /\ notifications \in Seq(Packet)
      BY DEF TypeOK, ChannelTypeOK, PicoTypeOK
    <3>2. PacketsOf(Append(notifications, waiting)) = PacketsOf(notifications) \cup {waiting}
      BY <3>1, PacketsOfQueue
    <3>3. notifications' \in {notifications, Append(notifications, waiting)}
      BY <1>5 DEF PumpNotify, Notify
    <3>4. QED BY <3>2, <3>3
  <2>2. QED BY <1>5, <2>1 DEF PumpNotify, picoVars
<1>6. QED BY <1>1, <1>2, <1>3, <1>4, <1>5

LEMMA IrqStep ==
  ASSUME TypeOK, Irq
  PROVE  /\ UnderWay' \subseteq UnderWay /\ session_id' = session_id
         /\ linked' => linked
<1> USE DEF UnderWay
<1>1. CASE IrqWrite
  <2> DEFINE packet == Head(writes)
  <2>1. packet \in Packet /\ AckOf(packet) \in Packet /\ notifications \in Seq(Packet)
    <3>1. packet \in Packet
      BY <1>1 DEF IrqWrite, TypeOK, ChannelTypeOK
    <3>2. QED BY <3>1, AckOfType DEF TypeOK, ChannelTypeOK
  <2>2. waiting' \in {waiting, NoPacket} /\ session_id' = session_id
          /\ outgoing' = outgoing /\ linked' = linked
    BY <1>1 DEF IrqWrite, OnAck, OnResponseChunk, OnResponseEnd
  <2>3. notifications' = notifications \/ notifications' = Append(notifications, AckOf(packet))
    BY <1>1 DEF IrqWrite, OnAck, OnResponseChunk, OnResponseEnd, Notify, NotifyRaises
  <2> HIDE DEF packet
  <2>4. PacketsOf(notifications') \subseteq PacketsOf(notifications) \cup {AckOf(packet)}
    <3>1. PacketsOf(Append(notifications, AckOf(packet)))
            = PacketsOf(notifications) \cup {AckOf(packet)}
      BY <2>1, PacketsOfQueue
    <3>2. QED BY <2>3, <3>1
  <2>5. QED BY <2>1, <2>2, <2>4, NotARequestChunk
<1>2. ASSUME NEW n \in 2..Len(writes), IrqGluedWrites(n)
      PROVE  UnderWay' = UnderWay /\ session_id' = session_id /\ linked' = linked
  BY <1>2 DEF IrqGluedWrites, picoVars
<1>3. CASE IrqDisconnect
  <2>1. PacketsOf(notifications') = {}
    BY <1>3, PacketsOfQueue DEF IrqDisconnect
  <2>2. QED BY <1>3, <2>1, NotARequestChunk DEF IrqDisconnect
<1>4. QED BY <1>1, <1>2, <1>3 DEF Irq

(***************************************************************************)
(* The phone collects a chunk                                              *)
(***************************************************************************)
LEMMA CollectStep ==
  ASSUME TypeOK, RequestInvariant, ReceiveNotification,
         UNCHANGED <<picoVars, bridgeVars>>, OnRequestChunk(Head(notifications))
  PROVE  RequestInvariant'
<1> DEFINE packet == Head(notifications)
<1>1. /\ packet \in UnderWay /\ UnderWay' \subseteq UnderWay
      /\ phone = "up" /\ linked /\ packet \in Packet
  <2>1. packet \in PacketsOf(notifications) /\ PacketsOf(notifications') \subseteq PacketsOf(notifications)
    BY PacketsOfQueue DEF ReceiveNotification, TypeOK, ChannelTypeOK
  <2>2. packet.type = "REQUEST_CHUNK"
    BY DEF OnRequestChunk
  <2>3. packet \in Packet
    BY DEF ReceiveNotification, TypeOK, ChannelTypeOK
  <2>4. QED BY <2>1, <2>2, <2>3 DEF UnderWay, ReceiveNotification, picoVars
<1>2. /\ assembler' = AssemblerAdd(assembler, packet) /\ phone' = "up" /\ linked'
      /\ UNCHANGED <<session_id, asked, accepted>>
  BY <1>1 DEF OnRequestChunk, ReceiveNotification, picoVars, bridgeVars
<1> HIDE DEF packet
<1>3. /\ packet.session_id \in 1..session_id /\ session_id \in Nat
      /\ packet.sequence \in 0..MaxLen
  BY <1>1 DEF RequestInvariant, ChunksAreGenuine, Packet, Envelope, TypeOK, PicoTypeOK
<1>4. PICK n \in DOMAIN asked :
        /\ packet.chunk = [of |-> asked[n], at |-> packet.sequence]
        /\ packet.total_length = asked[n].len
  BY <1>1 DEF RequestInvariant, ChunksAreGenuine
<1>5. packet.chunk.of = asked[n]
  BY <1>4
<1> DEFINE kept == IF assembler.session_id \in {NoSession, packet.session_id}
                   THEN assembler.chunks ELSE NoChunks
<1>6. /\ kept \in [0..MaxLen -> Chunk]
      /\ \A k \in 0..MaxLen : kept[k] \in {NoChunk, [of |-> asked[n], at |-> k]}
  <2>1. assembler.chunks \in [0..MaxLen -> Chunk]
    BY DEF TypeOK, PhoneTypeOK, Assembler
  <2>2. NoChunks \in [0..MaxLen -> Chunk] /\ \A k \in 0..MaxLen : NoChunks[k] = NoChunk
    BY NoPacketType DEF NoChunks
  <2>3. CASE assembler = EmptyAssembler \/ assembler.session_id # packet.session_id
    <3>1. kept = NoChunks
      <4>1. CASE assembler = EmptyAssembler
        BY <4>1 DEF EmptyAssembler, NoSession
      <4>2. CASE assembler # EmptyAssembler /\ assembler.session_id # packet.session_id
        <5>1. assembler.session_id # NoSession
          BY <4>2 DEF RequestInvariant, OneRequestIsCollected
        <5>2. QED BY <4>2, <5>1
      <4>3. QED BY <2>3, <4>1, <4>2
    <3>2. QED BY <2>2, <3>1
  <2>4. CASE assembler # EmptyAssembler /\ assembler.session_id = packet.session_id
    <3>1. PICK m \in DOMAIN asked : Collects(asked[m])
      BY <2>4 DEF RequestInvariant, OneRequestIsCollected
    <3>2. asked[m] = asked[n]
      BY <1>1, <1>5, <2>4, <3>1 DEF Collects
    <3>3. kept = assembler.chunks
      BY <2>4
    <3>4. QED BY <2>1, <3>1, <3>2, <3>3 DEF Collects
  <2>5. QED BY <2>3, <2>4
<1>7. /\ assembler'.session_id = packet.session_id
      /\ assembler'.total_length = asked[n].len
      /\ assembler'.chunks = IF kept[packet.sequence] = NoChunk
                             THEN [kept EXCEPT ![packet.sequence] = packet.chunk] ELSE kept
  BY <1>2, <1>4 DEF AssemblerAdd
<1> HIDE DEF kept
<1>8. \A k \in 0..MaxLen : assembler'.chunks[k] \in {NoChunk, [of |-> asked[n], at |-> k]}
  BY <1>3, <1>4, <1>6, <1>7
<1>9. \A p \in UnderWay' : p.session_id = packet.session_id => p.chunk.of = asked[n]
  BY <1>1, <1>5 DEF RequestInvariant, SessionsTellRequestsApart
<1>10. Collects(asked[n])'
  BY <1>2, <1>3, <1>7, <1>8, <1>9 DEF Collects
<1>11. OneRequestIsCollected'
  BY <1>2, <1>3, <1>7, <1>10 DEF OneRequestIsCollected, NoSession
<1>12. /\ (session_id <= Len(asked))' /\ RequestsArriveWhole'
       /\ ChunksAreGenuine' /\ SessionsTellRequestsApart'
  BY <1>1, <1>2 DEF RequestInvariant, RequestsArriveWhole, ChunksAreGenuine,
     SessionsTellRequestsApart
<1>13. QED BY <1>11, <1>12 DEF RequestInvariant

(***************************************************************************)
(* The phone takes a request in                                            *)
(***************************************************************************)
LEMMA AcceptStep ==
  ASSUME TypeOK, RequestInvariant, ReceiveNotification,
         UNCHANGED <<picoVars, bridgeVars>>, OnRequestEnd(Head(notifications)),
         CanFinish(assembler, Head(notifications).session_id)
  PROVE  RequestInvariant'
<1> DEFINE session == Head(notifications).session_id
           request == Assembled(assembler)
<1>1. /\ UnderWay' \subseteq UnderWay
      /\ UNCHANGED <<session_id, asked>>
  <2>1. PacketsOf(notifications') \subseteq PacketsOf(notifications)
    BY PacketsOfQueue DEF ReceiveNotification, TypeOK, ChannelTypeOK
  <2>2. QED BY <2>1 DEF UnderWay, ReceiveNotification, picoVars, bridgeVars
<1>2. /\ assembler' = EmptyAssembler
      /\ accepted' = Append(accepted, [session |-> session, message |-> request])
  BY DEF OnRequestEnd, AssemblerFinish
<1>3. /\ assembler # EmptyAssembler /\ assembler.total_length \in 0..MaxLen
      /\ \A k \in 0..(assembler.total_length - 1) : assembler.chunks[k] # NoChunk
  BY DEF CanFinish, EmptyAssembler, TypeOK, PhoneTypeOK, Assembler
<1>4. PICK n \in DOMAIN asked : Collects(asked[n])
  BY <1>3 DEF RequestInvariant, OneRequestIsCollected
<1>5. request = Message(asked[n])
  <2>1. \A k \in 0..(assembler.total_length - 1) :
          assembler.chunks[k] = [of |-> asked[n], at |-> k]
    BY <1>3, <1>4, MaxLenAssumption DEF Collects
  <2>2. \A i \in 1..assembler.total_length : i - 1 \in 0..(assembler.total_length - 1)
    BY <1>3
  <2>3. \A i \in 1..assembler.total_length :
          assembler.chunks[i - 1] = [of |-> asked[n], at |-> i - 1]
    BY <2>1, <2>2
  <2>4. QED BY <1>4, <2>3 DEF Collects, Assembled, Message
<1>6. RequestsArriveWhole'
  <2> HIDE DEF request, session
  <2>1. \A i \in DOMAIN accepted' :
          \/ accepted'[i].message = request
          \/ i \in DOMAIN accepted /\ accepted'[i] = accepted[i]
    <3> DEFINE entry == [session |-> session, message |-> request]
    <3>1. entry.message = request
      OBVIOUS
    <3>2. accepted \in Seq([session : Nat, message : MessageType])
      BY DEF TypeOK, PhoneTypeOK
    <3> HIDE DEF entry
    <3>3. \A i \in DOMAIN Append(accepted, entry) :
            \/ Append(accepted, entry)[i] = entry
            \/ i \in DOMAIN accepted /\ Append(accepted, entry)[i] = accepted[i]
      BY <3>2
    <3>4. accepted' = Append(accepted, entry)
      BY <1>2 DEF entry
    <3>5. QED BY <3>1, <3>3, <3>4
  <2>2. \A i \in DOMAIN accepted' :
          \E m \in DOMAIN asked : accepted'[i].message = Message(asked[m])
    BY <1>5, <2>1 DEF RequestInvariant, RequestsArriveWhole
  <2>3. QED BY <1>1, <2>2 DEF RequestsArriveWhole
<1>7. /\ (session_id <= Len(asked))' /\ OneRequestIsCollected'
      /\ ChunksAreGenuine' /\ SessionsTellRequestsApart'
  BY <1>1, <1>2 DEF RequestInvariant, ChunksAreGenuine, SessionsTellRequestsApart,
     OneRequestIsCollected
<1>8. QED BY <1>6, <1>7 DEF RequestInvariant

(***************************************************************************)
(* Everything else the phone does                                          *)
(***************************************************************************)
LEMMA PhoneStep ==
  ASSUME TypeOK, RequestInvariant, Phone
  PROVE  RequestInvariant'
<1>1. /\ session_id' = session_id /\ asked' = asked /\ outgoing' = outgoing
      /\ waiting' = waiting /\ UNCHANGED <<picoVars, bridgeVars>>
      /\ asked \in Seq(Payload) /\ Len(asked) <= Len(asked')
  BY DEF Phone, picoVars, bridgeVars, TypeOK, BridgeTypeOK
<1>2. PacketsOf(notifications') \subseteq PacketsOf(notifications)
        => UnderWay' \subseteq UnderWay
  BY <1>1 DEF UnderWay
<1>3. notifications # <<>> /\ notifications' = Tail(notifications)
        => UnderWay' \subseteq UnderWay
  BY <1>2, PacketsOfQueue DEF TypeOK, ChannelTypeOK
<1>4. phone # "up" => assembler = EmptyAssembler
  BY DEF RequestInvariant, OneRequestIsCollected
<1>5. CASE Connect \/ Discover \/ Subscribe \/ Disconnect \/ MissNotification
  <2>1. /\ UnderWay' \subseteq UnderWay /\ accepted' = accepted
        /\ \/ assembler' = EmptyAssembler
           \/ assembler' = assembler /\ phone' = phone /\ (linked' => linked)
    BY <1>2, <1>3, <1>4, <1>5
    DEF Connect, Discover, Subscribe, Disconnect, MissNotification, phoneVars, channelVars
  <2>2. QED BY <1>1, <2>1, QuietStep
<1>6. CASE ReceiveNotification
  <2> DEFINE packet == Head(notifications)
  <2>1. CASE OnRequestChunk(packet)
    BY <1>1, <1>6, <2>1, CollectStep
  <2>2. CASE OnRequestEnd(packet) /\ CanFinish(assembler, packet.session_id)
    BY <1>1, <1>6, <2>2, AcceptStep
  <2>3. CASE \/ OnPicoAck(packet) \/ OnUndecodable(packet)
             \/ OnRequestEnd(packet) /\ ~CanFinish(assembler, packet.session_id)
    <3>1. /\ UnderWay' \subseteq UnderWay /\ phone' = phone /\ linked' = linked
      BY <1>3, <1>6 DEF ReceiveNotification
    <3>2. accepted' = accepted /\ assembler' = assembler
      BY <2>3 DEF OnPicoAck, OnUndecodable, OnRequestEnd, AssemblerFinish
    <3>3. QED BY <1>1, <3>1, <3>2, QuietStep
  <2>4. QED BY <1>6, <2>1, <2>2, <2>3 DEF ReceiveNotification
<1>7. CASE \/ \E h \in handlers : CallRelay(h)
           \/ \E h \in handlers, kind \in ReplyKinds : RelayReplies(h, kind)
           \/ \E kind \in UpdateKinds : SendAsyncUpdate(kind)
           \/ WriteFirst \/ WriteAgain \/ WriteGivesUp \/ WriteFails
  <2>1. UNCHANGED <<notifications, linked, phone, assembler, accepted>>
    BY <1>7 DEF CallRelay, RelayReplies, SendAsyncUpdate, WriteFirst, WriteAgain,
       WriteGivesUp, WriteFails, channelVars
  <2>2. QED BY <1>1, <1>2, <2>1, QuietStep
<1>8. QED BY <1>5, <1>6, <1>7 DEF Phone

(***************************************************************************)
(* The theorem                                                             *)
(***************************************************************************)
LEMMA BridgeStep ==
  ASSUME MaxRequests <= SessionLimit, TypeOK, RequestInvariant, Bridge
  PROVE  RequestInvariant'
<1>1. asked \in Seq(Payload) /\ Len(asked) \in Nat
  BY DEF TypeOK, BridgeTypeOK
<1>2. CASE ReopenTransport \/ PowerCycle
  BY <1>2, ReopenStep DEF ReopenTransport, PowerCycle, phoneVars
<1>3. ASSUME NEW len \in RequestLens, SendRequest(len) PROVE RequestInvariant'
  BY <1>3, SendStep
<1>4. ASSUME NEW len \in RequestLens, RefuseRequest(len) PROVE RequestInvariant'
  <2> DEFINE request == [kind |-> "request", id |-> current + 1, len |-> len]
  <2>1. request \in Payload
    BY <1>1, LinkAssumption DEF Payload, PayloadKinds, current
  <2>2. /\ asked' = Append(asked, request)
        /\ UNCHANGED <<linked, phone, assembler, accepted, session_id, UnderWay>>
    BY <1>4 DEF RefuseRequest, NewRequest, channelVars, picoVars, phoneVars, UnderWay
  <2> HIDE DEF request
  <2>3. asked' \in Seq(Payload) /\ Len(asked) <= Len(asked')
          /\ \A n \in DOMAIN asked : asked'[n] = asked[n]
    BY <1>1, <2>1, <2>2
  <2>4. QED BY <2>2, <2>3, QuietStep
<1>5. CASE Pump \/ NotifyWaiting \/ AckTimeout
  <2>1. UnderWay' \subseteq UnderWay /\ session_id' = session_id /\ linked' = linked
    BY <1>5, PumpStep DEF Pump, NotifyWaiting, AckTimeout
  <2>2. UNCHANGED <<asked, phone, assembler, accepted>>
    BY <1>5 DEF Pump, NotifyWaiting, AckTimeout, phoneVars
  <2>3. QED BY <1>1, <2>1, <2>2, QuietStep
<1>6. CASE \/ TransportReady \/ NotifyFails \/ ResponseTimeout
           \/ NothingCompleted \/ TakeCatalog \/ TakeAnswer
  <2>1. UNCHANGED <<UnderWay, session_id, linked, asked, phone, assembler, accepted>>
    BY <1>6 DEF TransportReady, NotifyFails, PumpNotifyRaises, NotifyRaises, ResponseTimeout,
       NothingCompleted, TakeCatalog, TakeAnswer, PopCompleted, channelVars, picoVars, phoneVars, UnderWay
  <2>2. QED BY <1>1, <2>1, QuietStep
<1>7. QED BY <1>2, <1>3, <1>4, <1>5, <1>6 DEF Bridge

LEMMA InitRequestInvariant == Init => RequestInvariant
<1> SUFFICES ASSUME Init PROVE RequestInvariant
  OBVIOUS
<1>1. UnderWay = {}
  BY PacketsOfQueue, NotARequestChunk DEF Init, ChannelInit, PicoInit, UnderWay
<1>2. session_id <= Len(asked) /\ RequestsArriveWhole /\ OneRequestIsCollected
  BY DEF Init, PicoInit, PhoneInit, RequestsArriveWhole, OneRequestIsCollected
<1>3. QED
  BY <1>1, <1>2 DEF RequestInvariant, ChunksAreGenuine, SessionsTellRequestsApart

LEMMA RequestInvariantHolds ==
  ASSUME MaxRequests <= SessionLimit
  PROVE  Spec => []RequestInvariant
<1>1. Init => RequestInvariant
  BY InitRequestInvariant
<1>2. TypeOK /\ RequestInvariant /\ [Next]_vars => RequestInvariant'
  <2> SUFFICES ASSUME TypeOK, RequestInvariant, [Next]_vars PROVE RequestInvariant'
    OBVIOUS
  <2>1. CASE Bridge
    BY <2>1, BridgeStep
  <2>2. CASE Irq
    <3>1. UnderWay' \subseteq UnderWay /\ session_id' = session_id /\ (linked' => linked)
      BY <2>2, IrqStep
    <3>2. UNCHANGED <<asked, phone, assembler, accepted>>
      BY <2>2 DEF Irq, phoneVars, bridgeVars
    <3>3. asked \in Seq(Payload) /\ Len(asked) <= Len(asked')
      BY <3>2 DEF TypeOK, BridgeTypeOK
    <3>4. QED BY <3>1, <3>2, <3>3, QuietStep
  <2>3. CASE Phone
    BY <2>3, PhoneStep
  <2>4. CASE UNCHANGED vars
    <3>1. UNCHANGED <<UnderWay, session_id, linked, asked, phone, assembler, accepted>>
      BY <2>4 DEF vars, channelVars, picoVars, phoneVars, bridgeVars, UnderWay
    <3>2. asked \in Seq(Payload) /\ Len(asked) <= Len(asked')
      BY <3>1 DEF TypeOK, BridgeTypeOK
    <3>3. QED BY <3>1, <3>2, QuietStep
  <2>5. QED BY <2>1, <2>2, <2>3, <2>4 DEF Next
<1>3. Spec => []TypeOK
  BY TypeCorrect
<1>4. QED BY <1>1, <1>2, <1>3, PTL DEF Spec

(* The phone takes in only whole requests of the calculator, never chunks  *)
(* of two put together, as long as the session ids of one Pico suffice for *)
(* the requests made.                                                      *)
THEOREM RequestsAreWhole ==
  ASSUME MaxRequests <= SessionLimit
  PROVE  Spec => []RequestsArriveWhole
<1>1. RequestInvariant => RequestsArriveWhole
  BY DEF RequestInvariant
<1>2. QED BY <1>1, RequestInvariantHolds, PTL

(***************************************************************************)
(* In order, and once each: the inductive invariant OrderInvariant         *)
(***************************************************************************)
(* The packets of requests under way are in the order of notifications,    *)
(* waiting, outgoing.  Once the end of a message is there, no chunk of it  *)
(* comes any more: this is why a retransmission cannot complete it again.  *)
Ahead(p, q) ==
  p.type = "REQUEST_END" /\ q.type = "REQUEST_CHUNK" => p.session_id < q.session_id

EndsPrecede(queue) == \A i, j \in DOMAIN queue : i < j => Ahead(queue[i], queue[j])

AllAhead(S, T) == \A p \in S, q \in T : Ahead(p, q)

EndsComeLast ==
  /\ EndsPrecede(notifications) /\ EndsPrecede(outgoing)
  /\ AllAhead(PacketsOf(notifications), {waiting} \cup PacketsOf(outgoing))
  /\ AllAhead({waiting}, PacketsOf(outgoing))

Requests == {p \in PacketsOf(outgoing) \cup {waiting} \cup PacketsOf(notifications) :
               p.type \in {"REQUEST_CHUNK", "REQUEST_END"}}

IdOf(i) == accepted[i].message[1].of.id

RequestsAreNumbered == \A n \in DOMAIN asked : asked[n].id = n

SessionsFollowIds ==
  /\ \A p \in Requests : p.session_id \in 1..session_id
  /\ \A p, q \in UnderWay : p.session_id < q.session_id => p.chunk.of.id < q.chunk.of.id

(* What is under way or half collected comes after all that was taken in.  *)
NothingComesTwice ==
  \A i \in DOMAIN accepted :
    /\ \A p \in UnderWay : IdOf(i) < p.chunk.of.id
    /\ \A k \in 0..MaxLen : assembler.chunks[k] # NoChunk => IdOf(i) < assembler.chunks[k].of.id

(* While the connection lasts, later sessions are of later requests than   *)
(* the one half collected.                                                 *)
LaterSessionsComeLater ==
  linked => \A k \in 0..MaxLen, p \in UnderWay :
              assembler.chunks[k] # NoChunk /\ p.session_id > assembler.session_id
                => assembler.chunks[k].of.id < p.chunk.of.id

OrderInvariant ==
  /\ RequestsAreNumbered /\ EndsComeLast /\ SessionsFollowIds
  /\ NothingComesTwice /\ LaterSessionsComeLater
  /\ RequestsArriveOnceInOrder

(***************************************************************************)
(* Queues in which no chunk follows the end of its message                 *)
(***************************************************************************)
LEMMA EndsPrecedeQueue ==
  /\ EndsPrecede(<<>>)
  /\ \A q \in Seq(Packet) :
       EndsPrecede(q) =>
         /\ q # <<>> => EndsPrecede(Tail(q)) /\ AllAhead({Head(q)}, PacketsOf(Tail(q)))
         /\ \A p \in Packet : AllAhead(PacketsOf(q), {p}) => EndsPrecede(Append(q, p))
  /\ \A q, r \in Seq(Packet) :
       EndsPrecede(q) /\ EndsPrecede(r) /\ AllAhead(PacketsOf(q), PacketsOf(r))
         => EndsPrecede(q \o r)
<1>1. EndsPrecede(<<>>)
  BY DEF EndsPrecede
<1>2. ASSUME NEW q \in Seq(Packet), EndsPrecede(q), q # <<>>
      PROVE  EndsPrecede(Tail(q)) /\ AllAhead({Head(q)}, PacketsOf(Tail(q)))
  <2>1. /\ 1 \in DOMAIN q /\ Head(q) = q[1]
        /\ \A i \in DOMAIN Tail(q) : /\ i \in Nat /\ 1 < i + 1 /\ i + 1 \in DOMAIN q
                                     /\ Tail(q)[i] = q[i + 1]
    BY <1>2
  <2>2. EndsPrecede(Tail(q))
    <3>1. SUFFICES ASSUME NEW i \in DOMAIN Tail(q), NEW j \in DOMAIN Tail(q), i < j
                   PROVE  Ahead(Tail(q)[i], Tail(q)[j])
      BY DEF EndsPrecede
    <3>2. i + 1 < j + 1 /\ i + 1 \in DOMAIN q /\ j + 1 \in DOMAIN q
      BY <2>1, <3>1
    <3>3. Ahead(q[i + 1], q[j + 1])
      BY <1>2, <3>2 DEF EndsPrecede
    <3>4. QED BY <2>1, <3>3
  <2>3. \A i \in DOMAIN Tail(q) : Ahead(Head(q), Tail(q)[i])
    BY <1>2, <2>1 DEF EndsPrecede
  <2>4. QED BY <2>2, <2>3 DEF AllAhead, PacketsOf
<1>3. ASSUME NEW q \in Seq(Packet), EndsPrecede(q), NEW p \in Packet,
             AllAhead(PacketsOf(q), {p})
      PROVE  EndsPrecede(Append(q, p))
  <2>1. /\ Len(q) \in Nat
        /\ \A i \in DOMAIN Append(q, p) :
             \/ i \in DOMAIN q /\ i \in 1..Len(q) /\ Append(q, p)[i] = q[i]
             \/ i = Len(q) + 1 /\ Append(q, p)[i] = p
    OBVIOUS
  <2>2. \A i \in DOMAIN q : Ahead(q[i], p)
    BY <1>3 DEF AllAhead, PacketsOf
  <2>3. SUFFICES ASSUME NEW i \in DOMAIN Append(q, p), NEW j \in DOMAIN Append(q, p), i < j
                 PROVE  Ahead(Append(q, p)[i], Append(q, p)[j])
    BY DEF EndsPrecede
  <2>4. i \in DOMAIN q /\ Append(q, p)[i] = q[i]
    BY <2>1, <2>3
  <2>5. QED BY <1>3, <2>1, <2>2, <2>3, <2>4 DEF EndsPrecede
<1>4. ASSUME NEW q \in Seq(Packet), NEW r \in Seq(Packet),
             EndsPrecede(q), EndsPrecede(r), AllAhead(PacketsOf(q), PacketsOf(r))
      PROVE  EndsPrecede(q \o r)
  <2>1. /\ Len(q) \in Nat
        /\ \A i \in DOMAIN (q \o r) :
             /\ i \in Nat
             /\ \/ i \in DOMAIN q /\ i <= Len(q) /\ (q \o r)[i] = q[i]
                \/ i > Len(q) /\ i - Len(q) \in DOMAIN r /\ (q \o r)[i] = r[i - Len(q)]
    OBVIOUS
  <2>2. \A i \in DOMAIN q, j \in DOMAIN r : Ahead(q[i], r[j])
    BY <1>4 DEF AllAhead, PacketsOf
  <2>3. SUFFICES ASSUME NEW i \in DOMAIN (q \o r), NEW j \in DOMAIN (q \o r), i < j
                 PROVE  Ahead((q \o r)[i], (q \o r)[j])
    BY DEF EndsPrecede
  <2>4. CASE i <= Len(q) /\ j <= Len(q)
    BY <1>4, <2>1, <2>3, <2>4 DEF EndsPrecede
  <2>5. CASE i <= Len(q) /\ j > Len(q)
    BY <2>1, <2>2, <2>5
  <2>6. CASE i > Len(q) /\ j > Len(q)
    <3>1. i - Len(q) < j - Len(q) /\ i - Len(q) \in DOMAIN r /\ j - Len(q) \in DOMAIN r
      BY <2>1, <2>3, <2>6
    <3>2. Ahead(r[i - Len(q)], r[j - Len(q)])
      BY <1>4, <3>1 DEF EndsPrecede
    <3>3. QED BY <2>1, <2>6, <3>2
  <2>7. QED BY <2>1, <2>3, <2>4, <2>5, <2>6
<1>5. QED BY <1>1, <1>2, <1>3, <1>4

(* Acknowledgements and the empty packet are never in the way.             *)
LEMMA AnythingIsAhead ==
  /\ AllAhead({}, {}) /\ \A S : AllAhead({}, S) /\ AllAhead(S, {})
  /\ \A S : AllAhead({NoPacket}, S) /\ AllAhead(S, {NoPacket})
  /\ \A S, p : AllAhead({AckOf(p)}, S) /\ AllAhead(S, {AckOf(p)})
  /\ \A S, T, U : AllAhead(S \cup T, U) <=> AllAhead(S, U) /\ AllAhead(T, U)
  /\ \A S, T, U : AllAhead(U, S \cup T) <=> AllAhead(U, S) /\ AllAhead(U, T)
  /\ \A p : AllAhead({p}, {p})
BY DEF AllAhead, Ahead, NoPacket, AckOf, Encode

LEMMA MoreAreAhead ==
  \A S, T, p : AllAhead(S, T) /\ AllAhead({p}, T) => AllAhead(S \cup {p}, T)
BY DEF AllAhead

LEMMA FewerAreAhead ==
  /\ \A S, T, U : AllAhead(S, T) /\ U \subseteq S => AllAhead(U, T)
  /\ \A S, T, U : AllAhead(S, T) /\ U \subseteq T => AllAhead(S, U)
BY DEF AllAhead

LEMMA QueueTypes ==
  ASSUME TypeOK
  PROVE  /\ notifications \in Seq(Packet) /\ writes \in Seq(Packet)
         /\ outgoing \in Seq(Packet) /\ waiting \in Packet
         /\ session_id \in Nat /\ asked \in Seq(Payload)
BY DEF TypeOK, ChannelTypeOK, PicoTypeOK, BridgeTypeOK

(***************************************************************************)
(* No step brings a chunk behind the end of its message                    *)
(***************************************************************************)
StreamStep ==
  \/ UNCHANGED <<notifications, waiting, outgoing>>
  \/ notifications' = <<>> /\ waiting' = NoPacket /\ outgoing' \in {<<>>, outgoing}
  \/ UNCHANGED outgoing /\ waiting' \in {waiting, NoPacket}
     /\ \/ UNCHANGED notifications
        \/ notifications # <<>> /\ notifications' = Tail(notifications)
        \/ \E p \in Packet : notifications' = Append(notifications, AckOf(p))
  \/ waiting' = waiting /\ outgoing' = outgoing
     /\ notifications' = Append(notifications, waiting)
  \/ waiting = NoPacket /\ outgoing # <<>> /\ waiting' = Head(outgoing)
     /\ outgoing' = Tail(outgoing) /\ notifications' = notifications

LEMMA StreamMoves ==
  ASSUME TypeOK, EndsComeLast, StreamStep
  PROVE  /\ EndsComeLast' /\ Requests' \subseteq Requests /\ UnderWay' \subseteq UnderWay
         /\ UnderWay' \subseteq Requests'
<1>0. /\ notifications \in Seq(Packet) /\ outgoing \in Seq(Packet) /\ waiting \in Packet
      /\ PacketsOf(<<>>) = {}
  BY QueueTypes, PacketsOfQueue
<1>1. /\ EndsPrecede(notifications) /\ EndsPrecede(outgoing)
      /\ AllAhead(PacketsOf(notifications), {waiting})
      /\ AllAhead(PacketsOf(notifications), PacketsOf(outgoing))
      /\ AllAhead({waiting}, PacketsOf(outgoing))
  BY AnythingIsAhead DEF EndsComeLast
<1>2. SUFFICES /\ EndsPrecede(notifications') /\ EndsPrecede(outgoing')
               /\ AllAhead(PacketsOf(notifications'), {waiting'})
               /\ AllAhead(PacketsOf(notifications'), PacketsOf(outgoing'))
               /\ AllAhead({waiting'}, PacketsOf(outgoing'))
               /\ \A p \in PacketsOf(outgoing') \cup {waiting'} \cup PacketsOf(notifications') :
                    p.type \in {"REQUEST_CHUNK", "REQUEST_END"} =>
                      p \in PacketsOf(outgoing) \cup {waiting} \cup PacketsOf(notifications)
  BY AnythingIsAhead DEF EndsComeLast, Requests, UnderWay
<1>3. NoPacket.type \notin {"REQUEST_CHUNK", "REQUEST_END"}
      /\ \A p : AckOf(p).type \notin {"REQUEST_CHUNK", "REQUEST_END"}
  BY DEF NoPacket, AckOf, Encode
<1>4. CASE UNCHANGED <<notifications, waiting, outgoing>>
  BY <1>1, <1>4
<1>5. CASE notifications' = <<>> /\ waiting' = NoPacket /\ outgoing' \in {<<>>, outgoing}
  BY <1>0, <1>1, <1>3, <1>5, EndsPrecedeQueue, AnythingIsAhead
<1>6. CASE /\ UNCHANGED outgoing /\ waiting' \in {waiting, NoPacket}
           /\ \/ UNCHANGED notifications
              \/ notifications # <<>> /\ notifications' = Tail(notifications)
              \/ \E p \in Packet : notifications' = Append(notifications, AckOf(p))
  <2>1. /\ EndsPrecede(notifications')
        /\ \/ PacketsOf(notifications') \subseteq PacketsOf(notifications)
           \/ \E p \in Packet :
                PacketsOf(notifications') = PacketsOf(notifications) \cup {AckOf(p)}
    <3>1. CASE UNCHANGED notifications
      BY <1>1, <3>1
    <3>2. CASE notifications # <<>> /\ notifications' = Tail(notifications)
      BY <1>0, <1>1, <3>2, EndsPrecedeQueue, PacketsOfQueue
    <3>3. ASSUME NEW p \in Packet, notifications' = Append(notifications, AckOf(p))
          PROVE  /\ EndsPrecede(notifications')
                 /\ PacketsOf(notifications') = PacketsOf(notifications) \cup {AckOf(p)}
      <4>1. AckOf(p) \in Packet /\ AllAhead(PacketsOf(notifications), {AckOf(p)})
        BY AckOfType, AnythingIsAhead
      <4>2. QED BY <1>0, <1>1, <3>3, <4>1, EndsPrecedeQueue, PacketsOfQueue
    <3>4. QED BY <1>6, <3>1, <3>2, <3>3
  <2>2. /\ AllAhead(PacketsOf(notifications'), {waiting})
        /\ AllAhead(PacketsOf(notifications'), PacketsOf(outgoing))
    <3>1. CASE PacketsOf(notifications') \subseteq PacketsOf(notifications)
      <4> DEFINE fewer == PacketsOf(notifications')
      <4>1. fewer \subseteq PacketsOf(notifications)
        BY <3>1
      <4> HIDE DEF fewer
      <4>2. AllAhead(fewer, {waiting}) /\ AllAhead(fewer, PacketsOf(outgoing))
        BY <1>1, <4>1, FewerAreAhead
      <4>3. QED BY <4>2 DEF fewer
    <3>2. ASSUME NEW p \in Packet,
                 PacketsOf(notifications') = PacketsOf(notifications) \cup {AckOf(p)}
          PROVE  /\ AllAhead(PacketsOf(notifications'), {waiting})
                 /\ AllAhead(PacketsOf(notifications'), PacketsOf(outgoing))
      <4>1. AllAhead({AckOf(p)}, {waiting}) /\ AllAhead({AckOf(p)}, PacketsOf(outgoing))
        BY AnythingIsAhead
      <4>2. /\ AllAhead(PacketsOf(notifications) \cup {AckOf(p)}, {waiting})
            /\ AllAhead(PacketsOf(notifications) \cup {AckOf(p)}, PacketsOf(outgoing))
        BY <1>1, <4>1, MoreAreAhead, Zenon
      <4>3. QED BY <3>2, <4>2
    <3>3. QED BY <2>1, <3>1, <3>2
  <2>3. /\ AllAhead(PacketsOf(notifications'), {waiting'})
        /\ AllAhead({waiting'}, PacketsOf(outgoing))
    BY <1>1, <1>6, <2>2, AnythingIsAhead
  <2>4. \A p \in PacketsOf(outgoing') \cup {waiting'} \cup PacketsOf(notifications') :
          p.type \in {"REQUEST_CHUNK", "REQUEST_END"} =>
            p \in PacketsOf(outgoing) \cup {waiting} \cup PacketsOf(notifications)
    BY <1>3, <1>6, <2>1
  <2>5. QED BY <1>1, <1>6, <2>1, <2>2, <2>3, <2>4
<1>7. CASE /\ waiting' = waiting /\ outgoing' = outgoing
           /\ notifications' = Append(notifications, waiting)
  <2>1. /\ EndsPrecede(notifications')
        /\ PacketsOf(notifications') = PacketsOf(notifications) \cup {waiting}
    BY <1>0, <1>1, <1>7, EndsPrecedeQueue, PacketsOfQueue
  <2>2. /\ AllAhead(PacketsOf(notifications'), {waiting})
        /\ AllAhead(PacketsOf(notifications'), PacketsOf(outgoing))
    <3>1. AllAhead({waiting}, {waiting})
      BY AnythingIsAhead
    <3>2. /\ AllAhead(PacketsOf(notifications) \cup {waiting}, {waiting})
          /\ AllAhead(PacketsOf(notifications) \cup {waiting}, PacketsOf(outgoing))
      BY <1>1, <3>1, MoreAreAhead, Zenon
    <3>3. QED BY <2>1, <3>2
  <2>3. /\ EndsPrecede(outgoing') /\ AllAhead({waiting'}, PacketsOf(outgoing'))
        /\ AllAhead(PacketsOf(notifications'), {waiting'})
        /\ AllAhead(PacketsOf(notifications'), PacketsOf(outgoing'))
    BY <1>1, <1>7, <2>2
  <2>4. QED BY <1>7, <2>1, <2>3
<1>8. CASE /\ waiting = NoPacket /\ outgoing # <<>> /\ waiting' = Head(outgoing)
           /\ outgoing' = Tail(outgoing) /\ notifications' = notifications
  <2>1. /\ EndsPrecede(outgoing') /\ AllAhead({waiting'}, PacketsOf(outgoing'))
        /\ waiting' \in PacketsOf(outgoing)
        /\ PacketsOf(outgoing') \subseteq PacketsOf(outgoing)
    BY <1>0, <1>1, <1>8, EndsPrecedeQueue, PacketsOfQueue
  <2>2. /\ AllAhead(PacketsOf(notifications), {waiting'})
        /\ AllAhead(PacketsOf(notifications), PacketsOf(outgoing'))
    BY <1>1, <2>1 DEF AllAhead
  <2>3. /\ PacketsOf(notifications') = PacketsOf(notifications)
        /\ EndsPrecede(notifications')
    BY <1>1, <1>8
  <2>4. \A p \in PacketsOf(outgoing') \cup {waiting'} \cup PacketsOf(notifications') :
          p \in PacketsOf(outgoing) \cup {waiting} \cup PacketsOf(notifications)
    BY <2>1, <2>3
  <2>5. /\ AllAhead(PacketsOf(notifications'), {waiting'})
        /\ AllAhead(PacketsOf(notifications'), PacketsOf(outgoing'))
    BY <2>2, <2>3
  <2>6. QED BY <2>1, <2>3, <2>4, <2>5, Zenon
<1>9. QED BY <1>4, <1>5, <1>6, <1>7, <1>8 DEF StreamStep

(***************************************************************************)
(* Steps that put no request under way and collect nothing                 *)
(***************************************************************************)
LEMMA OrderStays ==
  ASSUME TypeOK, OrderInvariant, RequestsAreNumbered',
         StreamStep, session_id' = session_id \/ Requests' = {},
         accepted' = accepted,
         \/ assembler' = EmptyAssembler
         \/ assembler' = assembler /\ (linked' => linked)
  PROVE  OrderInvariant'
<1>0. /\ EndsComeLast' /\ Requests' \subseteq Requests /\ UnderWay' \subseteq UnderWay
      /\ UnderWay' \subseteq Requests'
  BY StreamMoves DEF OrderInvariant
<1>1. \A k \in 0..MaxLen : EmptyAssembler.chunks[k] = NoChunk
  BY DEF EmptyAssembler, NoChunks
<1>2. SessionsFollowIds' /\ RequestsArriveOnceInOrder'
  BY <1>0 DEF OrderInvariant, SessionsFollowIds, RequestsArriveOnceInOrder
<1>3. NothingComesTwice'
  BY <1>0, <1>1 DEF OrderInvariant, NothingComesTwice, IdOf
<1>4. LaterSessionsComeLater'
  BY <1>0, <1>1 DEF OrderInvariant, LaterSessionsComeLater
<1>5. QED BY <1>0, <1>2, <1>3, <1>4 DEF OrderInvariant

LEMMA IdsWereAsked ==
  ASSUME TypeOK, RequestInvariant, RequestsAreNumbered
  PROVE  /\ \A i \in DOMAIN accepted : IdOf(i) \in 1..Len(asked)
         /\ \A p \in UnderWay : p.chunk.of.id \in 1..Len(asked)
         /\ \A k \in 0..MaxLen : assembler.chunks[k] # NoChunk =>
              assembler.chunks[k].of.id \in 1..Len(asked)
<1>0. \A n \in DOMAIN asked : asked[n].id \in 1..Len(asked)
  BY QueueTypes DEF RequestsAreNumbered
<1>1. ASSUME NEW i \in DOMAIN accepted PROVE IdOf(i) \in 1..Len(asked)
  <2>1. PICK n \in DOMAIN asked : accepted[i].message = Message(asked[n])
    BY DEF RequestInvariant, RequestsArriveWhole
  <2>2. accepted[i].message # <<>>
    <3> DEFINE Entry == [session : Nat, message : MessageType]
    <3>1. accepted \in Seq(Entry)
      BY DEF TypeOK, PhoneTypeOK
    <3>2. \A entry \in Entry : entry.message \in MessageType
      OBVIOUS
    <3> HIDE DEF Entry
    <3>3. accepted[i].message \in MessageType
      BY <3>1, <3>2
    <3>4. QED BY <3>3 DEF MessageType
  <2>3. asked[n].len \in 0..MaxLen
    <3>1. asked[n] \in Payload
      BY QueueTypes
    <3>2. QED BY <3>1 DEF Payload
  <2>4. asked[n].len # 0
    <3>1. \A payload : payload.len = 0 => Message(payload) = <<>>
      BY DEF Message
    <3>2. QED BY <2>1, <2>2, <3>1
  <2>5. 1 \in 1..asked[n].len
    BY <2>3, <2>4, MaxLenAssumption
  <2>6. accepted[i].message[1] = [of |-> asked[n], at |-> 0]
    BY <2>1, <2>5 DEF Message
  <2>7. QED BY <1>0, <2>6 DEF IdOf
<1>2. ASSUME NEW p \in UnderWay PROVE p.chunk.of.id \in 1..Len(asked)
  <2>1. PICK n \in DOMAIN asked : p.chunk = [of |-> asked[n], at |-> p.sequence]
    BY DEF RequestInvariant, ChunksAreGenuine
  <2>2. p.chunk.of = asked[n]
    BY <2>1
  <2>3. QED BY <1>0, <2>2
<1>3. ASSUME NEW k \in 0..MaxLen, assembler.chunks[k] # NoChunk
      PROVE  assembler.chunks[k].of.id \in 1..Len(asked)
  <2>1. EmptyAssembler.chunks[k] = NoChunk
    BY DEF EmptyAssembler, NoChunks
  <2>2. assembler # EmptyAssembler
    BY <1>3, <2>1
  <2>3. PICK n \in DOMAIN asked : Collects(asked[n])
    BY <2>2 DEF RequestInvariant, OneRequestIsCollected
  <2>4. assembler.chunks[k] = [of |-> asked[n], at |-> k]
    BY <1>3, <2>3 DEF Collects
  <2>5. assembler.chunks[k].of = asked[n]
    BY <2>4
  <2>6. QED BY <1>0, <2>5
<1>4. QED BY <1>1, <1>2, <1>3

(***************************************************************************)
(* send(): the new session comes after everything under way                *)
(***************************************************************************)
LEMMA NewPackets ==
  ASSUME NEW session \in Nat, NEW payload \in Payload
  PROVE  LET packets == RequestPackets(session, payload) IN
         /\ packets \in Seq(Packet) /\ EndsPrecede(packets)
         /\ \A p \in PacketsOf(packets) :
              /\ p.session_id = session /\ p.type \in {"REQUEST_CHUNK", "REQUEST_END"}
              /\ p.type = "REQUEST_CHUNK" => p.chunk.of = payload
<1> DEFINE packets == RequestPackets(session, payload)
<1>1. payload.len \in Nat
  BY MaxLenAssumption DEF Payload
<1>2. packets \in Seq(Packet)
  BY PacketsType DEF RequestPackets, PacketTypes
<1>3. /\ DOMAIN packets = 1..(payload.len + 1)
      /\ \A k \in DOMAIN packets :
           packets[k] = IF k <= payload.len
                        THEN Encode("REQUEST_CHUNK", session, k - 1, payload.len,
                                    [of |-> payload, at |-> k - 1])
                        ELSE Encode("REQUEST_END", session, payload.len, payload.len, NoChunk)
  BY DEF RequestPackets, Packets
<1> HIDE DEF packets
<1>4. ASSUME NEW k \in DOMAIN packets
      PROVE  /\ packets[k].session_id = session
             /\ packets[k].type = IF k <= payload.len THEN "REQUEST_CHUNK" ELSE "REQUEST_END"
             /\ k <= payload.len => packets[k].chunk.of = payload
  <2>1. CASE k <= payload.len
    <3>1. packets[k] = Encode("REQUEST_CHUNK", session, k - 1, payload.len,
                              [of |-> payload, at |-> k - 1])
      BY <1>3, <2>1
    <3>2. QED BY <2>1, <3>1 DEF Encode
  <2>2. CASE ~(k <= payload.len)
    <3>1. packets[k] = Encode("REQUEST_END", session, payload.len, payload.len, NoChunk)
      BY <1>3, <2>2
    <3>2. QED BY <2>2, <3>1 DEF Encode
  <2>3. QED BY <2>1, <2>2
<1>5. EndsPrecede(packets)
  <2>1. SUFFICES ASSUME NEW i \in DOMAIN packets, NEW j \in DOMAIN packets, i < j
                 PROVE  Ahead(packets[i], packets[j])
    BY DEF EndsPrecede
  <2>2. i <= payload.len
    BY <1>1, <1>3, <2>1
  <2>3. QED BY <1>4, <2>2 DEF Ahead
<1>6. \A p \in PacketsOf(packets) :
        /\ p.session_id = session /\ p.type \in {"REQUEST_CHUNK", "REQUEST_END"}
        /\ p.type = "REQUEST_CHUNK" => p.chunk.of = payload
  BY <1>4 DEF PacketsOf
<1>7. QED BY <1>2, <1>5, <1>6 DEF packets

LEMMA SendKeepsOrder ==
  ASSUME MaxRequests <= SessionLimit, TypeOK, RequestInvariant, OrderInvariant,
         NEW len \in RequestLens, SendRequest(len)
  PROVE  OrderInvariant'
<1> DEFINE request == [kind |-> "request", id |-> Len(asked) + 1, len |-> len]
           packets == RequestPackets(session_id + 1, request)
           Old == PacketsOf(notifications) \cup {waiting} \cup PacketsOf(outgoing)
<1>1. /\ asked \in Seq(Payload) /\ Len(asked) \in Nat /\ Len(asked) < MaxRequests
      /\ asked' = Append(asked, request)
      /\ UNCHANGED <<waiting, notifications, linked, accepted, assembler>>
  BY DEF SendRequest, NewRequest, Send, current, TypeOK, BridgeTypeOK, phoneVars, channelVars
<1>2. NextSession = session_id + 1 /\ session_id \in Nat /\ session_id + 1 \in Nat
  BY <1>1, ChannelAssumption, LinkAssumption
  DEF NextSession, RequestInvariant, TypeOK, PicoTypeOK
<1>3. request \in Payload /\ request.id = Len(asked) + 1
  BY <1>1, LinkAssumption DEF Payload, PayloadKinds
<1>4. session_id' = session_id + 1 /\ outgoing' = outgoing \o packets
  <2>1. asked'[current + 1] = request
    BY <1>1 DEF current
  <2>2. QED BY <1>2, <2>1 DEF SendRequest, Send
<1> HIDE DEF request
<1>5. /\ packets \in Seq(Packet) /\ EndsPrecede(packets)
      /\ \A p \in PacketsOf(packets) :
           /\ p.session_id = session_id + 1 /\ p.type \in {"REQUEST_CHUNK", "REQUEST_END"}
           /\ p.type = "REQUEST_CHUNK" => p.chunk.of = request
  BY <1>2, <1>3, NewPackets
<1> HIDE DEF packets
<1>6. PacketsOf(outgoing') = PacketsOf(outgoing) \cup PacketsOf(packets)
  BY <1>4, <1>5, PacketsOfQueue, QueueTypes
<1>7. \A p \in Requests : p.session_id \in 1..session_id
  BY DEF OrderInvariant, SessionsFollowIds
<1>8. AllAhead(Old, PacketsOf(packets))
  <2>1. SUFFICES ASSUME NEW p \in Old, NEW q \in PacketsOf(packets), p.type = "REQUEST_END"
                 PROVE  p.session_id < q.session_id
    BY DEF AllAhead, Ahead
  <2>2. p \in Requests
    BY <2>1 DEF Requests
  <2>3. QED BY <1>2, <1>5, <1>7, <2>2
<1>9. /\ Requests' = Requests \cup PacketsOf(packets)
      /\ \A p \in UnderWay' :
           \/ p \in UnderWay
           \/ p.session_id = session_id + 1 /\ p.chunk.of = request
      /\ UnderWay \subseteq Requests
  BY <1>1, <1>5, <1>6 DEF Requests, UnderWay
<1>10. /\ \A i \in DOMAIN accepted : IdOf(i) < request.id
       /\ \A p \in UnderWay : p.chunk.of.id < request.id
       /\ \A k \in 0..MaxLen : assembler.chunks[k] # NoChunk =>
            assembler.chunks[k].of.id < request.id
  BY <1>1, <1>3, IdsWereAsked DEF OrderInvariant
<1>11. RequestsAreNumbered'
  <2>1. \A n \in DOMAIN asked' :
          \/ n \in DOMAIN asked /\ asked'[n] = asked[n]
          \/ n = Len(asked) + 1 /\ asked'[n] = request
    BY <1>1, <1>3
  <2>2. QED BY <1>3, <2>1 DEF OrderInvariant, RequestsAreNumbered
<1>12. EndsComeLast'
  <2>1. /\ EndsPrecede(notifications) /\ EndsPrecede(outgoing)
        /\ AllAhead(PacketsOf(notifications), {waiting} \cup PacketsOf(outgoing))
        /\ AllAhead({waiting}, PacketsOf(outgoing))
    BY DEF OrderInvariant, EndsComeLast
  <2>2. EndsPrecede(outgoing')
    <3>1. AllAhead(PacketsOf(outgoing), PacketsOf(packets))
      BY <1>8 DEF AllAhead
    <3>2. QED BY <1>4, <1>5, <2>1, <3>1, QueueTypes, EndsPrecedeQueue
  <2>3. /\ AllAhead(PacketsOf(notifications), {waiting} \cup PacketsOf(outgoing'))
        /\ AllAhead({waiting}, PacketsOf(outgoing'))
    BY <1>6, <1>8, <2>1 DEF AllAhead
  <2>4. QED BY <1>1, <2>1, <2>2, <2>3 DEF EndsComeLast
<1> HIDE DEF Old
<1>13. SessionsFollowIds'
  <2>1. \A p \in Requests' : p.session_id \in 1..session_id'
    BY <1>2, <1>4, <1>5, <1>7, <1>9
  <2>2. ASSUME NEW p \in UnderWay', NEW q \in UnderWay', p.session_id < q.session_id
        PROVE  p.chunk.of.id < q.chunk.of.id
    <3>1. p \in UnderWay
      <4>1. q.session_id \in 1..(session_id + 1)
        BY <1>2, <1>7, <1>9
      <4>2. p.session_id # session_id + 1
        BY <1>2, <2>2, <4>1
      <4>3. QED BY <1>9, <4>2
    <3>2. CASE q \in UnderWay
      BY <2>2, <3>1, <3>2 DEF OrderInvariant, SessionsFollowIds
    <3>3. CASE q.chunk.of = request
      BY <1>10, <3>1, <3>3
    <3>4. QED BY <1>9, <3>2, <3>3
  <2>3. QED BY <2>1, <2>2 DEF SessionsFollowIds
<1>14. NothingComesTwice'
  <2>1. \A i \in DOMAIN accepted, p \in UnderWay' : IdOf(i) < p.chunk.of.id
    BY <1>9, <1>10 DEF OrderInvariant, NothingComesTwice
  <2>2. QED BY <1>1, <2>1 DEF OrderInvariant, NothingComesTwice, IdOf
<1>15. LaterSessionsComeLater'
  <2>1. SUFFICES ASSUME linked, NEW k \in 0..MaxLen, NEW p \in UnderWay',
                        assembler.chunks[k] # NoChunk, p.session_id > assembler.session_id
                 PROVE  assembler.chunks[k].of.id < p.chunk.of.id
    BY <1>1 DEF LaterSessionsComeLater
  <2>2. CASE p \in UnderWay
    BY <2>1, <2>2 DEF OrderInvariant, LaterSessionsComeLater
  <2>3. CASE p.chunk.of = request
    BY <1>10, <2>1, <2>3
  <2>4. QED BY <1>9, <2>2, <2>3
<1>16. RequestsArriveOnceInOrder'
  BY <1>1 DEF OrderInvariant, RequestsArriveOnceInOrder
<1>17. QED BY <1>11, <1>12, <1>13, <1>14, <1>15, <1>16 DEF OrderInvariant

(***************************************************************************)
(* The phone collects a chunk                                              *)
(***************************************************************************)
LEMMA CollectKeepsOrder ==
  ASSUME TypeOK, RequestInvariant, OrderInvariant, ReceiveNotification,
         UNCHANGED <<picoVars, bridgeVars>>, OnRequestChunk(Head(notifications))
  PROVE  OrderInvariant'
<1> DEFINE packet == Head(notifications)
<1>1. /\ EndsComeLast' /\ Requests' \subseteq Requests /\ UnderWay' \subseteq UnderWay
  BY StreamMoves DEF OrderInvariant, StreamStep, ReceiveNotification, picoVars
<1>2. /\ packet \in UnderWay /\ linked /\ packet \in Packet
  <2>1. packet \in PacketsOf(notifications) /\ packet \in Packet
    BY PacketsOfQueue, QueueTypes DEF ReceiveNotification
  <2>2. packet.type = "REQUEST_CHUNK"
    BY DEF OnRequestChunk
  <2>3. QED BY <2>1, <2>2 DEF UnderWay, ReceiveNotification
<1>3. /\ assembler' = AssemblerAdd(assembler, packet)
      /\ UNCHANGED <<session_id, asked, accepted>>
  BY DEF OnRequestChunk, picoVars, bridgeVars
<1> HIDE DEF packet
<1>4. /\ packet.sequence \in 0..MaxLen /\ packet.session_id \in Nat
      /\ assembler.chunks \in [0..MaxLen -> Chunk]
      /\ NoChunks \in [0..MaxLen -> Chunk] /\ \A k \in 0..MaxLen : NoChunks[k] = NoChunk
  BY <1>2, NoPacketType DEF Packet, Envelope, TypeOK, PhoneTypeOK, Assembler, NoChunks
<1>5. \A k \in 0..MaxLen :
        assembler.session_id = NoSession => assembler.chunks[k] = NoChunk
  <2>1. \A k \in 0..MaxLen : EmptyAssembler.chunks[k] = NoChunk
    BY DEF EmptyAssembler, NoChunks
  <2>2. QED BY <2>1 DEF RequestInvariant, OneRequestIsCollected
<1>6. assembler'.session_id = packet.session_id
  BY <1>3 DEF AssemblerAdd
<1>7. \A k \in 0..MaxLen : assembler'.chunks[k] # NoChunk =>
        \/ assembler'.chunks[k] = packet.chunk
        \/ /\ assembler.session_id = packet.session_id
           /\ assembler.chunks[k] = assembler'.chunks[k]
  <2> DEFINE kept == IF assembler.session_id \in {NoSession, packet.session_id}
                     THEN assembler.chunks ELSE NoChunks
  <2>1. assembler'.chunks = IF kept[packet.sequence] = NoChunk
                            THEN [kept EXCEPT ![packet.sequence] = packet.chunk] ELSE kept
    BY <1>3 DEF AssemblerAdd
  <2>2. /\ kept \in [0..MaxLen -> Chunk]
        /\ \A k \in 0..MaxLen : kept[k] # NoChunk =>
             assembler.session_id = packet.session_id /\ assembler.chunks[k] = kept[k]
    BY <1>4, <1>5
  <2> HIDE DEF kept
  <2>3. \A k \in 0..MaxLen : assembler'.chunks[k] \in {packet.chunk, kept[k]}
    BY <2>1, <2>2, <1>4
  <2>4. QED BY <2>2, <2>3
<1>8. NothingComesTwice'
  <2>1. \A i \in DOMAIN accepted, p \in UnderWay' : IdOf(i) < p.chunk.of.id
    BY <1>1 DEF OrderInvariant, NothingComesTwice
  <2>2. \A i \in DOMAIN accepted, k \in 0..MaxLen :
          assembler'.chunks[k] # NoChunk => IdOf(i) < assembler'.chunks[k].of.id
    BY <1>2, <1>7 DEF OrderInvariant, NothingComesTwice
  <2>3. QED BY <1>3, <2>1, <2>2 DEF NothingComesTwice, IdOf
<1>9. LaterSessionsComeLater'
  <2>1. SUFFICES ASSUME NEW k \in 0..MaxLen, NEW p \in UnderWay',
                        assembler'.chunks[k] # NoChunk, p.session_id > packet.session_id
                 PROVE  assembler'.chunks[k].of.id < p.chunk.of.id
    BY <1>6 DEF LaterSessionsComeLater
  <2>2. CASE assembler'.chunks[k] = packet.chunk
    <3>1. p \in UnderWay /\ p \in Packet
      BY <1>1, UnderWayType
    <3>2. packet.session_id < p.session_id
      BY <1>4, <2>1, <3>1 DEF Packet, Envelope
    <3>3. QED BY <1>2, <2>2, <3>1, <3>2 DEF OrderInvariant, SessionsFollowIds
  <2>3. CASE /\ assembler.session_id = packet.session_id
             /\ assembler.chunks[k] = assembler'.chunks[k]
    BY <1>1, <1>2, <2>1, <2>3 DEF OrderInvariant, LaterSessionsComeLater
  <2>4. QED BY <1>7, <2>1, <2>2, <2>3
<1>10. RequestsAreNumbered' /\ SessionsFollowIds' /\ RequestsArriveOnceInOrder'
  BY <1>1, <1>3
  DEF OrderInvariant, RequestsAreNumbered, SessionsFollowIds, RequestsArriveOnceInOrder
<1>11. QED BY <1>1, <1>8, <1>9, <1>10 DEF OrderInvariant

(***************************************************************************)
(* The phone takes a request in: whatever chunks still come are of later   *)
(* sessions, and so of later requests.                                     *)
(***************************************************************************)
LEMMA AcceptKeepsOrder ==
  ASSUME TypeOK, RequestInvariant, OrderInvariant, ReceiveNotification,
         UNCHANGED <<picoVars, bridgeVars>>, OnRequestEnd(Head(notifications)),
         CanFinish(assembler, Head(notifications).session_id)
  PROVE  OrderInvariant'
<1> DEFINE packet == Head(notifications)
           newest == assembler.chunks[0].of.id
           entry == [session |-> packet.session_id, message |-> Assembled(assembler)]
<1>1. /\ EndsComeLast' /\ Requests' \subseteq Requests /\ UnderWay' \subseteq UnderWay
  BY StreamMoves DEF OrderInvariant, StreamStep, ReceiveNotification, picoVars
<1>2. /\ assembler' = EmptyAssembler /\ accepted' = Append(accepted, entry)
      /\ UNCHANGED <<session_id, asked>> /\ linked
      /\ accepted \in Seq([session : Nat, message : MessageType])
  BY DEF OnRequestEnd, AssemblerFinish, picoVars, bridgeVars, ReceiveNotification,
     TypeOK, PhoneTypeOK
<1>3. /\ assembler.session_id = packet.session_id
      /\ assembler.total_length \in Nat /\ assembler.total_length > 0
      /\ 0 \in 0..MaxLen /\ assembler.chunks[0] # NoChunk
  <2>1. /\ assembler.session_id = packet.session_id /\ assembler.session_id # NoSession
        /\ \A k \in 0..(assembler.total_length - 1) : assembler.chunks[k] # NoChunk
    BY DEF CanFinish
  <2>2. assembler.total_length \in Nat /\ assembler.total_length > 0
    BY <2>1, MaxLenAssumption DEF TypeOK, PhoneTypeOK, Assembler
  <2>3. QED BY <2>1, <2>2, MaxLenAssumption
<1>4. entry.message[1].of.id = newest
  <2>1. 1 \in 1..assembler.total_length
    BY <1>3
  <2>2. Assembled(assembler)[1] = assembler.chunks[0]
    BY <2>1 DEF Assembled
  <2>3. QED BY <2>2
<1>5. \A i \in DOMAIN accepted : IdOf(i) < newest
  BY <1>3 DEF OrderInvariant, NothingComesTwice
<1> HIDE DEF entry
<1>6. /\ \A i \in DOMAIN accepted : i \in DOMAIN accepted' /\ accepted'[i] = accepted[i]
      /\ \A i \in DOMAIN accepted' :
           /\ i \in Nat
           /\ \/ i \in DOMAIN accepted /\ i <= Len(accepted) /\ accepted'[i] = accepted[i]
              \/ i = Len(accepted) + 1 /\ accepted'[i] = entry
      /\ Len(accepted) \in Nat
  <2> DEFINE Entry == [session : Nat, message : MessageType]
  <2>1. accepted \in Seq(Entry) /\ accepted' = Append(accepted, entry)
    BY <1>2
  <2> HIDE DEF Entry
  <2>2. QED BY <2>1
<1>7. ASSUME NEW p \in UnderWay' PROVE newest < p.chunk.of.id
  <2>1. packet.type = "REQUEST_END" /\ p.type = "REQUEST_CHUNK"
    BY DEF OnRequestEnd, UnderWay
  <2>2. Ahead(packet, p)
    <3>1. /\ notifications' = Tail(notifications) /\ notifications # <<>>
          /\ waiting' = waiting /\ outgoing' = outgoing
      BY DEF ReceiveNotification, picoVars
    <3>2. AllAhead({packet}, PacketsOf(notifications'))
      BY <3>1, EndsPrecedeQueue, QueueTypes DEF OrderInvariant, EndsComeLast
    <3>3. packet \in PacketsOf(notifications)
      BY <3>1, PacketsOfQueue, QueueTypes
    <3>4. \A q \in {waiting} \cup PacketsOf(outgoing) : Ahead(packet, q)
      BY <3>3 DEF OrderInvariant, EndsComeLast, AllAhead
    <3>5. p \in PacketsOf(outgoing) \cup {waiting} \cup PacketsOf(notifications')
      BY <3>1 DEF UnderWay
    <3>6. QED BY <3>2, <3>4, <3>5 DEF AllAhead
  <2>3. packet.session_id < p.session_id
    BY <2>1, <2>2 DEF Ahead
  <2>4. p \in UnderWay /\ p \in Packet
    BY <1>1, UnderWayType
  <2>5. p.session_id > assembler.session_id
    <3>1. p.session_id \in Nat /\ assembler.session_id \in Nat
      BY <2>4 DEF Packet, Envelope, TypeOK, PhoneTypeOK, Assembler
    <3>2. QED BY <1>3, <2>3, <3>1
  <2>6. QED BY <1>2, <1>3, <2>4, <2>5 DEF OrderInvariant, LaterSessionsComeLater
<1>8. newest \in Nat /\ \A i \in DOMAIN accepted : IdOf(i) \in Nat
        /\ \A p \in UnderWay : p.chunk.of.id \in Nat
  BY <1>3, IdsWereAsked DEF OrderInvariant
<1> HIDE DEF newest, packet
<1>9. NothingComesTwice'
  <2>1. ASSUME NEW i \in DOMAIN accepted', NEW p \in UnderWay'
        PROVE  accepted'[i].message[1].of.id < p.chunk.of.id
    <3>1. CASE i \in DOMAIN accepted /\ accepted'[i] = accepted[i]
      BY <1>1, <3>1 DEF OrderInvariant, NothingComesTwice, IdOf
    <3>2. CASE accepted'[i] = entry
      BY <1>4, <1>7, <3>2
    <3>3. QED BY <1>6, <3>1, <3>2
  <2>2. \A k \in 0..MaxLen : assembler'.chunks[k] = NoChunk
    BY <1>2 DEF EmptyAssembler, NoChunks
  <2>3. QED BY <2>1, <2>2 DEF NothingComesTwice, IdOf
<1>10. RequestsArriveOnceInOrder'
  <2>1. SUFFICES ASSUME NEW i \in DOMAIN accepted', NEW j \in DOMAIN accepted', i < j
                 PROVE  accepted'[i].message[1].of.id < accepted'[j].message[1].of.id
    BY DEF RequestsArriveOnceInOrder
  <2>2. i \in DOMAIN accepted /\ accepted'[i] = accepted[i]
    BY <1>6, <2>1
  <2>3. CASE j \in DOMAIN accepted /\ accepted'[j] = accepted[j]
    BY <2>1, <2>2, <2>3 DEF OrderInvariant, RequestsArriveOnceInOrder
  <2>4. CASE accepted'[j] = entry
    BY <1>4, <1>5, <2>2, <2>4 DEF IdOf
  <2>5. QED BY <1>6, <2>3, <2>4
<1>11. LaterSessionsComeLater'
  <2>1. \A k \in 0..MaxLen : assembler'.chunks[k] = NoChunk
    BY <1>2 DEF EmptyAssembler, NoChunks
  <2>2. QED BY <2>1 DEF LaterSessionsComeLater
<1>12. RequestsAreNumbered' /\ SessionsFollowIds'
  BY <1>1, <1>2 DEF OrderInvariant, RequestsAreNumbered, SessionsFollowIds
<1>13. QED BY <1>1, <1>9, <1>10, <1>11, <1>12 DEF OrderInvariant

(***************************************************************************)
(* Everything else                                                         *)
(***************************************************************************)
LEMMA BridgeKeepsOrder ==
  ASSUME MaxRequests <= SessionLimit, TypeOK, RequestInvariant, OrderInvariant, Bridge
  PROVE  OrderInvariant'
<1>0. asked' = asked => RequestsAreNumbered'
  BY DEF OrderInvariant, RequestsAreNumbered
<1>1. CASE ReopenTransport \/ PowerCycle
  <2>1. /\ notifications' = <<>> /\ waiting' = NoPacket /\ outgoing' = <<>>
        /\ linked' = FALSE /\ UNCHANGED <<asked, accepted, assembler>>
    BY <1>1 DEF ReopenTransport, PowerCycle, Reopen, FreshTransport, phoneVars
  <2>2. Requests' = {}
    BY <2>1, PacketsOfQueue DEF Requests, NoPacket, Encode
  <2>3. QED BY <1>0, <2>1, <2>2, OrderStays DEF StreamStep
<1>2. ASSUME NEW len \in RequestLens, SendRequest(len) PROVE OrderInvariant'
  BY <1>2, SendKeepsOrder
<1>3. ASSUME NEW len \in RequestLens, RefuseRequest(len) PROVE OrderInvariant'
  <2> DEFINE request == [kind |-> "request", id |-> Len(asked) + 1, len |-> len]
  <2>1. /\ asked' = Append(asked, request)
        /\ UNCHANGED <<notifications, waiting, outgoing, linked, session_id, accepted, assembler>>
    BY <1>3 DEF RefuseRequest, NewRequest, current, channelVars, picoVars, phoneVars
  <2>2. request.id = Len(asked) + 1
    OBVIOUS
  <2> HIDE DEF request
  <2>3. RequestsAreNumbered'
    <3>1. \A n \in DOMAIN asked' :
            \/ n \in DOMAIN asked /\ asked'[n] = asked[n]
            \/ n = Len(asked) + 1 /\ asked'[n] = request
      BY <2>1, QueueTypes
    <3>2. QED BY <2>2, <3>1 DEF OrderInvariant, RequestsAreNumbered
  <2>4. QED BY <2>1, <2>3, OrderStays DEF StreamStep
<1>4. CASE Pump \/ NotifyWaiting \/ AckTimeout
  <2>1. UNCHANGED <<session_id, linked, asked, accepted, assembler>>
    BY <1>4 DEF Pump, NotifyWaiting, AckTimeout, PumpRetry, PumpNext, PumpIdle, PumpNotify,
       PumpGivesUp, phoneVars, picoVars, channelVars
  <2>2. StreamStep
    BY <1>4 DEF StreamStep, Pump, NotifyWaiting, AckTimeout, PumpRetry, PumpNext, PumpIdle,
       PumpNotify, PumpGivesUp, Notify, picoVars, channelVars
  <2>3. QED BY <1>0, <2>1, <2>2, OrderStays
<1>5. CASE \/ TransportReady \/ NotifyFails \/ ResponseTimeout
           \/ NothingCompleted \/ TakeCatalog \/ TakeAnswer
  <2>1. UNCHANGED <<notifications, waiting, outgoing, session_id, linked, asked, accepted,
                    assembler>>
    BY <1>5 DEF TransportReady, NotifyFails, PumpNotifyRaises, NotifyRaises, ResponseTimeout,
       NothingCompleted, TakeCatalog, TakeAnswer, PopCompleted, channelVars, picoVars, phoneVars
  <2>2. QED BY <1>0, <2>1, OrderStays DEF StreamStep
<1>6. QED BY <1>1, <1>2, <1>3, <1>4, <1>5 DEF Bridge

LEMMA IrqMovesStream ==
  ASSUME TypeOK, Irq PROVE StreamStep
<1>1. CASE IrqWrite
  <2> DEFINE packet == Head(writes)
  <2>1. packet \in Packet
    BY <1>1, QueueTypes DEF IrqWrite
  <2>2. UNCHANGED outgoing /\ waiting' \in {waiting, NoPacket}
          /\ notifications' \in {notifications, Append(notifications, AckOf(packet))}
    BY <1>1 DEF IrqWrite, OnAck, OnResponseChunk, OnResponseEnd, Notify, NotifyRaises
  <2>3. QED BY <2>1, <2>2 DEF StreamStep
<1>2. CASE \E n \in 2..Len(writes) : IrqGluedWrites(n)
  BY <1>2 DEF StreamStep, IrqGluedWrites, picoVars
<1>3. CASE IrqDisconnect
  BY <1>3 DEF StreamStep, IrqDisconnect
<1>4. QED BY <1>1, <1>2, <1>3 DEF Irq

LEMMA IrqKeepsOrder ==
  ASSUME TypeOK, OrderInvariant, Irq PROVE OrderInvariant'
<1>1. /\ session_id' = session_id /\ (linked' => linked)
      /\ UNCHANGED <<asked, accepted, assembler>>
  BY DEF Irq, IrqWrite, IrqGluedWrites, IrqDisconnect, phoneVars, bridgeVars, picoVars
<1>2. RequestsAreNumbered'
  BY <1>1 DEF OrderInvariant, RequestsAreNumbered
<1>3. QED BY <1>1, <1>2, IrqMovesStream, OrderStays

LEMMA PhoneKeepsOrder ==
  ASSUME TypeOK, RequestInvariant, OrderInvariant, Phone PROVE OrderInvariant'
<1>1. /\ UNCHANGED <<session_id, asked, outgoing, waiting, picoVars, bridgeVars>>
      /\ RequestsAreNumbered'
  BY DEF Phone, picoVars, bridgeVars, OrderInvariant, RequestsAreNumbered
<1>2. CASE Connect \/ Discover \/ Subscribe \/ Disconnect \/ MissNotification
  <2>1. phone # "up" => assembler = EmptyAssembler
    BY DEF RequestInvariant, OneRequestIsCollected
  <2>2. /\ accepted' = accepted
        /\ \/ assembler' = EmptyAssembler
           \/ assembler' = assembler /\ (linked' => linked)
    BY <1>2, <2>1 DEF Connect, Discover, Subscribe, Disconnect, MissNotification, phoneVars,
       channelVars
  <2>3. StreamStep
    BY <1>1, <1>2 DEF StreamStep, Connect, Discover, Subscribe, Disconnect, MissNotification,
       channelVars
  <2>4. QED BY <1>1, <2>2, <2>3, OrderStays
<1>3. CASE ReceiveNotification
  <2> DEFINE packet == Head(notifications)
  <2>1. CASE OnRequestChunk(packet)
    BY <1>1, <1>3, <2>1, CollectKeepsOrder
  <2>2. CASE OnRequestEnd(packet) /\ CanFinish(assembler, packet.session_id)
    BY <1>1, <1>3, <2>2, AcceptKeepsOrder
  <2>3. CASE \/ OnPicoAck(packet) \/ OnUndecodable(packet)
             \/ OnRequestEnd(packet) /\ ~CanFinish(assembler, packet.session_id)
    <3>1. StreamStep /\ linked' = linked
      BY <1>1, <1>3 DEF StreamStep, ReceiveNotification
    <3>2. accepted' = accepted /\ assembler' = assembler
      BY <2>3 DEF OnPicoAck, OnUndecodable, OnRequestEnd, AssemblerFinish
    <3>3. QED BY <1>1, <3>1, <3>2, OrderStays
  <2>4. QED BY <1>3, <2>1, <2>2, <2>3 DEF ReceiveNotification
<1>4. CASE \/ \E h \in handlers : CallRelay(h)
           \/ \E h \in handlers, kind \in ReplyKinds : RelayReplies(h, kind)
           \/ \E kind \in UpdateKinds : SendAsyncUpdate(kind)
           \/ WriteFirst \/ WriteAgain \/ WriteGivesUp \/ WriteFails
  <2>1. UNCHANGED <<notifications, linked, assembler, accepted>>
    BY <1>4 DEF CallRelay, RelayReplies, SendAsyncUpdate, WriteFirst, WriteAgain,
       WriteGivesUp, WriteFails, channelVars
  <2>2. QED BY <1>1, <2>1, OrderStays DEF StreamStep
<1>5. QED BY <1>2, <1>3, <1>4 DEF Phone

LEMMA InitOrderInvariant == Init => OrderInvariant
<1> SUFFICES ASSUME Init PROVE OrderInvariant
  OBVIOUS
<1>1. /\ Requests = {} /\ UnderWay = {}
      /\ notifications = <<>> /\ outgoing = <<>> /\ PacketsOf(notifications) = {}
      /\ PacketsOf(outgoing) = {}
  BY PacketsOfQueue DEF Init, ChannelInit, PicoInit, Requests, UnderWay, NoPacket, Encode
<1>2. EndsComeLast
  BY <1>1, EndsPrecedeQueue DEF EndsComeLast, AllAhead
<1>3. accepted = <<>> /\ asked = <<>>
  BY DEF Init, PhoneInit
<1>4. QED
  BY <1>1, <1>2, <1>3 DEF OrderInvariant, RequestsAreNumbered, SessionsFollowIds,
     NothingComesTwice, LaterSessionsComeLater, RequestsArriveOnceInOrder

(***************************************************************************)
(* The theorem                                                             *)
(***************************************************************************)
LEMMA OrderInvariantHolds ==
  ASSUME MaxRequests <= SessionLimit
  PROVE  Spec => []OrderInvariant
<1>1. Init => OrderInvariant
  BY InitOrderInvariant
<1>2. TypeOK /\ RequestInvariant /\ OrderInvariant /\ [Next]_vars => OrderInvariant'
  <2> SUFFICES ASSUME TypeOK, RequestInvariant, OrderInvariant, [Next]_vars
               PROVE  OrderInvariant'
    OBVIOUS
  <2>1. CASE UNCHANGED vars
    <3>1. /\ StreamStep /\ UNCHANGED <<session_id, linked, asked, accepted, assembler>>
      BY <2>1 DEF StreamStep, vars, channelVars, picoVars, phoneVars, bridgeVars
    <3>2. RequestsAreNumbered'
      BY <3>1 DEF OrderInvariant, RequestsAreNumbered
    <3>3. QED BY <3>1, <3>2, OrderStays
  <2>2. QED BY <2>1, BridgeKeepsOrder, IrqKeepsOrder, PhoneKeepsOrder DEF Next
<1>3. Spec => []TypeOK /\ []RequestInvariant
  BY TypeCorrect, RequestInvariantHolds
<1>4. QED BY <1>1, <1>2, <1>3, PTL DEF Spec

(* The phone takes in every request at most once, and in the order in      *)
(* which the calculator made them, whatever is retransmitted, lost or cut  *)
(* off, as long as the session ids of one Pico suffice for the requests.   *)
THEOREM RequestsAreInOrder ==
  ASSUME MaxRequests <= SessionLimit
  PROVE  Spec => []RequestsArriveOnceInOrder
<1>1. OrderInvariant => RequestsArriveOnceInOrder
  BY DEF OrderInvariant
<1>2. QED BY <1>1, OrderInvariantHolds, PTL

(***************************************************************************)
(* Acknowledgements                                                        *)
(***************************************************************************)
(* An acknowledgement under way is of a session of this connection, and    *)
(* one as long as its message says that the message has been taken in.     *)
Acks == {p \in PacketsOf(writes) : p.type = "ACK"}

IsAccepted(session) == \E i \in DOMAIN accepted : accepted[i].session = session

AckInvariant ==
  /\ \A p \in Requests : p.type = "REQUEST_END" => p.sequence = p.total_length
  /\ \A p \in Acks :
       /\ p.session_id \in 1..session_id
       /\ p.sequence < p.total_length \/ IsAccepted(p.session_id)
  /\ \A p, q \in Requests \cup Acks :
       p.session_id = q.session_id => p.total_length = q.total_length

LEMMA AcksMove ==
  ASSUME TypeOK, AckInvariant, Requests' \subseteq Requests,
         \A session : IsAccepted(session) => IsAccepted(session)',
         \/ Acks' \subseteq Acks
         \/ \E p \in Requests :
              /\ Acks' \subseteq Acks \cup {AckOf(p)}
              /\ p.session_id \in 1..session_id
              /\ \/ p.sequence < p.total_length
                 \/ \E i \in DOMAIN accepted' : accepted'[i].session = p.session_id,
         session_id' = session_id \/ Acks' = {}
  PROVE  AckInvariant'
<1>1. CASE Acks' \subseteq Acks
  BY <1>1 DEF AckInvariant
<1>2. ASSUME NEW p \in Requests, Acks' \subseteq Acks \cup {AckOf(p)},
             p.session_id \in 1..session_id,
             \/ p.sequence < p.total_length
             \/ \E i \in DOMAIN accepted' : accepted'[i].session = p.session_id,
             session_id' = session_id
      PROVE  AckInvariant'
  <2> DEFINE ack == AckOf(p)
  <2>1. /\ ack.session_id = p.session_id /\ ack.sequence = p.sequence
        /\ ack.total_length = p.total_length
    BY DEF AckOf, Encode
  <2> HIDE DEF ack
  <2>2. \A q \in Acks' :
          /\ q.session_id \in 1..session_id'
          /\ q.sequence < q.total_length \/ IsAccepted(q.session_id)'
    BY <1>2, <2>1 DEF AckInvariant, IsAccepted, ack
  <2>3. ASSUME NEW a \in Requests' \cup Acks', NEW b \in Requests' \cup Acks',
               a.session_id = b.session_id
        PROVE  a.total_length = b.total_length
    <3>1. \A c \in Requests' \cup Acks' :
            \E d \in Requests \cup Acks :
              c.session_id = d.session_id /\ c.total_length = d.total_length
      BY <1>2, <2>1 DEF ack
    <3>2. QED BY <2>3, <3>1 DEF AckInvariant
  <2>4. QED BY <2>2, <2>3 DEF AckInvariant
<1>3. QED BY <1>1, <1>2

(* The phone's packets are no acknowledgements of requests.                *)
LEMMA ResponsesAreNoAcks ==
  ASSUME TypeOK, sendChain # <<>>
  PROVE  CurrentPacket \in Packet /\ CurrentPacket.type # "ACK"
<1>1. Head(sendChain) \in Outgoing
  BY DEF TypeOK, PhoneTypeOK
<1> DEFINE payload == Head(sendChain).payload
<1>2. payload.len = ReplyLen
  BY <1>1 DEF Outgoing
<1>3. position + 1 \in 1..(payload.len + 1)
  BY <1>2, QueueBounds DEF TypeOK, PhoneTypeOK
<1> HIDE DEF payload
<1>4. ResponsePackets(Head(sendChain).session, payload)[position + 1].type # "ACK"
  BY <1>3 DEF ResponsePackets, Packets, Encode
<1>5. QED BY <1>4, CurrentPacketType DEF CurrentPacket, payload

LEMMA SendKeepsAcks ==
  ASSUME MaxRequests <= SessionLimit, TypeOK, RequestInvariant, OrderInvariant, AckInvariant,
         NEW len \in RequestLens, SendRequest(len)
  PROVE  AckInvariant'
<1> DEFINE request == [kind |-> "request", id |-> Len(asked) + 1, len |-> len]
           packets == RequestPackets(session_id + 1, request)
<1>1. /\ asked \in Seq(Payload) /\ Len(asked) \in Nat /\ Len(asked) < MaxRequests
      /\ asked' = Append(asked, request)
      /\ UNCHANGED <<waiting, notifications, writes, accepted>>
  BY DEF SendRequest, NewRequest, Send, current, TypeOK, BridgeTypeOK, phoneVars, channelVars
<1>2. NextSession = session_id + 1 /\ session_id \in Nat /\ session_id + 1 \in Nat
  BY <1>1, ChannelAssumption, LinkAssumption
  DEF NextSession, RequestInvariant, TypeOK, PicoTypeOK
<1>3. request \in Payload /\ request.len = len /\ len \in Nat
  BY <1>1, LinkAssumption, MaxLenAssumption DEF Payload, PayloadKinds
<1>4. session_id' = session_id + 1 /\ outgoing' = outgoing \o packets
  <2>1. asked'[current + 1] = request
    BY <1>1 DEF current
  <2>2. QED BY <1>2, <2>1 DEF SendRequest, Send
<1> HIDE DEF request
<1>5. packets \in Seq(Packet)
  BY <1>2, <1>3, NewPackets
<1>6. \A p \in PacketsOf(packets) :
        /\ p.session_id = session_id + 1 /\ p.total_length = len
        /\ p.type = "REQUEST_END" => p.sequence = len
  <2>1. \A k \in DOMAIN packets :
          \/ packets[k] = Encode("REQUEST_CHUNK", session_id + 1, k - 1, len,
                                 [of |-> request, at |-> k - 1])
          \/ packets[k] = Encode("REQUEST_END", session_id + 1, len, len, NoChunk)
    BY <1>3 DEF RequestPackets, Packets
  <2> HIDE DEF packets
  <2>2. \A k \in DOMAIN packets :
          /\ packets[k].session_id = session_id + 1 /\ packets[k].total_length = len
          /\ packets[k].type = "REQUEST_END" => packets[k].sequence = len
    BY <2>1 DEF Encode
  <2>3. QED BY <2>2 DEF PacketsOf
<1> HIDE DEF packets
<1>7. /\ Requests' \subseteq Requests \cup PacketsOf(packets)
      /\ Acks' = Acks /\ \A session : IsAccepted(session)' <=> IsAccepted(session)
  <2>1. PacketsOf(outgoing') = PacketsOf(outgoing) \cup PacketsOf(packets)
    BY <1>4, <1>5, PacketsOfQueue, QueueTypes
  <2>2. QED BY <1>1, <2>1 DEF Requests, Acks, IsAccepted
<1>8. \A p \in Requests \cup Acks : p.session_id \in 1..session_id
  BY DEF OrderInvariant, SessionsFollowIds, AckInvariant
<1>9. \A p \in Requests' : p.type = "REQUEST_END" => p.sequence = p.total_length
  BY <1>6, <1>7 DEF AckInvariant
<1>10. \A p \in Acks' :
         /\ p.session_id \in 1..session_id'
         /\ p.sequence < p.total_length \/ IsAccepted(p.session_id)'
  <2>1. SUFFICES ASSUME NEW p \in Acks'
                 PROVE  /\ p.session_id \in 1..session_id'
                        /\ p.sequence < p.total_length \/ IsAccepted(p.session_id)'
    OBVIOUS
  <2>2. p \in Acks
    BY <1>7
  <2>3. p.session_id \in 1..session_id'
    BY <1>2, <1>4, <1>8, <2>2
  <2>4. p.sequence < p.total_length \/ IsAccepted(p.session_id)'
    BY <1>7, <2>2 DEF AckInvariant
  <2>5. QED BY <2>3, <2>4
<1>11. ASSUME NEW p \in Requests' \cup Acks', NEW q \in Requests' \cup Acks',
              p.session_id = q.session_id
       PROVE  p.total_length = q.total_length
  <2>1. \A a \in Requests' \cup Acks' :
          \/ a \in Requests \cup Acks /\ a.session_id # session_id + 1
          \/ a.session_id = session_id + 1 /\ a.total_length = len
    BY <1>2, <1>6, <1>7, <1>8
  <2>2. QED BY <1>11, <2>1 DEF AckInvariant
<1>12. QED BY <1>9, <1>10, <1>11 DEF AckInvariant

(* What the phone hands to the Pico, and what becomes of it there.         *)
LEMMA WritesMove ==
  /\ \A q \in Seq(Packet), p \in Packet :
       {a \in PacketsOf(Append(q, p)) : a.type = "ACK"}
         \subseteq {a \in PacketsOf(q) : a.type = "ACK"} \cup (IF p.type = "ACK" THEN {p} ELSE {})
  /\ \A q \in Seq(Packet) : \A n \in 2..Len(q) :
       PacketsOf(SubSeq(q, n + 1, Len(q))) \subseteq PacketsOf(q)
<1>1. ASSUME NEW q \in Seq(Packet), NEW p \in Packet
      PROVE  {a \in PacketsOf(Append(q, p)) : a.type = "ACK"}
               \subseteq {a \in PacketsOf(q) : a.type = "ACK"}
                            \cup (IF p.type = "ACK" THEN {p} ELSE {})
  BY PacketsOfQueue
<1>2. ASSUME NEW q \in Seq(Packet), NEW n \in 2..Len(q)
      PROVE  PacketsOf(SubSeq(q, n + 1, Len(q))) \subseteq PacketsOf(q)
  <2>1. \A i \in DOMAIN SubSeq(q, n + 1, Len(q)) :
          n + i \in DOMAIN q /\ SubSeq(q, n + 1, Len(q))[i] = q[n + i]
    BY SMTT(40)
  <2>2. QED BY <2>1 DEF PacketsOf
<1>3. QED BY <1>1, <1>2

LEMMA BridgeKeepsAcks ==
  ASSUME MaxRequests <= SessionLimit, TypeOK, RequestInvariant, OrderInvariant, AckInvariant,
         Bridge, \A len \in RequestLens : ~SendRequest(len)
  PROVE  AckInvariant'
<1>1. UNCHANGED accepted /\ (Acks' \subseteq Acks)
        /\ (session_id' = session_id \/ Acks' = {}) /\ StreamStep
  <2>1. CASE ReopenTransport \/ PowerCycle
    <3>1. notifications' = <<>> /\ waiting' = NoPacket /\ outgoing' = <<>>
          /\ writes' = <<>> /\ UNCHANGED accepted
      BY <2>1 DEF ReopenTransport, PowerCycle, Reopen, FreshTransport, phoneVars
    <3>2. QED BY <3>1, PacketsOfQueue DEF StreamStep, Acks
  <2>2. CASE \E len \in RequestLens : RefuseRequest(len)
    BY <2>2 DEF RefuseRequest, NewRequest, channelVars, picoVars, phoneVars, StreamStep, Acks
  <2>3. CASE Pump \/ NotifyWaiting \/ AckTimeout
    BY <2>3 DEF StreamStep, Acks, Pump, NotifyWaiting, AckTimeout, PumpRetry, PumpNext,
       PumpIdle, PumpNotify, PumpGivesUp, Notify, picoVars, channelVars, phoneVars
  <2>4. CASE \/ TransportReady \/ NotifyFails \/ ResponseTimeout
             \/ NothingCompleted \/ TakeCatalog \/ TakeAnswer
    BY <2>4 DEF TransportReady, NotifyFails, PumpNotifyRaises, NotifyRaises, ResponseTimeout,
       NothingCompleted, TakeCatalog, TakeAnswer, PopCompleted, channelVars, picoVars, phoneVars, StreamStep, Acks
  <2>5. QED BY <2>1, <2>2, <2>3, <2>4 DEF Bridge
<1>2. Requests' \subseteq Requests
  BY <1>1, StreamMoves DEF OrderInvariant
<1>3. QED BY <1>1, <1>2, AcksMove DEF IsAccepted

LEMMA IrqKeepsAcks ==
  ASSUME TypeOK, OrderInvariant, AckInvariant, Irq PROVE AckInvariant'
<1>1. UNCHANGED <<accepted, session_id>> /\ Acks' \subseteq Acks
  <2>1. UNCHANGED <<accepted, session_id>>
    BY DEF Irq, IrqWrite, IrqGluedWrites, IrqDisconnect, phoneVars, picoVars
  <2>2. PacketsOf(writes') \subseteq PacketsOf(writes)
    BY PacketsOfQueue, WritesMove, QueueTypes DEF Irq, IrqWrite, IrqGluedWrites, IrqDisconnect
  <2>3. QED BY <2>1, <2>2 DEF Acks
<1>2. Requests' \subseteq Requests
  BY IrqMovesStream, StreamMoves DEF OrderInvariant
<1>3. QED BY <1>1, <1>2, AcksMove DEF IsAccepted

LEMMA PhoneKeepsAcks ==
  ASSUME TypeOK, OrderInvariant, AckInvariant, Phone PROVE AckInvariant'
<1>1. /\ UNCHANGED <<session_id, outgoing, waiting>>
      /\ writes \in Seq(Packet)
  BY QueueTypes DEF Phone, picoVars
<1>2. CASE \/ Connect \/ Discover \/ Subscribe \/ Disconnect \/ MissNotification
           \/ \E h \in handlers : CallRelay(h)
           \/ \E h \in handlers, kind \in ReplyKinds : RelayReplies(h, kind)
           \/ \E kind \in UpdateKinds : SendAsyncUpdate(kind)
           \/ WriteGivesUp \/ WriteFails
  <2>1. UNCHANGED <<accepted, writes>> /\ StreamStep
    BY <1>1, <1>2 DEF StreamStep, Connect, Discover, Subscribe, Disconnect, MissNotification,
       CallRelay, RelayReplies, SendAsyncUpdate, WriteGivesUp, WriteFails, phoneVars, channelVars
  <2>2. Requests' \subseteq Requests
    BY <2>1, StreamMoves DEF OrderInvariant
  <2>3. QED BY <1>1, <2>1, <2>2, AcksMove DEF IsAccepted, Acks
<1>3. CASE WriteFirst \/ WriteAgain
  <2>1. UNCHANGED accepted /\ StreamStep /\ writes' = Append(writes, CurrentPacket)
          /\ sendChain # <<>>
    BY <1>1, <1>3 DEF StreamStep, WriteFirst, WriteAgain, Write
  <2>2. Requests' \subseteq Requests
    BY <2>1, StreamMoves DEF OrderInvariant
  <2>3. Acks' \subseteq Acks
    BY <1>1, <2>1, ResponsesAreNoAcks, WritesMove DEF Acks
  <2>4. QED BY <1>1, <2>1, <2>2, <2>3, AcksMove DEF IsAccepted
<1>4. CASE ReceiveNotification
  <2> DEFINE packet == Head(notifications)
  <2>1. StreamStep /\ packet \in PacketsOf(notifications) /\ packet \in Packet
    BY <1>1, <1>4, PacketsOfQueue, QueueTypes DEF StreamStep, ReceiveNotification
  <2>2. Requests' \subseteq Requests
    BY <2>1, StreamMoves DEF OrderInvariant
  <2>3. packet.type \in {"REQUEST_CHUNK", "REQUEST_END"} =>
          packet \in Requests /\ packet.session_id \in 1..session_id
    BY <2>1 DEF Requests, OrderInvariant, SessionsFollowIds
  <2>4. writes' = Append(writes, AckOf(packet)) => Acks' \subseteq Acks \cup {AckOf(packet)}
    BY <1>1, <2>1, AckOfType, PacketsOfQueue DEF Acks
  <2>5. CASE OnRequestChunk(packet)
    <3>1. packet \in Requests /\ packet.session_id \in 1..session_id
            /\ packet.sequence < packet.total_length
      BY <2>1, <2>3, <2>5 DEF OnRequestChunk, Packet
    <3>2. accepted' = accepted /\ Acks' \subseteq Acks \cup {AckOf(packet)}
      BY <2>4, <2>5 DEF OnRequestChunk, Write
    <3>3. QED BY <1>1, <2>2, <3>1, <3>2, AcksMove DEF IsAccepted
  <2>6. CASE OnRequestEnd(packet) /\ CanFinish(assembler, packet.session_id)
    <3>1. packet \in Requests /\ packet.session_id \in 1..session_id
      BY <2>3, <2>6 DEF OnRequestEnd
    <3>2. Acks' \subseteq Acks \cup {AckOf(packet)}
      BY <2>4, <2>6 DEF OnRequestEnd, Write
    <3> DEFINE entry == [session |-> packet.session_id, message |-> Assembled(assembler)]
               Entry == [session : Nat, message : MessageType]
    <3>3. accepted \in Seq(Entry) /\ accepted' = Append(accepted, entry)
            /\ entry.session = packet.session_id
      BY <2>6 DEF OnRequestEnd, TypeOK, PhoneTypeOK
    <3> HIDE DEF entry, Entry
    <3>4. /\ \A i \in DOMAIN accepted : i \in DOMAIN accepted' /\ accepted'[i] = accepted[i]
          /\ Len(accepted) + 1 \in DOMAIN accepted' /\ accepted'[Len(accepted) + 1] = entry
      BY <3>3
    <3>5. /\ \A session : IsAccepted(session) => IsAccepted(session)'
          /\ \E i \in DOMAIN accepted' : accepted'[i].session = packet.session_id
      BY <3>3, <3>4 DEF IsAccepted
    <3>6. QED BY <1>1, <2>2, <3>1, <3>2, <3>5, AcksMove
  <2>7. CASE \/ OnPicoAck(packet) \/ OnUndecodable(packet)
             \/ OnRequestEnd(packet) /\ ~CanFinish(assembler, packet.session_id)
    <3>1. UNCHANGED <<accepted, writes>>
      BY <2>7 DEF OnPicoAck, OnUndecodable, OnRequestEnd
    <3>2. QED BY <1>1, <2>2, <3>1, AcksMove DEF IsAccepted, Acks
  <2>8. QED BY <1>4, <2>5, <2>6, <2>7 DEF ReceiveNotification
<1>5. QED BY <1>2, <1>3, <1>4 DEF Phone

LEMMA AckStep ==
  ASSUME TypeOK, AckInvariant, AckReachesPico, waiting.type = "REQUEST_END"
  PROVE  IsAccepted(waiting.session_id)
<1> DEFINE ack == Head(writes)
<1>1. ack \in Acks /\ ack \in Packet
  BY PacketsOfQueue, QueueTypes DEF AckReachesPico, IrqWrite, Acks
<1>2. ack.session_id = waiting.session_id /\ ack.sequence = waiting.sequence
  BY DEF AckReachesPico, IrqWrite, OnAck, OnResponseChunk, OnResponseEnd, SameKey
<1> HIDE DEF ack
<1>3. waiting \in Requests
  BY DEF Requests
<1>4. ack.sequence = ack.total_length
  BY <1>1, <1>2, <1>3 DEF AckInvariant
<1>5. ~(ack.sequence < ack.total_length)
  BY <1>1, <1>4, MaxLenAssumption DEF Packet, Envelope
<1>6. QED BY <1>1, <1>2, <1>5 DEF AckInvariant

(* Once the Pico has consumed the acknowledgement of the end of a request, *)
(* the phone has taken that request in: no acknowledgement of a chunk, of  *)
(* another request or of an earlier connection passes for it.              *)
THEOREM AcknowledgedRequestsAreAccepted ==
  ASSUME MaxRequests <= SessionLimit
  PROVE  Spec => AcknowledgedRequestIsAccepted
<1>1. Init => AckInvariant
  BY PacketsOfQueue DEF Init, ChannelInit, PicoInit, Requests, Acks, NoPacket, Encode,
     AckInvariant
<1>2. TypeOK /\ RequestInvariant /\ OrderInvariant /\ AckInvariant /\ [Next]_vars
        => AckInvariant'
  <2> SUFFICES ASSUME TypeOK, RequestInvariant, OrderInvariant, AckInvariant, [Next]_vars
               PROVE  AckInvariant'
    OBVIOUS
  <2>1. CASE UNCHANGED vars
    BY <2>1 DEF vars, channelVars, picoVars, phoneVars, bridgeVars, AckInvariant, Requests,
       Acks, IsAccepted
  <2>2. QED BY <2>1, BridgeKeepsAcks, SendKeepsAcks, IrqKeepsAcks, PhoneKeepsAcks DEF Next
<1>3. TypeOK /\ AckInvariant /\ [Next]_vars
        => [(AckReachesPico /\ waiting.type = "REQUEST_END")
              => \E i \in DOMAIN accepted : accepted[i].session = waiting.session_id]_vars
  BY AckStep DEF IsAccepted
<1>4. Spec => []TypeOK /\ []RequestInvariant /\ []OrderInvariant
  BY TypeCorrect, RequestInvariantHolds, OrderInvariantHolds
<1>5. QED BY <1>1, <1>2, <1>3, <1>4, PTL DEF Spec, AcknowledgedRequestIsAccepted
=============================================================================
