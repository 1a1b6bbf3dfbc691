---------------------------- MODULE BleProtocol ----------------------------
(***************************************************************************)
(* The GPTi84 BLE envelope and the reassembly of chunked messages, written *)
(* twice in the repository with the same behaviour: in MicroPython         *)
(* (src/src/ble_protocol.py) and in Dart (relay/data/ble_protocol.dart).   *)
(*                                                                         *)
(* A payload is abstract: what it is about (kind, id) and how many chunks  *)
(* it takes (len).  Lengths and offsets are counted in chunks, so the      *)
(* chunk_offset of an envelope, which is always its sequence number times  *)
(* the chunk length, is its sequence number.  The CRC is not modelled: the *)
(* radio link below GATT discards damaged frames, and the one corruption   *)
(* the firmware meets, two writes read as one, is an action of the channel.*)
(***************************************************************************)
EXTENDS Integers, Sequences

CONSTANT MaxLen      \* longest message in chunks: lengths are u16 on the wire

ASSUME MaxLenAssumption == MaxLen \in Nat

NoSession == 0              \* session_id = None in an empty assembler

ReplyFrames  == {"reply", "catalogReply"}      \* what relay.reply returns
UpdateFrames == {"update", "catalogUpdate"}    \* what relay.updates emits
PayloadKinds == {"request", "none"} \cup ReplyFrames \cup UpdateFrames
Payload      == [kind : PayloadKinds, id : Nat, len : 0..MaxLen]
NoPayload    == [kind |-> "none", id |-> 0, len |-> 0]

Chunk   == [of : Payload, at : 0..MaxLen]
NoChunk == [of |-> NoPayload, at |-> 0]

PacketTypes == {"REQUEST_CHUNK", "REQUEST_END", "RESPONSE_CHUNK",
                "RESPONSE_END", "ACK", "NONE"}

Envelope == [type : PacketTypes, session_id : Nat, sequence : 0..MaxLen,
             total_length : 0..MaxLen, chunk : Chunk]

Packet == {p \in Envelope : p.type \in {"REQUEST_CHUNK", "RESPONSE_CHUNK"}
                               => p.sequence < p.total_length}

Encode(type, session, sequence, total, chunk) ==
  [type |-> type, session_id |-> session, sequence |-> sequence,
   total_length |-> total, chunk |-> chunk]

(* No packet at all: `waiting = None`, and the empty value a notification  *)
(* of None carries, which no decoder accepts.                              *)
NoPacket == Encode("NONE", 0, 0, 0, NoChunk)

(* The acknowledgement of an envelope repeats its session and sequence.    *)
AckOf(packet) ==
  Encode("ACK", packet.session_id, packet.sequence, packet.total_length, NoChunk)

(* Mutant: the key is the session alone.                                   *)
SameSession(a, b) == a.session_id = b.session_id

SameKey(a, b) == a.session_id = b.session_id /\ a.sequence = b.sequence

(* A payload's chunks in order, then the envelope that ends the message.   *)
Packets(chunkType, endType, session, payload) ==
  [i \in 1..(payload.len + 1) |->
     IF i <= payload.len
     THEN Encode(chunkType, session, i - 1, payload.len,
                 [of |-> payload, at |-> i - 1])
     ELSE Encode(endType, session, payload.len, payload.len, NoChunk)]

RequestPackets(session, payload) ==
  Packets("REQUEST_CHUNK", "REQUEST_END", session, payload)

ResponsePackets(session, payload) ==
  Packets("RESPONSE_CHUNK", "RESPONSE_END", session, payload)

(* A message is its chunks in order; the bytes of a whole payload are its  *)
(* own chunks, each at its offset.                                         *)
MessageType == Seq(Chunk) \ {<<>>}

Message(payload) == [i \in 1..payload.len |-> [of |-> payload, at |-> i - 1]]

(***************************************************************************)
(* MessageAssembler / BleMessageAssembler                                  *)
(***************************************************************************)
(* The chunk found at each offset; NoChunk where there is none.            *)
Assembler ==
  {a \in [session_id : Nat, total_length : 0..MaxLen, chunks : [0..MaxLen -> Chunk]] :
     a.session_id # NoSession => a.total_length > 0}

NoChunks == [offset \in 0..MaxLen |-> NoChunk]

EmptyAssembler ==
  [session_id |-> NoSession, total_length |-> 0, chunks |-> NoChunks]

(* A packet of another session discards what was collected; a chunk that   *)
(* is already there keeps its first value.                                 *)
AssemblerAdd(assembler, packet) ==
  LET kept == IF assembler.session_id \in {NoSession, packet.session_id}
              THEN assembler.chunks ELSE NoChunks
  IN [session_id   |-> packet.session_id,
      total_length |-> packet.total_length,
      chunks       |-> IF kept[packet.sequence] = NoChunk
                       THEN [kept EXCEPT ![packet.sequence] = packet.chunk]
                       ELSE kept]

(* Mutant: gaps are not looked for.                                        *)
FinishWithGaps(assembler, session) ==
  assembler.session_id = session /\ assembler.session_id # NoSession

(* finish() returns a message only for the session being collected and     *)
(* only when no offset below the total is missing.                         *)
CanFinish(assembler, session) ==
  /\ assembler.session_id = session
  /\ assembler.session_id # NoSession
  /\ \A offset \in 0..(assembler.total_length - 1) :
        assembler.chunks[offset] # NoChunk

Assembled(assembler) ==
  [i \in 1..assembler.total_length |-> assembler.chunks[i - 1]]

(* Mutant: the message is not forgotten.                                   *)
FinishKeepingChunks(assembler, session) == assembler

(* ... and then forgets it; a finish() that fails changes nothing.         *)
AssemblerFinish(assembler, session) ==
  IF CanFinish(assembler, session) THEN EmptyAssembler ELSE assembler
=============================================================================
