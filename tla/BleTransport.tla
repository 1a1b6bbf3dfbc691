---------------------------- MODULE BleTransport ----------------------------
(***************************************************************************)
(* The Pico's end of the BLE link: class BLETransport of                   *)
(* src/src/ble_transport.py.  send() and poll() run in the bridge's main   *)
(* loop; the interrupt handler _irq runs between any two bytecodes of it,  *)
(* so poll() is split where the handler can change what it has read:       *)
(*                                                                         *)
(*     _pump decides on a packet  |  _pump notifies self.waiting  |  pop   *)
(*                                                                         *)
(* The phone never writes ERROR, CANCEL or PING packets, and HELLO changes *)
(* no state, so those branches of _on_envelope have no action.             *)
(***************************************************************************)
EXTENDS BleChannel

VARIABLES
  session_id,        \* session of the last request sent
  outgoing,          \* packets not sent yet
  waiting,           \* the packet sent and not acknowledged, or NoPacket
  waiting_retries,   \* retransmissions of it
  incoming,          \* MessageAssembler of the phone's messages
  completed,         \* whole messages not polled yet
  received,          \* history: every message that was ever completed
  lost               \* history: messages put together whole and dropped

picoVars == <<session_id, outgoing, waiting, waiting_retries, incoming,
              completed, received, lost>>

PicoTypeOK ==
  /\ session_id \in 0..SessionLimit
  /\ outgoing \in Seq(Packet)
  /\ waiting \in Packet
  /\ waiting_retries \in 0..AckRetries
  /\ incoming \in Assembler
  /\ completed \in Seq(MessageType)
  /\ received \in Seq(MessageType)
  /\ lost \subseteq MessageType

FreshTransport ==
  /\ session_id' = 0
  /\ outgoing' = <<>>
  /\ waiting' = NoPacket
  /\ waiting_retries' = 0
  /\ incoming' = EmptyAssembler
  /\ completed' = <<>>

PicoInit ==
  /\ session_id = 0
  /\ outgoing = <<>>
  /\ waiting = NoPacket
  /\ waiting_retries = 0
  /\ incoming = EmptyAssembler
  /\ completed = <<>>
  /\ received = <<>> /\ lost = {}

(* (session_id + 1) & 0xFFFF, skipping 0.                                  *)
NextSession == IF session_id = SessionLimit THEN 1 ELSE session_id + 1

(* send(payload) on a connected transport.                                 *)
Send(payload) ==
  /\ session_id' = NextSession
  /\ outgoing' = outgoing \o RequestPackets(NextSession, payload)
  /\ UNCHANGED <<waiting, waiting_retries, incoming, completed, received, lost,
                 channelVars>>

(***************************************************************************)
(* _pump, up to the call that notifies                                     *)
(***************************************************************************)
(* Mutant: nothing limits the retransmissions.                             *)
PumpRetryForever ==
  /\ linked /\ waiting # NoPacket
  /\ TimerExpires
  /\ waiting_retries' = waiting_retries + 1
  /\ UNCHANGED <<session_id, outgoing, waiting, incoming, completed, received, lost,
                 linked, notifications, writes, drops, mishaps>>

PumpRetry ==
  /\ linked /\ waiting # NoPacket
  /\ waiting_retries < AckRetries
  /\ TimerExpires
  /\ waiting_retries' = waiting_retries + 1
  /\ UNCHANGED <<session_id, outgoing, waiting, incoming, completed, received, lost,
                 linked, notifications, writes, drops, mishaps>>

(* The packet is abandoned and OSError("BLE ACK timeout") raised; the rest *)
(* of its message stays in outgoing.                                       *)
PumpGivesUp ==
  /\ linked /\ waiting # NoPacket
  /\ waiting_retries >= AckRetries
  /\ TimerExpires
  /\ waiting' = NoPacket
  /\ UNCHANGED <<session_id, outgoing, waiting_retries, incoming, completed,
                 received, lost, linked, notifications, writes, drops, mishaps>>

PumpNext ==
  /\ linked /\ waiting = NoPacket /\ outgoing # <<>>
  /\ waiting' = Head(outgoing)
  /\ outgoing' = Tail(outgoing)
  /\ waiting_retries' = 0
  /\ UNCHANGED <<session_id, incoming, completed, received, lost, channelVars>>

PumpIdle ==
  /\ \/ ~linked
     \/ waiting # NoPacket            \* less than 2 s since it was sent
     \/ outgoing = <<>>
  /\ UNCHANGED <<picoVars, channelVars>>

(* _notify_packet(self.waiting): whatever waiting is by now, to whoever is *)
(* connected by now.                                                       *)
PumpNotify ==
  /\ IF linked THEN Notify(waiting) ELSE UNCHANGED notifications
  /\ UNCHANGED <<picoVars, linked, writes, drops, mishaps, timers>>

(* The same, but gatts_notify raises; waiting stays as it is.              *)
PumpNotifyRaises ==
  /\ NotifyRaises
  /\ UNCHANGED <<picoVars, linked, writes, drops, timers>>

(***************************************************************************)
(* _irq                                                                    *)
(***************************************************************************)
OnAck(packet) ==
  /\ packet.type = "ACK"
  /\ waiting' = IF SameKey(waiting, packet) THEN NoPacket ELSE waiting
  /\ UNCHANGED <<incoming, completed, received, lost, notifications, mishaps>>

(* The chunk is stored before its acknowledgement is notified, which may   *)
(* raise: the handler prints that.                                         *)
OnResponseChunk(packet) ==
  /\ packet.type = "RESPONSE_CHUNK"
  /\ incoming' = AssemblerAdd(incoming, packet)
  /\ \/ Notify(AckOf(packet)) /\ UNCHANGED mishaps
     \/ NotifyRaises
  /\ UNCHANGED <<waiting, completed, received, lost>>

Complete(message) ==
  /\ completed' = Append(completed, message)
  /\ received' = Append(received, message)
  /\ UNCHANGED lost

(* finish() forgets what it returns, then the acknowledgement is notified, *)
(* and only then the message is appended.                                  *)
OnResponseEnd(packet) ==
  /\ packet.type = "RESPONSE_END"
  /\ incoming' = AssemblerFinish(incoming, packet.session_id)
  /\ \/ /\ Notify(AckOf(packet)) /\ UNCHANGED mishaps
        /\ IF CanFinish(incoming, packet.session_id) THEN Complete(Assembled(incoming))
           ELSE UNCHANGED <<completed, received, lost>>
     \/ /\ NotifyRaises /\ UNCHANGED <<completed, received>>
        /\ lost' = IF CanFinish(incoming, packet.session_id)
                   THEN lost \cup {Assembled(incoming)} ELSE lost
  /\ UNCHANGED waiting

IrqWrite ==
  /\ linked /\ writes # <<>>
  /\ writes' = Tail(writes)
  /\ \/ OnAck(Head(writes))
     \/ OnResponseChunk(Head(writes))
     \/ OnResponseEnd(Head(writes))
  /\ UNCHANGED <<session_id, outgoing, waiting_retries, linked, drops, timers>>

(* gatts_read returns the first n writes as one value, decode raises, and  *)
(* all of them are gone.                                                   *)
IrqGluedWrites(n) ==
  /\ linked /\ mishaps < MaxMishaps
  /\ n \in 2..Len(writes)
  /\ writes' = SubSeq(writes, n + 1, Len(writes))
  /\ mishaps' = mishaps + 1
  /\ UNCHANGED <<picoVars, linked, notifications, drops, timers>>

IrqDisconnect ==
  /\ linked /\ drops < MaxDrops
  /\ linked' = FALSE
  /\ waiting' = NoPacket
  /\ notifications' = <<>> /\ writes' = <<>>
  /\ drops' = drops + 1
  /\ UNCHANGED <<session_id, outgoing, waiting_retries, incoming, completed,
                 received, lost, mishaps, timers>>

(* poll() hands over the oldest completed message.                         *)
PopCompleted ==
  /\ completed # <<>>
  /\ completed' = Tail(completed)
  /\ UNCHANGED <<session_id, outgoing, waiting, waiting_retries, incoming,
                 received, lost, channelVars>>

(* close() and the construction of the next BLETransport: the controller   *)
(* goes inactive, which ends any connection.                               *)
Reopen ==
  /\ FreshTransport
  /\ linked' = FALSE
  /\ notifications' = <<>> /\ writes' = <<>>
  /\ UNCHANGED <<received, lost, drops, mishaps, timers>>
=============================================================================
