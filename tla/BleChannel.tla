----------------------------- MODULE BleChannel -----------------------------
(***************************************************************************)
(* The GATT connection between the Pico (peripheral) and the phone         *)
(* (central): notifications of the Pico-to-phone characteristic and writes *)
(* to the phone-to-Pico characteristic.  Both directions keep their order. *)
(*                                                                         *)
(* What the connection can lose, and all it can lose:                      *)
(*   - everything under way when the link goes down;                       *)
(*   - notifications that reach a phone that has not subscribed yet;       *)
(*   - writes that arrive before the firmware's interrupt handler has read *)
(*     the previous one: gatts_set_buffer(.., append=True) makes gatts_read*)
(*     return them glued together, which decode() rejects as one packet;   *)
(*   - notifications the Bluetooth stack does not take: gatts_notify raises*)
(*     OSError.                                                            *)
(***************************************************************************)
EXTENDS BleProtocol

CONSTANTS
  SessionLimit,       \* largest session id, 0xFFFF in both programs
  PhoneSessionBase,   \* first session of the phone's own messages, 0x8000
  AckRetries,         \* retransmissions the Pico makes before it gives up, 2
  WriteAttempts,      \* writes the phone makes before it gives up, 3
  MaxDrops,           \* bound: how often the link goes down
  MaxMishaps,         \* bound: how often a GATT call of the firmware goes
                      \* wrong: writes read glued together, a notify that raises
  MaxTimers           \* bound: how often a 2 s acknowledgement timer expires

ASSUME ChannelAssumption ==
  /\ SessionLimit \in Nat /\ PhoneSessionBase \in 1..SessionLimit
  /\ AckRetries \in Nat /\ WriteAttempts \in Nat \ {0}
  /\ MaxDrops \in Nat /\ MaxMishaps \in Nat /\ MaxTimers \in Nat

VARIABLES
  linked,          \* the Pico sees a central connected
  notifications,   \* Pico -> phone, in order
  writes,          \* phone -> Pico, in order, not read by the firmware yet
  drops, mishaps, timers   \* what has been used of the three bounds

channelVars == <<linked, notifications, writes, drops, mishaps, timers>>

ChannelTypeOK ==
  /\ linked \in BOOLEAN
  /\ notifications \in Seq(Packet)
  /\ writes \in Seq(Packet)
  /\ drops \in 0..MaxDrops
  /\ mishaps \in 0..MaxMishaps
  /\ timers \in 0..MaxTimers

ChannelInit ==
  /\ linked = FALSE
  /\ notifications = <<>>
  /\ writes = <<>>
  /\ drops = 0 /\ mishaps = 0 /\ timers = 0

Notify(packet) == notifications' = Append(notifications, packet)
NotifyRaises ==
  mishaps < MaxMishaps /\ mishaps' = mishaps + 1 /\ UNCHANGED notifications
Write(packet)  == writes' = Append(writes, packet)

(* Both ends measure 2 s from the last transmission.  The radio, the       *)
(* phone's event loop and the firmware's may each be slow, so the timer of *)
(* an unacknowledged packet may expire whatever is under way.              *)
TimerExpires == timers < MaxTimers /\ timers' = timers + 1
=============================================================================
