--------------------------- MODULE BleRelayService ---------------------------
(***************************************************************************)
(* The phone's end of the BLE link: class BleRelayService of               *)
(* relay/data/ble_relay_service.dart.  Dart runs one callback at a time,   *)
(* so an action is the code between two awaits.  Every notification starts *)
(* an _onPicoEnvelope of its own, and those calls overlap at their awaits: *)
(* `handlers` holds the ones that have taken in a whole request.           *)
(*                                                                         *)
(* relay.reply is modelled by what this class sees of it: it shares the    *)
(* future of a call in flight under the same key, always completes with a  *)
(* frame, and its updates stream emits further frames of its own accord.   *)
(***************************************************************************)
EXTENDS BleChannel, FiniteSets

CONSTANTS
  ReplyLen,      \* chunks of a reply or update
  MaxUpdates     \* bound: how many frames the updates stream emits

ASSUME ServiceAssumption == ReplyLen \in 1..MaxLen /\ MaxUpdates \in Nat

VARIABLES
  phone,             \* how far connect() has come
  assembler,         \* _requestAssembler
  handlers,          \* calls of _onPicoEnvelope past a complete REQUEST_END
  sendChain,         \* _sendChain: messages waiting their turn, head first
  position,          \* packets of the head message that are acknowledged
  attempt,           \* writes of the current packet of the head message
  nextPhoneSession,  \* _nextPhoneSession
  accepted,          \* history: every request taken in, with its session
  queued,            \* history: every payload put on the chain
  updates            \* how much of MaxUpdates is used

phoneVars == <<phone, assembler, handlers, sendChain, position, attempt,
               nextPhoneSession, accepted, queued, updates>>

(* "discovered": the characteristics are known, notifications not enabled. *)
PhoneStates == {"down", "connecting", "discovered", "up"}

Handler == [id : Nat, session : Nat, request : MessageType,
            state : {"acking", "replying"}]
Outgoing == [session : Nat,
             payload : [kind : PayloadKinds, id : Nat, len : {ReplyLen}]]

PhoneTypeOK ==
  /\ phone \in PhoneStates
  /\ assembler \in Assembler
  /\ handlers \in SUBSET Handler /\ IsFiniteSet(handlers)
  /\ sendChain \in Seq(Outgoing)
  /\ position \in 0..ReplyLen
  /\ attempt \in 0..WriteAttempts
  /\ attempt > 0 \/ position > 0 => sendChain # <<>>
  /\ nextPhoneSession \in PhoneSessionBase..SessionLimit
  /\ accepted \in Seq([session : Nat, message : MessageType])
  /\ queued \in Seq(Payload)
  /\ updates \in 0..MaxUpdates

PhoneInit ==
  /\ phone = "down"
  /\ assembler = EmptyAssembler
  /\ handlers = {}
  /\ sendChain = <<>>
  /\ position = 0 /\ attempt = 0
  /\ nextPhoneSession = PhoneSessionBase
  /\ accepted = <<>> /\ queued = <<>>
  /\ updates = 0

CanWrite == phone \in {"discovered", "up"}      \* _phoneToPico != null

(* The packet _sendResponse is writing.                                    *)
CurrentPacket ==
  ResponsePackets(Head(sendChain).session, Head(sendChain).payload)[position + 1]

(* The head message is done with, acknowledged or failed; catchError keeps *)
(* the chain going either way.                                             *)
NextInChain ==
  /\ sendChain' = Tail(sendChain)
  /\ position' = 0
  /\ attempt' = 0

(***************************************************************************)
(* connect() and disconnect()                                              *)
(***************************************************************************)
(* connect(): disconnect() has been awaited; device.connect() succeeds and *)
(* the Pico's interrupt handler sees the central.                          *)
Connect ==
  /\ phone = "down" /\ ~linked
  /\ phone' = "connecting"
  /\ linked' = TRUE
  /\ UNCHANGED <<assembler, handlers, sendChain, position, attempt,
                 nextPhoneSession, accepted, queued, updates,
                 notifications, writes, drops, mishaps, timers>>

Discover ==
  /\ phone = "connecting" /\ linked
  /\ phone' = "discovered"
  /\ UNCHANGED <<assembler, handlers, sendChain, position, attempt,
                 nextPhoneSession, accepted, queued, updates, channelVars>>

Subscribe ==
  /\ phone = "discovered" /\ linked
  /\ phone' = "up"
  /\ UNCHANGED <<assembler, handlers, sendChain, position, attempt,
                 nextPhoneSession, accepted, queued, updates, channelVars>>

(* disconnect(), called when the platform reports the link down, when      *)
(* connect() fails, and by the user: the messages of the chain fail one    *)
(* after another, and a handler still writing its acknowledgement throws.  *)
(* Handlers that await relay.reply live on.                                *)
Disconnect ==
  /\ phone # "down"
  /\ ~linked \/ drops < MaxDrops
  /\ phone' = "down"
  /\ assembler' = EmptyAssembler
  /\ handlers' = {h \in handlers : h.state = "replying"}
  /\ sendChain' = <<>> /\ position' = 0 /\ attempt' = 0
  /\ UNCHANGED <<nextPhoneSession, accepted, queued, updates, channelVars>>

(***************************************************************************)
(* _onPicoEnvelope                                                         *)
(***************************************************************************)
OnPicoAck(packet) ==
  /\ packet.type = "ACK"
  /\ IF attempt > 0 /\ SameKey(packet, CurrentPacket)
     THEN IF position = Head(sendChain).payload.len
          THEN NextInChain
          ELSE position' = position + 1 /\ attempt' = 0 /\ UNCHANGED sendChain
     ELSE UNCHANGED <<sendChain, position, attempt>>
  /\ UNCHANGED <<assembler, handlers, accepted, writes>>

OnRequestChunk(packet) ==
  /\ packet.type = "REQUEST_CHUNK"
  /\ assembler' = AssemblerAdd(assembler, packet)
  /\ Write(AckOf(packet))
  /\ UNCHANGED <<handlers, sendChain, position, attempt, accepted>>

(* A REQUEST_END that completes nothing throws before _writeAck.           *)
OnRequestEnd(packet) ==
  /\ packet.type = "REQUEST_END"
  /\ assembler' = AssemblerFinish(assembler, packet.session_id)
  /\ IF CanFinish(assembler, packet.session_id)
     THEN LET request == Assembled(assembler) IN
          /\ accepted' = Append(accepted, [session |-> packet.session_id,
                                           message |-> request])
          /\ handlers' = handlers \cup
                           {[id |-> Len(accepted) + 1,
                             session |-> packet.session_id,
                             request |-> request, state |-> "acking"]}
          /\ Write(AckOf(packet))
     ELSE UNCHANGED <<accepted, handlers, writes>>
  /\ UNCHANGED <<sendChain, position, attempt>>

OnUndecodable(packet) ==
  /\ packet.type = "NONE"
  /\ UNCHANGED <<assembler, handlers, sendChain, position, attempt, accepted,
                 writes>>

ReceiveNotification ==
  /\ phone = "up" /\ linked /\ notifications # <<>>
  /\ notifications' = Tail(notifications)
  /\ \/ OnPicoAck(Head(notifications))
     \/ OnRequestChunk(Head(notifications))
     \/ OnRequestEnd(Head(notifications))
     \/ OnUndecodable(Head(notifications))
  /\ UNCHANGED <<phone, nextPhoneSession, queued, updates, linked, drops, mishaps,
                 timers>>

(* Nobody has subscribed: the notification is dropped by the platform.     *)
MissNotification ==
  /\ phone # "up" /\ linked /\ notifications # <<>>
  /\ notifications' = Tail(notifications)
  /\ UNCHANGED <<phoneVars, linked, writes, drops, mishaps, timers>>

(***************************************************************************)
(* The rest of a handler: relay.reply, then _queueResponse                 *)
(***************************************************************************)
(* The acknowledgement is written; relay.reply either starts or returns    *)
(* the future in flight for the same session, whose request is answered.   *)
CallRelay(h) ==
  /\ h.state = "acking" /\ linked /\ CanWrite
  /\ LET inFlight == {g \in handlers : g.state = "replying"
                                         /\ g.session = h.session}
     IN \E request \in IF inFlight = {} THEN {h.request}
                       ELSE {g.request : g \in inFlight} :
          handlers' = (handlers \ {h}) \cup
                        {[h EXCEPT !.state = "replying", !.request = request]}
  /\ UNCHANGED <<phone, assembler, sendChain, position, attempt,
                 nextPhoneSession, accepted, queued, updates, channelVars>>

(* What relay.reply makes of a request: a page frame about it, or for a    *)
(* CATALOG command a catalog frame.                                        *)
ReplyTo(request, kind) ==
  [kind |-> kind, id |-> request[1].of.id, len |-> ReplyLen]

(* The future completes: every handler awaiting it queues its response, or *)
(* throws because there is no characteristic to write to.                  *)
RelayReplies(h, kind) ==
  LET sharing   == {g \in handlers : g.state = "replying" /\ g.session = h.session}
      responses == [i \in 1..Cardinality(sharing) |->
                      [session |-> h.session, payload |-> ReplyTo(h.request, kind)]]
  IN /\ h.state = "replying"
     /\ handlers' = handlers \ sharing
     /\ IF CanWrite
        THEN /\ sendChain' = sendChain \o responses
             /\ queued' = queued \o [i \in DOMAIN responses |-> responses[i].payload]
        ELSE UNCHANGED <<sendChain, queued>>
     /\ UNCHANGED <<phone, assembler, position, attempt, nextPhoneSession,
                    accepted, updates, channelVars>>

(* _sendAsyncUpdate: a frame of relay.updates goes out under a session of  *)
(* the phone's own.                                                        *)
SendAsyncUpdate(kind) ==
  /\ phone = "up" /\ linked /\ accepted # <<>> /\ updates < MaxUpdates
  /\ nextPhoneSession' = IF nextPhoneSession = SessionLimit
                         THEN PhoneSessionBase ELSE nextPhoneSession + 1
  /\ updates' = updates + 1
  /\ LET payload == [kind |-> kind, id |-> updates + 1, len |-> ReplyLen] IN
     /\ sendChain' = Append(sendChain, [session |-> nextPhoneSession', payload |-> payload])
     /\ queued' = Append(queued, payload)
  /\ UNCHANGED <<phone, assembler, handlers, position, attempt, accepted,
                 channelVars>>

(***************************************************************************)
(* _writeWithAck                                                           *)
(***************************************************************************)
WriteFirst ==
  /\ sendChain # <<>> /\ attempt = 0 /\ linked
  /\ attempt' = 1
  /\ Write(CurrentPacket)
  /\ UNCHANGED <<phone, assembler, handlers, sendChain, position,
                 nextPhoneSession, accepted, queued, updates,
                 linked, notifications, drops, mishaps, timers>>

WriteAgain ==
  /\ sendChain # <<>> /\ attempt \in 1..(WriteAttempts - 1) /\ linked
  /\ TimerExpires
  /\ attempt' = attempt + 1
  /\ Write(CurrentPacket)
  /\ UNCHANGED <<phone, assembler, handlers, sendChain, position,
                 nextPhoneSession, accepted, queued, updates,
                 linked, notifications, drops, mishaps>>

(* After the last attempt's timeout the message fails.                     *)
WriteGivesUp ==
  /\ sendChain # <<>> /\ attempt = WriteAttempts
  /\ TimerExpires
  /\ NextInChain
  /\ UNCHANGED <<phone, assembler, handlers, nextPhoneSession, accepted,
                 queued, updates, linked, notifications, writes, drops, mishaps>>

(* A write on a connection that is down throws, and so does its message.   *)
WriteFails ==
  /\ sendChain # <<>> /\ attempt < WriteAttempts /\ ~linked
  /\ NextInChain
  /\ UNCHANGED <<phone, assembler, handlers, nextPhoneSession, accepted,
                 queued, updates, channelVars>>
=============================================================================
