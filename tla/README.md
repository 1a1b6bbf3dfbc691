# GPTi84 Companion: TLA+ models and proofs

GPTi84 lets a TI-84 calculator chat with AI services. A calculator program
talks over the link cable to a Pico 2 W (MicroPython, `src/src/`), the Pico
talks over Bluetooth Low Energy to a phone app (Flutter,
`src/apps/companion/`), and the phone keeps the chats and calls the AI
services. This directory models the parts of that chain in which concurrency,
loss and timeouts decide whether the calculator gets the right answer.

## 1. Inventory

| Component | State it keeps | Operations | Talks to |
|---|---|---|---|
| BLE message protocol (`ble_protocol.py`, `ble_protocol.dart`) | a `MessageAssembler`: session, total length, chunks | encode, decode, `chunk_message`, `add`, `finish` | used by both ends of the link |
| Pico BLE transport (`ble_transport.py`) | `outgoing`, `waiting`, retries, `incoming` assembler, `rx` queue, session counter | `send`, `_pump`, `poll`, `_irq` (connect, write, disconnect), `close` | interrupt handlers against the polling loop; the phone |
| Phone BLE relay service (`ble_relay_service.dart`) | connection state, request assembler, response chain, pending ACK | `connect`, `disconnect`, `_onPicoEnvelope`, `_queueResponse`, `_writeWithAck`, updates | the Pico; `CalculatorRelay.reply` and its update stream |
| Bridge supervisor (`bridge.py`) | the transport it holds, the request in progress | `run`, `_service_raw_axe_once`, `_wait_for_phone_response` | calculator link below, transport above |
| Calculator relay (`calculator_relay.dart`) | calls in flight, update stream; everything else in the database | LIST, CATALOG, NEW, OPEN, POLL, SCROLL, SEND; `_completeAssistantReply`; `_renderChat` | database, provider client, both phone transports |
| Phone database (`app_database.dart`) | conversations, chat messages | statements and short transactions | relay and chat screens |
| Raw Axe framing (`raw_axe_protocol.py`), TI wire (`wire.py`) | frame reader position; the two lines | read/write frame, byte, bit | calculator |
| DBUS packets and transfer (`packet.py`, `transfer.py`, `dbus.py`) | exchange state of a variable transfer | send, receive, listen | calculator's operating system |
| Pinned catalog and cache (`pinned_catalog.dart`, `pins_cache.py`) | catalog text, `pins.v1` | encode, decode, save | phone to Pico |
| Phone TCP relay (`phone_relay_server.dart`, `net.py`) | socket, receive buffer | framed send and receive, reconnect | development alternative to BLE |
| Provider vault and clients | profiles in secure storage | read-modify-write, HTTP calls | relay, screens |
| Phone-free mock (`raw_axe_mock.py`) | `CHATS`, active chat and offset, pending replies, `chats.v1.json` | NEW, OPEN, SEND, UP, DOWN, LIST; load and save | calculator link |
| Legacy backend (`backend/app.py`) | one SQLite file: idempotency keys, messages, pins | `create_message`, `put_pins`, `get_pins` | its web clients, in threads |
| Desktop relay (`tools/relay_server.py`) | active client, permits, worker threads | read frames, echo, ask a model, type a line | the Pico's TCP transport |
| Converters, console, diagnostics, legacy Arduino relay, programs | - | - | not part of the product |

What is hard here: an interrupt that writes the transport's fields while the
polling loop is between two of them; two stop-and-wait protocols, one in each
direction, that share two queues which lose what is in them when the
connection breaks; session ids that start again at 1; retries by the
calculator, by the transport and by the phone, on top of one another; phone
coroutines that read the database, await and write; replies that arrive after
the request they answer has timed out.

What makes each component correct:

- the **link**: a request reaches the phone whole, once, and in order; a reply
  is completed once and whole; an acknowledged end packet means the message is
  there; every request ends in a RESPONSE or an ERROR;
- the **bridge**: the answer the calculator gets is the answer to its request;
- the **relay**: one message of the calculator's is one provider call and one
  answer; a page does not hide what happened before the revision it names;
  questions, answers and statuses agree; nothing stays `sending` for ever;
- the **wire**: reader and sender agree on every bit, never differ by more
  than one, and let the lines go;
- the **transfers**: what is handed on is one upload, what is reported as
  sent is in the calculator, and the number of pages comes after the pages;
- the **framing**: whatever is cut, joined or lost, frames are taken whole, in
  order, and the reader goes on after one that broke;
- the **mock** and the **backend**: their files agree with what they showed,
  and a repeated request has one answer.

`PROJECT.json` lists every component with what is and is not modelled, and the
hazards, each at its line with the properties that guard it.

## 2. Plan

What stands between the calculator and a right answer comes first.

| # | Modules | Question | State |
|---|---|---|---|
| 1 | `BleProtocol`, `BleChannel`, `BleTransport`, `BleRelayService`, composed in `BleLink` | does every request arrive, and does its answer come back | done, with proofs |
| 2 | `CalculatorRelay` | what overlapping requests and completions do to the chats | done, with proofs |
| 3 | `BitConversation`, `BitChannel`, `TiWire` | do both ends see the same bits; the wire implements the bit channel | done, with proofs |
| 4 | `DbusPackets`, `DbusTransfer`, `PageBridge` | do both ends agree on every variable that is transferred | done, with proofs |
| 5 | `RawLink`, `AxeBridge`, `AxeMock`, composed in `PicoFirmware` | what the Pico's two programs make of frames, catalogs and resets | done, with proofs |
| 6 | `FramedTcp`, `TcpServers` | frames over TCP, the phone's server and the desktop relay with its threads | done, with proofs |
| 7 | `LegacyBackend` | idempotency and pins under threads and restarts | done, with proofs |
| 8 | `ProviderVault`, `ChatScreen` | lost updates of the unlocked read-modify-write; a generated title against a rename | open |

Every safety property the passing runs check is stated by a theorem, two of the
way back over Bluetooth until the connection first breaks, for the reason section
5 gives. What is worth modelling and proving next is row 8.

## 3. Modules and the code

### The link

`BleProtocol` is the envelope and the assembler, which exist twice
(`ble_protocol.py`, `ble_protocol.dart`) with the same behaviour. A payload is
its kind, a number and its length in chunks; an offset is a chunk number. The
CRC is not modelled: below GATT damaged frames are discarded, and the one way
two packets get mixed, two writes read as one value, is an action
(`IrqGluedWrites`).

`BleChannel` is the connection: two queues, of notifications and of writes,
that are lost when it ends; and the bounds on what can go wrong. `Timer` steps
are timeouts, which may expire whenever their condition lasts: no clock is
modelled, every order of timer and answer is.

`BleTransport` is `class BLETransport`. `send` and `poll` are main-loop code,
`_irq` may run between any two bytecodes, so `_pump` is cut where the handler
can change what it has read: decide (`PumpRetry`, `PumpGivesUp`, `PumpNext`,
`PumpIdle`), notify `self.waiting` whatever it is by then (`PumpNotify`), pop
(`PopCompleted`). The handler's branches are `IrqWrite` (with `OnAck`,
`OnResponseChunk`, `OnResponseEnd`) and `IrqDisconnect`. `close()` and the next
constructor are `Reopen`. `gatts_notify` may raise wherever it is called
(`NotifyRaises`). From `_pump` that ends the request (`PumpNotifyRaises`,
`NotifyFails`). In the handler it is caught and printed, with different effects:
a chunk is stored before its acknowledgement is tried, but `finish()` has emptied
the assembler before the one of the end is, and the message is appended after
it. So the message is dropped; the history `lost` keeps it.

`BleRelayService` is the Dart class of that name. Dart runs a callback to its
next await, so an action is that much code. Every notification starts a call of
its own; the calls past a complete request are the set `handlers`. The
response chain is `sendChain`, of which the head message is at packet
`position` in its `attempt`-th write.

`BleLink` composes them with the bridge: `_service_raw_axe_once`,
`_wait_for_phone_response` and the part of `run()` that opens and closes the
transport. `pc` is where the bridge's loop is. `asked` and `outcome` are the
calculator's requests and what it was told; `accepted`, `received` and `queued`
are histories that no action reads.

### The relay

`CalculatorRelay` is `class CalculatorRelay` on the tables of
`app_database.dart`. A *job* is a coroutine between two awaits: a call of
`reply()` or the completion it leaves behind (`unawaited`). `job.at` names the
await; each action is the answer to that await and the code up to the next
one. Each statement or transaction of the database is one step, written once
as an operator (`AddAsk`, `AddAnswer`, `SetMessageStatus`, `SetPinned`,
`RenameConversation`, `DeleteConversation`, `CreateConversation`).

| await | actions |
|---|---|
| provider vault, slot, existence of the chat | `ReadVault`, `ResolveSlotAlias`, `CheckConversation`, `OpenChat`, `PollChat` |
| a new chat: insert, then pin | `CreateChat`, `PinNewChat` |
| sending: answer?, recorded?, empty?, title, insert, announce | `CheckAnswer`, `CheckRecorded`, `CheckEmpty`, `TitleChat`, `RecordMessage`, `AnnounceMessage` |
| the completion: answer?, history, provider, status, insert, announce | `CheckUnanswered`, `CallProvider`, `ProviderAnswers`, `MarkComplete`, `StoreAnswer`, `AnnounceAnswer`, `MarkFailed` |
| a page: title, revision, messages | `ReadTitle`, `ReadRevision`, `ReadMessages` |

The clock counts whole seconds because `DateTime` columns do; a change and the
page that misses it may carry the same second. Text is abstract: of a chat it
matters whether all of it is ASCII (`ascii.encode` throws otherwise), of a page
which revision it names and how many changes of the chat it shows. The user
renames, pins, unpins and deletes chats (`UserEdits`); `Restart` is the
operating system killing the app, which leaves the database and nothing else.

`BleLink` and `CalculatorRelay` meet in `relay.reply`: `BleRelayService` sees a
call that ends with a frame, and an updates stream; `CalculatorRelay` sees calls
with keys. They share no other state, so they are checked apart.

### The wire

`TiWire` has both lines of the link cable and both ends, each in `send_bit` or
`recv_bit` of `wire.py`. `pc` is the loop an end is in: "pull" and "drop" are
the two loops of `send_bit`, "look tip", "look ring" (TIP is read before RING)
and "hold" those of `recv_bit`. Every deadline is an action, enabled while its
loop finds nothing; a look at the line and the test of the deadline that follows
it are one step. Durations are not modelled. The calculator's end is taken
to run the same handshake. An end that fails a bit leaves, because `recv_byte`,
`recv_packet` and their callers all return at once.

`BitChannel` is what the layers above rely on, without lines: who gave up, and
how many bits each end has behind it. `ImplementsChannel` is the refinement,
with `gone` mapped to the ends at "off".

### Transfers and pages

`DbusPackets` gives each function of `transfer.py` as the sequence of packets
it exchanges: who sends, and which commands let it go on. `DbusTransfer` puts
the Pico and the calculator at a step of such a sequence. What `BitChannel`
leaves open, that the last bit of a packet is seen through by one end only, is
what a fault is here: `PicoToCalc` and `CalcToPico` have the three outcomes.
`listen_loop`'s dispatch on the first packet is `Dispatch`, its drain of a
possible EOT is step 7 of "take". The calculator's side is external and follows
what `transfer.py` and its comments say of the operating system.

A packet may also break off. `recv_packet` gives each byte a deadline of its
own, so when the calculator stops in the middle the Pico keeps reading:
`partial` is the packet it is in, and what the calculator sends next goes into
it, as a part of it (`BodySwallows`) or up to its end (`BodyFillsUp`). The
checksum that is then wrong is only printed; `mixed` names the transfers this
happened to, and the name in such a header may be any, so both ways of the
filter are taken. Three things are left out. A packet that breaks off before its
command is through is one that was not read, which is a fault of
`PacketPasses`. Bytes left over when a body is full are not read as packets of
their own. And a packet of the Pico's that breaks off is what the calculator
makes of it: it stops or it takes the packet.

`PageBridge` is the string bridge of `bridge.py` over it: `on_var` with a relay
that may fail, and a reply written page by page with the count last
(`_push_paginated_reply`). By `bridge.py:35` it is no longer the active runtime,
and `run()` does not reach it: the module is about `_make_on_var` and what it
calls, which a Pico still runs from the prompt, as it does the functions of
`transfer.py` and `listen_loop`.

### The Pico's programs

`RawLink` is a frame in three pieces (start byte, header, body), the
calculator that sends them and `read_frame`, which may start at a stray
`0x7E` and so read pieces of two frames as one. `PicoFirmware` is `main.py`: it
runs `AxeBridge` or `AxeMock` on that link. `AxeBridge` is `bridge.run()` once
more, now with the frames in detail and the phone reduced to what a transport
shows: whole messages in order, gone with the transport. What is not gone are the
phone's handlers: a request the phone took is `owed` until it is answered, and the
answer may come on a later relay, over which `ConnectTransport` lets any part of
what is owed live on. `BleLink` has that transport in detail. `Save` is
`pins_cache.save`: a catalog that does not decode leaves the file alone, an open
or a write that raises leaves it old or cut (`unwritten` keeps which), and the
bridge logs both and goes on. `AxeMock` is the request loop
of the mock; a request is one step, since nothing else runs, except that a
reset or a failing write may fall into the writing of the file. Its `pending`
is the set of prompts to be answered, each the `nth` of its `chat`:
`_process_pending` takes those that are due, which may be any of them because
each has a delay of its own, so no order is kept.

### The TCP relays

`FramedTcp` is a byte stream cut at will and `net.FrameReader`; `TcpServers` has
the two servers, chosen by `mode`: the phone's, which reads chunks of any size
and answers in turn, and `relay_server.py` in its three modes, with a handler
thread per connection, worker threads, permits and the terminal. A typed line
takes two steps, as `_send_to_active` does: `TypeLine` reads the active client
under the lock, `SendLine` sends when the lock is gone, and between them clients
connect, are replaced and leave. A frame is put into the stream whole: on the
Pico `net.py` writes length and payload by two calls on a non-blocking socket, and
what becomes of a frame when the second fails is not modelled; nor are two
threads whose `sendall` mix because a socket's buffer is full.

### The backend

`LegacyBackend` has a thread per request, cut at its database statements:
SQLite lets one connection write, and one that is closed without a commit
leaves nothing. `Raises` is every error response.

## 4. Runs

"(v)" is a run that shows a statement of the repository violated.

| Run | Shows |
|---|---|
| `link_retransmission` | one connection, timers may expire three times, writes may be read as one or notifications raise, twice in all: requests are taken in once and in order, replies completed once and whole, an acknowledged end means that the message was put together, and completed unless acknowledging it raised; every request ends in a RESPONSE or an ERROR |
| `link_reconnection` | two disconnections, one power cycle, one timer, one catalog update: no request is ever put together from two, answers stay with their requests until one fails |
| `answer_of_another` (v) | a page update becomes the answer to the request in progress |
| `relay_sends` | two SEND or POLL requests and their completions over two seconds: pages cover their revisions, late completions are stopped, no dispatched message stays `sending` unless a call to the provider for it never returns |
| `relay_chats` | LIST, NEW, OPEN, SCROLL, SEND by id, by slot and to a new chat, one edit of the user's, one kill: chats the relay made are pinned, question and answer stay together, `complete` means answered |
| `relay_retry` (v) | a message repeated during the provider's work calls the provider twice |
| `wire_bits` | every conversation of four bits: heard as sent, one bit apart at most, lines let go, both ends stop, `BitChannel` implemented |
| `dbus_transfers` | three transfers begun by either end, two faults, each a packet that one end sees through or that breaks off, one outage of the relay: pairs are genuine unless the upload has a packet filled up by another, reports true, uploads arrive, the count comes last |
| `pico_requests` | three frames, one break, two catalogs of which one is bad, three relays, a reset, writes that raise, replies begun on an earlier relay: answers match, the catalog is there before the answer that follows it unless a write raised, the mock's chats agree with its file |
| `partial_frame` (v) | a frame that breaks off ends `bridge.run()` |
| `tcp_server` | two connections, two requests, one typed line, one permit: frames whole and in order both ways, permits given back, a typed line reaches the client that was the latest when it was read, workers end |
| `backend` | three threads, two keys, one restart: one answer per key, kept with its message; pins of one request |

### Bounds

- *Link.* Two requests, of zero, one or two chunks: one chunk is the smallest message, two the
  smallest that can be torn, duplicated in part or mixed with another, zero
  the request that cannot complete. Two requests are the fewest in which one
  can be taken for the other. Replies have one chunk. `SessionLimit` and the
  number of retries and attempts have the code's values. `MaxDrops`,
  `MaxTimers`, `MaxMishaps` (writes read as one, and
  notifications that raise), `MaxPowerCycles` and `MaxUpdates` bound what goes
  wrong; each passing run allows the combination its question needs. The run
  about acknowledgements and whole replies has no disconnection: across one a
  half-assembled reply stays in the Pico's assembler (`_irq` does not reset
  it), and those properties are not promised.
- *Relay.* Two calls of `reply()`, each of which may leave a completion, are
  up to three coroutines at once; two session keys and one client message id
  make the second call a retry or a new delivery of the first. One chat
  exists; the others are made. Two seconds are enough to tell an older change
  from one of the same second. `relay_chats` lets one second pass: what its
  properties are about does not depend on the clock.
- *Wire.* Four bits in all 256 combinations of direction and value: two in one
  direction, and both changes of direction in either order, are the places
  where the ends could lose step. The theorems have no bound.
- *Transfers.* Three transfers are an upload that is broken off, the one whose
  packets may be taken for its own, and one more; two faults let each end leave
  the other behind once. A reply has one or two pages. The bridge and its
  program are a TI-83's, other transfers a TI-82's, the only difference in the
  exchanges.
- *Pico.* Three frames let two be read as one and a third follow. With one
  break every property that excepts broken requests has both cases. Two of the
  frames reach the bridge (`MaxBridged`) and all three the mock; three relays let
  a reply be owed over two of them. Two chats,
  of three rows and of one, in a window of two: one that scrolls and one that
  does not.
- *TCP.* Frames of three and four pieces, of which two are the length; the
  larger size stands for the one above 2^20 that is refused. Two connections
  are the fewest in which one replaces another. One permit makes every second
  worker wait. Payloads are of one piece, so that TLC cuts lengths from payloads
  and frames from frames but no payload; the theorems have no such bound.
- *Backend.* Two threads race for a key, a third repeats it later or writes
  pins; two keys and two texts tell answers apart; three chats are one more than
  may be pinned.
- Symmetry is used for session keys in `relay_chats`, which has no liveness
  property; keys are only compared.
- `CHECK_DEADLOCK FALSE` everywhere: when the bounds are used up and all work
  is done the model stops, as the system waits for its user.

### Fairness

- `FairBridge`: weak fairness of the bridge's loop (it is a polling loop that
  never blocks) and strong fairness of `ResponseTimeout`, which is enabled only
  at one place of the loop but whose 30 seconds pass while the loop turns.
  Nothing is assumed of the phone, of the user, of disconnections or of power.
- `FairSpec` of the relay: a completion that can go on does, except at the
  provider. The HTTP client is a plain `Dio()` without a timeout
  (`direct_ai_client.dart:43`) and `calculator_relay.dart:230` sets none, so a
  call may hang for ever. `DispatchedMessagesSettle` says that this is the only
  way in which a dispatched message stays `sending` while the app runs and the
  chat is kept.
- `FairWireSpec`: each end keeps polling, and a deadline that is due again and
  again passes (strong fairness: the two loops alternate between looking at TIP
  and at RING, and only one of the places tests the deadline).
- `Fairness` of the TCP relay: threads that hold a permit end, because the
  model answers or fails within `OLLAMA_TIMEOUT_S`, and a thread that waits
  gets a free permit. Nothing is assumed of clients.

## 5. Proofs

Proved for every value of the constants that satisfies the named assumptions:
`MaxLenAssumption`, `LinkAssumption`, `RelayAssumption`, `DbusAssumption`,
`PageBridgeAssumption`, `MockAssumption`, `BridgeAssumption`,
`FramedTcpAssumption`, `TcpServersAssumption` and those of the wire and the
backend. They say that bounds are natural numbers and that scripts, seeds and
page lists are of their types, and that connections, frame sizes and commands are
those the code can have. The theorems about requests in `BleLinkProofs` assume
also that `MaxRequests <= SessionLimit`. In `BleResponseProofs`, `RequestsFit`
says that there are fewer requests than sessions below `PhoneSessionBase`, where
the phone's own begin, and `SessionsSuffice` almost the same and that the phone's
own do not go round. `Unbroken` means that no connection was lost and the Pico
not restarted so far.

| Theorem | Module | Says |
|---|---|---|
| `TypeCorrect` | `BleLinkProofs` | every variable of the link keeps its type |
| `RequestsAreWhole` | `BleLinkProofs` | the phone takes in whole requests only |
| `RequestsAreInOrder` | `BleLinkProofs` | on a connection that lasts, requests are taken in once each and in order |
| `AcknowledgedRequestsAreAccepted` | `BleLinkProofs` | a request whose end was acknowledged was taken in |
| `RepliesComeWholeOnce` | `BleResponseProofs` | while `Unbroken`, the Pico completes whole messages, each once |
| `DeliveredMessagesAreCompleted`, `AcknowledgedResponsesAreCompleted` | `BleResponseProofs` | a message whose last packet was acknowledged has been completed, or was put together and dropped when the acknowledgement of its end raised: while `Unbroken`, and as the run's action property where nothing breaks |
| `AnswersBelongToRequests` | `BleResponseProofs` | up to the first error or page update each answer is that to its request, also across lost connections and power cycles |
| `RelayTypeCorrect`, `RelayIsConsistent` | `CalculatorRelayProofs` | the relay's types, and `RelayInvariant` |
| `PagesCoverTheirRevisions`, `NewChatsStayPinned`, `AnswersFollowQuestions`, `CompleteMessagesHaveAnswers`, `LateCompletionsAreStopped` | `CalculatorRelayProofs` | the properties of that name's subject; the last is an action property |
| `WireInvariantHolds` | `TiWireProofs` | the inductive invariant of the two lines |
| `WireLinesAreFree`, `WireHearsWhatIsSent`, `WireEndsStayClose` | `TiWireProofs` | lines let go, bits heard as sent, ends within one bit |
| `WireImplementsChannel` | `TiWireProofs` | `TiWire` implements `BitChannel` |
| `TypesAreRespected` | `PageBridgeProofs` | the types of the transfers |
| `PairsBelongTogether` | `PageBridgeProofs` | a header and the data handed on with it are of one upload, unless a packet of the header's upload was filled up by another |
| `SentIsStored` | `PageBridgeProofs` | what is reported as sent or deleted is, or something later has been |
| `PagesComeBeforeTheCount` | `PageBridgeProofs` | a count that can be read has its pages |
| `AcknowledgedUploadsAreHandedOn` | `PageBridgeProofs` | uploads the calculator saw acknowledged reach the relay or the caller |
| `BridgeInvariantHolds`, `MockInvariantHolds` | `PicoFirmwareProofs` | the inductive invariants of the Pico's two programs |
| `TypesAreRespected` | `PicoFirmwareProofs` | the types of the raw link, the bridge and the mock |
| `AnswersMatch`, `AnswersFollow` | `PicoFirmwareProofs` | answers go to their request unless one went without its answer or the phone owes one from an earlier relay; they come after their catalog unless its write or a later one raised |
| `StoreIsMemory`, `PromptsGetTheirReplies`, `ChatsKeepTheirNumbers` | `PicoFirmwareProofs` | the mock's file is its memory, each prompt has one reply, each chat its own number |
| `TcpInvariantHolds`, `ServersAreTyped` | `TcpServersProofs` | the inductive invariant and the types of the TCP relays |
| `RequestsComeInOrder`, `RepliesComeWhole` | `TcpServersProofs` | frames whole, once and in order to the server; whole, and the answer to the request, to the client |
| `PermitsAreReturned`, `LinesGoToTheLatest` | `TcpServersProofs` | permits are held by model calls; a typed line reaches the client that was the latest when it was read, and no other |
| `BackendTypeCorrect`, `AnswersStayOnRecord`, `KeysHaveOneAnswer`, `PinsAreWhole`, `RecordsLast` | `LegacyBackendProofs` | the subjects of `LegacyBackend`'s properties |

**Requests are whole.** `RequestsArriveWhole` is not inductive: nothing in it
forbids a half-collected request next to chunks of another under the same
session. `RequestInvariant` adds that request chunks under way are genuine,
that session ids tell those of different requests apart, and that the phone
collects one request at a time from the connection that lasts. The delicate
steps are `Reopen`, where session ids start again but nothing is under way any
more, and `Disconnect` on the phone, which drops the half-collected request.
The assumption on `MaxRequests` is needed: once the 16-bit session id has gone
round on one transport, packets of a request given up on 65535 requests ago
could meet their own id.

**Requests come once, in order.** A message is completed when its end packet
meets all its chunks, so the danger is a retransmitted chunk that comes after
the end: it would begin the message again. `EndsComeLast` says that there is
none: read as one stream, the notifications, the packet waited for and those to
be sent hold no chunk of a session behind the end of that session or of a later
one. It holds because the transport waits for the
acknowledgement of each packet, whose copies are all ahead of the next.
`SessionsFollowIds` makes the order of sessions that of requests,
`NothingComesTwice` puts everything under way or half collected behind what was
taken in, and `LaterSessionsComeLater` says the same of the half collected
message and what follows it. `AckInvariant` adds that an acknowledgement of an
end packet names a session that was taken in; the phone acknowledges a chunk
before it has them all, which is why chunks are told from ends by their
`sequence`.

**Replies come whole and once.** Packets on the way back are
copies of equal contents, so a message is known by its place in `queued`. On one
connection the session tells messages apart (`QueueIsApart`): a reply has the
number of its request, of which there is one handler (`HandlersAreApart`), and
updates have the numbers from `PhoneSessionBase` on. What is under way then is
of messages reached (`WritesAreGenuine`) and in their order
(`WritesAreInOrder`), the half collected message comes before all of it
(`Collecting`), and no chunk of a completed message is behind its completion
(`ReceivedOnce`), so none is begun again. The Pico acknowledges an end also when
it completes nothing, as a repeated end does; it is safe because of `AcksAreTrue`:
an acknowledgement of the message being sent means that the chunk is collected
or the message put together, so an end is only sent when all chunks are there.
Put together is completed, or dropped because `gatts_notify` raised between
`finish()` and the append: the repeated end of a dropped message is acknowledged
like any other, and the phone cannot tell. `Whole` is the union of both, and the
theorem says no more than the code gives. This
needs that the Pico sends no ACK through its stop-and-wait queue
(`PicoSendsNoAcks`). `OneConnection` is the conjunction, and the inductive
invariant is `Unbroken => OneConnection`.

**Answers go to their requests, also when the connection breaks.** Sessions say
nothing here: a new transport counts from 1 again while the phone still has
handlers, and what it has queued, under the old numbers. The argument is about
the requests instead. While no request has ended in an error, each earlier one
was answered, so its reply was completed and its handler is gone; a power cycle
during a pending request ends it as lost, which counts as an error. What is
left on the way is the reply to the request being served (`IsDue`), catalogs,
and of an answered request at most its last packet, which is repeated until
it is acknowledged and completes nothing. `ChainIsDue`, `WritesAreDue`,
`IncomingIsDue` and `CompletedIsDue` say so of each place a reply can be in.
That there is one reply and not two takes `OneHandler` (one handler for the
request being served, and no reply on the way before that handler is done,
which is `Untouched`), and `EndsComeAfter`: once an end of its session is on the
way, no chunk of it is to come, so the message cannot be begun again when it
was completed. A handler can only be of the request being served because a
request is taken in once and all earlier ones were (`EarlierWereAccepted`,
`TakesTheCurrent`), and its session is then the newest (`NewestSession`). The
inductive invariant is `AnswerInvariant`; TLC checked it on the instance of
`link_reconnection` before the proof.

**The relay.** `TypeOK` needs `ChatsWereCreated`: that a coroutine past its
lookup names a chat there has been, or its message key would not be one.
Chat ids are never used again, so "the chat exists" implies "it existed
all along", and with that `QuestionsWereRecorded` (a completion's question is in
its chat) is preserved although the user may delete the chat at any time; the
same fact carries `AnswersHaveTheirQuestion`. `RevisionsArePast` says that no
chat, coroutine or page is ahead of the clock; a new change is then never older
than a page that already exists, which is all `PageCoversItsRevision` needs.
Because the revision is read *before* the messages, a page may only show more
than its revision says; the mutant that swaps the two reads breaks it. The
proof has two summaries of a step, what it does to the tables (`Steady`) and
where its coroutines come from (`Origins`), and derives each part from them.

**The wire.** What the ends hear is not inductive without knowing where both
are. `Hands` says it for each end and its peer: a reader that holds a bit holds
the bit its sender is on, and a sender that waits for the release is past the
reader or has the reader still holding. `Ahead` says that whoever counted more
is one bit ahead, and of an end that is still in its last loop or gave up.
Because the ends hold each other up, who pulls a line is known from their
places (`WhoPulls`), and no third case is left. The conversation may be any
sequence of bits and directions. The refinement maps three actions to steps of
`BitChannel` (`RecvDone`, `SendDone`, the deadlines) and all others to
stutters.

**The transfers.** Both ends go from step to step of one script, but what is a
step is different at each end, and a fault lets one end leave and the other
stay. Each property needs its own relation of the two places. `SameUpload`: at
the same step of an upload, requests counted two steps later, both are in the
same one, so the data that is read is that of the header (`PairInvariant`). A
packet that broke off is a third place to look: nothing else is under way then
but what the calculator begins anew (`CutTyped`), the data in it is of the
header (`CutIsOfHeader`), and filling it up adds its transfer to `mixed`, which
is what `OfHeader` excepts; a header that is mixed carries its exception to the
data that follows.
`CalcFollows`: where the Pico is past the first step of a send, the calculator
is at that step of that transfer, idle, or about to begin a later one; so a
store is never of an older transfer than one that was reported
(`AnswersAreOlder`, `StoredByThen`). An acknowledgement that breaks off was
still sent by a calculator that had got so far, and whatever fills it up, it is
read for what it is: `CutIsStored` and `CutIsOlder` say of the packet in
`partial` what the others say of one that arrived. Together they are
`StoreInvariant`. `PushInvariant`
says that the transfers of a push are its pages in their order and then the
count, each begun when the one before was stored; with `SentIsStored` the count
comes last. `ToldInvariant` is about acknowledgements: while no packet failed
(`Undisturbed`) each end knows where the other is (`InStep`), so that an upload
the calculator was told of is delivered or held back for the drain of its EOT
(`ToldIsDelivered`), and what is delivered is handed on unless the relay
failed (`DeliveredIsHandedOn`).

**The mock.** `MockInvariant` speaks of what a command works on as one record,
memory, and of the file, from which memory is taken again after a reset. Chat
numbers are below the number of chats and different (`ListSound`), so the
number a new chat gets is free: the counter the code uses is the length of the
list, and this holds because chats are never removed. The active chat is in the
list and the reading place inside it (`InList`, `PlaceSound`), prompts and
lost replies are of chats in the list (`PromptsSound`, `GoneSound`), and in
each chat the prompts asked but not answered are those pending and those that
went with a reset (`Balanced`). What a file holds is sound in the same way or
cut (`FileSound`), and a command that did not write changed nothing that is
written (`Kept`). The types of the raw link need that the bridge is not started
where the mock runs, and that a bridge which waits for its answer has no half
read frame (`TypeInvariant`).

**The TCP relays.** A stream is described by its pieces: each is at its place
in a copy of its frame, and only what lies beyond the end is missing (`Cut`,
`Complete`), and frames come in the order of their numbers (`Rising`).
`Accounted` joins it to the requests: each frame asked was taken in, is under
way, or broke off behind everything that arrived. For the answers, `OnePlace`
says that the request a client waits for is either on its way up, with the
handler, with a worker, or its answer on its way down, and never two of these,
as long as the client gave up nothing and nobody typed a line (`InTurn`).
`Employed` says that a worker's request arrived and is that worker's alone;
workers are a set, and without it two equal workers would be one and a permit
would seem lost. `Registered` keeps the active client among those whose
handler has begun, and `LatestIsActive` makes it the one registered last while
that one is served. `LinesReachTheLatest` joins that to the stream: between
`TypeLine` and `SendLine` the line is with its `target`, which is whom `typed`
names, whoever is active by then; after it its bytes are in that client's
stream, or what the client took, until the client goes.

**The Pico's bridge.** What is written depends on what is on its way.
`OneAnswerComes` says that the phone owes an answer, or one is in the inbox,
only while the bridge waits, never both, and always for the request being
served. It is said of a relay that is not `late`: a request that went without
its answer makes it so, and so does opening a relay while the phone still owes
anything, since a handler's reply then comes in front of the next request's.
`CatalogsComeInOrder` says that the catalogs in the inbox are newer than the
file, so that saving one never goes back; `AnswersComeAfterCatalogs` that a
catalog an answer was given after is in the file already or ahead of that answer
in the inbox, or that the write of it or of a newer one raised (`Filed`). All
three speak of an open relay only: a reset leaves an inbox behind that no bridge
reads, and may cut the file. They need nothing of the raw link, whose frames,
noise and gaps only decide when a request is read.

**The backend.** `OneAnswerPerKey` follows from `AnswersAreRecorded`: an answer
that was given is the one on record. For that the record must never be
replaced, which is `Record`'s guard, the UNIQUE constraint of the table;
`CommittedIsRecorded` carries it over the moment between commit and return.
`ReplacedIsCounted` carries the limit on pins from the check to the commit.

Only model-checked:

- Nothing is claimed of `ResponsesArriveWholeOnce` and
  `AcknowledgedResponseIsCompleted` beyond the first broken connection: a handler
  that outlives its connection answers under a session that the next transport
  gives to another request, and when the phone gave that reply up halfway, its
  chunks are what the Pico has collected of that session. They are stated,
  checked and proved on one connection.
- Every liveness property: `EveryRequestEnds`, `WorkersFinish`, the relay's and
  the wire's. Fairness and ENABLED are out of the prover's reach.
- The violations, which are counterexamples and need no proof.

No recursive definition occurs in the modules.

## 6. What the code does not do that the repository says

`PROJECT.json` quotes the statements. In short: the bridge takes the first
non-catalog frame for the answer (`answer_of_another`) and ends on a frame that
breaks off (`partial_frame`); and the relay's check for an answer is no check
for a call in progress (`relay_retry`).

The models have three more places where the code does less than one may expect,
which no run is spent on, because the properties except them by name:
`recv_packet` "Returns (machine, cmd, data) or None on error" (`packet.py:78`)
but returns a packet whose checksum is wrong (`mixed`); the Pico acknowledges
the end of a message it dropped (`lost`); and a call of a provider may hang.

## 7. Not modelled, and why

- Screens and vault: open in the plan; `UserEdits` has the edits of the chat
  list, which are the ones the relay's coroutines can meet.
- Durations: no module has a clock that orders timeouts; the sleeps by which
  `transfer.py` lets the calculator turn round have no counterpart.
- `AxeBridge` and `BleLink` are two views of the bridge, one with the
  calculator's frames and one with Bluetooth in detail; they are not composed,
  since the product of both is beyond TLC and each sees all of what the other
  can do to the loop between them.
- Device registration and the websocket of the backend, the browser console,
  the websocket bridge, start and stop of the phone's TCP server.
- Formatting and parsing of commands, pages and catalogs; the HTTP clients of
  the providers: pure functions and I/O without shared state.
- A repeated SEND NEW, whose message id depends on the chat it makes, so that it
  is another message in another chat; and the reconnection of a TCP relay whose
  peer is gone, which `AxeBridge` models as staying lost. Nothing in the
  repository promises otherwise.
- Build and extraction tools, the Pico's diagnostics and the legacy Arduino
  relay, which are not on the path of the product.
- Calculator programs, vendored documentation, generated code.
