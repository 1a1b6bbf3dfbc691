------------------------------- MODULE AxeBridge -------------------------------
(***************************************************************************)
(* The supervisor of src/src/bridge.py: it opens a relay to the phone,     *)
(* waits for the phone, reads request frames, passes each on and writes    *)
(* the answer back.  Catalog frames that come in while it waits are saved  *)
(* by src/src/pins_cache.py.                                               *)
(*                                                                         *)
(* The relay is what src/src/relay_transport.py opens, a BLETransport      *)
(* (BleLink) or a TCPTransport: whole messages in order, gone with the     *)
(* relay.                                                                  *)
(***************************************************************************)
EXTENDS RawLink

CONSTANTS
  MaxCatalogs,  \* bound: pinned catalogs the phone sends, numbered in order
  BadCatalogs,  \* those of them that decode_catalog refuses
  MaxRelays,    \* bound: relays opened
  MaxResets     \* bound: resets of the Pico

ASSUME BridgeAssumption ==
  MaxCatalogs \in Nat /\ MaxRelays \in Nat /\ MaxResets \in Nat

VARIABLES
  stage,     \* "connect", "await", "read", "wait", or "ended" with the program
  relay,     \* "none", "advertising", "up", or "lost": send and poll raise
  relays,    \* relays opened
  owed,      \* requests the phone has and has not answered
  inbox,     \* what poll will return
  catalogs,  \* catalogs the phone sent
  offered,   \* history: the newest good catalog of this relay, or 0
  served,    \* history: requests read, each the number of a frame or 0
  late,      \* history: a request on this relay went without its answer, or
             \*   the phone may answer one of an earlier relay on this one
  answered,  \* history: answers written
  cache,     \* pins.v1: a catalog, 0 for no file, or -1 when cut
  unwritten, \* history: catalogs whose write raised
  resets

phoneVars  == <<relay, relays, owed, inbox, catalogs, offered>>
serveVars  == <<served, late, answered>>
fileVars   == <<cache, unwritten>>
bridgeVars == <<stage, phoneVars, serveVars, fileVars, resets>>

BridgeTypeOK ==
  /\ stage \in {"connect", "await", "read", "wait", "ended"}
  /\ relay \in {"none", "advertising", "up", "lost"} /\ relays \in 0..MaxRelays
  /\ owed \subseteq 1..Len(served) /\ Range(served) \subseteq 0..MaxFrames
  /\ catalogs \in 0..MaxCatalogs /\ offered \in 0..catalogs
  /\ resets \in 0..MaxResets
  /\ (stage = "connect") <=> (relay = "none")
  /\ stage = "wait" => got = <<>> /\ served # <<>>

BridgeInit ==
  /\ stage = "connect" /\ relay = "none" /\ relays = 0 /\ owed = {} /\ inbox = <<>>
  /\ catalogs = 0 /\ offered = 0 /\ served = <<>> /\ late = FALSE /\ answered = {}
  /\ cache = 0 /\ unwritten = {} /\ resets = 0

Serving == Len(served)
-----------------------------------------------------------------------------
(* open_transport makes a transport of its own on every call: a Bluetooth  *)
(* one advertises, a TCP one is connected.  What the old one received is   *)
(* gone.  A handler of BleRelayService that awaits its reply outlives the  *)
(* connection and sends it on the next; a TCP connection takes its own     *)
(* along.                                                                  *)
ConnectTransport ==
  /\ stage = "connect" /\ relays < MaxRelays
  /\ relay' \in {"advertising", "up"} /\ relays' = relays + 1 /\ stage' = "await"
  /\ owed' \in SUBSET owed /\ late' = (owed' # {})
  /\ inbox' = <<>> /\ offered' = 0
  /\ UNCHANGED <<linkVars, catalogs, served, answered, fileVars, resets>>

TransportReady == relay \in {"up", "lost"}

WaitTransportReady ==
  /\ stage = "await" /\ TransportReady /\ stage' = "read"
  /\ UNCHANGED <<linkVars, phoneVars, serveVars, fileVars, resets>>

(* Between two frames the supervisor closes a relay without its phone.     *)
TransportDisconnected ==
  /\ stage = "read" /\ got = <<>> /\ ~TransportReady
  /\ relay' = "none" /\ stage' = "connect"
  /\ UNCHANGED <<linkVars, relays, owed, inbox, catalogs, offered, serveVars, fileVars,
                 resets>>

(* The phone.  A Bluetooth relay tells that it left, a TCP relay only      *)
(* raises OSError from then on.  Its handlers stay, if only to answer a    *)
(* later connection, and may never answer.                                 *)
PhoneConnects ==
  /\ relay = "advertising" /\ relay' = "up"
  /\ UNCHANGED <<linkVars, stage, relays, owed, inbox, catalogs, offered, serveVars,
                 fileVars, resets>>

PhoneLeaves ==
  /\ relay = "up" /\ relay' \in {"advertising", "lost"} /\ Break
  /\ UNCHANGED <<frames, out, got, stage, relays, owed, inbox, catalogs, offered, serveVars,
                 fileVars, resets>>

PhoneAnswers ==
  /\ relay = "up"
  /\ \E k \in owed :
       /\ owed' = owed \ {k}
       /\ inbox' = Append(inbox, [type |-> "pages", of |-> k, asOf |-> offered])
  /\ UNCHANGED <<linkVars, stage, relay, relays, catalogs, offered, serveVars, fileVars,
                 resets>>

PhoneSendsCatalog ==
  /\ relay = "up" /\ catalogs < MaxCatalogs /\ catalogs' = catalogs + 1
  /\ inbox' = Append(inbox, [type |-> "catalog", of |-> catalogs', asOf |-> 0])
  /\ offered' = IF catalogs' \in BadCatalogs THEN offered ELSE catalogs'
  /\ UNCHANGED <<linkVars, stage, relay, relays, owed, serveVars, fileVars, resets>>
-----------------------------------------------------------------------------
IsRequest(id) == id \notin {k \in 1..Len(frames) : frames[k].type # "request"}

RequestRead ==
  /\ stage = "read"
  /\ \E id \in 0..Len(frames) :
       FrameRead(id) /\ IsRequest(id) /\ served' = Append(served, id)

(* The request goes to the phone, whatever the inbox holds.                *)
SendRelay ==
  /\ relay = "up" /\ RequestRead
  /\ owed' = owed \cup {Len(served')} /\ stage' = "wait"
  /\ UNCHANGED <<frames, out, breaks, relay, relays, inbox, catalogs, offered, late,
                 answered, fileVars, resets>>

(* send raises OSError, which becomes an ERROR frame; the relay stays.     *)
SendRelayRaises ==
  /\ relay # "up" /\ RequestRead /\ WriteFrame
  /\ UNCHANGED <<stage, phoneVars, late, answered, fileVars, resets>>

ExpectedRequest ==
  /\ stage = "read"
  /\ \E id \in 0..Len(frames) : FrameRead(id) /\ (id = 0 \/ ~IsRequest(id))
  /\ WriteFrame /\ UNCHANGED bridgeVars

(* read_frame stands outside the try of _service_raw_axe_once, and run()   *)
(* catches KeyboardInterrupt and OSError only.                             *)
RawFrameErrorEscapes ==
  /\ stage = "read" /\ FrameBroken /\ stage' = "ended"
  /\ UNCHANGED <<frames, out, phoneVars, serveVars, fileVars, resets>>

(* Mutant: catalog frames are answers too.                                 *)
NeverACatalog(frame) == FALSE
IsCatalog(frame) == frame.type = "catalog"

(* Mutant: the file is opened before the text is decoded.                  *)
OpenThenDecode(catalog) ==
  /\ cache' = IF catalog \in BadCatalogs THEN -1 ELSE catalog
  /\ UNCHANGED unwritten

(* pins_cache.save decodes the text, opens the file, which empties it, and *)
(* writes.  What any of the three raises is logged, and no more.           *)
Save(catalog) ==
  \/ catalog \in BadCatalogs /\ UNCHANGED fileVars
  \/ catalog \notin BadCatalogs /\ cache' = catalog /\ UNCHANGED unwritten
  \/ /\ catalog \notin BadCatalogs
     /\ cache' \in {cache, -1} /\ unwritten' = unwritten \cup {catalog}

PollCatalog ==
  /\ stage = "wait" /\ inbox # <<>> /\ IsCatalog(Head(inbox))
  /\ inbox' = Tail(inbox) /\ Save(Head(inbox).of)
  /\ UNCHANGED <<linkVars, stage, relay, relays, owed, catalogs, offered, serveVars,
                 resets>>

(* The RESPONSE frame, and an ERROR frame after it if it is not taken.     *)
PollAnswer ==
  /\ stage = "wait" /\ inbox # <<>> /\ ~IsCatalog(Head(inbox))
  /\ inbox' = Tail(inbox) /\ stage' = "read" /\ WriteFrame
  /\ answered' = answered \cup
       {[request |-> Serving, answer |-> Head(inbox), late |-> late, cached |-> cache,
         unwritten |-> unwritten]}
  /\ UNCHANGED <<got, relay, relays, owed, catalogs, offered, served, late, fileVars,
                 resets>>

(* Thirty seconds without an answer, or poll raises.                       *)
WaitFails ==
  /\ stage = "wait" /\ WriteFrame /\ stage' = "read" /\ late' = TRUE
  /\ UNCHANGED <<got, phoneVars, served, answered, fileVars, resets>>

(* A reset may fall into the write of the file, which is empty by then.    *)
ResetBridge ==
  /\ resets < MaxResets /\ resets' = resets + 1
  /\ stage' = "connect" /\ relay' = "none" /\ got' = <<>>
  /\ \/ cache' = cache
     \/ /\ stage = "wait" /\ inbox # <<>> /\ IsCatalog(Head(inbox))
        /\ Head(inbox).of \notin BadCatalogs /\ cache' = -1
  /\ UNCHANGED unwritten
  /\ UNCHANGED <<frames, out, breaks, relays, owed, inbox, catalogs, offered, serveVars>>

BridgeStep ==
  \/ ConnectTransport \/ WaitTransportReady \/ TransportDisconnected
  \/ PhoneConnects \/ PhoneLeaves \/ PhoneAnswers \/ PhoneSendsCatalog
  \/ SendRelay \/ SendRelayRaises \/ ExpectedRequest \/ RawFrameErrorEscapes
  \/ PollCatalog \/ PollAnswer \/ WaitFails \/ ResetBridge
=============================================================================
