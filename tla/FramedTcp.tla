------------------------------- MODULE FramedTcp -------------------------------
(***************************************************************************)
(* Frames over TCP: four bytes of length and a payload, cut into pieces    *)
(* and joined to the next frame at any place.  One end is the Pico's       *)
(* src/src/net.py (or any client); the servers at the other end differ in  *)
(* how they read, see TcpServers.                                          *)
(***************************************************************************)
EXTENDS Integers, SequencesExt

CONSTANTS
  Conns,     \* connections, numbered in the order they are opened
  Sizes,     \* sizes of frames in pieces, the first two being the length
  Oversize   \* the size that stands for a length above 2^20

ASSUME FramedTcpAssumption ==
  Sizes \subseteq Nat \ {0, 1} /\ Oversize \in Sizes /\ Conns \subseteq Nat \ {0}

VARIABLES
  up, down,   \* [connection -> pieces on their way to the server, to the client]
  atServer,   \* [connection -> pieces the server has of the next frames]
  atClient,   \* [connection -> FrameReader: _hdr and _body]
  client,     \* [connection -> "new", "open", "closed"]
  closed      \* the connections the server has closed

tcpVars == <<up, down, atServer, atClient, client, closed>>

(* A frame is told by the request it is or answers.                        *)
Frame(kind, of, size) == [kind |-> kind, of |-> of, size |-> size]
Pieces(frame) == [i \in 1..frame.size |-> [frame |-> frame, part |-> i]]

(* The frame at the front of what a reader has, by the length it read.     *)
Length(pieces)   == pieces[1].frame.size
HasLength(pieces) == Len(pieces) >= 2
HasFrame(pieces) == HasLength(pieces) /\ Len(pieces) >= Length(pieces)
First(pieces)    == SubSeq(pieces, 1, Length(pieces))
Rest(pieces)     == SubSeq(pieces, Length(pieces) + 1, Len(pieces))
IsGenuine(pieces) == pieces = Pieces(pieces[1].frame)

(* Mutant: a reader asks for the same number of bytes every time.          *)
WantedAlways(pieces) == 2
(* How much a reader may take that asks for no more than its frame needs.  *)
Wanted(pieces) ==
  IF HasLength(pieces) THEN Length(pieces) - Len(pieces) ELSE 2 - Len(pieces)

TcpTypeOK ==
  /\ \A c \in Conns :
       /\ client[c] \in {"new", "open", "closed"}
       /\ HasLength(atClient[c]) => Len(atClient[c]) <= Length(atClient[c])
       /\ client[c] = "new" => up[c] = <<>> /\ down[c] = <<>>
  /\ closed \subseteq Conns

TcpInit ==
  /\ up = [c \in Conns |-> <<>>] /\ down = [c \in Conns |-> <<>>]
  /\ atServer = [c \in Conns |-> <<>>] /\ atClient = [c \in Conns |-> <<>>]
  /\ client = [c \in Conns |-> "new"] /\ closed = {}

(* A sender's frame enters the stream whole, unless the other end is gone. *)
ToClient(c, frame) ==
  down' = IF client[c] = "open" THEN [down EXCEPT ![c] = @ \o Pieces(frame)] ELSE down

(* FrameReader.poll takes the bytes there are, up to the end of the length *)
(* or of the payload, and keeps them when they are not enough.             *)
Poll(c) ==
  /\ client[c] = "open" /\ ~HasFrame(atClient[c]) /\ down[c] # <<>>
  /\ \E n \in 1..Len(down[c]) :
       /\ n <= Wanted(atClient[c])
       /\ atClient' = [atClient EXCEPT ![c] = @ \o SubSeq(down[c], 1, n)]
       /\ down' = [down EXCEPT ![c] = SubSeq(@, n + 1, Len(@))]
  /\ UNCHANGED <<up, atServer, client, closed>>

(* Mutant: the length stays in the reader after its frame.                 *)
AfterFrameKeepingLength(pieces) == SubSeq(pieces, 1, 2)
AfterFrame(pieces) == <<>>

(* The client is reset or leaves; what it sent last may break off.         *)
ClientCloses(c) ==
  /\ client[c] = "open" /\ client' = [client EXCEPT ![c] = "closed"]
  /\ \E n \in 0..Len(up[c]) : up' = [up EXCEPT ![c] = SubSeq(@, 1, n)]
  /\ down' = [down EXCEPT ![c] = <<>>]
  /\ UNCHANGED <<atServer, atClient, closed>>
=============================================================================
