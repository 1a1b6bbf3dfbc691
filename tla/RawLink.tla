-------------------------------- MODULE RawLink --------------------------------
(***************************************************************************)
(* The raw frames of src/src/raw_axe_protocol.py between the calculator    *)
(* and the Pico: a start byte, three bytes of header, the payload and its  *)
(* checksum.  Bytes pass only while one end sends and the other reads (the *)
(* wire, see TiWire), so a frame is what its reader has got of it.  A      *)
(* frame is sent in three pieces, which is as fine as read_frame tells its *)
(* bytes apart.                                                            *)
(***************************************************************************)
EXTENDS Integers, SequencesExt

CONSTANTS
  Frames,      \* what the calculator may send: records with a field type
  MaxFrames,   \* bound: frames the calculator begins
  MaxBreaks    \* bound: frames that break off, slow bytes, stray bytes

ASSUME LinkAssumption == MaxFrames \in Nat /\ MaxBreaks \in Nat

VARIABLES
  frames,   \* history: the frames the calculator began
  out,      \* what the calculator has still to send of the last one
  got,      \* what read_frame has read of a frame, or <<>> while it hunts
  breaks

linkVars == <<frames, out, got, breaks>>

Parts == <<"start", "head", "body">>
Piece(id, part) == [frame |-> id, part |-> part]
Pieces(id) == [i \in 1..3 |-> Piece(id, Parts[i])]
(* A byte 16#7E that starts no frame of the calculator's.                  *)
FalseStart == Piece(0, "start")

LinkTypeOK ==
  LET piece == [frame : 0..MaxFrames, part : Range(Parts)] IN
  /\ Len(frames) <= MaxFrames /\ Range(frames) \subseteq Frames
  /\ out \in BoundedSeq(piece, 3) /\ got \in BoundedSeq(piece, 3)
  /\ breaks \in 0..MaxBreaks

LinkInit == frames = <<>> /\ out = <<>> /\ got = <<>> /\ breaks = 0

Break == breaks < MaxBreaks /\ breaks' = breaks + 1
-----------------------------------------------------------------------------
(* The calculator.                                                         *)
CalcSends ==
  /\ out = <<>> /\ Len(frames) < MaxFrames
  /\ \E f \in Frames : frames' = Append(frames, f)
  /\ out' = Pieces(Len(frames'))
  /\ UNCHANGED <<got, breaks>>

(* The user leaves, or nobody acknowledges a byte.                         *)
CalcGivesUp ==
  /\ out # <<>> /\ out' = <<>> /\ Break /\ UNCHANGED <<frames, got>>
-----------------------------------------------------------------------------
(* read_frame.  Before a frame any byte but the start byte is noise; 16#7E *)
(* may be a length, or a byte of a payload.                                *)
Hunt ==
  /\ got = <<>> /\ out # <<>> /\ out' = Tail(out)
  /\ \/ Head(out).part = "start" /\ got' = <<Head(out)>>
     \/ Head(out).part # "start" /\ got' \in {<<>>, <<FalseStart>>}
  /\ UNCHANGED <<frames, breaks>>

Noise ==
  /\ got = <<>> /\ out = <<>> /\ got' = <<FalseStart>>
  /\ Break /\ UNCHANGED <<frames, out>>

Mixed == got # SubSeq(Pieces(got[1].frame), 1, Len(got))
Whole == Len(got) = 3 /\ ~Mixed

(* The length of a mixed frame is any length: it takes in whatever comes.  *)
ReadOn ==
  /\ got # <<>> /\ out # <<>> /\ out' = Tail(out)
  /\ ~Whole
  /\ got' = IF Len(got) < 3 THEN Append(got, Head(out)) ELSE got
  /\ UNCHANGED <<frames, breaks>>

(* read_frame returns the frame; the checksum of a mixed one may agree.    *)
FrameRead(id) ==
  /\ got # <<>> /\ got' = <<>>
  /\ \/ Whole /\ id = got[1].frame
     \/ Mixed /\ Len(got) = 3 /\ id = 0

(* RawFrameError: a header that promises too much, a wrong checksum, or no *)
(* byte in time within the frame.                                          *)
FrameBroken ==
  /\ got # <<>> /\ got' = <<>>
  /\ \/ Mixed /\ Len(got) > 1 /\ breaks' = breaks
     \/ ~Whole /\ out = <<>> /\ breaks' = breaks
     \/ ~Whole /\ out # <<>> /\ Break
-----------------------------------------------------------------------------
(* write_frame takes what the calculator reads of it: nothing, a part, or  *)
(* all, with or without the sender noticing.  Neither program of the Pico  *)
(* keeps anything by the outcome but the stage it goes on to.              *)
WriteFrame == UNCHANGED <<frames, out, breaks>>
=============================================================================
