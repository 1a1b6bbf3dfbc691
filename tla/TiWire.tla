------------------------------- MODULE TiWire -------------------------------
(***************************************************************************)
(* The two wires of the calculator link, src/src/wire.py.  Both lines are  *)
(* open collector: a line is low while any end pulls it.  A 0 is sent by   *)
(* pulling TIP and acknowledged on RING, a 1 the other way round.          *)
(*                                                                         *)
(* An end that fails a bit leaves the conversation: send_byte, recv_byte   *)
(* and the packet layer return at once (what they then do is the fault of  *)
(* DbusTransfer).  The calculator is taken to run the same handshake.  A   *)
(* deadline may pass whenever the loop it bounds finds nothing.            *)
(***************************************************************************)
EXTENDS BitConversation

VARIABLES
  pc,        \* where each end is in recv_bit or send_bit
  bit,       \* the bit an end is holding on to
  pulls      \* the lines each end pulls

vars == <<talk, count, heard, pc, bit, pulls>>

Lines == {"tip", "ring"}
Places == {"ready", "look tip", "look ring", "hold", "pull", "drop", "off"}
LineOf(b)     == IF b = 0 THEN "tip" ELSE "ring"
AckLineOf(b)  == IF b = 0 THEN "ring" ELSE "tip"
Low(line)     == \E e \in Ends : line \in pulls[e]

WireInit ==
  /\ talk \in Conversations /\ count = [e \in Ends |-> 0] /\ heard = [e \in Ends |-> {}]
  /\ pc = [e \in Ends |-> "ready"] /\ bit = [e \in Ends |-> 0]
  /\ pulls = [e \in Ends |-> {}]

Goes(e, from, to) == pc[e] = from /\ pc' = [pc EXCEPT ![e] = to]
PullLow(e, line) == pulls' = [pulls EXCEPT ![e] = @ \cup {line}]
Release(e, line) == pulls' = [pulls EXCEPT ![e] = @ \ {line}]
Counts(e) == count' = [count EXCEPT ![e] = @ + 1] /\ UNCHANGED <<talk, bit>>
Waits == UNCHANGED <<talk, count, heard, bit>>

(***************************************************************************)
(* send_bit                                                                *)
(***************************************************************************)
SendBit(e) ==
  /\ Sends(e) /\ Goes(e, "ready", "pull")
  /\ bit' = [bit EXCEPT ![e] = Next1(e).bit]
  /\ PullLow(e, LineOf(Next1(e).bit)) /\ UNCHANGED <<talk, count, heard>>

SendAcknowledged(e) ==
  /\ Low(AckLineOf(bit[e])) /\ Goes(e, "pull", "drop")
  /\ Release(e, LineOf(bit[e])) /\ Waits

(* Mutant: the second loop of send_bit is left out.                        *)
SendDoneAtOnce(e) ==
  Goes(e, "drop", "ready") /\ Counts(e) /\ UNCHANGED <<heard, pulls>>

SendDone(e) ==
  /\ ~Low(AckLineOf(bit[e])) /\ Goes(e, "drop", "ready")
  /\ Counts(e) /\ UNCHANGED <<heard, pulls>>

(* Mutants: the line stays low; the loop has no deadline.                  *)
SendTimeoutHoldsLine(e) ==
  ~Low(AckLineOf(bit[e])) /\ Goes(e, "pull", "off") /\ Waits /\ UNCHANGED pulls
SendNeverTimesOut(e) == FALSE

SendTimeout(e) ==
  /\ ~Low(AckLineOf(bit[e])) /\ Goes(e, "pull", "off")
  /\ Release(e, LineOf(bit[e])) /\ Waits

(* One deadline bounds both loops of send_bit.  The bit may have arrived.  *)
ReleaseNotSeen(e) ==
  Low(AckLineOf(bit[e])) /\ Goes(e, "drop", "off") /\ Waits /\ UNCHANGED pulls

(***************************************************************************)
(* recv_bit, whose second loop has a deadline of its own                   *)
(***************************************************************************)
RecvBit(e) == Reads(e) /\ Goes(e, "ready", "look tip") /\ Waits /\ UNCHANGED pulls

Acknowledge(e, b, place) ==
  /\ Low(LineOf(b)) /\ Goes(e, place, "hold") /\ bit' = [bit EXCEPT ![e] = b]
  /\ PullLow(e, AckLineOf(b)) /\ UNCHANGED <<talk, count, heard>>

(* TIP is read before RING.                                                *)
LookTip(e) ==
  \/ Acknowledge(e, 0, "look tip")
  \/ ~Low("tip") /\ Goes(e, "look tip", "look ring") /\ Waits /\ UNCHANGED pulls

LookRing(e) ==
  \/ Acknowledge(e, 1, "look ring")
  \/ ~Low("ring") /\ Goes(e, "look ring", "look tip") /\ Waits /\ UNCHANGED pulls

NoEdge(e) == ~Low("ring") /\ Goes(e, "look ring", "off") /\ Waits /\ UNCHANGED pulls

(* Mutant: the bit is returned before the sender has let go.               *)
RecvDoneEarly(e) ==
  /\ Goes(e, "hold", "ready") /\ Release(e, AckLineOf(bit[e])) /\ Counts(e)
  /\ heard' = [heard EXCEPT ![e] = @ \cup {<<count[e] + 1, bit[e]>>}]

RecvDone(e) ==
  /\ ~Low(LineOf(bit[e])) /\ Goes(e, "hold", "ready")
  /\ Release(e, AckLineOf(bit[e])) /\ Counts(e)
  /\ heard' = [heard EXCEPT ![e] = @ \cup {<<count[e] + 1, bit[e]>>}]

LineNotReleased(e) ==
  /\ Low(LineOf(bit[e])) /\ Goes(e, "hold", "off")
  /\ Release(e, AckLineOf(bit[e])) /\ Waits

Deadline(e) == SendTimeout(e) \/ ReleaseNotSeen(e) \/ NoEdge(e) \/ LineNotReleased(e)
Polls(e) ==
  \/ SendBit(e) \/ SendAcknowledged(e) \/ SendDone(e)
  \/ RecvBit(e) \/ LookTip(e) \/ LookRing(e) \/ RecvDone(e)

WireNext == \E e \in Ends : Polls(e) \/ Deadline(e)
WireSpec == WireInit /\ [][WireNext]_vars

(* Each end keeps running, and its deadlines pass if nothing else happens. *)
FairWireSpec == WireSpec /\ \A e \in Ends : WF_vars(Polls(e)) /\ SF_vars(Deadline(e))
-----------------------------------------------------------------------------
WireTypeOK ==
  /\ talk \in Conversations /\ count \in [Ends -> 0..Len(talk)]
  /\ heard \in [Ends -> SUBSET ((1..Len(talk)) \X Bit)]
  /\ pc \in [Ends -> Places] /\ bit \in [Ends -> Bit] /\ pulls \in [Ends -> SUBSET Lines]

(* The lines belong to the handshake: an end that is between bits, or has  *)
(* given up, lets both go, and one that sends does not pull the line its   *)
(* peer acknowledges on.                                                   *)
LinesAreFree ==
  \A e \in Ends :
    pulls[e] = CASE pc[e] = "pull" -> {LineOf(bit[e])}
                 [] pc[e] = "hold" -> {AckLineOf(bit[e])}
                 [] OTHER -> {}

(* No bit is lost, doubled or misread, across changes of direction as well *)
(* as within a byte, whatever deadline passes at either end.               *)
HeardIsGenuine ==
  \A e \in Ends :
    heard[e] = {<<i, talk[i].bit>> : i \in {j \in 1..count[e] : talk[j].from # e}}

(* The ends disagree by one bit at most, so that only the last bit of a    *)
(* packet can be seen through at one end alone; and only a sender that     *)
(* outlives the other is ahead.                                            *)
OneBitApart ==
  \A e \in Ends :
    count[e] > count[Peer(e)] =>
      /\ count[e] = count[Peer(e)] + 1
      /\ talk[count[e]].from = e => pc[Peer(e)] = "off"

Gone == {e \in Ends : pc[e] = "off"}
Channel == INSTANCE BitChannel WITH gone <- Gone
ImplementsChannel == Channel!Spec

(* Both functions return: the conversation ends, or an end gives up.       *)
Over(e) == pc[e] = "off" \/ (pc[e] = "ready" /\ ~More(e))
EveryoneStops == <>(\A e \in Ends : Over(e))
=============================================================================
