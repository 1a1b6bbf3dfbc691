--------------------------- MODULE BitConversation ---------------------------
(***************************************************************************)
(* What passes over the calculator link, bit by bit: each bit of the       *)
(* conversation has an end that sends it and one that reads it.            *)
(***************************************************************************)
EXTENDS Integers, Sequences

CONSTANT Conversations   \* the conversations considered

Ends == {"pico", "calc"}
Bit  == {0, 1}

ASSUME ConversationsAssumption ==
  Conversations \subseteq Seq([from : Ends, bit : Bit])

VARIABLES
  talk,      \* the conversation, fixed
  count,     \* how many of its bits each end has behind it
  heard      \* history: the bits each end has read, with their places

Peer(e)  == IF e = "pico" THEN "calc" ELSE "pico"
More(e)  == count[e] < Len(talk)
Next1(e) == talk[count[e] + 1]
Sends(e) == More(e) /\ Next1(e).from = e
Reads(e) == More(e) /\ Next1(e).from # e
=============================================================================
