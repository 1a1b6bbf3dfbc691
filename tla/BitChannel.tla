----------------------------- MODULE BitChannel -----------------------------
(***************************************************************************)
(* What the two ends of the calculator link promise each other, without    *)
(* lines or acknowledgements.  They go through one conversation and stay   *)
(* within one bit of each other: the reader is done with a bit before its  *)
(* sender, and an end that gave up is overtaken by one bit at most.        *)
(***************************************************************************)
EXTENDS BitConversation

VARIABLE gone      \* the ends that gave up

channel == <<talk, count, heard, gone>>

Init ==
  /\ talk \in Conversations /\ count = [e \in Ends |-> 0]
  /\ heard = [e \in Ends |-> {}] /\ gone = {}

Read(e) ==
  /\ e \notin gone /\ Reads(e) /\ count[Peer(e)] = count[e]
  /\ count' = [count EXCEPT ![e] = @ + 1]
  /\ heard' = [heard EXCEPT ![e] = @ \cup {<<count[e] + 1, Next1(e).bit>>}]
  /\ UNCHANGED <<talk, gone>>

Confirm(e) ==
  /\ e \notin gone /\ Sends(e)
  /\ \/ count[Peer(e)] = count[e] + 1
     \/ count[Peer(e)] = count[e] /\ Peer(e) \in gone     \* its last bit is lost
  /\ count' = [count EXCEPT ![e] = @ + 1]
  /\ UNCHANGED <<talk, heard, gone>>

GiveUp(e) ==
  /\ e \notin gone /\ gone' = gone \cup {e} /\ UNCHANGED <<talk, count, heard>>

Next == \E e \in Ends : Read(e) \/ Confirm(e) \/ GiveUp(e)

Spec == Init /\ [][Next]_channel
=============================================================================
