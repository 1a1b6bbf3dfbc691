---------------------------- MODULE TiWireProofs ----------------------------
(***************************************************************************)
(* Proofs about TiWire for every set of conversations.                     *)
(***************************************************************************)
EXTENDS TiWire, TLAPS

(***************************************************************************)
(* The inductive invariant.  A sender past its acknowledgement knows that  *)
(* the reader has the bit, or has given up; a reader that acknowledges     *)
(* holds the bit its sender is on; and the end that is ahead has left the  *)
(* other behind a bit that is through, or for good.                        *)
(***************************************************************************)
Hands(e, f) ==
  /\ pc[e] \in {"pull", "drop"} => Sends(e) /\ bit[e] = Next1(e).bit
  /\ pc[e] \in {"look tip", "look ring", "hold"} => Reads(e)
  /\ pc[e] = "hold" =>
       count[f] = count[e] /\ pc[f] \in {"pull", "drop", "off"} /\ bit[e] = Next1(e).bit
  /\ pc[e] = "drop" =>
       \/ pc[f] = "hold"
       \/ count[f] = count[e] + 1
       \/ pc[f] = "off" /\ count[f] = count[e]

Ahead(e, f) ==
  count[e] > count[f] =>
    /\ count[e] = count[f] + 1
    /\ talk[count[e]].from = e => pc[f] = "off"
    /\ talk[count[e]].from # e => pc[f] \in {"drop", "off"}

HandsMatch == \A e \in Ends : Hands(e, Peer(e)) /\ Ahead(e, Peer(e))

WireInvariant ==
  WireTypeOK /\ LinesAreFree /\ HeardIsGenuine /\ HandsMatch

(***************************************************************************)
(* Ends, lines and bits                                                    *)
(***************************************************************************)
LEMMA PeerFacts ==
  ASSUME NEW e \in Ends
  PROVE  /\ Peer(e) \in Ends /\ Peer(e) # e /\ Peer(Peer(e)) = e
         /\ \A f \in Ends : f = e \/ f = Peer(e)
BY DEF Ends, Peer

LEMMA SequenceElements ==
  ASSUME NEW S, NEW s \in Seq(S) PROVE Len(s) \in Nat /\ \A i \in 1..Len(s) : s[i] \in S
OBVIOUS

LEMMA TalkType ==
  ASSUME WireTypeOK
  PROVE  /\ talk \in Seq([from : Ends, bit : Bit]) /\ Len(talk) \in Nat
         /\ \A i \in 1..Len(talk) : talk[i].from \in Ends /\ talk[i].bit \in Bit
         /\ \A e \in Ends : More(e) => Next1(e).bit \in Bit /\ count[e] + 1 \in 1..Len(talk)
<1>1. talk \in Seq([from : Ends, bit : Bit])
  BY ConversationsAssumption DEF WireTypeOK
<1>2. Len(talk) \in Nat /\ \A i \in 1..Len(talk) : talk[i] \in [from : Ends, bit : Bit]
  BY <1>1, SequenceElements
<1>3. \A e \in Ends : count[e] \in 0..Len(talk)
  BY DEF WireTypeOK
<1>4. QED BY <1>1, <1>2, <1>3 DEF More, Next1

(* Who pulls a line: a sender of its bit or a reader of the other.         *)
LEMMA WhoPulls ==
  ASSUME WireTypeOK, LinesAreFree, NEW b \in Bit
  PROVE  /\ Low(LineOf(b)) <=> \E f \in Ends : \/ pc[f] = "pull" /\ bit[f] = b
                                               \/ pc[f] = "hold" /\ bit[f] # b
         /\ Low(AckLineOf(b)) <=> \E f \in Ends : \/ pc[f] = "pull" /\ bit[f] # b
                                                  \/ pc[f] = "hold" /\ bit[f] = b
<1>1. \A f \in Ends : bit[f] \in Bit
  BY DEF WireTypeOK
<1>2. \A c \in Bit : /\ LineOf(c) = LineOf(b) <=> c = b
                     /\ AckLineOf(c) = AckLineOf(b) <=> c = b
                     /\ LineOf(c) = AckLineOf(b) <=> c # b
                     /\ AckLineOf(c) = LineOf(b) <=> c # b
  BY DEF Bit, LineOf, AckLineOf
<1>3. \A f \in Ends : pulls[f] = CASE pc[f] = "pull" -> {LineOf(bit[f])}
                                   [] pc[f] = "hold" -> {AckLineOf(bit[f])}
                                   [] OTHER -> {}
  BY DEF LinesAreFree
<1>4. ASSUME NEW f \in Ends, NEW line
      PROVE  line \in pulls[f] <=> \/ pc[f] = "pull" /\ LineOf(bit[f]) = line
                                   \/ pc[f] = "hold" /\ AckLineOf(bit[f]) = line
  BY <1>3
<1>5. QED BY <1>1, <1>2, <1>4 DEF Low

(* One more bit behind an end.                                             *)
LEMMA OneMoreHeard ==
  ASSUME NEW t, NEW e, NEW k \in Nat
  PROVE  LET Heard(n) == {<<i, t[i].bit>> : i \in {j \in 1..n : t[j].from # e}}
         IN Heard(k + 1) = IF t[k + 1].from = e THEN Heard(k)
                           ELSE Heard(k) \cup {<<k + 1, t[k + 1].bit>>}
<1>1. 1..(k + 1) = (1..k) \cup {k + 1}
  OBVIOUS
<1>2. QED BY <1>1

(***************************************************************************)
(* The invariant holds                                                     *)
(***************************************************************************)
LEMMA WireInit_Invariant == WireInit => WireInvariant
<1> SUFFICES ASSUME WireInit PROVE WireInvariant
  OBVIOUS
<1>1. Len(talk) \in Nat
  BY ConversationsAssumption DEF WireInit
<1>2. WireTypeOK
  BY <1>1 DEF WireInit, WireTypeOK, Places, Bit
<1>3. LinesAreFree
  BY DEF WireInit, LinesAreFree
<1>4. HeardIsGenuine
  BY DEF WireInit, HeardIsGenuine
<1>5. HandsMatch
  BY PeerFacts DEF WireInit, HandsMatch, Hands, Ahead
<1>6. QED BY <1>2, <1>3, <1>4, <1>5 DEF WireInvariant

(* The invariant, put down for an end e and its peer f.                    *)
Both(e, f) ==
  /\ e # f /\ count[e] \in Nat /\ count[f] \in Nat /\ bit[e] \in Bit /\ bit[f] \in Bit
  /\ Len(talk) \in Nat /\ count[e] <= Len(talk) /\ count[f] <= Len(talk)
  /\ \A i \in 1..Len(talk) : talk[i].bit \in Bit /\ (talk[i].from = e <=> talk[i].from # f)
  /\ Hands(e, f) /\ Hands(f, e) /\ Ahead(e, f) /\ Ahead(f, e)
  /\ pc \in [Ends -> Places] /\ bit \in [Ends -> Bit]
  /\ count \in [Ends -> 0..Len(talk)]

LEMMA BothEnds ==
  ASSUME WireInvariant, NEW e \in Ends, NEW f \in Ends, f = Peer(e) PROVE Both(e, f)
<1>1. Peer(f) = e /\ e # f /\ \A g \in Ends : g = e \/ g = f
  BY PeerFacts
<1>2. Hands(e, f) /\ Hands(f, e) /\ Ahead(e, f) /\ Ahead(f, e)
  BY <1>1 DEF WireInvariant, HandsMatch
<1>3. pc \in [Ends -> Places] /\ bit \in [Ends -> Bit] /\ count \in [Ends -> 0..Len(talk)]
  BY DEF WireInvariant, WireTypeOK
<1>4. Len(talk) \in Nat /\ \A i \in 1..Len(talk) : talk[i].from \in Ends /\ talk[i].bit \in Bit
  BY TalkType DEF WireInvariant
<1>5. \A i \in 1..Len(talk) : talk[i].bit \in Bit /\ (talk[i].from = e <=> talk[i].from # f)
  BY <1>1, <1>4
<1>6. QED BY <1>1, <1>2, <1>3, <1>4, <1>5 DEF Both

LEMMA Trichotomy == \A m \in Nat, n \in Nat : m > n \/ n > m \/ m = n
OBVIOUS

(* Neither end is ahead of one that pulls, unless it is through or gone.   *)
LEMMA SenderIsMet ==
  ASSUME NEW e, NEW f, Both(e, f), pc[f] = "pull",
         pc[e] \in {"pull", "look tip", "look ring"}
  PROVE  count[e] = count[f] /\ pc[e] # "pull" /\ bit[f] = Next1(f).bit
<1>1. ~(count[e] > count[f])
  BY DEF Both, Ahead
<1>2. ~(count[f] > count[e])
  BY DEF Both, Ahead
<1>3. count[e] = count[f]
  <2>1. count[e] \in Nat /\ count[f] \in Nat
    BY DEF Both
  <2>2. QED BY <1>1, <1>2, <2>1, Trichotomy
<1>4. Sends(f) /\ bit[f] = Next1(f).bit
  BY DEF Both, Hands
<1>5. pc[e] = "pull" => Sends(e)
  BY DEF Both, Hands
<1>6. ~(Sends(e) /\ Sends(f))
  BY <1>3 DEF Both, Sends, More, Next1
<1>7. QED BY <1>3, <1>4, <1>5, <1>6

LEMMA EitherPulls ==
  ASSUME WireInvariant, NEW e \in Ends, NEW f \in Ends, f = Peer(e), NEW b \in Bit
  PROVE  /\ Low(LineOf(b)) <=> \/ pc[e] = "pull" /\ bit[e] = b
                               \/ pc[e] = "hold" /\ bit[e] # b
                               \/ pc[f] = "pull" /\ bit[f] = b
                               \/ pc[f] = "hold" /\ bit[f] # b
         /\ Low(AckLineOf(b)) <=> \/ pc[e] = "pull" /\ bit[e] # b
                                  \/ pc[e] = "hold" /\ bit[e] = b
                                  \/ pc[f] = "pull" /\ bit[f] # b
                                  \/ pc[f] = "hold" /\ bit[f] = b
<1>1. \A g \in Ends : g = e \/ g = f
  BY PeerFacts
<1>2. QED BY <1>1, WhoPulls DEF WireInvariant

LEMMA HandsMatchIf ==
  ASSUME NEW e \in Ends, NEW f \in Ends, f = Peer(e),
         Hands(e, f)', Hands(f, e)', Ahead(e, f)', Ahead(f, e)'
  PROVE  HandsMatch'
<1>1. Peer(f) = e /\ \A g \in Ends : g = e \/ g = f
  BY PeerFacts
<1>2. QED BY <1>1 DEF HandsMatch

LEMMA SendBit_Invariant ==
  ASSUME WireInvariant, NEW e \in Ends, SendBit(e) PROVE WireInvariant'
<1>1. PICK f \in Ends : f = Peer(e)
  BY PeerFacts
<1>2. WireTypeOK'
  <2>1. Next1(e).bit \in Bit /\ LineOf(Next1(e).bit) \in Lines
    BY TalkType DEF WireInvariant, SendBit, Sends, LineOf, Lines
  <2>2. QED BY <2>1 DEF WireInvariant, WireTypeOK, Goes, Places, SendBit, PullLow
<1>3. LinesAreFree'
  BY DEF WireInvariant, WireTypeOK, LinesAreFree, Goes, LineOf, AckLineOf, SendBit, PullLow
<1>3a. Both(e, f)
  BY <1>1, BothEnds
<1>4. /\ pc[e] = "ready" /\ pc'[e] = "pull" /\ pc'[f] = pc[f]
      /\ bit'[e] = Next1(e).bit /\ bit'[f] = bit[f]
      /\ count'[e] = count[e] /\ count'[f] = count[f] /\ talk' = talk
  BY <1>1, <1>3a DEF Both, Goes, SendBit, PullLow
<1>6. Hands(e, f)' /\ Hands(f, e)'
  BY <1>3a, <1>4 DEF Both, Hands, Ahead, Sends, Reads, More, Next1, SendBit
<1>7. Ahead(e, f)' /\ Ahead(f, e)'
  BY <1>3a, <1>4 DEF Both, Hands, Ahead, Sends, Reads, More, Next1, SendBit
<1>8. HandsMatch'
  BY <1>1, <1>6, <1>7, HandsMatchIf
<1>9. HeardIsGenuine'
  BY DEF WireInvariant, HeardIsGenuine, SendBit, PullLow
<1>10. QED BY <1>2, <1>3, <1>8, <1>9 DEF WireInvariant

LEMMA SendAcknowledged_Invariant ==
  ASSUME WireInvariant, NEW e \in Ends, SendAcknowledged(e) PROVE WireInvariant'
<1>1. PICK f \in Ends : f = Peer(e)
  BY PeerFacts
<1>2. WireTypeOK'
  BY TalkType DEF WireInvariant, WireTypeOK, Goes, Places, Lines, LineOf, AckLineOf, Bit, SendAcknowledged, Release, Waits
<1>3. LinesAreFree'
  BY DEF WireInvariant, WireTypeOK, LinesAreFree, Goes, LineOf, AckLineOf, SendAcknowledged, Release, Waits
<1>3a. Both(e, f)
  BY <1>1, BothEnds
<1>4. /\ pc[e] = "pull" /\ pc'[e] = "drop" /\ pc'[f] = pc[f]
      /\ bit'[e] = bit[e] /\ bit'[f] = bit[f]
      /\ count'[e] = count[e] /\ count'[f] = count[f] /\ talk' = talk
  BY <1>1, <1>3a DEF Both, Goes, SendAcknowledged, Release, Waits
<1>5. ((pc[f] = "pull" /\ bit[f] # bit[e]) \/ (pc[f] = "hold" /\ bit[f] = bit[e]))
  BY <1>1, <1>3a, <1>4, EitherPulls DEF Both, SendAcknowledged, Release, Waits
<1>5a. pc[f] = "hold" /\ count[f] = count[e]
  <2>1. pc[f] # "pull"
    BY <1>3a, <1>4, SenderIsMet
  <2>2. QED BY <1>3a, <1>5, <2>1 DEF Both, Hands
<1>6. Hands(e, f)' /\ Hands(f, e)'
  BY <1>3a, <1>4, <1>5a DEF Both, Hands, Ahead, Sends, Reads, More, Next1
<1>7. Ahead(e, f)' /\ Ahead(f, e)'
  BY <1>3a, <1>4, <1>5a DEF Both, Hands, Ahead, Sends, Reads, More, Next1
<1>8. HandsMatch'
  BY <1>1, <1>6, <1>7, HandsMatchIf
<1>9. HeardIsGenuine'
  BY DEF WireInvariant, HeardIsGenuine, SendAcknowledged, Release, Waits
<1>10. QED BY <1>2, <1>3, <1>8, <1>9 DEF WireInvariant

LEMMA SendDone_Invariant ==
  ASSUME WireInvariant, NEW e \in Ends, SendDone(e) PROVE WireInvariant'
<1>1. PICK f \in Ends : f = Peer(e)
  BY PeerFacts
<1>2. WireTypeOK'
  <2>1. Sends(e)
    BY <1>1, BothEnds DEF Both, Hands, Goes, SendDone
  <2>2. count[e] + 1 \in 0..Len(talk)
    BY <2>1, TalkType DEF WireInvariant, Sends
  <2>3. QED BY <2>2 DEF WireInvariant, WireTypeOK, Goes, Places, SendDone, Counts
<1>3. LinesAreFree'
  BY DEF WireInvariant, WireTypeOK, LinesAreFree, Goes, LineOf, AckLineOf, SendDone, Counts
<1>3a. Both(e, f)
  BY <1>1, BothEnds
<1>4. /\ pc[e] = "drop" /\ pc'[e] = "ready" /\ pc'[f] = pc[f]
      /\ bit'[e] = bit[e] /\ bit'[f] = bit[f]
      /\ count'[e] = count[e] + 1 /\ count'[f] = count[f] /\ talk' = talk
  BY <1>1, <1>3a DEF Both, Goes, SendDone, Counts
<1>5. ~((pc[f] = "pull" /\ bit[f] # bit[e]) \/ (pc[f] = "hold" /\ bit[f] = bit[e]))
  BY <1>1, <1>3a, <1>4, EitherPulls DEF Both, SendDone, Counts
<1>5a. count[f] = count[e] + 1 \/ (pc[f] = "off" /\ count[f] = count[e])
  BY <1>3a, <1>4, <1>5 DEF Both, Hands, Ahead, Sends, Reads, More, Next1
<1>5b. pc[f] \notin {"hold", "drop"}
  <2>1. pc[f] # "hold"
    BY <1>3a, <1>4, <1>5 DEF Both, Hands, Next1
  <2>2. pc[f] # "drop"
    <3>1. pc[f] # "off" => count[e] # count[f] + 1
      BY <1>3a, <1>5a DEF Both
    <3>2. QED BY <1>3a, <1>4, <3>1 DEF Both, Hands
  <2>3. QED BY <2>1, <2>2
<1>6. Hands(e, f)' /\ Hands(f, e)'
  <2>1. Hands(e, f)'
    BY <1>4 DEF Hands
  <2>2. Hands(f, e)'
    BY <1>3a, <1>4, <1>5b DEF Both, Hands, Sends, Reads, More, Next1
  <2>3. QED BY <2>1, <2>2
<1>7. Ahead(e, f)' /\ Ahead(f, e)'
  <2>1. CASE count[f] = count[e] + 1
    BY <1>3a, <1>4, <2>1 DEF Both, Ahead
  <2>2. CASE pc[f] = "off" /\ count[f] = count[e]
    BY <1>3a, <1>4, <2>2 DEF Both, Ahead
  <2>3. QED BY <1>5a, <2>1, <2>2
<1>8. HandsMatch'
  BY <1>1, <1>6, <1>7, HandsMatchIf
<1>9. HeardIsGenuine'
  <2>1. Next1(e).from = e
    BY <1>3a, <1>4 DEF Both, Hands, Sends, Reads
  <2>2. heard'[e] = heard[e] /\ heard'[f] = heard[f]
    BY <1>1, <1>3a DEF Both, WireInvariant, WireTypeOK, SendDone, Counts
  <2>3. heard'[e] = {<<i, talk[i].bit>> : i \in {j \in 1..(count[e] + 1) : talk[j].from # e}}
    BY <1>1, <2>1, <2>2, <1>3a, OneMoreHeard DEF Both, WireInvariant, HeardIsGenuine, Next1
  <2>4. \A g \in Ends : g = e \/ g = f
    BY <1>1, PeerFacts
  <2>5. QED BY <1>4, <2>2, <2>3, <2>4 DEF WireInvariant, HeardIsGenuine
<1>10. QED BY <1>2, <1>3, <1>8, <1>9 DEF WireInvariant

LEMMA SendTimeout_Invariant ==
  ASSUME WireInvariant, NEW e \in Ends, SendTimeout(e) PROVE WireInvariant'
<1>1. PICK f \in Ends : f = Peer(e)
  BY PeerFacts
<1>2. WireTypeOK'
  BY TalkType DEF WireInvariant, WireTypeOK, Goes, Places, Lines, LineOf, AckLineOf, Bit, SendTimeout, Release, Waits
<1>3. LinesAreFree'
  BY DEF WireInvariant, WireTypeOK, LinesAreFree, Goes, LineOf, AckLineOf, SendTimeout, Release, Waits
<1>3a. Both(e, f)
  BY <1>1, BothEnds
<1>4. /\ pc[e] = "pull" /\ pc'[e] = "off" /\ pc'[f] = pc[f]
      /\ bit'[e] = bit[e] /\ bit'[f] = bit[f]
      /\ count'[e] = count[e] /\ count'[f] = count[f] /\ talk' = talk
  BY <1>1, <1>3a DEF Both, Goes, SendTimeout, Release, Waits
<1>6. Hands(e, f)' /\ Hands(f, e)'
  BY <1>3a, <1>4 DEF Both, Hands, Ahead, Sends, Reads, More, Next1
<1>7. Ahead(e, f)' /\ Ahead(f, e)'
  BY <1>3a, <1>4 DEF Both, Hands, Ahead, Sends, Reads, More, Next1
<1>8. HandsMatch'
  BY <1>1, <1>6, <1>7, HandsMatchIf
<1>9. HeardIsGenuine'
  BY DEF WireInvariant, HeardIsGenuine, SendTimeout, Release, Waits
<1>10. QED BY <1>2, <1>3, <1>8, <1>9 DEF WireInvariant

LEMMA ReleaseNotSeen_Invariant ==
  ASSUME WireInvariant, NEW e \in Ends, ReleaseNotSeen(e) PROVE WireInvariant'
<1>1. PICK f \in Ends : f = Peer(e)
  BY PeerFacts
<1>2. WireTypeOK'
  BY TalkType DEF WireInvariant, WireTypeOK, Goes, Places, Lines, LineOf, AckLineOf, Bit, ReleaseNotSeen, Waits
<1>3. LinesAreFree'
  BY DEF WireInvariant, WireTypeOK, LinesAreFree, Goes, LineOf, AckLineOf, ReleaseNotSeen, Waits
<1>3a. Both(e, f)
  BY <1>1, BothEnds
<1>4. /\ pc[e] = "drop" /\ pc'[e] = "off" /\ pc'[f] = pc[f]
      /\ bit'[e] = bit[e] /\ bit'[f] = bit[f]
      /\ count'[e] = count[e] /\ count'[f] = count[f] /\ talk' = talk
  BY <1>1, <1>3a DEF Both, Goes, ReleaseNotSeen, Waits
<1>6. Hands(e, f)' /\ Hands(f, e)'
  BY <1>3a, <1>4 DEF Both, Hands, Ahead, Sends, Reads, More, Next1
<1>7. Ahead(e, f)' /\ Ahead(f, e)'
  BY <1>3a, <1>4 DEF Both, Hands, Ahead, Sends, Reads, More, Next1
<1>8. HandsMatch'
  BY <1>1, <1>6, <1>7, HandsMatchIf
<1>9. HeardIsGenuine'
  BY DEF WireInvariant, HeardIsGenuine, ReleaseNotSeen, Waits
<1>10. QED BY <1>2, <1>3, <1>8, <1>9 DEF WireInvariant

LEMMA RecvBit_Invariant ==
  ASSUME WireInvariant, NEW e \in Ends, RecvBit(e) PROVE WireInvariant'
<1>1. PICK f \in Ends : f = Peer(e)
  BY PeerFacts
<1>2. WireTypeOK'
  BY TalkType DEF WireInvariant, WireTypeOK, Goes, Places, Lines, LineOf, AckLineOf, Bit, RecvBit, Waits
<1>3. LinesAreFree'
  BY DEF WireInvariant, WireTypeOK, LinesAreFree, Goes, LineOf, AckLineOf, RecvBit, Waits
<1>3a. Both(e, f)
  BY <1>1, BothEnds
<1>4. /\ pc[e] = "ready" /\ pc'[e] = "look tip" /\ pc'[f] = pc[f]
      /\ bit'[e] = bit[e] /\ bit'[f] = bit[f]
      /\ count'[e] = count[e] /\ count'[f] = count[f] /\ talk' = talk
  BY <1>1, <1>3a DEF Both, Goes, RecvBit, Waits
<1>6. Hands(e, f)' /\ Hands(f, e)'
  BY <1>3a, <1>4 DEF Both, Hands, Ahead, Sends, Reads, More, Next1, RecvBit
<1>7. Ahead(e, f)' /\ Ahead(f, e)'
  BY <1>3a, <1>4 DEF Both, Hands, Ahead, Sends, Reads, More, Next1, RecvBit
<1>8. HandsMatch'
  BY <1>1, <1>6, <1>7, HandsMatchIf
<1>9. HeardIsGenuine'
  BY ZenonT(40) DEF WireInvariant, HeardIsGenuine, RecvBit, Waits
<1>10. QED BY <1>2, <1>3, <1>8, <1>9 DEF WireInvariant

LEMMA NoEdge_Invariant ==
  ASSUME WireInvariant, NEW e \in Ends, NoEdge(e) PROVE WireInvariant'
<1>1. PICK f \in Ends : f = Peer(e)
  BY PeerFacts
<1>2. WireTypeOK'
  BY TalkType DEF WireInvariant, WireTypeOK, Goes, Places, Lines, LineOf, AckLineOf, Bit, NoEdge, Waits
<1>3. LinesAreFree'
  BY DEF WireInvariant, WireTypeOK, LinesAreFree, Goes, LineOf, AckLineOf, NoEdge, Waits
<1>3a. Both(e, f)
  BY <1>1, BothEnds
<1>4. /\ pc[e] = "look ring" /\ pc'[e] = "off" /\ pc'[f] = pc[f]
      /\ bit'[e] = bit[e] /\ bit'[f] = bit[f]
      /\ count'[e] = count[e] /\ count'[f] = count[f] /\ talk' = talk
  BY <1>1, <1>3a DEF Both, Goes, NoEdge, Waits
<1>6. Hands(e, f)' /\ Hands(f, e)'
  BY <1>3a, <1>4 DEF Both, Hands, Ahead, Sends, Reads, More, Next1
<1>7. Ahead(e, f)' /\ Ahead(f, e)'
  BY <1>3a, <1>4 DEF Both, Hands, Ahead, Sends, Reads, More, Next1
<1>8. HandsMatch'
  BY <1>1, <1>6, <1>7, HandsMatchIf
<1>9. HeardIsGenuine'
  BY DEF WireInvariant, HeardIsGenuine, NoEdge, Waits
<1>10. QED BY <1>2, <1>3, <1>8, <1>9 DEF WireInvariant

LEMMA RecvDone_Invariant ==
  ASSUME WireInvariant, NEW e \in Ends, RecvDone(e) PROVE WireInvariant'
<1>1. PICK f \in Ends : f = Peer(e)
  BY PeerFacts
<1>2. WireTypeOK'
  <2>1. Reads(e)
    BY <1>1, BothEnds DEF Both, Hands, Goes, RecvDone
  <2>2. /\ count[e] + 1 \in 1..Len(talk) /\ count[e] + 1 \in 0..Len(talk)
        /\ <<count[e] + 1, bit[e]>> \in (1..Len(talk)) \X Bit
    BY <2>1, TalkType DEF WireInvariant, WireTypeOK, Reads
  <2>3. heard' \in [Ends -> SUBSET ((1..Len(talk)) \X Bit)]
    BY <2>2 DEF WireInvariant, WireTypeOK, RecvDone
  <2>4. QED BY <2>2, <2>3 DEF WireInvariant, WireTypeOK, Goes, Places, RecvDone, Release, Counts
<1>3. LinesAreFree'
  BY DEF WireInvariant, WireTypeOK, LinesAreFree, Goes, LineOf, AckLineOf, RecvDone, Release, Counts
<1>3a. Both(e, f)
  BY <1>1, BothEnds
<1>4. /\ pc[e] = "hold" /\ pc'[e] = "ready" /\ pc'[f] = pc[f]
      /\ bit'[e] = bit[e] /\ bit'[f] = bit[f]
      /\ count'[e] = count[e] + 1 /\ count'[f] = count[f] /\ talk' = talk
  BY <1>1, <1>3a DEF Both, Goes, RecvDone, Release, Counts
<1>5. ~((pc[f] = "pull" /\ bit[f] = bit[e]) \/ (pc[f] = "hold" /\ bit[f] # bit[e]))
  BY <1>1, <1>3a, <1>4, EitherPulls DEF Both, RecvDone, Release, Counts
<1>5a. pc[f] \in {"drop", "off"} /\ count[f] = count[e]
  BY <1>3a, <1>4, <1>5 DEF Both, Hands, Ahead, Sends, Reads, More, Next1
<1>6. Hands(e, f)' /\ Hands(f, e)'
  BY <1>3a, <1>4, <1>5a DEF Both, Hands, Ahead, Sends, Reads, More, Next1
<1>7. Ahead(e, f)' /\ Ahead(f, e)'
  <2>1. talk[count[e] + 1].from # e
    BY <1>3a, <1>4 DEF Both, Hands, Reads, Next1
  <2>2. QED BY <1>3a, <1>4, <1>5a, <2>1 DEF Both, Ahead
<1>8. HandsMatch'
  BY <1>1, <1>6, <1>7, HandsMatchIf
<1>9. HeardIsGenuine'
  <2>1. Next1(e).from # e /\ bit[e] = Next1(e).bit
    BY <1>3a, <1>4 DEF Both, Hands, Sends, Reads
  <2>2. heard'[e] = heard[e] \cup {<<count[e] + 1, bit[e]>>} /\ heard'[f] = heard[f]
    BY <1>1, <1>3a DEF Both, WireInvariant, WireTypeOK, RecvDone, Release, Counts
  <2>3. heard'[e] = {<<i, talk[i].bit>> : i \in {j \in 1..(count[e] + 1) : talk[j].from # e}}
    BY <1>1, <2>1, <2>2, <1>3a, OneMoreHeard DEF Both, WireInvariant, HeardIsGenuine, Next1
  <2>4. \A g \in Ends : g = e \/ g = f
    BY <1>1, PeerFacts
  <2>5. QED BY <1>4, <2>2, <2>3, <2>4 DEF WireInvariant, HeardIsGenuine
<1>10. QED BY <1>2, <1>3, <1>8, <1>9 DEF WireInvariant

LEMMA LineNotReleased_Invariant ==
  ASSUME WireInvariant, NEW e \in Ends, LineNotReleased(e) PROVE WireInvariant'
<1>1. PICK f \in Ends : f = Peer(e)
  BY PeerFacts
<1>2. WireTypeOK'
  BY TalkType DEF WireInvariant, WireTypeOK, Goes, Places, Lines, LineOf, AckLineOf, Bit, LineNotReleased, Release, Waits
<1>3. LinesAreFree'
  BY DEF WireInvariant, WireTypeOK, LinesAreFree, Goes, LineOf, AckLineOf, LineNotReleased, Release, Waits
<1>3a. Both(e, f)
  BY <1>1, BothEnds
<1>4. /\ pc[e] = "hold" /\ pc'[e] = "off" /\ pc'[f] = pc[f]
      /\ bit'[e] = bit[e] /\ bit'[f] = bit[f]
      /\ count'[e] = count[e] /\ count'[f] = count[f] /\ talk' = talk
  BY <1>1, <1>3a DEF Both, Goes, LineNotReleased, Release, Waits
<1>6. Hands(e, f)' /\ Hands(f, e)'
  BY <1>3a, <1>4 DEF Both, Hands, Ahead, Sends, Reads, More, Next1
<1>7. Ahead(e, f)' /\ Ahead(f, e)'
  BY <1>3a, <1>4 DEF Both, Hands, Ahead, Sends, Reads, More, Next1
<1>8. HandsMatch'
  BY <1>1, <1>6, <1>7, HandsMatchIf
<1>9. HeardIsGenuine'
  BY DEF WireInvariant, HeardIsGenuine, LineNotReleased, Release, Waits
<1>10. QED BY <1>2, <1>3, <1>8, <1>9 DEF WireInvariant

LEMMA Acknowledge_Invariant ==
  ASSUME WireInvariant, NEW e \in Ends, NEW b \in Bit, NEW place \in {"look tip", "look ring"},
         Acknowledge(e, b, place)
  PROVE  WireInvariant'
<1>1. PICK f \in Ends : f = Peer(e)
  BY PeerFacts
<1>2. WireTypeOK'
  BY TalkType DEF WireInvariant, WireTypeOK, Goes, Places, Lines, LineOf, AckLineOf, Bit, Acknowledge, PullLow
<1>3. LinesAreFree'
  BY DEF WireInvariant, WireTypeOK, LinesAreFree, Goes, LineOf, AckLineOf, Acknowledge, PullLow
<1>3a. Both(e, f)
  BY <1>1, BothEnds
<1>4. /\ pc[e] = place /\ pc'[e] = "hold" /\ pc'[f] = pc[f]
      /\ bit'[e] = b /\ bit'[f] = bit[f]
      /\ count'[e] = count[e] /\ count'[f] = count[f] /\ talk' = talk
  BY <1>1, <1>3a DEF Both, Goes, Acknowledge, PullLow
<1>5. ((pc[f] = "pull" /\ bit[f] = b) \/ (pc[f] = "hold" /\ bit[f] # b))
  BY ZenonT(40), <1>1, <1>3a, <1>4, EitherPulls DEF Both, Acknowledge, PullLow
<1>5a. pc[f] = "pull" /\ count[f] = count[e] /\ Next1(f).bit = b
  <2>1. pc[f] # "hold"
    BY <1>3a, <1>4 DEF Both, Hands
  <2>2. QED BY <1>3a, <1>4, <1>5, <2>1, SenderIsMet
<1>6. Hands(e, f)' /\ Hands(f, e)'
  BY <1>3a, <1>4, <1>5a DEF Both, Hands, Ahead, Sends, Reads, More, Next1
<1>7. Ahead(e, f)' /\ Ahead(f, e)'
  BY <1>3a, <1>4, <1>5a DEF Both, Hands, Ahead, Sends, Reads, More, Next1
<1>8. HandsMatch'
  BY <1>1, <1>6, <1>7, HandsMatchIf
<1>9. HeardIsGenuine'
  BY ZenonT(40) DEF WireInvariant, HeardIsGenuine, Acknowledge, PullLow
<1>10. QED BY <1>2, <1>3, <1>8, <1>9 DEF WireInvariant

LEMMA LookOn_Invariant ==
  ASSUME WireInvariant, NEW e \in Ends,
         NEW from \in {"look tip", "look ring"}, NEW to \in {"look tip", "look ring"},
         Goes(e, from, to), Waits, UNCHANGED pulls
  PROVE  WireInvariant'
<1>1. PICK f \in Ends : f = Peer(e)
  BY PeerFacts
<1>2. WireTypeOK'
  BY DEF WireInvariant, WireTypeOK, Goes, Places, Waits
<1>3. LinesAreFree'
  BY DEF WireInvariant, WireTypeOK, LinesAreFree, Goes, Waits
<1>3a. Both(e, f)
  BY <1>1, BothEnds
<1>4. /\ pc[e] = from /\ pc'[e] = to /\ pc'[f] = pc[f]
      /\ bit' = bit /\ count' = count /\ talk' = talk
  BY <1>1, <1>3a DEF Both, Goes, Waits
<1>5. Hands(e, f)' /\ Hands(f, e)' /\ Ahead(e, f)' /\ Ahead(f, e)'
  BY <1>3a, <1>4 DEF Both, Hands, Ahead, Sends, Reads, More, Next1
<1>6. HandsMatch'
  BY <1>1, <1>5, HandsMatchIf
<1>7. HeardIsGenuine'
  BY DEF WireInvariant, HeardIsGenuine, Waits
<1>8. QED BY <1>2, <1>3, <1>6, <1>7 DEF WireInvariant

LEMMA WireStep_Invariant == WireInvariant /\ [WireNext]_vars => WireInvariant'
<1> SUFFICES ASSUME WireInvariant, [WireNext]_vars PROVE WireInvariant'
  OBVIOUS
<1>1. ASSUME NEW e \in Ends, Polls(e) PROVE WireInvariant'
  <2>1. CASE LookTip(e)
    <3>1. ASSUME Acknowledge(e, 0, "look tip") PROVE WireInvariant'
      BY <3>1, Acknowledge_Invariant DEF Bit
    <3>2. ASSUME Goes(e, "look tip", "look ring"), Waits, UNCHANGED pulls PROVE WireInvariant'
      BY <3>2, LookOn_Invariant
    <3>3. QED BY <2>1, <3>1, <3>2 DEF LookTip
  <2>2. CASE LookRing(e)
    <3>1. ASSUME Acknowledge(e, 1, "look ring") PROVE WireInvariant'
      BY <3>1, Acknowledge_Invariant DEF Bit
    <3>2. ASSUME Goes(e, "look ring", "look tip"), Waits, UNCHANGED pulls PROVE WireInvariant'
      BY <3>2, LookOn_Invariant
    <3>3. QED BY <2>2, <3>1, <3>2 DEF LookRing
  <2>3. QED
    BY <1>1, <2>1, <2>2, SendBit_Invariant, SendAcknowledged_Invariant, SendDone_Invariant,
       RecvBit_Invariant, RecvDone_Invariant DEF Polls
<1>2. ASSUME NEW e \in Ends, Deadline(e) PROVE WireInvariant'
  BY <1>2, SendTimeout_Invariant, ReleaseNotSeen_Invariant, NoEdge_Invariant,
     LineNotReleased_Invariant DEF Deadline
<1>3. CASE UNCHANGED vars
  <2>1. WireTypeOK' /\ LinesAreFree' /\ HeardIsGenuine'
    BY <1>3 DEF vars, WireInvariant, WireTypeOK, LinesAreFree, HeardIsGenuine
  <2>2. HandsMatch'
    BY <1>3 DEF vars, WireInvariant, HandsMatch, Hands, Ahead, Sends, Reads, More, Next1
  <2>3. QED BY <2>1, <2>2 DEF WireInvariant
<1>4. QED BY <1>1, <1>2, <1>3 DEF WireNext

(* The invariant holds in every state of the wire.                         *)
THEOREM WireInvariantHolds == WireSpec => []WireInvariant
BY WireInit_Invariant, WireStep_Invariant, PTL DEF WireSpec

(* No bit is lost, doubled or misread, however long the conversation and   *)
(* whatever deadlines pass.                                                *)
THEOREM WireHearsWhatIsSent == WireSpec => []HeardIsGenuine
<1>1. WireInvariant => HeardIsGenuine
  BY DEF WireInvariant
<1>2. QED BY <1>1, WireInvariantHolds, PTL

(* The lines are free between bits and after a bit that failed.            *)
THEOREM WireLinesAreFree == WireSpec => []LinesAreFree
<1>1. WireInvariant => LinesAreFree
  BY DEF WireInvariant
<1>2. QED BY <1>1, WireInvariantHolds, PTL

(* The ends are within one bit of each other.                              *)
THEOREM WireEndsStayClose == WireSpec => []OneBitApart
<1>1. ASSUME WireInvariant PROVE OneBitApart
  <2>1. ASSUME NEW e \in Ends
        PROVE  count[e] > count[Peer(e)] =>
                 /\ count[e] = count[Peer(e)] + 1
                 /\ talk[count[e]].from = e => pc[Peer(e)] = "off"
    BY <1>1, PeerFacts DEF WireInvariant, HandsMatch, Ahead
  <2>2. QED BY <2>1 DEF OneBitApart
<1>2. QED BY <1>1, WireInvariantHolds, PTL

(***************************************************************************)
(* The wire implements the channel                                         *)
(***************************************************************************)
LEMMA WireInit_Channel == WireInit => Channel!Init
<1>1. WireInit => Gone = {}
  BY DEF WireInit, Gone
<1>2. QED BY <1>1 DEF WireInit, Channel!Init, Ends, Channel!Ends

(* A step that leaves an end within its bit is none of the channel's.      *)
LEMMA Within_Channel ==
  ASSUME WireInvariant, NEW e \in Ends, UNCHANGED <<talk, count, heard>>,
         NEW to \in Places \ {"off"}, pc[e] # "off", pc' = [pc EXCEPT ![e] = to]
  PROVE  UNCHANGED Channel!channel
<1>1. \A g \in Ends : pc'[g] = "off" <=> pc[g] = "off"
  BY DEF WireInvariant, WireTypeOK
<1>2. Gone' = Gone
  BY <1>1 DEF Gone
<1>3. QED BY <1>2 DEF Channel!channel

LEMMA GivesUp_Channel ==
  ASSUME WireInvariant, NEW e \in Ends, UNCHANGED <<talk, count, heard>>,
         pc[e] # "off", pc' = [pc EXCEPT ![e] = "off"]
  PROVE  Channel!GiveUp(e)
<1>1. \A g \in Ends : pc'[g] = "off" <=> pc[g] = "off" \/ g = e
  BY DEF WireInvariant, WireTypeOK
<1>2. Gone' = Gone \cup {e} /\ e \notin Gone
  BY <1>1 DEF Gone
<1>3. QED BY <1>2 DEF Channel!GiveUp

LEMMA SendDone_Channel ==
  ASSUME WireInvariant, NEW e \in Ends, SendDone(e) PROVE Channel!Confirm(e)
<1>1. PICK f \in Ends : f = Peer(e)
  BY PeerFacts
<1>2. Both(e, f)
  BY <1>1, BothEnds
<1>3. Sends(e) /\ e \notin Gone
  BY <1>2 DEF Both, Hands, SendDone, Goes, Gone
<1>4. count[f] = count[e] + 1 \/ (count[f] = count[e] /\ f \in Gone)
  <2>1. ~(pc[f] = "hold" /\ bit[f] = bit[e])
    BY <1>1, <1>2, EitherPulls DEF Both, SendDone
  <2>2. pc[f] # "hold"
    BY <1>2, <2>1 DEF Both, Hands, SendDone, Goes, Next1
  <2>3. QED BY <1>2, <2>2 DEF Both, Hands, SendDone, Goes, Gone
<1>5. Gone' = Gone
  <2>1. \A g \in Ends : pc'[g] = "off" <=> pc[g] = "off"
    BY DEF WireInvariant, WireTypeOK, SendDone, Goes
  <2>2. QED BY <2>1 DEF Gone
<1>6. QED
  BY <1>1, <1>3, <1>4, <1>5 DEF Channel!Confirm, Channel!Sends, Channel!More, Channel!Next1,
     Channel!Peer, Peer, Sends, More, Next1, SendDone, Counts

LEMMA RecvDone_Channel ==
  ASSUME WireInvariant, NEW e \in Ends, RecvDone(e) PROVE Channel!Read(e)
<1>1. PICK f \in Ends : f = Peer(e)
  BY PeerFacts
<1>2. Both(e, f)
  BY <1>1, BothEnds
<1>3. Reads(e) /\ e \notin Gone /\ count[f] = count[e] /\ bit[e] = Next1(e).bit
  BY <1>2 DEF Both, Hands, RecvDone, Goes, Gone
<1>4. Gone' = Gone
  <2>1. \A g \in Ends : pc'[g] = "off" <=> pc[g] = "off"
    BY DEF WireInvariant, WireTypeOK, RecvDone, Goes
  <2>2. QED BY <2>1 DEF Gone
<1>5. QED
  BY <1>1, <1>3, <1>4 DEF Channel!Read, Channel!Reads, Channel!More, Channel!Next1,
     Channel!Peer, Peer, Reads, More, Next1, RecvDone, Counts

LEMMA WireStep_Channel ==
  WireInvariant /\ [WireNext]_vars => [Channel!Next]_(Channel!channel)
<1> SUFFICES ASSUME WireInvariant, [WireNext]_vars
             PROVE  Channel!Next \/ UNCHANGED Channel!channel
  OBVIOUS
<1>1. ASSUME NEW e \in Ends, Polls(e) PROVE Channel!Next \/ UNCHANGED Channel!channel
  <2>1. CASE SendDone(e)
    BY <2>1, SendDone_Channel DEF Channel!Next, Channel!Ends, Ends
  <2>2. CASE RecvDone(e)
    BY <2>2, RecvDone_Channel DEF Channel!Next, Channel!Ends, Ends
  <2>3. CASE SendBit(e) \/ SendAcknowledged(e) \/ RecvBit(e) \/ LookTip(e) \/ LookRing(e)
    <3>1. /\ UNCHANGED <<talk, count, heard>> /\ pc[e] # "off"
          /\ \E to \in Places \ {"off"} : pc' = [pc EXCEPT ![e] = to]
      BY <2>3 DEF SendBit, SendAcknowledged, RecvBit, LookTip, LookRing, Acknowledge, Goes,
                  Waits, Places
    <3>2. QED BY <3>1, Within_Channel
  <2>4. QED BY <1>1, <2>1, <2>2, <2>3 DEF Polls
<1>2. ASSUME NEW e \in Ends, Deadline(e) PROVE Channel!Next
  <2>1. /\ UNCHANGED <<talk, count, heard>> /\ pc[e] # "off"
        /\ pc' = [pc EXCEPT ![e] = "off"]
    BY <1>2 DEF Deadline, SendTimeout, ReleaseNotSeen, NoEdge, LineNotReleased, Goes, Waits
  <2>2. QED BY <2>1, GivesUp_Channel DEF Channel!Next, Channel!Ends, Ends
<1>3. CASE UNCHANGED vars
  BY <1>3 DEF vars, Channel!channel, Gone
<1>4. QED BY <1>1, <1>2, <1>3 DEF WireNext

(* Every behaviour of the lines is one of the channel: what the two ends   *)
(* have sent and read, and who gave up, is all that matters of them.       *)
THEOREM WireImplementsChannel == WireSpec => ImplementsChannel
<1>1. WireInvariant /\ [WireNext]_vars => [Channel!Next]_(Channel!channel)
  BY WireStep_Channel
<1>2. QED
  BY WireInit_Channel, WireInvariantHolds, <1>1, PTL
     DEF WireSpec, ImplementsChannel, Channel!Spec
=============================================================================
