------------------------------ MODULE PicoFirmware ------------------------------
(***************************************************************************)
(* The Pico as src/src/main.py starts it: the bridge to the phone, or the  *)
(* mock that answers without one, at the end of the same raw link.         *)
(***************************************************************************)
EXTENDS AxeBridge, AxeMock

CONSTANTS
  Opaque,      \* the frames that stand for all where the bridge reads them
  MaxBridged   \* bound: frames sent to the bridge

ASSUME PicoAssumption == Opaque \subseteq Frames /\ MaxBridged \in Nat

VARIABLE firmware   \* set in secrets.py: "bridge" or "mock"

vars == <<linkVars, bridgeVars, mockVars, firmware>>

TypeOK == LinkTypeOK /\ BridgeTypeOK /\ MockTypeOK

Init ==
  /\ LinkInit /\ BridgeInit /\ MockInit /\ firmware \in {"bridge", "mock"}

Listening == firmware = "mock" \/ stage = "read"

OnTheLink ==
  /\ \/ /\ CalcSends
        /\ firmware = "bridge" => Last(frames') \in Opaque /\ Len(frames') <= MaxBridged
     \/ CalcGivesUp
     \/ Listening /\ (Hunt \/ Noise \/ ReadOn)
  /\ UNCHANGED <<bridgeVars, mockVars, firmware>>

Next ==
  \/ OnTheLink
  \/ firmware = "bridge" /\ BridgeStep /\ UNCHANGED <<mockVars, firmware>>
  \/ firmware = "mock" /\ MockStep /\ UNCHANGED <<bridgeVars, firmware>>

Spec == Init /\ [][Next]_vars
-----------------------------------------------------------------------------
(* The answer written to the calculator is the phone's answer to that very *)
(* request, catalogs, lost relays and resets in between notwithstanding,   *)
(* unless an earlier request went without its answer: on this relay, or on *)
(* one before it where the phone was still at work on it.                  *)
AnswersMatchUnlessLate ==
  \A a \in answered : a.late \/ a.answer.of = a.request

(* When the calculator gets an answer, pins.v1 holds the newest catalog    *)
(* the phone sent on this relay before that answer, or a newer one, unless *)
(* the write of one of these raised: the bridge logs that and passes the   *)
(* answer on over an old or a cut file.                                    *)
AnswersFollowTheirCatalog ==
  \A a \in answered :
    a.answer.asOf > 0 =>
      a.cached >= a.answer.asOf \/ \E k \in a.unwritten : k >= a.answer.asOf

(* The mock forgets nothing it showed: its file holds its chats whenever   *)
(* it listens, if the last write of the file went through.                 *)
StoreMatchesMemory == intact => store = Document(Memory)

(* Every prompt got its one reply in its own chat or will get it, except   *)
(* those whose replies a reset dropped.                                    *)
PromptsAreAnswered ==
  \A i \in 1..Len(chats) :
    LET c == chats[i] IN
    c.asked - c.replied =
      Cardinality(PromptsOf(c.id, pending)) + (IF c.id \in DOMAIN lost THEN lost[c.id] ELSE 0)

(* The chat numbers are unique, though a chat made from a stale slot or a  *)
(* missing number goes to the front, and the place read to lies within the *)
(* active chat.                                                            *)
ChatsAreAddressable ==
  /\ \A i, j \in 1..Len(chats) : chats[i].id = chats[j].id => i = j
  /\ \A i \in 1..Len(chats) : chats[i].id = active => offset <= Bottom(chats[i])

(* docs/raw_axe_link_protocol.md: partial frames "return an error frame    *)
(* when possible"; bridge.run "Returns only on KeyboardInterrupt".         *)
BridgeKeepsRunning == stage # "ended"
=============================================================================
