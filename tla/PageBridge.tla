------------------------------ MODULE PageBridge ------------------------------
(***************************************************************************)
(* The string bridge of src/src/bridge.py over the transfers of            *)
(* DbusTransfer: a variable the calculator uploads is relayed to the       *)
(* phone, and the pages of a reply are written to the calculator one after *)
(* the other, the number of pages last.  The calculator program sets the   *)
(* number to 0 before it asks and waits until it is not.                   *)
(*                                                                         *)
(* The same Pico serves the prompt of a developer, who calls the functions *)
(* of transfer.py one at a time.                                           *)
(***************************************************************************)
EXTENDS DbusTransfer, SequencesExt

CONSTANTS
  Count, Prompt, Pages,  \* names: N, Str1, and the page strings in their order
  Replies,               \* the numbers of pages a reply may have
  OtherVars,             \* names used from the prompt and by other programs
  MaxOutages             \* bound: failures of the relay

ASSUME PageBridgeAssumption ==
  /\ Count \in Vars /\ Prompt \in Vars /\ Pages \in Seq(Vars)
  /\ Replies \subseteq 1..Len(Pages) /\ OtherVars \subseteq Vars /\ MaxOutages \in Nat

VARIABLES
  relay,        \* sock_holder[0]: "up" or "down"
  outages,      \* how often the relay failed
  handedOn,     \* history: uploads given to the relay or to recv_var's caller
  pushing,      \* a reply is being written
  pushes        \* history: the transfers and the number of pages of each push

bridgeVars == <<relay, outages, handedOn, pushing, pushes>>
vars == <<dbusVars, bridgeVars>>

TypeOK ==
  /\ DbusTypeOK
  /\ relay \in {"up", "down"} /\ outages \in 0..MaxOutages
  /\ handedOn \subseteq 1..Len(transfers)
  /\ pushing \in BOOLEAN
  /\ \A k \in 1..Len(pushes) :
       pushes[k].pages \in Replies /\ Len(pushes[k].ids) <= pushes[k].pages + 1

Init ==
  /\ DbusInit /\ relay = "up" /\ outages = 0 /\ handedOn = {}
  /\ pushing = FALSE /\ pushes = <<>>

(* on_var relays Str1 as a command and any other variable as it is; a      *)
(* relay that is down drops it, and one that fails is closed and the error *)
(* raised out of listen_loop.                                              *)
OnVar(ids) ==
  \/ /\ relay = "up" /\ pico'.op = "listen"
     /\ handedOn' = handedOn \cup ids /\ UNCHANGED <<relay, outages>>
  \/ relay = "down" /\ pico'.op = "listen" /\ UNCHANGED <<relay, outages, handedOn>>
  \/ /\ relay = "up" /\ pico'.op = "away" /\ outages < MaxOutages
     /\ relay' = "down" /\ outages' = outages + 1 /\ UNCHANGED handedOn

Transferring ==
  /\ DbusStep /\ UNCHANGED <<pushing, pushes>>
  /\ LET ids == {pair[1] : pair \in delivered' \ delivered}
     IN IF pico.op = "take" /\ ids # {} THEN OnVar(ids)
        ELSE /\ pico.op = "take" => pico'.op # "away"
             /\ handedOn' = handedOn \cup ids /\ UNCHANGED <<relay, outages>>

ConnectTransport ==
  /\ relay = "down" /\ pico.op = "away" /\ relay' = "up"
  /\ UNCHANGED <<dbusVars, outages, handedOn, pushing, pushes>>

Current  == Last(pushes)
Sent(id) == \E r \in results : r.id = id /\ r.ok
(* Mutant: a page that fails is left out.                                  *)
LastSentOrNot == TRUE
LastSent == Current.ids # <<>> => Sent(Last(Current.ids))

BeginPush ==
  /\ ~pushing /\ pico.op = "away" /\ Len(transfers) < MaxTransfers
  /\ pushing' = TRUE
  /\ \E n \in Replies : pushes' = Append(pushes, [ids |-> <<>>, pages |-> n])
  /\ UNCHANGED <<dbusVars, relay, outages, handedOn>>

PushVar(var) ==
  /\ PicoStarts("send", var, "ti83")
  /\ pushes' = [pushes EXCEPT ![Len(pushes)] =
                   [ids |-> Append(Current.ids, Len(transfers')), pages |-> Current.pages]]
  /\ UNCHANGED <<relay, outages, handedOn, pushing>>

(* The next page goes out when the one before it got across.               *)
PushOneStr ==
  /\ pushing /\ Len(Current.ids) < Current.pages /\ LastSent
  /\ PushVar(Pages[Len(Current.ids) + 1])

(* Mutant: the count is written again.                                     *)
PushPagecountAgain ==
  /\ pushing /\ Len(Current.ids) >= Current.pages /\ LastSent /\ PushVar(Count)

PushPagecount ==
  /\ pushing /\ Len(Current.ids) = Current.pages /\ LastSent /\ PushVar(Count)

(* The first transfer that fails ends the push, as does the count.         *)
PushEnds ==
  /\ pushing /\ pico.op = "away"
  /\ ~LastSent \/ Len(Current.ids) = Current.pages + 1
  /\ pushing' = FALSE /\ UNCHANGED <<dbusVars, relay, outages, handedOn, pushes>>

FromThePrompt ==
  /\ ~pushing /\ UNCHANGED bridgeVars
  /\ \E op \in {"send", "request", "delete"}, var \in OtherVars, machine \in Machines :
       PicoStarts(op, var, machine)

(* The calculator's program, or whoever sits before it.                    *)
Ask ==
  /\ calc.op = "idle" /\ Transfer("calc", Prompt, "ti83")
  /\ CalcIs("take", 1, Len(transfers'))
  /\ memory' = [memory EXCEPT ![Count] = Len(transfers')]
  /\ UNCHANGED <<told, picoSide, faults, partial, mixed, bridgeVars>>

FromTheCalculator ==
  /\ UNCHANGED bridgeVars
  /\ \E op \in {"take", "respond", "ready"}, var \in OtherVars, machine \in Machines :
       CalcStarts(op, var, machine)

Next ==
  \/ Transferring \/ ConnectTransport
  \/ BeginPush \/ PushOneStr \/ PushPagecount \/ PushEnds
  \/ FromThePrompt \/ Ask \/ FromTheCalculator

Spec == Init /\ [][Next]_vars
-----------------------------------------------------------------------------
(* A header and the data handed on with it are of one upload, also when    *)
(* packets fail at one end or break off in the middle and the calculator   *)
(* begins another upload; unless a packet of the header's upload was put   *)
(* together from two.  packet.py prints that the checksum is wrong, and    *)
(* goes on.                                                                *)
PairsAreGenuine ==
  /\ \A pair \in delivered : pair[1] = pair[2] \/ pair[1] \in mixed
  /\ \A r \in results : r.ok => r.hdr = r.data \/ r.hdr \in mixed

(* send_var and delete_var return True only for what the calculator did,   *)
(* whichever end saw a packet fail.                                        *)
SentMeansStored ==
  \A r \in results :
    (r.ok /\ r.hdr = 0) => memory[transfers[r.id].var] >= r.id

(* An upload the calculator saw acknowledged is handed on unless a bit     *)
(* handshake or the relay failed: also if the calculator leaves out the    *)
(* EOT or begins something else instead.                                   *)
AcknowledgedUploadsArrive ==
  \A id \in told :
    \/ faults > 0 \/ outages > 0 \/ transfers[id].var \notin Wanted
    \/ id \in handedOn
    \/ pico.op \in {"take", "recv"} /\ pico.step = 7 /\ pico.data = id

(* bridge.py: the count is "pushed AFTER all pages so partial state is     *)
(* never observable".  The calculator that reads a count has the pages of  *)
(* that reply, or of one that has begun since.                             *)
CountComesLast ==
  \A k \in 1..Len(pushes) :
    LET ids == pushes[k].ids IN
    (Len(ids) = pushes[k].pages + 1 /\ memory[Count] = Last(ids)) =>
      \A i \in 1..pushes[k].pages : memory[Pages[i]] >= ids[i]
=============================================================================
