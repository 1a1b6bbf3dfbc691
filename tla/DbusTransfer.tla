----------------------------- MODULE DbusTransfer -----------------------------
(***************************************************************************)
(* Variable transfers between the Pico (src/src/transfer.py) and the       *)
(* calculator.  Both ends are at a step of an exchange of DbusPackets.     *)
(*                                                                         *)
(* A packet passes when one end sends while the other reads; both count    *)
(* its last bit with a handshake whose ends have deadlines of their own,   *)
(* so one of them may see it fail when the other does not.  The calculator *)
(* may also stop in the middle of a packet: recv_packet keeps waiting, a   *)
(* deadline to each byte, and takes whatever the calculator sends next for *)
(* the rest of it.  These, and a deadline that passes although the other   *)
(* end is sending, are faults.                                             *)
(***************************************************************************)
EXTENDS DbusPackets, FiniteSets

CONSTANTS
  Vars,           \* variable names
  Wanted,         \* the names listen_loop's filter lets through
  Held,           \* the names on_req has a payload for
  Machines,       \* "ti82", "ti83": what the calculator calls itself
  MaxTransfers,   \* bound: transfers started by either end
  MaxFaults       \* bound: faults

ASSUME DbusAssumption == MaxTransfers \in Nat /\ MaxFaults \in Nat

VARIABLES
  pico, calc,     \* where each end is
  transfers,      \* history: the transfers started so far
  memory,         \* the transfer that last wrote or deleted each variable
  faults,
  partial,        \* the packet recv_packet is in the middle of, if any
  mixed,          \* history: transfers with a packet another one filled up
  delivered,      \* history: header and data handed to on_var or returned
  told,           \* history: uploads the calculator saw acknowledged
  results         \* history: what send_var, req_var and delete_var returned

dbusVars == <<pico, calc, transfers, memory, faults, partial, mixed,
              delivered, told, results>>

PicoOps == {"away", "listen", "recv", "take", "respond", "send", "request", "delete"}
             \cup Answers
CalcOps == {"idle", "take", "respond", "ready", "send", "request", "delete", "refused"}
Ids     == 0..MaxTransfers
Step    == 1..9

PicoActive == pico.op \notin {"away", "listen"}
PicoTurn   == PicoActive /\ Script(pico.op)[pico.step].by = "pico"
PicoReads  == pico.op = "listen" \/ (PicoActive /\ ~PicoTurn)
CalcTurn   == calc.op # "idle" /\ Script(calc.op)[calc.step].by = "calc"
CalcReads  == ~CalcTurn

DbusTypeOK ==
  /\ pico \in [op : PicoOps, step : Step, id : Ids, hdr : Ids, data : Ids]
  /\ calc \in [op : CalcOps, step : Step, id : Ids]
  /\ pico.op \notin {"away", "listen"} => pico.step <= Len(Script(pico.op))
  /\ calc.op # "idle" => calc.step <= Len(Script(calc.op))
  /\ Len(transfers) <= MaxTransfers
  /\ memory \in [Vars -> Ids]
  /\ faults \in 0..MaxFaults
  /\ told \subseteq 1..Len(transfers) /\ mixed \subseteq 1..Len(transfers)
  /\ \A cut \in partial : PicoReads /\ partial = {cut}

Away == [op |-> "away", step |-> 1, id |-> 0, hdr |-> 0, data |-> 0]
Idle == [op |-> "idle", step |-> 1, id |-> 0]

DbusInit ==
  /\ pico = Away /\ calc = Idle /\ transfers = <<>>
  /\ memory = [v \in Vars |-> 0] /\ faults = 0 /\ partial = {} /\ mixed = {}
  /\ delivered = {} /\ told = {} /\ results = {}

machineOf(id) == transfers[id].machine
Fault == faults < MaxFaults /\ faults' = faults + 1
NoFault == UNCHANGED faults

PicoPacket == Packet(CHOOSE c \in Script(pico.op)[pico.step].cmds : TRUE, pico.id)
CalcPackets ==
  {Packet(c, calc.id) : c \in Script(calc.op)[calc.step].cmds
                              \cup (IF MaySkip(calc.op, calc.step) THEN {"SKIP"} ELSE {})}

(***************************************************************************)
(* The Pico                                                                *)
(***************************************************************************)
(* listen_loop goes on with its next packet, unless on_var raises; other   *)
(* functions return.                                                       *)
Rest == [Away EXCEPT !.op = IF pico.op \in {"take", "respond", "ack", "miss", "listen"}
                            THEN "listen" ELSE "away"]

Returns(ok) ==
  /\ pico' \in {Rest} \cup (IF pico.op = "take" THEN {Away} ELSE {})
  /\ results' = IF pico.op \in {"send", "request", "delete", "refused"}
                THEN results \cup {[id |-> pico.id, ok |-> ok,
                                    hdr |-> pico.hdr, data |-> pico.data]}
                ELSE results

(* recv_var returns what it got, listen_loop calls on_var if the filter    *)
(* lets the name through.  The name in a mixed header may be any.          *)
LetThrough(hdr) == pico.op = "recv" \/ transfers[hdr].var \in Wanted \/ hdr \in mixed
KeptOut(hdr)    == pico.op # "recv" /\ (transfers[hdr].var \notin Wanted \/ hdr \in mixed)

Deliver(hdr, data) ==
  \/ LetThrough(hdr) /\ delivered' = delivered \cup {<<hdr, data>>}
  \/ KeptOut(hdr) /\ UNCHANGED delivered

(* Mutant: a drain that times out is a failed transfer.                    *)
PicoStopsInDrain == Returns(FALSE) /\ UNCHANGED delivered

(* An exchange that breaks off.  Once DATA is acknowledged listen_loop     *)
(* only drains an EOT, so that having none does not matter there.          *)
PicoStops ==
  /\ Returns(FALSE)
  /\ IF pico.op = "take" /\ pico.step = 7 THEN Deliver(pico.hdr, pico.data)
                                          ELSE UNCHANGED delivered

(* The step is done; the function returns after the last one.              *)
PicoAdvances(hdr, data) ==
  LET id == IF pico.op = "recv" THEN hdr ELSE pico.id
  IN IF pico.step < Steps(pico.op, machineOf(id))
     THEN pico' = [op |-> pico.op, step |-> pico.step + 1, id |-> id,
                   hdr |-> hdr, data |-> data]
          /\ UNCHANGED <<results, delivered>>
     ELSE /\ Returns(pico.op # "refused")
          /\ IF pico.op = "recv" THEN Deliver(hdr, data) ELSE UNCHANGED delivered

PicoSent == PicoAdvances(pico.hdr, pico.data)

Begin(op, packet, step) ==
  pico' = [op |-> op, step |-> step, id |-> packet.id,
           hdr |-> IF op = "take" THEN packet.id ELSE 0, data |-> 0]

(* The first packet in listen_loop; packet.id is 0 for header-only ones,   *)
(* which are answered under the transfer the calculator is in.  A REQ that *)
(* another packet fills up may ask for any name.                           *)
Dispatch(packet) ==
  LET asked  == transfers[packet.id].var \in Held \cap Wanted
      opener == [packet EXCEPT !.id = calc.id]
  IN /\ UNCHANGED <<delivered, results>>
     /\ \/ packet.cmd \in {"RTS", "VAR"} /\ Begin("take", packet, 2)
        \/ packet.cmd = "REQ" /\ (asked \/ packet \in partial) /\ Begin("respond", packet, 2)
        \/ packet.cmd = "REQ" /\ (~asked \/ packet \in partial) /\ Begin("miss", packet, 1)
        \/ packet.cmd \notin {"RTS", "VAR", "REQ"} /\ Begin("ack", opener, 1)

Matches(packet)  == packet.cmd \in Script(pico.op)[pico.step].cmds
Rejected(packet) == packet.cmd = "SKIP" /\ MaySkip(pico.op, pico.step)

(* Mutant: only the command of the first packet is looked at.              *)
NextPacketUnchecked(packet) ==
  /\ Matches(packet) \/ pico.step > 1
  /\ PicoAdvances(IF packet.cmd \in {"RTS", "VAR"} THEN packet.id ELSE pico.hdr,
                  IF packet.cmd = "DATA" THEN packet.id ELSE pico.data)

NextPacket(packet) ==
  /\ Matches(packet)
  /\ PicoAdvances(IF packet.cmd \in {"RTS", "VAR"} THEN packet.id ELSE pico.hdr,
                  IF packet.cmd = "DATA" THEN packet.id ELSE pico.data)

(* Mutant: SKIP is an answer like any other.                               *)
SkippedIsDone == Returns(TRUE)

(* _respond_to_req is content with a SKIP, the others acknowledge it.      *)
Skipped ==
  IF pico.op = "respond" THEN Returns(TRUE)
  ELSE /\ pico' = [op |-> "refused", step |-> 1, id |-> pico.id,
                   hdr |-> pico.hdr, data |-> pico.data]
       /\ UNCHANGED results

(* The drain of listen_loop and the last packet of recv_var take whatever  *)
(* comes.                                                                  *)
PicoReceives(packet) ==
  IF pico.op = "listen" THEN Dispatch(packet)
  ELSE IF pico.op \in {"recv", "take"} /\ pico.step = 7
  THEN Returns(TRUE) /\ Deliver(pico.hdr, pico.data)
  ELSE \/ NextPacket(packet)
       \/ Rejected(packet) /\ Skipped /\ UNCHANGED delivered
       \/ ~Matches(packet) /\ ~Rejected(packet) /\ PicoStops

(***************************************************************************)
(* The calculator's operating system and its programs                      *)
(***************************************************************************)
CalcIs(op, step, id) == calc' = [op |-> op, step |-> step, id |-> id]

CalcStops == CalcIs("idle", 1, 0) /\ UNCHANGED <<memory, told>>

(* A TI-82 may leave out the EOT of an upload.                             *)
CalcAdvances ==
  \/ /\ calc.step < Steps(calc.op, machineOf(calc.id))
     /\ CalcIs(calc.op, calc.step + 1, calc.id)
  \/ /\ \/ calc.step = Steps(calc.op, machineOf(calc.id))
        \/ calc.op = "take" /\ calc.step = 6 /\ machineOf(calc.id) = "ti82"
     /\ CalcIs("idle", 1, 0)

(* A SKIP is acknowledged by send_var and req_var, but by nobody else.     *)
CalcSent(packet) ==
  /\ UNCHANGED <<memory, told>>
  /\ IF packet.cmd # "SKIP" THEN CalcAdvances
     ELSE IF calc.op = "respond" THEN CalcIs("idle", 1, 0)
     ELSE CalcIs("refused", 1, calc.id)

(* The silent commands an idle calculator serves.                          *)
Served == [RTS |-> "send", REQ |-> "request", DEL |-> "delete"]

Changes(packet, now) ==
  memory' = IF now THEN [memory EXCEPT ![transfers[packet.id].var] = packet.id] ELSE memory

CalcReceives(packet) ==
  IF calc.op = "idle"
  THEN /\ UNCHANGED told /\ Changes(packet, packet.cmd = "DEL")
       /\ IF packet.cmd \in DOMAIN Served THEN CalcIs(Served[packet.cmd], 2, packet.id)
                                          ELSE CalcIs("idle", 1, 0)
  ELSE IF packet.cmd \notin Script(calc.op)[calc.step].cmds THEN CalcStops
  ELSE /\ CalcAdvances
       /\ Changes(packet, calc.op \in {"send", "respond"} /\ packet.cmd = "DATA")
       /\ told' = IF calc.op = "take" /\ calc.step = 6 THEN told \cup {calc.id} ELSE told

(***************************************************************************)
(* Steps                                                                   *)
(***************************************************************************)
picoSide == <<pico, delivered, results>>
calcSide == <<calc, memory, told>>

(* Both ends see the last bit through, or only one of them does.           *)
PicoToCalc ==
  /\ PicoTurn /\ CalcReads /\ UNCHANGED <<transfers, partial, mixed>>
  /\ \/ PicoSent /\ CalcReceives(PicoPacket) /\ NoFault
     \/ PicoStops /\ CalcReceives(PicoPacket) /\ Fault
     \/ PicoSent /\ CalcStops /\ Fault

PacketPasses(packet) ==
  /\ partial = {} /\ UNCHANGED <<partial, mixed>>
  /\ \/ CalcSent(packet) /\ PicoReceives(packet) /\ NoFault
     \/ CalcStops /\ PicoReceives(packet) /\ Fault
     \/ CalcSent(packet) /\ Fault
        /\ IF pico.op = "listen" THEN UNCHANGED picoSide ELSE PicoStops

(* The calculator stops in the packet, once its command is through.        *)
PacketBreaksOff(packet) ==
  /\ partial = {} /\ partial' = {packet} /\ CalcStops /\ Fault
  /\ UNCHANGED <<picoSide, mixed>>

Mix(cut) == mixed' = IF cut.cmd \in HeaderOnly THEN mixed ELSE mixed \cup {cut.id}

(* All of the next packet goes into the body of the one that broke off, or *)
(* as much of it as the calculator sends.                                  *)
BodySwallows(packet) ==
  \E cut \in partial :
    /\ cut.cmd \notin HeaderOnly /\ Mix(cut) /\ UNCHANGED <<partial, picoSide>>
    /\ (CalcSent(packet) /\ NoFault) \/ (CalcStops /\ Fault)

(* The next packet has as many bytes as were missing, or more of them: the *)
(* calculator is then stuck in it, as the Pico goes on with its exchange.  *)
(* A checksum that does not match is printed.                              *)
BodyFillsUp(packet) ==
  \E cut \in partial :
    /\ PicoReceives(cut) /\ Mix(cut) /\ partial' = {} /\ NoFault
    /\ CalcStops \/ (cut.cmd \notin HeaderOnly /\ CalcSent(packet))

CalcToPico ==
  /\ CalcTurn /\ PicoReads /\ UNCHANGED transfers
  /\ \E packet \in CalcPackets :
       \/ PacketPasses(packet) \/ PacketBreaksOff(packet)
       \/ BodySwallows(packet) \/ BodyFillsUp(packet)

(* A deadline.  Both sending is a standstill too: the first bits of a      *)
(* calculator's machine id and of pc_id_for of it are the same, so each    *)
(* waits for the other to acknowledge.                                     *)
Meeting == (PicoTurn /\ CalcReads) \/ (CalcTurn /\ PicoReads)

PicoTimesOut ==
  /\ PicoActive /\ PicoStops /\ partial' = {} /\ UNCHANGED <<calcSide, transfers, mixed>>
  /\ IF Meeting /\ calc.op # "idle" THEN Fault ELSE NoFault

CalcTimesOut ==
  /\ calc.op # "idle" /\ CalcStops /\ UNCHANGED <<picoSide, transfers, partial, mixed>>
  /\ IF Meeting THEN Fault ELSE NoFault

(* listen_loop has heard nothing for timeout_ms.                           *)
StopListening ==
  /\ pico.op = "listen" /\ pico' = Away /\ partial' = {}
  /\ UNCHANGED <<delivered, results, calcSide, transfers, faults, mixed>>

Transfer(by, var, machine) ==
  /\ Len(transfers) < MaxTransfers
  /\ transfers' = Append(transfers, [by |-> by, var |-> var, machine |-> machine])

PicoBegins(op, id) ==
  pico' = [op |-> op, step |-> 1, id |-> id, hdr |-> 0, data |-> 0]

(* A caller of listen_loop or recv_var; the machine is not known yet.      *)
Listen ==
  /\ pico.op = "away" /\ PicoBegins("listen", 0)
  /\ UNCHANGED <<delivered, results, calcSide, transfers, faults, partial, mixed>>

RecvVarCalled ==
  /\ pico.op = "away" /\ PicoBegins("recv", 0)
  /\ UNCHANGED <<delivered, results, calcSide, transfers, faults, partial, mixed>>

PicoStarts(op, var, machine) ==
  /\ pico.op = "away" /\ Transfer("pico", var, machine)
  /\ PicoBegins(op, Len(transfers'))
  /\ UNCHANGED <<delivered, results, calcSide, faults, partial, mixed>>

CalcStarts(op, var, machine) ==
  /\ calc.op = "idle" /\ Transfer("calc", var, machine)
  /\ CalcIs(op, 1, Len(transfers'))
  /\ UNCHANGED <<memory, told, picoSide, faults, partial, mixed>>

DbusStep ==
  \/ PicoToCalc \/ CalcToPico \/ PicoTimesOut \/ CalcTimesOut
  \/ StopListening \/ Listen \/ RecvVarCalled
=============================================================================
