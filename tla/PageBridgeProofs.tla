---------------------------- MODULE PageBridgeProofs ----------------------------
(***************************************************************************)
(* Proofs about PageBridge and the transfers under it, for every set of    *)
(* variables, every reply, and every number of transfers, faults and       *)
(* failures of the relay.                                                  *)
(***************************************************************************)
EXTENDS PageBridge, TLAPS

-----------------------------------------------------------------------------
(***************************************************************************)
(* The exchanges, row by row.                                              *)
(***************************************************************************)
At(op, step, by, cmds) == Script(op)[step].by = by /\ Script(op)[step].cmds = cmds

LEMMA UploadScript ==
  ASSUME NEW op \in {"recv", "take"}
  PROVE  /\ Len(Script(op)) = 7
         /\ At(op, 1, "calc", {"RTS", "VAR"}) /\ At(op, 2, "pico", {"ACK"})
         /\ At(op, 3, "pico", {"CTS"}) /\ At(op, 4, "calc", {"ACK"})
         /\ At(op, 5, "calc", {"DATA"}) /\ At(op, 6, "pico", {"ACK"})
         /\ At(op, 7, "calc", {"EOT"})
<1>1. Script(op) = RecvVar
  BY DEF Script
<1>2. QED BY <1>1 DEF RecvVar, CalcSends, PicoSends, At

LEMMA RespondScript ==
  /\ Len(Script("respond")) = 9
  /\ At("respond", 1, "calc", {"REQ"}) /\ At("respond", 2, "pico", {"ACK"})
  /\ At("respond", 3, "pico", {"VAR"}) /\ At("respond", 4, "calc", {"ACK"})
  /\ At("respond", 5, "calc", {"CTS"}) /\ At("respond", 6, "pico", {"ACK"})
  /\ At("respond", 7, "pico", {"DATA"}) /\ At("respond", 8, "calc", {"ACK"})
  /\ At("respond", 9, "pico", {"EOT"})
<1>1. Script("respond") = RespondToReq
  BY DEF Script
<1>2. QED BY <1>1 DEF RespondToReq, CalcSends, PicoSends, At

LEMMA SendScript ==
  /\ Len(Script("send")) = 7
  /\ At("send", 1, "pico", {"RTS"}) /\ At("send", 2, "calc", {"ACK"})
  /\ At("send", 3, "calc", {"CTS"}) /\ At("send", 4, "pico", {"ACK"})
  /\ At("send", 5, "pico", {"DATA"}) /\ At("send", 6, "calc", {"ACK"})
  /\ At("send", 7, "pico", {"EOT"})
<1>1. Script("send") = SendVar
  BY DEF Script
<1>2. QED BY <1>1 DEF SendVar, CalcSends, PicoSends, At

LEMMA RequestScript ==
  /\ Len(Script("request")) = 8
  /\ At("request", 1, "pico", {"REQ"}) /\ At("request", 2, "calc", {"ACK"})
  /\ At("request", 3, "calc", {"VAR"}) /\ At("request", 4, "pico", {"ACK"})
  /\ At("request", 5, "pico", {"CTS"}) /\ At("request", 6, "calc", {"ACK"})
  /\ At("request", 7, "calc", {"DATA"}) /\ At("request", 8, "pico", {"ACK"})
<1>1. Script("request") = ReqVar
  BY DEF Script
<1>2. QED BY <1>1 DEF ReqVar, CalcSends, PicoSends, At

LEMMA ShortScripts ==
  /\ Len(Script("delete")) = 3
  /\ At("delete", 1, "pico", {"DEL"}) /\ At("delete", 2, "calc", {"ACK"})
  /\ At("delete", 3, "calc", {"ACK"})
  /\ Len(Script("ready")) = 2
  /\ At("ready", 1, "calc", {"RDY"}) /\ At("ready", 2, "pico", {"ACK"})
  /\ Len(Script("miss")) = 1 /\ At("miss", 1, "pico", {"SKIP"})
  /\ Len(Script("ack")) = 1 /\ At("ack", 1, "pico", {"ACK"})
  /\ Len(Script("refused")) = 1 /\ At("refused", 1, "pico", {"ACK"})
<1>1. /\ Script("delete") = DeleteVar
      /\ Script("ready") = << CalcSends({"RDY"}), PicoSends("ACK") >>
      /\ Script("miss") = << PicoSends("SKIP") >>
      /\ Script("ack") = << PicoSends("ACK") >>
      /\ Script("refused") = << PicoSends("ACK") >>
  BY DEF Script
<1>2. QED BY <1>1 DEF DeleteVar, CalcSends, PicoSends, At

LEMMA Sizes ==
  ASSUME NEW op
  PROVE  /\ Len(Script(op)) \in 1..9
         /\ \A machine : Steps(op, machine) \in 1..Len(Script(op))
         /\ \A machine : Steps(op, machine) < Len(Script(op)) =>
              op \in {"send", "recv"} /\ Steps(op, machine) = 6
<1>1. Len(Script(op)) \in 1..9 /\ (op = "send" => Len(Script(op)) = 7)
  <2>1. CASE op \in {"recv", "take"}
    <3>1. Len(Script(op)) = 7
      BY <2>1, UploadScript
    <3>2. QED BY <3>1
  <2>2. CASE op \in {"respond", "send", "request"}
    BY <2>2, RespondScript, SendScript, RequestScript
  <2>3. CASE op \in {"delete", "ready", "miss"}
    BY <2>3, ShortScripts
  <2>4. CASE op \notin {"recv", "take", "respond", "send", "request",
                        "delete", "ready", "miss"}
    <3>1. Script(op) = << PicoSends("ACK") >>
      BY <2>4 DEF Script
    <3>2. QED BY <3>1, <2>4
  <2>5. QED BY <2>1, <2>2, <2>3, <2>4
<1>2. \A machine : \/ Steps(op, machine) = Len(Script(op))
                   \/ op \in {"send", "recv"} /\ Steps(op, machine) = 6
  BY DEF Steps
<1> DEFINE n == Len(Script(op))
<1> HIDE DEF n
<1>3. n \in 1..9 /\ (op \in {"send", "recv"} => n = 7)
  <2>1. op = "recv" => n = 7
    BY UploadScript DEF n
  <2>2. QED BY <1>1, <2>1 DEF n
<1>4. \A machine : Steps(op, machine) = n \/ (op \in {"send", "recv"} /\ Steps(op, machine) = 6)
  BY <1>2 DEF n
<1>5. /\ \A machine : Steps(op, machine) \in 1..n
      /\ \A machine : Steps(op, machine) < n =>
           op \in {"send", "recv"} /\ Steps(op, machine) = 6
  BY <1>3, <1>4
<1>6. QED BY <1>3, <1>5 DEF n

LEMMA Lengths ==
  ASSUME NEW op, NEW n, n = Len(Script(op))
  PROVE  /\ op \in {"take", "recv", "send"} => n = 7
         /\ op = "respond" => n = 9
         /\ op = "request" => n = 8
         /\ op = "delete" => n = 3
<1>1. op \in {"take", "recv"} => n = 7
  BY UploadScript
<1>2. QED BY <1>1, RespondScript, SendScript, RequestScript, ShortScripts

-----------------------------------------------------------------------------
(***************************************************************************)
(* Types.  The transfers so far have the numbers 1..Len(transfers).        *)
(***************************************************************************)
Transfers == [by : {"pico", "calc"}, var : Vars, machine : Machines \cup {"ti83"}]
Numbers == 1..Len(transfers)
Uploads == {"take", "recv", "request"}

PicoTyped ==
  /\ pico \in [op : PicoOps, step : Step, id : Ids, hdr : Ids, data : Ids]
  /\ PicoActive => pico.step <= Len(Script(pico.op))
  /\ PicoActive /\ ~(pico.op = "recv" /\ pico.step = 1) => pico.id \in Numbers
  /\ pico.op \in {"take", "respond"} => pico.step > 1
  /\ pico.op = "take" \/ (pico.op = "recv" /\ pico.step > 1) => pico.hdr = pico.id
  /\ pico.op = "request" /\ pico.step > 3 => pico.hdr \in Numbers
  /\ pico.op \in {"send", "delete"} => pico.hdr = 0 /\ pico.data = 0

CalcTyped ==
  /\ calc \in [op : CalcOps, step : Step, id : Ids]
  /\ calc.op # "idle" => calc.step <= Len(Script(calc.op)) /\ calc.id \in Numbers
  /\ calc.op \in {"send", "request", "delete"} => calc.step > 1

StoreTyped ==
  /\ transfers \in Seq(Transfers) /\ Len(transfers) <= MaxTransfers
  /\ memory \in [Vars -> Ids] /\ faults \in 0..MaxFaults

HistoryTyped ==
  /\ told \subseteq Numbers /\ delivered \subseteq Numbers \X Ids
  /\ results \subseteq [id : Numbers, ok : BOOLEAN, hdr : Ids, data : Ids]

BridgeTyped ==
  /\ relay \in {"up", "down"} /\ outages \in 0..MaxOutages /\ handedOn \subseteq Numbers
  /\ pushing \in BOOLEAN /\ (pushing => pushes # <<>>)
  /\ pushes \in Seq([ids : Seq(Numbers), pages : Replies])
  /\ \A k \in 1..Len(pushes) : Len(pushes[k].ids) <= pushes[k].pages + 1

(* A packet the Pico may come to read.                                     *)
Comes(packet) ==
  /\ packet.cmd \in HeaderOnly \/ packet.id \in Numbers
  /\ packet = [cmd |-> packet.cmd, id |-> packet.id]

(* A packet that broke off has the calculator idle, or at the start of     *)
(* something else that the Pico, still reading, does not answer.           *)
New == calc.op \in {"take", "respond", "ready"} /\ calc.step \in {1, 2}

CutTyped ==
  /\ mixed \subseteq Numbers
  /\ \A cut \in partial : PicoReads /\ partial = {cut} /\ Comes(cut)
  /\ partial # {} => calc.op = "idle" \/ New
  /\ partial # {} \/ mixed # {} => faults > 0

Typed == PicoTyped /\ CalcTyped /\ StoreTyped /\ HistoryTyped /\ CutTyped /\ BridgeTyped

-----------------------------------------------------------------------------
(***************************************************************************)
(* Who sends and expects what, where.                                      *)
(***************************************************************************)
PicoAt(op, steps) == pico.op = op /\ pico.step \in steps
CalcAt(op, steps) == calc.op = op /\ calc.step \in steps

PicoMaySend(cmd) ==
  \/ cmd = "RTS" /\ PicoAt("send", {1})
  \/ cmd = "REQ" /\ PicoAt("request", {1})
  \/ cmd = "DEL" /\ PicoAt("delete", {1})
  \/ cmd = "VAR" /\ PicoAt("respond", {3})
  \/ cmd = "DATA" /\ (PicoAt("send", {5}) \/ PicoAt("respond", {7}))
  \/ cmd = "CTS" /\ (PicoAt("recv", {3}) \/ PicoAt("take", {3}) \/ PicoAt("request", {5}))
  \/ cmd = "EOT" /\ (PicoAt("send", {7}) \/ PicoAt("respond", {9}))
  \/ cmd = "SKIP" /\ PicoAt("miss", {1})
  \/ cmd = "ACK" /\ \/ PicoAt("recv", {2, 6}) \/ PicoAt("take", {2, 6})
                    \/ PicoAt("respond", {2, 6}) \/ PicoAt("send", {4})
                    \/ PicoAt("request", {4, 8}) \/ PicoAt("ack", {1})
                    \/ PicoAt("refused", {1})

CalcMaySend(cmd) ==
  \/ cmd \in {"RTS", "VAR"} /\ CalcAt("take", {1})
  \/ cmd = "VAR" /\ CalcAt("request", {3})
  \/ cmd = "REQ" /\ CalcAt("respond", {1})
  \/ cmd = "RDY" /\ CalcAt("ready", {1})
  \/ cmd = "DATA" /\ (CalcAt("take", {5}) \/ CalcAt("request", {7}))
  \/ cmd = "CTS" /\ (CalcAt("send", {3}) \/ CalcAt("respond", {5}))
  \/ cmd = "EOT" /\ CalcAt("take", {7})
  \/ cmd = "SKIP" /\ \/ CalcAt("send", {3, 6}) \/ CalcAt("request", {2})
                     \/ CalcAt("respond", {5})
  \/ cmd = "ACK" /\ \/ CalcAt("take", {4}) \/ CalcAt("respond", {4, 8})
                    \/ CalcAt("send", {2, 6}) \/ CalcAt("request", {2, 6})
                    \/ CalcAt("delete", {2, 3})

PicoMayRead(cmd) ==
  \/ cmd \in {"RTS", "VAR"} /\ PicoAt("recv", {1})
  \/ cmd = "VAR" /\ PicoAt("request", {3})
  \/ cmd = "DATA" /\ (PicoAt("recv", {5}) \/ PicoAt("take", {5}) \/ PicoAt("request", {7}))
  \/ cmd = "CTS" /\ (PicoAt("send", {3}) \/ PicoAt("respond", {5}))
  \/ cmd = "EOT" /\ (PicoAt("recv", {7}) \/ PicoAt("take", {7}))
  \/ cmd = "ACK" /\ \/ PicoAt("recv", {4}) \/ PicoAt("take", {4})
                    \/ PicoAt("respond", {4, 8}) \/ PicoAt("send", {2, 6})
                    \/ PicoAt("request", {2, 6}) \/ PicoAt("delete", {2, 3})

CalcMayRead(cmd) ==
  \/ cmd = "VAR" /\ CalcAt("respond", {3})
  \/ cmd = "DATA" /\ (CalcAt("send", {5}) \/ CalcAt("respond", {7}))
  \/ cmd = "CTS" /\ (CalcAt("take", {3}) \/ CalcAt("request", {5}))
  \/ cmd = "EOT" /\ (CalcAt("send", {7}) \/ CalcAt("respond", {9}))
  \/ cmd = "ACK" /\ \/ CalcAt("take", {2, 6}) \/ CalcAt("respond", {2, 6})
                    \/ CalcAt("send", {4}) \/ CalcAt("request", {4, 8})
                    \/ CalcAt("ready", {2}) \/ CalcAt("refused", {1})

LEMMA PicoSendsThese ==
  ASSUME PicoTyped, PicoTurn
  PROVE  /\ PicoMaySend(PicoPacket.cmd)
         /\ PicoPacket.id = IF PicoPacket.cmd \in HeaderOnly THEN 0 ELSE pico.id
<1> DEFINE cmds == Script(pico.op)[pico.step].cmds
           cmd == CHOOSE c \in cmds : TRUE
<1>1. PicoPacket.cmd = cmd /\ PicoPacket.id = IF cmd \in HeaderOnly THEN 0 ELSE pico.id
  BY DEF PicoPacket, Packet
<1>2. pico.step \in 1..9 /\ pico.step <= Len(Script(pico.op)) /\ pico.op \in PicoOps
      /\ pico.op \notin {"away", "listen"} /\ Script(pico.op)[pico.step].by = "pico"
  BY DEF PicoTyped, PicoTurn, PicoActive, Step
<1>3. CASE pico.op \in {"recv", "take"}
  <2>0. pico.step \in {1, 2, 3, 4, 5, 6, 7}
    BY <1>2, <1>3, UploadScript
  <2>3. At(pico.op, 1, "calc", {"RTS", "VAR"}) /\ At(pico.op, 4, "calc", {"ACK"})
        /\ At(pico.op, 5, "calc", {"DATA"}) /\ At(pico.op, 7, "calc", {"EOT"})
    BY <1>3, UploadScript
  <2>4. pico.step \in {2, 3, 6}
    BY <1>2, <2>0, <2>3 DEF At
  <2>5. At(pico.op, 2, "pico", {"ACK"}) /\ At(pico.op, 3, "pico", {"CTS"})
        /\ At(pico.op, 6, "pico", {"ACK"})
    BY <1>3, UploadScript
  <2>1. (pico.step \in {2, 6} /\ cmds = {"ACK"}) \/ (pico.step = 3 /\ cmds = {"CTS"})
    BY <2>4, <2>5 DEF At
  <2>2. QED BY <2>1, <1>1, <1>3 DEF PicoMaySend, PicoAt
<1>4. CASE pico.op = "respond"
  <2>0. pico.step \in {1, 2, 3, 4, 5, 6, 7, 8, 9}
    BY <1>2, <1>4, RespondScript
  <2>6. \A k \in {1, 4, 5, 8} : Script(pico.op)[k].by = "calc"
    BY <1>4, RespondScript DEF At
  <2>3. pico.step \in {2, 3, 6, 7, 9}
    BY <1>2, <2>0, <2>6
  <2>4. \A k \in {2, 6} : cmds = {"ACK"} \/ pico.step # k
    BY <1>4, RespondScript DEF At
  <2>5. /\ pico.step = 3 => cmds = {"VAR"}
        /\ pico.step = 7 => cmds = {"DATA"}
        /\ pico.step = 9 => cmds = {"EOT"}
    BY <1>4, RespondScript DEF At
  <2>1. \/ (pico.step \in {2, 6} /\ cmds = {"ACK"}) \/ (pico.step = 3 /\ cmds = {"VAR"})
        \/ (pico.step = 7 /\ cmds = {"DATA"}) \/ (pico.step = 9 /\ cmds = {"EOT"})
    BY <2>3, <2>4, <2>5
  <2>2. QED BY <2>1, <1>1, <1>4 DEF PicoMaySend, PicoAt
<1>5. CASE pico.op = "send"
  <2>0. pico.step \in {1, 2, 3, 4, 5, 6, 7}
    BY <1>2, <1>5, SendScript
  <2>1. \/ (pico.step = 1 /\ cmds = {"RTS"}) \/ (pico.step = 4 /\ cmds = {"ACK"})
        \/ (pico.step = 5 /\ cmds = {"DATA"}) \/ (pico.step = 7 /\ cmds = {"EOT"})
    BY <1>2, <1>5, <2>0, SendScript DEF At
  <2>2. QED BY <2>1, <1>1, <1>5 DEF PicoMaySend, PicoAt
<1>6. CASE pico.op = "request"
  <2>0. pico.step \in {1, 2, 3, 4, 5, 6, 7, 8}
    BY <1>2, <1>6, RequestScript
  <2>1. \/ (pico.step = 1 /\ cmds = {"REQ"}) \/ (pico.step \in {4, 8} /\ cmds = {"ACK"})
        \/ (pico.step = 5 /\ cmds = {"CTS"})
    BY <1>2, <1>6, <2>0, RequestScript DEF At
  <2>2. QED BY <2>1, <1>1, <1>6 DEF PicoMaySend, PicoAt
<1>7. CASE pico.op \in {"delete", "miss", "ack", "refused"}
  <2>1. /\ pico.step = 1
        /\ \/ pico.op = "delete" /\ cmds = {"DEL"}
           \/ pico.op = "miss" /\ cmds = {"SKIP"}
           \/ pico.op \in {"ack", "refused"} /\ cmds = {"ACK"}
    BY <1>2, <1>7, ShortScripts DEF At
  <2>2. QED BY <2>1, <1>1 DEF PicoMaySend, PicoAt
<1>8. QED BY <1>2, <1>3, <1>4, <1>5, <1>6, <1>7 DEF PicoOps, Answers

LEMMA PicoReadsThese ==
  ASSUME PicoTyped, PicoActive, ~PicoTurn
  PROVE  /\ \A packet : Matches(packet) <=> PicoMayRead(packet.cmd)
         /\ \/ PicoAt("recv", {1, 4, 5, 7}) \/ PicoAt("take", {4, 5, 7})
            \/ PicoAt("respond", {4, 5, 8}) \/ PicoAt("send", {2, 3, 6})
            \/ PicoAt("request", {2, 3, 6, 7}) \/ PicoAt("delete", {2, 3})
<1> DEFINE cmds == Script(pico.op)[pico.step].cmds
<1>1. \A packet : Matches(packet) <=> packet.cmd \in cmds
  BY DEF Matches
<1>2. pico.step \in 1..9 /\ pico.step <= Len(Script(pico.op)) /\ pico.op \in PicoOps
      /\ pico.op \notin {"away", "listen"} /\ Script(pico.op)[pico.step].by # "pico"
      /\ (pico.op \in {"take", "respond"} => pico.step > 1)
  BY DEF PicoTyped, PicoTurn, PicoActive, Step
<1> HIDE DEF cmds
<1>3. CASE pico.op \in {"recv", "take"}
  <2>0. pico.step \in {1, 2, 3, 4, 5, 6, 7}
    BY <1>2, <1>3, UploadScript
  <2>3. At(pico.op, 2, "pico", {"ACK"}) /\ At(pico.op, 3, "pico", {"CTS"})
        /\ At(pico.op, 6, "pico", {"ACK"})
    BY <1>3, UploadScript
  <2>4. pico.step \in {1, 4, 5, 7} /\ (pico.step = 1 => pico.op = "recv")
    BY <1>2, <1>3, <2>0, <2>3 DEF At
  <2>5. At(pico.op, 1, "calc", {"RTS", "VAR"}) /\ At(pico.op, 4, "calc", {"ACK"})
        /\ At(pico.op, 5, "calc", {"DATA"}) /\ At(pico.op, 7, "calc", {"EOT"})
    BY <1>3, UploadScript
  <2>1. \/ pico.step = 1 /\ pico.op = "recv" /\ cmds = {"RTS", "VAR"}
        \/ pico.step = 4 /\ cmds = {"ACK"}
        \/ pico.step = 5 /\ cmds = {"DATA"}
        \/ pico.step = 7 /\ cmds = {"EOT"}
    BY <2>4, <2>5 DEF At, cmds
  <2>2. QED BY <2>1, <1>1, <1>3 DEF PicoMayRead, PicoAt
<1>4. CASE pico.op = "respond"
  <2>0. pico.step \in {1, 2, 3, 4, 5, 6, 7, 8, 9}
    BY <1>2, <1>4, RespondScript
  <2>3. \A k \in {2, 3, 6, 7, 9} : Script(pico.op)[k].by = "pico"
    BY <1>4, RespondScript DEF At
  <2>4. pico.step \in {4, 5, 8}
    BY <1>2, <1>4, <2>0, <2>3
  <2>5. /\ pico.step = 4 \/ pico.step = 8 => cmds = {"ACK"}
        /\ pico.step = 5 => cmds = {"CTS"}
    BY <1>4, RespondScript DEF At, cmds
  <2>1. (pico.step \in {4, 8} /\ cmds = {"ACK"}) \/ (pico.step = 5 /\ cmds = {"CTS"})
    BY <2>4, <2>5
  <2>2. QED BY <2>1, <1>1, <1>4 DEF PicoMayRead, PicoAt
<1>5. CASE pico.op = "send"
  <2>0. pico.step \in {1, 2, 3, 4, 5, 6, 7}
    BY <1>2, <1>5, SendScript
  <2>1. (pico.step \in {2, 6} /\ cmds = {"ACK"}) \/ (pico.step = 3 /\ cmds = {"CTS"})
    BY <1>2, <1>5, <2>0, SendScript DEF At, cmds
  <2>2. QED BY <2>1, <1>1, <1>5 DEF PicoMayRead, PicoAt
<1>6. CASE pico.op = "request"
  <2>0. pico.step \in {1, 2, 3, 4, 5, 6, 7, 8}
    BY <1>2, <1>6, RequestScript
  <2>1. \/ (pico.step \in {2, 6} /\ cmds = {"ACK"}) \/ (pico.step = 3 /\ cmds = {"VAR"})
        \/ (pico.step = 7 /\ cmds = {"DATA"})
    BY <1>2, <1>6, <2>0, RequestScript DEF At, cmds
  <2>2. QED BY <2>1, <1>1, <1>6 DEF PicoMayRead, PicoAt
<1>7. CASE pico.op \in {"delete", "miss", "ack", "refused"}
  <2>1. pico.op = "delete" /\ pico.step \in {2, 3} /\ cmds = {"ACK"}
    BY <1>2, <1>7, ShortScripts DEF At, cmds
  <2>2. QED BY <2>1, <1>1 DEF PicoMayRead, PicoAt
<1>8. QED BY <1>2, <1>3, <1>4, <1>5, <1>6, <1>7 DEF PicoOps, Answers

LEMMA CalcSendsThese ==
  ASSUME CalcTyped, CalcTurn, NEW packet \in CalcPackets
  PROVE  /\ CalcMaySend(packet.cmd)
         /\ packet.id = IF packet.cmd \in HeaderOnly THEN 0 ELSE calc.id
<1> DEFINE cmds == Script(calc.op)[calc.step].cmds
<1>1. PICK cmd \in Script(calc.op)[calc.step].cmds
                    \cup (IF MaySkip(calc.op, calc.step) THEN {"SKIP"} ELSE {}) :
             packet = Packet(cmd, calc.id)
  BY DEF CalcPackets
<1>2. packet.cmd = cmd /\ packet.id = IF cmd \in HeaderOnly THEN 0 ELSE calc.id
  BY <1>1 DEF Packet
<1>3. calc.step \in Step /\ calc.step <= Len(Script(calc.op)) /\ calc.op \in CalcOps
      /\ calc.op # "idle" /\ Script(calc.op)[calc.step].by = "calc"
  BY DEF CalcTyped, CalcTurn
<1>4. MaySkip(calc.op, calc.step) => CalcMaySend("SKIP")
  BY DEF MaySkip, CalcMaySend, CalcAt
<1>5. cmd \in cmds \/ (MaySkip(calc.op, calc.step) /\ cmd = "SKIP")
  OBVIOUS
<1>6. CASE calc.op = "take"
  <2>0. calc.step \in {1, 2, 3, 4, 5, 6, 7}
    BY <1>3, <1>6, UploadScript DEF Step
  <2>5. \A k \in {2, 3, 6} : Script(calc.op)[k].by = "pico"
    BY <1>6, UploadScript DEF At
  <2>1. calc.step \in {1, 4, 5, 7}
    BY <1>3, <2>0, <2>5
  <2>2. /\ calc.step = 1 => cmds = {"RTS", "VAR"}
        /\ calc.step = 4 => cmds = {"ACK"}
        /\ calc.step = 5 => cmds = {"DATA"}
        /\ calc.step = 7 => cmds = {"EOT"}
    BY <1>6, UploadScript DEF At
  <2>3. \A c \in cmds : CalcMaySend(c)
    BY <1>6, <2>1, <2>2 DEF CalcMaySend, CalcAt
  <2>4. QED BY <1>2, <1>4, <1>5, <2>3
<1>7. CASE calc.op = "respond"
  <2>0. calc.step \in {1, 2, 3, 4, 5, 6, 7, 8, 9}
    BY <1>3, <1>7, RespondScript DEF Step
  <2>5. \A k \in {2, 3, 6, 7, 9} : Script(calc.op)[k].by = "pico"
    BY <1>7, RespondScript DEF At
  <2>1. calc.step \in {1, 4, 5, 8}
    BY <1>3, <2>0, <2>5
  <2>2. /\ calc.step = 1 => cmds = {"REQ"}
        /\ calc.step = 4 \/ calc.step = 8 => cmds = {"ACK"}
        /\ calc.step = 5 => cmds = {"CTS"}
    BY <1>7, RespondScript DEF At
  <2>3. \A c \in cmds : CalcMaySend(c)
    BY <1>7, <2>1, <2>2 DEF CalcMaySend, CalcAt
  <2>4. QED BY <1>2, <1>4, <1>5, <2>3
<1>8. CASE calc.op = "send"
  <2>0. calc.step \in {1, 2, 3, 4, 5, 6, 7}
    BY <1>3, <1>8, SendScript DEF Step
  <2>5. \A k \in {1, 4, 5, 7} : Script(calc.op)[k].by = "pico"
    BY <1>8, SendScript DEF At
  <2>1. calc.step \in {2, 3, 6}
    BY <1>3, <2>0, <2>5
  <2>2. /\ calc.step = 2 \/ calc.step = 6 => cmds = {"ACK"}
        /\ calc.step = 3 => cmds = {"CTS"}
    BY <1>8, SendScript DEF At
  <2>3. \A c \in cmds : CalcMaySend(c)
    BY <1>8, <2>1, <2>2 DEF CalcMaySend, CalcAt
  <2>4. QED BY <1>2, <1>4, <1>5, <2>3
<1>9. CASE calc.op = "request"
  <2>0. calc.step \in {1, 2, 3, 4, 5, 6, 7, 8}
    BY <1>3, <1>9, RequestScript DEF Step
  <2>5. \A k \in {1, 4, 5, 8} : Script(calc.op)[k].by = "pico"
    BY <1>9, RequestScript DEF At
  <2>1. calc.step \in {2, 3, 6, 7}
    BY <1>3, <2>0, <2>5
  <2>2. /\ calc.step = 2 \/ calc.step = 6 => cmds = {"ACK"}
        /\ calc.step = 3 => cmds = {"VAR"}
        /\ calc.step = 7 => cmds = {"DATA"}
    BY <1>9, RequestScript DEF At
  <2>3. \A c \in cmds : CalcMaySend(c)
    BY <1>9, <2>1, <2>2 DEF CalcMaySend, CalcAt
  <2>4. QED BY <1>2, <1>4, <1>5, <2>3
<1>10. CASE calc.op \in {"delete", "ready", "refused"}
  BY <1>2, <1>3, <1>4, <1>5, <1>10, ShortScripts DEF At, CalcMaySend, CalcAt, Step
<1>11. QED BY <1>3, <1>6, <1>7, <1>8, <1>9, <1>10 DEF CalcOps

LEMMA CalcReadsThese ==
  ASSUME CalcTyped, calc.op # "idle", CalcReads
  PROVE  /\ \A cmd : cmd \in Script(calc.op)[calc.step].cmds <=> CalcMayRead(cmd)
         /\ \/ CalcAt("take", {2, 3, 6}) \/ CalcAt("respond", {2, 3, 6, 7, 9})
            \/ CalcAt("send", {4, 5, 7}) \/ CalcAt("request", {4, 5, 8})
            \/ CalcAt("ready", {2}) \/ CalcAt("refused", {1})
<1> DEFINE cmds == Script(calc.op)[calc.step].cmds
<1>2. calc.step \in 1..9 /\ calc.step <= Len(Script(calc.op)) /\ calc.op \in CalcOps
      /\ Script(calc.op)[calc.step].by # "calc"
      /\ (calc.op \in {"send", "request", "delete"} => calc.step > 1)
  BY DEF CalcTyped, CalcTurn, CalcReads, Step
<1>3. CASE calc.op = "take"
  <2>0. calc.step \in {1, 2, 3, 4, 5, 6, 7}
    BY <1>2, <1>3, UploadScript
  <2>1. (calc.step \in {2, 6} /\ cmds = {"ACK"}) \/ (calc.step = 3 /\ cmds = {"CTS"})
    BY <1>2, <1>3, <2>0, UploadScript DEF At
  <2>2. QED BY <2>1, <1>3 DEF CalcMayRead, CalcAt
<1>4. CASE calc.op = "respond"
  <2>0. calc.step \in {1, 2, 3, 4, 5, 6, 7, 8, 9}
    BY <1>2, <1>4, RespondScript
  <2>1. \/ (calc.step \in {2, 6} /\ cmds = {"ACK"}) \/ (calc.step = 3 /\ cmds = {"VAR"})
        \/ (calc.step = 7 /\ cmds = {"DATA"}) \/ (calc.step = 9 /\ cmds = {"EOT"})
    BY <1>2, <1>4, <2>0, RespondScript DEF At
  <2>2. QED BY <2>1, <1>4 DEF CalcMayRead, CalcAt
<1>5. CASE calc.op = "send"
  <2>0. calc.step \in {1, 2, 3, 4, 5, 6, 7}
    BY <1>2, <1>5, SendScript
  <2>1. \/ (calc.step = 4 /\ cmds = {"ACK"}) \/ (calc.step = 5 /\ cmds = {"DATA"})
        \/ (calc.step = 7 /\ cmds = {"EOT"})
    BY <1>2, <1>5, <2>0, SendScript DEF At
  <2>2. QED BY <2>1, <1>5 DEF CalcMayRead, CalcAt
<1>6. CASE calc.op = "request"
  <2>0. calc.step \in {1, 2, 3, 4, 5, 6, 7, 8}
    BY <1>2, <1>6, RequestScript
  <2>1. (calc.step \in {4, 8} /\ cmds = {"ACK"}) \/ (calc.step = 5 /\ cmds = {"CTS"})
    BY <1>2, <1>6, <2>0, RequestScript DEF At
  <2>2. QED BY <2>1, <1>6 DEF CalcMayRead, CalcAt
<1>7. CASE calc.op \in {"delete", "ready", "refused"}
  <2>1. /\ cmds = {"ACK"}
        /\ (calc.op = "ready" /\ calc.step = 2) \/ (calc.op = "refused" /\ calc.step = 1)
    BY <1>2, <1>7, ShortScripts DEF At
  <2>2. QED BY <2>1 DEF CalcMayRead, CalcAt
<1>8. QED BY <1>2, <1>3, <1>4, <1>5, <1>6, <1>7 DEF CalcOps

-----------------------------------------------------------------------------
(***************************************************************************)
(* What the two sides' parts of a step do to the types.                    *)
(***************************************************************************)
ResultTypes == [id : Numbers, ok : BOOLEAN, hdr : Ids, data : Ids]

PicoHistoryTyped ==
  delivered \subseteq Numbers \X Ids /\ results \subseteq ResultTypes

LEMMA PicoFields ==
  ASSUME PicoTyped
  PROVE  /\ pico.op \in PicoOps /\ pico.step \in 1..9
         /\ pico.id \in Ids /\ pico.hdr \in Ids /\ pico.data \in Ids
BY DEF PicoTyped, Step

LEMMA CalcFields ==
  ASSUME CalcTyped
  PROVE  calc.op \in CalcOps /\ calc.step \in 1..9 /\ calc.id \in Ids
BY DEF CalcTyped, Step

LEMMA NumbersAreIds ==
  ASSUME StoreTyped
  PROVE  /\ Numbers \subseteq Ids /\ 0 \in Ids /\ Ids \subseteq Int
         /\ \A id \in Numbers : id > 0
<1>1. MaxTransfers \in Nat /\ Len(transfers) \in Nat /\ Len(transfers) <= MaxTransfers
  BY DbusAssumption DEF StoreTyped
<1>2. QED BY <1>1 DEF Numbers, Ids

(* A Pico that rests is of the right type.                                 *)
RestingAt(op) == [op |-> op, step |-> 1, id |-> 0, hdr |-> 0, data |-> 0]

LEMMA RestIsTyped ==
  ASSUME StoreTyped, NEW op \in {"away", "listen"}, pico' = RestingAt(op)
  PROVE  PicoTyped'
<1>1. 0 \in Ids
  BY NumbersAreIds
<1>2. pico' \in [op : PicoOps, step : Step, id : Ids, hdr : Ids, data : Ids]
  BY <1>1 DEF RestingAt, PicoOps, Step
<1>3. pico'.op = op
  BY DEF RestingAt
<1>4. QED BY <1>2, <1>3 DEF PicoTyped, PicoActive, Ids

LEMMA ReturnsTo ==
  ASSUME NEW ok, Returns(ok)
  PROVE  /\ \E op \in {"away", "listen"} : pico' = RestingAt(op)
         /\ \/ results' = results
            \/ /\ pico.op \in {"send", "request", "delete", "refused"}
               /\ results' = results \cup {[id |-> pico.id, ok |-> ok,
                                            hdr |-> pico.hdr, data |-> pico.data]}
<1>1. Rest \in {RestingAt("away"), RestingAt("listen")} /\ Away = RestingAt("away")
  BY DEF Rest, Away, RestingAt
<1>2. pico' \in {RestingAt("away"), RestingAt("listen")}
  BY <1>1 DEF Returns
<1>3. QED BY <1>2 DEF Returns

LEMMA ReturnsTypes ==
  ASSUME PicoTyped, StoreTyped, PicoHistoryTyped, UNCHANGED transfers,
         PicoActive, NEW ok \in BOOLEAN, Returns(ok)
  PROVE  PicoTyped' /\ results' \subseteq ResultTypes'
<1>1. PicoTyped'
  BY ReturnsTo, RestIsTyped
<1>2. ResultTypes' = ResultTypes
  BY DEF ResultTypes, Numbers, Ids
<1>3. pico.op \in {"send", "request", "delete", "refused"} =>
        [id |-> pico.id, ok |-> ok, hdr |-> pico.hdr, data |-> pico.data] \in ResultTypes
  <2>1. pico.op \in {"send", "request", "delete", "refused"} => pico.id \in Numbers
    BY DEF PicoTyped
  <2>2. QED BY <2>1, PicoFields DEF ResultTypes
<1>4. QED BY <1>1, <1>2, <1>3, ReturnsTo DEF PicoHistoryTyped

LEMMA DeliverTypes ==
  ASSUME PicoHistoryTyped, UNCHANGED transfers,
         NEW hdr \in Numbers, NEW data \in Ids, Deliver(hdr, data)
  PROVE  (delivered \subseteq Numbers \X Ids)'
<1>1. Numbers' = Numbers /\ Ids' = Ids
  BY DEF Numbers, Ids
<1>2. delivered' = delivered \/ delivered' = delivered \cup {<<hdr, data>>}
  BY DEF Deliver
<1>3. QED BY <1>1, <1>2 DEF PicoHistoryTyped

LEMMA SameDeliveredTypes ==
  ASSUME PicoHistoryTyped, UNCHANGED <<transfers, delivered>>
  PROVE  (delivered \subseteq Numbers \X Ids)'
BY DEF PicoHistoryTyped, Numbers, Ids

LEMMA PicoStopsTypes ==
  ASSUME PicoTyped, StoreTyped, PicoHistoryTyped, UNCHANGED transfers, PicoActive, PicoStops
  PROVE  PicoTyped' /\ PicoHistoryTyped'
<1>1. PicoTyped' /\ results' \subseteq ResultTypes'
  <2>1. FALSE \in BOOLEAN
    OBVIOUS
  <2>2. QED BY <2>1, ReturnsTypes DEF PicoStops
<1>2. CASE UNCHANGED delivered
  BY <1>1, <1>2, SameDeliveredTypes DEF PicoHistoryTyped
<1>3. CASE pico.op = "take" /\ Deliver(pico.hdr, pico.data)
  <2>1. pico.hdr \in Numbers /\ pico.data \in Ids
    BY <1>3, PicoFields DEF PicoTyped
  <2>2. QED BY <1>1, <1>3, <2>1, DeliverTypes DEF PicoHistoryTyped
<1>4. QED BY <1>2, <1>3 DEF PicoStops

(* The header and the data a step may leave the Pico with.                 *)
Keeps(hdr, data) ==
  /\ hdr \in Ids /\ data \in Ids
  /\ pico.op = "recv" => hdr \in Numbers
  /\ pico.op = "take" => hdr = pico.hdr
  /\ pico.op = "request" /\ pico.step >= 3 => hdr \in Numbers
  /\ pico.op \in {"send", "delete"} => hdr = 0 /\ data = 0

LEMMA PicoAdvancesTo ==
  ASSUME PicoTyped, PicoActive, NEW hdr, NEW data, PicoAdvances(hdr, data)
  PROVE  \/ /\ pico.step < Len(Script(pico.op))
            /\ pico' = [op |-> pico.op, step |-> pico.step + 1,
                        id |-> IF pico.op = "recv" THEN hdr ELSE pico.id,
                        hdr |-> hdr, data |-> data]
            /\ UNCHANGED <<results, delivered>>
         \/ /\ pico.step = Len(Script(pico.op))
               \/ (pico.op \in {"send", "recv"} /\ pico.step >= 6)
            /\ Returns(pico.op # "refused")
            /\ IF pico.op = "recv" THEN Deliver(hdr, data) ELSE UNCHANGED delivered
<1> DEFINE id == IF pico.op = "recv" THEN hdr ELSE pico.id
           n == Len(Script(pico.op))
           steps == Steps(pico.op, machineOf(id))
<1>1. /\ n \in 1..9 /\ steps \in 1..n
      /\ steps < n => pico.op \in {"send", "recv"} /\ steps = 6
  BY Sizes, Zenon
<1>2. pico.step \in 1..9 /\ pico.step <= n
  BY PicoFields DEF PicoTyped
<1>3. CASE pico.step < steps
  <2>1. pico' = [op |-> pico.op, step |-> pico.step + 1, id |-> id, hdr |-> hdr, data |-> data]
        /\ UNCHANGED <<results, delivered>>
    BY <1>3 DEF PicoAdvances
  <2> HIDE DEF n, steps
  <2>2. pico.step < n
    BY <1>1, <1>2, <1>3
  <2>3. QED BY <2>1, <2>2 DEF n
<1>4. CASE ~(pico.step < steps)
  <2>1. /\ Returns(pico.op # "refused")
        /\ IF pico.op = "recv" THEN Deliver(hdr, data) ELSE UNCHANGED delivered
    BY <1>4 DEF PicoAdvances
  <2> HIDE DEF n, steps
  <2>2. pico.step = n \/ (pico.op \in {"send", "recv"} /\ pico.step >= 6)
    BY <1>1, <1>2, <1>4
  <2>3. QED BY <2>1, <2>2 DEF n
<1>5. QED BY <1>3, <1>4

LEMMA PicoAdvancesTypes ==
  ASSUME PicoTyped, StoreTyped, PicoHistoryTyped, UNCHANGED transfers, PicoActive,
         NEW hdr, NEW data, Keeps(hdr, data), PicoAdvances(hdr, data)
  PROVE  PicoTyped' /\ PicoHistoryTyped'
<1>0. /\ pico.op \in PicoOps /\ pico.op \notin {"away", "listen"}
      /\ pico.step \in 1..9 /\ pico.id \in Ids /\ Len(Script(pico.op)) \in 1..9
      /\ (~(pico.op = "recv" /\ pico.step = 1) => pico.id \in Numbers)
      /\ (pico.op = "take" => pico.hdr = pico.id)
      /\ Numbers \subseteq Ids /\ Numbers' = Numbers /\ Ids' = Ids
  BY PicoFields, Sizes, NumbersAreIds DEF PicoTyped, PicoActive, Numbers, Ids
<1>1. CASE /\ pico.step < Len(Script(pico.op))
           /\ pico' = [op |-> pico.op, step |-> pico.step + 1,
                       id |-> IF pico.op = "recv" THEN hdr ELSE pico.id,
                       hdr |-> hdr, data |-> data]
           /\ UNCHANGED <<results, delivered>>
  <2>1. /\ pico'.op = pico.op /\ pico'.step = pico.step + 1
        /\ pico'.id = (IF pico.op = "recv" THEN hdr ELSE pico.id)
        /\ pico'.hdr = hdr /\ pico'.data = data
    BY <1>1
  <2>2. pico' \in [op : PicoOps, step : Step, id : Ids, hdr : Ids, data : Ids]
    <3> DEFINE n == Len(Script(pico.op))
    <3>0. n \in 1..9 /\ pico.step \in 1..9 /\ pico.step < n
      BY <1>0, <1>1
    <3> HIDE DEF n
    <3>1. pico.step + 1 \in Step
      BY <3>0 DEF Step
    <3>2. (IF pico.op = "recv" THEN hdr ELSE pico.id) \in Ids /\ hdr \in Ids /\ data \in Ids
      BY <1>0 DEF Keeps
    <3>3. QED BY <1>0, <1>1, <3>1, <3>2
  <2>3. PicoTyped'
    BY <1>0, <1>1, <2>1, <2>2 DEF Keeps, PicoTyped, PicoActive
  <2>4. QED BY <1>1, <2>3, SameDeliveredTypes, <1>0 DEF PicoHistoryTyped, ResultTypes
<1>2. CASE /\ Returns(pico.op # "refused")
           /\ IF pico.op = "recv" THEN Deliver(hdr, data) ELSE UNCHANGED delivered
  <2>1. (pico.op # "refused") \in BOOLEAN
    OBVIOUS
  <2>2. PicoTyped' /\ results' \subseteq ResultTypes'
    BY <1>2, <2>1, ReturnsTypes
  <2>3. (delivered \subseteq Numbers \X Ids)'
    BY <1>2, DeliverTypes, SameDeliveredTypes DEF Keeps
  <2>4. QED BY <2>2, <2>3 DEF PicoHistoryTyped
<1>3. QED BY <1>1, <1>2, PicoAdvancesTo

LEMMA PicoSentTypes ==
  ASSUME PicoTyped, StoreTyped, PicoHistoryTyped, UNCHANGED transfers, PicoTurn, PicoSent
  PROVE  PicoTyped' /\ PicoHistoryTyped'
<1>1. PicoMaySend(PicoPacket.cmd) /\ PicoActive
  BY PicoSendsThese DEF PicoTurn
<1>2. Keeps(pico.hdr, pico.data)
  BY <1>1, PicoFields DEF Keeps, PicoTyped, PicoMaySend, PicoAt
<1>3. QED BY <1>1, <1>2, PicoAdvancesTypes DEF PicoSent

(* What a packet of the calculator carries.                                *)
Carries(packet) ==
  /\ CalcMaySend(packet.cmd)
  /\ packet.id = IF packet.cmd \in HeaderOnly THEN 0 ELSE calc.id
  /\ packet = [cmd |-> packet.cmd, id |-> packet.id]

LEMMA PacketsCarry ==
  ASSUME CalcTyped, CalcTurn, NEW packet \in CalcPackets
  PROVE  Carries(packet) /\ calc.op # "idle" /\ calc.id \in Numbers
<1>1. packet = [cmd |-> packet.cmd, id |-> packet.id]
  BY DEF CalcPackets, Packet
<1>2. QED BY <1>1, CalcSendsThese DEF Carries, CalcTurn, CalcTyped

LEMMA CarriesComes ==
  ASSUME NEW packet, Carries(packet), calc.id \in Numbers
  PROVE  Comes(packet)
BY DEF Carries, Comes

LEMMA BeginTypes ==
  ASSUME StoreTyped, UNCHANGED transfers, NEW op, NEW step, NEW packet,
         packet.id \in Numbers, Begin(op, packet, step),
         <<op, step>> \in {<<"take", 2>>, <<"respond", 2>>, <<"miss", 1>>, <<"ack", 1>>}
  PROVE  PicoTyped'
<1>1. packet.id \in Ids /\ 0 \in Ids /\ Numbers' = Numbers
  BY NumbersAreIds DEF Numbers
<1> DEFINE hdr == IF op = "take" THEN packet.id ELSE 0
<1>2. pico' = [op |-> op, step |-> step, id |-> packet.id, hdr |-> hdr, data |-> 0]
  BY DEF Begin
<1>3. hdr \in Ids /\ (op = "take" => hdr = packet.id)
  BY <1>1
<1> HIDE DEF hdr
<1>4. /\ op \in {"take", "respond", "miss", "ack"} /\ step \in {1, 2}
      /\ step = (IF op \in {"take", "respond"} THEN 2 ELSE 1)
  OBVIOUS
<1>5. /\ pico'.op = op /\ pico'.step = step /\ pico'.id = packet.id /\ pico'.hdr = hdr
      /\ pico' \in [op : PicoOps, step : Step, id : Ids, hdr : Ids, data : Ids]
  BY <1>1, <1>2, <1>3, <1>4 DEF PicoOps, Answers, Step
<1>6. step <= Len(Script(op))
  <2>1. Len(Script("take")) = 7
    BY UploadScript
  <2>2. CASE op \in {"take", "respond"}
    <3>1. Len(Script("take")) = 7 /\ Len(Script("respond")) = 9
      BY <2>1, RespondScript
    <3> DEFINE length == Len(Script(op))
    <3>2. length \in {7, 9}
      BY <2>2, <3>1
    <3> HIDE DEF length
    <3>3. step <= length
      BY <1>4, <3>2
    <3>4. QED BY <3>3 DEF length
  <2>3. CASE op \in {"miss", "ack"}
    <3>1. Len(Script(op)) = 1
      BY <2>3, ShortScripts
    <3>2. QED BY <1>4, <2>3, <3>1
  <2>4. QED BY <1>4, <2>2, <2>3
<1>7. QED BY <1>1, <1>3, <1>4, <1>5, <1>6 DEF PicoTyped, PicoActive, Ids

LEMMA DispatchTypes ==
  ASSUME PicoTyped, CalcTyped, StoreTyped, PicoHistoryTyped, UNCHANGED transfers,
         NEW packet, Comes(packet), calc.id \in Numbers, Dispatch(packet)
  PROVE  PicoTyped' /\ PicoHistoryTyped'
<1>1. PicoHistoryTyped'
  BY DEF Dispatch, PicoHistoryTyped, ResultTypes, Numbers, Ids
<1> DEFINE opener == [packet EXCEPT !.id = calc.id]
<1>2. opener.id = calc.id
  BY DEF Comes
<1>3. packet.cmd \in {"RTS", "VAR", "REQ"} => packet.id \in Numbers
  BY DEF Comes, HeaderOnly
<1>4. \/ packet.cmd \in {"RTS", "VAR"} /\ Begin("take", packet, 2)
      \/ packet.cmd = "REQ" /\ (Begin("respond", packet, 2) \/ Begin("miss", packet, 1))
      \/ Begin("ack", opener, 1)
  BY DEF Dispatch
<1> HIDE DEF opener
<1>5. CASE packet.cmd \in {"RTS", "VAR"} /\ Begin("take", packet, 2)
  BY <1>1, <1>3, <1>5, BeginTypes
<1>6. CASE packet.cmd = "REQ" /\ Begin("respond", packet, 2)
  BY <1>1, <1>3, <1>6, BeginTypes
<1>7. CASE packet.cmd = "REQ" /\ Begin("miss", packet, 1)
  BY <1>1, <1>3, <1>7, BeginTypes
<1>8. CASE Begin("ack", opener, 1)
  BY <1>1, <1>2, <1>8, BeginTypes
<1>9. QED BY <1>4, <1>5, <1>6, <1>7, <1>8

HeaderOf(packet) == IF packet.cmd \in {"RTS", "VAR"} THEN packet.id ELSE pico.hdr
DataOf(packet) == IF packet.cmd = "DATA" THEN packet.id ELSE pico.data

LEMMA NextPacketTypes ==
  ASSUME PicoTyped, CalcTyped, StoreTyped, PicoHistoryTyped, UNCHANGED transfers,
         PicoActive, ~PicoTurn, NEW packet, Comes(packet), NextPacket(packet)
  PROVE  PicoTyped' /\ PicoHistoryTyped'
<1>1. PicoMayRead(packet.cmd)
  BY PicoReadsThese DEF NextPacket
<1>2. /\ packet.cmd \in {"RTS", "VAR", "DATA"} => packet.id \in Numbers
      /\ Numbers \subseteq Ids
  BY NumbersAreIds DEF Comes, HeaderOnly
<1>3. Keeps(HeaderOf(packet), DataOf(packet))
  <2>1. HeaderOf(packet) \in Ids /\ DataOf(packet) \in Ids
    BY <1>2, PicoFields DEF HeaderOf, DataOf
  <2>2. pico.op = "recv" => HeaderOf(packet) \in Numbers
    BY <1>1, <1>2 DEF HeaderOf, PicoMayRead, PicoAt, PicoTyped, PicoActive
  <2>3. pico.op = "take" => HeaderOf(packet) = pico.hdr
    BY <1>1 DEF HeaderOf, PicoMayRead, PicoAt
  <2>4. pico.op = "request" /\ pico.step >= 3 => HeaderOf(packet) \in Numbers
    BY <1>1, <1>2 DEF HeaderOf, PicoMayRead, PicoAt, PicoTyped, PicoActive
  <2>5. pico.op \in {"send", "delete"} => HeaderOf(packet) = 0 /\ DataOf(packet) = 0
    BY <1>1 DEF HeaderOf, DataOf, PicoMayRead, PicoAt, PicoTyped
  <2>6. QED BY <2>1, <2>2, <2>3, <2>4, <2>5 DEF Keeps
<1>4. PicoAdvances(HeaderOf(packet), DataOf(packet))
  BY DEF NextPacket, HeaderOf, DataOf
<1>5. QED BY <1>3, <1>4, PicoAdvancesTypes

LEMMA SkippedTypes ==
  ASSUME PicoTyped, StoreTyped, PicoHistoryTyped, UNCHANGED <<transfers, delivered>>,
         PicoActive, NEW packet, Rejected(packet), Skipped
  PROVE  PicoTyped' /\ PicoHistoryTyped'
<1>1. pico.op \in {"send", "request", "respond"} /\ pico.step > 1
  BY DEF Rejected, MaySkip
<1>2. CASE Returns(TRUE)
  BY <1>2, ReturnsTypes, SameDeliveredTypes DEF PicoHistoryTyped
<1>3. CASE /\ pico' = [op |-> "refused", step |-> 1, id |-> pico.id,
                       hdr |-> pico.hdr, data |-> pico.data]
           /\ UNCHANGED results
  <2>1. /\ pico' \in [op : PicoOps, step : Step, id : Ids, hdr : Ids, data : Ids]
        /\ pico'.op = "refused" /\ pico'.step = 1 /\ pico'.id = pico.id
    BY <1>3, PicoFields DEF PicoOps, Answers, Step
  <2>2. pico.id \in Numbers /\ Numbers' = Numbers /\ Ids' = Ids
    BY <1>1 DEF PicoTyped, Numbers, Ids
  <2>3. PicoTyped'
    BY <2>1, <2>2, ShortScripts DEF PicoTyped, PicoActive
  <2>4. QED BY <1>3, <2>2, <2>3, SameDeliveredTypes DEF PicoHistoryTyped, ResultTypes
<1>4. QED BY <1>2, <1>3 DEF Skipped

LEMMA PicoReceivesTypes ==
  ASSUME PicoTyped, CalcTyped, StoreTyped, PicoHistoryTyped, UNCHANGED transfers,
         PicoReads, NEW packet, Comes(packet), calc.id \in Numbers, PicoReceives(packet)
  PROVE  PicoTyped' /\ PicoHistoryTyped'
<1>1. CASE pico.op = "listen"
  BY <1>1, DispatchTypes DEF PicoReceives
<1>2. CASE pico.op # "listen"
  <2>1. PicoActive /\ ~PicoTurn
    BY <1>2 DEF PicoReads
  <2>2. CASE pico.op \in {"recv", "take"} /\ pico.step = 7 /\ Returns(TRUE)
             /\ Deliver(pico.hdr, pico.data)
    <3>1. pico.hdr \in Numbers /\ pico.data \in Ids
      BY <2>1, <2>2, PicoFields DEF PicoTyped
    <3>2. QED BY <2>1, <2>2, <3>1, ReturnsTypes, DeliverTypes DEF PicoHistoryTyped
  <2>3. CASE NextPacket(packet)
    BY <2>1, <2>3, NextPacketTypes
  <2>4. CASE Rejected(packet) /\ Skipped /\ UNCHANGED delivered
    BY <2>1, <2>4, SkippedTypes
  <2>5. CASE PicoStops
    BY <2>1, <2>5, PicoStopsTypes
  <2>6. QED BY <1>2, <2>2, <2>3, <2>4, <2>5 DEF PicoReceives
<1>3. QED BY <1>1, <1>2

CalcHistoryTyped == memory \in [Vars -> Ids] /\ told \subseteq Numbers

LEMMA IdleIsTyped ==
  ASSUME StoreTyped, CalcIs("idle", 1, 0)
  PROVE  CalcTyped'
<1>1. 0 \in Ids
  BY NumbersAreIds
<1>2. calc' \in [op : CalcOps, step : Step, id : Ids] /\ calc'.op = "idle"
  BY <1>1 DEF CalcIs, CalcOps, Step
<1>3. QED BY <1>2 DEF CalcTyped, Ids

LEMMA CalcIsTyped ==
  ASSUME StoreTyped, UNCHANGED transfers, NEW op \in CalcOps \ {"idle"},
         NEW step \in 1..Len(Script(op)), NEW id \in Numbers, CalcIs(op, step, id),
         op \in {"send", "request", "delete"} => step > 1
  PROVE  CalcTyped'
<1> DEFINE n == Len(Script(op))
<1>1. n \in 1..9 /\ step \in 1..n
  BY Sizes
<1>2. step \in Step /\ id \in Ids /\ Numbers' = Numbers
  <2> HIDE DEF n
  <2>1. QED BY <1>1, NumbersAreIds DEF Step, Numbers
<1>3. /\ calc' \in [op : CalcOps, step : Step, id : Ids]
      /\ calc'.op = op /\ calc'.step = step /\ calc'.id = id
  BY <1>2 DEF CalcIs
<1>4. QED BY <1>1, <1>2, <1>3 DEF CalcTyped, Ids

LEMMA CalcStopsTypes ==
  ASSUME StoreTyped, CalcHistoryTyped, UNCHANGED transfers, CalcStops
  PROVE  CalcTyped' /\ CalcHistoryTyped'
BY IdleIsTyped DEF CalcStops, CalcHistoryTyped, Numbers, Ids

(* After its turn the calculator is at the next step, or idle.             *)
LEMMA CalcAdvancesTo ==
  ASSUME CalcTyped, calc.op # "idle", CalcAdvances
  PROVE  \/ calc.step + 1 \in 1..Len(Script(calc.op)) /\ CalcIs(calc.op, calc.step + 1, calc.id)
         \/ /\ CalcIs("idle", 1, 0)
            /\ \/ calc.step = Len(Script(calc.op))
               \/ calc.op \in {"send", "take"} /\ calc.step = 6
<1> DEFINE n == Len(Script(calc.op))
           steps == Steps(calc.op, machineOf(calc.id))
<1>1. /\ n \in 1..9 /\ steps \in 1..n
      /\ steps < n => calc.op \in {"send", "recv"} /\ steps = 6
  BY Sizes, Zenon
<1>2. calc.step \in 1..9 /\ calc.step <= n /\ calc.op # "recv"
  BY CalcFields DEF CalcTyped, CalcOps
<1>3. CASE calc.step < steps /\ CalcIs(calc.op, calc.step + 1, calc.id)
  <2> HIDE DEF n, steps
  <2>1. calc.step + 1 \in 1..n
    BY <1>1, <1>2, <1>3
  <2>2. QED BY <1>3, <2>1 DEF n
<1>4. CASE calc.step = steps /\ CalcIs("idle", 1, 0)
  <2> HIDE DEF n, steps
  <2>1. calc.step = n \/ (calc.op = "send" /\ calc.step = 6)
    BY <1>1, <1>2, <1>4
  <2>2. QED BY <1>4, <2>1 DEF n
<1>5. CASE calc.op = "take" /\ calc.step = 6 /\ CalcIs("idle", 1, 0)
  BY <1>5
<1>6. QED BY <1>3, <1>4, <1>5 DEF CalcAdvances

LEMMA CalcAdvancesTypes ==
  ASSUME CalcTyped, StoreTyped, UNCHANGED transfers, calc.op # "idle", CalcAdvances
  PROVE  CalcTyped'
<1>1. CASE calc.step + 1 \in 1..Len(Script(calc.op)) /\ CalcIs(calc.op, calc.step + 1, calc.id)
  <2>1. calc.op \in CalcOps \ {"idle"} /\ calc.id \in Numbers /\ calc.step + 1 > 1
    BY CalcFields DEF CalcTyped
  <2>2. QED BY <1>1, <2>1, CalcIsTyped
<1>2. CASE CalcIs("idle", 1, 0)
  BY <1>2, IdleIsTyped
<1>3. QED BY <1>1, <1>2, CalcAdvancesTo

LEMMA CalcSentTypes ==
  ASSUME CalcTyped, StoreTyped, CalcHistoryTyped, UNCHANGED transfers,
         calc.op # "idle", NEW packet, CalcSent(packet)
  PROVE  CalcTyped' /\ CalcHistoryTyped'
<1>1. CalcHistoryTyped'
  BY DEF CalcSent, CalcHistoryTyped, Numbers, Ids
<1>2. CASE CalcAdvances
  BY <1>1, <1>2, CalcAdvancesTypes
<1>3. CASE CalcIs("idle", 1, 0)
  BY <1>1, <1>3, IdleIsTyped
<1>4. CASE CalcIs("refused", 1, calc.id)
  <2>0. 1 \in 1..Len(Script("refused"))
    BY ShortScripts
  <2>1. "refused" \in CalcOps \ {"idle"} /\ 1 \in 1..Len(Script("refused"))
        /\ calc.id \in Numbers
    BY <2>0 DEF CalcOps, CalcTyped
  <2>2. QED BY <1>1, <1>4, <2>1, CalcIsTyped
<1>5. QED BY <1>2, <1>3, <1>4 DEF CalcSent

LEMMA ChangesTypes ==
  ASSUME StoreTyped, NEW packet, NEW now, Changes(packet, now), now => packet.id \in Numbers
  PROVE  (memory \in [Vars -> Ids])'
<1>1. memory \in [Vars -> Ids] /\ Ids' = Ids
  BY DEF StoreTyped, Ids
<1>2. CASE ~now
  BY <1>1, <1>2 DEF Changes
<1>3. CASE now
  <2>1. packet.id \in Ids
    BY <1>3, NumbersAreIds
  <2>2. memory' = [memory EXCEPT ![transfers[packet.id].var] = packet.id]
    BY <1>3 DEF Changes
  <2>3. QED BY <1>1, <2>1, <2>2
<1>4. QED BY <1>2, <1>3

(* What a packet of the Pico carries.                                      *)
PicoCarries(packet) ==
  /\ PicoMaySend(packet.cmd)
  /\ packet.id = IF packet.cmd \in HeaderOnly THEN 0 ELSE pico.id

LEMMA CalcReceivesTypes ==
  ASSUME CalcTyped, StoreTyped, CalcHistoryTyped, PicoTyped, UNCHANGED transfers, CalcReads,
         PicoTurn, NEW packet, PicoCarries(packet), CalcReceives(packet)
  PROVE  CalcTyped' /\ CalcHistoryTyped'
<1>1. /\ packet.cmd \notin HeaderOnly => packet.id \in Numbers
      /\ Numbers' = Numbers
  <2>1. PicoActive /\ (pico.op = "recv" /\ pico.step = 1 => packet.cmd \in HeaderOnly)
    BY DEF PicoTurn, PicoCarries, PicoMaySend, PicoAt
  <2>2. QED BY <2>1 DEF PicoCarries, PicoTyped, Numbers
<1>2. CASE calc.op = "idle"
  <2>1. (memory \in [Vars -> Ids])' /\ UNCHANGED told
    BY <1>1, <1>2, ChangesTypes DEF CalcReceives, HeaderOnly
  <2>2. CASE packet.cmd \in DOMAIN Served /\ CalcIs(Served[packet.cmd], 2, packet.id)
    <3>1. packet.cmd \in {"RTS", "REQ", "DEL"} /\ packet.id \in Numbers
      BY <1>1, <2>2 DEF Served, HeaderOnly
    <3>2. Served[packet.cmd] \in {"send", "request", "delete"}
      BY <3>1 DEF Served
    <3>3. /\ Served[packet.cmd] \in CalcOps \ {"idle"}
          /\ 2 \in 1..Len(Script(Served[packet.cmd]))
      <4>1. /\ 2 \in 1..Len(Script("send")) /\ 2 \in 1..Len(Script("request"))
            /\ 2 \in 1..Len(Script("delete"))
        <5>1. /\ Len(Script("send")) = 7 /\ Len(Script("request")) = 8
              /\ Len(Script("delete")) = 3
          BY SendScript, RequestScript, ShortScripts
        <5>2. 2 \in 1..7 /\ 2 \in 1..8 /\ 2 \in 1..3
          OBVIOUS
        <5>3. QED BY <5>1, <5>2, Zenon
      <4>2. QED BY <3>2, <4>1 DEF CalcOps
    <3>4. QED BY <1>1, <2>1, <2>2, <3>1, <3>3, CalcIsTyped DEF CalcHistoryTyped
  <2>3. CASE CalcIs("idle", 1, 0)
    BY <1>1, <2>1, <2>3, IdleIsTyped DEF CalcHistoryTyped
  <2>4. QED BY <1>2, <2>2, <2>3 DEF CalcReceives
<1>3. CASE calc.op # "idle" /\ CalcStops
  BY <1>3, CalcStopsTypes
<1>4. CASE /\ calc.op # "idle" /\ CalcAdvances
           /\ Changes(packet, calc.op \in {"send", "respond"} /\ packet.cmd = "DATA")
           /\ told' = IF calc.op = "take" /\ calc.step = 6 THEN told \cup {calc.id} ELSE told
  <2>1. (memory \in [Vars -> Ids])'
    BY <1>1, <1>4, ChangesTypes DEF HeaderOnly
  <2>2. told' \subseteq Numbers'
    BY <1>1, <1>4 DEF CalcHistoryTyped, CalcTyped
  <2>3. QED BY <1>4, <2>1, <2>2, CalcAdvancesTypes DEF CalcHistoryTyped
<1>5. QED BY <1>2, <1>3, <1>4 DEF CalcReceives

-----------------------------------------------------------------------------
(***************************************************************************)
(* The steps.  A joint step has three outcomes; a packet that breaks off   *)
(* stays with the Pico, and what the calculator sends later completes it.  *)
(***************************************************************************)
PicoSendsStep(packet) ==
  /\ PicoTurn /\ CalcReads /\ UNCHANGED <<transfers, partial, mixed>> /\ PicoCarries(packet)
  /\ \/ PicoSent /\ CalcReceives(packet) /\ UNCHANGED faults
     \/ PicoStops /\ CalcReceives(packet) /\ faults' > 0
     \/ PicoSent /\ CalcStops /\ faults' > 0

CalcMeets(packet) ==
  /\ CalcTurn /\ calc.op # "idle" /\ calc.id \in Numbers /\ PicoReads
  /\ UNCHANGED transfers /\ Carries(packet)

CalcSendsStep(packet) ==
  /\ CalcMeets(packet) /\ partial = {} /\ UNCHANGED <<partial, mixed>>
  /\ \/ CalcSent(packet) /\ PicoReceives(packet) /\ UNCHANGED faults
     \/ CalcStops /\ PicoReceives(packet) /\ faults' > 0
     \/ CalcSent(packet) /\ pico.op = "listen" /\ UNCHANGED picoSide /\ faults' > 0
     \/ CalcSent(packet) /\ pico.op # "listen" /\ PicoStops /\ faults' > 0

CalcCutsStep(packet) ==
  /\ CalcMeets(packet) /\ partial = {} /\ partial' = {packet}
  /\ CalcStops /\ UNCHANGED <<picoSide, mixed>> /\ faults' > 0

CalcFillsStep(packet, cut) ==
  /\ CalcMeets(packet) /\ cut \in partial
  /\ mixed' = IF cut.cmd \in HeaderOnly THEN mixed ELSE mixed \cup {cut.id}
  /\ CalcStops \/ (cut.cmd \notin HeaderOnly /\ CalcSent(packet))
  /\ UNCHANGED <<partial, picoSide>> \/ (partial' = {} /\ PicoReceives(cut))
  /\ faults' = faults \/ faults' > 0

LEMMA FaultCounts ==
  ASSUME StoreTyped, Fault
  PROVE  faults' \in 0..MaxFaults /\ faults' > 0 /\ faults' > faults
BY DbusAssumption DEF StoreTyped, Fault

LEMMA PicoToCalcIs ==
  ASSUME PicoTyped, StoreTyped, PicoToCalc
  PROVE  (\E packet : PicoSendsStep(packet)) /\ faults' \in 0..MaxFaults
<1>1. PicoCarries(PicoPacket)
  BY PicoSendsThese DEF PicoToCalc, PicoCarries
<1>2. faults' \in 0..MaxFaults
  BY FaultCounts DEF PicoToCalc, NoFault, StoreTyped
<1>3. PicoSendsStep(PicoPacket)
  BY <1>1, FaultCounts DEF PicoToCalc, PicoSendsStep, NoFault
<1>4. QED BY <1>2, <1>3

LEMMA CalcToPicoIs ==
  ASSUME CalcTyped, StoreTyped, CalcToPico
  PROVE  /\ \E packet : \/ CalcSendsStep(packet) \/ CalcCutsStep(packet)
                         \/ \E cut : CalcFillsStep(packet, cut)
         /\ faults' \in 0..MaxFaults
<1>1. PICK packet \in CalcPackets :
        \/ PacketPasses(packet) \/ PacketBreaksOff(packet)
        \/ BodySwallows(packet) \/ BodyFillsUp(packet)
  BY DEF CalcToPico
<1>2. CalcMeets(packet)
  BY PacketsCarry DEF CalcToPico, CalcMeets
<1>3. CASE PacketPasses(packet)
  <2>1. CalcSendsStep(packet)
    BY <1>2, <1>3, FaultCounts DEF PacketPasses, CalcSendsStep, NoFault
  <2>2. faults' \in 0..MaxFaults
    BY <1>3, FaultCounts DEF PacketPasses, NoFault, StoreTyped
  <2>3. QED BY <2>1, <2>2
<1>4. CASE PacketBreaksOff(packet)
  <2>1. CalcCutsStep(packet) /\ faults' \in 0..MaxFaults
    BY <1>2, <1>4, FaultCounts DEF PacketBreaksOff, CalcCutsStep
  <2>2. QED BY <2>1
<1>5. CASE BodySwallows(packet)
  <2>1. PICK cut \in partial :
          /\ cut.cmd \notin HeaderOnly /\ Mix(cut) /\ UNCHANGED <<partial, picoSide>>
          /\ (CalcSent(packet) /\ NoFault) \/ (CalcStops /\ Fault)
    BY <1>5 DEF BodySwallows
  <2>2. CalcFillsStep(packet, cut)
    BY <1>2, <2>1, FaultCounts DEF CalcFillsStep, Mix, NoFault
  <2>3. faults' \in 0..MaxFaults
    BY <2>1, FaultCounts DEF NoFault, StoreTyped
  <2>4. QED BY <2>2, <2>3
<1>6. CASE BodyFillsUp(packet)
  <2>1. PICK cut \in partial :
          /\ PicoReceives(cut) /\ Mix(cut) /\ partial' = {} /\ NoFault
          /\ CalcStops \/ (cut.cmd \notin HeaderOnly /\ CalcSent(packet))
    BY <1>6 DEF BodyFillsUp
  <2>2. CalcFillsStep(packet, cut)
    BY <1>2, <2>1 DEF CalcFillsStep, Mix, NoFault
  <2>3. faults' \in 0..MaxFaults
    BY <2>1 DEF NoFault, StoreTyped
  <2>4. QED BY <2>2, <2>3
<1>7. QED BY <1>1, <1>3, <1>4, <1>5, <1>6

DbusTyped == PicoTyped /\ CalcTyped /\ StoreTyped /\ HistoryTyped /\ CutTyped

(* What completes a packet is the first one of something else.             *)
LEMMA FillerIsFirst ==
  ASSUME CalcTyped, CutTyped, NEW packet, NEW cut, CalcFillsStep(packet, cut)
  PROVE  /\ Comes(cut) /\ partial = {cut} /\ New /\ calc.step = 1
         /\ packet.cmd # "SKIP" /\ faults > 0
<1>1. /\ cut \in partial /\ calc.op # "idle" /\ CalcMaySend(packet.cmd)
  BY DEF CalcFillsStep, CalcMeets, Carries
<1>2. Comes(cut) /\ partial = {cut} /\ New /\ faults > 0
  BY <1>1 DEF CutTyped
<1>3. calc.step = 1 /\ packet.cmd # "SKIP"
  BY <1>1, <1>2 DEF New, CalcMaySend, CalcAt
<1>4. QED BY <1>2, <1>3

(* After it the calculator is idle, or at the second step.                 *)
LEMMA FillerGoesTo ==
  ASSUME CalcTyped, CutTyped, NEW packet, NEW cut, CalcFillsStep(packet, cut)
  PROVE  /\ UNCHANGED <<memory, told>>
         /\ \/ calc'.op = "idle"
            \/ /\ cut.cmd \notin HeaderOnly /\ New' /\ calc'.step = 2
               /\ calc'.op = calc.op /\ calc'.id = calc.id
<1>1. New /\ calc.step = 1 /\ packet.cmd # "SKIP" /\ calc.op # "idle"
  BY FillerIsFirst DEF CalcFillsStep, CalcMeets
<1>2. CASE CalcStops
  BY <1>2 DEF CalcStops, CalcIs
<1>3. CASE cut.cmd \notin HeaderOnly /\ CalcSent(packet)
  <2>1. UNCHANGED <<memory, told>> /\ CalcAdvances
    BY <1>1, <1>3 DEF CalcSent
  <2>2. CalcIs(calc.op, 2, calc.id) \/ CalcIs("idle", 1, 0)
    BY <1>1, <2>1 DEF CalcAdvances
  <2>3. QED BY <1>1, <1>3, <2>1, <2>2 DEF CalcIs, New
<1>4. QED BY <1>2, <1>3 DEF CalcFillsStep

LEMMA SameCalcSide ==
  ASSUME CalcTyped, CalcHistoryTyped, UNCHANGED <<calcSide, transfers>>
  PROVE  CalcTyped' /\ CalcHistoryTyped'
BY DEF calcSide, CalcTyped, CalcHistoryTyped, Numbers, Ids

LEMMA SamePicoSide ==
  ASSUME PicoTyped, PicoHistoryTyped, UNCHANGED <<picoSide, transfers>>
  PROVE  PicoTyped' /\ PicoHistoryTyped'
BY DEF picoSide, PicoTyped, PicoActive, PicoHistoryTyped, ResultTypes, Numbers, Ids

(* Nothing breaks off and nothing is filled up.                            *)
LEMMA CutStays ==
  ASSUME CutTyped, StoreTyped, Numbers \subseteq Numbers', UNCHANGED mixed,
         faults' = faults \/ faults' > 0,
         \/ partial' = {}
         \/ UNCHANGED <<partial, pico>> /\ (UNCHANGED calc \/ calc'.op = "idle" \/ New')
  PROVE  CutTyped'
<1>1. /\ mixed' \subseteq Numbers'
      /\ partial' # {} \/ mixed' # {} => faults' > 0
  BY DEF CutTyped
<1>2. CASE partial' = {}
  BY <1>1, <1>2 DEF CutTyped
<1>3. CASE UNCHANGED <<partial, pico>> /\ (UNCHANGED calc \/ calc'.op = "idle" \/ New')
  <2>1. \A cut \in partial' : PicoReads' /\ partial' = {cut} /\ Comes(cut)'
    BY <1>3 DEF CutTyped, PicoReads, PicoTurn, PicoActive, Comes
  <2>2. partial' # {} => calc'.op = "idle" \/ New'
    BY <1>3 DEF CutTyped, New
  <2>3. QED BY <1>1, <2>1, <2>2 DEF CutTyped
<1>4. QED BY <1>2, <1>3

LEMMA NothingIsCut ==
  ASSUME CutTyped, PicoTurn \/ pico.op = "away"
  PROVE  partial = {}
<1>1. pico.op = "away" => ~PicoActive /\ pico.op # "listen"
  BY DEF PicoActive
<1>2. PicoTurn => pico.op # "listen"
  BY DEF PicoTurn, PicoActive
<1>3. ~PicoReads
  BY <1>1, <1>2 DEF PicoReads
<1>4. QED BY <1>3 DEF CutTyped

LEMMA DbusStepCuts ==
  ASSUME DbusTyped, DbusStep
  PROVE  CutTyped' /\ mixed \subseteq mixed' /\ (faults' = 0 => faults = 0)
<1>0. /\ PicoTyped /\ CalcTyped /\ StoreTyped /\ CutTyped
      /\ ~(faults > 0) <=> faults = 0
  BY DEF DbusTyped, StoreTyped
<1>1. ASSUME UNCHANGED <<transfers, mixed>>, faults' = faults \/ faults' > 0,
             \/ partial' = {}
             \/ UNCHANGED <<partial, pico>> /\ (UNCHANGED calc \/ calc'.op = "idle")
      PROVE  CutTyped' /\ mixed \subseteq mixed' /\ (faults' = 0 => faults = 0)
  <2>1. Numbers \subseteq Numbers'
    BY <1>1 DEF Numbers
  <2>2. CutTyped'
    BY <1>0, <1>1, <2>1, CutStays
  <2>3. QED BY <1>1, <2>2
<1>2. CASE PicoToCalc
  <2>1. PICK packet : PicoSendsStep(packet)
    BY <1>0, <1>2, PicoToCalcIs
  <2>2. partial = {}
    BY <1>0, <2>1, NothingIsCut DEF PicoSendsStep
  <2>3. QED BY <1>1, <2>1, <2>2 DEF PicoSendsStep
<1>3. ASSUME NEW packet, CalcSendsStep(packet)
      PROVE  CutTyped' /\ mixed \subseteq mixed' /\ (faults' = 0 => faults = 0)
  BY <1>1, <1>3 DEF CalcSendsStep, CalcMeets
<1>4. ASSUME NEW packet, CalcCutsStep(packet)
      PROVE  CutTyped' /\ mixed \subseteq mixed' /\ (faults' = 0 => faults = 0)
  <2>1. /\ UNCHANGED <<transfers, pico, mixed>> /\ PicoReads /\ partial' = {packet}
        /\ calc'.op = "idle" /\ faults' > 0 /\ Comes(packet)
    BY <1>4, CarriesComes DEF CalcCutsStep, CalcMeets, picoSide, CalcStops, CalcIs
  <2>2. Comes(packet)' /\ PicoReads' /\ Numbers' = Numbers
    BY <2>1 DEF Comes, Numbers, PicoReads, PicoTurn, PicoActive
  <2>3. CutTyped'
    BY <1>0, <2>1, <2>2 DEF CutTyped
  <2>4. QED BY <2>1, <2>3
<1>5. ASSUME NEW packet, NEW cut, CalcFillsStep(packet, cut)
      PROVE  CutTyped' /\ mixed \subseteq mixed' /\ (faults' = 0 => faults = 0)
  <2>1. /\ UNCHANGED transfers /\ PicoReads /\ Comes(cut) /\ partial = {cut} /\ faults > 0
        /\ faults' = faults \/ faults' > 0
        /\ mixed' = IF cut.cmd \in HeaderOnly THEN mixed ELSE mixed \cup {cut.id}
        /\ UNCHANGED <<partial, picoSide>> \/ partial' = {}
    BY <1>0, <1>5, FillerIsFirst DEF CalcFillsStep, CalcMeets
  <2>2. mixed' \subseteq Numbers' /\ mixed \subseteq mixed' /\ faults' > 0
    BY <1>0, <2>1 DEF CutTyped, Comes, Numbers
  <2>3. calc'.op = "idle" \/ New'
    BY <1>0, <1>5, FillerGoesTo
  <2>4. CASE partial' = {}
    BY <2>2, <2>4 DEF CutTyped
  <2>5. CASE UNCHANGED <<partial, picoSide>>
    <3>1. PicoReads' /\ Comes(cut)' /\ partial' = {cut}
      BY <2>1, <2>5 DEF picoSide, Comes, Numbers, PicoReads, PicoTurn, PicoActive
    <3>2. QED BY <2>2, <2>3, <3>1 DEF CutTyped
  <2>6. QED BY <2>1, <2>2, <2>4, <2>5, <1>0
<1>6. CASE CalcToPico
  BY <1>0, <1>3, <1>4, <1>5, <1>6, CalcToPicoIs
<1>7. CASE PicoTimesOut
  BY <1>0, <1>1, <1>7, FaultCounts DEF PicoTimesOut, NoFault
<1>8. CASE CalcTimesOut
  BY <1>0, <1>1, <1>8, FaultCounts DEF CalcTimesOut, NoFault, CalcStops, CalcIs, picoSide
<1>9. CASE StopListening \/ Listen \/ RecvVarCalled
  <2>1. /\ UNCHANGED <<transfers, mixed, faults>>
        /\ partial' = {} \/ (pico.op = "away" /\ UNCHANGED partial)
    BY <1>9 DEF StopListening, Listen, RecvVarCalled
  <2>2. QED BY <1>0, <1>1, <2>1, NothingIsCut
<1>10. QED BY <1>2, <1>6, <1>7, <1>8, <1>9 DEF DbusStep

LEMMA DbusStepTypes ==
  ASSUME DbusTyped, DbusStep
  PROVE  DbusTyped' /\ UNCHANGED transfers
<1>1. PicoTyped /\ CalcTyped /\ StoreTyped /\ PicoHistoryTyped /\ CalcHistoryTyped
  BY DEF DbusTyped, HistoryTyped, StoreTyped, PicoHistoryTyped, CalcHistoryTyped, ResultTypes
<1>2. SUFFICES /\ PicoTyped' /\ PicoHistoryTyped' /\ CalcTyped' /\ CalcHistoryTyped'
               /\ UNCHANGED transfers /\ faults' \in 0..MaxFaults
  <2>1. ASSUME CalcHistoryTyped', UNCHANGED transfers, faults' \in 0..MaxFaults
        PROVE  StoreTyped'
    BY <1>1, <2>1 DEF StoreTyped, CalcHistoryTyped, Transfers
  <2>2. ASSUME CalcHistoryTyped', PicoHistoryTyped' PROVE HistoryTyped'
    BY <2>2 DEF HistoryTyped, PicoHistoryTyped, CalcHistoryTyped, ResultTypes
  <2>3. QED BY <2>1, <2>2, DbusStepCuts DEF DbusTyped
<1>3. CASE PicoToCalc
  <2>1. PICK packet : PicoSendsStep(packet)
    BY <1>1, <1>3, PicoToCalcIs
  <2>2. UNCHANGED transfers /\ PicoTurn /\ PicoActive /\ CalcReads /\ PicoCarries(packet)
    BY <2>1 DEF PicoSendsStep, PicoTurn
  <2>3. PicoSent => PicoTyped' /\ PicoHistoryTyped'
    BY <1>1, <2>2, PicoSentTypes
  <2>4. PicoStops => PicoTyped' /\ PicoHistoryTyped'
    BY <1>1, <2>2, PicoStopsTypes
  <2>5. CalcReceives(packet) => CalcTyped' /\ CalcHistoryTyped'
    BY <1>1, <2>2, CalcReceivesTypes
  <2>6. CalcStops => CalcTyped' /\ CalcHistoryTyped'
    BY <1>1, <2>2, CalcStopsTypes
  <2>7. faults' \in 0..MaxFaults
    BY <1>1, <1>3, PicoToCalcIs
  <2>8. QED BY <2>1, <2>2, <2>3, <2>4, <2>5, <2>6, <2>7 DEF PicoSendsStep
<1>4. CASE CalcToPico
  <2>1. PICK packet : \/ CalcSendsStep(packet) \/ CalcCutsStep(packet)
                      \/ \E cut : CalcFillsStep(packet, cut)
    BY <1>1, <1>4, CalcToPicoIs
  <2>2. CalcMeets(packet)
    BY <2>1 DEF CalcSendsStep, CalcCutsStep, CalcFillsStep
  <2>3. /\ UNCHANGED transfers /\ calc.op # "idle" /\ calc.id \in Numbers /\ PicoReads
        /\ Comes(packet) /\ (pico.op # "listen" => PicoActive)
    BY <2>2, CarriesComes DEF CalcMeets, PicoReads
  <2>4. ASSUME NEW read, Comes(read), PicoReceives(read) PROVE PicoTyped' /\ PicoHistoryTyped'
    BY <1>1, <2>3, <2>4, PicoReceivesTypes
  <2>5. PicoStops /\ pico.op # "listen" => PicoTyped' /\ PicoHistoryTyped'
    BY <1>1, <2>3, PicoStopsTypes
  <2>6. CalcSent(packet) => CalcTyped' /\ CalcHistoryTyped'
    BY <1>1, <2>3, CalcSentTypes
  <2>7. CalcStops => CalcTyped' /\ CalcHistoryTyped'
    BY <1>1, <2>3, CalcStopsTypes
  <2>8. UNCHANGED picoSide => PicoTyped' /\ PicoHistoryTyped'
    BY <1>1, <2>3, SamePicoSide
  <2>9. CASE CalcSendsStep(packet)
    BY <2>3, <2>4, <2>5, <2>6, <2>7, <2>8, <2>9, CalcToPicoIs, <1>1, <1>4 DEF CalcSendsStep
  <2>10. CASE CalcCutsStep(packet)
    BY <2>3, <2>7, <2>8, <2>10, CalcToPicoIs, <1>1, <1>4 DEF CalcCutsStep
  <2>11. ASSUME NEW cut, CalcFillsStep(packet, cut)
         PROVE  PicoTyped' /\ PicoHistoryTyped' /\ CalcTyped' /\ CalcHistoryTyped'
    <3>1. Comes(cut)
      BY <1>1, <2>11, FillerIsFirst DEF DbusTyped
    <3>2. QED BY <2>4, <2>6, <2>7, <2>8, <2>11, <3>1 DEF CalcFillsStep
  <2>12. QED BY <2>1, <2>3, <2>9, <2>10, <2>11, CalcToPicoIs, <1>1, <1>4
<1>5. CASE PicoTimesOut
  <2>1. PicoActive /\ PicoStops /\ UNCHANGED <<calcSide, transfers>>
        /\ faults' \in 0..MaxFaults
    BY <1>1, <1>5, FaultCounts DEF PicoTimesOut, NoFault, StoreTyped
  <2>2. QED BY <1>1, <2>1, PicoStopsTypes, SameCalcSide
<1>6. CASE CalcTimesOut
  <2>1. CalcStops /\ UNCHANGED <<picoSide, transfers>> /\ faults' \in 0..MaxFaults
    BY <1>1, <1>6, FaultCounts DEF CalcTimesOut, NoFault, StoreTyped
  <2>2. QED BY <1>1, <2>1, CalcStopsTypes, SamePicoSide
<1>7. CASE StopListening \/ Listen \/ RecvVarCalled
  <2>1. /\ UNCHANGED <<delivered, results, calcSide, transfers, faults>>
        /\ \E op \in {"away", "listen", "recv"} : pico' = RestingAt(op)
    BY <1>7 DEF StopListening, Listen, RecvVarCalled, PicoBegins, RestingAt, Away
  <2>2. PicoTyped'
    <3>1. CASE pico' = RestingAt("recv")
      <4>1. 0 \in Ids /\ 1 <= Len(Script("recv"))
        <5>1. 0 \in Ids /\ Len(Script("recv")) = 7
          BY <1>1, NumbersAreIds, UploadScript
        <5>2. 1 <= 7
          OBVIOUS
        <5>3. QED BY <5>1, <5>2, Zenon
      <4>2. /\ pico' \in [op : PicoOps, step : Step, id : Ids, hdr : Ids, data : Ids]
            /\ pico'.op = "recv" /\ pico'.step = 1
        BY <3>1, <4>1 DEF RestingAt, PicoOps, Step
      <4>3. QED BY <4>1, <4>2 DEF PicoTyped, PicoActive, Ids
    <3>2. QED BY <1>1, <2>1, <3>1, RestIsTyped
  <2>3. PicoHistoryTyped'
    BY <1>1, <2>1 DEF PicoHistoryTyped, ResultTypes, Numbers, Ids
  <2>4. QED BY <1>1, <2>1, <2>2, <2>3, SameCalcSide DEF StoreTyped
<1>8. QED BY <1>3, <1>4, <1>5, <1>6, <1>7 DEF DbusStep

(* A transfer that starts gets the next number.                            *)
LEMMA TransferNumbers ==
  ASSUME StoreTyped, NEW by \in {"pico", "calc"}, NEW var \in Vars,
         NEW machine \in Machines \cup {"ti83"}, Transfer(by, var, machine)
  PROVE  /\ transfers' \in Seq(Transfers) /\ Len(transfers') <= MaxTransfers
         /\ Len(transfers') = Len(transfers) + 1 /\ Len(transfers') \in Numbers'
         /\ Numbers \subseteq Numbers' /\ Numbers' = Numbers \cup {Len(transfers')}
         /\ Len(transfers') \notin Numbers
         /\ \A id \in Numbers : transfers'[id] = transfers[id]
         /\ transfers'[Len(transfers')].var = var
<1> DEFINE n == Len(transfers)
           t == [by |-> by, var |-> var, machine |-> machine]
<1>1. t \in Transfers /\ t.var = var
  BY DEF Transfers
<1>2. transfers \in Seq(Transfers) /\ transfers' = Append(transfers, t) /\ n < MaxTransfers
  BY DEF StoreTyped, Transfer
<1> HIDE DEF t, Transfers
<1>3. n \in Nat /\ Len(transfers') = n + 1 /\ transfers' \in Seq(Transfers)
      /\ (\A id \in 1..n : transfers'[id] = transfers[id]) /\ transfers'[n + 1] = t
  BY <1>1, <1>2
<1>4. Len(transfers') <= MaxTransfers
  BY <1>2, <1>3, DbusAssumption
<1>5. Numbers = 1..n /\ Numbers' = 1..(n + 1)
  BY <1>3 DEF Numbers
<1> HIDE DEF n
<1>6. Numbers \subseteq Numbers' /\ Numbers' = Numbers \cup {n + 1} /\ n + 1 \notin Numbers
  BY <1>3, <1>5
<1>7. QED BY <1>1, <1>3, <1>4, <1>5, <1>6 DEF n

LEMMA HistoryGrows ==
  ASSUME HistoryTyped, Numbers \subseteq Numbers', UNCHANGED <<told, delivered, results>>
  PROVE  HistoryTyped'
<1>1. Ids' = Ids
  BY DEF Ids
<1>2. [id : Numbers, ok : BOOLEAN, hdr : Ids, data : Ids]
        \subseteq [id : Numbers', ok : BOOLEAN, hdr : Ids, data : Ids]
  BY Zenon
<1>3. Numbers \X Ids \subseteq Numbers' \X Ids
  OBVIOUS
<1>4. told' \subseteq Numbers' /\ delivered' \subseteq Numbers' \X Ids'
      /\ results' \subseteq [id : Numbers', ok : BOOLEAN, hdr : Ids', data : Ids']
  BY <1>1, <1>2, <1>3 DEF HistoryTyped
<1>5. QED BY <1>4 DEF HistoryTyped

LEMMA PicoStartsTypes ==
  ASSUME DbusTyped, NEW op \in {"send", "request", "delete"}, NEW var \in Vars,
         NEW machine \in Machines \cup {"ti83"}, PicoStarts(op, var, machine)
  PROVE  DbusTyped' /\ Numbers \subseteq Numbers'
<1>1. StoreTyped /\ Transfer("pico", var, machine) /\ "pico" \in {"pico", "calc"}
  BY DEF DbusTyped, PicoStarts
<1> DEFINE n == Len(transfers')
<1>2. /\ transfers' \in Seq(Transfers) /\ n <= MaxTransfers
      /\ n \in Numbers' /\ Numbers \subseteq Numbers'
  BY <1>1, TransferNumbers
<1>3. StoreTyped'
  BY <1>1, <1>2 DEF StoreTyped, PicoStarts, calcSide, Ids, Transfers
<1>4. n \in Ids' /\ 0 \in Ids'
  <2>1. \A id \in Numbers' : id \in Ids'
    BY <1>3, <1>2, DbusAssumption DEF Numbers, Ids
  <2>2. QED BY <1>2, <2>1, DbusAssumption DEF Ids
<1> HIDE DEF n
<1>5. pico' = [op |-> op, step |-> 1, id |-> n, hdr |-> 0, data |-> 0]
  BY DEF PicoStarts, PicoBegins, n
<1>6. PicoTyped'
  <2>1. /\ pico' \in [op : PicoOps, step : Step, id : Ids', hdr : Ids', data : Ids']
        /\ pico'.op = op /\ pico'.step = 1 /\ pico'.id = n /\ pico'.hdr = 0 /\ pico'.data = 0
    BY <1>4, <1>5 DEF PicoOps, Step
  <2>2. 1 <= Len(Script(op))
    BY Sizes
  <2>3. QED BY <1>2, <2>1, <2>2 DEF PicoTyped, PicoActive, Ids
<1>7. CalcTyped'
  BY <1>2 DEF DbusTyped, CalcTyped, PicoStarts, calcSide, Ids
<1>8. HistoryTyped'
  BY <1>2, HistoryGrows DEF DbusTyped, PicoStarts, calcSide
<1>9. CutTyped'
  <2>1. partial' = {} /\ UNCHANGED <<mixed, faults>>
    BY NothingIsCut DEF DbusTyped, PicoStarts
  <2>2. QED BY <1>1, <1>2, <2>1, CutStays DEF DbusTyped
<1>10. QED BY <1>2, <1>3, <1>6, <1>7, <1>8, <1>9 DEF DbusTyped

(* CalcStarts, and Ask, which also clears the count.                       *)
LEMMA CalcBeginsTypes ==
  ASSUME DbusTyped, NEW op \in {"take", "respond", "ready"}, NEW var \in Vars,
         NEW machine \in Machines \cup {"ti83"}, Transfer("calc", var, machine),
         CalcIs(op, 1, Len(transfers')), UNCHANGED <<told, picoSide, faults, partial, mixed>>,
         memory' = memory
           \/ \E v \in Vars : memory' = [memory EXCEPT ![v] = Len(transfers')]
  PROVE  DbusTyped' /\ Numbers \subseteq Numbers'
<1>1. StoreTyped /\ "calc" \in {"pico", "calc"}
  BY DEF DbusTyped
<1> DEFINE n == Len(transfers')
<1>2. /\ transfers' \in Seq(Transfers) /\ n <= MaxTransfers
      /\ n \in Numbers' /\ Numbers \subseteq Numbers'
  BY <1>1, TransferNumbers
<1>4. n \in Ids /\ 0 \in Ids /\ Ids' = Ids
  <2>1. Len(transfers') \in Nat
    BY <1>2
  <2>2. QED BY <1>2, <2>1, DbusAssumption DEF Ids
<1> HIDE DEF n
<1>5. memory' = memory \/ \E v \in Vars : memory' = [memory EXCEPT ![v] = n]
  BY DEF n
<1>3. StoreTyped'
  <2>1. memory' \in [Vars -> Ids]
    BY <1>1, <1>4, <1>5 DEF StoreTyped
  <2>2. QED BY <1>1, <1>2, <1>4, <2>1 DEF StoreTyped, Transfers, n
<1>6. CalcTyped'
  <2>1. /\ calc' \in [op : CalcOps, step : Step, id : Ids]
        /\ calc'.op = op /\ calc'.step = 1 /\ calc'.id = n
    BY <1>4 DEF CalcIs, CalcOps, Step, n
  <2>2. 1 <= Len(Script(op))
    BY Sizes
  <2>3. QED BY <1>2, <1>4, <2>1, <2>2 DEF CalcTyped
<1>7. PicoTyped'
  BY <1>2, <1>4 DEF DbusTyped, PicoTyped, PicoActive, picoSide
<1>8. HistoryTyped'
  BY <1>2, HistoryGrows DEF DbusTyped, picoSide
<1>9. CutTyped'
  <2>1. New' /\ UNCHANGED <<pico, partial, mixed, faults>>
    BY DEF New, CalcIs, picoSide
  <2>2. QED BY <1>1, <1>2, <2>1, CutStays DEF DbusTyped
<1>10. QED BY <1>2, <1>3, <1>6, <1>7, <1>8, <1>9 DEF DbusTyped

-----------------------------------------------------------------------------
(***************************************************************************)
(* The bridge's own steps.                                                 *)
(***************************************************************************)
PushTypes(numbers) == [ids : Seq(numbers), pages : Replies]

LEMMA PushFields ==
  ASSUME BridgeTyped
  PROVE  /\ Len(pushes) \in Nat
         /\ \A k \in 1..Len(pushes) :
              /\ pushes[k].ids \in Seq(Numbers) /\ Len(pushes[k].ids) \in Nat
              /\ pushes[k].pages \in Replies /\ pushes[k].pages \in 1..Len(Pages)
              /\ Len(pushes[k].ids) <= pushes[k].pages + 1
              /\ pushes[k] = [ids |-> pushes[k].ids, pages |-> pushes[k].pages]
<1>1. pushes \in Seq(PushTypes(Numbers))
  BY DEF BridgeTyped, PushTypes
<1>2. \A k \in 1..Len(pushes) : pushes[k] \in PushTypes(Numbers)
  BY <1>1
<1>3. \A k \in 1..Len(pushes) :
        /\ pushes[k].ids \in Seq(Numbers) /\ pushes[k].pages \in Replies
        /\ pushes[k] = [ids |-> pushes[k].ids, pages |-> pushes[k].pages]
  BY <1>2 DEF PushTypes
<1>4. \A k \in 1..Len(pushes) : pushes[k].pages \in 1..Len(Pages)
  BY <1>3, PageBridgeAssumption
<1>5. \A k \in 1..Len(pushes) : Len(pushes[k].ids) \in Nat
  BY <1>3
<1>6. Len(pushes) \in Nat
  BY <1>1
<1>7. \A k \in 1..Len(pushes) : Len(pushes[k].ids) <= pushes[k].pages + 1
  BY DEF BridgeTyped
<1>8. QED BY <1>3, <1>4, <1>5, <1>6, <1>7, Zenon

(* Where the pushes are left alone and the transfers only grow.            *)
LEMMA SeqGrows ==
  ASSUME NEW S, NEW T, S \subseteq T
  PROVE  Seq(S) \subseteq Seq(T)
OBVIOUS

LEMMA PushesGrow ==
  ASSUME BridgeTyped, Numbers \subseteq Numbers', UNCHANGED <<pushes, pushing>>
  PROVE  /\ pushes' \in Seq([ids : Seq(Numbers'), pages : Replies])
         /\ pushing' \in BOOLEAN /\ (pushing' => pushes' # <<>>)
         /\ \A k \in 1..Len(pushes') : Len(pushes'[k].ids) <= pushes'[k].pages + 1
<1>1. Seq(Numbers) \subseteq Seq(Numbers')
  BY SeqGrows
<1>2. \A k \in 1..Len(pushes) : pushes[k] \in PushTypes(Numbers')
  <2>1. TAKE k \in 1..Len(pushes)
  <2>2. /\ pushes[k].ids \in Seq(Numbers') /\ pushes[k].pages \in Replies
        /\ pushes[k] = [ids |-> pushes[k].ids, pages |-> pushes[k].pages]
    BY <1>1, PushFields
  <2>3. QED BY <2>2 DEF PushTypes
<1>3. pushes \in Seq(PushTypes(Numbers))
  BY DEF BridgeTyped, PushTypes
<1>4. pushes \in Seq(PushTypes(Numbers'))
  BY <1>2, <1>3
<1>5. QED BY <1>4 DEF BridgeTyped, PushTypes

LEMMA BridgeRests ==
  ASSUME BridgeTyped, Numbers \subseteq Numbers', UNCHANGED bridgeVars
  PROVE  BridgeTyped'
<1>1. handedOn' \subseteq Numbers' /\ relay' \in {"up", "down"} /\ outages' \in 0..MaxOutages
  BY DEF BridgeTyped, bridgeVars
<1>2. QED BY <1>1, PushesGrow DEF BridgeTyped, bridgeVars

LEMMA TransferringTypes ==
  ASSUME Typed, Transferring
  PROVE  Typed'
<1>1. DbusTyped' /\ Numbers' = Numbers /\ BridgeTyped
  BY DbusStepTypes DEF Typed, DbusTyped, Transferring, Numbers
<1> DEFINE ids == {pair[1] : pair \in delivered' \ delivered}
<1>2. ids \subseteq Numbers
  BY <1>1 DEF DbusTyped, HistoryTyped
<1>3. /\ handedOn' = handedOn \/ handedOn' = handedOn \cup ids
      /\ \/ UNCHANGED <<relay, outages>>
         \/ outages < MaxOutages /\ relay' = "down" /\ outages' = outages + 1
  BY DEF Transferring, OnVar
<1>4. UNCHANGED <<pushes, pushing>>
  BY DEF Transferring
<1> HIDE DEF ids
<1>5. handedOn' \subseteq Numbers' /\ relay' \in {"up", "down"} /\ outages' \in 0..MaxOutages
  BY <1>1, <1>2, <1>3, PageBridgeAssumption DEF BridgeTyped
<1>6. QED BY <1>1, <1>4, <1>5, PushesGrow DEF BridgeTyped, Typed, DbusTyped

LEMMA SameDbus ==
  ASSUME DbusTyped, UNCHANGED dbusVars
  PROVE  DbusTyped' /\ Numbers' = Numbers
<1>1. PicoTyped' /\ CalcTyped'
  BY DEF DbusTyped, dbusVars, PicoTyped, PicoActive, CalcTyped, Numbers, Ids
<1>2. StoreTyped' /\ HistoryTyped'
  BY SMTT(40) DEF DbusTyped, dbusVars, StoreTyped, Transfers, HistoryTyped, Numbers, Ids
<1>3. CutTyped' /\ Numbers' = Numbers
  <2>1. Numbers' = Numbers /\ UNCHANGED <<pico, calc, partial, mixed, faults>>
    BY DEF dbusVars, Numbers
  <2>2. QED BY <2>1, CutStays DEF DbusTyped
<1>4. QED BY <1>1, <1>2, <1>3 DEF DbusTyped

(* The last push gets one more transfer.                                   *)
LEMMA PushVarTo ==
  ASSUME Typed, pushing, NEW var \in Vars, PushVar(var)
  PROVE  /\ DbusTyped' /\ Numbers \subseteq Numbers' /\ Len(transfers') \in Numbers'
         /\ PicoStarts("send", var, "ti83") /\ Len(pushes) \in Nat \ {0}
         /\ Current = pushes[Len(pushes)]
         /\ Len(pushes') = Len(pushes) /\ DOMAIN pushes' = 1..Len(pushes)
         /\ \A k \in 1..Len(pushes) : k # Len(pushes) => pushes'[k] = pushes[k]
         /\ pushes'[Len(pushes)] =
              [ids |-> Append(Current.ids, Len(transfers')), pages |-> Current.pages]
<1> DEFINE n == Len(pushes)
           m == Len(transfers')
<1>1. PicoStarts("send", var, "ti83") /\ "send" \in {"send", "request", "delete"}
      /\ "ti83" \in Machines \cup {"ti83"}
  BY DEF PushVar
<1>2. DbusTyped' /\ Numbers \subseteq Numbers'
  BY <1>1, PicoStartsTypes DEF Typed, DbusTyped
<1>3. m \in Numbers'
  BY <1>1, TransferNumbers DEF Typed, PicoStarts
<1>4. pushes \in Seq(PushTypes(Numbers)) /\ pushes # <<>>
  BY DEF Typed, BridgeTyped, PushTypes
<1>5. n \in Nat \ {0} /\ n \in 1..n
  BY <1>4
<1>6. Current = pushes[n]
  BY DEF Current, Last
<1>10. pushes' = [pushes EXCEPT ![n] = [ids |-> Append(Current.ids, m), pages |-> Current.pages]]
  BY DEF PushVar
<1> HIDE DEF m
<1>11. /\ Len(pushes') = n /\ DOMAIN pushes' = 1..n
       /\ \A k \in 1..n : k # n => pushes'[k] = pushes[k]
       /\ pushes'[n] = [ids |-> Append(Current.ids, m), pages |-> Current.pages]
  BY SMTT(40), <1>4, <1>5, <1>10
<1>12. QED BY <1>1, <1>2, <1>3, <1>5, <1>6, <1>11 DEF m

LEMMA PushVarTypes ==
  ASSUME Typed, pushing, NEW var \in Vars, PushVar(var), Len(Current.ids) <= Current.pages
  PROVE  Typed'
<1> DEFINE n == Len(pushes)
           m == Len(transfers')
<1>1. /\ DbusTyped' /\ Numbers \subseteq Numbers' /\ m \in Numbers' /\ n \in Nat \ {0}
      /\ Current = pushes[n] /\ Len(pushes') = n /\ DOMAIN pushes' = 1..n
      /\ \A k \in 1..n : k # n => pushes'[k] = pushes[k]
      /\ pushes'[n] = [ids |-> Append(Current.ids, m), pages |-> Current.pages]
  BY PushVarTo
<1>2. Seq(Numbers) \subseteq Seq(Numbers')
  <2>1. Numbers \subseteq Numbers'
    BY <1>1
  <2>2. QED BY <2>1, SeqGrows
<1>3. /\ Current.ids \in Seq(Numbers') /\ Current.pages \in Replies
      /\ Len(Current.ids) \in Nat /\ Current.pages \in Nat
  <2>1. n \in 1..n
    <3>1. n \in Nat \ {0}
      BY <1>1
    <3> HIDE DEF n
    <3>2. QED BY SMTT(40), <3>1
  <2>2. /\ pushes[n].ids \in Seq(Numbers) /\ pushes[n].pages \in Replies
        /\ Len(pushes[n].ids) \in Nat /\ pushes[n].pages \in 1..Len(Pages)
    BY <2>1, PushFields DEF Typed
  <2>3. Current = pushes[n]
    BY <1>1
  <2>5. \A k \in 1..Len(Pages) : k \in Nat
    OBVIOUS
  <2>4. QED BY <1>2, <2>2, <2>3, <2>5, Zenon
<1>4. Append(Current.ids, m) \in Seq(Numbers')
      /\ Len(Append(Current.ids, m)) = Len(Current.ids) + 1
  <2>1. m \in Numbers'
    BY <1>1
  <2> HIDE DEF m
  <2>2. QED BY SMTT(40), <1>3, <2>1
<1> DEFINE last == [ids |-> Append(Current.ids, m), pages |-> Current.pages]
<1>9. last \in PushTypes(Numbers') /\ Len(last.ids) <= last.pages + 1
  <2>1. last.ids = Append(Current.ids, m) /\ last.pages = Current.pages
    OBVIOUS
  <2>2. last \in PushTypes(Numbers')
    BY <1>3, <1>4 DEF PushTypes
  <2> HIDE DEF last
  <2>3. QED BY <1>3, <1>4, <2>1, <2>2
<1> HIDE DEF m, last
<1>5. ASSUME NEW k \in 1..n
      PROVE  /\ pushes'[k] \in PushTypes(Numbers')
             /\ Len(pushes'[k].ids) <= pushes'[k].pages + 1
  <2>2. CASE k = n
    BY <1>1, <1>9, <2>2 DEF last
  <2>3. CASE k # n
    <3>1. pushes'[k] = pushes[k]
      BY <1>1, <2>3
    <3>2. /\ pushes[k].ids \in Seq(Numbers') /\ pushes[k].pages \in Replies
          /\ pushes[k] = [ids |-> pushes[k].ids, pages |-> pushes[k].pages]
          /\ Len(pushes[k].ids) <= pushes[k].pages + 1
      BY <1>2, PushFields DEF Typed
    <3>3. pushes[k] \in PushTypes(Numbers')
      BY <3>2 DEF PushTypes
    <3>4. QED BY SMTT(40), <3>1, <3>2, <3>3
  <2>4. QED BY <2>2, <2>3
<1>6. pushes' \in Seq(PushTypes(Numbers')) /\ pushes' # <<>>
  <2>1. pushes' = [k \in 1..n |-> pushes'[k]]
    <3>1. pushes \in Seq(PushTypes(Numbers))
      BY DEF Typed, BridgeTyped, PushTypes
    <3>2. pushes' = [pushes EXCEPT ![n] = last]
      BY DEF PushVar, last, m
    <3>3. QED BY <1>1, <3>1, <3>2
  <2>2. n \in Nat \ {0}
    BY <1>1
  <2>3. QED BY <1>5, <2>1, <2>2
<1>7. BridgeTyped'
  <2>1. handedOn' \subseteq Numbers' /\ relay' \in {"up", "down"} /\ outages' \in 0..MaxOutages
        /\ pushing' \in BOOLEAN
    BY <1>1 DEF Typed, BridgeTyped, PushVar
  <2>2. QED BY <1>1, <1>5, <1>6, <2>1 DEF BridgeTyped, PushTypes
<1>8. QED BY <1>1, <1>7 DEF Typed, DbusTyped

LEMMA Init_Typed == Init => Typed
<1> SUFFICES ASSUME Init PROVE Typed
  OBVIOUS
<1>1. 0 \in Ids /\ 0 \in 0..MaxFaults /\ 0 \in 0..MaxOutages
  BY DbusAssumption, PageBridgeAssumption DEF Ids
<1>2. PicoTyped /\ CalcTyped
  BY <1>1 DEF Init, DbusInit, Away, Idle, PicoTyped, PicoActive, CalcTyped, PicoOps, CalcOps, Step
<1>3. StoreTyped
  <2>1. transfers = <<>> /\ <<>> \in Seq(Transfers) /\ Len(<<>>) = 0
    BY DEF Init, DbusInit
  <2>2. memory \in [Vars -> Ids]
    BY <1>1 DEF Init, DbusInit
  <2>3. QED BY <1>1, <2>1, <2>2, DbusAssumption DEF StoreTyped, Init, DbusInit
<1>4. HistoryTyped
  BY DEF Init, DbusInit, HistoryTyped
<1>5. BridgeTyped
  <2>1. pushes = <<>> /\ <<>> \in Seq([ids : Seq(Numbers), pages : Replies]) /\ Len(<<>>) = 0
    BY DEF Init
  <2>2. pushing = FALSE /\ FALSE \in BOOLEAN
    BY DEF Init
  <2>3. \A k \in 1..Len(pushes) : Len(pushes[k].ids) <= pushes[k].pages + 1
    BY <2>1
  <2>4. relay \in {"up", "down"} /\ outages \in 0..MaxOutages /\ handedOn \subseteq Numbers
    BY <1>1 DEF Init
  <2>5. pushing \in BOOLEAN /\ (pushing => pushes # <<>>)
    BY <2>2
  <2>6. pushes \in Seq([ids : Seq(Numbers), pages : Replies])
    BY <2>1
  <2>7. QED BY <2>3, <2>4, <2>5, <2>6 DEF BridgeTyped
<1>6. CutTyped
  BY DEF Init, DbusInit, CutTyped
<1>7. QED BY <1>2, <1>3, <1>4, <1>5, <1>6 DEF Typed

LEMMA Next_Typed == Typed /\ [Next]_vars => Typed'
<1> SUFFICES ASSUME Typed, [Next]_vars PROVE Typed'
  OBVIOUS
<1>1. DbusTyped /\ BridgeTyped
  BY DEF Typed, DbusTyped
<1> SUFFICES DbusTyped' /\ BridgeTyped'
  BY DEF Typed, DbusTyped
<1>2. CASE Transferring
  BY <1>2, TransferringTypes DEF Typed, DbusTyped
<1>3. CASE UNCHANGED <<dbusVars, pushing, pushes, handedOn, outages>> /\ relay' \in {"up", "down"}
  <2>1. DbusTyped' /\ Numbers' = Numbers
    BY <1>1, <1>3, SameDbus
  <2>2. QED BY <1>1, <1>3, <2>1, PushesGrow DEF BridgeTyped
<1>4. CASE BeginPush
  <2>1. DbusTyped' /\ Numbers' = Numbers
    BY <1>1, <1>4, SameDbus DEF BeginPush
  <2>2. PICK p \in Replies : pushes' = Append(pushes, [ids |-> <<>>, pages |-> p])
    BY <1>4 DEF BeginPush
  <2> DEFINE push == [ids |-> <<>>, pages |-> p]
             n == Len(pushes)
  <2>3. p \in Nat
    BY PageBridgeAssumption
  <2>4. push \in PushTypes(Numbers) /\ push.pages = p /\ Len(push.ids) = 0
    <3>1. <<>> \in Seq(Numbers) /\ Len(<<>>) = 0
      OBVIOUS
    <3>2. QED BY <3>1 DEF PushTypes
  <2> HIDE DEF push
  <2>5. pushes \in Seq(PushTypes(Numbers)) /\ pushes' = Append(pushes, push)
    BY <1>1, <2>2 DEF BridgeTyped, PushTypes, push
  <2>6. /\ pushes' \in Seq(PushTypes(Numbers)) /\ pushes' # <<>>
        /\ n \in Nat /\ Len(pushes') = n + 1 /\ pushes'[n + 1] = push
        /\ \A k \in 1..n : pushes'[k] = pushes[k]
    BY <2>4, <2>5
  <2>7. \A k \in 1..Len(pushes') : Len(pushes'[k].ids) <= pushes'[k].pages + 1
    <3>1. TAKE k \in 1..Len(pushes')
    <3>2. CASE k = n + 1
      BY <2>3, <2>4, <2>6, <3>2
    <3>3. CASE k \in 1..n
      BY <1>1, <2>6, <3>3 DEF BridgeTyped
    <3>4. QED BY <2>6, <3>2, <3>3
  <2>8. QED BY <1>1, <1>4, <2>1, <2>6, <2>7 DEF BridgeTyped, PushTypes, BeginPush
<1>5. CASE PushOneStr
  <2>1. pushing /\ PushVar(Pages[Len(Current.ids) + 1]) /\ Len(Current.ids) < Current.pages
    BY <1>5 DEF PushOneStr
  <2>2. Current = pushes[Len(pushes)] /\ Len(pushes) \in 1..Len(pushes)
    BY <1>1, <2>1 DEF Current, Last, BridgeTyped
  <2>3. Len(Current.ids) \in Nat /\ Current.pages \in 1..Len(Pages)
    BY <1>1, <2>2, PushFields
  <2>4. Len(Current.ids) + 1 \in 1..Len(Pages) /\ Len(Current.ids) <= Current.pages
    BY <2>1, <2>3, PageBridgeAssumption
  <2>5. Pages[Len(Current.ids) + 1] \in Vars
    BY <2>4, PageBridgeAssumption
  <2>6. QED BY <2>1, <2>4, <2>5, PushVarTypes DEF Typed, DbusTyped
<1>6. CASE PushPagecount
  <2>1. pushing /\ PushVar(Count) /\ Len(Current.ids) = Current.pages
    BY <1>6 DEF PushPagecount
  <2>2. Current = pushes[Len(pushes)] /\ Len(pushes) \in 1..Len(pushes)
    BY <1>1, <2>1 DEF Current, Last, BridgeTyped
  <2>3. Len(Current.ids) \in Nat
    BY <1>1, <2>2, PushFields
  <2>4. Len(Current.ids) <= Current.pages /\ Count \in Vars
    BY <2>1, <2>3, PageBridgeAssumption
  <2>5. QED BY <2>1, <2>4, PushVarTypes DEF Typed, DbusTyped
<1>7. CASE PushEnds
  <2>1. DbusTyped' /\ Numbers' = Numbers
    BY <1>1, <1>7, SameDbus DEF PushEnds
  <2>2. pushing' = FALSE /\ FALSE \in BOOLEAN
    BY <1>7 DEF PushEnds
  <2>3. QED BY <1>1, <1>7, <2>1, <2>2 DEF BridgeTyped, PushEnds
<1>8. CASE FromThePrompt
  <2>1. PICK op \in {"send", "request", "delete"}, var \in OtherVars, machine \in Machines :
          PicoStarts(op, var, machine)
    BY <1>8 DEF FromThePrompt
  <2>2. var \in Vars /\ machine \in Machines \cup {"ti83"}
    BY PageBridgeAssumption
  <2>3. DbusTyped' /\ Numbers \subseteq Numbers'
    BY <1>1, <2>1, <2>2, PicoStartsTypes
  <2>4. QED BY <1>1, <1>8, <2>3, BridgeRests DEF FromThePrompt
<1>9. CASE Ask
  <2>1. DbusTyped' /\ Numbers \subseteq Numbers'
    <3>1. /\ "take" \in {"take", "respond", "ready"} /\ Prompt \in Vars /\ Count \in Vars
          /\ "ti83" \in Machines \cup {"ti83"}
      BY PageBridgeAssumption
    <3>2. QED BY <1>1, <1>9, <3>1, CalcBeginsTypes DEF Ask
  <2>2. QED BY <1>1, <1>9, <2>1, BridgeRests DEF Ask
<1>10. CASE FromTheCalculator
  <2>1. PICK op \in {"take", "respond", "ready"}, var \in OtherVars, machine \in Machines :
          CalcStarts(op, var, machine)
    BY <1>10 DEF FromTheCalculator
  <2>2. var \in Vars /\ machine \in Machines \cup {"ti83"}
    BY PageBridgeAssumption
  <2>3. DbusTyped' /\ Numbers \subseteq Numbers'
    BY <1>1, <2>1, <2>2, CalcBeginsTypes DEF CalcStarts
  <2>4. QED BY <1>1, <1>10, <2>3, BridgeRests DEF FromTheCalculator
<1>11. CASE UNCHANGED vars
  BY <1>1, <1>11, SameDbus, BridgeRests DEF vars
<1>12. CASE ConnectTransport
  BY <1>3, <1>12 DEF ConnectTransport
<1>13. QED
  BY <1>2, <1>4, <1>5, <1>6, <1>7, <1>8, <1>9, <1>10, <1>11, <1>12 DEF Next

LEMMA TypedHolds == Spec => []Typed
<1>1. QED BY Init_Typed, Next_Typed, PTL DEF Spec

(* PageBridge's TypeOK: both ends are at a step of the exchange they are   *)
(* in, and no push has more transfers than pages and a count.              *)
THEOREM TypesAreRespected == Spec => []TypeOK
<1>1. Typed => TypeOK
  <2> SUFFICES ASSUME Typed PROVE TypeOK
    OBVIOUS
  <2>1. DbusTypeOK
    BY DEF Typed, PicoTyped, PicoActive, CalcTyped, StoreTyped, HistoryTyped, CutTyped,
           Numbers, DbusTypeOK
  <2>2. QED BY <2>1, PushFields DEF Typed, BridgeTyped, Numbers, TypeOK
<1>2. QED BY <1>1, TypedHolds, PTL

-----------------------------------------------------------------------------
(***************************************************************************)
(* Where the two ends get to.                                              *)
(***************************************************************************)
PicoGoesOn(hdr, data) ==
  /\ pico'.op = pico.op /\ pico'.step = pico.step + 1
  /\ pico'.id = (IF pico.op = "recv" THEN hdr ELSE pico.id)
  /\ pico'.hdr = hdr /\ pico'.data = data
  /\ UNCHANGED <<results, delivered>>

PicoGoesTo(op, step, id, hdr, data) ==
  /\ pico'.op = op /\ pico'.step = step /\ pico'.id = id /\ pico'.hdr = hdr /\ pico'.data = data
  /\ UNCHANGED <<results, delivered>>

(* The function returns; of what it returns only send_var's, req_var's and *)
(* delete_var's results are kept.                                          *)
PicoRests(ok) ==
  /\ pico'.op \in {"away", "listen"} /\ pico'.step = 1 /\ pico'.id = 0
  /\ \/ results' = results
     \/ /\ pico.op \in {"send", "request", "delete", "refused"}
        /\ results' = results \cup {[id |-> pico.id, ok |-> ok,
                                     hdr |-> pico.hdr, data |-> pico.data]}

Hands == delivered' = delivered \/ delivered' = delivered \cup {<<pico.hdr, pico.data>>}

LEMMA ReturnsRests ==
  ASSUME NEW ok, Returns(ok)
  PROVE  PicoRests(ok)
BY ReturnsTo DEF PicoRests, RestingAt

LEMMA PicoStopsTo ==
  ASSUME PicoStops
  PROVE  /\ PicoRests(FALSE)
         /\ delivered' = delivered \/ (PicoAt("take", {7}) /\ Deliver(pico.hdr, pico.data))
BY ReturnsRests DEF PicoStops, PicoAt

LEMMA PicoSentTo ==
  ASSUME PicoTyped, PicoTurn, PicoSent
  PROVE  \/ PicoGoesOn(pico.hdr, pico.data) /\ pico'.id = pico.id
         \/ PicoAt("recv", {6}) /\ PicoRests(TRUE) /\ Deliver(pico.hdr, pico.data)
         \/ /\ \/ PicoAt("take", {7}) \/ PicoAt("respond", {9}) \/ PicoAt("send", {7})
               \/ PicoAt("request", {8}) \/ pico.op \in {"ack", "miss"}
            /\ PicoRests(TRUE) /\ UNCHANGED delivered
         \/ pico.op = "refused" /\ PicoRests(FALSE) /\ UNCHANGED delivered
<1>1. PicoActive /\ PicoAdvances(pico.hdr, pico.data)
  BY DEF PicoTurn, PicoSent
<1>2. PicoMaySend(PicoPacket.cmd)
  BY PicoSendsThese
<1>3. CASE /\ pico.step < Len(Script(pico.op))
           /\ pico' = [op |-> pico.op, step |-> pico.step + 1,
                       id |-> IF pico.op = "recv" THEN pico.hdr ELSE pico.id,
                       hdr |-> pico.hdr, data |-> pico.data]
           /\ UNCHANGED <<results, delivered>>
  <2>1. pico.op = "recv" => pico.hdr = pico.id
    BY <1>2 DEF PicoMaySend, PicoAt, PicoTyped
  <2>2. QED BY <1>3, <2>1 DEF PicoGoesOn
<1>4. CASE /\ pico.step = Len(Script(pico.op)) \/ (pico.op \in {"send", "recv"} /\ pico.step >= 6)
           /\ Returns(pico.op # "refused")
           /\ IF pico.op = "recv" THEN Deliver(pico.hdr, pico.data) ELSE UNCHANGED delivered
  <2> DEFINE n == Len(Script(pico.op))
  <2>1. pico.step = n \/ (pico.op \in {"send", "recv"} /\ pico.step >= 6)
    BY <1>4
  <2>7. /\ pico.op \in {"take", "recv", "send"} => n = 7
        /\ pico.op = "respond" => n = 9
        /\ pico.op = "request" => n = 8
        /\ pico.op = "delete" => n = 3
    BY Lengths
  <2> HIDE DEF n
  <2>2. \/ PicoAt("recv", {6}) \/ PicoAt("respond", {9}) \/ PicoAt("send", {7})
        \/ PicoAt("request", {8}) \/ pico.op \in {"ack", "miss", "refused"}
    BY <1>2, <2>1, <2>7 DEF PicoMaySend, PicoAt
  <2>3. PicoRests(pico.op # "refused")
    BY <1>4, ReturnsRests
  <2>4. CASE pico.op = "refused"
    <3>1. (pico.op # "refused") = FALSE
      BY <2>4
    <3>2. QED BY <1>4, <2>3, <2>4, <3>1
  <2>5. CASE pico.op # "refused"
    <3>1. (pico.op # "refused") = TRUE
      BY <2>5
    <3>2. PicoRests(TRUE)
      BY <2>3, <3>1
    <3>3. QED BY <1>4, <2>2, <2>5, <3>2 DEF PicoAt
  <2>6. QED BY <2>4, <2>5
<1>5. QED BY <1>1, <1>3, <1>4, PicoAdvancesTo

PicoDispatches(packet) ==
  /\ pico.op = "listen"
  /\ \/ packet.cmd \in {"RTS", "VAR"} /\ PicoGoesTo("take", 2, packet.id, packet.id, 0)
     \/ packet.cmd = "REQ" /\ PicoGoesTo("respond", 2, packet.id, 0, 0)
     \/ packet.cmd = "REQ" /\ PicoGoesTo("miss", 1, packet.id, 0, 0)
     \/ packet.cmd \notin {"RTS", "VAR", "REQ"} /\ PicoGoesTo("ack", 1, calc.id, 0, 0)

LEMMA PicoReceivesTo ==
  ASSUME PicoTyped, PicoReads, NEW packet, Comes(packet), PicoReceives(packet)
  PROVE  \/ PicoDispatches(packet)
         \/ /\ PicoAt("recv", {7}) \/ PicoAt("take", {7})
            /\ PicoRests(TRUE) /\ Deliver(pico.hdr, pico.data)
         \/ /\ PicoMayRead(packet.cmd) /\ ~PicoAt("recv", {7}) /\ ~PicoAt("take", {7})
            /\ PicoGoesOn(HeaderOf(packet), DataOf(packet))
         \/ /\ PicoMayRead(packet.cmd) /\ (PicoAt("send", {6}) \/ PicoAt("delete", {3}))
            /\ PicoRests(TRUE) /\ UNCHANGED delivered
         \/ /\ packet.cmd = "SKIP" /\ (PicoAt("send", {3, 6}) \/ PicoAt("request", {2}))
            /\ PicoGoesTo("refused", 1, pico.id, pico.hdr, pico.data)
         \/ /\ packet.cmd = "SKIP" /\ PicoAt("respond", {5})
            /\ PicoRests(TRUE) /\ UNCHANGED delivered
         \/ /\ ~PicoMayRead(packet.cmd) /\ ~PicoAt("recv", {7}) /\ ~PicoAt("take", {7})
            /\ PicoStops
<1>1. CASE pico.op = "listen"
  <2>1. Dispatch(packet)
    BY <1>1 DEF PicoReceives
  <2> DEFINE opener == [packet EXCEPT !.id = calc.id]
  <2>2. opener.id = calc.id
    BY DEF Comes
  <2>4. \/ packet.cmd \in {"RTS", "VAR"} /\ Begin("take", packet, 2)
        \/ packet.cmd = "REQ" /\ (Begin("respond", packet, 2) \/ Begin("miss", packet, 1))
        \/ packet.cmd \notin {"RTS", "VAR", "REQ"} /\ Begin("ack", opener, 1)
    BY <2>1 DEF Dispatch
  <2>5. UNCHANGED <<delivered, results>>
    BY <2>1 DEF Dispatch
  <2> HIDE DEF opener
  <2>6. CASE packet.cmd \in {"RTS", "VAR"} /\ Begin("take", packet, 2)
    <3>1. PicoGoesTo("take", 2, packet.id, packet.id, 0)
      BY <2>5, <2>6 DEF Begin, PicoGoesTo
    <3>2. QED BY <1>1, <2>6, <3>1 DEF PicoDispatches
  <2>7. CASE packet.cmd = "REQ" /\ Begin("respond", packet, 2)
    <3>1. PicoGoesTo("respond", 2, packet.id, 0, 0)
      BY <2>5, <2>7 DEF Begin, PicoGoesTo
    <3>2. QED BY <1>1, <2>7, <3>1 DEF PicoDispatches
  <2>8. CASE packet.cmd = "REQ" /\ Begin("miss", packet, 1)
    <3>1. PicoGoesTo("miss", 1, packet.id, 0, 0)
      BY <2>5, <2>8 DEF Begin, PicoGoesTo
    <3>2. QED BY <1>1, <2>8, <3>1 DEF PicoDispatches
  <2>9. CASE packet.cmd \notin {"RTS", "VAR", "REQ"} /\ Begin("ack", opener, 1)
    <3>1. PicoGoesTo("ack", 1, calc.id, 0, 0)
      BY <2>2, <2>5, <2>9 DEF Begin, PicoGoesTo
    <3>2. QED BY <1>1, <2>9, <3>1 DEF PicoDispatches
  <2>10. QED BY <2>4, <2>6, <2>7, <2>8, <2>9
<1>2. CASE pico.op # "listen"
  <2>1. PicoActive /\ ~PicoTurn
    BY <1>2 DEF PicoReads
  <2>2. CASE pico.op \in {"recv", "take"} /\ pico.step = 7
    <3>1. Returns(TRUE) /\ Deliver(pico.hdr, pico.data)
      BY <1>2, <2>2 DEF PicoReceives
    <3>2. PicoRests(TRUE)
      BY <3>1, ReturnsRests
    <3>3. PicoAt("recv", {7}) \/ PicoAt("take", {7})
      BY <2>2 DEF PicoAt
    <3>4. QED BY <3>1, <3>2, <3>3
  <2>3. CASE NextPacket(packet) /\ ~(pico.op \in {"recv", "take"} /\ pico.step = 7)
    <3>1. PicoMayRead(packet.cmd) /\ PicoAdvances(HeaderOf(packet), DataOf(packet))
      BY <2>1, <2>3, PicoReadsThese DEF NextPacket, HeaderOf, DataOf
    <3>2. CASE /\ pico.step < Len(Script(pico.op))
               /\ pico' = [op |-> pico.op, step |-> pico.step + 1,
                           id |-> IF pico.op = "recv" THEN HeaderOf(packet) ELSE pico.id,
                           hdr |-> HeaderOf(packet), data |-> DataOf(packet)]
               /\ UNCHANGED <<results, delivered>>
      <4>1. PicoGoesOn(HeaderOf(packet), DataOf(packet))
        BY <3>2 DEF PicoGoesOn
      <4>2. QED BY <2>3, <3>1, <4>1 DEF PicoAt
    <3>3. CASE /\ pico.step = Len(Script(pico.op))
                  \/ (pico.op \in {"send", "recv"} /\ pico.step >= 6)
               /\ Returns(pico.op # "refused")
               /\ IF pico.op = "recv" THEN Deliver(HeaderOf(packet), DataOf(packet))
                                      ELSE UNCHANGED delivered
      <4> DEFINE n == Len(Script(pico.op))
      <4>1. pico.step = n \/ (pico.op \in {"send", "recv"} /\ pico.step >= 6)
        BY <3>3
      <4>6. /\ pico.op \in {"take", "recv", "send"} => n = 7
            /\ pico.op = "respond" => n = 9
            /\ pico.op = "request" => n = 8
            /\ pico.op = "delete" => n = 3
        BY Lengths
      <4> HIDE DEF n
      <4>2. PicoAt("send", {6}) \/ PicoAt("delete", {3})
        BY <2>3, <3>1, <4>1, <4>6 DEF PicoMayRead, PicoAt
      <4>3. (pico.op # "refused") = TRUE
        BY <4>2 DEF PicoAt
      <4>4. PicoRests(TRUE)
        BY <3>3, <4>3, ReturnsRests
      <4>5. QED BY <3>1, <3>3, <4>2, <4>4 DEF PicoAt
    <3>4. QED BY <2>1, <3>1, <3>2, <3>3, PicoAdvancesTo
  <2>4. CASE Rejected(packet) /\ Skipped /\ UNCHANGED delivered
    <3>1. /\ packet.cmd = "SKIP"
          /\ PicoAt("send", {3, 6}) \/ PicoAt("request", {2}) \/ PicoAt("respond", {5})
      BY <2>4 DEF Rejected, MaySkip, PicoAt
    <3>2. pico.op = "respond" => PicoRests(TRUE)
      BY <2>4, ReturnsRests DEF Skipped
    <3>3. pico.op # "respond" => PicoGoesTo("refused", 1, pico.id, pico.hdr, pico.data)
      BY <2>4 DEF Skipped, PicoGoesTo
    <3>4. QED BY <2>4, <3>1, <3>2, <3>3 DEF PicoAt
  <2>5. CASE /\ ~Matches(packet) /\ PicoStops
             /\ ~(pico.op \in {"recv", "take"} /\ pico.step = 7)
    BY <2>1, <2>5, PicoReadsThese DEF PicoAt
  <2>6. QED BY <1>2, <2>2, <2>3, <2>4, <2>5 DEF PicoReceives
<1>3. QED BY <1>1, <1>2

CalcGoesTo(op, step, id) == calc'.op = op /\ calc'.step = step /\ calc'.id = id
CalcRests == CalcGoesTo("idle", 1, 0)

(* The calculator's memory after a packet that changes it.                 *)
Writes(id) == memory' = [memory EXCEPT ![transfers[id].var] = id]

LEMMA CalcIsThere ==
  ASSUME NEW op, NEW step, NEW id, CalcIs(op, step, id)
  PROVE  CalcGoesTo(op, step, id)
BY DEF CalcIs, CalcGoesTo

LEMMA CalcStopsTo ==
  ASSUME CalcStops
  PROVE  CalcRests /\ UNCHANGED <<memory, told>>
BY CalcIsThere DEF CalcStops, CalcRests

CalcGoesOn == CalcGoesTo(calc.op, calc.step + 1, calc.id)

LEMMA CalcSentTo ==
  ASSUME CalcTyped, calc.op # "idle", NEW packet, CalcSent(packet)
  PROVE  /\ UNCHANGED <<memory, told>>
         /\ \/ packet.cmd # "SKIP" /\ (CalcGoesOn \/ CalcRests)
            \/ packet.cmd = "SKIP" /\ (CalcRests \/ CalcGoesTo("refused", 1, calc.id))
<1>1. CASE packet.cmd # "SKIP" /\ CalcAdvances
  BY <1>1, CalcAdvancesTo, CalcIsThere DEF CalcSent, CalcGoesOn, CalcRests
<1>2. CASE packet.cmd = "SKIP"
  BY <1>2, CalcIsThere DEF CalcSent, CalcRests
<1>3. QED BY <1>1, <1>2 DEF CalcSent

LEMMA CalcReceivesTo ==
  ASSUME CalcTyped, CalcReads, NEW packet, PicoCarries(packet), CalcReceives(packet)
  PROVE  \/ /\ calc.op = "idle" /\ UNCHANGED told
            /\ \/ packet.cmd = "RTS" /\ CalcGoesTo("send", 2, pico.id) /\ UNCHANGED memory
               \/ packet.cmd = "REQ" /\ CalcGoesTo("request", 2, pico.id) /\ UNCHANGED memory
               \/ packet.cmd = "DEL" /\ CalcGoesTo("delete", 2, pico.id) /\ Writes(pico.id)
               \/ packet.cmd \notin {"RTS", "REQ", "DEL"} /\ CalcRests /\ UNCHANGED memory
         \/ calc.op # "idle" /\ CalcRests /\ ~CalcMayRead(packet.cmd) /\ UNCHANGED <<memory, told>>
         \/ /\ calc.op # "idle" /\ CalcMayRead(packet.cmd)
            /\ \/ CalcGoesOn
               \/ CalcRests /\ (calc.step = Len(Script(calc.op)) \/ calc.op \in {"send", "take"})
            /\ IF calc.op \in {"send", "respond"} /\ packet.cmd = "DATA"
               THEN Writes(pico.id) ELSE UNCHANGED memory
            /\ told' = IF calc.op = "take" /\ calc.step = 6 THEN told \cup {calc.id} ELSE told
<1>1. packet.cmd \in {"RTS", "REQ", "DEL", "DATA"} => packet.id = pico.id
  BY DEF PicoCarries, HeaderOnly
<1>2. CASE calc.op = "idle"
  <2>1. UNCHANGED told /\ Changes(packet, packet.cmd = "DEL")
    BY <1>2 DEF CalcReceives
  <2>2. packet.cmd \in {"RTS", "REQ", "DEL"} => CalcIs(Served[packet.cmd], 2, pico.id)
    BY <1>1, <1>2 DEF CalcReceives, Served
  <2>3. packet.cmd \notin {"RTS", "REQ", "DEL"} => CalcRests
    BY <1>2, CalcIsThere DEF CalcReceives, Served, CalcRests
  <2>4. IF packet.cmd = "DEL" THEN Writes(pico.id) ELSE UNCHANGED memory
    BY <1>1, <2>1 DEF Changes, Writes
  <2>5. /\ packet.cmd = "RTS" => CalcGoesTo("send", 2, pico.id)
        /\ packet.cmd = "REQ" => CalcGoesTo("request", 2, pico.id)
        /\ packet.cmd = "DEL" => CalcGoesTo("delete", 2, pico.id)
    BY <2>2, CalcIsThere DEF Served
  <2>6. QED BY <1>2, <2>1, <2>3, <2>4, <2>5
<1>3. CASE calc.op # "idle" /\ packet.cmd \notin Script(calc.op)[calc.step].cmds
  BY <1>3, CalcReadsThese, CalcStopsTo DEF CalcReceives
<1>4. CASE calc.op # "idle" /\ packet.cmd \in Script(calc.op)[calc.step].cmds
  <2>1. /\ CalcAdvances
        /\ Changes(packet, calc.op \in {"send", "respond"} /\ packet.cmd = "DATA")
        /\ told' = IF calc.op = "take" /\ calc.step = 6 THEN told \cup {calc.id} ELSE told
    BY <1>4 DEF CalcReceives
  <2>2. CalcMayRead(packet.cmd)
    BY <1>4, CalcReadsThese
  <2>3. \/ CalcGoesOn
        \/ CalcRests /\ (calc.step = Len(Script(calc.op)) \/ calc.op \in {"send", "take"})
    BY <1>4, <2>1, CalcAdvancesTo, CalcIsThere DEF CalcGoesOn, CalcRests
  <2>4. IF calc.op \in {"send", "respond"} /\ packet.cmd = "DATA"
        THEN Writes(pico.id) ELSE UNCHANGED memory
    BY <1>1, <2>1 DEF Changes, Writes
  <2>5. QED BY <1>4, <2>1, <2>2, <2>3, <2>4
<1>5. QED BY <1>2, <1>3, <1>4

-----------------------------------------------------------------------------
(***************************************************************************)
(* A header and its data.  From the first packet of an upload to its data  *)
(* both ends go from step to step together, so where both are at the same  *)
(* step of an upload they are in the same transfer; a request is two steps *)
(* behind.  An upload with a packet that another one filled up is excepted.*)
(***************************************************************************)
Phase(op, step) == IF op = "request" THEN step - 2 ELSE step

OfHeader(id) == id = pico.hdr \/ pico.hdr \in mixed

SameUpload ==
  /\ pico.op \in Uploads /\ calc.op \in {"take", "request"}
  /\ Phase(pico.op, pico.step) \in 2..5
  /\ Phase(calc.op, calc.step) = Phase(pico.op, pico.step)
  => OfHeader(calc.id)

DataIsOfHeader ==
  pico.op \in Uploads /\ Phase(pico.op, pico.step) > 5 => OfHeader(pico.data)

(* Data that breaks off is of that transfer too, whatever comes next.      *)
CutIsOfHeader ==
  \A cut \in partial :
    /\ cut.cmd = "DATA" /\ pico.op \in Uploads /\ Phase(pico.op, pico.step) = 5
    => OfHeader(cut.id)

PairInvariant == SameUpload /\ DataIsOfHeader /\ CutIsOfHeader /\ PairsAreGenuine

LEMMA RestKeepsPairs ==
  ASSUME PicoTyped, PairInvariant, NEW ok \in BOOLEAN, PicoRests(ok),
         partial' = {}, mixed \subseteq mixed',
         ok => pico.op # "refused" /\ (pico.op = "request" => pico.step = 8),
         \/ delivered' = delivered
         \/ PicoAt("recv", {6, 7}) /\ Deliver(pico.hdr, pico.data)
         \/ PicoAt("take", {7}) /\ Deliver(pico.hdr, pico.data)
  PROVE  PairInvariant'
<1>1. SameUpload' /\ DataIsOfHeader' /\ CutIsOfHeader'
  BY DEF PicoRests, SameUpload, DataIsOfHeader, CutIsOfHeader, Uploads
<1>2. \A pair \in delivered' : pair[1] = pair[2] \/ pair[1] \in mixed'
  <2>1. CASE delivered' = delivered
    BY <2>1 DEF PairInvariant, PairsAreGenuine
  <2>2. CASE (PicoAt("recv", {6, 7}) \/ PicoAt("take", {7})) /\ Deliver(pico.hdr, pico.data)
    <3>1. pico.data = pico.hdr \/ pico.hdr \in mixed'
      BY <2>2 DEF PairInvariant, DataIsOfHeader, OfHeader, Uploads, Phase, PicoAt
    <3>2. delivered' = delivered \/ delivered' = delivered \cup {<<pico.hdr, pico.data>>}
      BY <2>2 DEF Deliver
    <3>3. QED BY <3>1, <3>2 DEF PairInvariant, PairsAreGenuine
  <2>3. QED BY <2>1, <2>2
<1>3. \A r \in results' : r.ok => r.hdr = r.data \/ r.hdr \in mixed'
  <2> DEFINE new == [id |-> pico.id, ok |-> ok, hdr |-> pico.hdr, data |-> pico.data]
  <2>1. /\ pico.op \in {"send", "request", "delete", "refused"} /\ new.ok
        => new.hdr = new.data \/ new.hdr \in mixed'
    <3>1. ok /\ pico.op \in {"send", "request", "delete", "refused"} =>
            pico.hdr = pico.data \/ pico.hdr \in mixed'
      BY DEF PairInvariant, DataIsOfHeader, OfHeader, Uploads, Phase, PicoTyped
    <3>2. QED BY <3>1
  <2>2. results' = results
          \/ (pico.op \in {"send", "request", "delete", "refused"} /\ results' = results \cup {new})
    BY DEF PicoRests
  <2> HIDE DEF new
  <2>3. QED BY <2>1, <2>2 DEF PairInvariant, PairsAreGenuine
<1>4. QED BY <1>1, <1>2, <1>3 DEF PairInvariant, PairsAreGenuine

LEMMA StopKeepsPairs ==
  ASSUME PicoTyped, PairInvariant, PicoStops, partial' = {}, mixed \subseteq mixed'
  PROVE  PairInvariant'
<1>1. FALSE \in BOOLEAN
  OBVIOUS
<1>2. QED BY <1>1, PicoStopsTo, RestKeepsPairs

LEMMA SameHistoryIsGenuine ==
  ASSUME PairInvariant, UNCHANGED <<results, delivered>>, mixed \subseteq mixed'
  PROVE  PairsAreGenuine'
BY DEF PairInvariant, PairsAreGenuine

(* One of the two is at no step of an upload then, or they go on together. *)
LEMMA GoingOnKeepsPairs ==
  ASSUME PicoTyped, CalcTyped, PairInvariant, NEW hdr, NEW data, PicoGoesOn(hdr, data),
         partial' = {}, mixed \subseteq mixed',
         Phase(pico.op, pico.step) \in 2..4 \/ Phase(pico.op, pico.step) > 5 => hdr = pico.hdr,
         Phase(pico.op, pico.step) > 5 => data = pico.data,
         pico.op \in Uploads /\ Phase(pico.op, pico.step) = 5 => data = hdr \/ hdr \in mixed',
         \/ calc'.op \notin {"take", "request"}
         \/ calc'.op = "request" /\ calc'.step = 2
         \/ CalcGoesOn /\ (pico.op \in Uploads /\ Phase(pico.op, pico.step) = 1 => hdr = calc.id)
         \/ hdr \in mixed'
         \/ calc'.op = "take" /\ calc'.step = 2 /\ Phase(pico.op, pico.step) # 1
  PROVE  PairInvariant'
<1>1. /\ pico.step \in 1..9 /\ calc.step \in 1..9
      /\ pico'.op = pico.op /\ pico'.step = pico.step + 1 /\ pico'.hdr = hdr /\ pico'.data = data
  BY PicoFields, CalcFields DEF PicoGoesOn
<1>2. Phase(pico'.op, pico'.step) = Phase(pico.op, pico.step) + 1
  BY <1>1 DEF Phase
<1>3. DataIsOfHeader'
  BY <1>1, <1>2 DEF PairInvariant, DataIsOfHeader, OfHeader, Phase
<1>4. SameUpload'
  <2> SUFFICES ASSUME pico'.op \in Uploads, calc'.op \in {"take", "request"},
                      Phase(pico'.op, pico'.step) \in 2..5, hdr \notin mixed',
                      Phase(calc'.op, calc'.step) = Phase(pico'.op, pico'.step)
               PROVE  calc'.id = hdr
    BY <1>1 DEF SameUpload, Uploads, OfHeader
  <2>1. CalcGoesOn
    BY <1>1, <1>2 DEF Phase
  <2>2. /\ calc'.op = calc.op /\ calc'.id = calc.id
        /\ Phase(calc'.op, calc'.step) = Phase(calc.op, calc.step) + 1
    BY <1>1, <2>1 DEF CalcGoesOn, CalcGoesTo, Phase
  <2>3. Phase(calc.op, calc.step) = Phase(pico.op, pico.step) /\ Phase(pico.op, pico.step) \in 1..4
    BY <1>1, <1>2, <2>2 DEF Phase
  <2>4. CASE Phase(pico.op, pico.step) = 1
    <3>1. pico.op \in Uploads
      BY <1>1
    <3>2. hdr = calc.id
      BY <1>1, <1>2, <2>4, <3>1 DEF Phase
    <3>3. QED BY <2>2, <3>2
  <2>5. CASE Phase(pico.op, pico.step) \in 2..4
    <3>1. hdr = pico.hdr /\ pico.op \in Uploads /\ calc.op \in {"take", "request"}
      BY <1>1, <2>2, <2>5
    <3>2. OfHeader(calc.id)
      BY <2>3, <2>5, <3>1 DEF PairInvariant, SameUpload
    <3>3. QED BY <2>2, <3>1, <3>2 DEF OfHeader
  <2>6. QED BY <2>3, <2>4, <2>5
<1>5. PairsAreGenuine'
  BY SameHistoryIsGenuine DEF PicoGoesOn
<1>6. QED BY <1>3, <1>4, <1>5 DEF PairInvariant, CutIsOfHeader

LEMMA PicoSendsKeepsPairs ==
  ASSUME PicoTyped, CalcTyped, CutTyped, PairInvariant, NEW packet, PicoSendsStep(packet)
  PROVE  PairInvariant'
<1>1. /\ PicoTurn /\ CalcReads /\ PicoCarries(packet)
      /\ partial' = {} /\ mixed \subseteq mixed'
  BY NothingIsCut DEF PicoSendsStep
<1>2. PicoMaySend(packet.cmd)
  BY <1>1 DEF PicoCarries
<1>3. CASE PicoStops
  BY <1>1, <1>3, StopKeepsPairs
<1>4. CASE PicoSent
  <2>1. CalcReceives(packet) \/ CalcStops
    BY DEF PicoSendsStep
  <2>2. \/ calc'.op \notin {"take", "request"}
        \/ calc'.op = "request" /\ calc'.step = 2
        \/ CalcGoesOn
    BY <1>1, <2>1, CalcReceivesTo, CalcStopsTo DEF CalcGoesTo, CalcRests
  <2>3. CASE PicoGoesOn(pico.hdr, pico.data)
    <3>1. pico.op \in Uploads => Phase(pico.op, pico.step) \notin {1, 5}
      BY <1>2, PicoFields DEF PicoMaySend, PicoAt, Uploads, Phase
    <3>2. QED BY <1>1, <2>2, <2>3, <3>1, GoingOnKeepsPairs
  <2>4. CASE PicoAt("recv", {6}) /\ PicoRests(TRUE) /\ Deliver(pico.hdr, pico.data)
    <3>1. TRUE \in BOOLEAN /\ pico.op = "recv" /\ PicoAt("recv", {6, 7})
      BY <2>4 DEF PicoAt
    <3>2. QED BY <1>1, <2>4, <3>1, RestKeepsPairs
  <2>5. CASE /\ \/ PicoAt("take", {7}) \/ PicoAt("respond", {9}) \/ PicoAt("send", {7})
                \/ PicoAt("request", {8}) \/ pico.op \in {"ack", "miss"}
             /\ PicoRests(TRUE) /\ UNCHANGED delivered
    <3>1. TRUE \in BOOLEAN /\ pico.op # "refused" /\ (pico.op = "request" => pico.step = 8)
      BY <2>5 DEF PicoAt
    <3>2. QED BY <1>1, <2>5, <3>1, RestKeepsPairs
  <2>6. CASE pico.op = "refused" /\ PicoRests(FALSE) /\ UNCHANGED delivered
    <3>1. FALSE \in BOOLEAN
      OBVIOUS
    <3>2. QED BY <1>1, <2>6, <3>1, RestKeepsPairs
  <2>7. QED BY <1>1, <1>4, <2>3, <2>4, <2>5, <2>6, PicoSentTo
<1>5. QED BY <1>3, <1>4 DEF PicoSendsStep

(* A packet that is of one transfer, and one that was filled up.           *)
Whole(packet) ==
  /\ packet.cmd \in {"RTS", "VAR"} => packet.id = calc.id
  /\ calc'.op \notin {"take", "request"} \/ CalcGoesOn

FilledUp(packet) ==
  /\ packet.cmd \in {"RTS", "VAR"} => packet.id \in mixed'
  /\ \/ calc'.op \notin {"take", "request"}
     \/ calc'.op = "take" /\ calc'.step = 2 /\ packet.cmd \notin HeaderOnly

LEMMA ReceivingKeepsPairs ==
  ASSUME PicoTyped, CalcTyped, PairInvariant, PicoReads, NEW packet, Comes(packet),
         PicoReceives(packet), partial' = {}, mixed \subseteq mixed',
         Whole(packet) \/ FilledUp(packet),
         packet.cmd = "DATA" /\ pico.op \in Uploads /\ Phase(pico.op, pico.step) = 5 =>
           OfHeader(packet.id)
  PROVE  PairInvariant'
<1>1. CASE PicoStops
  BY <1>1, StopKeepsPairs
<1>2. CASE PicoDispatches(packet)
  <2>1. UNCHANGED <<results, delivered>> /\ DataIsOfHeader' /\ CutIsOfHeader'
    BY <1>2 DEF PicoDispatches, PicoGoesTo, DataIsOfHeader, CutIsOfHeader, Uploads, Phase
  <2>2. \/ pico'.op \notin Uploads
        \/ /\ pico'.op = "take" /\ pico'.step = 2 /\ pico'.hdr = packet.id
           /\ packet.cmd \in {"RTS", "VAR"}
    BY <1>2 DEF PicoDispatches, PicoGoesTo, Uploads
  <2>3. SameUpload'
    BY <2>2 DEF Whole, FilledUp, SameUpload, OfHeader, CalcGoesOn, CalcGoesTo
  <2>4. QED BY <2>1, <2>3, SameHistoryIsGenuine DEF PairInvariant
<1>3. CASE /\ PicoAt("recv", {7}) \/ PicoAt("take", {7})
           /\ PicoRests(TRUE) /\ Deliver(pico.hdr, pico.data)
  <2>1. /\ TRUE \in BOOLEAN /\ pico.op \in {"recv", "take"}
        /\ PicoAt("recv", {6, 7}) \/ PicoAt("take", {7})
    BY <1>3 DEF PicoAt
  <2>2. QED BY <1>3, <2>1, RestKeepsPairs
<1>4. CASE /\ PicoMayRead(packet.cmd) /\ ~PicoAt("recv", {7}) /\ ~PicoAt("take", {7})
           /\ PicoGoesOn(HeaderOf(packet), DataOf(packet))
  <2> DEFINE phase == Phase(pico.op, pico.step)
  <2>1. /\ phase \in 2..4 \/ phase > 5 => HeaderOf(packet) = pico.hdr
        /\ phase > 5 => DataOf(packet) = pico.data
    BY <1>4, PicoFields DEF PicoMayRead, PicoAt, Phase, HeaderOf, DataOf
  <2>2. pico.op \in Uploads /\ phase = 5 =>
          DataOf(packet) = HeaderOf(packet) \/ HeaderOf(packet) \in mixed'
    <3> SUFFICES ASSUME pico.op \in Uploads, phase = 5
                 PROVE  DataOf(packet) = HeaderOf(packet) \/ HeaderOf(packet) \in mixed'
      OBVIOUS
    <3>1. packet.cmd = "DATA"
      BY <1>4, PicoFields DEF PicoMayRead, PicoAt, Phase, Uploads
    <3>2. QED BY <3>1 DEF HeaderOf, DataOf, OfHeader
  <2>3. pico.op \in Uploads /\ phase = 1 =>
          packet.cmd \in {"RTS", "VAR"} /\ HeaderOf(packet) = packet.id
    BY <1>4, PicoFields DEF PicoMayRead, PicoAt, Phase, HeaderOf, Uploads
  <2>4. CASE Whole(packet)
    BY <1>4, <2>1, <2>2, <2>3, <2>4, GoingOnKeepsPairs DEF Whole
  <2>5. CASE FilledUp(packet)
    <3>1. packet.cmd \in {"RTS", "VAR"} => HeaderOf(packet) \in mixed'
      BY <2>5 DEF FilledUp, HeaderOf
    <3>2. CASE packet.cmd \in {"RTS", "VAR"}
      BY <1>4, <2>1, <2>2, <3>1, <3>2, GoingOnKeepsPairs
    <3>3. CASE packet.cmd \notin {"RTS", "VAR"}
      <4>1. packet.cmd \in {"DATA"} \cup HeaderOnly
        BY <1>4, <3>3 DEF PicoMayRead, HeaderOnly
      <4>2. packet.cmd = "DATA" => phase # 1
        BY <1>4, PicoFields DEF PicoMayRead, PicoAt, Phase
      <4>3. calc'.op \notin {"take", "request"}
              \/ (calc'.op = "take" /\ calc'.step = 2 /\ phase # 1)
        BY <2>5, <4>1, <4>2 DEF FilledUp
      <4>4. QED BY <1>4, <2>1, <2>2, <4>3, GoingOnKeepsPairs
    <3>4. QED BY <3>2, <3>3
  <2>6. QED BY <2>4, <2>5
<1>5. CASE /\ (PicoAt("send", {6}) \/ PicoAt("delete", {3}) \/ PicoAt("respond", {5}))
           /\ PicoRests(TRUE) /\ UNCHANGED delivered
  <2>1. TRUE \in BOOLEAN /\ pico.op \in {"send", "delete", "respond"}
    BY <1>5 DEF PicoAt
  <2>2. QED BY <1>5, <2>1, RestKeepsPairs
<1>6. CASE PicoGoesTo("refused", 1, pico.id, pico.hdr, pico.data)
  <2>1. SameUpload' /\ DataIsOfHeader' /\ CutIsOfHeader'
    BY <1>6 DEF PicoGoesTo, SameUpload, DataIsOfHeader, CutIsOfHeader, Uploads
  <2>2. QED BY <1>6, <2>1, SameHistoryIsGenuine DEF PicoGoesTo, PairInvariant
<1>7. QED BY <1>1, <1>2, <1>3, <1>4, <1>5, <1>6, PicoReceivesTo

(* Data comes at the step of an upload at which it is expected.            *)
LEMMA DataIsOfTheSame ==
  ASSUME PicoTyped, CalcTyped, PairInvariant, NEW packet, Carries(packet),
         packet.cmd = "DATA", pico.op \in Uploads, Phase(pico.op, pico.step) = 5
  PROVE  OfHeader(packet.id)
<1>1. calc.op \in {"take", "request"} /\ Phase(calc.op, calc.step) = 5 /\ packet.id = calc.id
  BY DEF Carries, CalcMaySend, CalcAt, Phase, HeaderOnly
<1>2. QED BY <1>1 DEF PairInvariant, SameUpload

LEMMA CalcSendsKeepsPairs ==
  ASSUME PicoTyped, CalcTyped, PairInvariant, NEW packet, CalcSendsStep(packet)
  PROVE  PairInvariant'
<1>1. /\ calc.op # "idle" /\ PicoReads /\ Carries(packet) /\ Comes(packet)
      /\ partial' = {} /\ mixed' = mixed
      /\ packet.cmd \in {"RTS", "VAR"} => packet.id = calc.id
  BY CarriesComes DEF CalcSendsStep, CalcMeets, Carries, HeaderOnly
<1>2. Whole(packet)
  BY <1>1, CalcSentTo, CalcStopsTo DEF CalcSendsStep, CalcGoesTo, CalcRests, Whole
<1>3. CASE PicoStops
  BY <1>1, <1>3, StopKeepsPairs
<1>4. CASE pico.op = "listen" /\ UNCHANGED picoSide
  <2>1. SameUpload' /\ DataIsOfHeader' /\ CutIsOfHeader'
    BY <1>1, <1>4 DEF picoSide, SameUpload, DataIsOfHeader, CutIsOfHeader, Uploads
  <2>2. QED BY <1>1, <1>4, <2>1, SameHistoryIsGenuine DEF picoSide, PairInvariant
<1>5. CASE PicoReceives(packet)
  BY <1>1, <1>2, <1>5, DataIsOfTheSame, ReceivingKeepsPairs
<1>6. QED BY <1>3, <1>4, <1>5 DEF CalcSendsStep

LEMMA CalcCutsKeepsPairs ==
  ASSUME PicoTyped, CalcTyped, PairInvariant, NEW packet, CalcCutsStep(packet)
  PROVE  PairInvariant'
<1>1. /\ UNCHANGED <<pico, results, delivered, mixed>> /\ calc'.op = "idle"
      /\ Carries(packet) /\ partial' = {packet}
  BY DEF CalcCutsStep, CalcMeets, picoSide, CalcStops, CalcIs
<1>2. SameUpload' /\ DataIsOfHeader'
  BY <1>1 DEF PairInvariant, SameUpload, DataIsOfHeader, OfHeader
<1>3. CutIsOfHeader'
  BY <1>1, DataIsOfTheSame DEF CutIsOfHeader, OfHeader
<1>4. QED BY <1>1, <1>2, <1>3, SameHistoryIsGenuine DEF PairInvariant

LEMMA CalcFillsKeepsPairs ==
  ASSUME PicoTyped, CalcTyped, CutTyped, PairInvariant,
         NEW packet, NEW cut, CalcFillsStep(packet, cut)
  PROVE  PairInvariant'
<1>1. /\ PicoReads /\ cut \in partial /\ Comes(cut) /\ mixed \subseteq mixed'
      /\ cut.cmd \notin HeaderOnly => cut.id \in mixed'
  BY FillerIsFirst DEF CalcFillsStep, CalcMeets
<1>2. \/ calc'.op \notin {"take", "request"}
      \/ calc'.op = "take" /\ calc'.step = 2 /\ cut.cmd \notin HeaderOnly
  BY FillerGoesTo DEF New
<1>3. CASE UNCHANGED <<partial, picoSide>>
  <2>1. UNCHANGED <<pico, results, delivered, partial>>
    BY <1>3 DEF picoSide
  <2>2. pico.op \in Uploads => Phase(pico.op, pico.step) # 2
    <3>1. CASE pico.op = "listen"
      BY <3>1 DEF Uploads
    <3>2. CASE PicoActive /\ ~PicoTurn
      BY <3>2, PicoReadsThese DEF PicoAt, Phase, Uploads
    <3>3. QED BY <1>1, <3>1, <3>2 DEF PicoReads
  <2>3. SameUpload'
    BY <1>2, <2>1, <2>2 DEF SameUpload, Phase
  <2>4. DataIsOfHeader' /\ CutIsOfHeader'
    BY <1>1, <2>1 DEF PairInvariant, DataIsOfHeader, CutIsOfHeader, OfHeader
  <2>5. QED BY <1>1, <2>1, <2>3, <2>4, SameHistoryIsGenuine DEF PairInvariant
<1>4. CASE partial' = {} /\ PicoReceives(cut)
  <2>1. FilledUp(cut)
    BY <1>1, <1>2 DEF FilledUp, HeaderOnly
  <2>2. /\ cut.cmd = "DATA" /\ pico.op \in Uploads /\ Phase(pico.op, pico.step) = 5
        => OfHeader(cut.id)
    BY <1>1 DEF PairInvariant, CutIsOfHeader
  <2>3. QED BY <1>1, <1>4, <2>1, <2>2, ReceivingKeepsPairs
<1>5. QED BY <1>3, <1>4 DEF CalcFillsStep

(* Where neither end is in the middle of an upload.                        *)
LEMMA StartKeepsPairs ==
  ASSUME PairInvariant, UNCHANGED <<delivered, results>>, mixed \subseteq mixed',
         \/ /\ pico'.step = 1 /\ partial' = {}
            /\ pico'.op \in {"away", "listen", "recv", "send", "request", "delete"}
         \/ /\ UNCHANGED <<pico, partial>>
            /\ UNCHANGED calc \/ (calc'.op # "request" /\ calc'.step = 1)
  PROVE  PairInvariant'
<1>1. CASE /\ pico'.step = 1 /\ partial' = {}
           /\ pico'.op \in {"away", "listen", "recv", "send", "request", "delete"}
  BY <1>1, SameHistoryIsGenuine DEF PairInvariant, SameUpload, DataIsOfHeader, CutIsOfHeader, Phase
<1>2. CASE /\ UNCHANGED <<pico, partial>>
           /\ UNCHANGED calc \/ (calc'.op # "request" /\ calc'.step = 1)
  <2>1. SameUpload'
    BY <1>2 DEF PairInvariant, SameUpload, OfHeader, Phase
  <2>2. DataIsOfHeader' /\ CutIsOfHeader'
    BY <1>2 DEF PairInvariant, DataIsOfHeader, CutIsOfHeader, OfHeader
  <2>3. QED BY <2>1, <2>2, SameHistoryIsGenuine DEF PairInvariant
<1>3. QED BY <1>1, <1>2

LEMMA DbusStepKeepsPairs ==
  ASSUME DbusTyped, PairInvariant, DbusStep
  PROVE  PairInvariant'
<1>1. PicoTyped /\ CalcTyped /\ StoreTyped /\ CutTyped /\ mixed \subseteq mixed'
  BY DbusStepCuts DEF DbusTyped
<1>2. CASE PicoToCalc
  BY <1>1, <1>2, PicoToCalcIs, PicoSendsKeepsPairs
<1>3. CASE CalcToPico
  BY <1>1, <1>3, CalcToPicoIs, CalcSendsKeepsPairs, CalcCutsKeepsPairs, CalcFillsKeepsPairs
<1>4. CASE PicoTimesOut
  BY <1>1, <1>4, StopKeepsPairs DEF PicoTimesOut
<1>5. CASE CalcTimesOut
  BY <1>1, <1>5, CalcStopsTo, StartKeepsPairs DEF CalcTimesOut, picoSide, CalcRests, CalcGoesTo
<1>6. CASE StopListening \/ Listen \/ RecvVarCalled
  <2>1. UNCHANGED <<delivered, results>> /\ pico'.step = 1
        /\ pico'.op \in {"away", "listen", "recv"}
    BY <1>6 DEF StopListening, Listen, RecvVarCalled, PicoBegins, Away
  <2>2. partial' = {}
    BY <1>1, <1>6, NothingIsCut DEF StopListening, Listen, RecvVarCalled
  <2>3. QED BY <1>1, <2>1, <2>2, StartKeepsPairs
<1>7. QED BY <1>2, <1>3, <1>4, <1>5, <1>6 DEF DbusStep

(* What the steps of the bridge are to the transfers under it.             *)
PicoBeginsOne ==
  \E op \in {"send", "request", "delete"}, var \in Vars, machine \in Machines \cup {"ti83"} :
    PicoStarts(op, var, machine)

CalcBeginsOne ==
  \E op \in {"take", "respond", "ready"}, var \in Vars, machine \in Machines \cup {"ti83"} :
    /\ calc.op = "idle" /\ Transfer("calc", var, machine) /\ CalcIs(op, 1, Len(transfers'))
    /\ UNCHANGED <<told, picoSide, faults, partial, mixed>>
    /\ memory' = memory \/ memory' = [memory EXCEPT ![Count] = Len(transfers')]

LEMMA NextIs ==
  ASSUME Typed, [Next]_vars
  PROVE  \/ Transferring /\ DbusStep
         \/ PicoBeginsOne \/ CalcBeginsOne \/ UNCHANGED dbusVars
<1>1. CASE Transferring
  BY <1>1 DEF Transferring
<1>2. CASE ConnectTransport \/ BeginPush \/ PushEnds \/ UNCHANGED vars
  BY <1>2 DEF ConnectTransport, BeginPush, PushEnds, vars
<1>3. ASSUME NEW var, PushVar(var), var \in Vars
      PROVE  PicoBeginsOne
  BY <1>3 DEF PushVar, PicoBeginsOne
<1>4. CASE PushOneStr
  <2>1. pushing /\ PushVar(Pages[Len(Current.ids) + 1]) /\ Len(Current.ids) < Current.pages
    BY <1>4 DEF PushOneStr
  <2>2. Current = pushes[Len(pushes)] /\ Len(pushes) \in 1..Len(pushes) /\ BridgeTyped
    BY <2>1 DEF Typed, Current, Last, BridgeTyped
  <2>3. Len(Current.ids) \in Nat /\ Current.pages \in 1..Len(Pages)
    BY <2>2, PushFields
  <2>4. Len(Current.ids) + 1 \in 1..Len(Pages)
    BY <2>1, <2>3, PageBridgeAssumption
  <2>5. Pages[Len(Current.ids) + 1] \in Vars
    BY <2>4, PageBridgeAssumption
  <2>6. QED BY <1>3, <2>1, <2>5
<1>5. CASE PushPagecount
  BY <1>3, <1>5, PageBridgeAssumption DEF PushPagecount
<1>6. CASE FromThePrompt
  <2>1. PICK op \in {"send", "request", "delete"}, var \in OtherVars, machine \in Machines :
          PicoStarts(op, var, machine)
    BY <1>6 DEF FromThePrompt
  <2>2. var \in Vars /\ machine \in Machines \cup {"ti83"}
    BY PageBridgeAssumption
  <2>3. QED BY <2>1, <2>2 DEF PicoBeginsOne
<1>7. CASE Ask
  <2>1. "take" \in {"take", "respond", "ready"} /\ "ti83" \in Machines \cup {"ti83"}
    OBVIOUS
  <2>2. QED BY <1>7, <2>1, PageBridgeAssumption DEF Ask, CalcBeginsOne
<1>8. CASE FromTheCalculator
  <2>1. PICK op \in {"take", "respond", "ready"}, var \in OtherVars, machine \in Machines :
          CalcStarts(op, var, machine)
    BY <1>8 DEF FromTheCalculator
  <2>2. var \in Vars /\ machine \in Machines \cup {"ti83"}
    BY PageBridgeAssumption
  <2>3. QED BY <2>1, <2>2 DEF CalcStarts, CalcBeginsOne
<1>9. QED BY <1>1, <1>2, <1>4, <1>5, <1>6, <1>7, <1>8 DEF Next

LEMMA PicoBeginsTo ==
  ASSUME Typed, PicoBeginsOne
  PROVE  /\ \E op \in {"send", "request", "delete"} :
              PicoGoesTo(op, 1, Len(transfers'), 0, 0)
         /\ pico.op = "away" /\ UNCHANGED <<calcSide, faults, partial, mixed>>
         /\ Len(transfers') \notin Numbers /\ Numbers' = Numbers \cup {Len(transfers')}
         /\ Len(transfers') \in Nat /\ \A id \in Numbers : id < Len(transfers')
         /\ \A id \in Numbers : transfers'[id] = transfers[id]
<1>1. PICK op \in {"send", "request", "delete"}, var \in Vars, machine \in Machines \cup {"ti83"} :
             PicoStarts(op, var, machine)
  BY DEF PicoBeginsOne
<1>2. StoreTyped /\ Transfer("pico", var, machine) /\ "pico" \in {"pico", "calc"}
  BY <1>1 DEF Typed, PicoStarts
<1> DEFINE m == Len(transfers')
           n == Len(transfers)
<1>3. m \notin Numbers /\ Numbers' = Numbers \cup {m} /\ m = n + 1
      /\ \A id \in Numbers : transfers'[id] = transfers[id]
  BY <1>2, TransferNumbers
<1>4. n \in Nat /\ Numbers = 1..n
  BY <1>2 DEF StoreTyped, Numbers
<1> HIDE DEF m, n
<1>5. m \in Nat /\ \A id \in Numbers : id < m
  BY <1>3, <1>4
<1>6. PicoGoesTo(op, 1, m, 0, 0)
  BY <1>1 DEF PicoStarts, PicoBegins, PicoGoesTo, m
<1>7. pico.op = "away" /\ UNCHANGED <<calcSide, faults, partial, mixed>>
  BY <1>1 DEF PicoStarts
<1>8. QED BY <1>3, <1>5, <1>6, <1>7 DEF m

LEMMA CalcBeginsTo ==
  ASSUME Typed, CalcBeginsOne
  PROVE  /\ \E op \in {"take", "respond", "ready"} : CalcGoesTo(op, 1, Len(transfers'))
         /\ calc.op = "idle" /\ UNCHANGED <<told, picoSide, faults, partial, mixed>>
         /\ memory' = memory \/ memory' = [memory EXCEPT ![Count] = Len(transfers')]
         /\ Len(transfers') \notin Numbers /\ Numbers' = Numbers \cup {Len(transfers')}
         /\ Len(transfers') \in Nat /\ \A id \in Numbers : id < Len(transfers')
         /\ \A id \in Numbers : transfers'[id] = transfers[id]
<1>1. PICK op \in {"take", "respond", "ready"}, var \in Vars, machine \in Machines \cup {"ti83"} :
        /\ calc.op = "idle" /\ Transfer("calc", var, machine) /\ CalcIs(op, 1, Len(transfers'))
        /\ UNCHANGED <<told, picoSide, faults, partial, mixed>>
        /\ memory' = memory \/ memory' = [memory EXCEPT ![Count] = Len(transfers')]
  BY DEF CalcBeginsOne
<1>2. StoreTyped /\ Transfer("calc", var, machine) /\ "calc" \in {"pico", "calc"}
  BY <1>1 DEF Typed
<1> DEFINE m == Len(transfers')
           n == Len(transfers)
<1>3. m \notin Numbers /\ Numbers' = Numbers \cup {m} /\ m = n + 1
      /\ \A id \in Numbers : transfers'[id] = transfers[id]
  BY <1>2, TransferNumbers
<1>4. n \in Nat /\ Numbers = 1..n
  BY <1>2 DEF StoreTyped, Numbers
<1>6. CalcGoesTo(op, 1, m)
  BY <1>1, CalcIsThere
<1> HIDE DEF m, n
<1>5. m \in Nat /\ \A id \in Numbers : id < m
  BY <1>3, <1>4
<1>7. QED BY <1>1, <1>3, <1>5, <1>6 DEF m

LEMMA Next_Pairs == Typed /\ PairInvariant /\ [Next]_vars => PairInvariant'
<1> SUFFICES ASSUME Typed, PairInvariant, [Next]_vars PROVE PairInvariant'
  OBVIOUS
<1>1. CASE DbusStep
  BY <1>1, DbusStepKeepsPairs DEF Typed, DbusTyped
<1>2. CASE PicoBeginsOne
  <2>1. PICK op \in {"send", "request", "delete"} : PicoGoesTo(op, 1, Len(transfers'), 0, 0)
    BY <1>2, PicoBeginsTo
  <2>2. partial' = {} /\ mixed' = mixed
    BY <1>2, PicoBeginsTo, NothingIsCut DEF Typed
  <2>3. QED BY <2>1, <2>2, StartKeepsPairs DEF PicoGoesTo
<1>3. CASE CalcBeginsOne
  <2>1. PICK op \in {"take", "respond", "ready"} : CalcGoesTo(op, 1, Len(transfers'))
    BY <1>3, CalcBeginsTo
  <2>2. UNCHANGED <<picoSide, partial, mixed>>
    BY <1>3, CalcBeginsTo
  <2>3. QED BY <2>1, <2>2, StartKeepsPairs DEF CalcGoesTo, picoSide
<1>4. CASE UNCHANGED dbusVars
  BY <1>4, StartKeepsPairs DEF dbusVars
<1>5. QED BY <1>1, <1>2, <1>3, <1>4, NextIs

(* A header and the data handed on with it are of one upload, whatever     *)
(* fails at one end only or breaks off in the middle: for listen_loop,     *)
(* recv_var and req_var.  Excepted is a header that another packet filled  *)
(* up, of which packet.py prints that the checksum is wrong.               *)
THEOREM PairsBelongTogether == Spec => []PairsAreGenuine
<1>1. Init => PairInvariant
  BY DEF Init, DbusInit, Away, PairInvariant, SameUpload, DataIsOfHeader, CutIsOfHeader,
         PairsAreGenuine, Uploads
<1>2. PairInvariant => PairsAreGenuine
  BY DEF PairInvariant
<1>3. QED BY <1>1, <1>2, TypedHolds, Next_Pairs, PTL DEF Spec

-----------------------------------------------------------------------------
(***************************************************************************)
(* What was sent is stored.  From its first packet to its end a send_var   *)
(* or a delete_var has the calculator at the same step of the same         *)
(* transfer, or idle, or at the start of a later one: where the Pico takes *)
(* a packet for an answer, one that broke off included, the calculator has *)
(* got as far as that.                                                     *)
(***************************************************************************)
Fresh == calc.op \in {"take", "respond", "ready"} /\ calc.step = 1
Together == calc.op = pico.op /\ calc.step = pico.step /\ calc.id = pico.id

CalcFollows ==
  pico.op \in {"send", "delete"} /\ pico.step > 1 =>
    \/ calc.op = "idle"
    \/ calc.id > pico.id /\ (Fresh \/ (New /\ partial # {}))
    \/ Together

Answered == {r \in results : r.ok /\ r.hdr = 0}
Stored(id) == memory[transfers[id].var] >= id

(* What may still change the memory is later than what has been answered.  *)
AnswersAreOlder ==
  /\ calc.op \in {"take", "respond", "ready"} => \A r \in Answered : r.id < calc.id
  /\ pico.op \in {"send", "respond", "delete"} => \A r \in Answered : r.id < pico.id

StoredByThen ==
  /\ pico.op = "send" /\ pico.step > 5 /\ calc.op = "send" => Stored(pico.id)
  /\ pico.op = "send" /\ pico.step > 6 => Stored(pico.id)
  /\ pico.op = "delete" /\ pico.step > 1 /\ calc.op = "delete" => Stored(pico.id)
  /\ pico.op = "delete" /\ pico.step > 2 => Stored(pico.id)

(* A packet that broke off counts as one that came.                        *)
CutIsStored ==
  \A cut \in partial :
    cut.cmd = "ACK" /\ (PicoAt("send", {6}) \/ PicoAt("delete", {2, 3})) => Stored(pico.id)

CutIsOlder ==
  \A cut \in partial : cut.cmd = "REQ" => \A r \in Answered : r.id < cut.id

StoreInvariant ==
  /\ CalcFollows /\ AnswersAreOlder /\ StoredByThen /\ SentMeansStored
  /\ CutIsStored /\ CutIsOlder

LEMMA VarsAndIds ==
  ASSUME Typed
  PROVE  /\ \A id \in Numbers : transfers[id].var \in Vars /\ id \in Int /\ id > 0
         /\ \A v \in Vars : memory[v] \in Int
         /\ \A r \in results : r.id \in Numbers /\ r.hdr \in Int
         /\ PicoActive /\ pico.op # "recv" => pico.id \in Numbers
         /\ calc.op # "idle" => calc.id \in Numbers
<1>1. StoreTyped /\ HistoryTyped /\ PicoTyped /\ CalcTyped
  BY DEF Typed
<1>2. \A id \in Numbers : transfers[id].var \in Vars
  <2>1. transfers \in Seq(Transfers)
    BY <1>1 DEF StoreTyped
  <2>2. \A id \in Numbers : transfers[id] \in Transfers
    <3> HIDE DEF Transfers
    <3>1. QED BY <2>1 DEF Numbers
  <2>3. QED BY <2>2 DEF Transfers
<1>3. \A id \in Numbers : id \in Int /\ id > 0
  BY <1>1, NumbersAreIds
<1>4. \A v \in Vars : memory[v] \in Int
  BY <1>1, NumbersAreIds DEF StoreTyped
<1>5. \A r \in results : r.id \in Numbers /\ r.hdr \in Int
  BY <1>1, NumbersAreIds DEF HistoryTyped
<1>6. QED BY <1>1, <1>2, <1>3, <1>4, <1>5 DEF PicoTyped, CalcTyped

LEMMA WritesTo ==
  ASSUME Typed, NEW id \in Numbers, Writes(id), UNCHANGED transfers
  PROVE  /\ Stored(id)'
         /\ \A i \in Numbers : i < id /\ Stored(i) => Stored(i)'
<1>1. memory \in [Vars -> Ids] /\ id \in Int /\ transfers[id].var \in Vars
  BY VarsAndIds DEF Typed, StoreTyped
<1>2. Stored(id)'
  BY <1>1 DEF Writes, Stored
<1>3. ASSUME NEW i \in Numbers, i < id, Stored(i)
      PROVE  Stored(i)'
  <2>1. transfers[i].var \in Vars /\ i \in Int
    BY VarsAndIds
  <2>2. CASE transfers[i].var = transfers[id].var
    BY <1>1, <1>3, <2>1, <2>2 DEF Writes, Stored
  <2>3. CASE transfers[i].var # transfers[id].var
    BY <1>1, <1>3, <2>1, <2>3 DEF Writes, Stored
  <2>4. QED BY <2>2, <2>3
<1>4. QED BY <1>2, <1>3

(* A joint step changes what the Pico's transfer is about, or nothing.     *)
MemoryMoves ==
  \/ UNCHANGED memory
  \/ pico.op \in {"send", "respond", "delete"} /\ Writes(pico.id)

LEMMA AnsweredStays ==
  ASSUME Typed, StoreInvariant, MemoryMoves, UNCHANGED transfers
  PROVE  /\ \A r \in Answered : Stored(r.id)'
         /\ \A id : id = pico.id /\ PicoActive /\ pico.op # "recv" /\ Stored(id) => Stored(id)'
<1>1. \A r \in Answered : r.id \in Numbers /\ Stored(r.id)
  BY VarsAndIds DEF Answered, StoreInvariant, SentMeansStored, Stored
<1>2. CASE UNCHANGED memory
  BY <1>1, <1>2 DEF Stored
<1>3. CASE pico.op \in {"send", "respond", "delete"} /\ Writes(pico.id)
  <2>1. pico.id \in Numbers
    BY <1>3, VarsAndIds DEF PicoActive
  <2>2. PICK n \in Numbers : n = pico.id
    BY <2>1
  <2>3. \A r \in Answered : r.id < n
    BY <1>3, <2>2 DEF StoreInvariant, AnswersAreOlder
  <2>4. Writes(n)
    BY <1>3, <2>2
  <2>5. Stored(n)' /\ \A i \in Numbers : i < n /\ Stored(i) => Stored(i)'
    BY <2>4, WritesTo
  <2>6. ASSUME NEW r \in Answered PROVE Stored(r.id)'
    BY <1>1, <2>3, <2>5
  <2>7. QED BY <2>2, <2>5, <2>6
<1>4. QED BY <1>2, <1>3 DEF MemoryMoves

(* A result that is recorded as sent is of a transfer that is stored, and  *)
(* older than what the calculator is in.                                   *)
LEMMA RestKeepsStore ==
  ASSUME Typed, StoreInvariant, MemoryMoves, UNCHANGED transfers, partial' = {},
         NEW ok \in BOOLEAN, PicoRests(ok),
         ok /\ pico.op \in {"send", "delete"} => Stored(pico.id) /\ pico.step > 1,
         ok => pico.op # "refused" /\ (pico.op = "request" => pico.step = 8),
         calc'.op \in {"take", "respond", "ready"} => calc'.op = calc.op /\ calc'.id = calc.id
  PROVE  StoreInvariant'
<1>1. CalcFollows' /\ StoredByThen' /\ CutIsStored' /\ CutIsOlder'
  BY DEF PicoRests, CalcFollows, StoredByThen, CutIsStored, CutIsOlder
<1> DEFINE new == [id |-> pico.id, ok |-> ok, hdr |-> pico.hdr, data |-> pico.data]
<1>2. \/ results' = results
      \/ /\ pico.op \in {"send", "request", "delete", "refused"}
         /\ results' = results \cup {new}
  BY DEF PicoRests
<1>3. new.id = pico.id /\ new.ok = ok /\ new.hdr = pico.hdr
  OBVIOUS
<1> HIDE DEF new
<1>4. /\ pico.op \in {"send", "request", "delete", "refused"}
      /\ ok /\ pico.hdr = 0
      => pico.op \in {"send", "delete"}
  <2>1. pico.op = "request" /\ ok => pico.hdr \in Numbers
    BY DEF Typed, PicoTyped
  <2>2. 0 \notin Numbers
    BY VarsAndIds
  <2>3. QED BY <2>1, <2>2
<1>5. \A r \in Answered' : \/ r \in Answered
                          \/ /\ pico.op \in {"send", "delete"} /\ pico.step > 1
                             /\ r.id = pico.id /\ Stored(pico.id)
  BY <1>2, <1>3, <1>4 DEF Answered
<1>6. ASSUME NEW r \in Answered'
      PROVE  Stored(r.id)'
  <2>1. CASE r \in Answered
    BY <2>1, AnsweredStays
  <2>2. CASE pico.op \in {"send", "delete"} /\ r.id = pico.id /\ Stored(pico.id)
    <3>1. PICK n : n = r.id
      OBVIOUS
    <3>2. Stored(n) /\ n = pico.id /\ PicoActive /\ pico.op # "recv"
      BY <2>2, <3>1 DEF PicoActive
    <3>3. Stored(n)'
      BY <3>2, AnsweredStays
    <3>4. QED BY <3>1, <3>3
  <2>3. QED BY <1>5, <2>1, <2>2
<1>7. SentMeansStored'
  BY <1>6 DEF SentMeansStored, Answered, Stored
<1>8. AnswersAreOlder'
  <2>1. pico'.op \notin {"send", "respond", "delete"}
    BY DEF PicoRests
  <2>2. ASSUME calc'.op \in {"take", "respond", "ready"}, NEW r \in Answered'
        PROVE  r.id < calc'.id
    <3>1. calc.op \in {"take", "respond", "ready"} /\ calc'.id = calc.id
      BY <2>2
    <3>2. CASE r \in Answered
      BY <3>1, <3>2 DEF StoreInvariant, AnswersAreOlder
    <3>3. CASE pico.op \in {"send", "delete"} /\ pico.step > 1 /\ r.id = pico.id
      <4>1. calc.id > pico.id
        BY <3>1, <3>3 DEF StoreInvariant, CalcFollows, Together
      <4>2. pico.id \in Int /\ calc.id \in Int
        BY <3>1, <3>3, VarsAndIds DEF PicoActive
      <4>3. QED BY <3>1, <3>3, <4>1, <4>2
    <3>4. QED BY <1>5, <2>2, <3>2, <3>3
  <2>3. QED BY <2>1, <2>2 DEF AnswersAreOlder
<1>9. QED BY <1>1, <1>7, <1>8 DEF StoreInvariant

LEMMA SentStays ==
  ASSUME Typed, StoreInvariant, MemoryMoves, UNCHANGED <<transfers, results>>
  PROVE  Answered' = Answered /\ SentMeansStored'
<1>1. Answered' = Answered
  BY DEF Answered
<1>2. QED BY <1>1, AnsweredStays DEF SentMeansStored, Answered, Stored

(* Where the Pico is not in the middle of sending or deleting.             *)
LEMMA NotSendingKeepsStore ==
  ASSUME Typed, StoreInvariant, MemoryMoves, UNCHANGED <<transfers, results>>,
         partial' = {}, pico'.op \notin {"send", "delete"},
         pico'.op = "respond" => \A r \in Answered : r.id < pico'.id,
         calc'.op \in {"take", "respond", "ready"} => calc'.op = calc.op /\ calc'.id = calc.id
  PROVE  StoreInvariant'
<1>1. Answered' = Answered /\ SentMeansStored'
  BY SentStays
<1>2. AnswersAreOlder'
  BY <1>1 DEF StoreInvariant, AnswersAreOlder
<1>3. CalcFollows' /\ StoredByThen' /\ CutIsStored' /\ CutIsOlder'
  BY DEF CalcFollows, StoredByThen, CutIsStored, CutIsOlder
<1>4. QED BY <1>1, <1>2, <1>3 DEF StoreInvariant

LEMMA PicoSendsKeepsStore ==
  ASSUME Typed, StoreInvariant, NEW packet, PicoSendsStep(packet)
  PROVE  StoreInvariant'
<1>1. /\ PicoTyped /\ CalcTyped /\ PicoTurn /\ PicoActive /\ CalcReads
      /\ PicoCarries(packet) /\ PicoMaySend(packet.cmd) /\ UNCHANGED transfers
      /\ partial = {} /\ partial' = {}
  BY NothingIsCut DEF Typed, PicoSendsStep, PicoCarries, PicoTurn
<1>2. CalcReceives(packet) \/ CalcStops
  BY DEF PicoSendsStep
<1>3. MemoryMoves
  <2>1. CASE CalcStops
    BY <2>1, CalcStopsTo DEF MemoryMoves
  <2>2. CASE CalcReceives(packet)
    BY <1>1, <2>2, CalcReceivesTo DEF MemoryMoves, PicoMaySend, PicoAt
  <2>3. QED BY <1>2, <2>1, <2>2
<1>4. calc'.op \in {"take", "respond", "ready"} => calc'.op = calc.op /\ calc'.id = calc.id
  BY <1>1, <1>2, CalcReceivesTo, CalcStopsTo DEF CalcRests, CalcGoesOn, CalcGoesTo
<1>5. CASE PicoStops
  <2>1. PicoRests(FALSE) /\ FALSE \in BOOLEAN
    BY <1>5, PicoStopsTo
  <2>2. QED BY <1>1, <1>3, <1>4, <2>1, RestKeepsStore
<1>6. CASE PicoSent /\ PicoRests(FALSE)
  <2>1. FALSE \in BOOLEAN
    OBVIOUS
  <2>2. QED BY <1>1, <1>3, <1>4, <1>6, <2>1, RestKeepsStore
<1>7. CASE /\ PicoRests(TRUE)
           /\ \/ PicoAt("recv", {6}) \/ PicoAt("take", {7}) \/ PicoAt("respond", {9})
              \/ PicoAt("send", {7}) \/ PicoAt("request", {8}) \/ pico.op \in {"ack", "miss"}
  <2>1. TRUE \in BOOLEAN
    OBVIOUS
  <2>2. /\ pico.op # "refused" /\ pico.op # "delete" /\ (pico.op = "request" => pico.step = 8)
        /\ pico.op = "send" => pico.step = 7
    BY <1>7 DEF PicoAt
  <2>3. pico.op \in {"send", "delete"} => Stored(pico.id) /\ pico.step > 1
    BY <2>2 DEF StoreInvariant, StoredByThen
  <2>4. QED BY <1>1, <1>3, <1>4, <1>7, <2>1, <2>2, <2>3, RestKeepsStore
<1>8. CASE PicoGoesOn(pico.hdr, pico.data) /\ pico'.id = pico.id
  <2>1. /\ pico'.op = pico.op /\ pico'.step = pico.step + 1 /\ pico'.id = pico.id
        /\ UNCHANGED <<results, delivered>> /\ pico.step \in 1..9
    BY <1>1, <1>8, PicoFields DEF PicoGoesOn
  <2>2. Answered' = Answered /\ SentMeansStored'
    BY <1>1, <1>3, <2>1, SentStays
  <2>3. AnswersAreOlder'
    BY <1>4, <2>1, <2>2 DEF StoreInvariant, AnswersAreOlder
  <2>4. ASSUME pico.op \in {"send", "delete"}
        PROVE  \/ calc'.op = "idle"
               \/ /\ pico.step = 1 /\ calc.op = "idle" /\ calc'.id = pico.id /\ calc'.step = 2
                  /\ \/ pico.op = "send" /\ calc'.op = "send"
                     \/ pico.op = "delete" /\ calc'.op = "delete" /\ Writes(pico.id)
               \/ /\ pico.step > 1 /\ Together /\ CalcGoesOn
                  /\ pico.op = "send" /\ pico.step = 5 => Writes(pico.id)
    <3>1. CASE CalcStops
      BY <3>1, CalcStopsTo DEF CalcRests, CalcGoesTo
    <3>2. CASE calc.op = "idle" /\ CalcReceives(packet)
      BY <1>1, <2>4, <3>2, CalcReceivesTo DEF PicoMaySend, PicoAt, CalcRests, CalcGoesTo
    <3>3. CASE calc.op # "idle" /\ CalcReceives(packet)
      <4>1. \/ CalcRests
            \/ /\ CalcMayRead(packet.cmd) /\ CalcGoesOn
               /\ IF calc.op \in {"send", "respond"} /\ packet.cmd = "DATA"
                  THEN Writes(pico.id) ELSE UNCHANGED memory
        BY <1>1, <3>3, CalcReceivesTo
      <4>2. CASE CalcMayRead(packet.cmd) /\ CalcGoesOn
        <5>1. ~Fresh
          BY <4>2 DEF CalcMayRead, CalcAt, Fresh
        <5>2. pico.step # 1
          BY <1>1, <2>4, <4>2 DEF CalcMayRead, PicoMaySend, PicoAt, PicoTyped
        <5>3. Together /\ pico.step > 1
          BY <1>1, <2>1, <2>4, <3>3, <5>1, <5>2 DEF StoreInvariant, CalcFollows
        <5>4. pico.op = "send" /\ pico.step = 5 => packet.cmd = "DATA"
          BY <1>1 DEF PicoMaySend, PicoAt
        <5>5. QED BY <4>1, <4>2, <5>3, <5>4 DEF Together, CalcRests, CalcGoesOn, CalcGoesTo
      <4>3. QED BY <4>1, <4>2 DEF CalcRests, CalcGoesTo
    <3>4. QED BY <1>2, <3>1, <3>2, <3>3
  <2>5. CalcFollows'
    BY <2>1, <2>4 DEF CalcFollows, Together, CalcGoesOn, CalcGoesTo
  <2>6. StoredByThen'
    <3>1. ASSUME Writes(pico.id), pico.op \in {"send", "delete"} PROVE Stored(pico.id)'
      <4>1. PICK n \in Numbers : n = pico.id
        BY <1>1, <3>1, VarsAndIds DEF PicoActive
      <4>2. Writes(n)
        BY <3>1, <4>1
      <4>3. Stored(n)'
        BY <1>1, <4>2, WritesTo
      <4>4. QED BY <2>1, <4>1, <4>3
    <3>2. ASSUME Stored(pico.id), pico.op \in {"send", "delete"} PROVE Stored(pico.id)'
      <4>1. PICK n : n = pico.id
        OBVIOUS
      <4>2. Stored(n) /\ PicoActive /\ pico.op # "recv"
        BY <1>1, <3>2, <4>1
      <4>3. Stored(n)'
        BY <1>1, <1>3, <4>1, <4>2, AnsweredStays
      <4>4. QED BY <2>1, <4>1, <4>3
    <3>3. ASSUME pico'.op = "send", pico'.step > 5, calc'.op = "send"
          PROVE  Stored(pico.id)'
      <4>1. pico.op = "send" /\ pico.step \in {5, 7}
        BY <1>1, <2>1, <3>3 DEF PicoMaySend, PicoAt
      <4>2. Together /\ (pico.step = 5 => Writes(pico.id))
        BY <2>4, <3>3, <4>1
      <4>3. pico.step = 7 => Stored(pico.id)
        BY <4>1 DEF StoreInvariant, StoredByThen
      <4>4. QED BY <3>1, <3>2, <4>1, <4>2, <4>3
    <3>4. ASSUME pico'.op = "send", pico'.step > 6
          PROVE  Stored(pico.id)'
      <4>1. pico.op = "send" /\ pico.step = 7
        BY <1>1, <2>1, <3>4 DEF PicoMaySend, PicoAt
      <4>2. QED BY <3>2, <4>1 DEF StoreInvariant, StoredByThen
    <3>5. pico.op = "delete" => pico.step = 1
      BY <1>1 DEF PicoMaySend, PicoAt
    <3>6. ASSUME pico'.op = "delete", calc'.op = "delete"
          PROVE  Stored(pico.id)'
      BY <2>1, <2>4, <3>1, <3>5, <3>6
    <3>7. QED BY <2>1, <3>3, <3>4, <3>5, <3>6 DEF StoredByThen
  <2>7. CutIsStored' /\ CutIsOlder'
    BY <1>1 DEF CutIsStored, CutIsOlder
  <2>8. QED BY <2>2, <2>3, <2>5, <2>6, <2>7 DEF StoreInvariant
<1>9. PicoSent \/ PicoStops
  BY DEF PicoSendsStep
<1>10. QED BY <1>1, <1>5, <1>6, <1>7, <1>8, <1>9, PicoSentTo

(* A packet send_var or delete_var waits for finds both ends together.      *)
LEMMA AnswersAreTogether ==
  ASSUME StoreInvariant, partial = {}, calc.op # "idle", NEW cmd, CalcMaySend(cmd),
         pico.op \in {"send", "delete"}, PicoMayRead(cmd)
  PROVE  Together /\ pico.step > 1 /\ cmd # "SKIP"
<1>1. pico.step > 1 /\ cmd \in {"ACK", "CTS"}
  BY DEF PicoMayRead, PicoAt
<1>2. ~Fresh
  BY <1>1 DEF CalcMaySend, CalcAt, Fresh
<1>3. QED BY <1>1, <1>2 DEF StoreInvariant, CalcFollows

LEMMA CalcSendsKeepsStore ==
  ASSUME Typed, StoreInvariant, NEW packet, CalcSendsStep(packet)
  PROVE  StoreInvariant'
<1>1. /\ PicoTyped /\ CalcTyped /\ calc.op # "idle" /\ PicoReads /\ UNCHANGED transfers
      /\ Carries(packet) /\ CalcMaySend(packet.cmd) /\ Comes(packet)
      /\ partial = {} /\ partial' = {}
  BY CarriesComes DEF Typed, CalcSendsStep, CalcMeets, Carries
<1>2. /\ UNCHANGED memory
      /\ \/ CalcGoesOn /\ packet.cmd # "SKIP"
         \/ CalcGoesTo("refused", 1, calc.id) /\ packet.cmd = "SKIP"
         \/ CalcRests
  BY <1>1, CalcSentTo, CalcStopsTo DEF CalcSendsStep
<1>3. MemoryMoves
  BY <1>2 DEF MemoryMoves
<1>4. calc'.op \in {"take", "respond", "ready"} => calc'.op = calc.op /\ calc'.id = calc.id
  BY <1>2 DEF CalcRests, CalcGoesOn, CalcGoesTo
<1>5. CASE PicoStops
  <2>1. PicoRests(FALSE) /\ FALSE \in BOOLEAN
    BY <1>5, PicoStopsTo
  <2>2. QED BY <1>1, <1>3, <1>4, <2>1, RestKeepsStore
<1>6. CASE pico.op = "listen" /\ UNCHANGED picoSide
  BY <1>1, <1>3, <1>4, <1>6, NotSendingKeepsStore DEF picoSide
<1>7. CASE PicoDispatches(packet)
  <2>1. packet.cmd = "REQ" => packet.id = calc.id /\ calc.op = "respond"
    BY <1>1 DEF Carries, CalcMaySend, CalcAt, HeaderOnly
  <2>2. /\ UNCHANGED results /\ pico'.op \in {"take", "respond", "miss", "ack"}
        /\ pico'.op = "respond" => pico'.id = calc.id /\ calc.op = "respond"
    BY <1>7, <2>1 DEF PicoDispatches, PicoGoesTo
  <2>3. pico'.op = "respond" => \A r \in Answered : r.id < pico'.id
    BY <2>2 DEF StoreInvariant, AnswersAreOlder
  <2>4. QED BY <1>1, <1>3, <1>4, <2>2, <2>3, NotSendingKeepsStore
<1>8. CASE (PicoAt("recv", {7}) \/ PicoAt("take", {7})) /\ PicoRests(TRUE)
  <2>1. TRUE \in BOOLEAN /\ pico.op \in {"recv", "take"}
    BY <1>8 DEF PicoAt
  <2>2. QED BY <1>1, <1>3, <1>4, <1>8, <2>1, RestKeepsStore
<1>9. CASE PicoAt("respond", {5}) /\ PicoRests(TRUE)
  <2>1. TRUE \in BOOLEAN /\ pico.op = "respond"
    BY <1>9 DEF PicoAt
  <2>2. QED BY <1>1, <1>3, <1>4, <1>9, <2>1, RestKeepsStore
<1>10. CASE PicoGoesTo("refused", 1, pico.id, pico.hdr, pico.data)
  BY <1>1, <1>3, <1>4, <1>10, NotSendingKeepsStore DEF PicoGoesTo
<1>11. ASSUME pico.op \in {"send", "delete"}, PicoMayRead(packet.cmd)
       PROVE  Together /\ pico.step > 1 /\ packet.cmd # "SKIP"
  BY <1>1, <1>11, AnswersAreTogether
<1>12. CASE /\ PicoMayRead(packet.cmd) /\ (PicoAt("send", {6}) \/ PicoAt("delete", {3}))
            /\ PicoRests(TRUE)
  <2>1. TRUE \in BOOLEAN /\ pico.op \in {"send", "delete"} /\ pico.step > 1
    BY <1>12 DEF PicoAt
  <2>2. Together
    BY <1>11, <1>12, <2>1
  <2>3. Stored(pico.id)
    BY <1>12, <2>2 DEF StoreInvariant, StoredByThen, Together, PicoAt
  <2>4. QED BY <1>1, <1>3, <1>4, <1>12, <2>1, <2>3, RestKeepsStore
<1>13. CASE PicoMayRead(packet.cmd) /\ PicoGoesOn(HeaderOf(packet), DataOf(packet))
  <2>1. ASSUME pico.op # "recv"
        PROVE  /\ pico'.op = pico.op /\ pico'.step = pico.step + 1 /\ pico'.id = pico.id
               /\ UNCHANGED <<results, delivered>> /\ pico.step \in 1..9
    BY <1>1, <1>13, <2>1, PicoFields DEF PicoGoesOn
  <2>2. CASE pico.op \notin {"send", "delete"}
    <3>1. /\ pico'.op = pico.op /\ UNCHANGED results
          /\ pico.op = "respond" => pico'.id = pico.id
      BY <1>13, <2>1 DEF PicoGoesOn
    <3>2. pico'.op = "respond" => \A r \in Answered : r.id < pico'.id
      BY <3>1 DEF StoreInvariant, AnswersAreOlder
    <3>3. QED BY <1>1, <1>3, <1>4, <2>2, <3>1, <3>2, NotSendingKeepsStore
  <2>3. CASE pico.op \in {"send", "delete"}
    <3>2. Answered' = Answered /\ SentMeansStored'
      BY <1>1, <1>3, <2>1, <2>3, SentStays
    <3>3. AnswersAreOlder'
      BY <1>4, <2>1, <2>3, <3>2 DEF StoreInvariant, AnswersAreOlder
    <3>4. Together /\ pico.step > 1 /\ (CalcGoesOn \/ CalcRests)
      BY <1>2, <1>11, <1>13, <2>3
    <3>5. CalcFollows'
      BY <2>1, <2>3, <3>4 DEF CalcFollows, Together, CalcGoesOn, CalcRests, CalcGoesTo
    <3>6. Stored(pico.id) => Stored(pico.id)'
      BY <1>1, <1>2, <2>1, <2>3 DEF Stored
    <3>7. /\ pico.op = "send" => pico.step \in {2, 3, 6}
          /\ pico.op = "delete" => pico.step \in {2, 3}
      BY <1>13, <2>3 DEF PicoMayRead, PicoAt
    <3>8. StoredByThen'
      BY <2>1, <2>3, <3>4, <3>6, <3>7 DEF StoreInvariant, StoredByThen, Together
    <3>9. CutIsStored' /\ CutIsOlder'
      BY <1>1 DEF CutIsStored, CutIsOlder
    <3>10. QED BY <3>2, <3>3, <3>5, <3>8, <3>9 DEF StoreInvariant
  <2>4. QED BY <2>2, <2>3
<1>14. CASE PicoReceives(packet)
  BY <1>1, <1>5, <1>7, <1>8, <1>9, <1>10, <1>12, <1>13, <1>14, PicoReceivesTo
<1>15. QED BY <1>5, <1>6, <1>14 DEF CalcSendsStep

LEMMA CalcCutsKeepsStore ==
  ASSUME Typed, StoreInvariant, NEW packet, CalcCutsStep(packet)
  PROVE  StoreInvariant'
<1>1. /\ PicoTyped /\ CalcTyped /\ calc.op # "idle" /\ PicoReads
      /\ UNCHANGED <<transfers, memory, pico, results, delivered>>
      /\ Carries(packet) /\ CalcMaySend(packet.cmd)
      /\ partial = {} /\ partial' = {packet} /\ calc'.op = "idle"
  BY CalcStopsTo DEF Typed, CalcCutsStep, CalcMeets, Carries, picoSide, CalcRests, CalcGoesTo
<1>2. Answered' = Answered /\ SentMeansStored'
  BY <1>1, SentStays DEF MemoryMoves
<1>3. AnswersAreOlder' /\ CalcFollows' /\ StoredByThen'
  BY <1>1, <1>2 DEF StoreInvariant, AnswersAreOlder, CalcFollows, StoredByThen, Stored
<1>4. ASSUME packet.cmd = "ACK", PicoAt("send", {6}) \/ PicoAt("delete", {2, 3})
      PROVE  Stored(pico.id)
  <2>1. pico.op \in {"send", "delete"} /\ PicoMayRead(packet.cmd)
    BY <1>4 DEF PicoAt, PicoMayRead
  <2>2. Together
    BY <1>1, <2>1, AnswersAreTogether
  <2>3. QED BY <1>4, <2>2 DEF StoreInvariant, StoredByThen, Together, PicoAt
<1>5. CutIsStored'
  BY <1>1, <1>4 DEF CutIsStored, PicoAt, Stored
<1>6. packet.cmd = "REQ" => \A r \in Answered : r.id < packet.id
  <2>1. packet.cmd = "REQ" => packet.id = calc.id /\ calc.op = "respond"
    BY <1>1 DEF Carries, CalcMaySend, CalcAt, HeaderOnly
  <2>2. QED BY <2>1 DEF StoreInvariant, AnswersAreOlder
<1>7. CutIsOlder'
  BY <1>1, <1>2, <1>6 DEF CutIsOlder
<1>8. QED BY <1>2, <1>3, <1>5, <1>7 DEF StoreInvariant

LEMMA CalcFillsKeepsStore ==
  ASSUME Typed, StoreInvariant, NEW packet, NEW cut, CalcFillsStep(packet, cut)
  PROVE  StoreInvariant'
<1>1. /\ PicoTyped /\ CalcTyped /\ CutTyped /\ calc.op # "idle" /\ New
      /\ PicoReads /\ UNCHANGED transfers /\ cut \in partial /\ Comes(cut)
      /\ UNCHANGED memory
  BY FillerIsFirst, FillerGoesTo DEF Typed, CalcFillsStep, CalcMeets
<1>2. \/ calc'.op = "idle"
      \/ cut.cmd \notin HeaderOnly /\ New' /\ calc'.op = calc.op /\ calc'.id = calc.id
  BY <1>1, FillerGoesTo
<1>3. MemoryMoves /\ TRUE \in BOOLEAN /\ FALSE \in BOOLEAN
  BY <1>1 DEF MemoryMoves
<1>4. calc'.op \in {"take", "respond", "ready"} => calc'.op = calc.op /\ calc'.id = calc.id
  BY <1>2
<1>5. CASE UNCHANGED <<partial, picoSide>>
  <2>1. UNCHANGED <<partial, pico, results, delivered>> /\ partial' # {}
    BY <1>1, <1>5 DEF picoSide
  <2>2. Answered' = Answered /\ SentMeansStored'
    BY <1>1, <1>3, <2>1, SentStays
  <2>3. AnswersAreOlder' /\ CutIsOlder'
    BY <1>4, <2>1, <2>2 DEF StoreInvariant, AnswersAreOlder, CutIsOlder
  <2>4. CutIsStored'
    BY <1>1, <2>1 DEF StoreInvariant, CutIsStored, PicoAt, Stored
  <2>5. calc'.op \notin {"send", "delete"}
    BY <1>2 DEF New
  <2>6. StoredByThen'
    BY <1>1, <2>1, <2>5 DEF StoreInvariant, StoredByThen, Stored
  <2>7. pico.op \in {"send", "delete"} /\ pico.step > 1 => calc.id > pico.id
    BY <1>1 DEF StoreInvariant, CalcFollows, Together, New
  <2>8. CalcFollows'
    BY <1>2, <2>1, <2>7 DEF CalcFollows
  <2>9. QED BY <2>2, <2>3, <2>4, <2>6, <2>8 DEF StoreInvariant
<1>6. CASE partial' = {} /\ PicoReceives(cut)
  <2>1. CASE PicoStops
    <3>1. PicoRests(FALSE)
      BY <2>1, PicoStopsTo
    <3>2. QED BY <1>1, <1>3, <1>4, <1>6, <3>1, RestKeepsStore
  <2>2. CASE PicoDispatches(cut)
    <3>1. /\ UNCHANGED results /\ pico'.op \in {"take", "respond", "miss", "ack"}
          /\ pico'.op = "respond" => pico'.id = cut.id /\ cut.cmd = "REQ"
      BY <2>2 DEF PicoDispatches, PicoGoesTo
    <3>2. pico'.op = "respond" => \A r \in Answered : r.id < pico'.id
      BY <1>1, <3>1 DEF StoreInvariant, CutIsOlder
    <3>3. QED BY <1>1, <1>3, <1>4, <1>6, <3>1, <3>2, NotSendingKeepsStore
  <2>3. CASE /\ PicoRests(TRUE)
             /\ PicoAt("recv", {7}) \/ PicoAt("take", {7}) \/ PicoAt("respond", {5})
    <3>1. pico.op \in {"recv", "take", "respond"}
      BY <2>3 DEF PicoAt
    <3>2. QED BY <1>1, <1>3, <1>4, <1>6, <2>3, <3>1, RestKeepsStore
  <2>4. CASE PicoGoesTo("refused", 1, pico.id, pico.hdr, pico.data)
    BY <1>1, <1>3, <1>4, <1>6, <2>4, NotSendingKeepsStore DEF PicoGoesTo
  <2>5. CASE /\ PicoMayRead(cut.cmd) /\ (PicoAt("send", {6}) \/ PicoAt("delete", {3}))
             /\ PicoRests(TRUE)
    <3>1. pico.op \in {"send", "delete"} /\ pico.step > 1 /\ cut.cmd = "ACK"
      BY <2>5 DEF PicoAt, PicoMayRead
    <3>2. Stored(pico.id)
      BY <1>1, <2>5, <3>1 DEF StoreInvariant, CutIsStored, PicoAt
    <3>3. QED BY <1>1, <1>3, <1>4, <1>6, <2>5, <3>1, <3>2, RestKeepsStore
  <2>6. CASE PicoMayRead(cut.cmd) /\ PicoGoesOn(HeaderOf(cut), DataOf(cut))
    <3>1. /\ pico'.op = pico.op /\ pico'.step = pico.step + 1 /\ UNCHANGED results
          /\ pico.op # "recv" => pico'.id = pico.id
          /\ pico.step \in 1..9
      BY <1>1, <2>6, PicoFields DEF PicoGoesOn
    <3>2. CASE pico.op \notin {"send", "delete"}
      <4>1. pico'.op = "respond" => \A r \in Answered : r.id < pico'.id
        BY <3>1 DEF StoreInvariant, AnswersAreOlder
      <4>2. QED BY <1>1, <1>3, <1>4, <1>6, <3>1, <3>2, <4>1, NotSendingKeepsStore
    <3>3. CASE pico.op \in {"send", "delete"}
      <4>1. Answered' = Answered /\ SentMeansStored'
        BY <1>1, <1>3, <3>1, SentStays
      <4>2. AnswersAreOlder'
        BY <1>4, <3>1, <3>3, <4>1 DEF StoreInvariant, AnswersAreOlder
      <4>3. /\ cut.cmd \in {"ACK", "CTS"}
            /\ pico.op = "send" => pico.step \in {2, 3, 6}
            /\ pico.op = "delete" => pico.step \in {2, 3}
            /\ pico.op = "delete" \/ pico.step = 6 => cut.cmd = "ACK"
        BY <2>6, <3>3 DEF PicoMayRead, PicoAt
      <4>4. calc'.op = "idle"
        BY <1>2, <4>3 DEF HeaderOnly
      <4>5. pico.op = "delete" \/ pico.step = 6 => Stored(pico.id)
        BY <1>1, <3>3, <4>3 DEF StoreInvariant, CutIsStored, PicoAt
      <4>6. StoredByThen'
        BY <1>1, <3>1, <3>3, <4>3, <4>4, <4>5 DEF StoredByThen, Stored
      <4>7. CalcFollows' /\ CutIsStored' /\ CutIsOlder'
        BY <1>6, <4>4 DEF CalcFollows, CutIsStored, CutIsOlder
      <4>8. QED BY <4>1, <4>2, <4>6, <4>7 DEF StoreInvariant
    <3>4. QED BY <3>2, <3>3
  <2>7. QED BY <1>1, <1>6, <2>1, <2>2, <2>3, <2>4, <2>5, <2>6, PicoReceivesTo
<1>7. QED BY <1>5, <1>6 DEF CalcFillsStep

LEMMA DbusStepKeepsStore ==
  ASSUME Typed, StoreInvariant, DbusStep
  PROVE  StoreInvariant'
<1>1. PicoTyped /\ CalcTyped /\ StoreTyped /\ CutTyped
  BY DEF Typed
<1>2. CASE PicoToCalc
  BY <1>1, <1>2, PicoToCalcIs, PicoSendsKeepsStore
<1>3. CASE CalcToPico
  BY <1>1, <1>3, CalcToPicoIs, CalcSendsKeepsStore, CalcCutsKeepsStore, CalcFillsKeepsStore
<1>4. CASE PicoTimesOut
  <2>1. /\ PicoRests(FALSE) /\ FALSE \in BOOLEAN /\ partial' = {}
        /\ UNCHANGED <<calc, memory, transfers>>
    BY <1>4, PicoStopsTo DEF PicoTimesOut, calcSide
  <2>2. MemoryMoves
    BY <2>1 DEF MemoryMoves
  <2>3. QED BY <2>1, <2>2, RestKeepsStore
<1>5. ASSUME UNCHANGED <<transfers, results, memory>>,
             \/ pico'.op \in {"away", "listen", "recv"} /\ UNCHANGED calc /\ partial' = {}
             \/ UNCHANGED <<pico, partial>> /\ CalcRests
      PROVE  StoreInvariant'
  <2>1. Answered' = Answered /\ SentMeansStored'
    BY <1>5, SentStays DEF MemoryMoves
  <2>2. CalcFollows' /\ StoredByThen' /\ AnswersAreOlder'
    BY <1>5, <2>1 DEF StoreInvariant, CalcFollows, StoredByThen, AnswersAreOlder,
                      Stored, CalcRests, CalcGoesTo
  <2>3. CutIsStored' /\ CutIsOlder'
    BY <1>5, <2>1 DEF StoreInvariant, CutIsStored, CutIsOlder, PicoAt, Stored
  <2>4. QED BY <2>1, <2>2, <2>3 DEF StoreInvariant
<1>6. CASE CalcTimesOut
  BY <1>5, <1>6, CalcStopsTo DEF CalcTimesOut, picoSide
<1>7. CASE StopListening \/ Listen \/ RecvVarCalled
  <2>1. partial' = {}
    BY <1>1, <1>7, NothingIsCut DEF StopListening, Listen, RecvVarCalled
  <2>2. QED BY <1>5, <1>7, <2>1
               DEF StopListening, Listen, RecvVarCalled, PicoBegins, Away, calcSide
<1>8. QED BY <1>2, <1>3, <1>4, <1>6, <1>7 DEF DbusStep

LEMMA Next_Store == Typed /\ StoreInvariant /\ [Next]_vars => StoreInvariant'
<1> SUFFICES ASSUME Typed, StoreInvariant, [Next]_vars PROVE StoreInvariant'
  OBVIOUS
<1>1. CASE DbusStep
  BY <1>1, DbusStepKeepsStore
<1>0. \A r \in Answered : r.id \in Numbers /\ r.id \in Int
  BY VarsAndIds DEF Answered
<1>2. CASE PicoBeginsOne
  <2> DEFINE m == Len(transfers')
  <2>1. PICK op \in {"send", "request", "delete"} : PicoGoesTo(op, 1, m, 0, 0)
    BY <1>2, PicoBeginsTo
  <2>2. /\ UNCHANGED <<calc, memory>> /\ \A id \in Numbers : id < m
        /\ \A id \in Numbers : transfers'[id] = transfers[id]
    BY <1>2, PicoBeginsTo DEF calcSide
  <2> HIDE DEF m
  <2>3. results' = results /\ Answered' = Answered
    BY <2>1 DEF PicoGoesTo, Answered
  <2>4. SentMeansStored'
    BY <1>0, <2>2, <2>3 DEF StoreInvariant, SentMeansStored, Answered
  <2>5. AnswersAreOlder'
    BY <1>0, <2>1, <2>2, <2>3 DEF StoreInvariant, AnswersAreOlder, PicoGoesTo
  <2>6. CalcFollows' /\ StoredByThen'
    BY <2>1 DEF CalcFollows, StoredByThen, PicoGoesTo
  <2>7. partial' = {}
    BY <1>2, PicoBeginsTo, NothingIsCut DEF Typed
  <2>8. CutIsStored' /\ CutIsOlder'
    BY <2>7 DEF CutIsStored, CutIsOlder
  <2>9. QED BY <2>4, <2>5, <2>6, <2>8 DEF StoreInvariant
<1>3. CASE CalcBeginsOne
  <2> DEFINE m == Len(transfers')
  <2>1. PICK op \in {"take", "respond", "ready"} : CalcGoesTo(op, 1, m)
    BY <1>3, CalcBeginsTo
  <2>2. /\ UNCHANGED <<pico, results, partial>> /\ m \in Nat /\ \A id \in Numbers : id < m
        /\ \A id \in Numbers : transfers'[id] = transfers[id]
        /\ memory' = memory \/ memory' = [memory EXCEPT ![Count] = m]
    BY <1>3, CalcBeginsTo DEF picoSide
  <2> HIDE DEF m
  <2>3. Answered' = Answered
    BY <2>2 DEF Answered
  <2>4. ASSUME NEW id \in Numbers, Stored(id)
        PROVE  Stored(id)'
    <3>1. /\ transfers[id].var \in Vars /\ id \in Int /\ id < m
          /\ transfers'[id] = transfers[id] /\ memory \in [Vars -> Ids]
      BY <2>2, VarsAndIds DEF Typed, StoreTyped
    <3>2. memory'[transfers[id].var] = memory[transfers[id].var] \/ memory'[transfers[id].var] = m
      BY <2>2, <3>1
    <3>3. QED BY <2>2, <2>4, <3>1, <3>2 DEF Stored
  <2>5. SentMeansStored'
    BY <1>0, <2>3, <2>4 DEF StoreInvariant, SentMeansStored, Answered, Stored
  <2>6. AnswersAreOlder'
    BY <1>0, <2>1, <2>2, <2>3 DEF StoreInvariant, AnswersAreOlder, CalcGoesTo
  <2>7. pico.op \in {"send", "delete"} => pico.id \in Numbers
    BY VarsAndIds DEF PicoActive
  <2>8. CalcFollows'
    BY <2>1, <2>2, <2>7 DEF CalcFollows, Fresh, CalcGoesTo
  <2>9. ASSUME pico.op \in {"send", "delete"}, Stored(pico.id)
        PROVE  Stored(pico.id)'
    <3>1. PICK n \in Numbers : n = pico.id
      BY <2>7, <2>9
    <3>2. Stored(n)
      BY <2>9, <3>1
    <3>3. Stored(n)'
      BY <2>4, <3>2
    <3>4. QED BY <2>2, <3>1, <3>3
  <2>10. StoredByThen'
    BY <2>1, <2>2, <2>9 DEF StoreInvariant, StoredByThen, CalcGoesTo
  <2>11. CutIsStored' /\ CutIsOlder'
    BY <2>2, <2>3, <2>9 DEF StoreInvariant, CutIsStored, CutIsOlder, PicoAt
  <2>12. QED BY <2>5, <2>6, <2>8, <2>10, <2>11 DEF StoreInvariant
<1>4. CASE UNCHANGED dbusVars
  BY <1>4 DEF dbusVars, StoreInvariant, CalcFollows, Fresh, New, Together, AnswersAreOlder,
              Answered, StoredByThen, Stored, SentMeansStored, CutIsStored, CutIsOlder, PicoAt
<1>5. QED BY <1>1, <1>2, <1>3, <1>4, NextIs

LEMMA StoreHolds == Spec => []StoreInvariant
<1>1. Init => StoreInvariant
  BY DEF Init, DbusInit, Away, Idle, StoreInvariant, CalcFollows, AnswersAreOlder, Answered,
         StoredByThen, SentMeansStored, CutIsStored, CutIsOlder
<1>2. QED BY <1>1, TypedHolds, Next_Store, PTL DEF Spec

(* send_var and delete_var return True only for what the calculator did,   *)
(* whichever end saw a packet fail, and nothing older overwrites it.       *)
THEOREM SentIsStored == Spec => []SentMeansStored
<1>1. StoreInvariant => SentMeansStored
  BY DEF StoreInvariant
<1>2. QED BY <1>1, StoreHolds, PTL

-----------------------------------------------------------------------------
(***************************************************************************)
(* The count comes last.  The transfers of a push are send_vars of the     *)
(* pages in their order and then of the count, each begun when the one     *)
(* before it was sent.                                                     *)
(***************************************************************************)
InPush(id) == \E k \in 1..Len(pushes) : \E i \in 1..Len(pushes[k].ids) : id = pushes[k].ids[i]

BySendVar(id) ==
  /\ \A r \in results : r.id = id => r.hdr = 0
  /\ pico.op \in {"send", "request", "delete", "refused"} /\ pico.id = id =>
       pico.op \in {"send", "refused"} /\ pico.hdr = 0

InTheirOrder(push) ==
  \A i \in 1..Len(push.ids) :
    /\ transfers[push.ids[i]].var = IF i <= push.pages THEN Pages[i] ELSE Count
    /\ i < Len(push.ids) => Sent(push.ids[i])

PushInvariant ==
  /\ \A id : InPush(id) => BySendVar(id)
  /\ \A k \in 1..Len(pushes) : InTheirOrder(pushes[k])

LEMMA RestKeepsSends ==
  ASSUME NEW ok, PicoRests(ok), NEW id, BySendVar(id)
  PROVE  BySendVar(id)' /\ results \subseteq results'
BY DEF PicoRests, BySendVar

LEMMA DbusStepKeepsSends ==
  ASSUME Typed, DbusStep
  PROVE  results \subseteq results' /\ \A id : BySendVar(id) => BySendVar(id)'
<1>0. PicoTyped /\ CalcTyped /\ StoreTyped /\ CutTyped
  BY DEF Typed
<1>1. ASSUME NEW ok, PicoRests(ok)
      PROVE  results \subseteq results' /\ \A id : BySendVar(id) => BySendVar(id)'
  <2>1. results \subseteq results'
    BY <1>1 DEF PicoRests
  <2>2. QED BY <1>1, <2>1, RestKeepsSends
<1>2. ASSUME UNCHANGED results,
             \/ pico'.op \notin {"send", "request", "delete", "refused"}
             \/ /\ pico'.id = pico.id /\ pico.op \in {"send", "request", "delete", "refused"}
                /\ pico'.op \in {pico.op, "refused"}
                /\ pico.op \in {"send", "refused"} => pico'.hdr = pico.hdr
      PROVE  results \subseteq results' /\ \A id : BySendVar(id) => BySendVar(id)'
  BY <1>2 DEF BySendVar
<1>3. CASE PicoToCalc
  <2>1. PICK packet : PicoSendsStep(packet)
    BY <1>0, <1>3, PicoToCalcIs
  <2>2. CASE PicoStops
    BY <1>1, <2>2, PicoStopsTo
  <2>3. CASE PicoSent
    <3>1. CASE PicoGoesOn(pico.hdr, pico.data) /\ pico'.id = pico.id
      BY <1>2, <3>1 DEF PicoGoesOn
    <3>2. CASE PicoRests(TRUE) \/ PicoRests(FALSE)
      BY <1>1, <3>2
    <3>3. PicoTurn
      BY <2>1 DEF PicoSendsStep
    <3>4. QED BY <1>0, <2>3, <3>1, <3>2, <3>3, PicoSentTo
  <2>4. QED BY <2>1, <2>2, <2>3 DEF PicoSendsStep
<1>4. CASE CalcToPico
  <2>1. \/ PicoStops \/ UNCHANGED picoSide
        \/ \E packet : PicoReads /\ Comes(packet) /\ PicoReceives(packet)
    <3>1. PICK sent : CalcSendsStep(sent) \/ CalcCutsStep(sent) \/ \E cut : CalcFillsStep(sent, cut)
      BY <1>0, <1>4, CalcToPicoIs
    <3>2. CASE CalcSendsStep(sent)
      BY <3>2, CarriesComes DEF CalcSendsStep, CalcMeets
    <3>3. CASE CalcCutsStep(sent)
      BY <3>3 DEF CalcCutsStep
    <3>4. ASSUME NEW cut, CalcFillsStep(sent, cut)
          PROVE  UNCHANGED picoSide \/ (PicoReads /\ Comes(cut) /\ PicoReceives(cut))
      BY <1>0, <3>4, FillerIsFirst DEF CalcFillsStep, CalcMeets
    <3>5. QED BY <3>1, <3>2, <3>3, <3>4
  <2>2. CASE PicoStops
    BY <1>1, <2>2, PicoStopsTo
  <2>3. CASE UNCHANGED picoSide
    BY <2>3 DEF picoSide, BySendVar
  <2>4. ASSUME NEW packet, PicoReads, Comes(packet), PicoReceives(packet)
        PROVE  results \subseteq results' /\ \A id : BySendVar(id) => BySendVar(id)'
    <3>1. CASE PicoDispatches(packet)
      BY <1>2, <3>1 DEF PicoDispatches, PicoGoesTo
    <3>2. CASE PicoRests(TRUE)
      BY <1>1, <3>2
    <3>3. CASE PicoMayRead(packet.cmd) /\ PicoGoesOn(HeaderOf(packet), DataOf(packet))
      <4>1. /\ pico.op # "refused"
            /\ pico.op = "send" => HeaderOf(packet) = pico.hdr
        BY <3>3 DEF PicoMayRead, PicoAt, HeaderOf
      <4>2. CASE pico.op \in {"send", "request", "delete"}
        BY <1>2, <3>3, <4>1, <4>2 DEF PicoGoesOn
      <4>3. CASE pico.op \notin {"send", "request", "delete"}
        BY <1>2, <3>3, <4>1, <4>3 DEF PicoGoesOn
      <4>4. QED BY <4>2, <4>3
    <3>4. CASE /\ PicoGoesTo("refused", 1, pico.id, pico.hdr, pico.data)
               /\ PicoAt("send", {3, 6}) \/ PicoAt("request", {2})
      BY <1>2, <3>4 DEF PicoGoesTo, PicoAt
    <3>5. QED BY <1>0, <2>2, <2>4, <3>1, <3>2, <3>3, <3>4, PicoReceivesTo
  <2>5. QED BY <2>1, <2>2, <2>3, <2>4
<1>5. CASE PicoTimesOut
  BY <1>1, <1>5, PicoStopsTo DEF PicoTimesOut
<1>6. CASE CalcTimesOut
  BY <1>6 DEF CalcTimesOut, picoSide, BySendVar
<1>7. CASE StopListening \/ Listen \/ RecvVarCalled
  BY <1>2, <1>7 DEF StopListening, Listen, RecvVarCalled, PicoBegins, Away
<1>8. QED BY <1>3, <1>4, <1>5, <1>6, <1>7 DEF DbusStep

(* A push stays in order while results and transfers are only added.       *)
LEMMA OrderStays ==
  ASSUME Typed, NEW k \in 1..Len(pushes), InTheirOrder(pushes[k]), results \subseteq results',
         \A id \in Numbers : transfers'[id] = transfers[id], pushes'[k] = pushes[k]
  PROVE  InTheirOrder(pushes[k])'
<1>1. BridgeTyped
  BY DEF Typed
<1>2. pushes[k].ids \in Seq(Numbers)
  BY <1>1, PushFields
<1>3. ASSUME NEW i \in 1..Len(pushes[k].ids)
      PROVE  /\ transfers'[pushes[k].ids[i]].var = IF i <= pushes[k].pages THEN Pages[i] ELSE Count
             /\ i < Len(pushes[k].ids) => \E r \in results' : r.id = pushes[k].ids[i] /\ r.ok
  <2>1. pushes[k].ids[i] \in Numbers
    BY <1>2
  <2>2. /\ transfers[pushes[k].ids[i]].var = IF i <= pushes[k].pages THEN Pages[i] ELSE Count
        /\ i < Len(pushes[k].ids) => \E r \in results : r.id = pushes[k].ids[i] /\ r.ok
    BY DEF InTheirOrder, Sent
  <2>3. QED BY <2>1, <2>2
<1>4. QED BY <1>3 DEF InTheirOrder, Sent

LEMMA PushesRest ==
  ASSUME Typed, PushInvariant, UNCHANGED pushes, results \subseteq results',
         \A id \in Numbers : transfers'[id] = transfers[id],
         \A id : InPush(id) /\ BySendVar(id) => BySendVar(id)'
  PROVE  PushInvariant'
<1>1. \A id : InPush(id)' => InPush(id)
  BY DEF InPush
<1>2. \A k \in 1..Len(pushes) : InTheirOrder(pushes[k])'
  BY OrderStays DEF PushInvariant
<1>3. QED BY <1>1, <1>2 DEF PushInvariant

LEMMA InPushIsNumber ==
  ASSUME Typed
  PROVE  \A id : InPush(id) => id \in Numbers
<1>1. \A k \in 1..Len(pushes) : pushes[k].ids \in Seq(Numbers)
  BY PushFields DEF Typed
<1>2. QED BY <1>1 DEF InPush

LEMMA PushVarKeepsPushes ==
  ASSUME Typed, PushInvariant, pushing, NEW var \in Vars, PushVar(var), LastSent,
         Len(Current.ids) <= Current.pages,
         var = IF Len(Current.ids) < Current.pages THEN Pages[Len(Current.ids) + 1] ELSE Count
  PROVE  PushInvariant'
<1> DEFINE n == Len(pushes)
           m == Len(transfers')
           j == Len(Current.ids)
<1>1. /\ PicoStarts("send", var, "ti83") /\ n \in Nat \ {0} /\ Current = pushes[n]
      /\ Len(pushes') = n
      /\ \A k \in 1..n : k # n => pushes'[k] = pushes[k]
      /\ pushes'[n] = [ids |-> Append(Current.ids, m), pages |-> Current.pages]
  BY PushVarTo
<1>2. n \in 1..n
  <2>1. n \in Nat \ {0}
    BY <1>1
  <2> HIDE DEF n
  <2>2. QED BY <2>1
<1>3. Current.ids \in Seq(Numbers) /\ j \in Nat /\ Current.pages \in Nat
  <2>1. pushes[n].ids \in Seq(Numbers) /\ pushes[n].pages \in 1..Len(Pages)
    BY <1>2, PushFields DEF Typed
  <2>2. Current = pushes[n]
    BY <1>1
  <2>3. QED BY <2>1, <2>2
<1>4. /\ PicoGoesTo("send", 1, m, 0, 0) /\ m \notin Numbers
      /\ (\A id \in Numbers : transfers'[id] = transfers[id]) /\ transfers'[m].var = var
      /\ UNCHANGED results
  <2>1. StoreTyped /\ Transfer("pico", var, "ti83") /\ "pico" \in {"pico", "calc"}
        /\ "ti83" \in Machines \cup {"ti83"}
    BY <1>1 DEF Typed, PicoStarts
  <2>2. /\ m \notin Numbers /\ transfers'[m].var = var
        /\ \A id \in Numbers : transfers'[id] = transfers[id]
    BY <2>1, TransferNumbers
  <2>3. PicoGoesTo("send", 1, m, 0, 0)
    BY <1>1 DEF PicoStarts, PicoBegins, PicoGoesTo
  <2>4. QED BY <2>2, <2>3 DEF PicoGoesTo
<1> DEFINE last == [ids |-> Append(Current.ids, m), pages |-> Current.pages]
<1>5. /\ last.ids = Append(Current.ids, m) /\ last.pages = Current.pages
      /\ Len(last.ids) = j + 1 /\ last.ids[j + 1] = m
      /\ \A i \in 1..j : last.ids[i] = Current.ids[i]
  <2> HIDE DEF m
  <2>1. last.ids = Append(Current.ids, m) /\ last.pages = Current.pages
    OBVIOUS
  <2> HIDE DEF last
  <2>2. QED BY <1>3, <2>1
<1> HIDE DEF m, last
<1>6. ASSUME NEW k \in 1..n, k = n
      PROVE  InTheirOrder(pushes[k])'
  <2>1. ASSUME NEW i \in 1..(j + 1)
        PROVE  /\ transfers'[last.ids[i]].var = IF i <= last.pages THEN Pages[i] ELSE Count
               /\ i < j + 1 => \E r \in results' : r.id = last.ids[i] /\ r.ok
    <3>1. CASE i = j + 1
      <4>1. last.ids[i] = m
        BY <1>5, <3>1
      <4>2. transfers'[last.ids[i]].var = IF i <= last.pages THEN Pages[i] ELSE Count
        <5>1. i <= Current.pages <=> j < Current.pages
          BY <1>3, <3>1
        <5>2. QED BY <1>4, <1>5, <3>1, <4>1, <5>1
      <4>3. QED BY <1>3, <3>1, <4>2
    <3>2. CASE i \in 1..j
      <4>1. last.ids[i] = Current.ids[i] /\ Current.ids[i] \in Numbers
        BY <1>3, <1>5, <3>2
      <4>2. InTheirOrder(Current)
        BY <1>1, <1>2 DEF PushInvariant
      <4>3. /\ transfers[Current.ids[i]].var = IF i <= Current.pages THEN Pages[i] ELSE Count
            /\ i < j => \E r \in results : r.id = Current.ids[i] /\ r.ok
        BY <3>2, <4>2 DEF InTheirOrder, Sent
      <4>4. i = j => \E r \in results : r.id = Current.ids[i] /\ r.ok
        BY <1>3, <3>2 DEF LastSent, Last, Sent
      <4>5. i < j \/ i = j
        BY <1>3, <3>2
      <4>6. QED BY <1>4, <1>5, <4>1, <4>3, <4>4, <4>5
    <3>3. i = j + 1 \/ i \in 1..j
      BY <1>3
    <3>4. QED BY <3>1, <3>2, <3>3
  <2>2. pushes'[k] = last
    BY <1>1, <1>6 DEF last, m
  <2>3. QED BY <1>5, <2>1, <2>2 DEF InTheirOrder, Sent
<1>7. ASSUME NEW k \in 1..n, k # n
      PROVE  InTheirOrder(pushes[k])'
  <2>1. pushes'[k] = pushes[k] /\ InTheirOrder(pushes[k])
    BY <1>1, <1>7 DEF PushInvariant
  <2>2. results \subseteq results' /\ \A id \in Numbers : transfers'[id] = transfers[id]
    BY <1>4
  <2>3. QED BY <2>1, <2>2, OrderStays
<1>8. ASSUME NEW id, InPush(id)'
      PROVE  InPush(id) \/ id = m
  <2>1. PICK k \in 1..n : \E i \in 1..Len(pushes'[k].ids) : id = pushes'[k].ids[i]
    BY <1>1, <1>8 DEF InPush
  <2>2. CASE k # n
    BY <1>1, <2>1, <2>2 DEF InPush
  <2>3. CASE k = n
    <3>1. pushes'[k] = last /\ Current = pushes[k]
      BY <1>1, <2>3 DEF last, m
    <3>2. PICK i \in 1..(j + 1) : id = last.ids[i]
      BY <1>5, <2>1, <3>1
    <3>3. CASE i = j + 1
      BY <1>5, <3>2, <3>3
    <3>4. CASE i \in 1..j
      BY <1>5, <3>1, <3>2, <3>4 DEF InPush
    <3>5. i = j + 1 \/ i \in 1..j
      BY <1>3
    <3>6. QED BY <3>3, <3>4, <3>5
  <2>4. QED BY <2>2, <2>3
<1>9. ASSUME NEW id, InPush(id)'
      PROVE  BySendVar(id)'
  <2>1. CASE id = m
    BY <1>4, <2>1, VarsAndIds DEF BySendVar, PicoGoesTo
  <2>2. CASE InPush(id)
    <3>1. id \in Numbers /\ BySendVar(id)
      BY <2>2, InPushIsNumber DEF PushInvariant
    <3>2. QED BY <1>4, <3>1 DEF BySendVar, PicoGoesTo
  <2>3. QED BY <1>8, <1>9, <2>1, <2>2
<1>10. \A k \in 1..Len(pushes') : InTheirOrder(pushes[k])'
  BY <1>1, <1>6, <1>7
<1>11. QED BY <1>9, <1>10 DEF PushInvariant

LEMMA Next_Pushes == Typed /\ PushInvariant /\ [Next]_vars => PushInvariant'
<1> SUFFICES ASSUME Typed, PushInvariant, [Next]_vars PROVE PushInvariant'
  OBVIOUS
<1>0. BridgeTyped
  BY DEF Typed
<1>1. ASSUME PicoBeginsOne, UNCHANGED pushes PROVE PushInvariant'
  <2> DEFINE m == Len(transfers')
  <2>1. PICK op \in {"send", "request", "delete"} : PicoGoesTo(op, 1, m, 0, 0)
    BY <1>1, PicoBeginsTo
  <2>2. m \notin Numbers /\ \A id \in Numbers : transfers'[id] = transfers[id]
    BY <1>1, PicoBeginsTo
  <2> HIDE DEF m
  <2>3. ASSUME NEW id, InPush(id), BySendVar(id) PROVE BySendVar(id)'
    BY <2>1, <2>2, <2>3, InPushIsNumber DEF BySendVar, PicoGoesTo
  <2>4. QED BY <1>1, <2>1, <2>2, <2>3, PushesRest DEF PicoGoesTo
<1>2. CASE Transferring
  <2>1. UNCHANGED transfers
    BY <1>2, DbusStepTypes DEF Typed, DbusTyped, Transferring
  <2>2. results \subseteq results' /\ (\A id : BySendVar(id) => BySendVar(id)') /\ UNCHANGED pushes
    BY <1>2, DbusStepKeepsSends DEF Transferring
  <2>3. QED BY <2>1, <2>2, PushesRest
<1>3. CASE UNCHANGED <<dbusVars, pushes>>
  <2>1. \A id : BySendVar(id) => BySendVar(id)'
    BY <1>3 DEF BySendVar, dbusVars
  <2>2. QED BY <1>3, <2>1, PushesRest DEF dbusVars
<1>4. CASE BeginPush
  <2>1. PICK p \in Replies : pushes' = Append(pushes, [ids |-> <<>>, pages |-> p])
    BY <1>4 DEF BeginPush
  <2> DEFINE n == Len(pushes)
             new == [ids |-> <<>>, pages |-> p]
  <2>2. Len(new.ids) = 0
    OBVIOUS
  <2>3. pushes \in Seq(PushTypes(Numbers))
    BY <1>0 DEF BridgeTyped, PushTypes
  <2> HIDE DEF new
  <2>4. /\ n \in Nat /\ Len(pushes') = n + 1 /\ pushes'[n + 1] = new
        /\ \A k \in 1..n : pushes'[k] = pushes[k]
    BY <2>1, <2>3 DEF new
  <2>5. UNCHANGED <<transfers, results, pico>>
    BY <1>4 DEF BeginPush, dbusVars
  <2>6. ASSUME NEW id, InPush(id)' PROVE BySendVar(id)'
    <3>1. PICK k \in 1..Len(pushes') : \E i \in 1..Len(pushes'[k].ids) : id = pushes'[k].ids[i]
      BY <2>6 DEF InPush
    <3>2. k \in 1..n
      BY <2>2, <2>4, <3>1
    <3>3. InPush(id)
      BY <2>4, <3>1, <3>2 DEF InPush
    <3>4. QED BY <2>5, <3>3 DEF PushInvariant, BySendVar
  <2>7. ASSUME NEW k \in 1..Len(pushes') PROVE InTheirOrder(pushes[k])'
    <3>1. CASE k = n + 1
      BY <2>2, <2>4, <3>1 DEF InTheirOrder
    <3>2. CASE k \in 1..n
      <4>1. pushes'[k] = pushes[k] /\ InTheirOrder(pushes[k])
        BY <2>4, <3>2 DEF PushInvariant
      <4>2. QED BY <2>5, <3>2, <4>1, OrderStays
    <3>3. QED BY <2>4, <3>1, <3>2
  <2>8. QED BY <2>6, <2>7 DEF PushInvariant
<1>5. ASSUME pushing
      PROVE  /\ Len(Current.ids) \in Nat /\ Current.pages \in 1..Len(Pages)
  <2>1. Current = pushes[Len(pushes)] /\ Len(pushes) \in 1..Len(pushes)
    BY <1>0, <1>5 DEF Current, Last, BridgeTyped
  <2>2. QED BY <1>0, <2>1, PushFields
<1>6. CASE PushOneStr
  <2>1. pushing /\ PushVar(Pages[Len(Current.ids) + 1]) /\ Len(Current.ids) < Current.pages /\ LastSent
    BY <1>6 DEF PushOneStr
  <2>2. Len(Current.ids) \in Nat /\ Current.pages \in 1..Len(Pages)
    BY <1>5, <2>1
  <2>3. Len(Current.ids) + 1 \in 1..Len(Pages) /\ Len(Current.ids) <= Current.pages
    BY <2>1, <2>2, PageBridgeAssumption
  <2>4. Pages[Len(Current.ids) + 1] \in Vars
    BY <2>3, PageBridgeAssumption
  <2>5. QED BY <2>1, <2>3, <2>4, PushVarKeepsPushes
<1>7. CASE PushPagecount
  <2>1. pushing /\ PushVar(Count) /\ Len(Current.ids) = Current.pages /\ LastSent
    BY <1>7 DEF PushPagecount
  <2>2. Len(Current.ids) \in Nat
    BY <1>5, <2>1
  <2>3. Len(Current.ids) <= Current.pages /\ ~(Len(Current.ids) < Current.pages) /\ Count \in Vars
    BY <2>1, <2>2, PageBridgeAssumption
  <2>4. QED BY <2>1, <2>3, PushVarKeepsPushes
<1>8. CASE FromThePrompt
  <2>1. PICK op \in {"send", "request", "delete"}, var \in OtherVars, machine \in Machines :
          PicoStarts(op, var, machine)
    BY <1>8 DEF FromThePrompt
  <2>2. var \in Vars /\ machine \in Machines \cup {"ti83"}
    BY PageBridgeAssumption
  <2>3. PicoBeginsOne
    BY <2>1, <2>2 DEF PicoBeginsOne
  <2>4. QED BY <1>1, <1>8, <2>3 DEF FromThePrompt, bridgeVars
<1>9. CASE Ask \/ FromTheCalculator
  <2>1. CalcBeginsOne /\ UNCHANGED pushes
    <3>1. "take" \in {"take", "respond", "ready"} /\ "ti83" \in Machines \cup {"ti83"}
      OBVIOUS
    <3>2. CASE Ask
      BY <3>1, <3>2, PageBridgeAssumption DEF Ask, CalcBeginsOne, bridgeVars
    <3>3. CASE FromTheCalculator
      <4>1. PICK op \in {"take", "respond", "ready"}, var \in OtherVars, machine \in Machines :
              CalcStarts(op, var, machine)
        BY <3>3 DEF FromTheCalculator
      <4>2. var \in Vars /\ machine \in Machines \cup {"ti83"}
        BY PageBridgeAssumption
      <4>3. QED BY <3>3, <4>1, <4>2 DEF CalcStarts, CalcBeginsOne, FromTheCalculator, bridgeVars
    <3>4. QED BY <1>9, <3>2, <3>3
  <2>2. (\A id \in Numbers : transfers'[id] = transfers[id]) /\ UNCHANGED <<pico, results>>
    BY <2>1, CalcBeginsTo DEF picoSide
  <2>3. \A id : BySendVar(id) => BySendVar(id)'
    BY <2>2 DEF BySendVar
  <2>4. QED BY <2>1, <2>2, <2>3, PushesRest
<1>10. CASE ConnectTransport \/ PushEnds \/ UNCHANGED vars
  BY <1>3, <1>10 DEF ConnectTransport, PushEnds, vars, bridgeVars
<1>11. QED BY <1>2, <1>4, <1>6, <1>7, <1>8, <1>9, <1>10 DEF Next

(* bridge.py: the count is "pushed AFTER all pages so partial state is     *)
(* never observable": a calculator that reads the count of a reply has its *)
(* pages, or those of a transfer that has begun since.                     *)
THEOREM PagesComeBeforeTheCount == Spec => []CountComesLast
<1>1. Init => PushInvariant
  <2> SUFFICES ASSUME Init PROVE PushInvariant
    OBVIOUS
  <2>1. Len(pushes) = 0
    BY DEF Init
  <2>2. QED BY <2>1 DEF PushInvariant, InPush
<1>2. Typed /\ StoreInvariant /\ PushInvariant => CountComesLast
  <2> SUFFICES ASSUME Typed, StoreInvariant, PushInvariant,
                      NEW k \in 1..Len(pushes), Len(pushes[k].ids) = pushes[k].pages + 1,
                      NEW i \in 1..pushes[k].pages
               PROVE  memory[Pages[i]] >= pushes[k].ids[i]
    BY DEF CountComesLast
  <2>1. pushes[k].pages \in Nat
    <3>1. BridgeTyped
      BY DEF Typed
    <3>2. pushes[k].pages \in 1..Len(Pages)
      BY <3>1, PushFields
    <3>3. \A x \in 1..Len(Pages) : x \in Nat
      OBVIOUS
    <3>4. QED BY <3>2, <3>3, Zenon
  <2>2. i \in 1..Len(pushes[k].ids) /\ i < Len(pushes[k].ids) /\ i <= pushes[k].pages
    BY <2>1
  <2> DEFINE id == pushes[k].ids[i]
  <2>3. transfers[id].var = Pages[i] /\ Sent(id)
    BY <2>2 DEF PushInvariant, InTheirOrder
  <2>4. PICK r \in results : r.id = id /\ r.ok
    BY <2>3 DEF Sent
  <2>5. r.hdr = 0
    BY <2>2, <2>4 DEF PushInvariant, InPush, BySendVar
  <2>6. QED BY <2>3, <2>4, <2>5 DEF StoreInvariant, SentMeansStored
<1>3. QED BY <1>1, <1>2, TypedHolds, StoreHolds, Next_Pushes, PTL DEF Spec

-----------------------------------------------------------------------------
(***************************************************************************)
(* What the calculator saw acknowledged.  As long as no handshake fails    *)
(* and no deadline passes while the ends meet, an upload has both ends at  *)
(* the same step, up to the EOT that a TI-82 may leave out.                *)
(***************************************************************************)
Quiet == \/ pico.op \in {"away", "listen"}
         \/ pico.op \in {"recv", "send", "request", "delete"} /\ pico.step = 1

TakeIsRead ==
  calc.op = "take" /\ calc.step \in 2..6 =>
    \/ pico.op \in {"take", "recv"} /\ pico.step = calc.step /\ pico.hdr = calc.id
    \/ calc.step = 2 /\ Quiet

RecvIsFed ==
  pico.op = "recv" /\ pico.step > 1 =>
    calc.op = "take" /\ calc.step = pico.step /\ calc.id = pico.hdr

RequestIsMade == calc.op = "request" => pico.op = "request" /\ pico.step = calc.step

RequestIsServed ==
  pico.op = "request" /\ pico.step > 1 =>
    \/ calc.op = "request" /\ calc.step = pico.step
    \/ pico.step = 2 /\ (calc.op = "idle" \/ Fresh)

InStep == TakeIsRead /\ RecvIsFed /\ RequestIsMade /\ RequestIsServed
Undisturbed == faults = 0 => InStep

HeldBack(id) == pico.op \in {"take", "recv"} /\ pico.step = 7 /\ pico.data = id

ToldIsDelivered ==
  \A id \in told :
    \/ faults > 0 \/ transfers[id].var \notin Wanted
    \/ <<id, id>> \in delivered \/ HeldBack(id)

DeliveredIsHandedOn ==
  /\ relay = "down" => outages > 0
  /\ \A pair \in delivered : pair[1] \in handedOn \/ outages > 0

ToldInvariant == Undisturbed /\ ToldIsDelivered /\ DeliveredIsHandedOn

(* An upload or a request goes on to its end.                              *)
LEMMA CalcAdvancesWhere ==
  ASSUME CalcTyped, calc.op \in {"take", "request"}, CalcAdvances
  PROVE  \/ CalcGoesOn /\ ~CalcAt("take", {7}) /\ ~CalcAt("request", {8})
         \/ CalcRests /\ (CalcAt("take", {7}) \/ CalcAt("request", {8}))
         \/ CalcRests /\ CalcAt("take", {6}) /\ machineOf(calc.id) = "ti82"
<1> DEFINE n == Steps(calc.op, machineOf(calc.id))
<1>1. n = IF calc.op = "take" THEN 7 ELSE 8
  BY UploadScript, RequestScript DEF Steps
<1>2. calc.step \in 1..9
  BY CalcFields
<1>3. \/ calc.step < n /\ CalcIs(calc.op, calc.step + 1, calc.id)
      \/ calc.step = n /\ CalcIs("idle", 1, 0)
      \/ CalcAt("take", {6}) /\ machineOf(calc.id) = "ti82" /\ CalcIs("idle", 1, 0)
  BY DEF CalcAdvances, CalcAt
<1> HIDE DEF n
<1>4. CASE calc.step < n /\ CalcIs(calc.op, calc.step + 1, calc.id)
  <2>1. CalcGoesOn
    BY <1>4, CalcIsThere DEF CalcGoesOn
  <2>2. QED BY <1>1, <1>2, <1>4, <2>1 DEF CalcAt
<1>5. CASE calc.step = n /\ CalcIs("idle", 1, 0)
  <2>1. CalcRests
    BY <1>5, CalcIsThere DEF CalcRests
  <2>2. QED BY <1>1, <1>5, <2>1 DEF CalcAt
<1>6. CASE CalcAt("take", {6}) /\ machineOf(calc.id) = "ti82" /\ CalcIs("idle", 1, 0)
  BY <1>6, CalcIsThere DEF CalcRests
<1>7. QED BY <1>3, <1>4, <1>5, <1>6

(* recv_var expects an EOT unless it is a TI-82 that uploads.              *)
LEMMA RecvAwaitsTheEnd ==
  ASSUME PicoAt("recv", {6}), PicoSent, PicoGoesOn(pico.hdr, pico.data)
  PROVE  machineOf(pico.hdr) # "ti82"
<1>1. PicoAdvances(pico.hdr, pico.data) /\ pico.op = "recv" /\ pico.step = 6
  BY DEF PicoSent, PicoAt
<1>2. ~Returns(pico.op # "refused")
  <2>1. ASSUME Returns(pico.op # "refused") PROVE FALSE
    <3>1. PicoRests(pico.op # "refused")
      BY <2>1, ReturnsRests
    <3>2. QED BY <3>1, <1>1 DEF PicoRests, PicoGoesOn
  <2>2. QED BY <2>1
<1>3. 6 < Steps("recv", machineOf(pico.hdr))
  BY <1>1, <1>2 DEF PicoAdvances
<1>4. QED BY <1>3 DEF Steps

(* The end of the exchange at which both are: one sends, the other reads.  *)
LEMMA InStepTheyMeet ==
  ASSUME PicoTyped, CalcTyped, calc.step = pico.step,
         \/ pico.op = "recv" /\ pico.step > 1 /\ calc.op = "take"
         \/ pico.op = "take" /\ calc.op = "take"
         \/ pico.op = "request" /\ calc.op = "request"
  PROVE  Meeting /\ calc.op # "idle"
<1> DEFINE by == Script(pico.op)[pico.step].by
<1>1. Script(calc.op) = Script(pico.op) /\ PicoActive /\ calc.op # "idle"
  BY DEF Script, PicoActive
<1>2. Script(calc.op)[calc.step].by = by
  BY <1>1
<1>3. by \in {"pico", "calc"}
  <2>1. CASE pico.op \in {"recv", "take"}
    <3>1. pico.step \in {1, 2, 3, 4, 5, 6, 7}
      <4> DEFINE n == Len(Script(pico.op))
      <4>1. pico.step \in 1..9 /\ pico.step <= n
        BY <1>1, PicoFields DEF PicoTyped
      <4>2. n = 7
        BY <2>1, Lengths
      <4> HIDE DEF n
      <4>3. QED BY <4>1, <4>2
    <3>2. QED BY <2>1, <3>1, UploadScript DEF At
  <2>2. CASE pico.op = "request"
    <3>1. pico.step \in {1, 2, 3, 4, 5, 6, 7, 8}
      <4> DEFINE n == Len(Script(pico.op))
      <4>1. pico.step \in 1..9 /\ pico.step <= n
        BY <1>1, PicoFields DEF PicoTyped
      <4>2. n = 8
        BY <2>2, Lengths
      <4> HIDE DEF n
      <4>3. QED BY <4>1, <4>2
    <3>2. QED BY <2>2, <3>1, RequestScript DEF At
  <2>3. QED BY <2>1, <2>2
<1> HIDE DEF by
<1>4. /\ PicoTurn <=> by = "pico"
      /\ CalcTurn <=> by = "calc"
  BY <1>1, <1>2 DEF PicoTurn, CalcTurn, by
<1>5. QED BY <1>1, <1>3, <1>4 DEF Meeting, PicoReads, CalcReads

LEMMA PicoSendsInStep ==
  ASSUME PicoTyped, CalcTyped, PicoTyped', CalcTyped', InStep, UNCHANGED transfers,
         PicoTurn, CalcReads, NEW packet, PicoCarries(packet), PicoSent, CalcReceives(packet)
  PROVE  InStep'
<1>1. /\ PicoMaySend(packet.cmd) /\ pico.step \in 1..9 /\ calc.step \in 1..9
      /\ TakeIsRead /\ RecvIsFed /\ RequestIsMade /\ RequestIsServed
  BY PicoFields, CalcFields DEF PicoCarries, InStep
<1>2. \/ PicoGoesOn(pico.hdr, pico.data)
      \/ PicoRests(TRUE) /\ (PicoAt("recv", {6}) \/ PicoAt("request", {8}) \/ PicoAt("take", {7})
                              \/ pico.op \notin {"recv", "request", "take"})
      \/ PicoRests(FALSE) /\ pico.op = "refused"
  BY PicoSentTo DEF PicoAt
<1>3. PicoGoesOn(pico.hdr, pico.data)
        \/ (pico'.op \in {"away", "listen"} /\ pico'.step = 1)
  BY <1>2 DEF PicoRests
<1>4. ~PicoAt("request", {8}) \/ ~PicoGoesOn(pico.hdr, pico.data)
  <2> SUFFICES ASSUME pico'.op = "request", pico'.step = 9 PROVE FALSE
    BY DEF PicoAt, PicoGoesOn
  <2> DEFINE n == Len(Script("request"))
  <2>1. pico'.step <= n
    BY DEF PicoTyped, PicoActive
  <2>2. n = 8
    BY RequestScript
  <2> HIDE DEF n
  <2>3. QED BY <2>1, <2>2
<1>5. CASE calc.op = "idle"
  <2>1. pico.op # "recv"
    BY <1>1, <1>5 DEF RecvIsFed, PicoMaySend, PicoAt
  <2>2. \/ calc'.op \notin {"take", "request"}
        \/ PicoAt("request", {1}) /\ calc'.op = "request" /\ calc'.step = 2
    BY <1>1, <1>5, CalcReceivesTo DEF CalcGoesTo, CalcRests, PicoMaySend
  <2>3. PicoAt("request", {1}) => calc'.op = "request" /\ calc'.step = 2
    BY <1>1, <1>5, CalcReceivesTo DEF CalcGoesTo, CalcRests, PicoMaySend, PicoAt
  <2>4. TakeIsRead' /\ RecvIsFed'
    BY <1>3, <2>1, <2>2 DEF TakeIsRead, RecvIsFed, PicoGoesOn
  <2>5. RequestIsMade'
    <3>1. CASE calc'.op \notin {"take", "request"}
      BY <3>1 DEF RequestIsMade
    <3>2. CASE PicoAt("request", {1}) /\ calc'.op = "request" /\ calc'.step = 2
      <4>1. /\ pico.op \in {"recv", "request", "take"} /\ pico.op # "refused" /\ pico.step = 1
            /\ ~PicoAt("request", {8}) /\ ~PicoAt("take", {7}) /\ ~PicoAt("recv", {6})
        BY <3>2 DEF PicoAt
      <4>2. PicoGoesOn(pico.hdr, pico.data)
        BY <1>2, <4>1
      <4>3. QED BY <3>2, <4>1, <4>2 DEF RequestIsMade, PicoGoesOn, PicoAt
    <3>3. QED BY <2>2, <3>1, <3>2
  <2>6. RequestIsServed'
    <3>1. SUFFICES ASSUME pico'.op = "request", pico'.step > 1
                   PROVE  calc'.op = "request" /\ calc'.step = pico'.step
      BY DEF RequestIsServed
    <3>2. PicoGoesOn(pico.hdr, pico.data) /\ pico.op = "request" /\ pico'.step = pico.step + 1
      BY <1>3, <3>1 DEF PicoGoesOn
    <3>3. pico.step = 1
      BY <1>1, <1>5, <3>2 DEF RequestIsServed, PicoMaySend, PicoAt
    <3>4. QED BY <2>3, <3>2, <3>3 DEF PicoAt
  <2>7. QED BY <2>4, <2>5, <2>6 DEF InStep
<1>6. CASE calc.op # "idle" /\ ~CalcMayRead(packet.cmd)
  <2>1. CalcRests
    BY <1>6, CalcReceivesTo
  <2>2. TakeIsRead' /\ RequestIsMade'
    BY <2>1 DEF CalcRests, CalcGoesTo, TakeIsRead, RequestIsMade
  <2>3. pico.op # "recv"
    BY <1>1, <1>6 DEF RecvIsFed, PicoMaySend, PicoAt, CalcMayRead, CalcAt
  <2>4. RecvIsFed'
    BY <1>3, <2>3 DEF RecvIsFed, PicoGoesOn
  <2>5. pico.op = "request" => pico.step = 1
    BY <1>1, <1>6 DEF RequestIsServed, PicoMaySend, PicoAt, CalcMayRead, CalcAt
  <2>6. RequestIsServed'
    BY <1>3, <2>1, <2>5 DEF RequestIsServed, PicoGoesOn, CalcRests, CalcGoesTo
  <2>7. QED BY <2>2, <2>4, <2>6 DEF InStep
<1>7. CASE calc.op \notin {"idle", "take", "request"} /\ CalcMayRead(packet.cmd)
  <2>1. calc'.op \notin {"take", "request"}
    BY <1>7, CalcReceivesTo DEF CalcRests, CalcGoesOn, CalcGoesTo
  <2>2. pico.op \notin {"recv", "request"}
    BY <1>1, <1>7 DEF RecvIsFed, RequestIsServed, PicoMaySend, PicoAt, CalcMayRead, CalcAt, Fresh
  <2>3. QED BY <1>3, <2>1, <2>2 DEF InStep, TakeIsRead, RecvIsFed, RequestIsMade,
                                     RequestIsServed, PicoGoesOn
<1>8. ASSUME calc.op \in {"take", "request"}, CalcMayRead(packet.cmd)
      PROVE  CalcAdvances
  BY <1>8, CalcReadsThese DEF CalcReceives
<1>9. CASE calc.op = "take" /\ CalcMayRead(packet.cmd)
  <2>1. /\ pico.op \in {"take", "recv"} /\ pico.step = calc.step /\ pico.hdr = calc.id
        /\ calc.step \in {2, 3, 6}
    BY <1>1, <1>9 DEF TakeIsRead, Quiet, PicoMaySend, PicoAt, CalcMayRead, CalcAt
  <2>2. CalcGoesOn \/ (CalcRests /\ CalcAt("take", {6}) /\ machineOf(calc.id) = "ti82")
    BY <1>8, <1>9, <2>1, CalcAdvancesWhere DEF CalcAt
  <2>3. PicoGoesOn(pico.hdr, pico.data) \/ calc.step = 6
    <3>1. /\ pico.op \in {"recv", "request", "take"} /\ pico.op # "refused"
          /\ ~PicoAt("request", {8}) /\ ~PicoAt("take", {7})
          /\ PicoAt("recv", {6}) => calc.step = 6
      BY <2>1 DEF PicoAt
    <3>2. QED BY <1>2, <3>1
  <2>4. TakeIsRead'
    BY <2>1, <2>2, <2>3 DEF TakeIsRead, PicoGoesOn, CalcGoesOn, CalcRests, CalcGoesTo, CalcAt
  <2>5. RecvIsFed'
    <3> SUFFICES ASSUME pico'.op = "recv"
                 PROVE  calc'.op = "take" /\ calc'.step = pico'.step /\ calc'.id = pico'.hdr
      BY DEF RecvIsFed
    <3>1. PicoGoesOn(pico.hdr, pico.data) /\ pico.op = "recv" /\ pico'.step = pico.step + 1
          /\ pico'.hdr = pico.hdr
      BY <1>3 DEF PicoGoesOn
    <3>2. CalcAt("take", {6}) => PicoAt("recv", {6})
      BY <2>1, <3>1 DEF CalcAt, PicoAt
    <3>3. CalcGoesOn
      BY <2>1, <2>2, <3>1, <3>2, RecvAwaitsTheEnd
    <3>4. QED BY <1>9, <2>1, <3>1, <3>3 DEF CalcGoesOn, CalcGoesTo
  <2>6. RequestIsMade' /\ RequestIsServed'
    BY <1>3, <1>9, <2>1, <2>2 DEF RequestIsMade, RequestIsServed, PicoGoesOn,
                                   CalcGoesOn, CalcRests, CalcGoesTo
  <2>7. QED BY <2>4, <2>5, <2>6 DEF InStep
<1>10. CASE calc.op = "request" /\ CalcMayRead(packet.cmd)
  <2>1. pico.op = "request" /\ pico.step = calc.step /\ calc.step \in {4, 5, 8}
    BY <1>1, <1>10 DEF RequestIsMade, CalcMayRead, CalcAt
  <2>2. IF calc.step = 8 THEN CalcRests ELSE CalcGoesOn
    BY <1>8, <1>10, <2>1, CalcAdvancesWhere DEF CalcAt
  <2>3. IF calc.step = 8 THEN pico'.op \in {"away", "listen"}
                         ELSE PicoGoesOn(pico.hdr, pico.data)
    BY <1>2, <1>3, <1>4, <2>1 DEF PicoAt
  <2>4. QED BY <2>1, <2>2, <2>3 DEF InStep, TakeIsRead, RecvIsFed, RequestIsMade,
                RequestIsServed, PicoGoesOn, CalcGoesOn, CalcRests, CalcGoesTo
<1>11. QED BY <1>5, <1>6, <1>7, <1>9, <1>10

LEMMA CalcSendsInStep ==
  ASSUME PicoTyped, CalcTyped, InStep, CalcTurn, calc.op # "idle", PicoReads,
         NEW packet, Carries(packet), Comes(packet), CalcSent(packet), PicoReceives(packet)
  PROVE  InStep'
<1>1. /\ CalcMaySend(packet.cmd) /\ pico.step \in 1..9 /\ calc.step \in 1..9
      /\ packet.cmd \in {"RTS", "VAR"} => packet.id = calc.id
      /\ TakeIsRead /\ RecvIsFed /\ RequestIsMade /\ RequestIsServed
  BY PicoFields, CalcFields DEF Carries, InStep, HeaderOnly
<1>2. packet.cmd # "SKIP" => CalcAdvances
  BY DEF CalcSent
<1>3. \/ pico'.op \in {"away", "listen"} /\ pico'.step = 1
      \/ /\ packet.cmd \in {"RTS", "VAR"} /\ pico.op = "listen"
         /\ pico'.op = "take" /\ pico'.step = 2 /\ pico'.hdr = calc.id
      \/ pico'.op \in {"respond", "miss", "ack"} /\ packet.cmd \notin {"RTS", "VAR"}
      \/ /\ PicoMayRead(packet.cmd) /\ ~PicoAt("recv", {7}) /\ ~PicoAt("take", {7})
         /\ PicoGoesOn(HeaderOf(packet), DataOf(packet))
      \/ pico'.op = "refused" /\ packet.cmd = "SKIP"
  BY <1>1, PicoReceivesTo, PicoStopsTo DEF PicoDispatches, PicoGoesTo, PicoRests
<1>4. CASE packet.cmd = "SKIP"
  <2>1. calc'.op \in {"idle", "refused"}
    BY <1>4, CalcSentTo DEF CalcRests, CalcGoesTo
  <2>2. pico'.op \notin {"recv", "request"}
    BY <1>3, <1>4 DEF PicoMayRead
  <2>3. QED BY <2>1, <2>2 DEF InStep, TakeIsRead, RecvIsFed, RequestIsMade, RequestIsServed
<1>5. CASE CalcAt("take", {1})
  <2>1. CalcGoesOn /\ packet.cmd \in {"RTS", "VAR"}
    <3>1. calc.op = "take" /\ calc.step = 1 /\ packet.cmd \in {"RTS", "VAR"}
      BY <1>1, <1>5 DEF CalcMaySend, CalcAt
    <3>2. CalcAdvances /\ calc.op \in {"take", "request"}
      BY <1>2, <3>1
    <3>3. ~CalcAt("take", {7}) /\ ~CalcAt("request", {8}) /\ ~CalcAt("take", {6})
      BY <3>1 DEF CalcAt
    <3>4. QED BY <3>1, <3>2, <3>3, CalcAdvancesWhere
  <2>2. calc'.op = "take" /\ calc'.step = 2 /\ calc'.id = calc.id
    BY <1>5, <2>1 DEF CalcGoesOn, CalcGoesTo, CalcAt
  <2>3. \/ pico'.op \in {"away", "listen"} /\ pico'.step = 1
        \/ pico'.op = "take" /\ pico'.step = 2 /\ pico'.hdr = calc.id
        \/ pico'.op = "recv" /\ pico'.step = 2 /\ pico'.hdr = calc.id
    <3>1. CASE /\ PicoMayRead(packet.cmd)
               /\ PicoGoesOn(HeaderOf(packet), DataOf(packet))
      <4>1. PicoAt("recv", {1}) \/ PicoAt("request", {3})
        BY <2>1, <3>1 DEF PicoMayRead
      <4>2. ~PicoAt("request", {3})
        BY <1>1, <1>5 DEF RequestIsServed, PicoAt, CalcAt
      <4>3. pico.op = "recv" /\ pico.step = 1 /\ HeaderOf(packet) = calc.id
        BY <1>1, <2>1, <4>1, <4>2 DEF PicoAt, HeaderOf
      <4>4. QED BY <3>1, <4>3 DEF PicoGoesOn
    <3>2. QED BY <1>3, <2>1, <3>1
  <2>4. QED BY <2>2, <2>3 DEF InStep, TakeIsRead, RecvIsFed, RequestIsMade, RequestIsServed, Quiet
<1>6. CASE CalcAt("take", {4, 5})
  <2>1. /\ calc.op = "take" /\ calc.step \in {4, 5}
        /\ packet.cmd = (IF calc.step = 4 THEN "ACK" ELSE "DATA")
    BY <1>1, <1>6 DEF CalcMaySend, CalcAt
  <2>2. CalcGoesOn
    <3>1. CalcAdvances /\ calc.op \in {"take", "request"}
      BY <1>2, <2>1
    <3>2. ~CalcAt("take", {7}) /\ ~CalcAt("request", {8}) /\ ~CalcAt("take", {6})
      BY <2>1 DEF CalcAt
    <3>3. QED BY <3>1, <3>2, CalcAdvancesWhere
  <2>3. pico.op \in {"take", "recv"} /\ pico.step = calc.step /\ pico.hdr = calc.id
    BY <1>1, <2>1 DEF TakeIsRead
  <2>4. /\ PicoMayRead(packet.cmd) /\ pico.op # "listen" /\ packet.cmd # "SKIP"
        /\ ~PicoAt("recv", {7}) /\ ~PicoAt("take", {7}) /\ ~PicoAt("send", {6})
        /\ ~PicoAt("delete", {3})
    BY <2>1, <2>3 DEF PicoMayRead, PicoAt
  <2>5. PicoGoesOn(HeaderOf(packet), DataOf(packet))
    BY <2>4, PicoReceivesTo DEF PicoDispatches
  <2>6. HeaderOf(packet) = calc.id
    BY <2>1, <2>3 DEF HeaderOf
  <2>7. QED BY <2>1, <2>2, <2>3, <2>5, <2>6 DEF InStep, TakeIsRead, RecvIsFed, RequestIsMade,
                RequestIsServed, PicoGoesOn, CalcGoesOn, CalcGoesTo
<1>7. CASE CalcAt("take", {7})
  <2>1. calc.op = "take" /\ calc.step = 7 /\ packet.cmd = "EOT"
    BY <1>1, <1>7 DEF CalcMaySend, CalcAt
  <2>2. CalcRests
    <3>1. CalcAdvances /\ calc.op \in {"take", "request"}
      BY <1>2, <2>1
    <3>2. QED BY <1>7, <3>1, CalcAdvancesWhere
  <2>3. ~PicoMayRead(packet.cmd) \/ PicoAt("recv", {7}) \/ PicoAt("take", {7})
    BY <2>1 DEF PicoMayRead
  <2>4. pico'.op \notin {"recv", "request"}
    BY <1>3, <2>1, <2>3
  <2>5. QED BY <2>2, <2>4 DEF InStep, TakeIsRead, RecvIsFed, RequestIsMade, RequestIsServed,
                CalcRests, CalcGoesTo
<1>8. CASE calc.op = "request" /\ packet.cmd # "SKIP"
  <2>1. /\ calc.op = "request" /\ calc.step \in {2, 3, 6, 7}
        /\ \/ calc.step \in {2, 6} /\ packet.cmd = "ACK"
           \/ calc.step = 3 /\ packet.cmd = "VAR"
           \/ calc.step = 7 /\ packet.cmd = "DATA"
    BY <1>1, <1>8 DEF CalcMaySend, CalcAt
  <2>2. CalcGoesOn
    <3>1. CalcAdvances /\ calc.op \in {"take", "request"}
      BY <1>2, <1>8
    <3>2. ~CalcAt("take", {7}) /\ ~CalcAt("request", {8}) /\ ~CalcAt("take", {6})
      BY <2>1 DEF CalcAt
    <3>3. QED BY <3>1, <3>2, CalcAdvancesWhere
  <2>3. pico.op = "request" /\ pico.step = calc.step
    BY <1>1, <1>8 DEF RequestIsMade
  <2>4. /\ PicoMayRead(packet.cmd) /\ pico.op # "listen"
        /\ ~PicoAt("recv", {7}) /\ ~PicoAt("take", {7}) /\ ~PicoAt("send", {6})
        /\ ~PicoAt("delete", {3})
    BY <2>1, <2>3 DEF PicoMayRead, PicoAt
  <2>5. PicoGoesOn(HeaderOf(packet), DataOf(packet))
    BY <1>8, <2>4, PicoReceivesTo DEF PicoDispatches
  <2>6. QED BY <2>1, <2>2, <2>3, <2>5 DEF InStep, TakeIsRead, RecvIsFed, RequestIsMade,
                RequestIsServed, PicoGoesOn, CalcGoesOn, CalcGoesTo
<1>9. CASE calc.op \notin {"take", "request"} /\ packet.cmd # "SKIP"
  <2>1. calc'.op \notin {"take", "request"}
    BY <1>9, CalcSentTo DEF CalcRests, CalcGoesOn, CalcGoesTo
  <2>2. ~(PicoMayRead(packet.cmd) /\ pico.op \in {"recv", "request"}
            /\ ~PicoAt("recv", {7}))
    BY <1>1, <1>9 DEF RecvIsFed, RequestIsServed, PicoMayRead, PicoAt, CalcMaySend, CalcAt, Fresh
  <2>3. pico'.op \notin {"recv", "request"}
    BY <1>3, <2>2 DEF PicoGoesOn
  <2>4. QED BY <2>1, <2>3 DEF InStep, TakeIsRead, RecvIsFed, RequestIsMade, RequestIsServed
<1>10. calc.op = "take" => CalcAt("take", {1}) \/ CalcAt("take", {4, 5}) \/ CalcAt("take", {7})
  BY <1>1 DEF CalcMaySend, CalcAt
<1>11. QED BY <1>4, <1>5, <1>6, <1>7, <1>8, <1>9, <1>10

(* Nothing passes: one end gives up, or begins.                            *)
LEMMA OthersInStep ==
  ASSUME PicoTyped, CalcTyped, InStep,
         \/ /\ UNCHANGED calc /\ pico'.op \in {"away", "listen"}
            /\ Meeting => calc.op = "idle"
         \/ UNCHANGED pico /\ CalcRests /\ ~Meeting
         \/ UNCHANGED calc /\ pico.op \in {"away", "listen"} /\ pico'.step = 1
              /\ pico'.op \in {"recv", "send", "request", "delete"}
         \/ UNCHANGED pico /\ calc.op = "idle" /\ calc'.step = 1
              /\ calc'.op \in {"take", "respond", "ready"}
  PROVE  InStep'
<1>1. /\ TakeIsRead /\ RecvIsFed /\ RequestIsMade /\ RequestIsServed
      /\ pico.step \in 1..9 /\ calc.step \in 1..9
  BY PicoFields, CalcFields DEF InStep
<1>2. CASE /\ UNCHANGED calc /\ pico'.op \in {"away", "listen"}
           /\ Meeting => calc.op = "idle"
  <2>1. calc.op # "request"
    BY <1>1, <1>2, InStepTheyMeet DEF RequestIsMade
  <2>2. calc.op = "take" /\ calc.step \in 2..6 => calc.step = 2
    <3>1. ~(pico.op = "take" /\ calc.op = "take" /\ calc.step = pico.step)
      BY <1>2, InStepTheyMeet
    <3>2. ~(pico.op = "recv" /\ pico.step > 1 /\ calc.op = "take" /\ calc.step = pico.step)
      BY <1>2, InStepTheyMeet
    <3>3. QED BY <1>1, <3>1, <3>2 DEF TakeIsRead
  <2>3. QED BY <1>2, <2>1, <2>2 DEF InStep, TakeIsRead, RecvIsFed, RequestIsMade,
                RequestIsServed, Quiet
<1>3. CASE UNCHANGED pico /\ CalcRests /\ ~Meeting
  <2>1. ~(pico.op = "recv" /\ pico.step > 1)
    BY <1>1, <1>3, InStepTheyMeet DEF RecvIsFed
  <2>2. pico.op = "request" => pico.step = 1 \/ pico.step = 2
    <3>1. ~(pico.op = "request" /\ calc.op = "request" /\ calc.step = pico.step)
      BY <1>3, InStepTheyMeet
    <3>2. QED BY <1>1, <3>1 DEF RequestIsServed
  <2>3. QED BY <1>3, <2>1, <2>2 DEF InStep, TakeIsRead, RecvIsFed, RequestIsMade,
                RequestIsServed, CalcRests, CalcGoesTo
<1>4. CASE UNCHANGED calc /\ pico.op \in {"away", "listen"} /\ pico'.step = 1
             /\ pico'.op \in {"recv", "send", "request", "delete"}
  <2>1. calc.op # "request" /\ (calc.op = "take" /\ calc.step \in 2..6 => calc.step = 2)
    BY <1>1, <1>4 DEF RequestIsMade, TakeIsRead
  <2>2. QED BY <1>4, <2>1 DEF InStep, TakeIsRead, RecvIsFed, RequestIsMade, RequestIsServed, Quiet
<1>5. CASE UNCHANGED pico /\ calc.op = "idle" /\ calc'.step = 1
             /\ calc'.op \in {"take", "respond", "ready"}
  <2>1. ~(pico.op = "recv" /\ pico.step > 1) /\ (pico.op = "request" /\ pico.step > 1 => pico.step = 2)
    BY <1>1, <1>5 DEF RecvIsFed, RequestIsServed
  <2>2. QED BY <1>5, <2>1 DEF InStep, TakeIsRead, RecvIsFed, RequestIsMade, RequestIsServed, Fresh
<1>6. QED BY <1>2, <1>3, <1>4, <1>5

LEMMA PicoTimesOutIs ==
  ASSUME StoreTyped, PicoTimesOut, faults' = 0
  PROVE  /\ faults = 0 /\ PicoActive /\ PicoStops /\ UNCHANGED <<calc, told, transfers>>
         /\ Meeting => calc.op = "idle"
BY FaultCounts DEF PicoTimesOut, NoFault, calcSide

LEMMA CalcTimesOutIs ==
  ASSUME StoreTyped, CalcTimesOut, faults' = 0
  PROVE  /\ faults = 0 /\ UNCHANGED <<pico, delivered, told, transfers>> /\ CalcRests /\ ~Meeting
BY FaultCounts, CalcStopsTo DEF CalcTimesOut, NoFault, picoSide

(* Without a fault nothing breaks off, and both ends see a packet pass.    *)
LEMMA NothingIsMixed ==
  ASSUME DbusTyped, DbusStep, faults' = 0
  PROVE  faults = 0 /\ partial = {} /\ mixed = {}
<1>1. faults = 0
  BY DbusStepCuts
<1>2. QED BY <1>1 DEF DbusTyped, CutTyped

LEMMA PacketComes ==
  ASSUME DbusTyped, CalcToPico, partial = {}, faults' = 0
  PROVE  \E packet : /\ CalcTurn /\ calc.op # "idle" /\ PicoReads
                     /\ Carries(packet) /\ Comes(packet)
                     /\ CalcSent(packet) /\ PicoReceives(packet)
<1>1. PICK packet : \/ CalcSendsStep(packet) \/ CalcCutsStep(packet)
                    \/ \E cut : CalcFillsStep(packet, cut)
  BY CalcToPicoIs DEF DbusTyped
<1>2. CalcSendsStep(packet)
  BY <1>1 DEF CalcCutsStep, CalcFillsStep
<1>3. QED BY <1>2, CarriesComes DEF CalcSendsStep, CalcMeets

LEMMA DbusStepUndisturbed ==
  ASSUME DbusTyped, Undisturbed, DbusStep
  PROVE  Undisturbed'
<1>1. PicoTyped /\ CalcTyped /\ StoreTyped /\ PicoTyped' /\ CalcTyped' /\ UNCHANGED transfers
  BY DbusStepTypes DEF DbusTyped
<1> SUFFICES ASSUME faults' = 0 PROVE InStep'
  BY DEF Undisturbed
<1>2. CASE PicoToCalc
  <2>1. PICK packet : PicoSendsStep(packet)
    BY <1>1, <1>2, PicoToCalcIs
  <2>2. PicoTurn /\ CalcReads /\ PicoCarries(packet)
          /\ PicoSent /\ CalcReceives(packet) /\ InStep
    BY <2>1 DEF PicoSendsStep, Undisturbed
  <2>3. QED BY <1>1, <2>2, PicoSendsInStep
<1>3. CASE CalcToPico
  <2>1. InStep /\ partial = {}
    BY NothingIsMixed DEF Undisturbed
  <2>2. QED BY <1>1, <1>3, <2>1, PacketComes, CalcSendsInStep
<1>4. CASE PicoTimesOut
  <2>1. InStep /\ PicoStops /\ UNCHANGED calc /\ (Meeting => calc.op = "idle")
    BY <1>1, <1>4, PicoTimesOutIs DEF Undisturbed
  <2>2. pico'.op \in {"away", "listen"}
    BY <2>1, PicoStopsTo DEF PicoRests
  <2>3. QED BY <1>1, <2>1, <2>2, OthersInStep
<1>5. CASE CalcTimesOut
  <2>1. InStep /\ UNCHANGED pico /\ CalcRests /\ ~Meeting
    BY <1>1, <1>5, CalcTimesOutIs DEF Undisturbed
  <2>2. QED BY <1>1, <2>1, OthersInStep
<1>6. CASE StopListening \/ Listen \/ RecvVarCalled
  <2>1. /\ UNCHANGED <<calc, faults>> /\ pico.op \in {"away", "listen"}
        /\ pico'.step = 1 /\ pico'.op \in {"away", "listen", "recv"}
    BY <1>6 DEF StopListening, Listen, RecvVarCalled, PicoBegins, Away, calcSide
  <2>2. InStep
    BY <2>1 DEF Undisturbed
  <2>3. CASE pico'.op = "recv"
    BY <1>1, <2>1, <2>2, <2>3, OthersInStep
  <2>4. CASE pico'.op \in {"away", "listen"}
    <3>1. TakeIsRead /\ RequestIsMade
      BY <2>2 DEF InStep
    <3>2. calc.op # "request" /\ (calc.op = "take" /\ calc.step \in 2..6 => calc.step = 2)
      BY <2>1, <3>1 DEF RequestIsMade, TakeIsRead
    <3>3. QED BY <2>1, <2>4, <3>2 DEF InStep, TakeIsRead, RecvIsFed, RequestIsMade,
                  RequestIsServed, Quiet
  <2>5. QED BY <2>1, <2>3, <2>4
<1>7. QED BY <1>2, <1>3, <1>4, <1>5, <1>6 DEF DbusStep

(* What is held back is handed on, whatever comes instead of the EOT.      *)
LEMMA HeldIsDelivered ==
  ASSUME DbusTyped, PairInvariant, Undisturbed, DbusStep, faults' = 0,
         NEW id \in told, transfers[id].var \in Wanted, <<id, id>> \in delivered \/ HeldBack(id)
  PROVE  <<id, id>> \in delivered' \/ HeldBack(id)'
<1>1. PicoTyped /\ CalcTyped /\ StoreTyped /\ faults = 0 /\ partial = {} /\ mixed = {}
  BY NothingIsMixed DEF DbusTyped
<1>2. HeldBack(id) => pico.hdr = id /\ pico.data = id /\ (PicoAt("recv", {7}) \/ PicoAt("take", {7}))
  BY <1>1 DEF HeldBack, PairInvariant, DataIsOfHeader, OfHeader, Uploads, Phase, PicoAt
<1>3. ASSUME Deliver(pico.hdr, pico.data)
      PROVE  delivered \subseteq delivered' /\ (HeldBack(id) => <<id, id>> \in delivered')
  BY <1>1, <1>2, <1>3 DEF Deliver, LetThrough, KeptOut
<1>4. ASSUME PicoStops, HeldBack(id) => PicoAt("take", {7})
      PROVE  delivered \subseteq delivered' /\ (HeldBack(id) => <<id, id>> \in delivered')
  <2>1. CASE PicoAt("take", {7})
    <3>1. Deliver(pico.hdr, pico.data)
      BY <1>4, <2>1 DEF PicoStops, PicoAt
    <3>2. QED BY <1>3, <3>1
  <2>2. CASE ~PicoAt("take", {7})
    <3>1. delivered' = delivered
      BY <1>4, <2>2, PicoStopsTo
    <3>2. QED BY <1>4, <2>2, <3>1
  <2>3. QED BY <2>1, <2>2
<1>5. CASE PicoToCalc
  <2>1. PICK packet : PicoSendsStep(packet)
    BY <1>1, <1>5, PicoToCalcIs
  <2>2. PicoTurn /\ PicoSent /\ PicoMaySend(packet.cmd)
    BY <2>1 DEF PicoSendsStep, PicoCarries
  <2>3. ~HeldBack(id)
    BY <2>2 DEF HeldBack, PicoMaySend, PicoAt
  <2>4. delivered \subseteq delivered'
    BY <1>1, <1>3, <2>2, PicoSentTo DEF PicoGoesOn
  <2>5. QED BY <2>3, <2>4
<1>6. CASE CalcToPico
  <2>1. PICK packet : PicoReads /\ PicoReceives(packet) /\ Comes(packet)
    BY <1>1, <1>6, PacketComes
  <2>2. PicoReads /\ PicoReceives(packet) /\ Comes(packet)
    BY <2>1
  <2>3. CASE PicoAt("recv", {7}) \/ PicoAt("take", {7})
    <3>1. Deliver(pico.hdr, pico.data)
      BY <2>2, <2>3 DEF PicoReceives, PicoAt
    <3>2. QED BY <1>3, <3>1
  <2>4. CASE ~PicoAt("recv", {7}) /\ ~PicoAt("take", {7})
    <3>1. delivered' = delivered
      BY <1>1, <2>2, <2>4, PicoReceivesTo, PicoStopsTo DEF PicoGoesOn, PicoGoesTo, PicoDispatches
    <3>2. QED BY <1>2, <2>4, <3>1
  <2>5. QED BY <2>3, <2>4
<1>7. CASE PicoTimesOut
  <2>1. InStep /\ PicoStops /\ (Meeting => calc.op = "idle")
    BY <1>1, <1>7, PicoTimesOutIs DEF Undisturbed
  <2>2. ~PicoAt("recv", {7})
    <3> SUFFICES ASSUME PicoAt("recv", {7}) PROVE FALSE
      OBVIOUS
    <3>1. pico.op = "recv" /\ pico.step = 7 /\ calc.op = "take" /\ calc.step = pico.step
      BY <2>1 DEF PicoAt, InStep, RecvIsFed
    <3>2. QED BY <1>1, <2>1, <3>1, InStepTheyMeet
  <2>3. QED BY <1>2, <1>4, <2>1, <2>2
<1>8. CASE CalcTimesOut
  BY <1>1, <1>8, CalcTimesOutIs DEF HeldBack
<1>9. CASE StopListening \/ Listen \/ RecvVarCalled
  <2>1. delivered' = delivered /\ pico.op \in {"away", "listen"}
    BY <1>9 DEF StopListening, Listen, RecvVarCalled
  <2>2. QED BY <2>1 DEF HeldBack
<1>10. QED BY <1>5, <1>6, <1>7, <1>8, <1>9 DEF DbusStep

LEMMA DbusStepTells ==
  ASSUME DbusTyped, PairInvariant, Undisturbed, DbusStep, ToldIsDelivered
  PROVE  ToldIsDelivered'
<1>1. PicoTyped /\ CalcTyped /\ StoreTyped /\ UNCHANGED transfers /\ faults' \in 0..MaxFaults
  BY DbusStepTypes DEF DbusTyped, StoreTyped
<1> SUFFICES ASSUME NEW id \in told', faults' = 0, transfers[id].var \in Wanted
             PROVE  <<id, id>> \in delivered' \/ HeldBack(id)'
  <2>1. ~(faults' > 0) => faults' = 0
    BY <1>1
  <2>2. QED BY <1>1, <2>1 DEF ToldIsDelivered
<1>2. faults = 0 /\ partial = {} /\ mixed = {}
  BY NothingIsMixed
<1>3. CASE id \in told
  <2>1. <<id, id>> \in delivered \/ HeldBack(id)
    BY <1>2, <1>3 DEF ToldIsDelivered
  <2>2. QED BY <1>3, <2>1, HeldIsDelivered
<1>4. CASE id \notin told
  <2>1. PicoToCalc
    <3>1. ASSUME CalcToPico PROVE FALSE
      <4>1. told' = told
        BY <1>2, <3>1, PacketComes DEF CalcSent
      <4>2. QED BY <1>4, <4>1
    <3>2. ~PicoTimesOut /\ ~CalcTimesOut
      BY <1>1, <1>4, PicoTimesOutIs, CalcTimesOutIs
    <3>3. QED BY <1>4, <3>1, <3>2 DEF DbusStep, StopListening, Listen, RecvVarCalled, calcSide
  <2>2. PICK packet : PicoSendsStep(packet)
    BY <1>1, <2>1, PicoToCalcIs
  <2>3. CalcReads /\ PicoTurn /\ PicoSent /\ PicoCarries(packet) /\ CalcReceives(packet)
    BY <2>2 DEF PicoSendsStep
  <2>4. calc.op = "take" /\ calc.step = 6 /\ id = calc.id
    BY <1>1, <1>4, <2>3, CalcReceivesTo
  <2>5. pico.op \in {"take", "recv"} /\ pico.step = 6 /\ pico.hdr = id
    BY <1>2, <2>4 DEF Undisturbed, InStep, TakeIsRead
  <2>6. pico.data = id
    BY <1>2, <2>5 DEF PairInvariant, DataIsOfHeader, OfHeader, Uploads, Phase
  <2>7. \/ PicoGoesOn(pico.hdr, pico.data)
        \/ Deliver(pico.hdr, pico.data)
    <3>1. /\ ~PicoAt("take", {7}) /\ ~PicoAt("respond", {9}) /\ ~PicoAt("send", {7})
          /\ ~PicoAt("request", {8}) /\ pico.op \notin {"ack", "miss", "refused"}
      BY <2>5 DEF PicoAt
    <3>2. QED BY <1>1, <2>3, <3>1, PicoSentTo
  <2>8. QED BY <1>2, <2>5, <2>6, <2>7 DEF PicoGoesOn, HeldBack, Deliver, LetThrough, KeptOut
<1>5. QED BY <1>3, <1>4

LEMMA TransferringHandsOn ==
  ASSUME Typed, Transferring, DeliveredIsHandedOn
  PROVE  DeliveredIsHandedOn'
<1> DEFINE ids == {pair[1] : pair \in delivered' \ delivered}
<1>1. /\ handedOn \subseteq handedOn' /\ outages \in Nat
      /\ \/ UNCHANGED <<relay, outages>> /\ (ids \subseteq handedOn' \/ relay = "down")
         \/ outages' = outages + 1
  BY PageBridgeAssumption DEF Transferring, OnVar, Typed, BridgeTyped
<1>2. \A pair \in delivered' : pair \in delivered \/ pair[1] \in ids
  OBVIOUS
<1> HIDE DEF ids
<1>3. QED BY <1>1, <1>2 DEF DeliveredIsHandedOn

(* A step that does not touch what was told, delivered or handed on.       *)
LEMMA NothingTold ==
  ASSUME Typed, ToldInvariant, Undisturbed',
         UNCHANGED <<told, delivered, handedOn, outages, faults>>,
         \A id \in Numbers : transfers'[id] = transfers[id],
         UNCHANGED pico \/ pico.op \in {"away", "listen"},
         relay' = "down" => relay = "down"
  PROVE  ToldInvariant'
<1>1. told \subseteq Numbers
  BY DEF Typed, HistoryTyped
<1>2. ToldIsDelivered'
  BY <1>1 DEF ToldInvariant, ToldIsDelivered, HeldBack
<1>3. DeliveredIsHandedOn'
  BY DEF ToldInvariant, DeliveredIsHandedOn
<1>4. QED BY <1>2, <1>3 DEF ToldInvariant

LEMMA Next_Told == Typed /\ PairInvariant /\ ToldInvariant /\ [Next]_vars => ToldInvariant'
<1> SUFFICES ASSUME Typed, PairInvariant, ToldInvariant, [Next]_vars PROVE ToldInvariant'
  OBVIOUS
<1>0. DbusTyped /\ PicoTyped /\ CalcTyped
  BY DEF Typed, DbusTyped
<1>1. CASE Transferring
  <2>1. DbusStep
    BY <1>1 DEF Transferring
  <2>2. Undisturbed' /\ ToldIsDelivered'
    BY <1>0, <2>1, DbusStepUndisturbed, DbusStepTells DEF ToldInvariant
  <2>3. DeliveredIsHandedOn'
    BY <1>1, TransferringHandsOn DEF ToldInvariant
  <2>4. QED BY <2>2, <2>3 DEF ToldInvariant
<1>2. CASE UNCHANGED dbusVars /\ UNCHANGED <<handedOn, outages>> /\ (relay' = "down" => relay = "down")
  <2>1. Undisturbed'
    BY <1>2 DEF dbusVars, ToldInvariant, Undisturbed, InStep, TakeIsRead, RecvIsFed,
               RequestIsMade, RequestIsServed, Quiet, Fresh
  <2>2. QED BY <1>2, <2>1, NothingTold DEF dbusVars
<1>3. CASE PicoBeginsOne /\ UNCHANGED <<relay, handedOn, outages>>
  <2>1. PICK op \in {"send", "request", "delete"} : PicoGoesTo(op, 1, Len(transfers'), 0, 0)
    BY <1>3, PicoBeginsTo
  <2>2. /\ pico.op = "away" /\ UNCHANGED <<calcSide, faults>>
        /\ \A id \in Numbers : transfers'[id] = transfers[id]
    BY <1>3, PicoBeginsTo
  <2>3. InStep => InStep'
    BY <1>0, <2>1, <2>2, OthersInStep DEF PicoGoesTo, calcSide
  <2>4. Undisturbed'
    BY <2>2, <2>3 DEF ToldInvariant, Undisturbed
  <2>5. QED BY <1>3, <2>1, <2>2, <2>4, NothingTold DEF PicoGoesTo, calcSide
<1>4. CASE CalcBeginsOne /\ UNCHANGED <<relay, handedOn, outages>>
  <2>1. PICK op \in {"take", "respond", "ready"} : CalcGoesTo(op, 1, Len(transfers'))
    BY <1>4, CalcBeginsTo
  <2>2. /\ calc.op = "idle" /\ UNCHANGED <<told, picoSide, faults>>
        /\ \A id \in Numbers : transfers'[id] = transfers[id]
    BY <1>4, CalcBeginsTo
  <2>3. InStep => InStep'
    BY <1>0, <2>1, <2>2, OthersInStep DEF CalcGoesTo, picoSide
  <2>4. Undisturbed'
    BY <2>2, <2>3 DEF ToldInvariant, Undisturbed
  <2>5. QED BY <1>4, <2>2, <2>4, NothingTold DEF picoSide
<1>5. \/ Transferring \/ (UNCHANGED <<relay, handedOn, outages>>)
      \/ (ConnectTransport /\ UNCHANGED <<dbusVars, handedOn, outages>> /\ relay' = "up")
  BY DEF Next, vars, bridgeVars, ConnectTransport, BeginPush, PushOneStr, PushPagecount, PushVar,
         PushEnds, FromThePrompt, Ask, FromTheCalculator
<1>6. CASE ConnectTransport /\ UNCHANGED <<dbusVars, handedOn, outages>> /\ relay' = "up"
  BY <1>2, <1>6
<1>7. CASE ~Transferring /\ UNCHANGED <<relay, handedOn, outages>>
  <2>1. PicoBeginsOne \/ CalcBeginsOne \/ UNCHANGED dbusVars
    BY <1>7, NextIs
  <2>2. QED BY <1>2, <1>3, <1>4, <1>7, <2>1
<1>8. QED BY <1>1, <1>5, <1>6, <1>7

(* An upload that the calculator saw acknowledged is handed to the relay   *)
(* or to the caller of recv_var, whatever comes instead of the EOT, unless *)
(* a handshake failed, the relay did, or the filter keeps the name out.    *)
THEOREM AcknowledgedUploadsAreHandedOn == Spec => []AcknowledgedUploadsArrive
<1>1. Init => PairInvariant /\ ToldInvariant
  BY DEF Init, DbusInit, Away, Idle, PairInvariant, SameUpload, DataIsOfHeader, CutIsOfHeader,
         PairsAreGenuine, Uploads, ToldInvariant, Undisturbed, InStep, TakeIsRead, RecvIsFed, RequestIsMade,
         RequestIsServed, ToldIsDelivered, DeliveredIsHandedOn
<1>2. Typed /\ ToldInvariant => AcknowledgedUploadsArrive
  <2> SUFFICES ASSUME Typed, ToldInvariant, NEW id \in told
               PROVE  \/ faults > 0 \/ outages > 0 \/ transfers[id].var \notin Wanted
                      \/ id \in handedOn
                      \/ pico.op \in {"take", "recv"} /\ pico.step = 7 /\ pico.data = id
    BY DEF AcknowledgedUploadsArrive
  <2>1. <<id, id>> \in delivered => id \in handedOn \/ outages > 0
    <3>1. <<id, id>>[1] = id
      OBVIOUS
    <3>2. QED BY <3>1 DEF ToldInvariant, DeliveredIsHandedOn
  <2>2. QED BY <2>1 DEF ToldInvariant, ToldIsDelivered, HeldBack
<1>3. QED BY <1>1, <1>2, TypedHolds, Next_Pairs, Next_Told, PTL DEF Spec

=============================================================================
