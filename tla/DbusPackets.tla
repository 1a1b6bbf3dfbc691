------------------------------ MODULE DbusPackets ------------------------------
(***************************************************************************)
(* The packets of src/src/packet.py and the exchanges of                   *)
(* src/src/transfer.py.                                                    *)
(*                                                                         *)
(* An exchange is the sequence of packets one variable takes: who sends    *)
(* each of them, and with which commands it may go on.  A packet is its    *)
(* command and the transfer its header or data belongs to; of the bytes    *)
(* DbusTransfer only keeps whether those of another packet got in between. *)
(***************************************************************************)
EXTENDS Integers, Sequences

(* Commands recv_packet returns without a body, whatever length they give. *)
HeaderOnly == {"ACK", "CTS", "EOT", "RDY"}

Packet(cmd, id) == [cmd |-> cmd, id |-> IF cmd \in HeaderOnly THEN 0 ELSE id]

CalcSends(cmds) == [by |-> "calc", cmds |-> cmds]
PicoSends(cmd)  == [by |-> "pico", cmds |-> {cmd}]

RecvVar ==
  << CalcSends({"RTS", "VAR"}), PicoSends("ACK"), PicoSends("CTS"),
     CalcSends({"ACK"}), CalcSends({"DATA"}), PicoSends("ACK"), CalcSends({"EOT"}) >>

RespondToReq ==
  << CalcSends({"REQ"}), PicoSends("ACK"), PicoSends("VAR"), CalcSends({"ACK"}),
     CalcSends({"CTS"}), PicoSends("ACK"), PicoSends("DATA"), CalcSends({"ACK"}),
     PicoSends("EOT") >>

SendVar ==
  << PicoSends("RTS"), CalcSends({"ACK"}), CalcSends({"CTS"}), PicoSends("ACK"),
     PicoSends("DATA"), CalcSends({"ACK"}), PicoSends("EOT") >>

ReqVar ==
  << PicoSends("REQ"), CalcSends({"ACK"}), CalcSends({"VAR"}), PicoSends("ACK"),
     PicoSends("CTS"), CalcSends({"ACK"}), CalcSends({"DATA"}), PicoSends("ACK") >>

DeleteVar == << PicoSends("DEL"), CalcSends({"ACK"}), CalcSends({"ACK"}) >>

(* "recv" is recv_var, "take" the same exchange inside listen_loop;        *)
(* "ack" is the one packet listen_loop answers a RDY or an unknown opener  *)
(* with, "refused" the one after a SKIP, "miss" the SKIP itself.           *)
Script(op) ==
  CASE op \in {"recv", "take"} -> RecvVar
    [] op = "respond" -> RespondToReq
    [] op = "send"    -> SendVar
    [] op = "request" -> ReqVar
    [] op = "delete"  -> DeleteVar
    [] op = "ready"   -> << CalcSends({"RDY"}), PicoSends("ACK") >>
    [] op = "miss"    -> << PicoSends("SKIP") >>
    [] OTHER          -> << PicoSends("ACK") >>

Answers == {"ack", "refused", "miss"}

(* A machine that calls itself a TI-82 gets no EOT from send_var, and      *)
(* recv_var waits for none from it; listen_loop drains one from anybody.   *)
Steps(op, machine) ==
  IF op \in {"send", "recv"} /\ machine = "ti82" THEN 6 ELSE Len(Script(op))

(* Where the calculator may answer SKIP instead.                           *)
MaySkip(op, step) == <<op, step>> \in {<<"send", 3>>, <<"send", 6>>,
                                       <<"request", 2>>, <<"respond", 5>>}
=============================================================================
