-------------------------- MODULE MCRobstrideMotor --------------------------
(* Instances of RobstrideMotor for TLC: who calls what, with which motor. *)
EXTENDS RobstrideMotor

CONSTANTS c1, c2

(* c1 invokes methods and c2 others; every answering host, firmware and    *)
(* acknowledgement setting given.                                          *)
SetupsOf(methods, others, unasked, faults, firmwares, writeAcks) ==
  {[calls |-> [c \in Callers |-> IF c = c1 THEN methods ELSE others],
    unasked |-> unasked, faults |-> faults, stubborn |-> f, answers |-> h, writeAck |-> w] :
     f \in firmwares, h \in {{1}, {NHosts}}, w \in writeAcks}

(* One thread of commands, of reads, of mode switches, of motion; and a    *)
(* reader beside a thread that switches modes.                             *)
Threads ==
  SetupsOf({"enable", "disable", "clear_error", "set_zero", "save", "set_protocol"}, {},
           {"fault"}, TRUE, {FALSE}, BOOLEAN)
    \cup SetupsOf({"ping", "set_device_id", "active_report"}, {}, {}, TRUE, {FALSE}, {FALSE})
    \cup SetupsOf({"get", "request", "set_mode"}, {}, {}, TRUE, {FALSE}, {FALSE})
    \cup SetupsOf({"ensure", "set_mode"}, {}, {}, TRUE, BOOLEAN, BOOLEAN)
    \cup SetupsOf({"mit", "csp", "stop"}, {}, {}, TRUE, {FALSE}, BOOLEAN)
    \cup SetupsOf({"get"}, {"set_mode"}, {}, FALSE, {FALSE}, {FALSE})
=============================================================================
