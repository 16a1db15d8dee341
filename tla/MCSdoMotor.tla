----------------------------- MODULE MCSdoMotor -----------------------------
(* Instances of SdoMotor for TLC: which driver, and who calls what. *)
EXTENDS SdoMotor

CONSTANTS c1, c2

SetupsOf(driver, methods, others, modes, powers) ==
  {[driver |-> driver, calls |-> [c \in Callers |-> IF c = c1 THEN methods ELSE others],
    want |-> [c \in Callers |-> IF c = c1 THEN modes ELSE {"position"}], faults |-> (others = {}), power |-> p, present |-> TRUE] : p \in powers}

Starts == {"off", "enabled"}

Absent(setups) == {[s EXCEPT !.present = FALSE] : s \in setups}

(* One thread of switches and settings, of motion commands; and a reader   *)
(* beside a thread of commands; and a drive that is not there.             *)
Threads ==
  SetupsOf("cia402", {"enable", "disable", "quick_stop", "clear_fault", "zero", "set_object",
                      "set_mode"}, {}, {"position", "velocity"}, Starts)
    \cup SetupsOf("cia402", {"command", "ensure_mode"}, {}, {"position", "torque", "csp"}, Starts)
    \cup SetupsOf("cia402", {"command"}, {"query"}, {"velocity"}, {"off"})
    \cup SetupsOf("hexfellow", {"enable", "disable", "ensure_mode", "command"}, {},
                  {"position", "mit"}, Starts)
    \cup SetupsOf("hexfellow", {"enable"}, {"query"}, {"position"}, {"off"})
    \cup SetupsOf("mit", {"enable", "disable", "zero", "clear_fault", "query_fault", "set_mode",
                          "active_report"}, {}, {"position", "velocity"}, {"off"})
    \cup SetupsOf("mit", {"command", "query", "set_id", "param"}, {}, {"position", "mit"}, Starts)
    \cup SetupsOf("mit", {"command"}, {"param", "set_id"}, {"position"}, {"off"})
    \cup Absent(SetupsOf("cia402", {"command", "query"}, {}, {"torque"}, {"off"}))
=============================================================================
