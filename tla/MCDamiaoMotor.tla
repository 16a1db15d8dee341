--------------------------- MODULE MCDamiaoMotor ---------------------------
(* Instances of DamiaoMotor for TLC: who calls what. *)
EXTENDS DamiaoMotor

CONSTANTS c1, c2

GuardedCalls ==
  [c \in Callers |-> {"enable", "disable", "control", "ensure", "set_zero", "store"}]
ReadersAndWriter == [c \in Callers |-> IF c = c1 THEN {"get"} ELSE {"write", "ensure"}]
=============================================================================
