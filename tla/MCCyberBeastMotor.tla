-------------------------- MODULE MCCyberBeastMotor --------------------------
(* Instances of CyberBeastMotor for TLC: who calls what on which device. *)
EXTENDS CyberBeastMotor

CONSTANTS c1, c2

SetupOf(methods, others, on) ==
  [calls |-> [c \in Callers |-> IF c = c1 THEN methods ELSE others],
   on |-> [c \in Callers |-> IF c = c1 THEN on ELSE "wide"],
   late |-> FALSE, faults |-> FALSE, usable |-> Declared, present |-> TRUE, flashed |-> 1]

(* Answers of two frames later than the window a read waits before it asks *)
(* again.                                                                  *)
LateRead == [SetupOf({"read"}, {}, "wide") EXCEPT !.late = TRUE]
LateReads == {LateRead}

(* Connecting, with and without declared ranges, failing sends and late    *)
(* answers; loads repeated; parameters, alone and beside a reader of the   *)
(* other one; a device that is not there; one reflashed to the shorter     *)
(* descriptor.                                                             *)
Threads ==
  {SetupOf({"connect"}, {}, "narrow"), SetupOf({"load", "read"}, {}, "wide"),
   SetupOf({"write", "read", "get"}, {"read"}, "narrow"),
   SetupOf({"warm_up", "get"}, {"read"}, "narrow"), SetupOf({"warm_up"}, {}, "wide"),
   [SetupOf({"load"}, {}, "narrow") EXCEPT !.late = TRUE],
   [SetupOf({"load"}, {}, "narrow") EXCEPT !.flashed = 2],
   [SetupOf({"read", "write", "warm_up"}, {}, "narrow") EXCEPT !.late = TRUE],
   LateRead,
   [SetupOf({"connect", "read"}, {}, "wide") EXCEPT !.faults = TRUE],
   [SetupOf({"connect", "read", "warm_up"}, {}, "narrow") EXCEPT !.present = FALSE]}
  \cup {[SetupOf({"connect"}, {}, "narrow") EXCEPT !.usable = u] : u \in {{"gear"}, {"range"}, {}}}

=============================================================================
