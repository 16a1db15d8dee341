-------------------------- MODULE MCCoreController --------------------------
(* Instances of CoreController: two motors, two polling threads.           *)
EXTENDS CoreController

CONSTANTS a, b

(* A frame for the first motor, one both motors accept, an echo.           *)
MCShapes == {[rx |-> TRUE, to |-> {1}], [rx |-> TRUE, to |-> {1, 2}],
             [rx |-> FALSE, to |-> {1}]}

(* Which caller may invoke what.                                           *)
OneUser == [c \in {a} |-> Methods]
AddAndPoll == [c \in {a, b} |-> {"add_device", "poll_feedback_once"}]
=============================================================================
