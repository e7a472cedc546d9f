---------------------------- MODULE MCAutonomous ----------------------------
(* Readings on either side of each threshold of the loop: nothing near,    *)
(* too near to be true, two that hug the wall and differ by less and one   *)
(* by more than the improvement, the stop distance, and clear ones.        *)
EXTENDS Autonomous

RawReadings == {-1, 5, 10, 15, 22, 28, 30, 90}
=============================================================================
