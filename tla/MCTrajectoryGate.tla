--------------------------- MODULE MCTrajectoryGate ---------------------------
(* Small instances of the trajectory gate for TLC.                         *)
EXTENDS TrajectoryGate

CONSTANTS arm, a1, l1   \* a controller, a typed command, a legacy message

ForArm == [g \in Goals |-> arm]
===============================================================================
