--------------------------- MODULE MCMoveItAdapter ---------------------------
(* Two requests, for the same command or for two, for TLC.                 *)
EXTENDS MoveItAdapter, TLC

CONSTANTS r1, r2, c1, c2

MCCarries == (r1 :> {c1}) @@ (r2 :> {c1, c2})
=============================================================================
