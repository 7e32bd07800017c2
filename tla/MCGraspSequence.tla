--------------------------- MODULE MCGraspSequence ---------------------------
(* Small instances of GraspSequence for TLC.                               *)
EXTENDS GraspSequence, TLC

CONSTANTS t1, t2, g1, g2

MCTargets  == {g1, g2}
MCSignalTimeout == <<1, 1, 1, 1>>

Quiet(at) == [i \in 1..4 |-> [state |-> "ready", at |-> at]]
Good(g, src, at) == [typed |-> TRUE, clockOk |-> TRUE, target |-> g,
                     src |-> src, signals |-> Quiet(at)]

(* Good snapshots with every source and observation time, and snapshots    *)
(* with one fault of each kind, or two of them in either order.            *)
MCHealths ==
  LET ok == Good(g1, 0, 0)
  IN {Good(g1, s, a) : s \in Times, a \in Times}
     \cup {Good(g2, MaxTime, MaxTime),
           [ok EXCEPT !.typed = FALSE], [ok EXCEPT !.clockOk = FALSE],
           [ok EXCEPT !.signals[3].state = "clock_reason"],
           [ok EXCEPT !.signals[1].state = "not_ready",
                      !.signals[2].state = "clock_reason"]}

MCTaskInputs ==
  LET of(i, s) == [id |-> i, target |-> g1, src |-> s,
                   frameOk |-> TRUE, clockOk |-> TRUE]
  IN {of(i, s) : i \in TaskIds, s \in Times}
     \cup {[of(i, 0) EXCEPT !.frameOk = FALSE] : i \in TaskIds}
     \cup {[of(i, 0) EXCEPT !.clockOk = FALSE] : i \in TaskIds}

Symmetry == Permutations(TaskIds)
=============================================================================
