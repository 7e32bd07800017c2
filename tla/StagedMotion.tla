----------------------------- MODULE StagedMotion -----------------------------
(***************************************************************************)
(* What a four-stage grasp coordinator promises about motion, with no      *)
(* clocks, reports or ports: motions are released one at a time, in stage  *)
(* order, each after the one before it really succeeded; a stop releases   *)
(* nothing more; and work is only taken up again when nothing moves.       *)
(***************************************************************************)
EXTENDS Integers

CONSTANTS TaskIds, Stages, LastStage

VARIABLES
  mode,      \* "idle", "moving", "complete" or "stopped"
  released,  \* motions handed out so far
  running,   \* motions that may still move
  done       \* motions that ended in success

vars == <<mode, released, running, done>>
Motions == TaskIds \X Stages

Init == mode = "idle" /\ released = {} /\ running = {} /\ done = {}

(* A motion may be handed out, or withheld by a port that refuses it; a    *)
(* refusal stops the sequence, and may come after the goal was sent.       *)
Release(m) ==
  /\ m \in Motions \ released
  /\ running = {}
  /\ \A s \in Stages : s < m[2] => <<m[1], s>> \in done
  /\ IF m[2] = 0 THEN mode = "idle" ELSE mode = "moving"
  /\ released' = released \cup {m}
  /\ \/ mode' = "moving" /\ running' = {m}
     \/ mode' = "stopped" /\ running' \in {{}, {m}}
  /\ UNCHANGED done

Complete ==
  /\ mode = "moving" /\ running = {}
  /\ \E t \in TaskIds : \A s \in Stages : <<t, s>> \in done
  /\ mode' = "complete"
  /\ UNCHANGED <<released, running, done>>

(* A stop may end what is running, at once or not.                         *)
Stop ==
  /\ mode' = "stopped"
  /\ running' \subseteq running
  /\ UNCHANGED <<released, done>>

End(m) ==
  /\ m \in running
  /\ running' = running \ {m}
  /\ done' \in {done, done \cup {m}}
  /\ UNCHANGED <<mode, released>>

Recover ==
  /\ mode \in {"complete", "stopped"} /\ running = {}
  /\ mode' = "idle"
  /\ UNCHANGED <<released, running, done>>

Next ==
  \/ \E m \in Motions : Release(m) \/ End(m)
  \/ Complete \/ Stop \/ Recover

Spec == Init /\ [][Next]_vars
=============================================================================
