--------------------------- MODULE PhysicsEvidence ---------------------------
(***************************************************************************)
(* The strict core of the physics evidence, grasp_evidence.py: it decides  *)
(* from cube poses, contacts and the terminal of the sequence whether the  *)
(* cube was held by every pad, lifted and kept.                            *)
(*                                                                         *)
(* The controller has no thread of its own.  Each of its methods is an     *)
(* operator from a controller to a controller; PhysicsObserver calls them. *)
(* Heights are counted in units of the lift threshold, places on the table *)
(* in units of the allowed drift.  A topic carries one sample per instant, *)
(* so the comparison of equal stamps is part of the order check.  The core *)
(* compares the clock of each call with that of the last (_clock_reason):  *)
(* the node does so first, under the same lock, and fails the core then,   *)
(* so the core's own clock is not kept.  Gripper effort is a diagnostic    *)
(* whose bad stamps fault as a pose's do; it is left out.                  *)
(***************************************************************************)
EXTENDS Integers, Sequences, FiniteSets

CONSTANTS
  Pads,           \* gripper_collision_tokens
  Freshness,      \* freshness_timeout_ns
  Retention,      \* retention_ns
  BaselineCount,  \* baseline_sample_count
  MinLift,        \* min_lift_m
  MinClearance,   \* min_clearance_m
  None

ASSUME EvidenceConstants ==
  /\ Pads # {} /\ {Freshness, Retention, MinLift} \subseteq Nat \ {0}
  /\ MinClearance \in Nat
  /\ BaselineCount \in Nat /\ BaselineCount % 2 = 1
  /\ None \notin Int

Idle ==
  [phase |-> "IDLE", why |-> None, epoch |-> 0, started |-> None,
   pose |-> None, contact |-> None, both |-> None,
   heights |-> <<>>, completed |-> FALSE, seen |-> FALSE,
   since |-> None, home |-> None]

Terminal(c) == c.phase \in {"VERIFIED", "FAULT"}

(* A fault is final: what was measured is only reported, and not kept here.*)
Fault(why) == [Idle EXCEPT !.phase = "FAULT", !.why = why]

(* start: the task's own stamp has to be fresh.                            *)
Start(task, at) ==
  LET c == [Idle EXCEPT !.epoch = task.epoch, !.started = task.started,
                        !.phase = "BASELINE"]
  IN  IF at < task.started \/ at - task.started > Freshness
        THEN Fault("source") ELSE c

(* _sample_reason and the order check of each stream.                      *)
SampleReason(c, s, at, last) ==
  IF s.epoch # c.epoch \/ s.src > at \/ at - s.src > Freshness THEN "source"
  ELSE IF last # None /\ s.src <= last.src THEN "order"
  ELSE None

(* A core that is not through turns into the one given if the sample      *)
(* passes.                                                                 *)
Judge(c, s, at, last, accepted) ==
  LET why == SampleReason(c, s, at, last)
  IN  IF Terminal(c) THEN c ELSE IF why = None THEN accepted ELSE Fault(why)

Median(heights) ==
  LET Over(h, Beats(_, _)) ==
        2 * Cardinality({i \in DOMAIN heights : Beats(heights[i], h)})
  IN  CHOOSE h \in {heights[i] : i \in DOMAIN heights} :
        /\ Over(h, LAMBDA x, y : x < y) < Len(heights)
        /\ Over(h, LAMBDA x, y : x > y) < Len(heights)

Lifted(c, z) == z >= Median(c.heights) + MinLift /\ z >= MinClearance

(* _contact_is_fresh                                                       *)
ContactFresh(c, at) == c.both # None /\ c.both <= at /\ at - c.both <= Freshness

(* _maybe_enter_retention                                                  *)
EnterRetention(c, at) ==
  IF /\ c.phase = "WAIT_LIFT" /\ c.completed /\ c.seen
     /\ c.pose # None /\ Lifted(c, c.pose.z) /\ ContactFresh(c, at)
    THEN [c EXCEPT !.phase = "RETENTION", !.since = at, !.home = c.pose.xy]
    ELSE c

CompleteRetention_LastWord(c, at) ==
  IF c.phase = "RETENTION" /\ at - c.since >= Retention
    THEN [c EXCEPT !.phase = "VERIFIED"] ELSE c

(* _maybe_complete_retention: the contact and the pose have to be fresh at *)
(* every call, the last one included.                                      *)
CompleteRetention(c, at) ==
  IF c.phase # "RETENTION" THEN c
  ELSE IF ~ContactFresh(c, at) \/ at - c.pose.at > Freshness
    THEN Fault("liveness")
  ELSE IF at - c.since < Retention THEN c
  ELSE [c EXCEPT !.phase = "VERIFIED"]

Evaluate(c, at) == CompleteRetention(EnterRetention(c, at), at)

Measured(c, z) ==
  LET heights == Append(c.heights, z)
  IN  [c EXCEPT !.heights = heights,
                !.phase = IF Len(heights) >= BaselineCount
                            THEN "WAIT_CONTACT" ELSE @]

Posed(c, s, at) ==
  LET d == [c EXCEPT !.pose = [src |-> s.src, at |-> at,
                               z |-> s.say.z, xy |-> s.say.xy]]
  IN  IF d.phase = "BASELINE" THEN Measured(d, s.say.z)
      ELSE IF /\ d.phase = "RETENTION"
              /\ s.say.xy # d.home \/ ~Lifted(d, s.say.z)
        THEN Fault("dropped")
      ELSE Evaluate(d, at)

ObservePose(c, s, at) == Judge(c, s, at, c.pose, Posed(c, s, at))

Touched(c, s, at) ==
  LET touched == s.say.pads # {} /\ c.phase # "BASELINE"
      d == [c EXCEPT !.contact = [src |-> s.src, at |-> at],
                     !.both = IF Pads \subseteq s.say.pads THEN at ELSE @,
                     !.seen = @ \/ touched,
                     !.phase = IF touched /\ @ = "WAIT_CONTACT"
                                 THEN "WAIT_LIFT" ELSE @]
  IN  IF c.phase = "RETENTION" /\ s.say.table THEN Fault("dropped")
      ELSE Evaluate(d, at)

ObserveContact(c, s, at) == Judge(c, s, at, c.contact, Touched(c, s, at))

Completed(c, s, at) ==
  IF s.say.end = "other" THEN c
  ELSE IF s.say.end = "stopped" THEN Fault("sequence")
  ELSE IF c.completed THEN c
  ELSE Evaluate([c EXCEPT !.completed = TRUE], at)

ObserveCompletion(c, s, at) == Judge(c, s, at, None, Completed(c, s, at))

Silent(c, at) ==
  \/ at - (IF c.pose = None THEN c.started ELSE c.pose.at) > Freshness
  \/ /\ c.phase \in {"WAIT_LIFT", "RETENTION"}
     /\ c.contact = None \/ at - c.contact.at > Freshness

Tick(c, at) ==
  IF Terminal(c) THEN c
  ELSE IF Silent(c, at) THEN Fault("liveness")
  ELSE Evaluate(c, at)

FailClosed(c, why) == IF Terminal(c) THEN c ELSE Fault(why)
=============================================================================
