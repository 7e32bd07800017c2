--------------------------- MODULE PhysicsObserver ---------------------------
(***************************************************************************)
(* The physics observer node, grasp_physics_observer.py: the threads and   *)
(* the clock around the strict core of PhysicsEvidence.                    *)
(*                                                                         *)
(* Four threads serve the node.  An action is what one of them does under  *)
(* one acquisition of _lock, together with the reads before it that no     *)
(* later step depends on.  The ROS clock moves on its own, evidence may    *)
(* arrive before the clock has reached its stamp, and the simulator may be *)
(* set back.  A topic delivers in order, each subscription in a callback   *)
(* group of its own.                                                       *)
(***************************************************************************)
EXTENDS PhysicsEvidence

CONSTANTS
  Samples,      \* Samples[k]: what a message of kind k can say
  MaxPending    \* maximum_pending_observations

(* What the core keeps of the poses and contacts, and the core itself.     *)
Heights == {say.z : say \in Samples["pose"]}
Places  == {say.xy : say \in Samples["pose"]}
Pose    == [src : Int, at : Int, z : Heights, xy : Places]

Whys ==
  {"source", "order", "liveness", "dropped", "sequence", "rollback",
   "cancelled", "timeout", "queue", "input"}

Core ==
  [phase : {"IDLE", "BASELINE", "WAIT_CONTACT", "WAIT_LIFT", "RETENTION",
            "VERIFIED", "FAULT"},
   why : Whys \cup {None},
   epoch : Nat, started : Int \cup {None},
   pose : Pose \cup {None}, contact : [src : Int, at : Int] \cup {None},
   both : Int \cup {None}, heights : Seq(Heights),
   completed : BOOLEAN, seen : BOOLEAN,
   since : Int \cup {None}, home : Places \cup {None}]

ASSUME ObserverConstants ==
  /\ DOMAIN Samples = {"pose", "contact", "sequence"}
  /\ MaxPending \in Nat \ {0}
  /\ None \notin Whys \cup Pose \cup Core

VARIABLES
  now,       \* what the ROS clock says
  clock,     \* _last_clock_ns, or None
  latched,   \* _clock_fault is set
  epoch,     \* _clock_epoch
  core,      \* _core, or None
  goal,      \* the observation and how far its thread is, or None
  pending,   \* _pending_observations
  crashed,   \* an exception left a callback: the executor stops
  steady,    \* no rollback since the observation was opened
  held       \* for how long the grasp has been beyond doubt

clocks == <<clock, latched>>
world  == <<now, crashed>>
vars == <<clocks, world, epoch, core, goal, pending, steady, held>>

Init ==
  /\ now = 0 /\ clock = None /\ latched = FALSE /\ epoch = 0
  /\ core = None /\ goal = None /\ pending = <<>>
  /\ crashed = FALSE /\ steady = TRUE /\ held = 0

-----------------------------------------------------------------------------
At(stages) == goal # None /\ goal.stage \in stages
Active == At({"opened", "running"})
Unstarted == core # None /\ core.phase = "IDLE"

(* _now_ns: a clock that went back latches and fails the core; a core that *)
(* has not been started raises.                                            *)
Rolled == clock # None /\ now < clock
Raises == Unstarted /\ Rolled
Read ==
  IF Rolled /\ core # None THEN FailClosed(core, "rollback") ELSE core

Looked == ~Raises /\ clock' = now /\ latched' = (latched \/ Rolled)

(* What the verdict is compared with: the grasp is in doubt while some     *)
(* evidence is missing or twice as old as a sample may be.                 *)
Doubtful(c, t) ==
  \/ ~c.completed \/ c.pose = None \/ c.both = None \/ c.heights = <<>>
  \/ t - c.both > 2 * Freshness \/ t - c.pose.at > 2 * Freshness
  \/ ~Lifted(c, c.pose.z)

Lasted ==
  IF core = None THEN 0
  ELSE IF Terminal(core) THEN held
  ELSE IF Rolled \/ Doubtful(core, now) THEN 0
  ELSE IF held + now - clock > Retention THEN Retention
  ELSE held + now - clock

(* The core becomes c.  What is left in the queue of a core that is        *)
(* through is never looked at again.                                       *)
Judged(c, queue) ==
  /\ core' = c
  /\ pending' = IF c # None /\ Terminal(c) THEN <<>> ELSE queue
  /\ held' = IF c = None \/ (~Terminal(core) /\ Doubtful(c, now))
               THEN 0 ELSE Lasted

-----------------------------------------------------------------------------
(* An observation: _on_goal checks and reserves under two acquisitions,    *)
(* _execute opens the core and starts it under two more.                   *)
CheckGoal ==
  /\ goal = None /\ ~latched
  /\ goal' = [stage |-> "checked", epoch |-> epoch, started |-> now]
  /\ Looked /\ Judged(Read, pending)
  /\ UNCHANGED <<world, epoch, steady>>

CheckRaises ==
  /\ goal = None /\ ~latched /\ Raises /\ latched' = TRUE
  /\ UNCHANGED <<clock, world, epoch, core, goal, pending, steady,
                 held>>

ReserveGoal ==
  /\ At({"checked"}) /\ goal' = [goal EXCEPT !.stage = "reserved"]
  /\ UNCHANGED <<clocks, world, epoch, core, pending, steady, held>>

OpenGoal ==
  /\ At({"reserved"}) /\ goal' = [goal EXCEPT !.stage = "opened"]
  /\ core' = Idle /\ pending' = <<>> /\ steady' = TRUE /\ held' = 0
  /\ UNCHANGED <<clocks, world, epoch>>

StartGoal ==
  /\ At({"opened"})
  /\ goal' = [goal EXCEPT !.stage = "running", !.started = None]
  /\ Looked /\ Judged(Start(goal, now), pending)
  /\ UNCHANGED <<world, epoch, steady>>

(* The clock went back before the start: the wrapper aborts the goal.      *)
StartRaises ==
  /\ At({"opened"}) /\ Raises
  /\ goal' = None /\ pending' = <<>> /\ latched' = TRUE
  /\ UNCHANGED <<clock, world, epoch, core, steady, held>>

(* One round of the loop of _execute.  A client may have cancelled by      *)
(* then, and either deadline, of the ROS clock or the wall clock, may have *)
(* passed: neither is counted here.                                        *)
Round(c) ==
  /\ At({"running"}) /\ ~Terminal(core)
  /\ Looked /\ Judged(c, pending)
  /\ UNCHANGED <<world, epoch, goal, steady>>

TickCancelled == Round(FailClosed(Read, "cancelled"))
TickTimeout   == Round(FailClosed(Read, "timeout"))
TickCore      == Round(Tick(Read, now))

FinishGoal ==
  /\ At({"running"}) /\ Terminal(core)
  /\ goal' = None /\ pending' = <<>>
  /\ UNCHANGED <<clocks, world, epoch, core, steady, held>>

-----------------------------------------------------------------------------
(* A message.  The callback tests for an observation and stamps its sample *)
(* with the epoch, and queues it under a second acquisition, which may     *)
(* fall into the next observation: the test does not appear here.  (A      *)
(* stamp of an earlier epoch fails the core, as InputFault does.)  So do a *)
(* sample too far ahead of the clock and one too many.                     *)
Sorted_NewestFirst(s, queue) == <<s>> \o queue

Sorted(s, queue) ==
  LET n == Cardinality({i \in DOMAIN queue : queue[i].src <= s.src})
  IN  SubSeq(queue, 1, n) \o <<s>> \o SubSeq(queue, n + 1, Len(queue))

Handed(c, queue) ==
  /\ Looked /\ Judged(c, queue)
  /\ UNCHANGED <<world, epoch, goal, steady>>

EnqueueDropped == ~Active /\ core # None /\ Handed(Read, pending)

EnqueueFails ==
  Active /\ ~Unstarted /\ Handed(FailClosed(Read, "queue"), pending)

(* Messages of one kind come in the order of their stamps.                 *)
Follows(k, src) ==
  /\ \A i \in DOMAIN pending : pending[i].kind = k => pending[i].src < src
  /\ k # "sequence" /\ core[k] # None =>
       core[k].src < src

Enqueue(k) ==
  /\ Active /\ Len(pending) < MaxPending
  /\ \E say \in Samples[k], src \in now .. now + Freshness :
       /\ Follows(k, src)
       /\ Handed(Read, Sorted([kind |-> k, src |-> src, epoch |-> epoch,
                               say |-> say], pending))

(* _input_fault: it fails whichever core there is by then.                 *)
InputFault ==
  core # None /\ ~Unstarted /\ Handed(FailClosed(Read, "input"), pending)

(* _drain_pending_observations, by any thread, one sample per acquisition. *)
Observe(c, s, at) ==
  CASE s.kind = "pose"     -> ObservePose(c, s, at)
    [] s.kind = "contact"  -> ObserveContact(c, s, at)
    [] s.kind = "sequence" -> ObserveCompletion(c, s, at)

Due == Active /\ pending # <<>> /\ Head(pending).src <= now

DrainOne ==
  /\ Due /\ ~Unstarted /\ ~Terminal(Read)
  /\ Looked /\ Judged(Observe(Read, Head(pending), now), Tail(pending))
  /\ UNCHANGED <<world, epoch, goal, steady>>

(* A due or malformed sample that comes between the opening and the start  *)
(* of the core makes it raise, and raise again in the handler that would   *)
(* fail it.                                                                *)
Crash ==
  /\ Unstarted /\ crashed' = TRUE
  /\ Active
  /\ UNCHANGED <<clocks, now, epoch, core, goal, pending,
                 steady, held>>

-----------------------------------------------------------------------------
Reset ==
  /\ ~At({"reserved", "opened", "running"})
  /\ core # None
  /\ epoch' = epoch + 1 /\ latched' = FALSE /\ clock' = None /\ core' = None
  /\ UNCHANGED <<world, goal, pending, steady, held>>

(* The simulator's clock.                                                  *)
ClockForward ==
  /\ now' = now + 1
  /\ UNCHANGED <<clocks, crashed, epoch, core, goal, pending, steady, held>>

(* A rollback the node can see; bound: one for each observation.           *)
ClockBack ==
  /\ steady /\ clock # None /\ now' = clock - 1
  /\ steady' = FALSE
  /\ UNCHANGED <<clocks, crashed, epoch, core, goal, pending, held>>

Observing ==
  \/ CheckGoal \/ CheckRaises \/ ReserveGoal \/ OpenGoal \/ StartGoal
  \/ StartRaises \/ TickCancelled \/ TickTimeout \/ TickCore \/ FinishGoal

Callbacks ==
  \/ EnqueueDropped \/ EnqueueFails \/ InputFault \/ DrainOne
  \/ \E k \in DOMAIN Samples : Enqueue(k)

Next ==
  /\ ~crashed
  /\ Observing \/ Callbacks \/ Crash \/ Reset \/ ClockForward \/ ClockBack

Spec == Init /\ [][Next]_vars

-----------------------------------------------------------------------------
(* A verified grasp was held.  However samples, rounds of the loop and the *)
(* clock interleave, when the verdict falls the clock the node has seen    *)
(* has advanced by the whole retention time since the last doubt: every    *)
(* pad seen in one contact sample, a lifted cube, neither older than twice *)
(* the freshness bound (the core looks only when it is called), and the    *)
(* sequence complete.                                                      *)
VerifiedIsEarned ==
  core # None /\ core.phase = "VERIFIED" => held >= Retention

(* As long as the clock is not set back, no observation ends because of a  *)
(* rollback or of samples out of order: four threads read the clock, queue *)
(* and drain, and samples arrive ahead of the clock, but none of it may    *)
(* look like a fault of the simulator (_now_ns, _queue_observation,        *)
(* _drain_pending_observations).                                           *)
NoFalseFault ==
  steady /\ core # None => core.why \notin {"rollback", "order"}
=============================================================================
