----------------------------- MODULE SafetyMonitor -----------------------------
(***************************************************************************)
(* The safety monitor node: src/ros_ws/src/edgegrasp_ros/edgegrasp_ros/    *)
(* safety_monitor.py.  It turns the target stream into permission messages *)
(* on /edgegrasp/motion_allowed.                                           *)
(*                                                                         *)
(* Its three handlers (target, timer, reset) share a mutually exclusive    *)
(* callback group, so each is one action.  The ROS clock is a variable of  *)
(* the environment: every handler reads it once for its decisions.  A      *)
(* message carries what /edgegrasp/permission_evidence records of it: the  *)
(* decision time, the source stamp of the target it permits motion for     *)
(* (-1 in a denial) and the epoch.                                         *)
(* -1 stands for None in every variable that holds a time.                 *)
(***************************************************************************)
EXTENDS Integers, SequencesExt

CONSTANTS
  MaxTime,          \* clock readings and source stamps are 0..MaxTime
  MaxAge,           \* stale_after_ms (StaleTargetGate)
  WatchdogTimeout,  \* watchdog_timeout_ms
  SkewTolerance,    \* future_skew_tolerance_ms
  MaxEpoch,         \* bound on resets
  QueueDepth        \* history depth of the permission topic

ASSUME MonitorConstants ==
  /\ MaxTime \in Nat /\ MaxAge \in Nat /\ WatchdogTimeout \in Nat
  /\ SkewTolerance \in Nat \ {0} /\ MaxEpoch \in Nat
  /\ QueueDepth \in Nat \ {0}

VARIABLES
  clock,           \* the ROS time this node reads
  latest,          \* _latest, as its source stamp
  lastReceive,     \* _last_receive_ns
  pending,         \* _pending, as its source stamp
  pendingReceive,  \* _pending_receive_ns
  lastSource,      \* _last_source_timestamp_ns
  lastClock,       \* _last_clock_ns
  latched,         \* _latched_reason is not None
  epoch,           \* _clock_epoch
  wire,            \* permission messages not yet delivered
  received         \* history: when each source stamp of this epoch arrived

targets == <<latest, lastReceive, pending, pendingReceive, lastSource>>
mvars   == <<clock, targets, lastClock, latched, epoch, wire, received>>

Times    == 0..MaxTime
MaybeTime == Times \cup {-1}
Message  == [allowed : BOOLEAN, src : MaybeTime, at : Times, epoch : 0..MaxEpoch]

MonitorInit ==
  /\ clock \in Times
  /\ latest = -1 /\ lastReceive = -1 /\ pending = -1 /\ pendingReceive = -1
  /\ lastSource = -1 /\ lastClock = -1 /\ latched = FALSE /\ epoch = 0
  /\ wire = <<>> /\ received = [s \in Times |-> -1]

-----------------------------------------------------------------------------
(* A name X_Y is a wrong variant of X, Y saying how; no specification uses *)
(* it.  They show which properties notice the mistake.                     *)

Rollback == clock < lastClock

Fresh_AnyAge(src) == src <= clock
Fresh(src)  == clock - src \in 0..MaxAge
Future(src) == src > clock
Stale(src)  == clock - src > MaxAge

(* _publish; the topic keeps the newest QueueDepth messages.               *)
Publish(allow, src, of) ==
  LET all == Append(wire, [allowed |-> allow, src |-> IF allow THEN src ELSE -1,
                           at |-> clock, epoch |-> of])
  IN wire' = IF Len(all) > QueueDepth THEN Tail(all) ELSE all

(* The latest target stands while its successor is ahead of the clock.     *)
PriorStands ==
  /\ latest # -1 /\ lastReceive # -1
  /\ Fresh(latest) /\ clock - lastReceive \in 0..WatchdogTimeout

Latch_KeepsVerdict ==
  /\ latched' = TRUE /\ latest' = -1 /\ pending' = -1 /\ pendingReceive' = -1
  /\ Publish(PriorStands, latest, epoch)
  /\ UNCHANGED lastReceive

(* _latch *)
Latch ==
  /\ latched' = TRUE /\ latest' = -1 /\ pending' = -1 /\ pendingReceive' = -1
  /\ Publish(FALSE, -1, epoch)
  /\ UNCHANGED lastReceive

(* _publish_pending_decision for a target s ahead of the clock             *)
PendingDecision(s, at) ==
  IF s - clock > SkewTolerance THEN Latch
  ELSE /\ pending' = s /\ pendingReceive' = at
       /\ Publish(PriorStands, latest, epoch)
       /\ UNCHANGED <<latest, lastReceive, latched>>

-----------------------------------------------------------------------------
(* _on_target, for a source stamp s; ok is whether frame and position are  *)
(* acceptable.  One action per way it can end.                             *)

Acceptable(s, ok) == ok /\ s > lastSource

TargetLatches(s, ok) ==
  /\ Rollback \/ (~latched /\ ~Acceptable(s, ok))
  /\ lastClock' = IF Rollback THEN lastClock ELSE clock
  /\ Latch
  /\ UNCHANGED <<clock, lastSource, epoch, received>>

TargetWhileLatched ==
  /\ ~Rollback /\ latched
  /\ lastClock' = clock /\ Publish(FALSE, latest, epoch)
  /\ UNCHANGED <<clock, targets, latched, epoch, received>>

TargetAhead(s, ok) ==
  /\ ~Rollback /\ ~latched /\ Acceptable(s, ok) /\ Future(s)
  /\ lastClock' = clock /\ lastSource' = s
  /\ received' = [received EXCEPT ![s] = clock]
  /\ PendingDecision(s, clock)
  /\ UNCHANGED <<clock, epoch>>

TargetStale(s, ok) ==
  /\ ~Rollback /\ ~latched /\ Acceptable(s, ok) /\ Stale(s)
  /\ lastClock' = clock /\ Publish(FALSE, latest, epoch)
  /\ UNCHANGED <<clock, targets, latched, epoch, received>>

TargetAccepted(s, ok) ==
  /\ ~Rollback /\ ~latched /\ Acceptable(s, ok) /\ Fresh(s)
  /\ lastClock' = clock /\ lastSource' = s
  /\ received' = [received EXCEPT ![s] = clock]
  /\ latest' = s /\ lastReceive' = clock
  /\ pending' = -1 /\ pendingReceive' = -1
  /\ UNCHANGED <<clock, latched, epoch, wire>>

-----------------------------------------------------------------------------
(* _evaluate, the timer.  Here a rollback latches without clearing the     *)
(* targets: the latch alone keeps them from being used.                    *)

EvaluateRollback ==
  /\ Rollback /\ latched' = TRUE /\ Publish(FALSE, latest, epoch)
  /\ UNCHANGED <<clock, targets, lastClock, epoch, received>>

EvaluateLatched ==
  /\ ~Rollback /\ latched
  /\ lastClock' = clock /\ Publish(FALSE, latest, epoch)
  /\ UNCHANGED <<clock, targets, latched, epoch, received>>

EvaluateAhead ==
  /\ ~Rollback /\ ~latched /\ pending # -1 /\ Future(pending)
  /\ lastClock' = clock
  /\ PendingDecision(pending, pendingReceive)
  /\ UNCHANGED <<clock, lastSource, epoch, received>>

PendingReceipt_Now == clock
PendingReceipt == pendingReceive

(* A pending target the clock has reached becomes the latest, received     *)
(* when it arrived; one it has passed is forgotten.  Then the latest one   *)
(* is judged by its source age and its receive age.                        *)
EvaluateTargets ==
  LET take == pending # -1 /\ Fresh(pending)
      l == IF take THEN pending ELSE latest
      r == IF take THEN PendingReceipt ELSE lastReceive
      known == l # -1 /\ r # -1
  IN
  /\ ~Rollback /\ ~latched
  /\ pending # -1 => ~Future(pending)
  /\ lastClock' = clock /\ latest' = l /\ lastReceive' = r
  /\ pending' = -1 /\ pendingReceive' = -1
  /\ latched' = (known /\ Future(l))
  /\ Publish(known /\ Fresh(l) /\ clock - r <= WatchdogTimeout, l, epoch)
  /\ UNCHANGED <<clock, lastSource, epoch, received>>

Evaluate ==
  EvaluateRollback \/ EvaluateLatched \/ EvaluateAhead \/ EvaluateTargets

(* _on_reset: a new epoch that knows no target and denies.                 *)
OnReset ==
  /\ epoch < MaxEpoch /\ epoch' = epoch + 1
  /\ lastClock' = clock /\ latched' = FALSE
  /\ latest' = -1 /\ lastReceive' = -1 /\ pending' = -1 /\ pendingReceive' = -1
  /\ lastSource' = -1 /\ received' = [s \in Times |-> -1]
  /\ Publish(FALSE, -1, epoch + 1)
  /\ UNCHANGED clock

MonitorNext ==
  \/ \E s \in Times, ok \in BOOLEAN :
       \/ TargetLatches(s, ok)
       \/ TargetAhead(s, ok)
       \/ TargetStale(s, ok)
       \/ TargetAccepted(s, ok)
  \/ TargetWhileLatched
  \/ Evaluate
  \/ OnReset

=============================================================================
