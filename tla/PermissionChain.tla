---------------------------- MODULE PermissionChain ----------------------------
(***************************************************************************)
(* From a target stamp to a permitted motion: the safety monitor, the      *)
(* permission topic and the MotionPermissionGate of a consumer             *)
(* (trajectory_gate.py: _on_permission, the watchdog and _on_reset).       *)
(*                                                                         *)
(* The environment owns the clock, which may go back, and the topic, which *)
(* keeps the order of messages, drops the oldest of a full queue, and is   *)
(* assumed to deliver within MaxDelay.  Monitor and consumer are reset     *)
(* independently.                                                          *)
(***************************************************************************)
EXTENDS SafetyMonitor

CONSTANTS
  PermissionTimeout,  \* permission_timeout_ms
  MaxDelay,           \* how long a message may stay on the topic
  MaxRollbacks        \* bound on clock rollbacks

ASSUME ChainConstants ==
  PermissionTimeout \in Nat /\ MaxDelay \in Nat /\ MaxRollbacks \in Nat

VARIABLES
  allowed, signal, lastNow, fault,  \* of the consumer's permission gate
  heard,                            \* history: the target its last message permits
  rollbacks                         \* how often the clock has gone back

Gate == INSTANCE PermissionGate WITH Timeout <- PermissionTimeout

consumer == <<allowed, signal, lastNow, fault, heard>>
vars == <<mvars, consumer, rollbacks>>

Init ==
  /\ MonitorInit /\ clock = 0 /\ Gate!GateInit
  /\ heard = -1 /\ rollbacks = 0

(* The clock runs while no message is overdue.                             *)
Advance ==
  /\ clock < MaxTime /\ clock' = clock + 1
  /\ \A i \in DOMAIN wire : clock < wire[i].at + MaxDelay
  /\ UNCHANGED <<targets, lastClock, latched, epoch, wire, received, consumer,
                 rollbacks>>

GoBack ==
  /\ rollbacks < MaxRollbacks /\ rollbacks' = rollbacks + 1
  /\ \E t \in Times : t < clock /\ clock' = t
  /\ UNCHANGED <<targets, lastClock, latched, epoch, wire, received, consumer>>

Monitor == MonitorNext /\ UNCHANGED <<consumer, rollbacks>>

Deliver ==
  /\ wire # <<>> /\ wire' = Tail(wire)
  /\ heard' = Head(wire).src
  /\ Gate!Update(Head(wire).allowed, clock)
  /\ UNCHANGED <<clock, targets, lastClock, latched, epoch, received, rollbacks>>

Ask ==
  /\ Gate!Evaluate(clock)
  /\ UNCHANGED <<mvars, heard, rollbacks>>

ResetConsumer ==
  /\ Gate!ResetEpoch(clock) /\ heard' = -1
  /\ UNCHANGED <<mvars, rollbacks>>

Next == Advance \/ GoBack \/ Monitor \/ Deliver \/ Ask \/ ResetConsumer

Spec == Init /\ [][Next]_vars

(* The monitor's timer keeps firing and the topic keeps delivering.        *)
FairSpec ==
  /\ Spec
  /\ WF_vars(Evaluate /\ UNCHANGED <<consumer, rollbacks>>)
  /\ WF_vars(Deliver)

-----------------------------------------------------------------------------
(* The types.  A pending target is newer than the latest one and is the    *)
(* newest stamp taken.                                                     *)
TypeOK ==
  /\ clock \in Times /\ lastClock \in MaybeTime
  /\ latest \in MaybeTime /\ lastReceive \in MaybeTime
  /\ pending \in MaybeTime /\ pendingReceive \in MaybeTime
  /\ lastSource \in MaybeTime
  /\ pending # -1 => latest < pending /\ pending = lastSource
  /\ latched \in BOOLEAN /\ epoch \in 0..MaxEpoch
  /\ wire \in Seq(Message) /\ Len(wire) <= QueueDepth
  /\ received \in [Times -> MaybeTime]
  /\ allowed \in {"yes", "no", "unknown"} /\ signal \in MaybeTime
  /\ lastNow \in MaybeTime /\ fault \in BOOLEAN
  /\ heard \in MaybeTime /\ rollbacks \in 0..MaxRollbacks

(* A permission of the current epoch stands for a target that arrived in   *)
(* it, was not ahead of the clock, and was within the source age and the   *)
(* receive age - measured from its arrival, however long it was pending    *)
(* (_on_target, _evaluate, _publish_pending_decision).                     *)
TrueIsCovered ==
  \A i \in DOMAIN wire :
    wire[i].allowed /\ wire[i].epoch = epoch =>
      /\ wire[i].src # -1 /\ received[wire[i].src] # -1
      /\ wire[i].at - wire[i].src \in 0..MaxAge
      /\ wire[i].at - received[wire[i].src] \in 0..WatchdogTimeout

(* The last word of a latched monitor is a denial, whichever handler       *)
(* latched and whatever was published around it.                           *)
LatchedDenies == latched /\ wire # <<>> => ~Last(wire).allowed

(* What the consumer permits rests on a target no older than the source    *)
(* age, the delivery time and the permission timeout together, across      *)
(* rollbacks and resets of either side (permission.py evaluate).           *)
Permits == Gate!Allows(clock)

PermissionExpires ==
  Permits =>
    /\ heard # -1
    /\ clock - heard <= MaxAge + MaxDelay + PermissionTimeout

(* Once the latest target has expired at the monitor, the consumer stops   *)
(* permitting motion unless a newer target is taken.                       *)
ExpiryDenies ==
  LET outlived == Permits /\ latest # -1 /\ clock > latest + MaxAge
  IN  outlived ~> ~outlived

=============================================================================
