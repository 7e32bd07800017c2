------------------------------- MODULE Pipeline -------------------------------
(***************************************************************************)
(* The dependency-free pipeline controller: src/src/edgegrasp/             *)
(* controller.py (EdgeGraspController) over fsm.py (StateMachine),         *)
(* predictor.py, safety.py and the backend contract of backend.py.         *)
(*                                                                         *)
(* The controller has no lock and no thread, but it hands control away:    *)
(* while planner.plan or backend.execute runs, the callee (a watchdog, an  *)
(* operator) may call tick, stop, reset or process_target again.  The calls*)
(* of process_target that are in progress are a stack of frames; every     *)
(* other method is one action, at the top level or inside a callback.      *)
(* backend.stop is assumed not to call the controller.                     *)
(***************************************************************************)
EXTENDS Integers, Sequences

CONSTANTS
  Ids,              \* target identifiers
  MaxTime,          \* clock readings are 0..MaxTime, or -1 for an invalid one
  MaxAge,           \* StaleTargetGate.max_age_ns
  WatchdogTimeout,  \* watchdog_timeout_ns
  MaxEpoch,         \* bound on clock epochs
  MaxDepth,         \* bound on process_target calls in progress
  None

Times  == 0..MaxTime
Nows   == Times \cup {-1}
States == {"IDLE", "TRACKING", "PLANNING", "EXECUTING", "SAFE_STOP", "ERROR"}
Latched == {"SAFE_STOP", "ERROR"}

(* A target is an identity and a source stamp; ok is whether its frame,    *)
(* domain, epoch and confidence are acceptable.                            *)
Target == [id : Ids, src : Times, ok : BOOLEAN]
Seen   == [id : Ids, src : Times]

ASSUME PipelineConstants ==
  /\ MaxTime \in Nat /\ MaxAge \in Nat /\ WatchdogTimeout \in Nat
  /\ MaxEpoch \in Nat /\ MaxDepth \in Nat \ {0}
  /\ None \notin Seen

(* A process_target call inside planner.plan or backend.execute. *)
Frame == [pc : {"planning", "executing"}, src : Times, at : Times,
          exec : Nows, epoch : 0..MaxEpoch]

VARIABLES
  state,        \* state_machine.state
  stack,        \* process_target calls in progress, the innermost last
  seen,         \* the predictor's latest observation
  lastNow,      \* _last_now_ns, -1 for None
  lastReceive,  \* _last_fresh_receive_ns, -1 for None
  clockFault,   \* _clock_fault_latched
  epoch,        \* _clock_epoch
  moving,       \* the backend is carrying out a plan
  raised        \* a method ended in the ValueError of StateMachine.transition

vars == <<state, stack, seen, lastNow, lastReceive, clockFault, epoch, moving,
          raised>>

Init ==
  /\ state = "IDLE" /\ stack = <<>> /\ seen = None
  /\ lastNow = -1 /\ lastReceive = -1
  /\ clockFault = FALSE /\ epoch = 0 /\ moving = FALSE /\ raised = FALSE

-----------------------------------------------------------------------------
(* A name X_Y is a wrong variant of X, Y saying how; no specification uses *)
(* it.  They show which properties notice the mistake.                     *)
ClockBad_NeverBack(now) == now < 0

(* _observe_clock refuses an invalid reading and one behind the last.      *)
ClockBad(now) == now < 0 \/ now < lastNow

Fresh(src, now) == now - src \in 0..MaxAge

Silent_TwiceAsLong(now) == now - lastReceive > 2 * WatchdogTimeout
Silent(now) == now - lastReceive > WatchdogTimeout

(* _safe_stop: a latched controller stays as it is; otherwise the backend  *)
(* is stopped and a stop that is not confirmed is an error.                *)
SafeStop(stopOk) ==
  IF state \in Latched THEN UNCHANGED <<state, moving>>
  ELSE /\ state' = IF stopOk THEN "SAFE_STOP" ELSE "ERROR"
       /\ moving' = (moving /\ ~stopOk)

(* _enter_error stops the backend, then transitions to ERROR.  SAFE_STOP   *)
(* has no such transition: StateMachine.transition raises.                 *)
EnterError(stopOk) ==
  /\ moving' = (moving /\ ~stopOk)
  /\ state' = IF state = "SAFE_STOP" THEN state ELSE "ERROR"
  /\ raised' = (raised \/ state = "SAFE_STOP")

Top == stack[Len(stack)]
Pop == stack' = SubSeq(stack, 1, Len(stack) - 1)

-----------------------------------------------------------------------------
(* process_target: a controller that is latched or busy answers at once    *)
(* and changes nothing; the other calls are refused or reach the planner.  *)

Acceptable(t, now) ==
  /\ t.ok /\ Fresh(t.src, now)
  /\ seen # None /\ seen.id = t.id => seen.src < t.src

TargetRefused(t, now, stopOk) ==
  /\ state \in {"IDLE", "TRACKING"} /\ Len(stack) < MaxDepth
  /\ ClockBad(now) \/ ~Acceptable(t, now)
  /\ SafeStop(stopOk)
  /\ lastNow' = IF ClockBad(now) THEN lastNow ELSE now
  /\ clockFault' = (clockFault \/ ClockBad(now))
  /\ UNCHANGED <<stack, seen, lastReceive, epoch, raised>>

TargetPlanned(t, now, exec) ==
  /\ state \in {"IDLE", "TRACKING"} /\ Len(stack) < MaxDepth
  /\ ~ClockBad(now) /\ Acceptable(t, now)
  /\ state' = "PLANNING"
  /\ seen' = [id |-> t.id, src |-> t.src]
  /\ lastNow' = now /\ lastReceive' = now
  /\ stack' = Append(stack, [pc |-> "planning", src |-> t.src, at |-> now,
                             exec |-> exec, epoch |-> epoch])
  /\ UNCHANGED <<clockFault, epoch, moving, raised>>

PlannerRaises(stopOk) ==
  /\ stack # <<>> /\ Top.pc = "planning"
  /\ EnterError(stopOk) /\ Pop
  /\ UNCHANGED <<seen, lastNow, lastReceive, clockFault, epoch>>

(* The plan is dropped: the call was interrupted, the plan refused, or the *)
(* execute boundary finds the clock, the target or the stream unfit.       *)
PlanDropped(valid, stopOk) ==
  LET bad == ClockBad(Top.exec) IN
  /\ stack # <<>> /\ Top.pc = "planning"
  /\ Pop
  /\ IF state # "PLANNING" \/ ~valid
       THEN UNCHANGED <<lastNow, clockFault>>
       ELSE /\ bad \/ ~Fresh(Top.src, Top.exec) \/ Silent(Top.exec)
            /\ lastNow' = IF bad THEN lastNow ELSE Top.exec
            /\ clockFault' = (clockFault \/ bad)
  /\ IF state # "PLANNING" THEN UNCHANGED <<state, moving>> ELSE SafeStop(stopOk)
  /\ UNCHANGED <<seen, lastReceive, epoch, raised>>

PlanExecuted_Uninterrupted ==
  /\ stack # <<>> /\ Top.pc = "planning" /\ state \notin Latched
  /\ ~ClockBad(Top.exec) /\ Fresh(Top.src, Top.exec) /\ ~Silent(Top.exec)
  /\ state' = "EXECUTING" /\ moving' = TRUE
  /\ lastNow' = Top.exec
  /\ stack' = [stack EXCEPT ![Len(stack)].pc = "executing"]
  /\ UNCHANGED <<seen, lastReceive, clockFault, epoch, raised>>

PlanExecuted ==
  /\ stack # <<>> /\ Top.pc = "planning" /\ state = "PLANNING"
  /\ ~ClockBad(Top.exec) /\ Fresh(Top.src, Top.exec) /\ ~Silent(Top.exec)
  /\ state' = "EXECUTING" /\ moving' = TRUE
  /\ lastNow' = Top.exec
  /\ stack' = [stack EXCEPT ![Len(stack)].pc = "executing"]
  /\ UNCHANGED <<seen, lastReceive, clockFault, epoch, raised>>

ExecuteRaises(stopOk) ==
  /\ stack # <<>> /\ Top.pc = "executing"
  /\ EnterError(stopOk) /\ Pop
  /\ UNCHANGED <<seen, lastNow, lastReceive, clockFault, epoch>>

(* backend.execute returns: by its contract the plan is over.  A failed or *)
(* ill-typed result is an error, unless the call was interrupted.          *)
ExecuteReturns(success) ==
  /\ stack # <<>> /\ Top.pc = "executing" /\ Pop
  /\ moving' = FALSE
  /\ state' = CASE state # "EXECUTING"             -> state
                [] state = "EXECUTING" /\ success -> "TRACKING"
                [] OTHER                           -> "ERROR"
  /\ UNCHANGED <<seen, lastNow, lastReceive, clockFault, epoch, raised>>

-----------------------------------------------------------------------------
(* tick, stop and reset, from outside or from a callback.                  *)

Tick(now, stopOk) ==
  LET bad == ClockBad(now) IN
  /\ lastNow' = IF bad THEN lastNow ELSE now
  /\ clockFault' = (clockFault \/ bad)
  /\ IF \/ bad
        \/ lastReceive = -1 /\ state # "IDLE"
        \/ lastReceive # -1 /\ Silent(now)
       THEN SafeStop(stopOk) ELSE UNCHANGED <<state, moving>>
  /\ UNCHANGED <<stack, seen, lastReceive, epoch, raised>>

Stop(now, stopOk) ==
  LET bad == ClockBad(now) IN
  /\ state \notin Latched
  /\ lastNow' = IF bad THEN lastNow ELSE now
  /\ clockFault' = (clockFault \/ bad)
  /\ SafeStop(stopOk)
  /\ UNCHANGED <<stack, seen, lastReceive, epoch, raised>>

(* A reset whose clock reading went back latches the clock fault and       *)
(* leaves the state as it is.                                              *)
ResetRollback(now) ==
  /\ now # -1 /\ ~clockFault /\ ClockBad(now)
  /\ clockFault' = TRUE
  /\ UNCHANGED <<state, stack, seen, lastNow, lastReceive, epoch, moving,
                 raised>>

MustStop_ExecutingOnly == state \in {"PLANNING", "EXECUTING"}
MustStop == state \in {"PLANNING", "EXECUTING", "ERROR"}

Forget == seen' = None /\ lastReceive' = -1

(* Otherwise it needs a confirmed stop when something may be moving; only  *)
(* a new epoch forgives a clock fault or lets the clock go back.           *)
Reset(now, newEpoch, stopOk) ==
  /\ now # -1
  /\ IF newEpoch THEN epoch < MaxEpoch ELSE ~clockFault /\ ~ClockBad(now)
  /\ IF MustStop THEN moving' = (moving /\ ~stopOk) ELSE UNCHANGED moving
  /\ IF MustStop /\ ~stopOk
       THEN /\ state' = "ERROR"
            /\ lastNow' = IF newEpoch THEN lastNow ELSE now
            /\ UNCHANGED <<seen, lastReceive, epoch, clockFault>>
       ELSE /\ state' = "IDLE" /\ Forget /\ lastNow' = now
            /\ epoch' = IF newEpoch THEN epoch + 1 ELSE epoch
            /\ clockFault' = (clockFault /\ ~newEpoch)
  /\ UNCHANGED <<stack, raised>>

Next ==
  \E now \in Nows, stopOk \in BOOLEAN :
    \/ \E t \in Target : TargetRefused(t, now, stopOk)
    \/ \E t \in Target, exec \in Nows : TargetPlanned(t, now, exec)
    \/ PlannerRaises(stopOk)
    \/ \E valid \in BOOLEAN : PlanDropped(valid, stopOk)
    \/ PlanExecuted
    \/ ExecuteRaises(stopOk)
    \/ \E success \in BOOLEAN : ExecuteReturns(success)
    \/ Tick(now, stopOk)
    \/ Stop(now, stopOk)
    \/ ResetRollback(now)
    \/ \E newEpoch \in BOOLEAN : Reset(now, newEpoch, stopOk)

Spec == Init /\ [][Next]_vars

(* The caller's watchdog: outside a callback, tick keeps being called and  *)
(* the clock it reads keeps running, up to its last value here.            *)
FairSpec ==
  Spec /\ WF_vars(stack = <<>> /\ \E stopOk \in BOOLEAN : Tick(MaxTime, stopOk))

-----------------------------------------------------------------------------
(* The types.  The receipt the watchdog measures from is never ahead of    *)
(* the clock of the epoch it belongs to, and exists exactly when the       *)
(* predictor holds an observation.                                         *)
TypeOK ==
  /\ state \in States /\ stack \in Seq(Frame) /\ Len(stack) <= MaxDepth
  /\ seen \in Seen \cup {None}
  /\ lastNow \in Nows /\ lastReceive \in -1..lastNow
  /\ lastReceive = -1 <=> seen = None
  /\ clockFault \in BOOLEAN /\ epoch \in 0..MaxEpoch
  /\ moving \in BOOLEAN /\ raised \in BOOLEAN

(* Whatever stops, resets and errors the callbacks of nested calls bring,  *)
(* the backend moves only while the controller says EXECUTING, or says     *)
(* ERROR because a stop was not confirmed: IDLE, TRACKING and SAFE_STOP    *)
(* are promises that nothing moves (reset, _safe_stop, _enter_error).      *)
StillUnlessExecuting == moving => state \in {"EXECUTING", "ERROR"}

(* A plan goes to the backend only if the call that planned it is the one  *)
(* the state is about: the epoch, the receipt and the observation are      *)
(* still those it was accepted with, and at the execute boundary the       *)
(* source is fresh and the stream is not silent (process_target 256-300).  *)
ExecutionIsSafe ==
  [][state # "EXECUTING" /\ state' = "EXECUTING" =>
       /\ Top.epoch = epoch /\ Top.at = lastReceive /\ Top.src = seen.src
       /\ lastNow' - Top.src \in 0..MaxAge
       /\ lastNow' - lastReceive \in 0..WatchdogTimeout]_vars

(* Within an epoch the clock does not go back and a clock fault is not     *)
(* forgiven: only reset(new_clock_epoch=True) does either.                 *)
EpochsSeparateTime ==
  [][epoch' = epoch => lastNow' >= lastNow /\ (clockFault => clockFault')]_vars

(* With the watchdog ticking, a controller waiting for its next target     *)
(* does not wait beyond the timeout: it goes on to a new target, or leaves *)
(* TRACKING (tick 380-387).                                                *)
WatchdogStops ==
  stack = <<>> /\ state = "TRACKING" /\ lastReceive + WatchdogTimeout < MaxTime
    ~> state # "TRACKING"

=============================================================================
