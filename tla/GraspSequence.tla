---------------------------- MODULE GraspSequence ----------------------------
(***************************************************************************)
(* The four-stage grasp coordinator of src/src/edgegrasp/grasp_sequence.py *)
(* (class GraspSequenceController).                                        *)
(*                                                                         *)
(* Every public method runs under one re-entrant lock, so a method call is *)
(* one action.  The arm, gripper and stop ports answer synchronously; what *)
(* they answer is chosen by the environment inside the action, and so are  *)
(* the method's arguments: the caller's clock reading, the health snapshot *)
(* and the report.  Three environment variables record what is really      *)
(* going on downstream of the ports (live, succeeded) and which commands   *)
(* were handed to a port (issued, lastIssue); no guard of the controller   *)
(* reads them.                                                             *)
(***************************************************************************)
EXTENDS Integers, FiniteSets

CONSTANTS
  TaskIds,         \* task identifiers a client may use
  Targets,         \* target identifiers
  MaxTime,         \* clock readings are 0..MaxTime, or -1 for an invalid one
  MaxEpoch,        \* bound on clock epochs
  SourceTimeout,   \* source_timeout_ns
  SignalTimeout,   \* signal_timeout_ns: one entry per health signal
  CommandTimeout,  \* command_timeout_ns
  Healths,         \* health snapshots the wrapper may pass
  TaskInputs,      \* task snapshots a client may start
  None             \* absence of a task, a command or an issue

Stages  == 0..3    \* sequence_no of approach, descend, close_gripper, lift
Gripper == 2       \* the one stage that goes to the gripper port
LastStage == 3
Commands == TaskIds \X Stages   \* make_trajectory_command_id is injective
Times    == 0..MaxTime
Epochs   == 0..MaxEpoch

PlanPhases == {"APPROACH_PLAN", "DESCEND_PLAN", "LIFT_PLAN"}
ExecPhases == {"APPROACH_EXEC", "DESCEND_EXEC", "CLOSE_GRIPPER_EXEC",
               "LIFT_EXEC"}
Busy       == PlanPhases \cup ExecPhases
Phases     == Busy \cup {"IDLE", "COMPLETE", "SAFE_STOP"}

(* _STAGE_TO_PHASES: the phase a stage is issued in and its running phase. *)
IssuePhase == [s \in Stages |-> CASE s = 0 -> "APPROACH_PLAN"
                                  [] s = 1 -> "DESCEND_PLAN"
                                  [] s = 2 -> "CLOSE_GRIPPER_EXEC"
                                  [] OTHER -> "LIFT_PLAN"]
ExecPhase  == [s \in Stages |-> CASE s = 0 -> "APPROACH_EXEC"
                                  [] s = 1 -> "DESCEND_EXEC"
                                  [] s = 2 -> "CLOSE_GRIPPER_EXEC"
                                  [] OTHER -> "LIFT_EXEC"]

(***************************************************************************)
(* Inputs.  A signal is ready, not ready, or not ready with a reason that  *)
(* names a clock fault (the reason text becomes part of the stop reason    *)
(* and _is_clock_fault_reason searches it).                                *)
(***************************************************************************)
SignalStates == {"ready", "not_ready", "clock_reason"}
Signal == [state : SignalStates, at : Times]
Health == [typed : BOOLEAN, clockOk : BOOLEAN, target : Targets, src : Times,
           signals : [DOMAIN SignalTimeout -> Signal]]
Task   == [id : TaskIds, target : Targets, src : Times,
           frameOk : BOOLEAN, clockOk : BOOLEAN]

(* A stage report names a command, the echoed field that disagrees with    *)
(* the command (or "exact"), and what it proves: the whole success         *)
(* contract, only that the downstream goal is over, or nothing.            *)
Echoes  == {"exact", "target", "clock", "source", "controller",
            "completed_early", "completed_future"}
ArmEchoes == {"exact", "target", "clock", "source"}
Results == {"succeeded", "ended", "unproven"}
Report  == [task : TaskIds, stage : Stages, echo : Echoes, result : Results]

Active == [cmd : Commands, src : Times, at : Times]
Issue  == [cmd : Commands, src : Times, at : Times, epoch : Epochs]

ASSUME ConstantsOK ==
  /\ IsFiniteSet(TaskIds)
  /\ MaxTime \in Nat /\ MaxEpoch \in Nat
  /\ SourceTimeout \in Nat /\ CommandTimeout \in Nat
  /\ SignalTimeout \in [1..4 -> Nat]
  /\ Healths \subseteq Health
  /\ TaskInputs \subseteq Task
  /\ None \notin Active \cup Task \cup Issue

VARIABLES
  phase, task, active,
  completed,          \* _completed_commands
  usedTaskIds,        \* _used_task_ids
  lastNow,            \* _last_now_ns, -1 for None
  lastSource,         \* _last_target_source_timestamp_ns, -1 for None
  recoveryRequired, cancelTerminalConfirmed, stopAllTerminalConfirmed,
  clockFault, epoch,
  outcome,            \* sequence_completed of _outcome, or "none"
  live,               \* commands that may still cause motion downstream
  succeeded,          \* commands whose motion really ended in success
  issued,             \* commands handed to a port
  lastIssue           \* the latest of them, with its binding

evidence == <<recoveryRequired, cancelTerminalConfirmed,
              stopAllTerminalConfirmed>>
ghosts   == <<live, succeeded, issued, lastIssue>>
vars == <<phase, task, active, completed, usedTaskIds, lastNow, lastSource,
          evidence, clockFault, epoch, outcome, ghosts>>

Init ==
  /\ phase = "IDLE" /\ task = None /\ active = None
  /\ completed = {} /\ usedTaskIds = {}
  /\ lastNow = -1 /\ lastSource = -1
  /\ recoveryRequired = FALSE
  /\ cancelTerminalConfirmed = TRUE /\ stopAllTerminalConfirmed = TRUE
  /\ clockFault = FALSE /\ epoch = 0 /\ outcome = "none"
  /\ live = {} /\ succeeded = {} /\ issued = {} /\ lastIssue = None

-----------------------------------------------------------------------------
(* Clock and health checks.                                                *)

(* _observe_clock refuses an invalid reading and one behind the last one;  *)
(* a refused reading is not remembered.                                    *)
ClockBad(now)     == now < 0 \/ now < lastNow
NowAfter(now)     == IF ClockBad(now) THEN lastNow ELSE now

SignalFault(sig, limit, now) ==
  IF sig.at > now THEN "clock"
  ELSE IF now - sig.at > limit THEN "other"
  ELSE IF sig.state = "clock_reason" THEN "clock"
  ELSE IF sig.state = "not_ready" THEN "other" ELSE "none"

(* _health_reason, as the class of the first reason found: "clock" when    *)
(* _is_clock_fault_reason recognises it, "other", or "none".  t is the     *)
(* task the method has bound by then.                                      *)
HealthFault(h, now, t) ==
  LET faultOf(i) == SignalFault(h.signals[i], SignalTimeout[i], now)
      bad        == {i \in DOMAIN SignalTimeout : faultOf(i) # "none"}
  IN IF ~h.typed THEN "other"
     ELSE IF ~h.clockOk THEN "clock"
     ELSE IF t # None /\ h.target # t.target THEN "other"
     ELSE IF h.src > now THEN "clock"
     ELSE IF now - h.src > SourceTimeout THEN "other"
     ELSE IF h.src < lastSource THEN "clock"
     ELSE IF bad = {} THEN "none"
     ELSE faultOf(CHOOSE i \in bad : \A j \in bad : i <= j)

(* _validate_task, classed the same way.                                   *)
TaskFault(t, now) ==
  IF ~t.frameOk THEN "other"
  ELSE IF ~t.clockOk \/ t.src > now THEN "clock"
  ELSE IF now - t.src > SourceTimeout THEN "other" ELSE "none"

(* A name X_Y is a wrong variant of X, Y saying how: what the definition   *)
(* would be with a plausible mistake in the code it translates.  No        *)
(* specification uses them; they show which properties notice the mistake. *)
TimedOut_TwiceAsLate(now) ==
  active # None /\ now - active.at > 2 * CommandTimeout

TimedOut(now) == active # None /\ now - active.at > CommandTimeout

(* The event guard lets a handler go on: a sequence is running, the clock  *)
(* did not go back, the snapshot is healthy, the command is not overdue.   *)
Admits(h, now) ==
  /\ phase \in Busy
  /\ ~ClockBad(now)
  /\ HealthFault(h, now, task) = "none"
  /\ ~TimedOut(now)

-----------------------------------------------------------------------------
(***************************************************************************)
(* _fail_closed: cancel the active command, then stop everything, then     *)
(* latch SAFE_STOP.  act and lv are the active command and the downstream  *)
(* motion as the calling method left them.  The ports are honest: a cancel *)
(* confirmed terminal means that command is over, and a confirmed stop_all *)
(* means every command but the active one is (the active one is what the   *)
(* cancel answers for).  Any other answer, an exception included, promises *)
(* nothing.                                                                *)
(***************************************************************************)
CancelReplies == {"terminal_confirmed", "unconfirmed"}

RecoveryNeeded_EitherEnough(cancelOk, stopOk) == ~(cancelOk \/ stopOk)

RecoveryNeeded(cancelOk, stopOk) == ~(cancelOk /\ stopOk)

FailClosed(now, fault, act, lv) ==
  \E cancel \in CancelReplies, stopOk \in BOOLEAN :
    LET mine     == IF act = None THEN {} ELSE {act.cmd}
        cancelOk == act = None \/ cancel = "terminal_confirmed"
        left     == IF cancelOk THEN lv \ mine ELSE lv
    IN /\ phase' = "SAFE_STOP"
       /\ lastNow' = NowAfter(now)
       /\ clockFault' = (clockFault \/ fault \/ ClockBad(now))
       /\ active' = act
       /\ live' = IF stopOk THEN left \cap mine ELSE left
       /\ cancelTerminalConfirmed' = cancelOk
       /\ stopAllTerminalConfirmed' = stopOk
       /\ recoveryRequired' = RecoveryNeeded(cancelOk, stopOk)
       /\ outcome' = "stopped"

(* A stop that touches nothing but what _fail_closed itself writes.        *)
Abort(now, fault) ==
  /\ FailClosed(now, fault, active, live)
  /\ UNCHANGED <<task, completed, usedTaskIds, epoch, succeeded, issued,
                 lastIssue>>

(***************************************************************************)
(* _issue_arm and _issue_gripper: move to the issuing phase, remember the  *)
(* active command, submit.  A submit that raises leaves the command        *)
(* active; a rejected one does not.  Neither proves that the goal was not  *)
(* sent: the wrapper rejects after sending when the goal callback cannot   *)
(* be attached (sequence node, _submit_arm).                               *)
(***************************************************************************)
SubmitReplies == {"accepted", "rejected", "raised"}

Issues(t, stage, now, src) ==
  LET cmd == <<t.id, stage>>
      new == [cmd |-> cmd, src |-> src, at |-> now]
  IN /\ issued' = issued \cup {cmd}
     /\ lastIssue' = [cmd |-> cmd, src |-> src, at |-> now, epoch |-> epoch]
     /\ \E reply \in SubmitReplies, sent \in BOOLEAN :
          LET lv == IF sent THEN live \cup {cmd} ELSE live
          IN \/ /\ reply = "accepted" /\ sent
                /\ phase' = IssuePhase[stage]
                /\ active' = new
                /\ live' = lv
                /\ lastNow' = now
                /\ UNCHANGED <<evidence, clockFault, outcome>>
             \/ /\ reply = "rejected"
                /\ FailClosed(now, FALSE, None, lv)
             \/ /\ reply = "raised"
                /\ FailClosed(now, FALSE, new, lv)

-----------------------------------------------------------------------------
(* start                                                                   *)

(* The task is bound before it is validated; the health snapshot may       *)
(* advance the source watermark even when the admission then fails.        *)
StartRefused(t, h, now) ==
  /\ phase = "IDLE"
  /\ \/ /\ ClockBad(now)
        /\ task' = task /\ lastSource' = lastSource
        /\ FailClosed(now, TRUE, active, live)
     \/ /\ ~ClockBad(now)
        /\ task' = t
        /\ \/ /\ TaskFault(t, now) # "none"
              /\ lastSource' = lastSource
              /\ FailClosed(now, TaskFault(t, now) = "clock", active, live)
           \/ /\ TaskFault(t, now) = "none"
              /\ t.id \in usedTaskIds
              /\ lastSource' = lastSource
              /\ FailClosed(now, FALSE, active, live)
           \/ /\ TaskFault(t, now) = "none"
              /\ t.id \notin usedTaskIds
              /\ HealthFault(h, now, t) # "none"
              /\ lastSource' = lastSource
              /\ FailClosed(now, HealthFault(h, now, t) = "clock",
                            active, live)
           \/ /\ TaskFault(t, now) = "none"
              /\ t.id \notin usedTaskIds
              /\ HealthFault(h, now, t) = "none"
              /\ h.src # t.src
              /\ lastSource' = h.src
              /\ FailClosed(now, FALSE, active, live)
  /\ UNCHANGED <<completed, usedTaskIds, epoch, succeeded, issued, lastIssue>>

StartAdmitted(t, h, now) ==
  /\ phase = "IDLE" /\ ~ClockBad(now)
  /\ TaskFault(t, now) = "none"
  /\ t.id \notin usedTaskIds
  /\ HealthFault(h, now, t) = "none"
  /\ h.src = t.src
  /\ task' = t
  /\ usedTaskIds' = usedTaskIds \cup {t.id}
  /\ lastSource' = h.src
  /\ Issues(t, 0, now, h.src)
  /\ UNCHANGED <<completed, epoch, succeeded>>

(* An object that is not a task snapshot stops even an idle controller.    *)
StartInvalid(now) ==
  /\ phase = "IDLE"
  /\ Abort(now, ClockBad(now))
  /\ UNCHANGED lastSource

-----------------------------------------------------------------------------
(* arm_execution_started, on_arm_terminal, on_gripper_terminal             *)

(* _event_guard trips, whatever the event was.                             *)
EventRefused(h, now) ==
  /\ phase \in Busy
  /\ \/ /\ ClockBad(now)
        /\ Abort(now, TRUE) /\ UNCHANGED lastSource
     \/ /\ ~ClockBad(now) /\ HealthFault(h, now, task) # "none"
        /\ Abort(now, HealthFault(h, now, task) = "clock")
        /\ UNCHANGED lastSource
     \/ /\ ~ClockBad(now) /\ HealthFault(h, now, task) = "none"
        /\ TimedOut(now)
        /\ Abort(now, FALSE) /\ lastSource' = h.src

(* _is_known_prior_task_event *)
PriorTask(id) == task # None /\ id \in usedTaskIds /\ id # task.id

(* _correlation_reason = None, for a report on command <<id, stage>>.      *)
Correlated(id, stage) ==
  /\ <<id, stage>> \notin completed
  /\ task # None /\ active # None
  /\ active.cmd = <<id, stage>>
  /\ id = task.id

(* A healthy event that changes nothing but the two watermarks.            *)
Noted(h, now) ==
  /\ lastNow' = now /\ lastSource' = h.src
  /\ UNCHANGED <<task, active, completed, usedTaskIds, evidence, clockFault,
                 epoch, outcome, ghosts>>

ExecutionStarted(id, stage, h, now) ==
  /\ Admits(h, now)
  /\ \/ /\ <<id, stage>> \in completed
        /\ Noted(h, now) /\ UNCHANGED phase
     \/ /\ <<id, stage>> \notin completed
        /\ ~(Correlated(id, stage) /\ stage # Gripper)
        /\ Abort(now, FALSE) /\ lastSource' = h.src
     \/ /\ Correlated(id, stage) /\ stage # Gripper
        /\ phase' = IF phase \in PlanPhases THEN ExecPhase[stage] ELSE phase
        /\ Noted(h, now)

(* A report that a handler accepts as evidence must be true: a goal that   *)
(* is reported over is over, one reported successful succeeded.  Reports   *)
(* that prove nothing may say anything.                                    *)
Honest(m) ==
  LET cmd == <<m.task, m.stage>>
  IN /\ m.result # "unproven" => cmd \in issued \ live
     /\ m.result = "succeeded" => cmd \in succeeded
     /\ m.stage # Gripper => m.echo \in ArmEchoes

(* Echoed fields that count as a clock fault when they disagree.           *)
ClockEchoes == {"clock", "completed_future"}

ContractHolds_AnyEnd(m) == m.result # "unproven"

(* _arm_terminal_reason and _gripper_terminal_reason find nothing missing. *)
ContractHolds(m) == m.result = "succeeded"

(* _has_correlated_downstream_terminal: legal terminal statuses of both    *)
(* the wrapper and the downstream goal.  The success contract implies it.  *)
DownstreamOver(m) == m.result \in {"succeeded", "ended"}

(* COMPLETE, or the next stage bound to the source stamp of this snapshot. *)
StageSucceeded(m, h, now) ==
  /\ completed' = completed \cup {<<m.task, m.stage>>}
  /\ IF m.stage = LastStage
       THEN /\ phase' = "COMPLETE" /\ active' = None /\ outcome' = "completed"
            /\ lastNow' = now
            /\ UNCHANGED <<evidence, clockFault, live, issued, lastIssue>>
       ELSE Issues(task, m.stage + 1, now, h.src)
  /\ UNCHANGED <<task, usedTaskIds, epoch, succeeded>>

(* _terminal_failure: a proven downstream end retires the command, so      *)
(* there is nothing left to cancel.                                        *)
StageFailed(m, now) ==
  LET over == DownstreamOver(m)
  IN /\ completed' = IF over THEN completed \cup {<<m.task, m.stage>>}
                             ELSE completed
     /\ FailClosed(now, FALSE, IF over THEN None ELSE active, live)
     /\ UNCHANGED <<task, usedTaskIds, epoch, succeeded, issued, lastIssue>>

StageTerminal(m, h, now) ==
  /\ Honest(m) /\ ~PriorTask(m.task)
  /\ Admits(h, now)
  /\ lastSource' = h.src
  /\ \/ /\ <<m.task, m.stage>> \in completed
        /\ lastNow' = now
        /\ UNCHANGED <<phase, task, active, completed, usedTaskIds, evidence,
                       clockFault, epoch, outcome, ghosts>>
     \/ /\ <<m.task, m.stage>> \notin completed /\ ~Correlated(m.task, m.stage)
        /\ Abort(now, FALSE)
     \/ /\ Correlated(m.task, m.stage) /\ m.echo # "exact"
        /\ Abort(now, m.echo \in ClockEchoes)
     \/ /\ Correlated(m.task, m.stage) /\ m.echo = "exact"
        /\ IF ContractHolds(m) THEN StageSucceeded(m, h, now)
                                     ELSE StageFailed(m, now)

LateTerminal_KeepsRecovery(m, now) ==
  /\ Honest(m) /\ ~PriorTask(m.task)
  /\ phase = "SAFE_STOP" /\ ~ClockBad(now)
  /\ lastNow' = now
  /\ IF Correlated(m.task, m.stage) /\ m.echo = "exact" /\ DownstreamOver(m)
       THEN /\ active' = None
            /\ completed' = completed \cup {active.cmd}
            /\ cancelTerminalConfirmed' = TRUE
            /\ UNCHANGED <<recoveryRequired, stopAllTerminalConfirmed>>
       ELSE UNCHANGED <<active, completed, evidence>>
  /\ UNCHANGED <<phase, task, usedTaskIds, lastSource, clockFault, epoch,
                 outcome, ghosts>>

(* _confirm_late_terminal: after a stop a report can only clear the need   *)
(* for recovery; a clock fault seen here still raises the clock latch.     *)
LateTerminal(m, now) ==
  /\ Honest(m) /\ ~PriorTask(m.task)
  /\ phase = "SAFE_STOP"
  /\ \/ /\ ClockBad(now)
        /\ clockFault' = TRUE
        /\ UNCHANGED <<active, completed, lastNow, evidence>>
     \/ /\ ~ClockBad(now)
        /\ lastNow' = now
        /\ IF /\ task # None /\ active # None
              /\ m.task = task.id /\ active.cmd = <<m.task, m.stage>>
              /\ m.echo = "exact" /\ DownstreamOver(m)
             THEN /\ active' = None
                  /\ completed' = completed \cup {active.cmd}
                  /\ cancelTerminalConfirmed' = TRUE
                  /\ recoveryRequired' =
                       RecoveryNeeded(TRUE, stopAllTerminalConfirmed)
                  /\ UNCHANGED stopAllTerminalConfirmed
             ELSE UNCHANGED <<active, completed, evidence>>
        /\ UNCHANGED clockFault
  /\ UNCHANGED <<phase, task, usedTaskIds, lastSource, epoch, outcome, ghosts>>

(* A report of the wrong type stops the controller in every phase.         *)
InvalidTerminal(now) ==
  /\ phase # "SAFE_STOP"
  /\ Abort(now, FALSE)
  /\ UNCHANGED lastSource

-----------------------------------------------------------------------------
(* tick, request_stop, reset                                               *)

(* Unlike the event guard, tick does not class the health reason: a clock  *)
(* fault seen by the watchdog alone does not raise the clock latch.        *)
Tick(h, now) ==
  \/ /\ phase \in Busy
     /\ \/ /\ ClockBad(now)
           /\ Abort(now, TRUE) /\ UNCHANGED lastSource
        \/ /\ ~ClockBad(now) /\ HealthFault(h, now, task) # "none"
           /\ Abort(now, FALSE) /\ UNCHANGED lastSource
        \/ /\ ~ClockBad(now) /\ HealthFault(h, now, task) = "none"
           /\ TimedOut(now)
           /\ Abort(now, FALSE) /\ lastSource' = h.src
        \/ /\ Admits(h, now)
           /\ Noted(h, now) /\ UNCHANGED phase
  \/ /\ phase = "SAFE_STOP"
     /\ UNCHANGED vars

(* tick and request_stop with no sequence running only watch the clock.    *)
IdleClock(now) ==
  /\ phase \in {"IDLE", "COMPLETE"}
  /\ \/ /\ ClockBad(now)
        /\ Abort(now, TRUE) /\ UNCHANGED lastSource
     \/ /\ ~ClockBad(now)
        /\ lastNow' = now
        /\ UNCHANGED <<phase, task, active, completed, usedTaskIds, lastSource,
                       evidence, clockFault, epoch, outcome, ghosts>>

RequestStop(now) ==
  /\ phase \in Busy
  /\ Abort(now, FALSE)
  /\ UNCHANGED lastSource

Fresh(now) ==
  /\ phase' = "IDLE" /\ task' = None /\ active' = None
  /\ completed' = {} /\ lastNow' = now /\ lastSource' = -1
  /\ recoveryRequired' = FALSE
  /\ cancelTerminalConfirmed' = TRUE /\ stopAllTerminalConfirmed' = TRUE
  /\ clockFault' = FALSE /\ outcome' = "none"

Reset_Unconfirmed(now, newEpoch, externalStop) ==
  /\ now >= 0 /\ phase \in {"SAFE_STOP", "COMPLETE"}
  /\ newEpoch \in epoch..MaxEpoch
  /\ newEpoch = epoch => ~clockFault /\ now >= lastNow
  /\ Fresh(now) /\ epoch' = newEpoch /\ UNCHANGED <<usedTaskIds, ghosts>>

Reset_RollsBack(now, newEpoch, externalStop) ==
  /\ now >= 0 /\ phase \in {"SAFE_STOP", "COMPLETE"}
  /\ externalStop => live = {}
  /\ recoveryRequired => externalStop
  /\ newEpoch \in epoch..MaxEpoch
  /\ newEpoch = epoch => ~clockFault
  /\ Fresh(now) /\ epoch' = newEpoch /\ UNCHANGED <<usedTaskIds, ghosts>>

(* reset; newEpoch = epoch stands for a call that passes no epoch.  An     *)
(* external stop is only confirmed when nothing moves any more.            *)
Reset(now, newEpoch, externalStop) ==
  /\ now >= 0
  /\ phase \in {"SAFE_STOP", "COMPLETE"}
  /\ externalStop => live = {}
  /\ recoveryRequired => externalStop
  /\ newEpoch \in epoch..MaxEpoch
  /\ newEpoch = epoch => ~clockFault /\ now >= lastNow
  /\ Fresh(now)
  /\ epoch' = newEpoch
  /\ UNCHANGED <<usedTaskIds, ghosts>>

-----------------------------------------------------------------------------
(* Downstream: a command that may move ends, in success or not.            *)
DownstreamEnds(cmd, ok) ==
  /\ cmd \in live
  /\ live' = live \ {cmd}
  /\ succeeded' = IF ok THEN succeeded \cup {cmd} ELSE succeeded
  /\ UNCHANGED <<phase, task, active, completed, usedTaskIds, lastNow,
                 lastSource, evidence, clockFault, epoch, outcome, issued,
                 lastIssue>>

Nows == Times \cup {-1}

Next ==
  \/ \E now \in Nows :
       \/ \E h \in Healths :
            \/ \E t \in TaskInputs : StartRefused(t, h, now)
            \/ \E t \in TaskInputs : StartAdmitted(t, h, now)
            \/ EventRefused(h, now)
            \/ \E id \in TaskIds, s \in Stages : ExecutionStarted(id, s, h, now)
            \/ \E m \in Report : StageTerminal(m, h, now)
            \/ Tick(h, now)
       \/ \E m \in Report : LateTerminal(m, now)
       \/ StartInvalid(now)
       \/ InvalidTerminal(now)
       \/ IdleClock(now)
       \/ RequestStop(now)
       \/ \E e \in Epochs, x \in BOOLEAN : Reset(now, e, x)
  \/ \E cmd \in Commands, ok \in BOOLEAN : DownstreamEnds(cmd, ok)

Spec == Init /\ [][Next]_vars
-----------------------------------------------------------------------------
(* Properties                                                              *)

TypeOK ==
  /\ phase \in Phases
  /\ task \in Task \cup {None}
  /\ active \in Active \cup {None}
  /\ completed \subseteq Commands
  /\ usedTaskIds \subseteq TaskIds
  /\ lastNow \in Times \cup {-1}
  /\ lastSource \in Times \cup {-1}
  /\ recoveryRequired \in BOOLEAN
  /\ cancelTerminalConfirmed \in BOOLEAN
  /\ stopAllTerminalConfirmed \in BOOLEAN
  /\ clockFault \in BOOLEAN
  /\ epoch \in Epochs
  /\ outcome \in {"none", "completed", "stopped"}
  /\ live \subseteq Commands
  /\ succeeded \subseteq Commands
  /\ issued \subseteq Commands
  /\ lastIssue \in Issue \cup {None}

ActiveCommands == IF active = None THEN {} ELSE {active.cmd}

(* Outside SAFE_STOP nothing moves downstream but the command the          *)
(* controller is waiting for: no report, rejection or exception path of    *)
(* _issue_arm, _issue_gripper and _terminal_failure loses a moving command *)
(* and goes on.                                                            *)
OnlyActiveMoves == phase # "SAFE_STOP" => live \subseteq ActiveCommands

(* A stopped controller that asks for no external confirmation has proof   *)
(* that nothing moves: the three writers of recovery_required              *)
(* (_fail_closed, _confirm_late_terminal, reset) combine the cancel, the   *)
(* late terminal and the stop_all evidence soundly.                        *)
RecoveredIsStill == phase = "SAFE_STOP" /\ ~recoveryRequired => live = {}

(* COMPLETE is reported only for a task all four of whose motions ended in *)
(* success, with nothing still moving.                                     *)
CompleteIsDone ==
  phase = "COMPLETE" =>
    /\ \A s \in Stages : <<task.id, s>> \in succeeded
    /\ live = {}

(* Whatever the order, loss or repetition of reports, a stage is submitted *)
(* only after every earlier stage of its task really succeeded.            *)
StageGated ==
  \A c \in issued : \A s \in 0..(c[2] - 1) : <<c[1], s>> \in succeeded

IssueStep == lastIssue' # lastIssue

(* A command is submitted only when no command, of this task or of one     *)
(* before a reset, can still move.                                         *)
NoOverlap == [][IssueStep => live = {}]_vars

(* No command is ever submitted twice, resets and reused task ids included;*)
(* Staging, which releases only what was not released, says so too.        *)
NeverReissued == [][IssueStep => lastIssue'.cmd \notin issued]_vars

(* A submitted command is bound to a source stamp that is neither in the   *)
(* future nor stale; within a task the stamps never go back, and within a  *)
(* clock epoch neither do the submission times, across resets included.    *)
FreshBinding ==
  [][IssueStep =>
       /\ lastIssue'.at - lastIssue'.src \in 0..SourceTimeout
       /\ lastIssue # None =>
            /\ lastIssue.cmd[1] = lastIssue'.cmd[1]
                 => lastIssue.src <= lastIssue'.src
            /\ lastIssue.epoch = lastIssue'.epoch
                 => lastIssue.at <= lastIssue'.at]_vars

(***************************************************************************)
(* Fairness.  The wrapper's control timer keeps calling tick while its     *)
(* clock advances, so some tick reads the latest time; that its snapshot   *)
(* is a faulty one, which stops the sequence by itself, is not counted on. *)
(* A motion ends at some point, and the action server then reports the end *)
(* of a goal.                                                              *)
(***************************************************************************)
EndReport(c) == [task |-> c[1], stage |-> c[2], echo |-> "exact",
                 result |-> "ended"]

Fairness ==
  /\ WF_vars(\E h \in Healths : /\ HealthFault(h, MaxTime, task) = "none"
                               /\ Tick(h, MaxTime))
  /\ \A c \in Commands :
       /\ WF_vars(\E ok \in BOOLEAN : DownstreamEnds(c, ok))
       /\ WF_vars(LateTerminal(EndReport(c), MaxTime))
FairSpec == Spec /\ Fairness

(* A command whose terminal never arrives does not hold the sequence: once *)
(* the clock passes its deadline it is retired or the controller stops.    *)
CommandResolves ==
  \A c \in Commands :
    (phase \in Busy /\ active.cmd = c /\ active.at + CommandTimeout < MaxTime)
      ~> ~(phase \in Busy /\ active.cmd = c)

(* When everything was confirmed stopped but the cancel of the active      *)
(* command was not, its late terminal ends the need for an external        *)
(* confirmation: nobody has to vouch for a stop the reports prove.         *)
LateProofUnlocks ==
  (phase = "SAFE_STOP" /\ stopAllTerminalConfirmed)
    ~> (phase # "SAFE_STOP" \/ ~recoveryRequired)

(***************************************************************************)
(* What the coordinator promises, in terms of the motions alone.           *)
(***************************************************************************)
Mode == CASE phase = "IDLE"      -> "idle"
          [] phase = "COMPLETE"  -> "complete"
          [] phase = "SAFE_STOP" -> "stopped"
          [] OTHER               -> "moving"

Staged == INSTANCE StagedMotion WITH
            mode <- Mode, released <- issued, running <- live,
            done <- succeeded

Staging == Staged!Spec
=============================================================================
