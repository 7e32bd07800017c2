# EdgeGrasp: TLA+ models, checks and proofs

EdgeGrasp moves a simulated SO-101 arm to a tracked target and grasps it. This
directory models the parts of it that decide whether motion may start, whether
it is over, and what is known of it after something failed. Paths below are
relative to the repository root (`src/` in the manifest's paths is the
repository itself).

Run `tlc -config X.cfg M` for a model, `tlapm M.tla` for a proof module.

## The system

| part | code | state it keeps | operations | modelled in |
|---|---|---|---|---|
| grasp sequence coordinator | `src/edgegrasp/grasp_sequence.py` | phase, task, active command, completed commands, used task ids, two clock watermarks, stop evidence, clock fault, epoch | start, execution started, arm and gripper terminal, tick, request_stop, reset | `GraspSequence` |
| trajectory gate | `ros_ws/.../trajectory_gate.py` | per controller: owner, typed command, tombstone, goal and cancel futures, cancel attempts; fault, reservations, epoch | typed goal/cancel/execute, legacy topic, goal response, result, cancel response, watchdog, permission inputs, reset | `TrajectoryGate` |
| safety monitor | `ros_ws/.../safety_monitor.py` | latest and pending target with receipt times, watermarks, latch, epoch | target, timer, reset | `SafetyMonitor` |
| permission gate of a consumer | `src/edgegrasp/permission.py` | last permission and its receipt, clock watermark, fault | update, evaluate, reset_epoch | `PermissionGate` |
| pipeline controller | `src/edgegrasp/controller.py`, `fsm.py`, `predictor.py`, `safety.py`, `backend.py` | pipeline state, predictor history, watermark, last receipt, clock fault, epoch | process_target, tick, stop, reset | `Pipeline` |
| grasp sequence node | `ros_ws/.../edgegrasp_grasp_sequence/node.py` | reserved task, cancel flag, action slots, uncertain commands, snapshots of its inputs, generations | the action server, the three ports, response, feedback, result and cancel callbacks, contact policy, reset | `SequenceNode` |
| MoveIt adapter | `ros_ws/.../adapter_node.py` | reservation, attempt generation, MoveGroup and gate goals, dispatched ids, fault, epoch, three permission gates | plan request, cancel, execute, callbacks on late futures, reset | `MoveItAdapter` |
| planning scene loader | `ros_ws/.../planning_scene_loader.py` | readiness, pending query, optional cube and contact policy, last and desired collision matrix, fault, epoch | timer, two policy services, reset | `SceneLoader` |
| physics evidence | `src/edgegrasp/grasp_evidence.py` | evidence phase, newest pose and contact, baseline, retention start | start, four sample kinds, tick, fail_closed | `PhysicsEvidence` |
| physics observer | `ros_ws/.../grasp_physics_observer.py` | the core, reservation, reorder buffer, clock watermark and fault, epoch | goal, execute loop, four topics, drain, reset | `PhysicsObserver` |
| trial client | `ros_ws/.../trial_client.py` | attempt, target snapshot, phase reported last, two goals | `run`, `_cancel_and_confirm`, feedback | `TrialClient` |
| everything else | geometry, perception, contracts, publishers, plan clients, CLI, scripts | none that outlives a call, or files | | not modelled |

How they interact. The safety monitor turns the target stream into a Boolean on
a topic; the trajectory gate and the adapter each keep a `MotionPermissionGate`
behind it. The sequence node drives the coordinator: it feeds it health
snapshots, reports and timer ticks, and implements its ports with two action
clients, one to the adapter (which plans and then sends to the gate) and one to
the gate directly for the gripper. The gate alone talks to the joint-trajectory
controllers. The planning scene loader tells the adapter whether MoveIt has the
scene, and changes the scene for the sequence node. The trial client runs one
observation of the physics observer and one sequence side by side, and the
observer learns of the sequence's end from a topic. The pipeline controller is the dependency-free version of the
loop, used without ROS. Every node has its own reset service and its own epoch
counter; nothing coordinates them.

What is hard: callbacks of one goal run in parallel in the gate; answers are
late, repeated or missing; a stop consists of calls that fail independently;
clocks go back; resets cut through work in progress; permissions are stamped
where they arrive. `PROJECT.json` lists each of these at its line with the
properties that cover it, or the reason none does.

What makes each part correct: the coordinator never has two motions and never
calls an uncertain stop certain; the gate never reports or forgets a motion
that may be running; the monitor's permission stands for a fresh, received
target and expires; the pipeline moves only while it says so. The adapter
reports an end only when it has seen one and sends a command once; the loader is
ready only for the scene that is there; the observer verifies only what was
held; and an exit code of the trial client means what it says.

## Modules

```
StagedMotion  <--implements-- GraspSequence  <- MCGraspSequence
                                             <- GraspSequenceProofs
StagedMotion  <--implements-- SequenceNode   <- MCSequenceNode
                                             <- SequenceNodeProofs
TrajectoryGate    <- MCTrajectoryGate, TrajectoryGateProofs
Pipeline          <- MCPipeline, PipelineProofs
SafetyMonitor  +  PermissionGate  ->  PermissionChain (its own model)
                                          <- PermissionChainProofs
MoveItAdapter     <- MCMoveItAdapter
SceneLoader       (its own model)
MoveItAdapter, SceneLoader  <- MoveItProofs
PhysicsEvidence   <- PhysicsObserver <- MCPhysicsObserver
                                     <- PhysicsObserverProofs
TrialClient       <- TrialClientProofs (its own model)
```

A definition named `X_Y` is the definition `X` with a plausible mistake `Y`. No
specification uses it; replacing `X` by it makes the property named in
`PROJECT.json` fail, which shows that the property depends on that code.

### GraspSequence

All public methods run under one re-entrant lock, so a method call is an
action; a method with several endings is split by its endings
(`StartRefused`, `StartAdmitted`, `EventRefused`, `StageTerminal`, ...). Inputs
of the call are quantified in `Next`: the caller's clock reading (any, also
backwards or invalid, because the caller passes `now_ns`), the health snapshot,
the report, and what the ports answer. `_fail_closed` is `FailClosed`, used by
every failure path with the active command as that path left it.

Abstractions. A command is the pair of task and stage (the identity function is
injective). A report carries which echoed field disagrees and what it proves:
the whole success contract, only that the downstream goal is over, or nothing;
the 12 checks of the success contract are one class. A stop reason is reduced
to whether it names the clock, because `_is_clock_fault_reason` searches the
text. Positions, digests and wording are left out.

Three variables are ghosts: `live` (commands that may still move), `succeeded`,
and `issued` with `lastIssue`. No guard of the controller reads them; only the
environment's honesty does. What is assumed of the environment:
- a cancel answered *terminal confirmed* means that command is over, a
  confirmed `stop_all` means every command but the active one is;
- a report that the handlers accept as evidence is true (`Honest`); a report
  that proves nothing may say anything, arrive any time, or be repeated;
- `external_stop_confirmed` is passed only when nothing moves;
- a submit that is rejected or raises may nevertheless have sent its goal, as
  `_submit_arm` of the node does when the callback cannot be attached.

`StagedMotion` says what a coordinator promises without clocks, reports and
ports: one motion at a time, in stage order, each after the one before really
succeeded, and nothing taken up again while something moves. `Staging` is that
`GraspSequence` implements it.

### SequenceNode

The wrapper around the coordinator. It replaces what `GraspSequence` assumes of
its ports by the node's own bookkeeping: a slot per action client, the set of
uncertain commands, and a stop that is two port calls.

`_core_event_lock` serialises every call of the coordinator, but the callbacks
of the two action clients change slots and `_uncertain_commands` under
`_state_lock` alone. So a stop is two steps (`BeginStop` in the action that
fails, then `FinishStop`), `stopping` holds what the first one learned, and
callbacks go on in between. `place[c]` is where the callbacks of a command are
(response, cancel on accept, result, contact policy, delivery), `says[c]` the
verdict they carry to the coordinator, `exec` where the execute callback is.

Abstractions. The coordinator is condensed to phase, active and completed
commands, used tasks and stop evidence; `GraspSequence` has the rest. Whether
its snapshots are healthy is one Boolean per call, and the clock does not go
back. The generation of a slot is left out, because a command is never issued
twice. A send that raises has sent nothing. Not modelled: two threads inside
`_request_cancel` at once, and the handlers that catch an exception of the
wrapper itself. `Failures` selects what the transport does wrong: a future or a
callback registration raises, a result is untrusted, a cancel is refused.
`Ready` are the commands whose server is there.

Environment (`goal`, `contacts`, `calls`): the adapter and the gate accept or
refuse a goal, end it, and report truthfully if what they report passes the
node's checks (for the gate, `ReportIsProven` is that); the scene loader serves
a contact request late or not at all, and its other clients take the contacts
back between sequences.

`goal` and `answer` are ghosts: the node does not read what became of a goal,
except through the messages that say so.

### TrajectoryGate

The node runs in a multi-threaded executor, most callbacks in a re-entrant
group. An action is a block under `_state_lock`, or the code between two points
where another thread's write would be noticed. Each goal has three threads:
`run` (execute callback or legacy dispatch), `resp` (goal response) and `done`
(result). `slot` holds the per-controller dictionaries, `ctx` the
`_TypedExecution` objects.

Abstractions. Timeouts are not measured: an armed deadline may be seen as past
by any watchdog tick, so every race with a timeout is there and none is assumed
to be won. The four permission inputs are one Boolean `permitted`. An FJT error
code with a succeeded status behaves as an aborted goal. A command identifier is
submitted once. The part of `_cancel_controller` after its unlocked tests is a
step of its own (`SendCancel`); at most `MaxAsking` threads are in it per goal.
The goal response keeps the context it looked up over three steps (`captured`)
and may write the reason of a cancel on it after the watchdog has ended the
command and the client was answered (`Noted`); so may a result that raises.
`AnswerStands` therefore says that status, observation and success stay, and
only a cancel reason can be added. `captured` is dropped when the response is
dealt with and `asked` when the command is unbound: nothing reads them later.
A context's accepted flag, reason, codes and
feedback, which no later step reads to decide, are left out.
Failures of `_typed_feedback` and a `get_result_async` that returns nothing are
not separate. `Failures` selects the transport failures of a run.

Environment: the FollowJointTrajectory servers accept or refuse a sent goal,
end an active one, and answer truthfully if they answer; a failed future says
nothing.

### SafetyMonitor, PermissionGate, PermissionChain

The monitor's handlers share a mutually exclusive group: one action each,
split by ending. A message carries the decision time, source stamp and epoch
that the node writes to its evidence topic; the consumer sees only the Boolean.
`received` and `heard` are history. `PermissionChain` composes monitor, topic
(ordered, newest `QueueDepth` kept, every message delivered within `MaxDelay`) and one
consumer; the clock may go back `MaxRollbacks` times; monitor and consumer are
reset independently, as in the code. `MaxDelay` is an assumption about the
transport: `PermissionExpires` holds with the delay as a term of its bound, and
no bound without it would.

### Pipeline

The controller has no lock, but `planner.plan` and `backend.execute` may call
back into it. The calls of `process_target` in progress are a stack of frames;
all other methods are one action, at the top level or inside a callback. `exec`
in a frame is the clock reading the call will use at the execute boundary (an
argument of the call). Acceptability of a target is a Boolean plus freshness
and order; planning and validation of the plan are verdicts. Assumed:
`backend.stop` does not call the controller, and `execute` returns only after
the plan is over (the docstring of the protocol in `backend.py`).

### MoveItAdapter

A request is reserved in `_on_goal` and its attempt starts in a thread of its
own; `pc[g]` is where `_execute` of goal `g` stands. The execute callback holds
`_state_lock` only for short regions, so every region, and every turn of a wait,
is an action. What outlives an attempt are the callbacks it left on futures:
`track[g][k]` says which of them are attached to the MoveGroup or gate goal of
`g`, and they run while a later request is `active`. `LatchAttempt` is the
generation test that keeps an old callback from latching a newer attempt.

Abstractions. Joint states, permissions, the scene status and the source clock
are verdicts: a check passes, or the request gives up. A wait may end at any
turn, so no deadline is counted. A cancel asked of a request is forgotten when
its goal handle ends. `_GateOutcome` is reduced to dispatched,
terminal and success. An accepted goal has an identifier; the branch for one
without is reachable only through a faulty client library. There, the adapter
would take the action status alone as the end of the motion (2275-2295), which
`EvidenceIsTrue` would not allow of a gate that ended without having seen the
motion end. `RobotTrajectory` validation is part of `AdmitTrajectory`.

Environment: MoveGroup and the gate accept or reject a goal and end one that
runs, whether asked to or not; a gate goal may end `uncertain`.

The sequence node takes a result with `dispatched = FALSE` for proof that no
gate goal exists (node.py 1832-1881). The adapter reports that also when the
gate did not answer in time (2191-2215), when the goal may yet be accepted. The
late callback then cancels it (`LateGoalsEnd`), but in between the slot of the
node is free: `OneMotion` therefore allows for a goal that has its late callback.

The late callbacks are the weak place of this. Each of their failures calls
`_latch_active_attempt_fault`, which does nothing once the attempt is over
(422-448). If sending the cancel fails, the callback of the result is there
still (`unasked`). If the answer raises (2013-2018), if the result cannot be
asked for (1965-1991), or if it raises or comes without an end (1392-1446), no
callback is left that would see the end of the goal, and nothing is latched. The
model does what the code does (`LateAnswerRaises`, `LateAnswer` with `Deaf`,
`LateTerminalFails`) and keeps such goals apart (`Failing`), because for them
`NoneForgotten` and `OneMotion` would be false: the two properties leave out
these goals, one by one, and hold of every other goal although such failures
happen in the run. `LateGoalsEnd` speaks of the goals whose cancel was sent.

### SceneLoader

One thread spins the node, so a callback is an action. MoveIt's `scene` is the
table, the cube and what the collision matrix says of the pads; `objects` and
`diffs` are two topics that deliver in any order relative to each other and to
the query. `sound` is a ghost: MoveIt has not restarted since the answer the
loader went by. `Budget` bounds together policy changes, resets, timeouts,
rollbacks and restarts. Both policy services are split into the call that
changes the policy and the call that does not, for both may finish or drop a
query.

### PhysicsEvidence and PhysicsObserver

The core has no thread: its methods are operators from a controller to a
controller. The node's threads are actions of one lock acquisition each, with
the ROS clock moving between them and set back at most once in an observation.
Samples carry any stamp from now to the freshness bound ahead, in order for each
topic, and wait in `pending` for the clock.

Abstractions. The core compares the clock of a call with that of the call before
(`_clock_reason`); the node has done so under the same lock, so the core's copy
is not kept. Effort samples, the two deadlines as numbers, the measurements and
two samples of a topic with one stamp are left out. A sample stamped in an
earlier epoch fails the core, as `InputFault` does. `reset` of the core is used
by nobody: the node makes a new one.

`held` is a ghost: how long the clock the node saw has gone on since the grasp
was last in doubt. The time is unbounded in the module; `MCPhysicsObserver`
gives TLC a `VIEW` in which times are ages, and an age past the longest limit
anything is compared with is one value. That is sound because neither the code
nor a property looks at a time except through a difference from the present one.

### TrialClient

`pc` is where `run` stands; callbacks run whenever it spins, which is in every
wait but the first. `cleanup` is the `_cancel_and_confirm` under way, with what
follows it. A parameter read late by `_positive` may turn out not to be
positive (`misset`), which raises out of `run` with goals running. Feedback is a
set: it may be delivered late and out of order. The servers keep what the client
relies on: an observation ends well only after its baseline, and is cancelled
only if asked.

## Runs

| run | instance | shows |
|---|---|---|
| `grasp_sequence` | one task, times 0..2, one new epoch | `RecoveredIsStill`, and under fairness `CommandResolves`, `LateProofUnlocks` |
| `grasp_sequence_tasks` | two symmetric tasks, times 0..1, one new epoch | `NoOverlap`, `FreshBinding`, refinement of `StagedMotion` (which implies `NeverReissued`) |
| `trajectory_gate` | one typed command, every failure, two cancel attempts, one reset | `ReportIsProven`, `ConfirmedIsOver`, `TombstoneStays`, `AnswerStands`, and under fairness `CommandEnds`, `LossStops` |
| `trajectory_gate_owner` | a typed command and a legacy trajectory, sends, result requests, results and cancels that fail, one reset | `MotionIsOwned`, `ResetIsQuiet` |
| `sequence_node` | one task, every failure, one reset, all servers ready | `MovingIsHeld`, `ConfirmedIsOver`, `SuccessIsTrue`, refinement of `StagedMotion`, and under fairness `SequenceEnds`, `StopReachesGoal` |
| `pipeline` | two targets, times 0..3, nesting 2, one new epoch | `StillUnlessExecuting`, `ExecutionIsSafe`, `EpochsSeparateTime`, and under fairness `WatchdogStops` |
| `permission_chain` | times 0..2, source age 0, timeout 1, queue of 2, delay 1, one rollback, one reset of the monitor | `TrueIsCovered`, `LatchedDenies`, `PermissionExpires`, and under fairness `ExpiryDenies` |
| `moveit_adapter` | two requests for one command or two, one reset, every failure of the late callbacks | `EvidenceIsTrue`, `NoneForgotten`, `OneMotion`, `DispatchedOnce`, and under fairness `LateGoalsEnd`, `RequestsEnd` |
| `scene_loader` | five changes or disturbances, topics of depth 2 | `SettledIsTrue`, and under fairness `ReadyAgain` |
| `physics_evidence` | any number of observations, freshness 1, retention 3, two pads, a buffer of 2, one rollback in each | `VerifiedIsEarned`, `NoFalseFault` |
| `trial_client` | two restarts, two targets | `BaselineBeforeMotion`, `ExitIsTrue` |
| `gate_reset_gap` | the smallest instance | a disagreement between the code and its own message, below |

Why the bounds are enough. Task identifiers, targets and controllers are
symmetric in the code, and the states of one controller or one command never
read another's, so two of each show every interference; times only matter
through order and through age limits of one unit, which three or four values
cover (before, at and past a limit, with one reading to go back to). One reset
gives a state before and one after; one rollback likewise. Nesting 2 is a call
interrupted by a call. For the safety properties the proofs lift these bounds
in the coordinator, the node, the adapter, the pipeline, the permission chain,
the trial client and the gate. For the node one task already has three arm commands for one slot and a gripper
command for the other; two whole tasks exceed five million states. For the adapter a late callback needs one request that gave up and one that is
active; for the loader five disturbances are two policy changes with a restart,
a timeout and a reset around them; a retention of three freshness bounds leaves
room for samples to be missed and made up for. The type invariants stated in the
modules are not part of a run; those of the coordinator and the pipeline are
proved, and the other modules with proofs have theirs in the inductive invariant.

`CHECK_DEADLOCK FALSE` is used where the system really may stop: the gate, the
node and the adapter with every goal over and no reset left, the trial client
when it has left, and the observer when an exception has ended it.

### Fairness

- `GraspSequence`: the node's control timer keeps calling `tick` and its clock
  keeps running (weak fairness of a tick that reads the last time with a
  healthy snapshot: that a faulty snapshot stops the sequence by itself is not
  counted on); a motion ends at some point, and the action server then reports the end. Nothing makes
  reports correct or timely.
- `TrajectoryGate`: executor threads run, and the watchdog timer fires. The
  controllers owe nothing, and the wall-clock guard is not counted on.
- `SequenceNode`: the executor runs the execute callback, goal responses and
  a stop to its end, and a sequence that goes on long enough sees a tick that
  fails (the command timeout of the coordinator). No motion need end, no
  result, cancel answer or contact answer need come.
- `Pipeline`: outside a callback the caller keeps calling `tick`.
- `PermissionChain`: the monitor's timer keeps firing and the topic delivers.

- `MoveItAdapter`: the execute thread runs on, because each of its waits has a
  deadline; a response that came is delivered; a server ends a goal it was asked
  to cancel. Nothing need be accepted, and nothing else need answer.
- `SceneLoader`: the timer fires, the retry period passes, topics deliver and
  MoveIt answers. Timeouts and restarts are bounded by the budget.

Only weak fairness is used.

### What the code does otherwise than its documentation says

- `gate_reset_gap`: the check and the commit of `_on_reset` are two lock
  regions (1480, 1513); a goal sent in between moves when the reset succeeds.
  The message the check returns says that a reset is refused while a downstream
  goal may be active. `trajectory_gate_owner` checks the same property without
  that gap (`ResetGap = FALSE`), where it holds.

Disagreements and gaps without a run of their own are among the hazards in
`PROJECT.json`, each with the actions that show it: a gate goal accepted after
its request has ended, whose result cannot be asked for, moves with nobody
watching and no latch (adapter_node.py:1965-1991), although
docs/ubuntu-jazzy-runbook.md:1059-1060 wants its exact terminal, or the adapter
fail closed; a failed goal response
releases the gate's controller without a tombstone; a result without terminal
status clears its transport state; a stopped descend switches the pad contacts
on; an exception after a re-entrant stop leaves `process_target` as a
`ValueError`; the adapter's reset has the gap of the gate's; the loader's reset
believes a query that was answered before it; the observer's executor dies of a
sample between the opening and the start of a core; a sequence accepted after
the trial client has left with 7 has nobody to cancel it. Also in the models,
and promised otherwise by no document: a reset whose clock went back leaves the
pipeline's state as it is (`ResetRollback`); two threads can pass the unlocked
tests of `_cancel_controller` (`Passes`); a cancel refused because the goal has
just finished leaves its command uncertain for good (`CancelAnswered`); a
malformed collision matrix found while the cube is switched leaves the exemption
off and published so (`Aligned`).

## Proofs

Checked by TLAPS for every value of the constants that the named assumptions
allow (`ConstantsOK`, `NodeConstants`, `AdapterConstants`, `PipelineConstants`,
`MonitorConstants`, `ChainConstants`, `ClientConstants`, `GateConstants`,
`LoaderConstants`, `EvidenceConstants`, `ObserverConstants`:
naturals, well-formed inputs, a `None` that is none of them). The `Max...` bounds
are constants like the others, so the theorems hold for each bound.

**`GraspSequenceProofs`**. None of the invariants is inductive alone. `IInv`
adds to them:
- `OnlyActiveMoves`: outside SAFE_STOP only the active command may move, which
  makes a proven terminal of that command enough to go on;
- `StopEvidence`: what each of the two flags of a stopped controller says of
  `live`, without which `recoveryRequired = FALSE` would prove nothing;
- `Progress`: in a busy phase the stages before the active one have succeeded
  and the later ones were not issued;
- `Resting` and `UsedIds`, which carry these facts across reset and start.

There is one lemma per action, and two about `FailClosed` and `Issues` that
most of them use. From it: `TypeCorrect`, `RecoveryIsSound`,
`CompletionIsSound`, `MotionsDoNotOverlap`, `CommandsAreUnique`, and
`CoordinatorImplementsStagedMotion` (a step lemma maps every action to a step
of `StagedMotion` or to a stutter). For `BindingIsFresh`, `Bound` says what the
two watermarks tell of the latest issue; every step either binds a command
(`Binds`) or bides, and only a new epoch takes a watermark back (`Bides`).

**`PipelineProofs`**. `Owned` is the strengthening: while the state is PLANNING
the innermost call is the planning one and still has the epoch, receipt and
observation it was accepted with, so interruptions of it are always visible in
the state. From it: `PipelineTypes`, `StillnessIsKept`, `ExecutionBoundary`,
`EpochBoundary`.

**`TrialClientProofs`** (from `ClientConstants`). Neither property is inductive:
whether a sequence may be sent depends on feedback that was on its way when the
attempt changed, and an exit code on what each wait has seen. `IInv` adds
- `Reported`: feedback *ready*, under way or taken, belongs to an attempt whose
  observation has its baseline, and the phase is that of the present attempt;
- `Settled`: observations of earlier attempts are over, and those of later ones
  do not exist;
- `Placed`: what is known of the two goals at each place of `run`, with the
  goals a cleanup still has and what follows it.
There is a lemma for the actions that only leave, raise or go on, one for those
of each server, and `ClientStep` puts them together. From it:
`SpecBaselineBeforeMotion` and `SpecExitIsTrue`, for any number of restarts.

**`MoveItProofs`** holds the proofs of the two components that face MoveIt; the
names of `SceneLoader` are kept apart from the adapter's for that.

*The adapter* (from `AdapterConstants`). The adapter has some forty
actions, of which most touch little that a property sees. Each is first shown to
have one of a few *effects* (a request ends, a goal is sent, answered or turned,
a result is reported, a goal is handed to its late callback, and so on), and
each layer of the invariant is then shown to be kept by every effect:
- `EInv`: a result is reported at the end only, a gate goal is sent only on a
  plan that succeeded, and what ended stays ended;
- `MInv`: one request is under way and it is the active one; a goal that never
  had a callback leaves the latch set or belongs to a past epoch; and a request that has
  passed its checks shares its epoch with no such goal;
- `DInv`: the commands sent, or about to be, are on record, and the one about to
  be sent was not sent before, which the withdrawal of the record after a failed
  send must not break.
From it: `SpecEvidenceIsTrue`, `SpecNoneForgotten`, `SpecOneMotion`,
`SpecDispatchedOnce`, for every failure of the late callbacks. `MInv` speaks of
goals that never had a callback (`Untracked`); one whose callback failed is in
`Failing`, which the two properties leave out.

*The scene loader* (from `LoaderConstants`: the topics hold at least one
message, and neither `Nothing` nor `Bad` is a Boolean).
`SettledIsTrue` speaks of empty topics, but what makes it true is on them before:
- `UpToDate`: while the scene is ready or a query is under way, the newest message
  on each topic is of the present policy, whichever older ones it has to pass;
- `Justified`: a verified answer, taken or still unread, shows the scene as far as
  nothing is under way to it, unless MoveIt has restarted since;
- `Unexempt`: without a matrix of its own the loader has published no exemption;
- `Announced`: *ready* on the topic is the loader's present word on its present
  policy.
From it: `ReadyIsSettled`. The policy services keep it because they drop the
query and `ready` together with the policy: with the mutant that keeps the
query the property fails.

**`SequenceNodeProofs`** (from `NodeConstants`). The same argument by effects. No
property is inductive: a stop is two port calls between which callbacks go on,
so that what it confirmed rests on what the slots say of the goals, and success
on what the callbacks carry. `IInv` has four layers:
- `Fresh`: a task not yet used was handed nothing, and while a sequence runs the
  stages after the active one were not handed out;
- `Held`: a live goal is in its slot, and a terminal that is on its way to
  release a slot, or is marked in one, is of a goal that ended;
- `Confirmed`: if the second half of a stop was confirmed, so that one late
  terminal may clear the recovery, nothing moves;
- `Told`: verdicts of success are true, nothing but the active command moves, the
  stages before it succeeded, and the client's task is the coordinator's.
From it: `SpecMovingIsHeld`, `SpecConfirmedIsOver`, `SpecSuccessIsTrue`, and
`NodeImplementsStagedMotion`, for which each effect is mapped to a step of
`StagedMotion` or to a stutter.

**`PermissionChainProofs`** (from `MonitorConstants` and `ChainConstants`). What
`TrueIsCovered` says of the topic must survive the messages that were published
before a reset, a rollback or a newer target, and `PermissionExpires` must
survive the topic as well. `IInv` adds
- `Taken`: the arrival the monitor remembers of its latest and its pending
  target is the arrival that target had, without which a decision could be timed
  from another one;
- `Wired`: every message on the topic is `Good`: not overdue, fresh when it was
  sent, and, while its epoch lasts, for a target that arrived in time. Every
  handler publishes good messages and keeps the others good;
- `Told`: what is left of a good message at the consumer, however its clock moved.
From it: `SpecTrueIsCovered`, `SpecLatchedDenies`, `SpecPermissionExpires`.

**`TrajectoryGateProofs`** (from `GateConstants`). A goal's three threads, the
watchdog and the cancels meet in its slot and its context, and hardly an action
leaves both alone. So every action is first shown to have an `Effect`: on the
life of each goal (`Life`), on its context (`Told1`) and on each slot
(`Evident`); most change a slot and a context only mildly (`Mild`). `IInv` adds
- `Traced`: an answer or a proven result was given by the controller, and a goal
  that was not sent has neither;
- `Told`: a context that says success or canceled says so of a goal that did or
  that no longer moves, and is terminal before its command is answered, for
  which until then the controller must be bound to it;
- `Buried`: a confirmed tombstone is that of a goal that ended.
From it: `ReportsAreProven`, `ConfirmedAreOver`, `AnswersStand`, with or without
`ResetGap`, and `TombstonesStay`, which needs `~ResetGap`: while a reset is under
way nothing is active (`Quiet`).

That the goal which may move is the controller's owner is not so under every
failure. Each of three breaks it on a small instance: a goal response that fails
for an accepted goal, a result without a status (both release the controller
without a tombstone), and an exception in the execute thread. `Faithful` excludes
these and an overtaken reset, and nothing else: sends, result requests, results
and cancels may fail and every deadline may pass. `Orderly` is the invariant
under it. A goal is `Engaged` while it is claimed and not sent, may move, or has
a response under way.
- `Claimed`: an engaged goal owns its controller;
- `Marked`: an engaged command that is completed, so that its thread will give up
  the controller, has the tombstone that makes it keep it, and no engaged command
  meets another's tombstone;
- `Seated`: a bound command is the one reservation of its controller, so that a
  failed cancel never blames a command that the goal does not belong to;
- `Served`: a result is asked for after the response was dealt with, and releases
  the owner only for a goal that ended;
- `Sealed`: a confirmed tombstone leaves no response under way.
Most actions are shown to keep it through one of two lemmas, for a step that
touches no goal's life (`CalmKeeps`) and for one that touches only that of g
(`OneKeeps`). From it: `MotionsAreOwned`, and `ResetsAreQuiet`, since at a reset
every owner has a confirmed tombstone and so no goal is engaged.

**`PhysicsObserverProofs`** (from `EvidenceConstants` and `ObserverConstants`: the
`None` is no number, pose, core or reason of a fault). Two invariants, for two
promises that rest on different things.

A verdict is earned step by step, and `held` measures the time since the last
doubt, so `Earned` must say in every phase what the core may still come to see:
- `Dated`: the newest pose and the start of the retention are not ahead of the
  clock the node saw, each phase has what it was entered on, and in retention the newest pose and the newest contact
  of all pads are *near* each other, for each was judged by the age of the other;
- `Lasting`: a grasp in retention has been beyond doubt since the retention began,
  unless one half of its evidence is already too old to be saved: then the next
  call faults, whatever sample comes first (`Saved`).
From it: `VerdictsAreEarned`. The freshness bound is met twice, once for each
half, which is why the promise is of *twice* the bound.

That nothing looks out of order is a matter of the buffer and of the clock, so
`Regular` says of them, while the clock was not set back:
- `Queued`: the buffer is in the order of the stamps, which the lemmas about
  `Sorted` show of the insertion of any sample (`SortedInOrder`, `SortedAhead`);
- `Ahead`: every buffered sample of a topic is later than the one of that topic
  the core has seen, although samples are taken as soon as they are due;
- `OnTime`: the clock the node has seen is not ahead of the present one.
From it: `NoFaultIsFalse`.

**Only model-checked**: all liveness properties (fairness is out of the
prover's reach): `CommandResolves`, `LateProofUnlocks`, `CommandEnds`,
`LossStops`, `SequenceEnds`, `StopReachesGoal`, `WatchdogStops`, `ExpiryDenies`,
`LateGoalsEnd`, `RequestsEnd`, `ReadyAgain`. Every safety property that a run
checks has a theorem; `MotionIsOwned`, `ResetIsQuiet` and `TombstoneStays`
under the conditions named above.

## Not modelled

Trajectory validation, digests, geometry, perception, configuration, scripts:
pure functions on floating-point data or files, of which the models see the
verdict. The plan clients send one goal and print its result. Of the observer,
the effort stream and the measurements; of the node, what `SequenceNode` names
above.

## Plan

1. The composition of `SequenceNode` with `MoveItAdapter`, for the case of a
   gate goal accepted after its request was reported as not dispatched.
2. What the gate promises a caller as a specification of its own (one motion for
   each controller, each answer of what became of it), with `TrajectoryGate`
   shown to implement it under `Faithful`; `Orderly` holds most of the argument.
