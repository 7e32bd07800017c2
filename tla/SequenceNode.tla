---------------------------- MODULE SequenceNode ----------------------------
(***************************************************************************)
(* The action wrapper around the coordinator, node.py of                   *)
(* edgegrasp_grasp_sequence: one client goal at a time, one slot for the   *)
(* arm goal it sends to the planner and one for the gripper goal it sends  *)
(* to the trajectory gate, and the set of commands whose end was never     *)
(* proven.                                                                 *)
(*                                                                         *)
(* Six threads run the callbacks.  _core_event_lock serialises everything  *)
(* that calls the coordinator; callbacks of the two action clients change  *)
(* their slot under _state_lock only, so they interleave with the two port *)
(* calls of one stop.  An action is a region of either lock.               *)
(*                                                                         *)
(* Of the coordinator (GraspSequence) this module keeps what its ports     *)
(* see: the stage in progress, the refusals, and the evidence of a stop.   *)
(* Whether a snapshot is healthy is one Boolean; the clock does not go     *)
(* back.                                                                   *)
(***************************************************************************)
EXTENDS Integers, FiniteSets

CONSTANTS
  TaskIds,     \* task identifiers a client may use
  MaxResets,   \* bound on successful resets
  Ready,       \* commands whose action server is there when they are issued
  Failures,    \* what goes wrong in the transport: a future or a send
               \* raises, a result is untrusted, a cancel is refused
  None         \* absence of a task, a command or a slot

Stages    == 0..3
Descend   == 1
Gripper   == 2
LastStage == 3
Commands  == TaskIds \X Stages
Kinds     == {"arm", "gripper"}
Kind(c)   == IF c[2] = Gripper THEN "gripper" ELSE "arm"

(* What a result proves of its command, see on_arm_terminal and            *)
(* on_gripper_terminal of the coordinator.                                 *)
Verdicts == {"succeeded", "ended", "unproven"}

(* _ActionSlot.  accepted: the goal handle is known; cancel: the cancel    *)
(* request of this slot was not sent, waits for an answer, or has one.     *)
Slot == [cmd : Commands, accepted : BOOLEAN, cancelOnAccept : BOOLEAN,
         cancel : {"none", "asked", "answered"}, told : BOOLEAN,
         terminal : BOOLEAN]

(* What the first port call of a stop has learned.                         *)
Halfway == [act : Commands \cup {None}, over : BOOLEAN]

(* Where the callbacks of a command are; they run one after the other.     *)
Places == {"none", "sent", "cancelling", "accepted", "awaiting", "terminal",
           "policy", "calling", "deliver", "stop", "over"}

ASSUME NodeConstants ==
  /\ IsFiniteSet(TaskIds)
  /\ MaxResets \in Nat
  /\ Ready \subseteq Commands
  /\ Failures \subseteq {"raise", "untrusted", "refuse_cancel"}
  /\ None \notin TaskIds \cup Commands \cup Slot \cup Halfway

VARIABLES
  phase,            \* coordinator: "IDLE", "RUN", "COMPLETE", "SAFE_STOP"
  task, active, completed, used,
  recovery,         \* _recovery_required
  stopOk,           \* _stop_all_terminal_confirmed
  stopping,         \* between the two port calls of _fail_closed, or None
  reserved,         \* _reserved_task_id
  exec,             \* where the execute callback is
  cancelRequested,  \* _client_cancel_requested
  slot,             \* _arm_slot and _gripper_slot
  uncertain,        \* _uncertain_commands
  place, says,      \* callbacks of each command, and the verdict they carry
  feedback,         \* arm commands whose feedback callback is under way
  scene,            \* contact policy in _planning_scene_status, or "unknown"
  resets,           \* successful resets
  goal,             \* what became of each command downstream
  contacts,         \* target-pad contacts are allowed in the planning scene
  calls,            \* contact requests the scene loader has not served
  answer            \* how each client goal ended

core   == <<phase, task, active, completed, used, recovery, stopOk, stopping>>
client == <<reserved, exec, cancelRequested, answer>>
ports  == <<slot, uncertain>>
cb     == <<place, says, feedback>>
world  == <<scene, resets, goal, contacts, calls>>
vars   == <<core, client, ports, cb, world>>

GoalStates == {"none", "withheld", "sent", "accepted", "refused", "succeeded",
               "failed"}

live      == {c \in Commands : goal[c] \in {"sent", "accepted"}}
succeeded == {c \in Commands : goal[c] = "succeeded"}
issued    == {c \in Commands : goal[c] # "none"}

Init ==
  /\ phase = "IDLE" /\ task = None /\ active = None
  /\ completed = {} /\ used = {}
  /\ recovery = FALSE /\ stopOk = TRUE /\ stopping = None
  /\ reserved = None /\ exec = "none" /\ cancelRequested = FALSE
  /\ slot = [k \in Kinds |-> None] /\ uncertain = {}
  /\ place = [c \in Commands |-> "none"]
  /\ says = [c \in Commands |-> "unproven"]
  /\ feedback = {}
  /\ scene = "unknown" /\ resets = 0
  /\ goal = [c \in Commands |-> "none"]
  /\ contacts = FALSE /\ calls = {}
  /\ answer = [t \in TaskIds |-> "none"]

(* _health: whether the coordinator will accept the snapshot of the        *)
(* permission, interface, target and joint inputs taken for a call.        *)
Snapshots == BOOLEAN

(* A name X_Y is the definition X with a plausible mistake Y.  No          *)
(* specification uses it.                                                  *)

(* Holding _core_event_lock excludes a stop that is half done.             *)
CoreFree == stopping = None

(* _slot: the slot still belongs to this command.  A callback that finds   *)
(* it does not returns at once.                                            *)
Mine(c) == slot[Kind(c)] # None /\ slot[Kind(c)].cmd = c

-----------------------------------------------------------------------------
(***************************************************************************)
(* Stopping.  An outcome of a port is the slot it leaves, the command it   *)
(* marks uncertain, and whether it confirmed that the goal is over.        *)
(***************************************************************************)
Outcome(s, doubt, over) == [slot |-> s, doubt |-> doubt, over |-> over]

CancelSlot_NotOnAccept(k, c) ==
  LET s == slot[k]
  IN CASE s = None      -> {Outcome(s, {}, c \notin uncertain)}
       [] s # None /\ s.cmd # c -> {Outcome(s, {}, FALSE)}
       [] s # None /\ s.cmd = c /\ s.terminal -> {Outcome(s, {}, TRUE)}
       [] s # None /\ s.cmd = c /\ ~s.terminal /\ ~s.accepted ->
            {Outcome(s, {}, FALSE)}
       [] OTHER -> {Outcome([s EXCEPT !.cancel = "asked"], {}, FALSE)}

CancelSlot_AcceptedIsOver(k, c) ==
  LET s == slot[k]
  IN CASE s = None -> {Outcome(s, {}, c \notin uncertain)}
       [] s # None /\ s.cmd # c -> {Outcome(s, {}, FALSE)}
       [] s # None /\ s.cmd = c /\ ~s.terminal /\ ~s.accepted ->
            {Outcome([s EXCEPT !.cancelOnAccept = TRUE], {}, FALSE)}
       [] OTHER -> {Outcome([s EXCEPT !.cancel = "asked"], {}, TRUE)}

(* _cancel_slot, with _request_cancel in its last two cases: the request   *)
(* is sent once per slot, and sending it may raise.                        *)
CancelSlot(k, c) ==
  LET s == slot[k]
  IN CASE s = None -> {Outcome(s, {}, c \notin uncertain)}
       [] s # None /\ s.cmd # c -> {Outcome(s, {}, FALSE)}
       [] s # None /\ s.cmd = c /\ s.terminal -> {Outcome(s, {}, TRUE)}
       [] s # None /\ s.cmd = c /\ ~s.terminal /\ ~s.accepted ->
            {Outcome([s EXCEPT !.cancelOnAccept = TRUE], {}, FALSE)}
       [] s # None /\ s.cmd = c /\ ~s.terminal /\ s.accepted
            /\ s.cancel # "none" -> {Outcome(s, {}, FALSE)}
       [] OTHER -> {Outcome([s EXCEPT !.cancel = "asked"], {}, FALSE)}
                   \cup {Outcome(s, {c}, FALSE) : f \in Failures \cap {"raise"}}

(* _stop_kind: a free slot counts as stopped only if nothing is uncertain. *)
StopKind(k) ==
  IF slot[k] = None THEN {Outcome(None, {}, uncertain = {})}
                    ELSE CancelSlot(k, slot[k].cmd)

(* _fail_closed up to its first port call: cancel the active command, if   *)
(* there is one.                                                           *)
BeginStop(act) ==
  IF act = None
    THEN /\ stopping' = [act |-> None, over |-> TRUE]
         /\ UNCHANGED ports
    ELSE \E o \in CancelSlot(Kind(act), act) :
           /\ stopping' = [act |-> act, over |-> o.over]
           /\ slot' = [slot EXCEPT ![Kind(act)] = o.slot]
           /\ uncertain' = uncertain \cup o.doubt

(* The second port call, stop_all, and the latch.                          *)
FinishStop ==
  /\ stopping # None
  /\ \E a \in StopKind("arm"), g \in StopKind("gripper") :
       /\ slot' = [k \in Kinds |-> IF k = "arm" THEN a.slot ELSE g.slot]
       /\ uncertain' = uncertain \cup a.doubt \cup g.doubt
       /\ stopOk' = (a.over /\ g.over)
       /\ recovery' = ~(stopping.over /\ a.over /\ g.over)
  /\ phase' = "SAFE_STOP"
  /\ active' = stopping.act
  /\ stopping' = None
  /\ UNCHANGED <<task, completed, used, client, cb, world>>

(* request_stop does something only while a sequence runs.                 *)
StopIfRunning ==
  IF phase = "RUN"
    THEN BeginStop(active) /\ UNCHANGED <<phase, active, recovery, stopOk>>
    ELSE UNCHANGED <<phase, active, recovery, stopOk, stopping, ports>>

-----------------------------------------------------------------------------
(***************************************************************************)
(* _submit_arm and _submit_gripper.  A refusal before sending needs no     *)
(* reason here (a server that is not ready, a binding that fails, a send   *)
(* that raises); a busy slot or a client cancel always refuses.  If the    *)
(* response callback cannot be attached, the goal was sent and the         *)
(* coordinator is told that it was not.  pl is where the callbacks are     *)
(* when the caller has moved its own.                                      *)
(***************************************************************************)
NewSlot(c) == [cmd |-> c, accepted |-> FALSE, cancelOnAccept |-> FALSE,
               cancel |-> "none", told |-> FALSE, terminal |-> FALSE]

Withhold(c, pl) ==
  /\ goal' = [goal EXCEPT ![c] = "withheld"]
  /\ active' = None
  /\ stopping' = [act |-> None, over |-> TRUE]
  /\ place' = pl
  /\ UNCHANGED ports

Send(c, pl) ==
  /\ ~cancelRequested /\ slot[Kind(c)] = None /\ c \in Ready
  /\ goal' = [goal EXCEPT ![c] = "sent"]
  /\ slot' = [slot EXCEPT ![Kind(c)] = NewSlot(c)]
  /\ \/ /\ active' = c
        /\ place' = [pl EXCEPT ![c] = "sent"]
        /\ UNCHANGED <<stopping, uncertain>>
     \/ /\ "raise" \in Failures
        /\ active' = None
        /\ place' = [pl EXCEPT ![c] = "over"]
        /\ uncertain' = uncertain \cup {c}
        /\ stopping' = [act |-> None, over |-> TRUE]

Submit(c, pl) == Withhold(c, pl) \/ Send(c, pl)

-----------------------------------------------------------------------------
(* The client's goal: reserve, check the scene, start, run, answer.        *)

(* _on_goal *)
OnGoal(t) ==
  /\ CoreFree /\ phase = "IDLE" /\ reserved = None
  /\ reserved' = t /\ exec' = "reserved"
  /\ UNCHANGED <<core, cancelRequested, answer, ports, cb, world>>

Leave(t, a) ==
  /\ reserved' = None /\ exec' = "none" /\ cancelRequested' = FALSE
  /\ answer' = [answer EXCEPT ![t] = a]

(* _execute_impl up to start: approach needs a scene in which contacts     *)
(* with the target are confirmed to be off.                                *)
AdmitScene ==
  /\ exec = "reserved" /\ scene = "forbidden"
  /\ exec' = "admitted"
  /\ UNCHANGED <<core, reserved, cancelRequested, answer, ports, cb, world>>

(* The scene check fails, or building the snapshots of the start raises.   *)
Refuse ==
  /\ exec \in {"reserved", "admitted"}
  /\ Leave(reserved, "aborted")
  /\ UNCHANGED <<core, ports, cb, world>>

(* start: a used task identifier or an unhealthy snapshot stops.           *)
Start(ok) ==
  /\ CoreFree /\ exec = "admitted" /\ phase = "IDLE"
  /\ exec' = "running"
  /\ task' = reserved
  /\ IF ok /\ reserved \notin used
       THEN /\ used' = used \cup {reserved}
            /\ phase' = "RUN"
            /\ Submit(<<reserved, 0>>, place)
            /\ UNCHANGED <<completed, recovery, stopOk>>
       ELSE /\ BeginStop(None)
            /\ UNCHANGED <<phase, active, completed, used, recovery, stopOk,
                           place, goal>>
  /\ UNCHANGED <<reserved, cancelRequested, answer, says, feedback, scene,
                 resets, contacts, calls>>

(* The control loop: a healthy tick changes nothing here, an unhealthy or  *)
(* overdue one stops.                                                      *)
TickFails ==
  /\ CoreFree /\ exec = "running" /\ phase = "RUN"
  /\ BeginStop(active)
  /\ UNCHANGED <<phase, task, active, completed, used, recovery, stopOk,
                 client, cb, world>>

Finish_OnlyComplete ==
  /\ CoreFree /\ exec = "running" /\ phase = "COMPLETE"
  /\ Leave(reserved, "succeeded")
  /\ UNCHANGED <<core, ports, cb, world>>

Finish_AnyEnd ==
  /\ CoreFree /\ exec = "running" /\ phase \in {"COMPLETE", "SAFE_STOP"}
  /\ Leave(reserved, IF cancelRequested THEN "canceled" ELSE "succeeded")
  /\ UNCHANGED <<core, ports, cb, world>>

(* The end of _execute_impl and its finally clause.                        *)
Finish ==
  /\ CoreFree /\ exec = "running" /\ phase \in {"COMPLETE", "SAFE_STOP"}
  /\ Leave(reserved, CASE cancelRequested     -> "canceled"
                       [] phase = "COMPLETE" /\ ~cancelRequested -> "succeeded"
                       [] OTHER               -> "aborted")
  /\ UNCHANGED <<core, ports, cb, world>>

(* _on_cancel; outside a running sequence it is refused.                   *)
OnCancel ==
  /\ CoreFree /\ exec = "running" /\ phase = "RUN"
  /\ cancelRequested' = TRUE
  /\ BeginStop(active)
  /\ UNCHANGED <<phase, task, active, completed, used, recovery, stopOk,
                 reserved, exec, answer, cb, world>>

Reset_IgnoresSlots ==
  /\ CoreFree /\ resets < MaxResets
  /\ reserved = None /\ uncertain = {}
  /\ phase \in {"COMPLETE", "SAFE_STOP"}
  /\ phase' = "IDLE" /\ task' = None /\ active' = None /\ completed' = {}
  /\ recovery' = FALSE /\ stopOk' = TRUE
  /\ scene' = "unknown" /\ resets' = resets + 1
  /\ UNCHANGED <<used, stopping, client, ports, cb, goal, contacts, calls>>

(* _on_reset: it always vouches for the external stop.                     *)
Reset ==
  /\ CoreFree /\ resets < MaxResets
  /\ reserved = None /\ slot = [k \in Kinds |-> None] /\ uncertain = {}
  /\ phase \in {"COMPLETE", "SAFE_STOP"}
  /\ phase' = "IDLE" /\ task' = None /\ active' = None /\ completed' = {}
  /\ recovery' = FALSE /\ stopOk' = TRUE
  /\ scene' = "unknown" /\ resets' = resets + 1
  /\ UNCHANGED <<used, stopping, client, ports, cb, goal, contacts, calls>>

-----------------------------------------------------------------------------
(* Callbacks of the two action clients.                                    *)

To(c, p, v) == /\ place' = [place EXCEPT ![c] = p]
               /\ says' = [says EXCEPT ![c] = v]

Keeps == UNCHANGED <<core, client, feedback, world>>

(* A future that raised: the command is uncertain, its slot stays, and a   *)
(* failure without proof is delivered.                                     *)
FutureRaises(c) ==
  /\ "raise" \in Failures
  /\ place[c] \in {"sent", "accepted", "awaiting"} /\ Mine(c)
  /\ uncertain' = uncertain \cup {c}
  /\ To(c, "deliver", "unproven")
  /\ UNCHANGED slot /\ Keeps

GoalRejected_LosesSent(c) ==
  /\ place[c] = "sent" /\ Mine(c)
  /\ slot' = [slot EXCEPT ![Kind(c)] = None]
  /\ To(c, "deliver", "unproven")
  /\ UNCHANGED uncertain /\ Keeps

(* _on_arm_goal_response, _on_gripper_goal_response *)
GoalRejected(c) ==
  /\ place[c] = "sent" /\ Mine(c) /\ goal[c] = "refused"
  /\ slot' = [slot EXCEPT ![Kind(c)] = None]
  /\ To(c, "deliver", "unproven")
  /\ UNCHANGED uncertain /\ Keeps

GoalAccepted(c) ==
  /\ place[c] = "sent" /\ Mine(c)
  /\ goal[c] \in {"accepted", "succeeded", "failed"}
  /\ slot' = [slot EXCEPT ![Kind(c)].accepted = TRUE]
  /\ To(c, IF slot[Kind(c)].cancelOnAccept THEN "cancelling" ELSE "accepted",
        "unproven")
  /\ UNCHANGED uncertain /\ Keeps

(* _request_cancel of a stop that came before the response.                *)
CancelAccepted(c) ==
  /\ place[c] = "cancelling"
  /\ \E o \in CancelSlot(Kind(c), c) :
       /\ slot' = [slot EXCEPT ![Kind(c)] = o.slot]
       /\ uncertain' = uncertain \cup o.doubt
  /\ To(c, "accepted", "unproven")
  /\ Keeps

AwaitResult(c) ==
  /\ place[c] = "accepted"
  /\ To(c, "awaiting", "unproven")
  /\ UNCHANGED ports /\ Keeps

(* _on_arm_result, _on_gripper_result: untrusted evidence retains the      *)
(* slot.  What the wrapper action reports as over is over.                 *)
ResultUntrusted(c) ==
  /\ "untrusted" \in Failures
  /\ place[c] = "awaiting" /\ Mine(c)
  /\ uncertain' = uncertain \cup {c}
  /\ To(c, "stop", "unproven")
  /\ UNCHANGED slot /\ Keeps

ResultTrusted(c) ==
  /\ place[c] = "awaiting" /\ Mine(c) /\ goal[c] \in {"succeeded", "failed"}
  /\ slot' = [slot EXCEPT ![Kind(c)].terminal = TRUE]
  /\ \E v \in Verdicts :
       /\ v = "succeeded" => goal[c] = "succeeded"
       /\ To(c, "terminal", v)
  /\ UNCHANGED uncertain /\ Keeps

(* The slot is released before the coordinator is told.  A successful      *)
(* descend first has the contact policy changed, unless it already is.     *)
ReleaseSlot(c) ==
  /\ place[c] = "terminal" /\ Mine(c)
  /\ slot' = [slot EXCEPT ![Kind(c)] = None]
  /\ To(c, IF /\ c[2] = Descend /\ says[c] = "succeeded"
              /\ ~cancelRequested /\ scene # "allowed"
             THEN "policy" ELSE "deliver", says[c])
  /\ UNCHANGED uncertain /\ Keeps

(* _enable_target_pad_contacts_after_descend: ask, wait for the answer and *)
(* for a status that shows it.  Anything that fails, a cancel or a timeout *)
(* included, asks for a stop and drops the terminal; the request is still  *)
(* with the loader.                                                        *)
AskContacts(c) ==
  /\ place[c] = "policy"
  /\ calls' = calls \cup {c}
  /\ To(c, "calling", says[c])
  /\ UNCHANGED <<core, client, ports, feedback, scene, resets, goal, contacts>>

ContactsConfirmed(c) ==
  /\ place[c] = "calling" /\ c \notin calls /\ scene = "allowed"
  /\ ~cancelRequested
  /\ To(c, "deliver", says[c])
  /\ UNCHANGED ports /\ Keeps

ContactsFail(c) ==
  /\ place[c] \in {"policy", "calling"}
  /\ To(c, "stop", says[c])
  /\ UNCHANGED ports /\ Keeps

(* _retain_uncertain_slot and the failed policy end in request_stop.       *)
StopRequested(c) ==
  /\ CoreFree /\ place[c] = "stop"
  /\ StopIfRunning
  /\ To(c, "over", says[c])
  /\ UNCHANGED <<task, completed, used, client, feedback, world>>

(***************************************************************************)
(* _deliver_arm_terminal and _deliver_gripper_terminal under the core      *)
(* lock.  After a client cancel the terminal is replaced by a stop.        *)
(***************************************************************************)
PriorTask(c) == task # None /\ c[1] \in used /\ c[1] # task

DeliverCancelled(c) ==
  /\ CoreFree /\ place[c] = "deliver" /\ cancelRequested
  /\ StopIfRunning
  /\ To(c, "over", says[c])
  /\ UNCHANGED <<task, completed, used, client, feedback, world>>

(* Events the coordinator ignores.                                         *)
DeliverIgnored(c) ==
  /\ CoreFree /\ place[c] = "deliver" /\ ~cancelRequested
  /\ \/ phase \in {"IDLE", "COMPLETE"}
     \/ PriorTask(c)
     \/ phase = "SAFE_STOP" /\ (active # c \/ says[c] = "unproven")
  /\ To(c, "over", says[c])
  /\ UNCHANGED <<ports, core, client, feedback, world>>

(* _confirm_late_terminal *)
DeliverLate(c) ==
  /\ CoreFree /\ place[c] = "deliver" /\ ~cancelRequested
  /\ ~PriorTask(c) /\ phase = "SAFE_STOP"
  /\ active = c /\ says[c] # "unproven"
  /\ active' = None /\ completed' = completed \cup {c}
  /\ recovery' = ~stopOk
  /\ To(c, "over", says[c])
  /\ UNCHANGED <<phase, task, used, stopOk, stopping, ports, client, feedback,
                 world>>

(* The event guard trips, or the report is no success of the active        *)
(* command; a proven end leaves nothing to cancel.                         *)
DeliverFailure(c, ok) ==
  /\ CoreFree /\ place[c] = "deliver" /\ ~cancelRequested
  /\ ~PriorTask(c) /\ phase = "RUN"
  /\ ok => active # c \/ says[c] # "succeeded"
  /\ IF ok /\ active = c /\ says[c] = "ended"
       THEN BeginStop(None) /\ completed' = completed \cup {c}
       ELSE BeginStop(active) /\ UNCHANGED completed
  /\ To(c, "over", says[c])
  /\ UNCHANGED <<phase, task, active, used, recovery, stopOk, client, feedback,
                 world>>

DeliverSuccess(c) ==
  /\ CoreFree /\ place[c] = "deliver" /\ ~cancelRequested
  /\ ~PriorTask(c) /\ phase = "RUN"
  /\ active = c /\ says[c] = "succeeded"
  /\ completed' = completed \cup {c}
  /\ LET pl == [place EXCEPT ![c] = "over"]
     IN IF c[2] = LastStage
          THEN /\ phase' = "COMPLETE" /\ active' = None /\ place' = pl
               /\ UNCHANGED <<stopping, ports, goal>>
          ELSE Submit(<<c[1], c[2] + 1>>, pl) /\ UNCHANGED phase
  /\ UNCHANGED <<task, used, recovery, stopOk, client, says, feedback, scene,
                 resets, contacts, calls>>

-----------------------------------------------------------------------------
(* Execution feedback of an arm goal, once per slot.                       *)

FeedbackSeen(c) ==
  /\ Kind(c) = "arm" /\ Mine(c) /\ ~slot["arm"].told
  /\ goal[c] \notin {"sent", "refused"}
  /\ slot' = [slot EXCEPT !["arm"].told = TRUE]
  /\ feedback' = feedback \cup {c}
  /\ UNCHANGED <<core, client, uncertain, place, says, world>>

(* arm_execution_started: for a completed or the active command nothing    *)
(* changes here; anything else, a prior task's command included, stops.    *)
FeedbackTold(c, ok) ==
  /\ CoreFree /\ c \in feedback
  /\ feedback' = feedback \ {c}
  /\ IF \/ phase # "RUN"
        \/ ok /\ ~cancelRequested /\ (c \in completed \/ c = active)
       THEN UNCHANGED <<stopping, ports>>
       ELSE BeginStop(active)
  /\ UNCHANGED <<phase, task, active, completed, used, recovery, stopOk,
                 client, place, says, world>>

(* _on_cancel_response: a refused or failed cancel makes the command       *)
(* uncertain for good.                                                     *)
CancelAnswered(k) ==
  /\ slot[k] # None
  /\ slot[k].cancel = "asked"
  /\ slot' = [slot EXCEPT ![k].cancel = "answered"]
  /\ \/ UNCHANGED uncertain
     \/ /\ "refuse_cancel" \in Failures
        /\ uncertain' = uncertain \cup {slot[k].cmd}
  /\ UNCHANGED <<core, client, cb, world>>

-----------------------------------------------------------------------------
(* Outside the node: the two action servers, the scene loader, its clients.*)

ServerAccepts(c) ==
  /\ goal[c] = "sent"
  /\ goal' = [goal EXCEPT ![c] = "accepted"]
  /\ UNCHANGED <<core, client, ports, cb, scene, resets, contacts, calls>>

MotionEnds(c) ==
  /\ c \in live
  /\ \E g \in {"refused", "succeeded", "failed"} :
       /\ g = "refused" <=> goal[c] = "sent"
       /\ goal' = [goal EXCEPT ![c] = g]
  /\ UNCHANGED <<core, client, ports, cb, scene, resets, contacts, calls>>

LoaderServes(c) ==
  /\ c \in calls
  /\ calls' = calls \ {c}
  /\ contacts' \in {contacts, TRUE}
  /\ UNCHANGED <<core, client, ports, cb, scene, resets, goal>>

ContactsWithdrawn ==
  /\ contacts /\ reserved = None
  /\ contacts' = FALSE
  /\ UNCHANGED <<core, client, ports, cb, scene, resets, goal, calls>>

(* _on_planning_scene_status.  A status that is stale, unready or invalid  *)
(* only refuses what Refuse and ContactsFail refuse anyway.                *)
SceneStatus ==
  /\ scene' = IF contacts THEN "allowed" ELSE "forbidden"
  /\ scene' # scene
  /\ UNCHANGED <<core, client, ports, cb, resets, goal, contacts, calls>>

-----------------------------------------------------------------------------
Callback(c) ==
  \/ FutureRaises(c)
  \/ GoalRejected(c)
  \/ GoalAccepted(c)
  \/ CancelAccepted(c)
  \/ AwaitResult(c)
  \/ ResultUntrusted(c)
  \/ ResultTrusted(c)
  \/ ReleaseSlot(c)
  \/ AskContacts(c)
  \/ ContactsConfirmed(c)
  \/ ContactsFail(c)
  \/ StopRequested(c)
  \/ DeliverCancelled(c)
  \/ DeliverIgnored(c)
  \/ DeliverLate(c)
  \/ \E ok \in Snapshots : DeliverFailure(c, ok)
  \/ DeliverSuccess(c)
  \/ FeedbackSeen(c)
  \/ \E ok \in Snapshots : FeedbackTold(c, ok)

Outside(c) == ServerAccepts(c) \/ MotionEnds(c) \/ LoaderServes(c)

Next ==
  \/ FinishStop
  \/ \E t \in TaskIds : OnGoal(t)
  \/ AdmitScene
  \/ Refuse
  \/ \E ok \in Snapshots : Start(ok)
  \/ TickFails
  \/ Finish
  \/ OnCancel
  \/ Reset
  \/ \E c \in Commands : Callback(c)
  \/ \E c \in Commands : Outside(c)
  \/ \E k \in Kinds : CancelAnswered(k)
  \/ ContactsWithdrawn
  \/ SceneStatus

Spec == Init /\ [][Next]_vars

-----------------------------------------------------------------------------
(* Properties                                                              *)

TypeOK ==
  /\ phase \in {"IDLE", "RUN", "COMPLETE", "SAFE_STOP"}
  /\ task \in TaskIds \cup {None}
  /\ active \in Commands \cup {None}
  /\ completed \subseteq Commands
  /\ used \subseteq TaskIds
  /\ recovery \in BOOLEAN /\ stopOk \in BOOLEAN
  /\ stopping \in Halfway \cup {None}
  /\ reserved \in TaskIds \cup {None}
  /\ exec \in {"none", "reserved", "admitted", "running"}
  /\ cancelRequested \in BOOLEAN
  /\ slot \in [Kinds -> Slot \cup {None}]
  /\ uncertain \subseteq Commands
  /\ place \in [Commands -> Places]
  /\ says \in [Commands -> Verdicts]
  /\ feedback \subseteq Commands
  /\ scene \in {"unknown", "allowed", "forbidden"}
  /\ resets \in 0..MaxResets
  /\ goal \in [Commands -> GoalStates]
  /\ contacts \in BOOLEAN
  /\ calls \subseteq Commands
  /\ answer \in [TaskIds -> {"none", "succeeded", "canceled", "aborted"}]

(* A goal that may still move is never forgotten: whatever response,       *)
(* result, cancel or exception came, its slot holds it, which is what      *)
(* _stop_all, _on_goal and _on_reset go by.                                *)
MovingIsHeld == \A c \in live : Mine(c)

(* When the wrapper's two port answers let the coordinator stop without    *)
(* asking for a recovery, nothing moves: the answers of _cancel_slot and   *)
(* _stop_all, given at different moments while callbacks go on, are true.  *)
ConfirmedIsOver == phase = "SAFE_STOP" /\ ~recovery => live = {}

(* The action result says succeeded only for a task all of whose four      *)
(* motions succeeded, whatever cancel raced its end.                       *)
SuccessIsTrue ==
  \A t \in TaskIds :
    answer[t] = "succeeded" => \A s \in Stages : <<t, s>> \in succeeded

(* The wrapper, whose reset always claims that the external stop is        *)
(* confirmed, still resumes work only when nothing moves, releases one     *)
(* motion at a time and in order, and keeps both through late callbacks:   *)
(* it implements the abstract coordinator.                                 *)
Mode == CASE stopping # None                         -> "stopped"
          [] stopping = None /\ phase = "IDLE"       -> "idle"
          [] stopping = None /\ phase = "RUN"        -> "moving"
          [] stopping = None /\ phase = "COMPLETE"   -> "complete"
          [] OTHER                                   -> "stopped"

Staged == INSTANCE StagedMotion WITH
            mode <- Mode, released <- issued, running <- live,
            done <- succeeded

Staging == Staged!Spec

(***************************************************************************)
(* Fairness: the executor runs the callbacks and the execute loop, the     *)
(* goal response arrives, and a sequence that stays busy for the command   *)
(* timeout sees a tick that fails.  The servers need not end any motion,   *)
(* answer a cancel, or let any result arrive.                              *)
(***************************************************************************)
Fairness ==
  /\ WF_vars(FinishStop)
  /\ WF_vars(AdmitScene \/ Refuse)
  /\ WF_vars(\E ok \in Snapshots : Start(ok))
  /\ WF_vars(TickFails)
  /\ WF_vars(Finish)
  /\ \A c \in Commands : /\ WF_vars(GoalAccepted(c))
                         /\ WF_vars(CancelAccepted(c))
FairSpec == Spec /\ Fairness

(* A client that was let in gets its answer, even if no result, no cancel  *)
(* answer and no policy answer ever comes.                                 *)
SequenceEnds == \A t \in TaskIds : reserved = t ~> reserved # t

(* After a stop no accepted goal is left alone: it is asked to cancel,     *)
(* also when the stop came before its acceptance was known, or it is over, *)
(* or its command is on record as uncertain.                               *)
StopReachesGoal ==
  \A c \in Commands :
    (phase = "SAFE_STOP" /\ Mine(c) /\ goal[c] = "accepted")
      ~> (\/ ~Mine(c) \/ slot[Kind(c)].cancel # "none"
          \/ c \in uncertain \/ goal[c] # "accepted")
=============================================================================
