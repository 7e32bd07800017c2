---------------------------- MODULE MoveItAdapter ----------------------------
(***************************************************************************)
(* The plan-only adapter, adapter_node.py of edgegrasp_moveit_adapter: a   *)
(* PlanTarget request is checked, planned by MoveGroup, and its trajectory *)
(* sent once to the typed trajectory gate.  One request is reserved at a   *)
(* time, but the goals it sent may outlive it: callbacks left on futures   *)
(* that had not answered in time run while a later request is active.      *)
(*                                                                         *)
(* Four threads run the callbacks.  _execute holds no lock while it waits, *)
(* so an action is a region of _state_lock or one turn of a wait.  Every   *)
(* wait has a deadline of its own; time is abstract, a deadline may pass   *)
(* at any step.  An accepted goal has an identifier, and the two action    *)
(* servers are the environment.                                            *)
(***************************************************************************)
EXTENDS Naturals, FiniteSets

CONSTANTS
  Goals,      \* PlanTarget goals of the client
  Carries,    \* the command identifiers each goal may carry
  MaxEpoch,   \* bound on clock_epoch
  None        \* nothing reserved or active; no outcome yet

Commands == UNION {Carries[g] : g \in Goals}
Kinds    == {"plan", "gate"}

(* What a server did with a goal.  The gate may end a goal without having  *)
(* seen the end of the motion.                                             *)
Over     == {"succeeded", "stopped", "uncertain"}
Open     == {"sent", "running"}
Statuses == Open \cup Over \cup {"none", "rejected"}

(* What is left of a goal after its attempt: the callback of its response; *)
(* those of its cancel and result; that of its result, for its cancel      *)
(* raised; that of its cancel, for its result could not be asked for;      *)
(* nothing, for its late response or its result raised, or neither the     *)
(* cancel nor the result could be asked for ("lost"); or nothing, because  *)
(* none was attached or the goal is over ("none").  The end of a goal is   *)
(* learned in three of these cases.                                        *)
Watching == {"late", "watched", "unasked"}
Failing  == {"unwatched", "lost"}
Tracks   == {"none"} \cup Watching \cup Failing

(* The _GateOutcome a result reports.                                      *)
Outcome == [dispatched : BOOLEAN, terminal : BOOLEAN, success : BOOLEAN]

Unsent      == [dispatched |-> FALSE, terminal |-> FALSE, success |-> FALSE]
Unconfirmed == [dispatched |-> TRUE,  terminal |-> FALSE, success |-> FALSE]

Before  == {"validating", "policy", "ik", "planning"}
Places  == {"new", "accepted", "plan_response", "plan_result", "plan_cancel",
            "plan_terminal", "trajectory", "admission", "sending",
            "gate_response", "gate_result", "gate_cancel", "gate_terminal",
            "finish", "done"} \cup Before

ASSUME AdapterConstants ==
  /\ IsFiniteSet(Goals) /\ MaxEpoch \in Nat
  /\ None \notin Goals \cup Commands \cup Outcome

VARIABLES
  reserved,   \* _reserved_request_id
  active,     \* _active_request_id with its attempt generation, as a goal
  fault,      \* _fault_latched is set
  dispatched, \* _dispatched_command_ids
  epoch,      \* _clock_epoch
  resetting,  \* a reset has found nothing reserved and not yet committed
  pc,         \* of the execute callback of each goal
  command,    \* _request_id of each request
  wanted,     \* clock_epoch of each request
  cancelled,  \* is_cancel_requested
  outcome,    \* of the result returned to the client
  server,     \* what the servers did with the goals sent for a request
  asked,      \* whether a cancel was sent for them
  track

adapter == <<reserved, active, fault, dispatched, epoch, resetting>>
remote  == <<server, asked, track>>
request == <<command, wanted>>
vars    == <<adapter, pc, request, cancelled, outcome, remote>>

Init ==
  /\ reserved = None /\ active = None /\ fault = FALSE
  /\ dispatched = {} /\ epoch = 0 /\ resetting = FALSE
  /\ pc = [g \in Goals |-> "new"]
  /\ command = [g \in Goals |-> None]
  /\ wanted = [g \in Goals |-> 0]
  /\ cancelled = [g \in Goals |-> FALSE]
  /\ outcome = [g \in Goals |-> None]
  /\ server = [g \in Goals |-> [k \in Kinds |-> "none"]]
  /\ asked = [g \in Goals |-> [k \in Kinds |-> FALSE]]
  /\ track = [g \in Goals |-> [k \in Kinds |-> "none"]]

-----------------------------------------------------------------------------
At(g, place) == pc[g] = place
Goto(g, place) == pc' = [pc EXCEPT ![g] = place]

(* What the callback of an old attempt must not do to a newer one.         *)
LatchAttempt(g) == fault' = (fault \/ active = g)

(* The inputs may have failed at any check: only the latch and the epoch   *)
(* are known to the model.                                                 *)
Safe(g) == ~fault /\ wanted[g] = epoch

Becomes(var, g, k, value) == [var EXCEPT ![g][k] = value]

End(g, o) == Goto(g, "finish") /\ outcome' = [outcome EXCEPT ![g] = o]

-----------------------------------------------------------------------------
(* The request is reserved when the goal is accepted and its attempt       *)
(* starts later, in a thread of its own.                                   *)
Accept(g) ==
  /\ At(g, "new") /\ reserved = None
  /\ \E c \in Carries[g], e \in 0..MaxEpoch :
       /\ reserved' = c
       /\ command' = [command EXCEPT ![g] = c]
       /\ wanted' = [wanted EXCEPT ![g] = e]
  /\ Goto(g, "accepted")
  /\ UNCHANGED <<active, fault, dispatched, epoch, resetting, cancelled,
                 outcome, remote>>

RequestCancel(g) ==
  /\ pc[g] \notin {"new", "finish", "done"} /\ ~cancelled[g]
  /\ cancelled' = [cancelled EXCEPT ![g] = TRUE]
  /\ UNCHANGED <<adapter, pc, request, outcome, remote>>

NewAttempt(g) ==
  /\ At(g, "accepted") /\ active' = g /\ Goto(g, "validating")
  /\ UNCHANGED <<reserved, fault, dispatched, epoch, resetting, request,
                 cancelled, outcome, remote>>

(* A step that leaves everything but the place of the attempt.             *)
Passes(g, from, to) ==
  /\ At(g, from) /\ Safe(g) /\ Goto(g, to)
  /\ UNCHANGED <<adapter, request, cancelled, outcome, remote>>

ValidateRequest(g)    == Passes(g, "validating", "policy")
ContactPolicyReady(g) == Passes(g, "policy", "ik")
SolveIk(g)            == Passes(g, "ik", "planning")

(* Refused, unsafe, unavailable, cancelled or out of time.                 *)
GivesUp(g) ==
  /\ pc[g] \in Before \cup {"trajectory", "admission"}
  /\ End(g, Unsent)
  /\ UNCHANGED <<adapter, request, cancelled, remote>>

(* compute_ik raised: the fault is the node's, whoever is active.          *)
IkRaises(g) ==
  /\ At(g, "ik") /\ fault' = TRUE /\ End(g, Unsent)
  /\ UNCHANGED <<reserved, active, dispatched, epoch, resetting, request,
                 cancelled, remote>>

-----------------------------------------------------------------------------
(* The MoveGroup goal.                                                     *)
SendPlan(g) ==
  /\ At(g, "planning")
  /\ \/ /\ server' = Becomes(server, g, "plan", "sent")
        /\ Goto(g, "plan_response")
        /\ UNCHANGED <<fault, outcome>>
     \/ LatchAttempt(g) /\ End(g, Unsent) /\ UNCHANGED server
  /\ UNCHANGED <<reserved, active, dispatched, epoch, resetting, request,
                 cancelled, asked, track>>

(* A response that had not come when the wait gave up is left to the late  *)
(* callback.                                                               *)
GivesUpAnswer(g, k, place) ==
  /\ At(g, place) /\ End(g, Unsent)
  /\ track' = Becomes(track, g, k, "late")
  /\ UNCHANGED <<adapter, request, cancelled, server, asked>>

PlanUnanswered(g) == GivesUpAnswer(g, "plan", "plan_response")

(* The response raised; whatever the server did with the goal is unknown.  *)
AnswerRaises(g, place) ==
  /\ At(g, place) /\ LatchAttempt(g) /\ End(g, Unsent)
  /\ UNCHANGED <<reserved, active, dispatched, epoch, resetting, request,
                 cancelled, remote>>

PlanAnswerRaises(g) == AnswerRaises(g, "plan_response")

Answered(g, k, from, to) ==
  /\ At(g, from) /\ server[g][k] \notin {"none", "sent"}
  /\ IF server[g][k] = "rejected"
       THEN End(g, Unsent)
       ELSE Goto(g, to) /\ UNCHANGED outcome
  /\ UNCHANGED <<adapter, request, cancelled, remote>>

PlanAnswered(g) == Answered(g, "plan", "plan_response", "plan_result")

(* The result of an accepted goal could not be asked for or read: the goal *)
(* is cancelled and counts as not ended.                                   *)
ResultUnavailable(g, k, places, o) ==
  /\ pc[g] \in places /\ server[g][k] \in Over \cup {"running"}
  /\ LatchAttempt(g) /\ End(g, o)
  /\ \E sent \in BOOLEAN : asked' = Becomes(asked, g, k, sent)
  /\ UNCHANGED <<reserved, active, dispatched, epoch, resetting, request,
                 cancelled, server, track>>

PlanResultUnavailable(g) ==
  ResultUnavailable(g, "plan", {"plan_response", "plan_result"}, Unsent)

(* The poll of the result ended on a cancel, an unsafe input or a timeout; *)
(* or the result came and the client had cancelled.                        *)
GivesUpResult(g, from, to) ==
  /\ At(g, from) /\ Goto(g, to)
  /\ UNCHANGED <<adapter, request, cancelled, outcome, remote>>

PlanGivenUp(g) == GivesUpResult(g, "plan_result", "plan_cancel")

Listening(sent) == IF sent THEN "watched" ELSE "unasked"
Deaf(sent)      == IF sent THEN "unwatched" ELSE "lost"

(* The cancel request is sent, or raises; its answer is awaited.  Anything *)
(* but an acceptance latches the attempt.                                  *)
AskCancel(g, k, from, to) ==
  /\ At(g, from) /\ Goto(g, to)
  /\ \E sent, confirmed \in BOOLEAN :
       /\ confirmed => sent
       /\ asked' = Becomes(asked, g, k, asked[g][k] \/ sent)
       /\ IF confirmed THEN UNCHANGED fault ELSE LatchAttempt(g)
  /\ UNCHANGED <<reserved, active, dispatched, epoch, resetting, request,
                 cancelled, outcome, server, track>>

CancelPlan(g) == AskCancel(g, "plan", "plan_cancel", "plan_terminal")

(* The end of the cancelled goal is seen in time, or the callback of its   *)
(* result stays, if that can still come.                                   *)
PlanTerminal(g) ==
  /\ At(g, "plan_terminal") /\ End(g, Unsent)
  /\ \/ /\ server[g]["plan"] \in Over
        /\ IF server[g]["plan"] = "succeeded"
             THEN LatchAttempt(g) ELSE UNCHANGED fault
        /\ UNCHANGED track
     \/ /\ LatchAttempt(g)
        /\ track' \in {track, Becomes(track, g, "plan",
                                      Listening(asked[g]["plan"]))}
  /\ UNCHANGED <<reserved, active, dispatched, epoch, resetting, request,
                 cancelled, server, asked>>

(* A plan that failed, or that carries a MoveIt error, ends the request.   *)
Planned(g) ==
  /\ At(g, "plan_result") /\ server[g]["plan"] \in Over
  /\ \/ End(g, Unsent)
     \/ /\ server[g]["plan"] = "succeeded" /\ ~cancelled[g]
        /\ Goto(g, "trajectory") /\ UNCHANGED outcome
  /\ UNCHANGED <<adapter, request, cancelled, remote>>

AdmitTrajectory(g) == Passes(g, "trajectory", "admission")

-----------------------------------------------------------------------------
(* The gate goal.  The command is entered under the lock, after the gate   *)
(* server was found; fault and inputs are not looked at again.             *)
AdmitDispatch(g) ==
  /\ At(g, "admission") /\ ~cancelled[g] /\ active = g
  /\ IF command[g] \in dispatched
       THEN fault' = TRUE /\ End(g, Unsent) /\ UNCHANGED dispatched
       ELSE /\ dispatched' = dispatched \cup {command[g]}
            /\ Goto(g, "sending") /\ UNCHANGED <<fault, outcome>>
  /\ UNCHANGED <<reserved, active, epoch, resetting, request, cancelled, remote>>

SendGate(g) ==
  /\ At(g, "sending") /\ ~cancelled[g]
  /\ server' = Becomes(server, g, "gate", "sent")
  /\ Goto(g, "gate_response")
  /\ UNCHANGED <<adapter, request, cancelled, outcome, asked, track>>

(* Cancelled between the two checks, or the send raised: the command may   *)
(* be dispatched again.                                                    *)
SendGateFails(g) ==
  /\ At(g, "sending") /\ End(g, Unsent)
  /\ dispatched' = dispatched \ {command[g]}
  /\ IF cancelled[g] THEN UNCHANGED fault ELSE LatchAttempt(g)
  /\ UNCHANGED <<reserved, active, epoch, resetting, request, cancelled, remote>>

GateUnanswered_ReleasesCommand(g) ==
  /\ At(g, "gate_response") /\ End(g, Unsent)
  /\ track' = Becomes(track, g, "gate", "late")
  /\ dispatched' = dispatched \ {command[g]}
  /\ UNCHANGED <<reserved, active, fault, epoch, resetting, request, cancelled,
                 server, asked>>

GateUnanswered(g)   == GivesUpAnswer(g, "gate", "gate_response")
GateAnswerRaises(g) == AnswerRaises(g, "gate_response")
GateAnswered(g)     == Answered(g, "gate", "gate_response", "gate_result")
GateResultUnavailable(g) ==
  ResultUnavailable(g, "gate", {"gate_response", "gate_result"}, Unconfirmed)
GateGivenUp(g) == GivesUpResult(g, "gate_result", "gate_cancel")
CancelGate(g)  == AskCancel(g, "gate", "gate_cancel", "gate_terminal")

(* What the gate reported of a goal that is over.                          *)
Reported(g) ==
  [dispatched |-> TRUE,
   terminal   |-> server[g]["gate"] # "uncertain",
   success    |-> server[g]["gate"] = "succeeded"]

(* A cancelled goal whose terminal was not seen, in time or at all, leaves *)
(* the adapter latched; a success after the cancel is none.                *)
GateTerminal_TrustsCancel(g) ==
  /\ At(g, "gate_terminal")
  /\ End(g, [Unconfirmed EXCEPT !.terminal = TRUE])
  /\ UNCHANGED <<adapter, request, cancelled, remote>>

GateTerminal_WaitsOn(g) ==
  /\ At(g, "gate_terminal") /\ server[g]["gate"] \in Over
  /\ IF server[g]["gate"] = "succeeded" THEN LatchAttempt(g) ELSE UNCHANGED fault
  /\ End(g, [Reported(g) EXCEPT !.success = FALSE])
  /\ UNCHANGED <<reserved, active, dispatched, epoch, resetting, request,
                 cancelled, remote>>

GateTerminal_Forgives(g) ==
  /\ At(g, "gate_terminal")
  /\ IF server[g]["gate"] \in Over
       THEN End(g, [Reported(g) EXCEPT !.success = FALSE])
       ELSE End(g, Unconfirmed)
  /\ UNCHANGED <<adapter, request, cancelled, remote>>

GateTerminal(g) ==
  /\ At(g, "gate_terminal")
  /\ LET seen == [Reported(g) EXCEPT !.success = FALSE]
     IN \/ /\ server[g]["gate"] \in Over
           /\ IF server[g]["gate"] = "succeeded"
                THEN LatchAttempt(g) ELSE UNCHANGED fault
           /\ End(g, seen)
        \/ /\ LatchAttempt(g)
           /\ \/ End(g, Unconfirmed)
              \/ server[g]["gate"] \in Over /\ End(g, seen)
  /\ UNCHANGED <<reserved, active, dispatched, epoch, resetting, request,
                 cancelled, remote>>

(* A result that names another command is the node's fault.                *)
GateMismatch(g) ==
  /\ At(g, "gate_result") /\ server[g]["gate"] \in Over
  /\ fault' = TRUE /\ End(g, Unconfirmed)
  /\ UNCHANGED <<reserved, active, dispatched, epoch, resetting, request,
                 cancelled, remote>>

(* A cancel that comes after the result was read withholds the success.    *)
GateDone(g) ==
  /\ At(g, "gate_result") /\ server[g]["gate"] \in Over
  /\ End(g, [Reported(g) EXCEPT !.success = @ /\ ~cancelled[g]])
  /\ UNCHANGED <<adapter, request, cancelled, remote>>

(* The goal handle ends with its request, and what was asked of it.        *)
Finish(g) ==
  /\ At(g, "finish") /\ Goto(g, "done")
  /\ active' = None /\ reserved' = None
  /\ cancelled' = [cancelled EXCEPT ![g] = FALSE]
  /\ UNCHANGED <<fault, dispatched, epoch, resetting, request, outcome, remote>>

-----------------------------------------------------------------------------
(* The callbacks left behind.  An accepted goal is cancelled and its       *)
(* result asked for, whatever is active by now; each failure latches only  *)
(* the attempt it belongs to, so none of them does once that is over.      *)
LateAnswer_WhileActive(g, k) ==
  /\ track[g][k] = "late" /\ server[g][k] \notin {"none", "sent"}
  /\ track' = Becomes(track, g, k, "watched")
  /\ asked' = Becomes(asked, g, k, active \in {g, None})
  /\ UNCHANGED <<adapter, pc, request, cancelled, outcome, server>>

LateAnswer_Returns(g, k) ==
  /\ track[g][k] = "late" /\ server[g][k] \notin {"none", "sent"}
  /\ \E sent \in BOOLEAN :
       /\ asked' = Becomes(asked, g, k, sent)
       /\ track' = Becomes(track, g, k, IF sent THEN "watched" ELSE "none")
       /\ IF sent THEN UNCHANGED fault ELSE LatchAttempt(g)
  /\ UNCHANGED <<reserved, active, dispatched, epoch, resetting, pc, request,
                 cancelled, outcome, server>>

(* The callback of the result is attached if the result could be asked     *)
(* for, whether or not the cancel was sent.                                *)
LateAnswer(g, k) ==
  /\ track[g][k] = "late" /\ server[g][k] \notin {"none", "sent"}
  /\ IF server[g][k] = "rejected"
       THEN track' = Becomes(track, g, k, "none") /\ UNCHANGED <<asked, fault>>
       ELSE \E sent, listening \in BOOLEAN :
              /\ asked' = Becomes(asked, g, k, sent)
              /\ track' = Becomes(track, g, k, IF listening THEN Listening(sent)
                                                          ELSE Deaf(sent))
              /\ IF sent /\ listening THEN UNCHANGED fault ELSE LatchAttempt(g)
  /\ UNCHANGED <<reserved, active, dispatched, epoch, resetting, pc, request,
                 cancelled, outcome, server>>

LatePlanAnswer(g) == LateAnswer(g, "plan")
LateGateAnswer(g) == LateAnswer(g, "gate")

(* The late response raised: nobody will cancel the goal or see its end.   *)
LateAnswerRaises(g, k) ==
  /\ track[g][k] = "late" /\ track' = Becomes(track, g, k, "lost")
  /\ LatchAttempt(g)
  /\ UNCHANGED <<reserved, active, dispatched, epoch, resetting, pc, request,
                 cancelled, outcome, server, asked>>

(* The cancel sent for a goal was refused or lost.                         *)
LateCancelRefused(g, k) ==
  /\ track[g][k] \in {"watched", "unwatched"} /\ LatchAttempt(g)
  /\ UNCHANGED <<reserved, active, dispatched, epoch, resetting, pc, request,
                 cancelled, outcome, remote>>

LateTerminal(g, k) ==
  /\ track[g][k] \in {"watched", "unasked"} /\ server[g][k] \in Over
  /\ track' = Becomes(track, g, k, "none")
  /\ IF server[g][k] = "succeeded" THEN LatchAttempt(g) ELSE UNCHANGED fault
  /\ UNCHANGED <<reserved, active, dispatched, epoch, resetting, pc, request,
                 cancelled, outcome, server, asked>>

(* The result raised, or came without the end of the goal: nothing is left *)
(* that would see it.                                                      *)
LateTerminalFails(g, k) ==
  /\ track[g][k] \in {"watched", "unasked"}
  /\ track' = Becomes(track, g, k, "lost")
  /\ LatchAttempt(g)
  /\ UNCHANGED <<reserved, active, dispatched, epoch, resetting, pc, request,
                 cancelled, outcome, server, asked>>

LateWatchdog(g, k) ==
  /\ track[g][k] \in {"watched", "unasked"} /\ server[g][k] \notin Over
  /\ LatchAttempt(g)
  /\ UNCHANGED <<reserved, active, dispatched, epoch, resetting, pc, request,
                 cancelled, outcome, remote>>

-----------------------------------------------------------------------------
(* The clock went back, or a joint state or scene status was invalid.      *)
InputFault ==
  /\ ~fault /\ fault' = TRUE
  /\ UNCHANGED <<reserved, active, dispatched, epoch, resetting, pc, request,
                 cancelled, outcome, remote>>

(* Reset looks at the reservation and commits under two acquisitions.      *)
ResetChecked ==
  /\ ~resetting /\ reserved = None /\ epoch < MaxEpoch
  /\ resetting' = TRUE
  /\ UNCHANGED <<reserved, active, fault, dispatched, epoch, pc, request,
                 cancelled, outcome, remote>>

ResetDone ==
  /\ resetting /\ resetting' = FALSE
  /\ epoch' = epoch + 1 /\ fault' = FALSE /\ dispatched' = {}
  /\ UNCHANGED <<reserved, active, pc, request, cancelled, outcome, remote>>

-----------------------------------------------------------------------------
(* The servers.  A goal that runs may end of itself.                       *)
Decide(g, k) ==
  /\ server[g][k] = "sent"
  /\ \E s \in {"running", "rejected"} : server' = Becomes(server, g, k, s)
  /\ UNCHANGED <<adapter, pc, request, cancelled, outcome, asked, track>>

Ends(g, k) ==
  /\ server[g][k] = "running"
  /\ \E s \in Over \ (IF k = "gate" THEN {} ELSE {"uncertain"}) :
       server' = Becomes(server, g, k, s)
  /\ UNCHANGED <<adapter, pc, request, cancelled, outcome, asked, track>>

EndsAsked(g, k) == asked[g][k] /\ Ends(g, k)

PlanStep(g) ==
  \/ SendPlan(g) \/ PlanUnanswered(g) \/ PlanAnswerRaises(g)
  \/ PlanAnswered(g) \/ PlanResultUnavailable(g) \/ PlanGivenUp(g)
  \/ CancelPlan(g) \/ PlanTerminal(g) \/ Planned(g) \/ AdmitTrajectory(g)

GateStep(g) ==
  \/ AdmitDispatch(g) \/ SendGate(g) \/ SendGateFails(g) \/ GateUnanswered(g)
  \/ GateAnswerRaises(g) \/ GateAnswered(g) \/ GateResultUnavailable(g)
  \/ GateGivenUp(g) \/ CancelGate(g) \/ GateTerminal(g) \/ GateMismatch(g)
  \/ GateDone(g)

Execute(g) ==
  \/ NewAttempt(g) \/ ValidateRequest(g) \/ ContactPolicyReady(g) \/ SolveIk(g)
  \/ GivesUp(g) \/ IkRaises(g) \/ PlanStep(g) \/ GateStep(g) \/ Finish(g)

Late(g, k) ==
  \/ LateAnswerRaises(g, k) \/ LateCancelRefused(g, k) \/ LateTerminal(g, k)
  \/ LateTerminalFails(g, k) \/ LateWatchdog(g, k)

Next ==
  \/ \E g \in Goals :
       \/ Accept(g) \/ RequestCancel(g) \/ Execute(g)
       \/ LatePlanAnswer(g) \/ LateGateAnswer(g)
       \/ \E k \in Kinds : Late(g, k) \/ Decide(g, k) \/ Ends(g, k)
  \/ InputFault \/ ResetChecked \/ ResetDone

Spec == Init /\ [][Next]_vars

(* The execute thread runs on, for each of its waits has a deadline; the   *)
(* middleware delivers a response that came; a server ends what it was     *)
(* asked to cancel.  Nobody else need act.  Each of these happens a finite *)
(* number of times, so fairness of their union is fairness of each.        *)
FairSpec ==
  /\ Spec
  /\ WF_vars(\E g \in Goals : Execute(g))
  /\ WF_vars(\E g \in Goals : LatePlanAnswer(g) \/ LateGateAnswer(g))
  /\ WF_vars(\E g \in Goals, k \in Kinds : EndsAsked(g, k))

-----------------------------------------------------------------------------
(* What a PlanTarget result reports as ended is over at the gate, and its  *)
(* motion with it; a success is that of its own gate goal, which came of   *)
(* its own plan (_dispatch_to_gate, _gate_outcome, _cancel_gate_goal: a    *)
(* cancel response is no evidence of an end).  The sequence node relies on *)
(* this to give up its slot.                                               *)
EvidenceIsTrue ==
  \A g \in Goals : outcome[g] # None =>
    /\ outcome[g].terminal => server[g]["gate"] \in {"succeeded", "stopped"}
    /\ outcome[g].success  => /\ server[g]["gate"] = "succeeded"
                              /\ server[g]["plan"] = "succeeded"

(* A gate goal that may still run when its request has ended is watched by *)
(* a callback of its own, or the adapter takes on nothing more until a     *)
(* reset, unless that callback itself failed.  The request may have been   *)
(* reported as not dispatched, which the sequence node takes for proof     *)
(* that there is no such goal: only the adapter still knows of it          *)
(* (_dispatch_to_gate, _cancel_gate_goal, _latch_active_attempt_fault).    *)
(* The exception is real: a late response that raises, a result that       *)
(* cannot be asked for and one that raises or brings no end leave the goal *)
(* to nobody, for its attempt is over and the latch does nothing           *)
(* (1392-1446, 1965-1991, 2013-2018).  A cancel that cannot be sent is no  *)
(* exception.                                                              *)
NoneForgotten ==
  \A g \in Goals :
    /\ outcome[g] # None /\ server[g]["gate"] \in Open
    /\ track[g]["gate"] \notin Failing
    => track[g]["gate"] \in Watching \/ fault \/ wanted[g] < epoch

(* A trajectory is sent to the gate only when every gate goal sent before  *)
(* for that epoch is over, or was given up without an answer and its end   *)
(* is still watched for, or its own late callback failed: an accepted goal *)
(* whose end was not seen by its request leaves the adapter latched until  *)
(* a reset (_wait_for_gate_terminal, _safety_reason).                      *)
OneMotion ==
  [][\A g, h \in Goals :
       /\ server[g]["gate"] = "none" /\ server'[g]["gate"] = "sent"
       /\ h # g /\ wanted[h] = wanted[g] /\ server[h]["gate"] \in Open
       /\ track[h]["gate"] \notin Failing
       => track[h]["gate"] \in Watching]_vars

(* A command is sent to the gate once in an epoch, whatever became of the  *)
(* first attempt, unless a reset commits while the second is under way     *)
(* (_dispatched_command_ids).                                              *)
DispatchedOnce ==
  [][\A g, h \in Goals :
       /\ server[g]["gate"] = "none" /\ server'[g]["gate"] = "sent"
       /\ h # g /\ command[h] = command[g]
       /\ wanted[h] = wanted[g] /\ wanted[g] = epoch
       => server[h]["gate"] = "none"]_vars

(* A goal accepted after its attempt had given up does not run on: the     *)
(* late callback cancels it whoever is active by then, also if its result  *)
(* cannot be asked for (_late_cancel_callback, _late_gate_cancel_callback),*)
(* unless the late answer or the cancel raises.                            *)
LateGoalsEnd ==
  []<>(\A g \in Goals, k \in Kinds :
         track[g][k] \in {"late", "watched", "unwatched"}
           => server[g][k] # "running")

(* Every accepted request gives its reservation back, though no server     *)
(* ever answers (_poll_future, _wait_for_gate_terminal, _finish).          *)
RequestsEnd == []<>(reserved = None)
=============================================================================
