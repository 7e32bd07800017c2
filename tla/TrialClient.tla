----------------------------- MODULE TrialClient -----------------------------
(***************************************************************************)
(* The trial client, trial_client.py: one run of it opens a physics        *)
(* observation of a fresh target, waits for its baseline, and only then    *)
(* asks for the grasp sequence on the same target; a target that grew old  *)
(* meanwhile costs a new observation.  The exit code is what a caller      *)
(* knows of the run.                                                       *)
(*                                                                         *)
(* The client is one thread: callbacks run while it spins in a wait, and   *)
(* every wait has a deadline.  The two action servers run beside it, their *)
(* feedback is delivered late and out of order, an answer may miss its     *)
(* deadline or raise, and a server goes on when the client has left.       *)
(***************************************************************************)
EXTENDS Naturals, Sequences

CONSTANTS
  MaxRestarts,  \* max_baseline_restarts
  Targets,      \* the target snapshots that may be tracked
  None          \* no target, nothing set wrong

Ends == {"good", "failed", "cancelled"}  \* how a goal ends at its server

ASSUME ClientConstants ==
  /\ MaxRestarts \in Nat
  /\ None \notin Targets /\ None \notin Ends
  /\ None \notin 0..12

Attempts == 1..(MaxRestarts + 1)

(* The parameters _positive() reads after a goal is already out. *)
LateParameters ==
  {"planning", "baseline_timeout_s", "sequence_timeout_s",
   "physics_timeout_s", "cancel_timeout_s"}

VARIABLES
  pc,       \* where run() stands
  latest,   \* _latest: the target received last in this wait
  target,   \* the snapshot of this attempt
  attempt,  \* _physics_attempt_generation
  phase,    \* _physics_phase: "ready", "other" (not one of
            \* ready_phases) or "none" (as yet "")
  cleanup,  \* the _cancel_and_confirm under way: the goals left, how far,
            \* and the exit code that follows, or None to restart
  exit,     \* the exit code, or None
  misset,   \* the late parameter that is not positive, or None
  obs,      \* the observation of each attempt, at the observer
  seq,      \* the sequence goal, at the sequence node
  feedback  \* <<attempt, phase>> on its way

client == <<pc, latest, target, attempt, phase, cleanup, exit, misset>>
servers == <<obs, seq>>
vars == <<client, servers, feedback>>

-----------------------------------------------------------------------------
(* A goal at its server: "none", "sent", "refused", "running" or "over";   *)
(* asked when a cancel was accepted; how it ended.                         *)
NoGoal == [state |-> "none", target |-> None, asked |-> FALSE,
           based |-> FALSE, end |-> None]

NoCleanup == [todo |-> <<>>, stage |-> None, accepted |-> FALSE,
              next |-> None]

Init ==
  /\ pc = "servers" /\ latest = None /\ target = None
  /\ attempt = 0 /\ phase = "none" /\ cleanup = NoCleanup /\ exit = None
  /\ misset \in LateParameters \cup {None}
  /\ obs = [g \in Attempts |-> NoGoal] /\ seq = NoGoal
  /\ feedback = {}

Spinning == pc \notin {"servers", "done"}

Leave(code) == pc' = "done" /\ exit' = code

(* An exception that leaves run(): main() exits with 2, cancelling nothing. *)
Raise == Leave(2)

(* wait_for_server: the one wait in which nothing spins. *)
ServersUp ==
  /\ pc = "servers" /\ pc' = "target"
  /\ UNCHANGED <<latest, target, attempt, phase, cleanup, exit, misset,
                 servers, feedback>>

ServersAbsent ==
  /\ pc = "servers" /\ Leave(3)
  /\ UNCHANGED <<latest, target, attempt, phase, cleanup, misset, servers,
                 feedback>>

-----------------------------------------------------------------------------
(* Callbacks. *)
OnTarget(t) ==
  /\ Spinning /\ latest' = t
  /\ UNCHANGED <<pc, target, attempt, phase, cleanup, exit, misset,
                 servers, feedback>>

(* MISTAKE: feedback counts whichever attempt it belongs to. *)
PhysicsFeedback_AnyGeneration(g, p) ==
  /\ Spinning /\ <<g, p>> \in feedback
  /\ feedback' = feedback \ {<<g, p>>}
  /\ phase' = p
  /\ UNCHANGED <<pc, latest, target, attempt, cleanup, exit, misset, servers>>

(* _physics_feedback: what an older attempt reports is only printed. *)
PhysicsFeedback(g, p) ==
  /\ Spinning /\ <<g, p>> \in feedback
  /\ feedback' = feedback \ {<<g, p>>}
  /\ phase' = IF g = attempt THEN p ELSE phase
  /\ UNCHANGED <<pc, latest, target, attempt, cleanup, exit, misset, servers>>

-----------------------------------------------------------------------------
(* The observation of one attempt.                                         *)
(*                                                                         *)
(* _wait_target returned a recent target, its geometry was accepted and    *)
(* the observation's goal is on its way.                                   *)
SendPhysics ==
  /\ pc = "target" /\ latest # None
  /\ target' = latest
  /\ attempt' = attempt + 1
  /\ phase' = "none"
  /\ obs' = [obs EXCEPT ![attempt + 1] =
       [NoGoal EXCEPT !.state = "sent", !.target = latest]]
  /\ pc' = "physicsSent"
  /\ UNCHANGED <<latest, cleanup, exit, misset, seq, feedback>>

(* No recent target in time, or one the grasp geometry refuses. *)
NoTarget ==
  /\ pc = "target" /\ Raise
  /\ UNCHANGED <<latest, target, attempt, phase, cleanup, misset, servers,
                 feedback>>

Answered(goal) == goal.state \in {"refused", "running", "over"}

PhysicsAccepted ==
  /\ pc = "physicsSent"
  /\ obs[attempt].state \in {"running", "over"}
  /\ IF misset = "baseline_timeout_s"
       THEN Raise
       ELSE pc' = "baseline" /\ UNCHANGED exit
  /\ UNCHANGED <<latest, target, attempt, phase, cleanup, misset, servers,
                 feedback>>

(* No answer in time (4), or an answer that raises or refuses (5). *)
PhysicsUnanswered ==
  /\ pc = "physicsSent"
  /\ \/ Leave(4)
     \/ Answered(obs[attempt]) /\ Leave(5)
  /\ UNCHANGED <<latest, target, attempt, phase, cleanup, misset, servers,
                 feedback>>

(* What the client does next is to cancel goals, then to restart or leave. *)
Cleanup(goals, next) ==
  /\ pc' = "cleanup"
  /\ cleanup' = [todo |-> goals, stage |-> "ask", accepted |-> FALSE,
                 next |-> next]

(* The observation ended, or its baseline took too long. *)
BaselineFails ==
  /\ pc = "baseline" /\ phase # "ready"
  /\ Cleanup(<<"physics">>, 6)
  /\ UNCHANGED <<latest, target, attempt, phase, exit, misset, servers,
                 feedback>>

(* The baseline is taken, but the target has grown old. *)
TargetStale ==
  /\ pc = "baseline" /\ phase = "ready"
  /\ Cleanup(<<"physics">>, None)
  /\ UNCHANGED <<latest, target, attempt, phase, exit, misset, servers,
                 feedback>>

-----------------------------------------------------------------------------
(* The sequence.  It is asked for while the target is still recent.        *)
SendSequence ==
  /\ pc = "baseline" /\ phase = "ready"
  /\ IF misset = "planning"
       THEN Raise /\ UNCHANGED seq
       ELSE /\ pc' = "sequenceSent" /\ UNCHANGED exit
            /\ seq' = [NoGoal EXCEPT !.state = "sent", !.target = target]
  /\ UNCHANGED <<latest, target, attempt, phase, cleanup, misset, obs,
                 feedback>>

SequenceAccepted ==
  /\ pc = "sequenceSent" /\ seq.state \in {"running", "over"}
  /\ IF misset = "sequence_timeout_s"
       THEN Raise
       ELSE pc' = "sequenceResult" /\ UNCHANGED exit
  /\ UNCHANGED <<latest, target, attempt, phase, cleanup, misset, servers,
                 feedback>>

(* No answer in time (7), or an answer that raises or refuses (8). *)
SequenceUnanswered ==
  /\ pc = "sequenceSent"
  /\ \/ Cleanup(<<"physics">>, 7)
     \/ Answered(seq) /\ Cleanup(<<"physics">>, 8)
  /\ UNCHANGED <<latest, target, attempt, phase, exit, misset, servers,
                 feedback>>

SequenceDone ==
  /\ pc = "sequenceResult" /\ seq.state = "over"
  /\ IF misset = "physics_timeout_s"
       THEN Raise
       ELSE pc' = "physicsResult" /\ UNCHANGED exit
  /\ UNCHANGED <<latest, target, attempt, phase, cleanup, misset, servers,
                 feedback>>

(* MISTAKE: the wait for the sequence ends in the wait for the observation. *)
SequenceResultLate_GoesOn ==
  /\ pc = "sequenceResult"
  /\ pc' = "physicsResult"
  /\ UNCHANGED <<latest, target, attempt, phase, cleanup, exit, misset,
                 servers, feedback>>

(* No result in time: both goals are cancelled.  A result that raises:     *)
(* only the observation is.                                                *)
SequenceResultLate ==
  /\ pc = "sequenceResult"
  /\ \/ Cleanup(<<"sequence", "physics">>, 9)
     \/ seq.state = "over" /\ Cleanup(<<"physics">>, 9)
  /\ UNCHANGED <<latest, target, attempt, phase, exit, misset, servers,
                 feedback>>

(* No result in time: the observation is cancelled; or it raises. *)
PhysicsResultLate ==
  /\ pc = "physicsResult"
  /\ \/ Cleanup(<<"physics">>, 10) /\ UNCHANGED exit
     \/ obs[attempt].state = "over" /\ Leave(10) /\ UNCHANGED cleanup
  /\ UNCHANGED <<latest, target, attempt, phase, misset, servers, feedback>>

(* The verdict of the two results; putting their record together may raise. *)
PhysicsDone ==
  /\ pc = "physicsResult" /\ obs[attempt].state = "over"
  /\ \/ Leave(IF seq.end # "good" THEN 12
              ELSE IF obs[attempt].end = "good" THEN 0 ELSE 11)
     \/ Raise
  /\ UNCHANGED <<latest, target, attempt, phase, cleanup, misset, servers,
                 feedback>>

-----------------------------------------------------------------------------
(* _cancel_and_confirm of the first goal in cleanup.todo.                  *)
Cancelled == IF Head(cleanup.todo) = "physics" THEN obs[attempt] ELSE seq

CancelAsked ==
  /\ pc = "cleanup" /\ cleanup.stage = "ask"
  /\ IF misset = "cancel_timeout_s"
       THEN Raise /\ UNCHANGED cleanup
       ELSE cleanup' = [cleanup EXCEPT !.stage = "asked"]
            /\ UNCHANGED <<pc, exit>>
  /\ UNCHANGED <<latest, target, attempt, phase, misset, servers, feedback>>

(* The server accepts a cancel of a goal that runs, or may refuse it. *)
CancelAnswered ==
  /\ pc = "cleanup" /\ cleanup.stage = "asked"
  /\ \E ok \in {FALSE, Cancelled.state = "running"} :
       /\ cleanup' = [cleanup EXCEPT !.stage = "answered", !.accepted = ok]
       /\ obs' = [obs EXCEPT ![attempt].asked =
            @ \/ (ok /\ Head(cleanup.todo) = "physics")]
       /\ seq' = [seq EXCEPT !.asked =
            @ \/ (ok /\ Head(cleanup.todo) = "sequence")]
  /\ UNCHANGED <<pc, latest, target, attempt, phase, exit, misset, feedback>>

(* What follows a cleanup, confirmed or not. *)
Continue(confirmed) ==
  IF Len(cleanup.todo) > 1
    THEN /\ cleanup' = [cleanup EXCEPT !.todo = Tail(@), !.stage = "ask",
                                       !.accepted = FALSE]
         /\ UNCHANGED <<pc, latest, exit>>
    ELSE /\ cleanup' = NoCleanup
         /\ IF cleanup.next # None
              THEN Leave(cleanup.next) /\ UNCHANGED latest
            ELSE IF confirmed /\ attempt <= MaxRestarts
              THEN pc' = "target" /\ latest' = None /\ UNCHANGED exit
            ELSE Leave(6) /\ UNCHANGED latest

(* The request raises, or its answer is late or raises; or the goal's      *)
(* result is late, raises or names another goal.                           *)
CancelUnconfirmed ==
  /\ pc = "cleanup" /\ cleanup.stage \in {"asked", "answered"}
  /\ Continue(FALSE)
  /\ UNCHANGED <<target, attempt, phase, misset, servers, feedback>>

(* The goal's result arrived: a restart wants an accepted cancel that      *)
(* ended the observation.                                                  *)
CancelConfirmed ==
  /\ pc = "cleanup" /\ cleanup.stage = "answered"
  /\ Cancelled.state = "over"
  /\ Continue(cleanup.accepted /\ Cancelled.end = "cancelled")
  /\ UNCHANGED <<target, attempt, phase, misset, servers, feedback>>

-----------------------------------------------------------------------------
(* The action servers, from what the client relies on.  External.          *)
Decide(goal) ==
  {[goal EXCEPT !.state = "running"], [goal EXCEPT !.state = "refused"]}

(* A goal ends well only with its baseline, cancelled only when asked. *)
Ended(goal) ==
  {[goal EXCEPT !.state = "over", !.end = e] :
     e \in {f \in Ends : /\ f = "good" => goal.based
                         /\ f = "cancelled" => goal.asked}}

ObserverDecides(g) ==
  /\ obs[g].state = "sent"
  /\ \E goal \in Decide(obs[g]) :
       /\ obs' = [obs EXCEPT ![g] = goal]
       /\ feedback' = IF goal.state = "running"
                        THEN feedback \cup {<<g, "other">>} ELSE feedback
  /\ UNCHANGED <<client, seq>>

(* The observer has its baseline. *)
BaselineTaken(g) ==
  /\ obs[g].state = "running" /\ ~obs[g].based
  /\ obs' = [obs EXCEPT ![g].based = TRUE]
  /\ feedback' = feedback \cup {<<g, "ready">>}
  /\ UNCHANGED <<client, seq>>

(* The observer reports its phase in every round. *)
ObserverReports(g) ==
  /\ obs[g].state = "running"
  /\ feedback' = feedback \cup
       {<<g, IF obs[g].based THEN "ready" ELSE "other">>}
  /\ UNCHANGED <<client, servers>>

ObserverEnds(g) ==
  /\ obs[g].state = "running"
  /\ \E goal \in Ended(obs[g]) :
       /\ obs' = [obs EXCEPT ![g] = goal]
       /\ feedback' = IF goal.end = "good"
                        THEN feedback ELSE feedback \cup {<<g, "other">>}
  /\ UNCHANGED <<client, seq>>

(* A sequence whose motion has begun counts as based. *)
SequenceDecides ==
  /\ seq.state = "sent"
  /\ \E goal \in Decide([seq EXCEPT !.based = TRUE]) : seq' = goal
  /\ UNCHANGED <<client, obs, feedback>>

SequenceEnds ==
  /\ seq.state = "running" /\ seq' \in Ended(seq)
  /\ UNCHANGED <<client, obs, feedback>>

-----------------------------------------------------------------------------
Next ==
  \/ \E t \in Targets : OnTarget(t)
  \/ \E g \in Attempts, p \in {"ready", "other"} :
       PhysicsFeedback(g, p)
  \/ ServersUp \/ ServersAbsent \/ SendPhysics \/ NoTarget
  \/ PhysicsAccepted \/ PhysicsUnanswered
  \/ BaselineFails \/ TargetStale
  \/ SendSequence \/ SequenceAccepted \/ SequenceUnanswered
  \/ SequenceDone \/ SequenceResultLate
  \/ PhysicsDone \/ PhysicsResultLate
  \/ CancelAsked \/ CancelAnswered \/ CancelUnconfirmed \/ CancelConfirmed
  \/ \E g \in Attempts :
       \/ ObserverDecides(g) \/ BaselineTaken(g)
       \/ ObserverReports(g) \/ ObserverEnds(g)
  \/ SequenceDecides \/ SequenceEnds

Spec == Init /\ [][Next]_vars

-----------------------------------------------------------------------------
(* A sequence is asked for only under an observation of the same target    *)
(* that has its baseline, and every earlier observation of the run is over *)
(* by then: late feedback, a cancel that was not confirmed and a target    *)
(* received meanwhile change nothing (trial_client.py:440-453, 693-743).   *)
BaselineBeforeMotion ==
  seq.state # "none" =>
    /\ obs[attempt].based
    /\ obs[attempt].target = seq.target
    /\ \A g \in 1..(attempt - 1) : obs[g].state = "over"

(* What the exit code tells is so: 0 only when the sequence ended well and *)
(* an observation of that very target verified the grasp; 3 to 6, no       *)
(* sequence was ever asked for; 0 and 10 to 12, the sequence is over       *)
(* (trial_client.py:624-735, 790-835, 1017-1027).                          *)
ExitIsTrue ==
  /\ exit = 0 => /\ seq.end = "good"
                 /\ \E g \in Attempts : /\ obs[g].end = "good"
                                        /\ obs[g].target = seq.target
  /\ exit \in 3..6 => seq.state = "none"
  /\ exit \in {0} \cup 10..12 => seq.state = "over"

=============================================================================
