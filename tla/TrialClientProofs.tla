-------------------------- MODULE TrialClientProofs --------------------------
(***************************************************************************)
(* Proofs about TrialClient, for every number of restarts and every set of *)
(* targets.  Neither property is inductive: a ready phase must be known to *)
(* come from this attempt's observation (Reported), the place where run()  *)
(* stands must say what was sent (Placed), and a goal that ended well must *)
(* be known to be over (Settled), so that the verdict stays true while the *)
(* servers go on after the client has left.                                *)
(***************************************************************************)
EXTENDS TrialClient, TLAPS

States == {"none", "sent", "refused", "running", "over"}
Goal == [state : States, target : Targets \cup {None}, asked : BOOLEAN,
         based : BOOLEAN, end : Ends \cup {None}]
Places == {"servers", "target", "physicsSent", "baseline", "sequenceSent",
           "sequenceResult", "physicsResult", "cleanup", "done"}
Cleanups == [todo : {<<>>, <<"physics">>, <<"sequence", "physics">>},
             stage : {None, "ask", "asked", "answered"},
             accepted : BOOLEAN, next : {None} \cup 6..10]

Typed ==
  /\ pc \in Places
  /\ attempt \in 0..(MaxRestarts + 1)
  /\ obs \in [Attempts -> Goal]
  /\ seq \in Goal
  /\ latest \in Targets \cup {None}
  /\ target \in Targets \cup {None}
  /\ exit \in 0..12 \cup {None}
  /\ cleanup \in Cleanups

(* What feedback, delivered or on its way, says of a baseline is true. *)
Reported ==
  /\ \A g \in Attempts : <<g, "ready">> \in feedback => obs[g].based
  /\ phase = "ready" => attempt \in Attempts /\ obs[attempt].based

(* A goal that ended is over, a later attempt has sent nothing. *)
Settled ==
  /\ \A g \in Attempts : obs[g].end # None => obs[g].state = "over"
  /\ seq.end # None => seq.state = "over"
  /\ \A g \in Attempts : g > attempt => obs[g].state = "none" /\ ~obs[g].based

Waits == {"physicsSent", "baseline", "sequenceSent", "sequenceResult",
          "physicsResult", "cleanup"}

(* Where run() stands tells what was sent, and for which target. *)
Placed ==
  /\ pc = "servers" => attempt = 0
  /\ pc = "target" => /\ attempt <= MaxRestarts
                      /\ \A g \in 1..attempt : obs[g].state = "over"
  /\ \A g \in 1..(attempt - 1) : obs[g].state = "over"
  /\ pc \in Waits => attempt \in Attempts /\ obs[attempt].target = target
  /\ pc \in {"servers", "target", "physicsSent", "baseline"} =>
       seq.state = "none"
  /\ pc = "physicsResult" => seq.state = "over"
  /\ pc # "done" => exit = None
  /\ pc = "cleanup" =>
       /\ cleanup.next \in {None, 6, 7, 8, 9, 10}
       /\ cleanup.next \in {None, 6} => seq.state = "none"
       /\ cleanup.next = 10 => seq.state = "over"
       /\ cleanup.next # 9 => cleanup.todo = <<"physics">>
       /\ cleanup.next = 9 =>
            cleanup.todo \in {<<"physics">>, <<"sequence", "physics">>}

IInv ==
  Typed /\ Reported /\ Settled /\ Placed /\ BaselineBeforeMotion /\ ExitIsTrue

LEMMA InitIInv == Init => IInv
<1> SUFFICES ASSUME Init PROVE IInv
  OBVIOUS
<1> USE ClientConstants DEF Init
<1>1. Typed
  BY DEF Typed, Places, Goal, States, NoGoal, Attempts, Cleanups, NoCleanup
<1>2. Reported /\ Settled
  BY DEF Reported, Settled, NoGoal, Attempts
<1>3. Placed
  BY DEF Placed, Waits, NoGoal
<1>4. BaselineBeforeMotion /\ ExitIsTrue
  BY DEF BaselineBeforeMotion, ExitIsTrue, NoGoal
<1> QED
  BY <1>1, <1>2, <1>3, <1>4 DEF IInv

(* A step of the client alone, which sends nothing: what is left to show   *)
(* is where it goes and with which exit code.                              *)
LEMMA ClientStep ==
  ASSUME IInv, UNCHANGED <<target, attempt, obs, seq>>,
         feedback' \subseteq feedback,
         phase' = "ready" => phase = "ready" \/ <<attempt, "ready">> \in feedback,
         pc' \in Places, latest' \in Targets \cup {None},
         exit' \in 0..12 \cup {None}, cleanup' \in Cleanups,
         phase' = "ready" => attempt \in Attempts,
         Placed', ExitIsTrue'
  PROVE  IInv'
<1>1. Typed'
  BY DEF IInv, Typed
<1>2. Reported'
  BY DEF IInv, Reported
<1>3. Settled'
  BY DEF IInv, Settled
<1>4. BaselineBeforeMotion'
  BY DEF IInv, BaselineBeforeMotion
<1> QED
  BY <1>1, <1>2, <1>3, <1>4 DEF IInv

(* The client leaves with a code whose claim the state bears out.          *)
LEMMA LeaveKeeps ==
  ASSUME IInv, UNCHANGED <<target, attempt, phase, obs, seq, feedback>>,
         latest' = latest, cleanup' \in Cleanups, NEW code \in 0..12, Leave(code),
         code \in 3..6 => seq.state = "none",
         code \in {0} \cup 10..12 => seq.state = "over",
         code = 0 => /\ seq.end = "good"
                     /\ \E g \in Attempts : /\ obs[g].end = "good"
                                            /\ obs[g].target = seq.target
  PROVE  IInv'
<1>1. pc' = "done" /\ exit' = code
  BY DEF Leave
<1>2. Placed'
  BY <1>1 DEF IInv, Placed, Waits
<1>3. ExitIsTrue'
  BY <1>1 DEF ExitIsTrue
<1> QED
  BY <1>1, <1>2, <1>3, ClientStep DEF IInv, Typed, Places, Reported

LEMMA RaiseKeeps ==
  ASSUME IInv, UNCHANGED <<target, attempt, phase, obs, seq, feedback>>,
         latest' = latest, cleanup' \in Cleanups, Raise
  PROVE  IInv'
  BY LeaveKeeps DEF Raise

(* The client goes on, or starts a cleanup, without leaving.               *)
LEMMA GoesOn ==
  ASSUME IInv, UNCHANGED <<target, attempt, phase, obs, seq, feedback, exit>>,
         pc # "done", pc' \in Places, latest' \in Targets \cup {None},
         cleanup' \in Cleanups, Placed'
  PROVE  IInv'
<1>1. ExitIsTrue'
  BY DEF IInv, ExitIsTrue
<1> QED
  BY <1>1, ClientStep DEF IInv, Typed, Reported

(* A cleanup starts with goals and a continuation that fit.                *)
LEMMA CleanupKeeps ==
  ASSUME IInv,
         UNCHANGED <<target, attempt, phase, obs, seq, feedback, exit, latest>>,
         pc \in Waits, NEW goals, NEW next, Cleanup(goals, next),
         next \in {None, 6, 7, 8, 9, 10},
         next \in {None, 6} => seq.state = "none",
         next = 10 => seq.state = "over",
         next # 9 => goals = <<"physics">>,
         next = 9 => goals \in {<<"physics">>, <<"sequence", "physics">>}
  PROVE  IInv'
<1>1. pc' = "cleanup" /\ cleanup'.todo = goals /\ cleanup'.next = next
      /\ cleanup' \in Cleanups
  BY DEF Cleanup, Cleanups
<1>2. Placed'
  BY <1>1 DEF IInv, Placed, Waits
<1> QED
  BY <1>1, <1>2, GoesOn DEF Places, IInv, Typed, Waits

(* A step that touches only the observation of attempt g, or its feedback. *)
LEMMA ObserverStep ==
  ASSUME IInv, UNCHANGED <<client, seq>>, NEW g \in Attempts,
         NEW goal \in Goal, obs' = [obs EXCEPT ![g] = goal],
         obs[g].state \in {"sent", "running"},
         goal.state # "none", goal.target = obs[g].target,
         obs[g].based => goal.based, goal.end # None => goal.state = "over",
         \A h \in Attempts : <<h, "ready">> \in feedback' =>
            <<h, "ready">> \in feedback \/ (h = g /\ goal.based)
  PROVE  IInv'
<1>0. UNCHANGED <<pc, latest, target, attempt, phase, cleanup, exit, misset>>
  BY DEF client
<1>1. /\ \A h \in Attempts : obs'[h] = IF h = g THEN goal ELSE obs[h]
      /\ obs' \in [Attempts -> Goal]
  BY DEF IInv, Typed
<1>2. Typed'
  BY <1>0, <1>1 DEF IInv, Typed
<1>3. obs[g].end # "good" /\ attempt \in Nat /\ g <= attempt
      /\ ~(attempt < g) /\ g \in Nat /\ obs[g].state # "over"
  BY ClientConstants DEF IInv, Typed, Settled, Attempts, Ends
<1>4. Reported'
  BY <1>0, <1>1 DEF IInv, Reported
<1>5. Settled'
  BY <1>0, <1>1, <1>3 DEF IInv, Settled
<1>6. \A h \in 1..(attempt - 1) : h \in Attempts
  BY ClientConstants DEF IInv, Typed, Attempts
<1>7. Placed'
  <2>1. pc = "target" => \A h \in 1..attempt : h \in Attempts
    BY ClientConstants DEF IInv, Typed, Attempts
  <2> QED
    BY <1>0, <1>1, <1>3, <1>6, <2>1 DEF IInv, Placed
<1>8. BaselineBeforeMotion'
  <2>1. seq.state # "none" => attempt \in Attempts
    BY ClientConstants, <1>3 DEF IInv, Typed, Attempts
  <2> QED
    BY <1>0, <1>1, <1>3, <1>6, <2>1 DEF IInv, BaselineBeforeMotion
<1>9. ExitIsTrue'
  BY <1>0, <1>1, <1>3 DEF IInv, ExitIsTrue
<1> QED
  BY <1>2, <1>4, <1>5, <1>7, <1>8, <1>9 DEF IInv

(* A step that touches only the sequence goal.                             *)
LEMMA SequenceStep ==
  ASSUME IInv, UNCHANGED <<client, obs, feedback>>, seq' \in Goal,
         seq.state \in {"sent", "running"}, seq'.state # "none",
         seq'.target = seq.target, seq'.end # None => seq'.state = "over"
  PROVE  IInv'
<1>0. UNCHANGED <<pc, latest, target, attempt, phase, cleanup, exit, misset>>
  BY DEF client
<1>1. seq.end # "good"
  BY ClientConstants DEF IInv, Settled, Ends
<1>2. Typed' /\ Reported' /\ Settled'
  BY <1>0 DEF IInv, Typed, Reported, Settled
<1>3. Placed'
  BY <1>0 DEF IInv, Placed
<1>4. BaselineBeforeMotion'
  BY <1>0 DEF IInv, BaselineBeforeMotion
<1>5. ExitIsTrue'
  BY <1>0, <1>1 DEF IInv, ExitIsTrue
<1> QED
  BY <1>2, <1>3, <1>4, <1>5 DEF IInv

(* The goals a cleanup goes through.                                       *)
LEMMA TodoFacts ==
  /\ NoCleanup \in Cleanups
  /\ Len(<<"physics">>) = 1 /\ Head(<<"physics">>) = "physics"
  /\ Len(<<"sequence", "physics">>) = 2
  /\ Tail(<<"sequence", "physics">>) = <<"physics">>
<1>1. NoCleanup \in Cleanups
  BY DEF NoCleanup, Cleanups
<1>2. Len(<<"physics">>) = 1 /\ Head(<<"physics">>) = "physics"
  OBVIOUS
<1>3. Len(<<"sequence", "physics">>) = 2
  OBVIOUS
<1>4. Tail(<<"sequence", "physics">>) = <<"physics">>
  OBVIOUS
<1> QED
  BY <1>1, <1>2, <1>3, <1>4

LEMMA NextIInv == IInv /\ [Next]_vars => IInv'
<1> SUFFICES ASSUME IInv, [Next]_vars PROVE IInv'
  OBVIOUS
<1> USE ClientConstants
<1>0. cleanup \in Cleanups
  BY DEF IInv, Typed
<1>1. CASE ServersUp
  <2>1. Placed'
    BY <1>1 DEF ServersUp, servers, IInv, Typed, Placed, Waits
  <2> QED
    BY <1>1, <2>1, <1>0, GoesOn DEF ServersUp, servers, IInv, Typed, Places
<1>2. CASE ServersAbsent
  BY <1>2, <1>0, LeaveKeeps DEF ServersAbsent, servers, IInv, Placed
<1>3. ASSUME NEW t \in Targets, OnTarget(t)
      PROVE  IInv'
  <2>1. Placed'
    BY <1>3 DEF OnTarget, servers, IInv, Placed, Waits
  <2> QED
    BY <1>3, <2>1, <1>0, GoesOn DEF OnTarget, Spinning, servers, IInv, Typed
<1>4. ASSUME NEW g \in Attempts, NEW p \in {"ready", "other"},
             PhysicsFeedback(g, p)
      PROVE  IInv'
  <2>1. UNCHANGED <<pc, latest, target, attempt, cleanup, exit, obs, seq>>
    BY <1>4 DEF PhysicsFeedback, servers
  <2>2. Placed' /\ ExitIsTrue'
    BY <2>1 DEF IInv, Placed, ExitIsTrue
  <2>3. /\ feedback' \subseteq feedback
        /\ phase' = "ready" =>
             /\ phase = "ready" \/ <<attempt, "ready">> \in feedback
             /\ attempt \in Attempts
    BY <1>4 DEF PhysicsFeedback, IInv, Reported
  <2> QED
    BY <2>1, <2>2, <2>3, ClientStep DEF IInv, Typed
<1>5. CASE SendPhysics
  <2> DEFINE n == attempt + 1
  <2>1. /\ n \in Attempts /\ n \notin 1..attempt /\ seq.state = "none"
        /\ exit = None /\ \A g \in 1..attempt : g \in Attempts
    BY <1>5 DEF SendPhysics, IInv, Typed, Placed, Attempts
  <2>2. /\ obs' \in [Attempts -> Goal]
        /\ obs'[n].state = "sent" /\ obs'[n].target = latest
        /\ ~obs'[n].based /\ obs'[n].end = None
        /\ \A g \in Attempts : g # n => obs'[g] = obs[g]
    BY <1>5, <2>1 DEF SendPhysics, IInv, Typed, NoGoal, Goal, States
  <2>3. Typed'
    BY <1>5, <2>1, <2>2 DEF SendPhysics, IInv, Typed, Places, Attempts
  <2>4. Reported'
    BY <1>5, <2>1, <2>2 DEF SendPhysics, IInv, Typed, Reported, Settled
  <2>5. Settled'
    BY <1>5, <2>1, <2>2 DEF SendPhysics, IInv, Typed, Settled, Attempts
  <2>6. Placed'
    BY <1>5, <2>1, <2>2 DEF SendPhysics, IInv, Typed, Placed, Waits
  <2>7. BaselineBeforeMotion' /\ ExitIsTrue'
    BY <1>5, <2>1 DEF SendPhysics, BaselineBeforeMotion, ExitIsTrue
  <2> QED
    BY <2>3, <2>4, <2>5, <2>6, <2>7 DEF IInv
<1>6. CASE NoTarget
  BY <1>6, <1>0, RaiseKeeps DEF NoTarget, servers
<1>7. CASE PhysicsAccepted
  <2>1. CASE misset = "baseline_timeout_s"
    BY <1>7, <2>1, <1>0, RaiseKeeps DEF PhysicsAccepted, servers
  <2>2. CASE misset # "baseline_timeout_s"
    <3>1. Placed'
      BY <1>7, <2>2 DEF PhysicsAccepted, servers, IInv, Placed, Waits
    <3> QED
      BY <1>7, <2>2, <3>1, <1>0, GoesOn
      DEF PhysicsAccepted, servers, IInv, Typed, Places
  <2> QED
    BY <2>1, <2>2
<1>8. CASE PhysicsUnanswered
  <2>1. seq.state = "none"
    BY <1>8 DEF PhysicsUnanswered, IInv, Placed
  <2> QED
    BY <1>8, <2>1, <1>0, LeaveKeeps DEF PhysicsUnanswered, servers
<1>9. CASE BaselineFails \/ TargetStale
  <2>1. seq.state = "none"
    BY <1>9 DEF BaselineFails, TargetStale, IInv, Placed
  <2> QED
    BY <1>9, <2>1, CleanupKeeps DEF BaselineFails, TargetStale, servers, Waits
<1>10. CASE SendSequence
  <2>1. CASE misset = "planning"
    BY <1>10, <2>1, <1>0, RaiseKeeps DEF SendSequence
  <2>2. CASE misset # "planning"
    <3>1. /\ attempt \in Attempts /\ obs[attempt].based
          /\ obs[attempt].target = target /\ exit = None
          /\ \A g \in 1..(attempt - 1) : obs[g].state = "over"
      BY <1>10 DEF SendSequence, IInv, Placed, Reported, Waits
    <3>2. /\ seq' \in Goal /\ seq'.target = target
          /\ seq'.state = "sent" /\ seq'.end = None
      BY <1>10, <2>2 DEF SendSequence, IInv, Typed, NoGoal, Goal, States
    <3>3. pc' = "sequenceSent"
          /\ UNCHANGED <<latest, target, attempt, phase, obs, feedback, exit,
                         cleanup>>
      BY <1>10, <2>2 DEF SendSequence
    <3>4. Typed' /\ Reported' /\ Settled'
      BY <3>2, <3>3 DEF IInv, Typed, Places, Reported, Settled
    <3>5. Placed'
      BY <3>1, <3>3 DEF Placed, Waits
    <3>6. BaselineBeforeMotion' /\ ExitIsTrue'
      BY <3>1, <3>2, <3>3 DEF BaselineBeforeMotion, ExitIsTrue
    <3> QED
      BY <3>4, <3>5, <3>6 DEF IInv
  <2> QED
    BY <2>1, <2>2
<1>11. CASE SequenceAccepted
  <2>1. CASE misset = "sequence_timeout_s"
    BY <1>11, <2>1, <1>0, RaiseKeeps DEF SequenceAccepted, servers
  <2>2. CASE misset # "sequence_timeout_s"
    <3>1. Placed'
      BY <1>11, <2>2 DEF SequenceAccepted, servers, IInv, Placed, Waits
    <3> QED
      BY <1>11, <2>2, <3>1, <1>0, GoesOn
      DEF SequenceAccepted, servers, IInv, Typed, Places
  <2> QED
    BY <2>1, <2>2
<1>12. CASE SequenceUnanswered \/ SequenceResultLate
  BY <1>12, CleanupKeeps
  DEF SequenceUnanswered, SequenceResultLate, servers, Waits
<1>13. CASE SequenceDone
  <2>1. CASE misset = "physics_timeout_s"
    BY <1>13, <2>1, <1>0, RaiseKeeps DEF SequenceDone, servers
  <2>2. CASE misset # "physics_timeout_s"
    <3>1. Placed'
      BY <1>13, <2>2 DEF SequenceDone, servers, IInv, Placed, Waits
    <3> QED
      BY <1>13, <2>2, <3>1, <1>0, GoesOn
      DEF SequenceDone, servers, IInv, Typed, Places
  <2> QED
    BY <2>1, <2>2
<1>14. CASE PhysicsResultLate \/ PhysicsDone
  <2>1. /\ seq.state = "over" /\ attempt \in Attempts
        /\ obs[attempt].target = target
    BY <1>14 DEF PhysicsResultLate, PhysicsDone, IInv, Placed, Waits
  <2>2. obs[attempt].target = seq.target
    BY <2>1 DEF IInv, BaselineBeforeMotion
  <2>3. CASE PhysicsResultLate
    BY <2>1, <2>3, <1>0, CleanupKeeps, LeaveKeeps
    DEF PhysicsResultLate, servers, Waits
  <2>4. CASE PhysicsDone
    <3> DEFINE code == IF seq.end # "good" THEN 12
                       ELSE IF obs[attempt].end = "good" THEN 0 ELSE 11
    <3>0. /\ code \in 0..12 /\ code \notin 3..6
          /\ code = 0 => seq.end = "good" /\ obs[attempt].end = "good"
      OBVIOUS
    <3>1. CASE Leave(code)
      BY <2>1, <2>2, <2>4, <3>0, <3>1, <1>0, LeaveKeeps DEF PhysicsDone, servers
    <3>2. CASE Raise
      BY <2>4, <3>2, <1>0, RaiseKeeps DEF PhysicsDone, servers
    <3> QED
      BY <2>4, <3>1, <3>2 DEF PhysicsDone
  <2> QED
    BY <1>14, <2>3, <2>4
<1>15. CASE CancelAsked
  <2>1. CASE misset = "cancel_timeout_s"
    BY <1>15, <2>1, <1>0, RaiseKeeps DEF CancelAsked, servers
  <2>2. CASE misset # "cancel_timeout_s"
    <3>1. /\ cleanup'.todo = cleanup.todo /\ cleanup'.next = cleanup.next
          /\ cleanup' \in Cleanups
      BY <1>0, <1>15, <2>2 DEF CancelAsked, Cleanups
    <3>2. Placed'
      BY <1>15, <2>2, <3>1 DEF CancelAsked, servers, IInv, Placed
    <3> QED
      BY <1>15, <2>2, <3>1, <3>2, GoesOn
      DEF CancelAsked, servers, IInv, Typed
  <2> QED
    BY <2>1, <2>2
<1>16. CASE CancelAnswered
  <2>1. PICK ok \in {FALSE, Cancelled.state = "running"} :
          /\ cleanup' = [cleanup EXCEPT !.stage = "answered", !.accepted = ok]
          /\ obs' = [obs EXCEPT ![attempt].asked =
               @ \/ (ok /\ Head(cleanup.todo) = "physics")]
          /\ seq' = [seq EXCEPT !.asked =
               @ \/ (ok /\ Head(cleanup.todo) = "sequence")]
    BY <1>16 DEF CancelAnswered
  <2>2. /\ cleanup' \in Cleanups
        /\ cleanup'.todo = cleanup.todo /\ cleanup'.next = cleanup.next
    BY <1>0, <2>1 DEF Cleanups
  <2>3. UNCHANGED <<pc, latest, target, attempt, phase, exit, feedback>>
    BY <1>16 DEF CancelAnswered
  <2>4. /\ seq' \in Goal /\ seq'.state = seq.state /\ seq'.end = seq.end
        /\ seq'.target = seq.target
    BY <2>1 DEF IInv, Typed, Goal
  <2>5. /\ obs' \in [Attempts -> Goal]
        /\ \A g \in Attempts : /\ obs'[g].state = obs[g].state
                               /\ obs'[g].end = obs[g].end
                               /\ obs'[g].target = obs[g].target
                               /\ obs'[g].based = obs[g].based
    BY <2>1 DEF IInv, Typed, Goal
  <2>6. attempt \in Attempts /\ \A g \in 1..(attempt - 1) : g \in Attempts
    BY <1>16 DEF CancelAnswered, IInv, Placed, Waits, Attempts
  <2>7. Typed' /\ Reported' /\ Settled'
    BY <2>2, <2>3, <2>4, <2>5 DEF IInv, Typed, Reported, Settled
  <2>8. Placed'
    BY <1>16, <2>2, <2>3, <2>4, <2>5, <2>6 DEF CancelAnswered, IInv, Placed
  <2>9. BaselineBeforeMotion'
    BY <2>3, <2>4, <2>5, <2>6 DEF IInv, BaselineBeforeMotion
  <2>10. ExitIsTrue'
    BY <2>3, <2>4, <2>5 DEF IInv, ExitIsTrue
  <2> QED
    BY <2>7, <2>8, <2>9, <2>10 DEF IInv
<1>17. ASSUME NEW confirmed \in BOOLEAN, pc = "cleanup", Continue(confirmed),
              cleanup.stage \in {"asked", "answered"},
              confirmed => obs[attempt].state = "over" \/ Len(cleanup.todo) > 1,
              UNCHANGED <<target, attempt, phase, servers, feedback>>
       PROVE  IInv'
  <2>0. UNCHANGED <<target, attempt, phase, obs, seq, feedback>>
    BY <1>17 DEF servers
  <2>1. CASE Len(cleanup.todo) > 1
    <3>0. cleanup.todo # <<"physics">>
      <4> SUFFICES ASSUME cleanup.todo = <<"physics">> PROVE FALSE
        OBVIOUS
      <4>1. Len(cleanup.todo) = 1
        BY TodoFacts, Zenon
      <4> QED
        BY <2>1, <4>1
    <3>4. /\ cleanup.next = 9
           /\ cleanup.todo \in {<<"physics">>, <<"sequence", "physics">>}
      BY <1>17, <3>0 DEF IInv, Placed
    <3>1. /\ cleanup.todo = <<"sequence", "physics">> /\ cleanup.next = 9
          /\ Tail(cleanup.todo) = <<"physics">>
      BY <3>0, <3>4, TodoFacts
    <3>2. /\ cleanup' \in Cleanups /\ cleanup'.next = 9
          /\ cleanup'.todo = <<"physics">>
          /\ UNCHANGED <<pc, latest, exit>>
      BY <1>0, <1>17, <2>1, <3>1 DEF Continue, Cleanups
    <3>3. Placed'
      BY <1>17, <2>0, <3>2 DEF IInv, Placed, Waits
    <3> QED
      BY <1>17, <2>0, <3>2, <3>3, GoesOn DEF IInv, Typed
  <2>2. CASE ~(Len(cleanup.todo) > 1) /\ cleanup.next # None
    <3>1. /\ cleanup.next \in 6..10 /\ cleanup' \in Cleanups
          /\ Leave(cleanup.next) /\ latest' = latest
      <4>1. cleanup' = NoCleanup /\ Leave(cleanup.next) /\ latest' = latest
        BY <1>17, <2>2 DEF Continue
      <4> QED
        BY <1>0, <2>2, <4>1, TodoFacts DEF Cleanups
    <3>2. /\ cleanup.next = 6 => seq.state = "none"
          /\ cleanup.next = 10 => seq.state = "over"
      BY <1>17 DEF IInv, Placed
    <3> QED
      BY <2>0, <3>1, <3>2, LeaveKeeps
  <2>3. CASE ~(Len(cleanup.todo) > 1) /\ cleanup.next = None
    <3>1. cleanup' \in Cleanups
      BY <1>17, <2>3, TodoFacts DEF Continue
    <3>2. seq.state = "none"
      BY <1>17, <2>3 DEF IInv, Placed
    <3>3. CASE confirmed /\ attempt <= MaxRestarts
      <4>1. pc' = "target" /\ latest' = None /\ exit' = exit
        BY <1>17, <2>3, <3>3 DEF Continue
      <4>2. \A g \in 1..attempt : g = attempt \/ g \in 1..(attempt - 1)
        BY DEF IInv, Typed
      <4>3. Placed'
        BY <1>17, <2>0, <2>3, <3>2, <3>3, <4>1, <4>2 DEF IInv, Placed, Waits
      <4> QED
        BY <1>17, <2>0, <3>1, <4>1, <4>3, GoesOn DEF Places
    <3>4. CASE ~(confirmed /\ attempt <= MaxRestarts)
      <4>1. Leave(6) /\ latest' = latest
        BY <1>17, <2>3, <3>4 DEF Continue
      <4> QED
        BY <2>0, <3>1, <3>2, <4>1, LeaveKeeps
    <3> QED
      BY <3>3, <3>4
  <2> QED
    BY <2>1, <2>2, <2>3
<1>24. CASE CancelUnconfirmed
  BY <1>17, <1>24 DEF CancelUnconfirmed
<1>25. CASE CancelConfirmed
  <2>1. cleanup.todo \in {<<"physics">>, <<"sequence", "physics">>}
    BY <1>25 DEF CancelConfirmed, IInv, Placed
  <2>2. Len(cleanup.todo) > 1 \/ Cancelled = obs[attempt]
    <3>1. CASE cleanup.todo = <<"physics">>
      BY <3>1, TodoFacts DEF Cancelled
    <3>2. CASE cleanup.todo = <<"sequence", "physics">>
      BY <3>2, TodoFacts
    <3> QED
      BY <2>1, <3>1, <3>2
  <2>3. (cleanup.accepted /\ Cancelled.end = "cancelled") \in BOOLEAN
    OBVIOUS
  <2> QED
    BY <1>17, <1>25, <2>2, <2>3 DEF CancelConfirmed
<1>18. ASSUME NEW g \in Attempts, ObserverDecides(g)
       PROVE  IInv'
  <2>1. PICK goal \in Decide(obs[g]) :
          /\ obs' = [obs EXCEPT ![g] = goal]
          /\ feedback' = IF goal.state = "running"
                           THEN feedback \cup {<<g, "other">>} ELSE feedback
    BY <1>18 DEF ObserverDecides
  <2>2. /\ goal \in Goal /\ goal.state \in {"running", "refused"}
        /\ goal.target = obs[g].target /\ goal.based = obs[g].based
        /\ goal.end = obs[g].end
    BY <2>1 DEF Decide, IInv, Typed, Goal, States
  <2>3. obs[g].state = "sent" /\ obs[g].end = None
    BY <1>18 DEF ObserverDecides, IInv, Settled
  <2> QED
    BY <1>18, <2>1, <2>2, <2>3, ObserverStep DEF ObserverDecides
<1>19. ASSUME NEW g \in Attempts, BaselineTaken(g)
       PROVE  IInv'
  <2> DEFINE goal == [obs[g] EXCEPT !.based = TRUE]
  <2>1. /\ goal \in Goal /\ goal.state = obs[g].state /\ goal.based
        /\ goal.target = obs[g].target /\ goal.end = obs[g].end
    BY DEF IInv, Typed, Goal
  <2>2. obs[g].state = "running" /\ obs[g].end = None
    BY <1>19 DEF BaselineTaken, IInv, Settled
  <2>3. obs' = [obs EXCEPT ![g] = goal]
    BY <1>19 DEF BaselineTaken
  <2> QED
    BY <1>19, <2>1, <2>2, <2>3, ObserverStep DEF BaselineTaken
<1>20. ASSUME NEW g \in Attempts, ObserverReports(g)
       PROVE  IInv'
  <2>1. UNCHANGED <<obs, client, seq>> /\ obs[g].state = "running"
    BY <1>20 DEF ObserverReports, servers
  <2>2. obs' = [obs EXCEPT ![g] = obs[g]] /\ obs[g] \in Goal
    BY <2>1 DEF IInv, Typed
  <2>3. obs[g].end = None
    BY <2>1 DEF IInv, Settled
  <2>4. \A h \in Attempts : <<h, "ready">> \in feedback' =>
           <<h, "ready">> \in feedback \/ (h = g /\ obs[g].based)
    BY <1>20 DEF ObserverReports
  <2> QED
    BY <2>1, <2>2, <2>3, <2>4, ObserverStep
<1>21. ASSUME NEW g \in Attempts, ObserverEnds(g)
       PROVE  IInv'
  <2>1. PICK goal \in Ended(obs[g]) :
          /\ obs' = [obs EXCEPT ![g] = goal]
          /\ feedback' = IF goal.end = "good"
                           THEN feedback ELSE feedback \cup {<<g, "other">>}
    BY <1>21 DEF ObserverEnds
  <2>2. /\ goal \in Goal /\ goal.state = "over"
        /\ goal.target = obs[g].target /\ goal.based = obs[g].based
    BY <2>1 DEF Ended, IInv, Typed, Goal, States
  <2> QED
    BY <1>21, <2>1, <2>2, ObserverStep DEF ObserverEnds
<1>22. CASE SequenceDecides \/ SequenceEnds
  <2>1. CASE SequenceDecides
    <3>1. seq.state = "sent" /\ seq.end = None
      BY <2>1 DEF SequenceDecides, IInv, Settled
    <3> DEFINE moved == [seq EXCEPT !.based = TRUE]
    <3>2. moved \in Goal /\ moved.target = seq.target /\ moved.end = seq.end
      BY DEF IInv, Typed, Goal
    <3>3. PICK goal \in Decide(moved) : seq' = goal
      BY <2>1 DEF SequenceDecides
    <3> HIDE DEF moved
    <3>4. /\ seq' \in Goal /\ seq'.state \in {"running", "refused"}
          /\ seq'.target = seq.target /\ seq'.end = seq.end
      BY <3>2, <3>3 DEF Decide, Goal, States
    <3> QED
      BY <2>1, <3>1, <3>4, SequenceStep DEF SequenceDecides
  <2>2. CASE SequenceEnds
    <3>1. /\ seq' \in Goal /\ seq'.state = "over"
          /\ seq'.target = seq.target
      BY <2>2 DEF SequenceEnds, Ended, IInv, Typed, Goal, States
    <3> QED
      BY <2>2, <3>1, SequenceStep DEF SequenceEnds
  <2> QED
    BY <1>22, <2>1, <2>2
<1>23. CASE UNCHANGED vars
  <2>1. UNCHANGED <<target, attempt, obs, seq, feedback, phase, pc, latest,
                    exit, cleanup>>
    BY <1>23 DEF vars, client, servers
  <2> QED
    BY <1>0, <2>1, ClientStep DEF IInv, Typed, Placed, ExitIsTrue, Reported
<1> QED
  BY <1>1, <1>2, <1>3, <1>4, <1>5, <1>6, <1>7, <1>8, <1>9, <1>10, <1>11,
     <1>12, <1>13, <1>14, <1>15, <1>16, <1>18, <1>19, <1>20, <1>21,
     <1>22, <1>23, <1>24, <1>25 DEF Next

THEOREM SpecIInv == Spec => []IInv
  BY InitIInv, NextIInv, PTL DEF Spec

(* A sequence is only ever asked for under an observation of the same      *)
(* target that has its baseline, with every earlier one over               *)
(* (trial_client.py:440-453, 693-743).                                     *)
THEOREM SpecBaselineBeforeMotion == Spec => []BaselineBeforeMotion
<1>1. IInv => BaselineBeforeMotion
  BY DEF IInv
<1> QED
  BY <1>1, SpecIInv, PTL

(* The exit code tells the truth, for as long as anyone may read it        *)
(* (trial_client.py:624-735, 790-835, 1017-1027).                          *)
THEOREM SpecExitIsTrue == Spec => []ExitIsTrue
<1>1. IInv => ExitIsTrue
  BY DEF IInv
<1> QED
  BY <1>1, SpecIInv, PTL

=============================================================================
