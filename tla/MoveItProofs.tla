---------------------------- MODULE MoveItProofs ----------------------------
(***************************************************************************)
(* Proofs about the two components that face MoveIt.                       *)
(*                                                                         *)
(* The adapter, for any number of requests, commands and resets: what a    *)
(* result says is true needs three facts of the request it ends: a result  *)
(* is reported at its end only, a gate goal is sent on a plan that         *)
(* succeeded, and no server takes back an end.                             *)
(*                                                                         *)
(* The planning scene loader, for any depth of the topics and any number   *)
(* of policy changes and restarts: that ready is true once the topics are  *)
(* empty needs to be known of the messages still on them.                  *)
(***************************************************************************)
EXTENDS MoveItAdapter, SceneLoader, SequenceTheorems, TLAPS

Ended     == {"finish", "done"}
AfterPlan == {"trajectory", "admission", "sending", "gate_response",
              "gate_result", "gate_cancel", "gate_terminal"}

Typed ==
  /\ pc \in [Goals -> Places]
  /\ outcome \in [Goals -> Outcome \cup {None}]
  /\ server \in [Goals -> [Kinds -> Statuses]]

Reports(g) == outcome[g] # None => pc[g] \in Ended
OnPlan(g)  == pc[g] \in AfterPlan => server[g]["plan"] = "succeeded"
IsTrue(g, o) ==
  /\ o.terminal => server[g]["gate"] \in {"succeeded", "stopped"}
  /\ o.success  => /\ server[g]["gate"] = "succeeded"
                   /\ server[g]["plan"] = "succeeded"

EInv == /\ Typed
        /\ \A g \in Goals : Reports(g) /\ OnPlan(g)
        /\ EvidenceIsTrue

(* A request ends with a report that is true of what its goals did.        *)
LEMMA EndKeeps ==
  ASSUME EInv, NEW g \in Goals, NEW o \in Outcome,
         End(g, o), UNCHANGED server, IsTrue(g, o)
  PROVE  EInv'
<1>1. /\ pc' = [pc EXCEPT ![g] = "finish"]
      /\ outcome' = [outcome EXCEPT ![g] = o]
      /\ server' = server
  BY DEF End, Goto
<1>2. Typed'
  BY <1>1 DEF EInv, Typed, Places, Before
<1>3. \A h \in Goals : Reports(h)' /\ OnPlan(h)'
  BY <1>1 DEF EInv, Typed, Reports, OnPlan, Ended, AfterPlan
<1>4. EvidenceIsTrue'
  BY <1>1 DEF EInv, Typed, EvidenceIsTrue, IsTrue
<1> QED BY <1>2, <1>3, <1>4 DEF EInv

(* A request that goes on has reported nothing.                            *)
LEMMA GotoKeeps ==
  ASSUME EInv, NEW g \in Goals, NEW place \in Places,
         Goto(g, place), UNCHANGED <<outcome, server>>,
         pc[g] \notin Ended \/ place \in Ended,
         place \in AfterPlan => server[g]["plan"] = "succeeded"
  PROVE  EInv'
<1>1. /\ pc' = [pc EXCEPT ![g] = place]
      /\ outcome' = outcome /\ server' = server
  BY DEF Goto
<1>2. Typed'
  BY <1>1 DEF EInv, Typed
<1>3. \A h \in Goals : Reports(h)' /\ OnPlan(h)'
  BY <1>1 DEF EInv, Typed, Reports, OnPlan
<1>4. EvidenceIsTrue'
  BY <1>1 DEF EInv, EvidenceIsTrue
<1> QED BY <1>2, <1>3, <1>4 DEF EInv

(* A server changes its mind about no goal that is over.                   *)
LEMMA ServerKeeps ==
  ASSUME EInv, NEW g \in Goals, NEW k \in Kinds, NEW s \in Statuses,
         server[g][k] \in Open, server' = Becomes(server, g, k, s),
         UNCHANGED <<pc, outcome>>
  PROVE  EInv'
<1>1. /\ server' = [server EXCEPT ![g][k] = s]
      /\ pc' = pc /\ outcome' = outcome
  BY DEF Becomes
<1>2. Typed'
  BY <1>1 DEF EInv, Typed
<1>3. \A h \in Goals, j \in Kinds :
        server'[h][j] = server[h][j] \/ server[h][j] \in Open
  BY <1>1 DEF EInv, Typed
<1>4. \A h \in Goals : Reports(h)' /\ OnPlan(h)'
  BY <1>1, <1>3 DEF EInv, Reports, OnPlan, Kinds, Open
<1>5. EvidenceIsTrue'
  BY <1>1, <1>3 DEF EInv, EvidenceIsTrue, Kinds, Open
<1> QED BY <1>2, <1>4, <1>5 DEF EInv

(* A goal is sent by a request that has reported nothing.                  *)
LEMMA SendKeeps ==
  ASSUME EInv, NEW g \in Goals, NEW k \in Kinds, NEW place \in Places,
         server' = Becomes(server, g, k, "sent"), Goto(g, place),
         UNCHANGED outcome, pc[g] \notin Ended,
         place \in AfterPlan => k = "gate" /\ pc[g] \in AfterPlan
  PROVE  EInv'
<1>1. /\ server' = [server EXCEPT ![g][k] = "sent"]
      /\ pc' = [pc EXCEPT ![g] = place] /\ outcome' = outcome
  BY DEF Becomes, Goto
<1>2. Typed'
  BY <1>1 DEF EInv, Typed, Statuses, Open
<1>3. \A h \in Goals : h # g => server'[h] = server[h] /\ pc'[h] = pc[h]
  BY <1>1 DEF EInv, Typed
<1>4. pc'[g] = place /\ outcome[g] = None
  BY <1>1 DEF EInv, Typed, Reports
<1>5. k = "gate" => server'[g]["plan"] = server[g]["plan"]
  BY <1>1 DEF EInv, Typed, Kinds
<1>6. \A h \in Goals : Reports(h)' /\ OnPlan(h)'
  BY <1>1, <1>3, <1>4, <1>5 DEF EInv, Reports, OnPlan
<1>7. EvidenceIsTrue'
  BY <1>1, <1>3, <1>4 DEF EInv, EvidenceIsTrue
<1> QED BY <1>2, <1>6, <1>7 DEF EInv

(* A step that touches none of the three keeps it.                         *)
LEMMA StutterKeeps ==
  ASSUME EInv, UNCHANGED <<pc, outcome, server>>
  PROVE  EInv'
BY DEF EInv, Typed, Reports, OnPlan, EvidenceIsTrue

(* A request that never came to a gate goal reports nothing of one.        *)
LEMMA UnsentIsTrue ==
  /\ Unsent \in Outcome /\ Unconfirmed \in Outcome
  /\ \A g \in Goals : IsTrue(g, Unsent) /\ IsTrue(g, Unconfirmed)
BY DEF Unsent, Unconfirmed, Outcome, IsTrue

(* Both reports are true at every end.                                     *)
LEMMA UnsentKeeps ==
  ASSUME EInv, NEW g \in Goals, End(g, Unsent), UNCHANGED server
  PROVE  EInv'
BY EndKeeps, UnsentIsTrue

LEMMA UnconfirmedKeeps ==
  ASSUME EInv, NEW g \in Goals, End(g, Unconfirmed), UNCHANGED server
  PROVE  EInv'
BY EndKeeps, UnsentIsTrue

-----------------------------------------------------------------------------
(* Every step of a request, by one of the effects above.                   *)
USE DEF Kinds, Places, Before

LEMMA RequestKeeps ==
  ASSUME EInv, NEW g \in Goals,
         \/ Accept(g) \/ RequestCancel(g) \/ NewAttempt(g)
         \/ ValidateRequest(g) \/ ContactPolicyReady(g) \/ SolveIk(g)
         \/ GivesUp(g) \/ IkRaises(g) \/ Finish(g)
  PROVE  EInv'
<1>1. CASE Accept(g)
  <2>1. Goto(g, "accepted") /\ At(g, "new") /\ UNCHANGED <<outcome, server>>
    BY <1>1 DEF Accept, remote
  <2> QED BY <2>1, GotoKeeps DEF At, Ended, AfterPlan
<1>2. CASE RequestCancel(g)
  BY <1>2, StutterKeeps DEF RequestCancel, remote
<1>3. CASE NewAttempt(g)
  <2>1. Goto(g, "validating") /\ At(g, "accepted")
        /\ UNCHANGED <<outcome, server>>
    BY <1>3 DEF NewAttempt, remote
  <2> QED BY <2>1, GotoKeeps DEF At, Ended, AfterPlan
<1>4. CASE ValidateRequest(g)
  <2>1. Goto(g, "policy") /\ At(g, "validating")
        /\ UNCHANGED <<outcome, server>>
    BY <1>4 DEF ValidateRequest, Passes, remote
  <2> QED BY <2>1, GotoKeeps DEF At, Ended, AfterPlan
<1>5. CASE ContactPolicyReady(g)
  <2>1. Goto(g, "ik") /\ At(g, "policy") /\ UNCHANGED <<outcome, server>>
    BY <1>5 DEF ContactPolicyReady, Passes, remote
  <2> QED BY <2>1, GotoKeeps DEF At, Ended, AfterPlan
<1>6. CASE SolveIk(g)
  <2>1. Goto(g, "planning") /\ At(g, "ik") /\ UNCHANGED <<outcome, server>>
    BY <1>6 DEF SolveIk, Passes, remote
  <2> QED BY <2>1, GotoKeeps DEF At, Ended, AfterPlan
<1>7. CASE GivesUp(g)
  BY <1>7, UnsentKeeps DEF GivesUp, remote
<1>8. CASE IkRaises(g)
  BY <1>8, UnsentKeeps DEF IkRaises, remote
<1>9. CASE Finish(g)
  <2>1. Goto(g, "done") /\ At(g, "finish") /\ UNCHANGED <<outcome, server>>
    BY <1>9 DEF Finish, remote
  <2> QED BY <2>1, GotoKeeps DEF At, Ended, AfterPlan
<1> QED BY <1>1, <1>2, <1>3, <1>4, <1>5, <1>6, <1>7, <1>8, <1>9

(* The MoveGroup goal: a request goes on to its trajectory on success      *)
(* only.                                                                   *)
LEMMA PlanStepKeeps ==
  ASSUME EInv, NEW g \in Goals, PlanStep(g)
  PROVE  EInv'
<1>1. CASE SendPlan(g)
  <2>1. CASE /\ server' = Becomes(server, g, "plan", "sent")
             /\ Goto(g, "plan_response") /\ UNCHANGED outcome
    BY <1>1, <2>1, SendKeeps DEF SendPlan, At, Ended, AfterPlan
  <2>2. CASE End(g, Unsent) /\ UNCHANGED server
    BY <2>2, UnsentKeeps
  <2> QED BY <1>1, <2>1, <2>2 DEF SendPlan
<1>2. CASE PlanUnanswered(g)
  BY <1>2, UnsentKeeps DEF PlanUnanswered, GivesUpAnswer
<1>3. CASE PlanAnswerRaises(g)
  BY <1>3, UnsentKeeps DEF PlanAnswerRaises, AnswerRaises, remote
<1>4. CASE PlanAnswered(g)
  <2>1. At(g, "plan_response") /\ UNCHANGED server
    BY <1>4 DEF PlanAnswered, Answered, remote
  <2>2. CASE End(g, Unsent)
    BY <2>1, <2>2, UnsentKeeps
  <2>3. CASE Goto(g, "plan_result") /\ UNCHANGED outcome
    BY <2>1, <2>3, GotoKeeps DEF At, Ended, AfterPlan
  <2> QED BY <1>4, <2>2, <2>3 DEF PlanAnswered, Answered
<1>5. CASE PlanResultUnavailable(g)
  BY <1>5, UnsentKeeps DEF PlanResultUnavailable, ResultUnavailable
<1>6. CASE PlanGivenUp(g)
  <2>1. At(g, "plan_result") /\ Goto(g, "plan_cancel")
        /\ UNCHANGED <<outcome, server>>
    BY <1>6 DEF PlanGivenUp, GivesUpResult, remote
  <2> QED BY <2>1, GotoKeeps DEF At, Ended, AfterPlan
<1>7. CASE CancelPlan(g)
  <2>1. At(g, "plan_cancel") /\ Goto(g, "plan_terminal")
        /\ UNCHANGED <<outcome, server>>
    BY <1>7 DEF CancelPlan, AskCancel
  <2> QED BY <2>1, GotoKeeps DEF At, Ended, AfterPlan
<1>8. CASE PlanTerminal(g)
  BY <1>8, UnsentKeeps DEF PlanTerminal
<1>9. CASE Planned(g)
  <2>1. At(g, "plan_result") /\ UNCHANGED server
    BY <1>9 DEF Planned, remote
  <2>2. CASE End(g, Unsent)
    BY <2>1, <2>2, UnsentKeeps
  <2>3. CASE /\ server[g]["plan"] = "succeeded"
             /\ Goto(g, "trajectory") /\ UNCHANGED outcome
    BY <2>1, <2>3, GotoKeeps DEF At, Ended
  <2> QED BY <1>9, <2>2, <2>3 DEF Planned
<1>10. CASE AdmitTrajectory(g)
  <2>1. At(g, "trajectory") /\ Goto(g, "admission")
        /\ UNCHANGED <<outcome, server>>
    BY <1>10 DEF AdmitTrajectory, Passes, remote
  <2>2. server[g]["plan"] = "succeeded"
    BY <2>1 DEF EInv, OnPlan, At, AfterPlan
  <2> QED BY <2>1, <2>2, GotoKeeps DEF At, Ended
<1> QED
  BY <1>1, <1>2, <1>3, <1>4, <1>5, <1>6, <1>7, <1>8, <1>9, <1>10
  DEF PlanStep

(* What the gate reported of a goal that is over, its success withheld or  *)
(* not, is true of it.                                                     *)
LEMMA ReportedIsTrue ==
  ASSUME EInv, NEW g \in Goals, NEW success \in BOOLEAN,
         pc[g] \in AfterPlan, server[g]["gate"] \in Over,
         success => server[g]["gate"] = "succeeded",
         End(g, [Reported(g) EXCEPT !.success = success]), UNCHANGED server
  PROVE  EInv'
<1> DEFINE ended == server[g]["gate"] # "uncertain"
           won   == server[g]["gate"] = "succeeded"
           o     == [Reported(g) EXCEPT !.success = success]
<1>1. Reported(g) = [dispatched |-> TRUE, terminal |-> ended, success |-> won]
  BY Zenon DEF Reported
<1>2. ended \in BOOLEAN /\ won \in BOOLEAN
  OBVIOUS
<1>3. Reported(g) \in Outcome /\ Reported(g).terminal = ended
  <2> HIDE DEF ended, won
  <2> QED BY <1>1, <1>2 DEF Outcome
<1>4. o \in Outcome /\ o.terminal = ended /\ o.success = success
  <2>1. ASSUME NEW r \in Outcome
        PROVE  /\ [r EXCEPT !.success = success] \in Outcome
               /\ [r EXCEPT !.success = success].terminal = r.terminal
               /\ [r EXCEPT !.success = success].success = success
    BY DEF Outcome
  <2> QED BY <1>3, <2>1, Zenon
<1>5. server[g]["plan"] = "succeeded"
  BY DEF EInv, OnPlan
<1>6. IsTrue(g, o)
  BY <1>4, <1>5 DEF IsTrue, Over
<1> QED BY <1>4, <1>6, EndKeeps

(* The gate goal.                                                          *)
LEMMA GateStepKeeps ==
  ASSUME EInv, NEW g \in Goals, GateStep(g)
  PROVE  EInv'
<1>0. pc[g] \in AfterPlan => server[g]["plan"] = "succeeded"
  BY DEF EInv, OnPlan
<1>1. CASE AdmitDispatch(g)
  <2>1. At(g, "admission") /\ UNCHANGED server
    BY <1>1 DEF AdmitDispatch, remote
  <2>2. CASE End(g, Unsent)
    BY <2>1, <2>2, UnsentKeeps
  <2>3. CASE Goto(g, "sending") /\ UNCHANGED outcome
    BY <1>0, <2>1, <2>3, GotoKeeps DEF At, Ended, AfterPlan
  <2> QED BY <1>1, <2>2, <2>3 DEF AdmitDispatch
<1>2. CASE SendGate(g)
  BY <1>2, SendKeeps DEF SendGate, At, Ended, AfterPlan
<1>3. CASE SendGateFails(g)
  BY <1>3, UnsentKeeps DEF SendGateFails, remote
<1>4. CASE GateUnanswered(g)
  BY <1>4, UnsentKeeps DEF GateUnanswered, GivesUpAnswer
<1>5. CASE GateAnswerRaises(g)
  BY <1>5, UnsentKeeps DEF GateAnswerRaises, AnswerRaises, remote
<1>6. CASE GateAnswered(g)
  <2>1. At(g, "gate_response") /\ UNCHANGED server
    BY <1>6 DEF GateAnswered, Answered, remote
  <2>2. CASE End(g, Unsent)
    BY <2>1, <2>2, UnsentKeeps
  <2>3. CASE Goto(g, "gate_result") /\ UNCHANGED outcome
    BY <1>0, <2>1, <2>3, GotoKeeps DEF At, Ended, AfterPlan
  <2> QED BY <1>6, <2>2, <2>3 DEF GateAnswered, Answered
<1>7. CASE GateResultUnavailable(g)
  BY <1>7, UnconfirmedKeeps DEF GateResultUnavailable, ResultUnavailable
<1>8. CASE GateGivenUp(g)
  <2>1. At(g, "gate_result") /\ Goto(g, "gate_cancel")
        /\ UNCHANGED <<outcome, server>>
    BY <1>8 DEF GateGivenUp, GivesUpResult, remote
  <2> QED BY <1>0, <2>1, GotoKeeps DEF At, Ended, AfterPlan
<1>9. CASE CancelGate(g)
  <2>1. At(g, "gate_cancel") /\ Goto(g, "gate_terminal")
        /\ UNCHANGED <<outcome, server>>
    BY <1>9 DEF CancelGate, AskCancel
  <2> QED BY <1>0, <2>1, GotoKeeps DEF At, Ended, AfterPlan
<1>10. CASE GateTerminal(g)
  <2>1. At(g, "gate_terminal") /\ UNCHANGED server
    BY <1>10 DEF GateTerminal, remote
  <2>2. CASE End(g, Unconfirmed)
    BY <2>1, <2>2, UnconfirmedKeeps
  <2>3. CASE /\ server[g]["gate"] \in Over
             /\ End(g, [Reported(g) EXCEPT !.success = FALSE])
    BY <2>1, <2>3, ReportedIsTrue DEF At, AfterPlan
  <2> QED BY <1>10, <2>2, <2>3 DEF GateTerminal
<1>11. CASE GateMismatch(g)
  BY <1>11, UnconfirmedKeeps DEF GateMismatch, remote
<1>12. CASE GateDone(g)
  <2> DEFINE success == server[g]["gate"] = "succeeded" /\ ~cancelled[g]
  <2>1. [Reported(g) EXCEPT !.success = @ /\ ~cancelled[g]]
          = [Reported(g) EXCEPT !.success = success]
    BY DEF Reported
  <2>2. /\ At(g, "gate_result") /\ server[g]["gate"] \in Over
        /\ End(g, [Reported(g) EXCEPT !.success = success])
        /\ UNCHANGED server
    BY <1>12, <2>1 DEF GateDone, remote
  <2>3. success \in BOOLEAN
    OBVIOUS
  <2>4. pc[g] \in AfterPlan
    BY <2>2 DEF At, AfterPlan
  <2> QED BY <2>2, <2>3, <2>4, ReportedIsTrue
<1> QED
  BY <1>1, <1>2, <1>3, <1>4, <1>5, <1>6, <1>7, <1>8, <1>9, <1>10, <1>11,
     <1>12 DEF GateStep

(* The callbacks left behind and the resets touch no report.               *)
LEMMA LateKeeps ==
  ASSUME EInv, NEW g \in Goals, NEW k \in Kinds,
         LateAnswer(g, k) \/ Late(g, k)
  PROVE  EInv'
<1>1. UNCHANGED <<pc, outcome, server>>
  BY DEF LateAnswer, Late, LateAnswerRaises, LateCancelRefused, LateTerminal,
         LateTerminalFails, LateWatchdog, remote
<1> QED BY <1>1, StutterKeeps

LEMMA ResetKeeps ==
  ASSUME EInv, InputFault \/ ResetChecked \/ ResetDone
  PROVE  EInv'
<1>1. UNCHANGED <<pc, outcome, server>>
  BY DEF InputFault, ResetChecked, ResetDone, remote
<1> QED BY <1>1, StutterKeeps

LEMMA ServersKeep ==
  ASSUME EInv, NEW g \in Goals, NEW k \in Kinds,
         Decide(g, k) \/ Ends(g, k)
  PROVE  EInv'
<1>1. server[g][k] \in Open /\ UNCHANGED <<pc, outcome>>
  BY DEF Decide, Ends, Open
<1>2. PICK s \in Statuses : server' = Becomes(server, g, k, s)
  BY DEF Decide, Ends, Statuses, Over, Open
<1> QED BY <1>1, <1>2, ServerKeeps

LEMMA InitEInv == Init => EInv
<1> SUFFICES ASSUME Init PROVE EInv
  OBVIOUS
<1>1. Typed
  BY DEF Init, Typed, Statuses
<1>2. EvidenceIsTrue
  BY DEF Init, EvidenceIsTrue
<1>3. \A g \in Goals : Reports(g) /\ OnPlan(g)
  BY DEF Init, Reports, OnPlan, AfterPlan
<1> QED BY <1>1, <1>2, <1>3 DEF EInv

(* Every step keeps what evidence rests on.                                *)
LEMMA NextEInv == EInv /\ [Next]_vars => EInv'
<1> SUFFICES ASSUME EInv, [Next]_vars PROVE EInv'
  OBVIOUS
<1>1. ASSUME NEW g \in Goals, Accept(g) \/ RequestCancel(g) \/ Execute(g)
      PROVE  EInv'
  BY <1>1, RequestKeeps, PlanStepKeeps, GateStepKeeps DEF Execute
<1>2. ASSUME NEW g \in Goals, LatePlanAnswer(g) \/ LateGateAnswer(g)
      PROVE  EInv'
  BY <1>2, LateKeeps DEF LatePlanAnswer, LateGateAnswer
<1>3. ASSUME NEW g \in Goals, NEW k \in Kinds,
             Late(g, k) \/ Decide(g, k) \/ Ends(g, k)
      PROVE  EInv'
  BY <1>3, LateKeeps, ServersKeep
<1>4. CASE InputFault \/ ResetChecked \/ ResetDone
  BY <1>4, ResetKeeps
<1>5. CASE UNCHANGED vars
  BY <1>5, StutterKeeps DEF vars, remote
<1> QED BY <1>1, <1>2, <1>3, <1>4, <1>5 DEF Next

(* What a PlanTarget result reports as ended or succeeded did so.          *)
THEOREM SpecEvidenceIsTrue == Spec => []EvidenceIsTrue
<1>1. EInv => EvidenceIsTrue
  BY DEF EInv
<1> QED BY <1>1, InitEInv, NextEInv, PTL DEF Spec

-----------------------------------------------------------------------------
(* One motion at a time.  A gate goal whose request ended without seeing   *)
(* its end and that never had a callback of its own is untracked.  It      *)
(* leaves the adapter latched until a reset, or belongs to an epoch that is*)
(* past; and a request that passed its last check is of another epoch than *)
(* every untracked goal.  For that one request at a time must be under way,*)
(* and it must be the active one, for LatchAttempt latches no other.  A    *)
(* callback that fails latches nothing any more, so its goal is told apart.*)
UnderWay(g) == pc[g] \notin {"new", "done"}
AtGate  == {"gate_response", "gate_result", "gate_cancel", "gate_terminal"}
Checked == {"admission", "sending"}
Untracked(h) ==
  /\ pc[h] \in Ended
  /\ server[h]["gate"] \in Open /\ track[h]["gate"] = "none"

TypedMore ==
  /\ fault \in BOOLEAN /\ epoch \in Nat
  /\ wanted \in [Goals -> Nat]
  /\ track \in [Goals -> [Kinds -> Tracks]]

Alone(g) ==
  UnderWay(g) => /\ reserved # None
                 /\ pc[g] # "accepted" => active = g
                 /\ \A h \in Goals : UnderWay(h) => h = g
NotYet(g)  == pc[g] \notin AtGate \cup Ended => server[g]["gate"] = "none"
Current(g) ==
  pc[g] \in Checked \/ server[g]["gate"] # "none" => wanted[g] <= epoch
Latched(g) == Untracked(g) => fault \/ wanted[g] < epoch
Cleared(g) ==
  pc[g] \in Checked => \A h \in Goals : Untracked(h) => wanted[h] # wanted[g]

MInv == TypedMore /\ \A g \in Goals : /\ Alone(g) /\ NotYet(g) /\ Current(g)
                                      /\ Latched(g) /\ Cleared(g)

(* The effects a step may have on this.                                    *)
Frame == UNCHANGED <<reserved, active, epoch, wanted>>

Latches == fault' \in BOOLEAN /\ (fault => fault')

Stops(g) ==
  /\ UnderWay(g) /\ pc[g] # "accepted"
  /\ Goto(g, "finish") /\ UNCHANGED server /\ Frame /\ Latches
  /\ track' \in [Goals -> [Kinds -> Tracks]]
  /\ \A h \in Goals \ {g} : track'[h] = track[h]
  /\ server[g]["gate"] \in Open => track'[g]["gate"] # "none" \/ fault'

GoesOn(g, place) ==
  /\ UnderWay(g) /\ pc[g] \notin Ended \cup {"accepted"}
  /\ Goto(g, place) /\ UNCHANGED <<server, track>> /\ Frame /\ Latches
  /\ place \in Places \ {"new", "accepted", "finish", "done"}
  /\ pc[g] \in AtGate => place \in AtGate
  /\ place \in Checked => pc[g] \in Checked \/ Safe(g)

(* A request that ends leaves its goal over, watched, or the latch set.    *)
LEMMA StopsKeeps ==
  ASSUME EInv, MInv, NEW g \in Goals, Stops(g)
  PROVE  MInv'
<1>1. /\ pc' = [pc EXCEPT ![g] = "finish"]
      /\ server' = server /\ reserved' = reserved /\ active' = active
      /\ epoch' = epoch /\ wanted' = wanted
  BY DEF Stops, Goto, Frame
<1>2. TypedMore'
  BY <1>1 DEF MInv, TypedMore, Stops, Latches
<1>3. pc'[g] = "finish" /\ \A h \in Goals \ {g} : pc'[h] = pc[h]
  BY <1>1 DEF EInv, Typed
<1>4. ASSUME NEW h \in Goals
      PROVE  Alone(h)'
  BY <1>1, <1>3 DEF MInv, Alone, UnderWay, Stops
<1>5. ASSUME NEW h \in Goals
      PROVE  NotYet(h)' /\ Current(h)'
  BY <1>1, <1>3 DEF MInv, NotYet, Current, Ended, Checked
<1>6. ASSUME NEW h \in Goals, h # g
      PROVE  Untracked(h)' = Untracked(h)
  BY <1>1, <1>3, <1>6 DEF Untracked, Stops
<1>7. ASSUME NEW h \in Goals
      PROVE  Latched(h)'
  <2>1. CASE h = g
    BY <1>1, <2>1 DEF Latched, Untracked, Stops
  <2>2. CASE h # g
    BY <1>1, <1>6, <2>2 DEF Latched, MInv, Stops, Latches
  <2> QED BY <2>1, <2>2
<1>8. ASSUME NEW h \in Goals
      PROVE  Cleared(h)'
  BY <1>1, <1>3 DEF MInv, Cleared, Alone, UnderWay, Checked, Stops
<1> QED BY <1>2, <1>4, <1>5, <1>7, <1>8 DEF MInv

(* A request passes its last check with the latch clear and its epoch      *)
(* current.                                                                *)
LEMMA GoesOnKeeps ==
  ASSUME EInv, MInv, NEW g \in Goals, NEW place, GoesOn(g, place)
  PROVE  MInv'
<1>1. /\ pc' = [pc EXCEPT ![g] = place]
      /\ server' = server /\ track' = track /\ reserved' = reserved
      /\ active' = active /\ epoch' = epoch /\ wanted' = wanted
  BY DEF GoesOn, Goto, Frame
<1>2. TypedMore'
  BY <1>1 DEF MInv, TypedMore, GoesOn, Latches
<1>3. pc'[g] = place /\ \A h \in Goals \ {g} : pc'[h] = pc[h]
  BY <1>1 DEF EInv, Typed
<1>4. ASSUME NEW h \in Goals
      PROVE  Alone(h)'
  BY <1>1, <1>3 DEF MInv, Alone, UnderWay, GoesOn
<1>5. ASSUME NEW h \in Goals
      PROVE  NotYet(h)'
  BY <1>1, <1>3 DEF MInv, NotYet, Ended, GoesOn
<1>6. ASSUME NEW h \in Goals
      PROVE  Current(h)'
  BY <1>1, <1>3 DEF MInv, Current, GoesOn, Safe, TypedMore
<1>7. ASSUME NEW h \in Goals
      PROVE  Untracked(h)' = Untracked(h)
  BY <1>1, <1>3 DEF Untracked, GoesOn, Ended
<1>8. ASSUME NEW h \in Goals
      PROVE  Latched(h)'
  BY <1>1, <1>7 DEF Latched, MInv, GoesOn, Latches
<1>9. ASSUME NEW h \in Goals
      PROVE  Cleared(h)'
  <2>1. CASE h # g
    BY <1>1, <1>3, <1>7, <2>1 DEF MInv, Cleared
  <2>2. CASE h = g /\ pc[g] \in Checked
    BY <1>1, <1>7, <2>2 DEF MInv, Cleared
  <2>3. CASE h = g /\ Safe(g)
    BY <1>1, <1>7, <2>3 DEF MInv, Cleared, Latched, Safe, TypedMore
  <2> QED BY <1>1, <1>3, <2>1, <2>2, <2>3 DEF Cleared, GoesOn
<1> QED BY <1>2, <1>4, <1>5, <1>6, <1>8, <1>9 DEF MInv

(* A goal is sent by a request that is under way, whose goals before it    *)
(* are of another kind.                                                    *)
Sends(g, k, place) ==
  /\ pc[g] = (IF k = "gate" THEN "sending" ELSE "planning")
  /\ place = (IF k = "gate" THEN "gate_response" ELSE "plan_response")
  /\ Goto(g, place) /\ server' = Becomes(server, g, k, "sent")
  /\ UNCHANGED <<track, fault>> /\ Frame

LEMMA SendsKeeps ==
  ASSUME EInv, MInv, NEW g \in Goals, NEW k \in Kinds, NEW place,
         Sends(g, k, place)
  PROVE  MInv'
<1>1. /\ pc' = [pc EXCEPT ![g] = place]
      /\ server' = [server EXCEPT ![g][k] = "sent"]
      /\ track' = track /\ fault' = fault /\ reserved' = reserved
      /\ active' = active /\ epoch' = epoch /\ wanted' = wanted
  BY DEF Sends, Becomes, Goto, Frame
<1>2. TypedMore'
  BY <1>1 DEF MInv, TypedMore
<1>3. /\ pc'[g] = place /\ \A h \in Goals \ {g} : pc'[h] = pc[h]
      /\ \A h \in Goals \ {g} : server'[h] = server[h]
      /\ k = "plan" => server'[g]["gate"] = server[g]["gate"]
  BY <1>1 DEF EInv, Typed
<1>4. ASSUME NEW h \in Goals
      PROVE  Alone(h)'
  BY <1>1, <1>3 DEF MInv, Alone, UnderWay, Sends
<1>5. ASSUME NEW h \in Goals
      PROVE  NotYet(h)' /\ Current(h)'
  BY <1>1, <1>3 DEF MInv, NotYet, Current, Ended, AtGate, Checked, Sends
<1>6. ASSUME NEW h \in Goals
      PROVE  Untracked(h)' = Untracked(h)
  BY <1>1, <1>3 DEF Untracked, Ended, Sends
<1>7. ASSUME NEW h \in Goals
      PROVE  Latched(h)' /\ Cleared(h)'
  BY <1>1, <1>3, <1>6 DEF Latched, Cleared, MInv, Checked, Sends
<1> QED BY <1>2, <1>4, <1>5, <1>7 DEF MInv

(* A step beside the request under way: nothing more is untracked.         *)
Beside ==
  /\ UNCHANGED <<pc, reserved, active, epoch, wanted>> /\ Latches
  /\ track' \in [Goals -> [Kinds -> Tracks]]
  /\ \A h \in Goals : server'[h]["gate"] = "none" <=> server[h]["gate"] = "none"
  /\ \A h \in Goals : Untracked(h)' => Untracked(h)

LEMMA BesideKeeps ==
  ASSUME MInv, Beside
  PROVE  MInv'
<1>1. TypedMore'
  BY DEF MInv, TypedMore, Beside, Latches
<1>2. ASSUME NEW h \in Goals
      PROVE  Alone(h)' /\ NotYet(h)' /\ Current(h)'
  BY DEF MInv, Alone, UnderWay, NotYet, Current, Beside
<1>3. ASSUME NEW h \in Goals
      PROVE  Latched(h)' /\ Cleared(h)'
  BY DEF MInv, Latched, Cleared, Beside, Latches
<1> QED BY <1>1, <1>2, <1>3 DEF MInv

(* A reset clears the latch, and puts every untracked goal in a past epoch.*)
LEMMA ResetDoneKeeps ==
  ASSUME MInv, ResetDone
  PROVE  MInv'
<1>1. /\ epoch' = epoch + 1 /\ fault' = FALSE
      /\ UNCHANGED <<pc, reserved, active, wanted, server, track>>
  BY DEF ResetDone, remote, request
<1>2. TypedMore'
  <2>1. epoch' \in Nat
    BY <1>1 DEF MInv, TypedMore
  <2>2. fault' \in BOOLEAN
    BY <1>1
  <2> QED BY <1>1, <2>1, <2>2 DEF MInv, TypedMore
<1>3. ASSUME NEW h \in Goals
      PROVE  Alone(h)' /\ NotYet(h)' /\ Cleared(h)'
  BY <1>1 DEF MInv, Alone, UnderWay, NotYet, Cleared, Untracked
<1>4. ASSUME NEW h \in Goals
      PROVE  Current(h)' /\ Latched(h)'
  BY <1>1 DEF MInv, TypedMore, Current, Latched, Untracked, Open
<1> QED BY <1>2, <1>3, <1>4 DEF MInv

(* A goal is accepted when nothing is reserved, hence nothing under way.   *)
LEMMA AcceptKeeps ==
  ASSUME EInv, MInv, NEW g \in Goals, Accept(g)
  PROVE  MInv'
<1>1. /\ pc[g] = "new" /\ reserved = None
      /\ pc' = [pc EXCEPT ![g] = "accepted"]
      /\ UNCHANGED <<active, fault, epoch, server, track>>
  BY DEF Accept, At, Goto, remote
<1>2. PICK c \in Carries[g], e \in 0..MaxEpoch :
        reserved' = c /\ wanted' = [wanted EXCEPT ![g] = e]
  BY DEF Accept
<1>3. reserved' # None
  BY <1>2, AdapterConstants DEF Commands
<1>4. e \in Nat
  BY AdapterConstants
<1>5. TypedMore'
  BY <1>1, <1>2, <1>4 DEF MInv, TypedMore
<1>6. /\ pc'[g] = "accepted"
      /\ \A h \in Goals \ {g} : pc'[h] = pc[h] /\ wanted'[h] = wanted[h]
  BY <1>1, <1>2 DEF EInv, Typed, MInv, TypedMore
<1>7. \A h \in Goals : ~UnderWay(h)
  BY <1>1 DEF MInv, Alone
<1>8. ASSUME NEW h \in Goals
      PROVE  Alone(h)'
  BY <1>3, <1>6, <1>7 DEF Alone, UnderWay
<1>9. ASSUME NEW h \in Goals
      PROVE  NotYet(h)' /\ Current(h)'
  BY <1>1, <1>6 DEF MInv, NotYet, Current, AtGate, Ended, Checked
<1>10. ASSUME NEW h \in Goals
       PROVE  Untracked(h)' => Untracked(h) /\ wanted'[h] = wanted[h]
  BY <1>1, <1>6 DEF Untracked, Ended
<1>11. ASSUME NEW h \in Goals
       PROVE  Latched(h)' /\ Cleared(h)'
  BY <1>1, <1>6, <1>7, <1>10 DEF MInv, Latched, Cleared, UnderWay, Checked
<1> QED BY <1>5, <1>8, <1>9, <1>11 DEF MInv

LEMMA NewAttemptKeeps ==
  ASSUME EInv, MInv, NEW g \in Goals, NewAttempt(g)
  PROVE  MInv'
<1>1. /\ pc[g] = "accepted" /\ active' = g
      /\ pc' = [pc EXCEPT ![g] = "validating"]
      /\ UNCHANGED <<reserved, fault, epoch, wanted, server, track>>
  BY DEF NewAttempt, At, Goto, request, remote
<1>2. TypedMore'
  BY <1>1 DEF MInv, TypedMore
<1>3. pc'[g] = "validating" /\ \A h \in Goals \ {g} : pc'[h] = pc[h]
  BY <1>1 DEF EInv, Typed
<1>4. ASSUME NEW h \in Goals
      PROVE  Alone(h)'
  BY <1>1, <1>3 DEF MInv, Alone, UnderWay
<1>5. ASSUME NEW h \in Goals
      PROVE  NotYet(h)' /\ Current(h)'
  BY <1>1, <1>3 DEF MInv, NotYet, Current, AtGate, Ended, Checked
<1>6. ASSUME NEW h \in Goals
      PROVE  Untracked(h)' = Untracked(h)
  BY <1>1, <1>3 DEF Untracked, Ended
<1>7. ASSUME NEW h \in Goals
      PROVE  Latched(h)' /\ Cleared(h)'
  BY <1>1, <1>3, <1>6 DEF MInv, Latched, Cleared, Checked
<1> QED BY <1>2, <1>4, <1>5, <1>7 DEF MInv

(* A request that is done leaves nothing under way.                        *)
LEMMA FinishKeeps ==
  ASSUME EInv, MInv, NEW g \in Goals, Finish(g)
  PROVE  MInv'
<1>1. /\ pc[g] = "finish" /\ pc' = [pc EXCEPT ![g] = "done"]
      /\ UNCHANGED <<fault, epoch, wanted, server, track>>
  BY DEF Finish, At, Goto, request, remote
<1>2. TypedMore'
  BY <1>1 DEF MInv, TypedMore
<1>3. pc'[g] = "done" /\ \A h \in Goals \ {g} : pc'[h] = pc[h]
  BY <1>1 DEF EInv, Typed
<1>4. \A h \in Goals : ~UnderWay(h)'
  BY <1>1, <1>3 DEF MInv, Alone, UnderWay
<1>5. ASSUME NEW h \in Goals
      PROVE  Alone(h)' /\ Cleared(h)'
  BY <1>4 DEF Alone, Cleared, Checked, UnderWay
<1>6. ASSUME NEW h \in Goals
      PROVE  NotYet(h)' /\ Current(h)'
  BY <1>1, <1>3 DEF MInv, NotYet, Current, AtGate, Ended, Checked
<1>7. ASSUME NEW h \in Goals
      PROVE  Latched(h)'
  BY <1>1, <1>3 DEF MInv, Latched, Untracked, Ended
<1> QED BY <1>2, <1>5, <1>6, <1>7 DEF MInv

-----------------------------------------------------------------------------
(* What an attempt latches of its own latches the adapter.                 *)
LEMMA LatchHolds ==
  ASSUME MInv, NEW g \in Goals, UnderWay(g), pc[g] # "accepted",
         LatchAttempt(g)
  PROVE  fault' = TRUE
BY DEF MInv, TypedMore, Alone, LatchAttempt

LEMMA AttemptLatches ==
  ASSUME MInv, NEW g \in Goals, LatchAttempt(g) \/ UNCHANGED fault
  PROVE  Latches
BY DEF MInv, TypedMore, LatchAttempt, Latches

(* An attempt that has sent nothing to the gate may stop anywhere, and one *)
(* whose gate goal is over or rejected too.                                *)
LEMMA SafeStop ==
  ASSUME EInv, MInv, NEW g \in Goals, UnderWay(g), pc[g] # "accepted",
         pc[g] \notin AtGate \cup Ended \/ server[g]["gate"] \notin Open,
         NEW o, End(g, o), UNCHANGED server, Frame, Latches,
         \/ track' = track
         \/ \E t \in Tracks : track' = Becomes(track, g, "plan", t)
  PROVE  MInv'
<1>1. track' \in [Goals -> [Kinds -> Tracks]]
  BY DEF MInv, TypedMore, Becomes
<1>2. \A h \in Goals \ {g} : track'[h] = track[h]
  BY DEF MInv, TypedMore, Becomes
<1>3. server[g]["gate"] \notin Open
  BY DEF MInv, NotYet, Open
<1>4. Stops(g)
  BY <1>1, <1>2, <1>3 DEF Stops, End
<1> QED BY <1>4, StopsKeeps

(* One whose gate goal may run must latch or leave a callback.             *)
LEMMA LatchedStop ==
  ASSUME EInv, MInv, NEW g \in Goals, UnderWay(g), pc[g] # "accepted",
         NEW o, End(g, o), UNCHANGED <<server, track>>, Frame, fault' = TRUE
  PROVE  MInv'
<1>1. Stops(g)
  BY DEF Stops, End, Latches, MInv, TypedMore
<1> QED BY <1>1, StopsKeeps

(* The steps of a request, each by one of the effects above.               *)
LEMMA RequestKeepsMotion ==
  ASSUME EInv, MInv, NEW g \in Goals,
         \/ RequestCancel(g) \/ ValidateRequest(g) \/ ContactPolicyReady(g)
         \/ SolveIk(g) \/ GivesUp(g) \/ IkRaises(g)
  PROVE  MInv'
<1>1. CASE RequestCancel(g)
  <2>1. Beside
    BY <1>1 DEF RequestCancel, Beside, Latches, MInv, TypedMore, Untracked,
                adapter, request, remote
  <2> QED BY <2>1, BesideKeeps
<1>2. CASE ValidateRequest(g)
  <2>1. GoesOn(g, "policy")
    BY <1>2 DEF ValidateRequest, Passes, At, GoesOn, UnderWay, Ended, AtGate,
                Checked, Frame, Latches, MInv, TypedMore, adapter, request,
                remote
  <2> QED BY <2>1, GoesOnKeeps
<1>3. CASE ContactPolicyReady(g)
  <2>1. GoesOn(g, "ik")
    BY <1>3 DEF ContactPolicyReady, Passes, At, GoesOn, UnderWay, Ended, AtGate,
                Checked, Frame, Latches, MInv, TypedMore, adapter, request,
                remote
  <2> QED BY <2>1, GoesOnKeeps
<1>4. CASE SolveIk(g)
  <2>1. GoesOn(g, "planning")
    BY <1>4 DEF SolveIk, Passes, At, GoesOn, UnderWay, Ended, AtGate,
                Checked, Frame, Latches, MInv, TypedMore, adapter, request,
                remote
  <2> QED BY <2>1, GoesOnKeeps
<1>5. CASE GivesUp(g)
  <2>1. /\ UnderWay(g) /\ pc[g] # "accepted" /\ pc[g] \notin AtGate \cup Ended
        /\ End(g, Unsent) /\ UNCHANGED <<server, track>> /\ Frame /\ Latches
    BY <1>5, AttemptLatches DEF GivesUp, At, UnderWay, AtGate, Ended,
       Frame, Latches, MInv, TypedMore, adapter, request, remote
  <2> QED BY <2>1, SafeStop
<1>6. CASE IkRaises(g)
  <2>1. /\ UnderWay(g) /\ pc[g] # "accepted" /\ pc[g] \notin AtGate \cup Ended
        /\ End(g, Unsent) /\ UNCHANGED <<server, track>> /\ Frame /\ Latches
    BY <1>6, AttemptLatches DEF IkRaises, At, UnderWay, AtGate, Ended,
       Frame, Latches, MInv, TypedMore, adapter, request, remote
  <2> QED BY <2>1, SafeStop
<1> QED BY <1>1, <1>2, <1>3, <1>4, <1>5, <1>6

LEMMA PlanStepKeepsMotion ==
  ASSUME EInv, MInv, NEW g \in Goals, PlanStep(g)
  PROVE  MInv'
<1>1. CASE SendPlan(g)
  <2>1. At(g, "planning") /\ Frame /\ UNCHANGED track
    BY <1>1 DEF SendPlan, Frame, request
  <2>2. CASE /\ server' = Becomes(server, g, "plan", "sent")
             /\ Goto(g, "plan_response") /\ UNCHANGED fault
    <3>1. Sends(g, "plan", "plan_response")
      BY <2>1, <2>2 DEF Sends, At
    <3> QED BY <3>1, SendsKeeps
  <2>3. CASE LatchAttempt(g) /\ End(g, Unsent) /\ UNCHANGED server
    <3>1. /\ UnderWay(g) /\ pc[g] # "accepted"
          /\ pc[g] \notin AtGate \cup Ended
      BY <2>1 DEF At, UnderWay, AtGate, Ended
    <3> QED BY <2>1, <2>3, <3>1, AttemptLatches, SafeStop
  <2> QED BY <1>1, <2>2, <2>3 DEF SendPlan
<1>2. CASE PlanUnanswered(g)
  <2>1. /\ UnderWay(g) /\ pc[g] # "accepted" /\ pc[g] \notin AtGate \cup Ended
        /\ End(g, Unsent) /\ UNCHANGED server /\ Frame /\ Latches
        /\ track' = Becomes(track, g, "plan", "late") /\ "late" \in Tracks
    BY <1>2 DEF PlanUnanswered, GivesUpAnswer, At, UnderWay, AtGate, Ended,
       Frame, Latches, MInv, TypedMore, adapter, request, Tracks,
       Watching
  <2> QED BY <2>1, SafeStop
<1>3. CASE PlanAnswerRaises(g)
  <2>1. /\ UnderWay(g) /\ pc[g] # "accepted" /\ pc[g] \notin AtGate \cup Ended
        /\ End(g, Unsent) /\ UNCHANGED <<server, track>> /\ Frame /\ Latches
    BY <1>3, AttemptLatches DEF PlanAnswerRaises, AnswerRaises, At, UnderWay,
       AtGate, Ended,
       Frame, Latches, MInv, TypedMore, adapter, request, remote
  <2> QED BY <2>1, SafeStop
<1>4. CASE PlanAnswered(g)
  <2>1. /\ pc[g] = "plan_response" /\ UNCHANGED <<server, track, fault>>
        /\ Frame /\ Latches
    BY <1>4 DEF PlanAnswered, Answered, At, Frame, Latches, MInv, TypedMore,
                adapter, request, remote
  <2>2. CASE End(g, Unsent)
    <3>1. /\ UnderWay(g) /\ pc[g] # "accepted"
          /\ pc[g] \notin AtGate \cup Ended
      BY <2>1 DEF UnderWay, AtGate, Ended
    <3> QED BY <2>1, <2>2, <3>1, SafeStop
  <2>3. CASE Goto(g, "plan_result")
    <3>1. GoesOn(g, "plan_result")
      BY <2>1, <2>3 DEF GoesOn, UnderWay, Ended, AtGate, Checked
    <3> QED BY <3>1, GoesOnKeeps
  <2> QED BY <1>4, <2>2, <2>3 DEF PlanAnswered, Answered
<1>5. CASE PlanResultUnavailable(g)
  <2>1. /\ UnderWay(g) /\ pc[g] # "accepted" /\ pc[g] \notin AtGate \cup Ended
        /\ End(g, Unsent) /\ UNCHANGED <<server, track>> /\ Frame /\ Latches
    BY <1>5, AttemptLatches DEF PlanResultUnavailable, ResultUnavailable, At,
       UnderWay, AtGate, Ended,
       Frame, Latches, MInv, TypedMore, adapter, request, remote
  <2> QED BY <2>1, SafeStop
<1>6. CASE PlanGivenUp(g)
  <2>1. GoesOn(g, "plan_cancel")
    BY <1>6 DEF PlanGivenUp, GivesUpResult, At, GoesOn, UnderWay, Ended, AtGate,
                Checked, Frame, Latches, MInv, TypedMore, adapter, request,
                remote
  <2> QED BY <2>1, GoesOnKeeps
<1>7. CASE CancelPlan(g)
  <2>1. /\ pc[g] = "plan_cancel" /\ Goto(g, "plan_terminal")
        /\ UNCHANGED <<server, track>> /\ Frame
    BY <1>7 DEF CancelPlan, AskCancel, At, Frame, request
  <2>2. Latches
    BY <1>7, AttemptLatches DEF CancelPlan, AskCancel
  <2>3. GoesOn(g, "plan_terminal")
    BY <2>1, <2>2 DEF GoesOn, UnderWay, Ended, AtGate, Checked
  <2> QED BY <2>3, GoesOnKeeps
<1>8. CASE PlanTerminal(g)
  <2>1. /\ UnderWay(g) /\ pc[g] # "accepted" /\ pc[g] \notin AtGate \cup Ended
        /\ End(g, Unsent) /\ UNCHANGED server /\ Frame
    BY <1>8 DEF PlanTerminal, At, UnderWay, AtGate, Ended, Frame, request
  <2>2. Latches
    BY <1>8, AttemptLatches DEF PlanTerminal
  <2>3. Listening(asked[g]["plan"]) \in Tracks
    BY DEF Listening, Tracks, Watching
  <2>4. \/ track' = track
        \/ \E t \in Tracks : track' = Becomes(track, g, "plan", t)
    BY <1>8, <2>3 DEF PlanTerminal
  <2> QED BY <2>1, <2>2, <2>4, SafeStop
<1>9. CASE Planned(g)
  <2>1. /\ pc[g] = "plan_result" /\ UNCHANGED <<server, track, fault>>
        /\ Frame /\ Latches
    BY <1>9 DEF Planned, At, Frame, Latches, MInv, TypedMore, adapter,
                request, remote
  <2>2. CASE End(g, Unsent)
    <3>1. /\ UnderWay(g) /\ pc[g] # "accepted"
          /\ pc[g] \notin AtGate \cup Ended
      BY <2>1 DEF UnderWay, AtGate, Ended
    <3> QED BY <2>1, <2>2, <3>1, SafeStop
  <2>3. CASE Goto(g, "trajectory")
    <3>1. GoesOn(g, "trajectory")
      BY <2>1, <2>3 DEF GoesOn, UnderWay, Ended, AtGate, Checked
    <3> QED BY <3>1, GoesOnKeeps
  <2> QED BY <1>9, <2>2, <2>3 DEF Planned
<1>10. CASE AdmitTrajectory(g)
  <2>1. GoesOn(g, "admission")
    BY <1>10 DEF AdmitTrajectory, Passes, At, GoesOn, UnderWay, Ended, AtGate,
                Checked, Frame, Latches, MInv, TypedMore, adapter, request,
                remote
  <2> QED BY <2>1, GoesOnKeeps
<1> QED
  BY <1>1, <1>2, <1>3, <1>4, <1>5, <1>6, <1>7, <1>8, <1>9, <1>10
  DEF PlanStep

LEMMA GateStepKeepsMotion ==
  ASSUME EInv, MInv, NEW g \in Goals, GateStep(g)
  PROVE  MInv'
<1>1. CASE AdmitDispatch(g)
  <2>1. /\ pc[g] = "admission" /\ UNCHANGED <<server, track>> /\ Frame
    BY <1>1 DEF AdmitDispatch, At, Frame, request, remote
  <2>2. Latches
    BY <1>1 DEF AdmitDispatch, Latches, MInv, TypedMore
  <2>3. CASE End(g, Unsent)
    <3>1. /\ UnderWay(g) /\ pc[g] # "accepted"
          /\ pc[g] \notin AtGate \cup Ended
      BY <2>1 DEF UnderWay, AtGate, Ended
    <3> QED BY <2>1, <2>2, <2>3, <3>1, SafeStop
  <2>4. CASE Goto(g, "sending")
    <3>1. GoesOn(g, "sending")
      BY <2>1, <2>2, <2>4 DEF GoesOn, UnderWay, Ended, AtGate, Checked
    <3> QED BY <3>1, GoesOnKeeps
  <2> QED BY <1>1, <2>3, <2>4 DEF AdmitDispatch
<1>2. CASE SendGate(g)
  <2>1. Sends(g, "gate", "gate_response")
    BY <1>2 DEF SendGate, Sends, At, Frame, adapter, request
  <2> QED BY <2>1, SendsKeeps
<1>3. CASE SendGateFails(g)
  <2>1. /\ UnderWay(g) /\ pc[g] # "accepted" /\ pc[g] \notin AtGate \cup Ended
        /\ End(g, Unsent) /\ UNCHANGED <<server, track>> /\ Frame
    BY <1>3 DEF SendGateFails, At, UnderWay, AtGate, Ended, Frame, request,
                remote
  <2>2. Latches
    BY <1>3, AttemptLatches DEF SendGateFails
  <2> QED BY <2>1, <2>2, SafeStop
<1>4. CASE GateUnanswered(g)
  <2>1. /\ pc[g] = "gate_response" /\ Goto(g, "finish")
        /\ UNCHANGED server /\ Frame /\ Latches
        /\ track' = [track EXCEPT ![g]["gate"] = "late"]
    BY <1>4 DEF GateUnanswered, GivesUpAnswer, At, End, Frame, Latches, Becomes,
                MInv, TypedMore, adapter, request
  <2>2. /\ track' \in [Goals -> [Kinds -> Tracks]]
        /\ track'[g]["gate"] = "late"
        /\ \A h \in Goals \ {g} : track'[h] = track[h]
    BY <2>1 DEF MInv, TypedMore, Tracks, Watching
  <2>3. Stops(g)
    BY <2>1, <2>2 DEF Stops, UnderWay
  <2> QED BY <2>3, StopsKeeps
<1>5. CASE GateAnswerRaises(g)
  <2>1. /\ UnderWay(g) /\ pc[g] # "accepted" /\ LatchAttempt(g)
        /\ End(g, Unsent) /\ UNCHANGED <<server, track>> /\ Frame
    BY <1>5 DEF GateAnswerRaises, AnswerRaises, At, UnderWay, Frame, request,
                remote
  <2> QED BY <2>1, LatchHolds, LatchedStop
<1>6. CASE GateAnswered(g)
  <2>1. /\ pc[g] = "gate_response" /\ UNCHANGED <<server, track, fault>>
        /\ Frame /\ Latches
    BY <1>6 DEF GateAnswered, Answered, At, Frame, Latches, MInv, TypedMore,
                adapter, request, remote
  <2>2. CASE End(g, Unsent) /\ server[g]["gate"] = "rejected"
    <3>1. /\ UnderWay(g) /\ pc[g] # "accepted" /\ server[g]["gate"] \notin Open
      BY <2>1, <2>2 DEF UnderWay, Open
    <3> QED BY <2>1, <2>2, <3>1, SafeStop
  <2>3. CASE Goto(g, "gate_result")
    <3>1. GoesOn(g, "gate_result")
      BY <2>1, <2>3 DEF GoesOn, UnderWay, Ended, AtGate, Checked
    <3> QED BY <3>1, GoesOnKeeps
  <2> QED BY <1>6, <2>2, <2>3 DEF GateAnswered, Answered
<1>7. CASE GateResultUnavailable(g)
  <2>1. /\ UnderWay(g) /\ pc[g] # "accepted" /\ LatchAttempt(g)
        /\ End(g, Unconfirmed) /\ UNCHANGED <<server, track>> /\ Frame
    BY <1>7 DEF GateResultUnavailable, ResultUnavailable, UnderWay, Frame,
                request
  <2> QED BY <2>1, LatchHolds, LatchedStop
<1>8. CASE GateGivenUp(g)
  <2>1. GoesOn(g, "gate_cancel")
    BY <1>8 DEF GateGivenUp, GivesUpResult, At, GoesOn, UnderWay, Ended, AtGate,
                Checked, Frame, Latches, MInv, TypedMore, adapter, request,
                remote
  <2> QED BY <2>1, GoesOnKeeps
<1>9. CASE CancelGate(g)
  <2>1. /\ pc[g] = "gate_cancel" /\ Goto(g, "gate_terminal")
        /\ UNCHANGED <<server, track>> /\ Frame
    BY <1>9 DEF CancelGate, AskCancel, At, Frame, request
  <2>2. Latches
    BY <1>9, AttemptLatches DEF CancelGate, AskCancel
  <2>3. GoesOn(g, "gate_terminal")
    BY <2>1, <2>2 DEF GoesOn, UnderWay, Ended, AtGate, Checked
  <2> QED BY <2>3, GoesOnKeeps
<1>10. CASE GateTerminal(g)
  <2>1. /\ UnderWay(g) /\ pc[g] # "accepted"
        /\ UNCHANGED <<server, track>> /\ Frame
        /\ \E o : End(g, o)
    BY <1>10 DEF GateTerminal, At, UnderWay, Frame, request, remote
  <2>2. CASE LatchAttempt(g)
    BY <2>1, <2>2, LatchHolds, LatchedStop
  <2>3. CASE server[g]["gate"] \in Over /\ UNCHANGED fault
    <3>1. server[g]["gate"] \notin Open
      BY <2>3 DEF Over, Open
    <3> QED BY <2>1, <2>3, <3>1, AttemptLatches, SafeStop
  <2> QED BY <1>10, <2>2, <2>3 DEF GateTerminal
<1>11. CASE GateMismatch(g)
  <2>1. /\ UnderWay(g) /\ pc[g] # "accepted" /\ fault' = TRUE
        /\ End(g, Unconfirmed) /\ UNCHANGED <<server, track>> /\ Frame
    BY <1>11 DEF GateMismatch, At, UnderWay, Frame, request, remote
  <2> QED BY <2>1, LatchedStop
<1>12. CASE GateDone(g)
  <2>1. /\ UnderWay(g) /\ pc[g] # "accepted" /\ UNCHANGED fault
        /\ UNCHANGED <<server, track>> /\ Frame /\ \E o : End(g, o)
        /\ server[g]["gate"] \notin Open
    BY <1>12 DEF GateDone, At, UnderWay, Frame, adapter, request, remote, Over,
                 Open
  <2> QED BY <2>1, AttemptLatches, SafeStop
<1> QED
  BY <1>1, <1>2, <1>3, <1>4, <1>5, <1>6, <1>7, <1>8, <1>9, <1>10, <1>11,
     <1>12 DEF GateStep

(* A callback left behind forgets a goal only when the goal is over or was *)
(* rejected, and a server takes back no end: nothing more is untracked.    *)
LEMMA Forgets ==
  ASSUME MInv, NEW g \in Goals, NEW k \in Kinds, NEW t \in Tracks,
         track' = Becomes(track, g, k, t),
         t = "none" => server[g][k] \notin Open,
         UNCHANGED <<pc, reserved, active, epoch, wanted, server>>, Latches
  PROVE  MInv'
<1>1. track' \in [Goals -> [Kinds -> Tracks]]
  BY DEF MInv, TypedMore, Becomes
<1>2. ASSUME NEW h \in Goals, Untracked(h)'
      PROVE  Untracked(h)
  BY <1>2 DEF Untracked, MInv, TypedMore, Becomes
<1>3. Beside
  BY <1>1, <1>2 DEF Beside
<1> QED BY <1>3, BesideKeeps

LEMMA LateKeepsMotion ==
  ASSUME MInv, NEW g \in Goals, NEW k \in Kinds,
         LateAnswer(g, k) \/ Late(g, k)
  PROVE  MInv'
<1>0. UNCHANGED <<pc, reserved, active, epoch, wanted, server>>
  BY DEF LateAnswer, Late, LateAnswerRaises, LateCancelRefused, LateTerminal,
         LateTerminalFails, LateWatchdog, request, remote
<1>1. Latches
  BY AttemptLatches DEF LateAnswer, Late, LateAnswerRaises, LateCancelRefused,
     LateTerminal, LateTerminalFails, LateWatchdog
<1>2. CASE LateAnswer(g, k)
  <2>1. CASE server[g][k] = "rejected"
    <3>1. track' = Becomes(track, g, k, "none") /\ "none" \in Tracks
      BY <1>2, <2>1 DEF LateAnswer, Tracks
    <3>2. server[g][k] \notin Open
      BY <2>1 DEF Open
    <3> QED BY <1>0, <1>1, <3>1, <3>2, Forgets
  <2>2. CASE server[g][k] # "rejected"
    <3>1. PICK sent, listening \in BOOLEAN :
            track' = Becomes(track, g, k, IF listening THEN Listening(sent)
                                                       ELSE Deaf(sent))
      BY <1>2, <2>2 DEF LateAnswer
    <3>2. /\ Listening(sent) \in Tracks \ {"none"}
          /\ Deaf(sent) \in Tracks \ {"none"}
      BY DEF Listening, Deaf, Tracks, Watching, Failing
    <3> QED BY <1>0, <1>1, <3>1, <3>2, Forgets
  <2> QED BY <2>1, <2>2
<1>3. CASE LateAnswerRaises(g, k) \/ LateTerminalFails(g, k)
  <2>1. track' = Becomes(track, g, k, "lost") /\ "lost" \in Tracks
    BY <1>3 DEF LateAnswerRaises, LateTerminalFails, Tracks, Failing
  <2> QED BY <1>0, <1>1, <2>1, Forgets
<1>4. CASE LateTerminal(g, k)
  <2>1. track' = Becomes(track, g, k, "none") /\ "none" \in Tracks
        /\ server[g][k] \notin Open
    BY <1>4 DEF LateTerminal, Tracks, Over, Open
  <2> QED BY <1>0, <1>1, <2>1, Forgets
<1>5. CASE LateCancelRefused(g, k) \/ LateWatchdog(g, k)
  <2>1. track' = track
    BY <1>5 DEF LateCancelRefused, LateWatchdog, remote
  <2>2. Beside
    BY <1>0, <1>1, <2>1 DEF Beside, Untracked, MInv, TypedMore
  <2> QED BY <2>2, BesideKeeps
<1> QED BY <1>2, <1>3, <1>4, <1>5 DEF Late

LEMMA ServersKeepMotion ==
  ASSUME EInv, MInv, NEW g \in Goals, NEW k \in Kinds,
         Decide(g, k) \/ Ends(g, k)
  PROVE  MInv'
<1>1. /\ UNCHANGED <<pc, reserved, active, epoch, wanted, track>> /\ Latches
      /\ server[g][k] \in Open
  BY DEF Decide, Ends, Open, Latches, MInv, TypedMore, adapter, request
<1>2. PICK s \in Statuses \ {"none"} : server' = [server EXCEPT ![g][k] = s]
  BY DEF Decide, Ends, Statuses, Over, Open, Becomes
<1>3. \A h \in Goals, j \in Kinds :
        \/ server'[h][j] = server[h][j]
        \/ server[h][j] \in Open /\ server'[h][j] # "none"
  BY <1>1, <1>2 DEF EInv, Typed
<1>4. track' \in [Goals -> [Kinds -> Tracks]]
  BY <1>1 DEF MInv, TypedMore
<1>5. \A h \in Goals :
        server'[h]["gate"] = "none" <=> server[h]["gate"] = "none"
  BY <1>3 DEF Open
<1>6. \A h \in Goals : Untracked(h)' => Untracked(h)
  BY <1>1, <1>3 DEF Untracked
<1>7. Beside
  BY Zenon, <1>1, <1>4, <1>5, <1>6 DEF Beside
<1> QED BY <1>7, BesideKeeps

LEMMA InitMInv == Init => MInv
<1> SUFFICES ASSUME Init PROVE MInv
  OBVIOUS
<1>1. TypedMore
  BY DEF Init, TypedMore, Tracks
<1>2. ASSUME NEW g \in Goals
      PROVE  /\ Alone(g) /\ NotYet(g) /\ Current(g) /\ Latched(g) /\ Cleared(g)
  BY DEF Init, Alone, UnderWay, NotYet, Current, Latched, Cleared, Untracked,
         Checked, Ended, Open
<1> QED BY <1>1, <1>2 DEF MInv

(* Every step keeps what one motion at a time rests on.                    *)
LEMMA NextMInv == EInv /\ MInv /\ [Next]_vars => MInv'
<1> SUFFICES ASSUME EInv, MInv, [Next]_vars PROVE MInv'
  OBVIOUS
<1>1. ASSUME NEW g \in Goals, Accept(g) \/ RequestCancel(g) \/ Execute(g)
      PROVE  MInv'
  BY <1>1, AcceptKeeps, NewAttemptKeeps, FinishKeeps, RequestKeepsMotion,
     PlanStepKeepsMotion, GateStepKeepsMotion DEF Execute
<1>2. ASSUME NEW g \in Goals, LatePlanAnswer(g) \/ LateGateAnswer(g)
      PROVE  MInv'
  BY <1>2, LateKeepsMotion DEF LatePlanAnswer, LateGateAnswer
<1>3. ASSUME NEW g \in Goals, NEW k \in Kinds,
             Late(g, k) \/ Decide(g, k) \/ Ends(g, k)
      PROVE  MInv'
  BY <1>3, LateKeepsMotion, ServersKeepMotion
<1>4. CASE ResetDone
  BY <1>4, ResetDoneKeeps
<1>5. CASE InputFault \/ ResetChecked \/ UNCHANGED vars
  <2>1. UNCHANGED <<pc, reserved, active, epoch, wanted, server, track>>
    BY <1>5 DEF InputFault, ResetChecked, vars, adapter, request, remote
  <2>2. Latches
    BY <1>5 DEF InputFault, ResetChecked, vars, adapter, Latches, MInv,
                TypedMore
  <2>3. Beside
    BY <2>1, <2>2 DEF Beside, Untracked, MInv, TypedMore
  <2> QED BY <2>3, BesideKeeps
<1> QED BY <1>1, <1>2, <1>3, <1>4, <1>5 DEF Next

(* Only SendGate sends a gate goal, its own.                               *)
LEMMA OnlySendGate ==
  ASSUME EInv, [Next]_vars, NEW g \in Goals,
         server[g]["gate"] = "none", server'[g]["gate"] = "sent"
  PROVE  SendGate(g)
<1> DEFINE Serves(h) ==
      SendPlan(h) \/ SendGate(h) \/ \E k \in Kinds : Decide(h, k) \/ Ends(h, k)
<1>1. server' # server
  OBVIOUS
<1>2. ASSUME NEW h \in Goals, PlanStep(h), ~SendPlan(h)
      PROVE  server' = server
  BY <1>2 DEF PlanStep, PlanUnanswered, GivesUpAnswer, PlanAnswerRaises,
     AnswerRaises, PlanAnswered, Answered, PlanResultUnavailable,
     ResultUnavailable, PlanGivenUp, GivesUpResult, CancelPlan, AskCancel,
     PlanTerminal, Planned, AdmitTrajectory, Passes, remote
<1>3. ASSUME NEW h \in Goals, GateStep(h), ~SendGate(h)
      PROVE  server' = server
  BY <1>3 DEF GateStep, AdmitDispatch, SendGateFails, GateUnanswered,
     GivesUpAnswer, GateAnswerRaises, AnswerRaises, GateAnswered, Answered,
     GateResultUnavailable, ResultUnavailable, GateGivenUp, GivesUpResult,
     CancelGate, AskCancel, GateTerminal, GateMismatch, GateDone, remote
<1>4. ASSUME NEW h \in Goals, Execute(h), ~PlanStep(h), ~GateStep(h)
      PROVE  server' = server
  BY <1>4 DEF Execute, NewAttempt, ValidateRequest, ContactPolicyReady, SolveIk,
     Passes, GivesUp, IkRaises, Finish, remote
<1>5. ASSUME NEW h \in Goals,
             \/ Accept(h) \/ RequestCancel(h)
             \/ LatePlanAnswer(h) \/ LateGateAnswer(h)
             \/ \E k \in Kinds : Late(h, k)
      PROVE  server' = server
  BY <1>5 DEF Accept, RequestCancel, LatePlanAnswer, LateGateAnswer, LateAnswer,
     Late, LateAnswerRaises, LateCancelRefused, LateTerminal,
     LateTerminalFails, LateWatchdog, remote
<1>6. CASE InputFault \/ ResetChecked \/ ResetDone \/ UNCHANGED vars
  BY <1>1, <1>6 DEF InputFault, ResetChecked, ResetDone, vars, remote
<1>7. CASE \E h \in Goals : Serves(h)
  <2>1. PICK h \in Goals : Serves(h)
    BY <1>7
  <2>2. CASE SendPlan(h)
    <3>1. server' = [server EXCEPT ![h]["plan"] = "sent"]
      BY <1>1, <2>2 DEF SendPlan, Becomes
    <3> QED BY <3>1 DEF EInv, Typed
  <2>3. CASE SendGate(h)
    <3>1. server' = [server EXCEPT ![h]["gate"] = "sent"]
      BY <2>3 DEF SendGate, Becomes
    <3>2. h = g
      BY <3>1 DEF EInv, Typed
    <3> QED BY <2>3, <3>2
  <2>4. ASSUME NEW k \in Kinds, Decide(h, k) \/ Ends(h, k)
        PROVE  FALSE
    <3>1. PICK s \in Statuses \ {"sent"} :
            server' = [server EXCEPT ![h][k] = s] /\ server[h][k] # "none"
      BY <2>4 DEF Decide, Ends, Statuses, Over, Open, Becomes
    <3> QED BY <3>1 DEF EInv, Typed
  <2> QED BY <2>1, <2>2, <2>3, <2>4
<1> QED
  BY <1>1, <1>2, <1>3, <1>4, <1>5, <1>6, <1>7 DEF Next

(* A goal that may run is watched, or nothing more is taken on until a     *)
(* reset, unless its own late callback failed (_late_gate_cancel_callback).*)
THEOREM SpecNoneForgotten == Spec => []NoneForgotten
<1>1. EInv /\ MInv => NoneForgotten
  BY DEF EInv, Reports, MInv, TypedMore, Latched, Untracked, NoneForgotten,
         Tracks, Kinds
<1> QED
  BY <1>1, InitEInv, NextEInv, InitMInv, NextMInv, PTL DEF Spec

(* No gate goal is sent while another of its epoch may run unwatched, with *)
(* the same exception.                                                     *)
THEOREM SpecOneMotion == Spec => OneMotion
<1> DEFINE Alike(g, h) ==
      /\ server[g]["gate"] = "none" /\ server'[g]["gate"] = "sent"
      /\ h # g /\ wanted[h] = wanted[g] /\ server[h]["gate"] \in Open
      /\ track[h]["gate"] \notin Failing
      => track[h]["gate"] \in Watching
<1>1. EInv /\ MInv /\ [Next]_vars => [\A g, h \in Goals : Alike(g, h)]_vars
  <2> SUFFICES ASSUME EInv, MInv, [Next]_vars, NEW g \in Goals, NEW h \in Goals,
                      server[g]["gate"] = "none", server'[g]["gate"] = "sent",
                      h # g, wanted[h] = wanted[g], server[h]["gate"] \in Open,
                      track[h]["gate"] \notin Failing \cup Watching
               PROVE  FALSE
    OBVIOUS
  <2>1. pc[g] = "sending"
    BY OnlySendGate DEF SendGate, At
  <2>2. ~UnderWay(h)
    BY <2>1 DEF MInv, Alone, UnderWay
  <2>3. track[h]["gate"] = "none"
    BY DEF MInv, TypedMore, Tracks, Kinds
  <2>4. Untracked(h)
    BY <2>2, <2>3 DEF MInv, NotYet, Untracked, UnderWay, AtGate, Ended, Open
  <2> QED BY <2>1, <2>4 DEF MInv, Cleared, Checked
<1> QED
  BY <1>1, InitEInv, NextEInv, InitMInv, NextMInv, PTL DEF Spec, OneMotion

-----------------------------------------------------------------------------
(* No command is sent twice in an epoch.  The commands of the epoch that   *)
(* were sent, or are about to be, are entered; a command on its way is not *)
(* among those sent, so taking it back when it fails forgets no other.     *)
Entered(g) ==
  /\ pc[g] = "sending" \/ server[g]["gate"] # "none"
  /\ wanted[g] = epoch
  => command[g] \in dispatched
Once(g) ==
  pc[g] = "sending" =>
    \A h \in Goals : server[h]["gate"] # "none" /\ wanted[h] = epoch
                       => command[h] # command[g]

DInv == /\ command \in [Goals -> Commands \cup {None}]
        /\ \A g \in Goals : Entered(g) /\ Once(g)

Registry == UNCHANGED <<command, wanted, dispatched, epoch>>

(* A step that sends nothing and admits nothing.                           *)
LEMMA AsideKeeps ==
  ASSUME DInv, Registry,
         \A h \in Goals : pc'[h] = "sending" => pc[h] = "sending",
         \A h \in Goals :
           server'[h]["gate"] # "none" => server[h]["gate"] # "none"
  PROVE  DInv'
BY DEF DInv, Entered, Once, Registry

LEMMA GotoAside ==
  ASSUME EInv, DInv, Registry, NEW g \in Goals, NEW place, place # "sending",
         Goto(g, place), UNCHANGED server
  PROVE  DInv'
<1>1. \A h \in Goals : pc'[h] = "sending" => pc[h] = "sending"
  BY DEF EInv, Typed, Goto
<1> QED BY <1>1, AsideKeeps

LEMMA StayAside ==
  ASSUME DInv, Registry, UNCHANGED <<pc, server>>
  PROVE  DInv'
BY AsideKeeps

LEMMA EndAside ==
  ASSUME EInv, DInv, Registry, NEW g \in Goals, NEW o, End(g, o),
         UNCHANGED server
  PROVE  DInv'
BY GotoAside DEF End

(* The steps that neither send nor admit.                                  *)
LEMMA RequestAside ==
  ASSUME EInv, DInv, NEW g \in Goals,
         \/ RequestCancel(g) \/ NewAttempt(g) \/ ValidateRequest(g)
         \/ ContactPolicyReady(g) \/ SolveIk(g) \/ GivesUp(g) \/ IkRaises(g)
         \/ Finish(g)
  PROVE  DInv'
<1>1. Registry /\ UNCHANGED server
  BY DEF RequestCancel, NewAttempt, ValidateRequest, ContactPolicyReady,
     SolveIk,
     Passes, GivesUp, IkRaises, Finish, Registry, adapter, request, remote
<1>2. \/ UNCHANGED pc \/ End(g, Unsent)
      \/ Goto(g, "validating") \/ Goto(g, "policy") \/ Goto(g, "ik")
      \/ Goto(g, "planning") \/ Goto(g, "done")
  BY DEF RequestCancel, NewAttempt, ValidateRequest, ContactPolicyReady,
     SolveIk,
     Passes, GivesUp, IkRaises, Finish
<1> QED BY <1>1, <1>2, StayAside, EndAside, GotoAside

LEMMA PlanAside ==
  ASSUME EInv, DInv, NEW g \in Goals, PlanStep(g)
  PROVE  DInv'
<1>1. CASE SendPlan(g)
  <2>1. Registry /\ (Goto(g, "plan_response") \/ End(g, Unsent))
    BY <1>1 DEF SendPlan, Registry, request
  <2>2. \A h \in Goals : pc'[h] = "sending" => pc[h] = "sending"
    BY <2>1 DEF EInv, Typed, Goto, End
  <2>3. server' = server \/ server' = [server EXCEPT ![g]["plan"] = "sent"]
    BY <1>1 DEF SendPlan, Becomes
  <2>4. \A h \in Goals :
          server'[h]["gate"] # "none" => server[h]["gate"] # "none"
    BY <2>3 DEF EInv, Typed
  <2> QED BY <2>1, <2>2, <2>4, AsideKeeps
<1>2. CASE \/ PlanUnanswered(g) \/ PlanAnswerRaises(g) \/ PlanAnswered(g)
          \/ PlanResultUnavailable(g)
  <2>1. Registry /\ UNCHANGED server
    BY <1>2 DEF PlanUnanswered, GivesUpAnswer, PlanAnswerRaises, AnswerRaises,
       PlanAnswered, Answered, PlanResultUnavailable, ResultUnavailable,
       Registry, adapter, request, remote
  <2>2. End(g, Unsent) \/ Goto(g, "plan_result")
    BY <1>2 DEF PlanUnanswered, GivesUpAnswer, PlanAnswerRaises, AnswerRaises,
       PlanAnswered, Answered, PlanResultUnavailable, ResultUnavailable
  <2> QED BY <2>1, <2>2, EndAside, GotoAside
<1>3. CASE \/ PlanGivenUp(g) \/ CancelPlan(g) \/ PlanTerminal(g)
          \/ Planned(g) \/ AdmitTrajectory(g)
  <2>1. Registry /\ UNCHANGED server
    BY <1>3 DEF PlanGivenUp, GivesUpResult, CancelPlan, AskCancel, PlanTerminal,
       Planned, AdmitTrajectory, Passes, Registry, adapter, request, remote
  <2>2. \/ End(g, Unsent) \/ Goto(g, "plan_cancel") \/ Goto(g, "plan_terminal")
        \/ Goto(g, "trajectory") \/ Goto(g, "admission")
    BY <1>3 DEF PlanGivenUp, GivesUpResult, CancelPlan, AskCancel, PlanTerminal,
       Planned, AdmitTrajectory, Passes
  <2> QED BY <2>1, <2>2, EndAside, GotoAside
<1> QED BY <1>1, <1>2, <1>3 DEF PlanStep

LEMMA GateAside ==
  ASSUME EInv, DInv, NEW g \in Goals,
         \/ GateUnanswered(g) \/ GateAnswerRaises(g) \/ GateAnswered(g)
         \/ GateResultUnavailable(g) \/ GateGivenUp(g) \/ CancelGate(g)
         \/ GateTerminal(g) \/ GateMismatch(g) \/ GateDone(g)
  PROVE  DInv'
<1>1. CASE \/ GateUnanswered(g) \/ GateAnswerRaises(g) \/ GateAnswered(g)
          \/ GateResultUnavailable(g)
  <2>1. Registry /\ UNCHANGED server
    BY <1>1 DEF GateUnanswered, GivesUpAnswer, GateAnswerRaises, AnswerRaises,
       GateAnswered, Answered, GateResultUnavailable, ResultUnavailable,
       Registry, adapter, request, remote
  <2>2. End(g, Unsent) \/ End(g, Unconfirmed) \/ Goto(g, "gate_result")
    BY <1>1 DEF GateUnanswered, GivesUpAnswer, GateAnswerRaises, AnswerRaises,
       GateAnswered, Answered, GateResultUnavailable, ResultUnavailable
  <2> QED BY <2>1, <2>2, EndAside, GotoAside
<1>2. CASE \/ GateGivenUp(g) \/ CancelGate(g) \/ GateTerminal(g)
          \/ GateMismatch(g) \/ GateDone(g)
  <2>1. Registry /\ UNCHANGED server
    BY <1>2 DEF GateGivenUp, GivesUpResult, CancelGate, AskCancel, GateTerminal,
       GateMismatch, GateDone, Registry, adapter, request, remote
  <2>2. \/ Goto(g, "gate_cancel") \/ Goto(g, "gate_terminal")
        \/ \E o : End(g, o)
    BY <1>2 DEF GateGivenUp, GivesUpResult, CancelGate, AskCancel, GateTerminal,
       GateMismatch, GateDone
  <2> QED BY <2>1, <2>2, EndAside, GotoAside
<1> QED BY <1>1, <1>2

LEMMA LateAside ==
  ASSUME EInv, DInv, NEW g \in Goals, NEW k \in Kinds,
         \/ LateAnswer(g, k) \/ Late(g, k) \/ Decide(g, k) \/ Ends(g, k)
  PROVE  DInv'
<1>1. Registry /\ UNCHANGED pc
  BY DEF LateAnswer, Late, LateAnswerRaises, LateCancelRefused, LateTerminal,
     LateTerminalFails, LateWatchdog, Decide, Ends, Registry, adapter, request
<1>2. CASE LateAnswer(g, k) \/ Late(g, k)
  <2>1. UNCHANGED server
    BY <1>2 DEF LateAnswer, Late, LateAnswerRaises, LateCancelRefused,
       LateTerminal, LateTerminalFails, LateWatchdog, remote
  <2> QED BY <1>1, <2>1, StayAside
<1>3. CASE Decide(g, k) \/ Ends(g, k)
  <2>1. PICK s : server' = [server EXCEPT ![g][k] = s] /\ server[g][k] # "none"
    BY <1>3 DEF Decide, Ends, Becomes
  <2>2. \A h \in Goals :
          server'[h]["gate"] # "none" => server[h]["gate"] # "none"
    BY <2>1 DEF EInv, Typed
  <2> QED BY <1>1, <2>2, AsideKeeps
<1> QED BY <1>2, <1>3

(* A request that is accepted has sent nothing yet.                        *)
LEMMA AcceptEnters ==
  ASSUME EInv, MInv, DInv, NEW g \in Goals, Accept(g)
  PROVE  DInv'
<1>1. /\ pc[g] = "new" /\ pc' = [pc EXCEPT ![g] = "accepted"]
      /\ UNCHANGED <<dispatched, epoch, server>>
  BY DEF Accept, At, Goto, remote
<1>2. PICK c \in Commands, e \in 0..MaxEpoch :
        /\ command' = [command EXCEPT ![g] = c]
        /\ wanted' = [wanted EXCEPT ![g] = e]
  BY DEF Accept, Commands
<1>3. command' \in [Goals -> Commands \cup {None}]
  BY <1>2 DEF DInv
<1>4. /\ pc'[g] = "accepted"
      /\ \A h \in Goals \ {g} : /\ pc'[h] = pc[h] /\ wanted'[h] = wanted[h]
                                /\ command'[h] = command[h]
  BY <1>1, <1>2 DEF EInv, Typed, MInv, TypedMore, DInv
<1>5. server'[g]["gate"] = "none"
  BY <1>1 DEF MInv, NotYet, AtGate, Ended
<1>6. ASSUME NEW h \in Goals
      PROVE  Entered(h)' /\ Once(h)'
  BY <1>1, <1>4, <1>5 DEF DInv, Entered, Once
<1> QED BY <1>3, <1>6 DEF DInv

(* A command is admitted when no request of the epoch has entered it.      *)
LEMMA AdmitEnters ==
  ASSUME EInv, DInv, NEW g \in Goals, AdmitDispatch(g)
  PROVE  DInv'
<1>1. UNCHANGED <<command, wanted, epoch, server>>
  BY DEF AdmitDispatch, request, remote
<1>2. CASE End(g, Unsent) /\ UNCHANGED dispatched
  BY <1>1, <1>2, EndAside DEF Registry
<1>3. CASE /\ command[g] \notin dispatched /\ Goto(g, "sending")
           /\ dispatched' = dispatched \cup {command[g]}
  <2>1. pc'[g] = "sending" /\ \A h \in Goals \ {g} : pc'[h] = pc[h]
    BY <1>3 DEF EInv, Typed, Goto
  <2>2. ASSUME NEW h \in Goals
        PROVE  Entered(h)' /\ Once(h)'
    BY <1>1, <1>3, <2>1 DEF DInv, Entered, Once
  <2> QED BY <1>1, <2>2 DEF DInv
<1> QED BY <1>2, <1>3 DEF AdmitDispatch

(* A command is sent by the one request under way.                         *)
LEMMA SendEnters ==
  ASSUME EInv, MInv, DInv, NEW g \in Goals, SendGate(g)
  PROVE  DInv'
<1>1. /\ pc[g] = "sending" /\ pc' = [pc EXCEPT ![g] = "gate_response"]
      /\ server' = [server EXCEPT ![g]["gate"] = "sent"]
      /\ UNCHANGED <<command, wanted, dispatched, epoch>>
  BY DEF SendGate, At, Goto, Becomes, adapter, request
<1>2. \A h \in Goals : pc'[h] # "sending"
  BY <1>1 DEF EInv, Typed, MInv, Alone, UnderWay
<1>3. \A h \in Goals \ {g} : server'[h] = server[h]
  BY <1>1 DEF EInv, Typed
<1>4. ASSUME NEW h \in Goals
      PROVE  Entered(h)' /\ Once(h)'
  BY <1>1, <1>2, <1>3 DEF DInv, Entered, Once
<1> QED BY <1>1, <1>4 DEF DInv

(* The command taken back is nobody else's.                                *)
LEMMA FailureEnters ==
  ASSUME EInv, MInv, DInv, NEW g \in Goals, SendGateFails(g)
  PROVE  DInv'
<1>1. /\ pc[g] = "sending" /\ pc' = [pc EXCEPT ![g] = "finish"]
      /\ dispatched' = dispatched \ {command[g]}
      /\ UNCHANGED <<command, wanted, epoch, server>>
  BY DEF SendGateFails, At, Goto, End, request, remote
<1>2. \A h \in Goals : pc'[h] # "sending"
  BY <1>1 DEF EInv, Typed, MInv, Alone, UnderWay
<1>3. ASSUME NEW h \in Goals
      PROVE  Entered(h)' /\ Once(h)'
  BY <1>1, <1>2 DEF DInv, Entered, Once
<1> QED BY <1>1, <1>3 DEF DInv

(* A reset leaves no command of the new epoch sent.                        *)
LEMMA ResetEnters ==
  ASSUME MInv, DInv, ResetDone
  PROVE  DInv'
<1>1. epoch' = epoch + 1 /\ UNCHANGED <<pc, command, wanted, server>>
  BY DEF ResetDone, request, remote
<1>2. \A h \in Goals :
        pc[h] \in Checked \/ server[h]["gate"] # "none" => wanted[h] # epoch'
  BY <1>1 DEF MInv, TypedMore, Current
<1>3. ASSUME NEW h \in Goals
      PROVE  Entered(h)' /\ Once(h)'
  BY <1>1, <1>2 DEF Entered, Once, Checked
<1> QED BY <1>1, <1>3 DEF DInv

LEMMA InitDInv == Init => DInv
BY DEF Init, DInv, Entered, Once

(* Every step keeps what a single dispatch rests on.                       *)
LEMMA NextDInv == EInv /\ MInv /\ DInv /\ [Next]_vars => DInv'
<1> SUFFICES ASSUME EInv, MInv, DInv, [Next]_vars PROVE DInv'
  OBVIOUS
<1>1. ASSUME NEW g \in Goals, GateStep(g)
      PROVE  DInv'
  BY <1>1, AdmitEnters, SendEnters, FailureEnters, GateAside DEF GateStep
<1>2. ASSUME NEW g \in Goals, Accept(g) \/ RequestCancel(g) \/ Execute(g)
      PROVE  DInv'
  BY <1>1, <1>2, AcceptEnters, RequestAside, PlanAside DEF Execute
<1>3. ASSUME NEW g \in Goals, LatePlanAnswer(g) \/ LateGateAnswer(g)
      PROVE  DInv'
  BY <1>3, LateAside DEF LatePlanAnswer, LateGateAnswer
<1>4. ASSUME NEW g \in Goals, NEW k \in Kinds,
             Late(g, k) \/ Decide(g, k) \/ Ends(g, k)
      PROVE  DInv'
  BY <1>4, LateAside
<1>5. CASE ResetDone
  BY <1>5, ResetEnters
<1>6. CASE InputFault \/ ResetChecked \/ UNCHANGED vars
  <2>1. Registry /\ UNCHANGED <<pc, server>>
    BY <1>6 DEF InputFault, ResetChecked, vars, adapter, request, remote,
       Registry
  <2> QED BY <2>1, StayAside
<1> QED BY <1>2, <1>3, <1>4, <1>5, <1>6 DEF Next

(* No command is sent to the gate twice in an epoch.                       *)
THEOREM SpecDispatchedOnce == Spec => DispatchedOnce
<1> DEFINE Again(g, h) ==
      /\ server[g]["gate"] = "none" /\ server'[g]["gate"] = "sent"
      /\ h # g /\ command[h] = command[g]
      /\ wanted[h] = wanted[g] /\ wanted[g] = epoch
      => server[h]["gate"] = "none"
<1>1. EInv /\ MInv /\ DInv /\ [Next]_vars
        => [\A g, h \in Goals : Again(g, h)]_vars
  <2> SUFFICES ASSUME EInv, DInv, [Next]_vars, NEW g \in Goals, NEW h \in Goals,
                      server[g]["gate"] = "none", server'[g]["gate"] = "sent",
                      h # g, command[h] = command[g],
                      wanted[h] = wanted[g], wanted[g] = epoch
               PROVE  server[h]["gate"] = "none"
    OBVIOUS
  <2>1. pc[g] = "sending"
    BY OnlySendGate DEF SendGate, At
  <2> QED BY <2>1 DEF DInv, Once
<1> QED
  BY <1>1, InitEInv, NextEInv, InitMInv, NextMInv, InitDInv, NextDInv, PTL
  DEF Spec, DispatchedOnce

(***************************************************************************)
(* The planning scene loader.                                              *)
(***************************************************************************)
Newest(topic) == topic[Len(topic)]

Shaped ==
  /\ include \in BOOLEAN /\ allow \in BOOLEAN
  /\ desired \in BOOLEAN \cup {Nothing}
  /\ objects \in Seq(BOOLEAN) /\ diffs \in Seq(BOOLEAN)
  /\ scene = [table |-> scene.table, cube |-> scene.cube,
              pads |-> scene.pads]
  /\ pending # Nothing =>
       pending = [epoch |-> pending.epoch, answer |-> pending.answer,
                  sound |-> pending.sound]

(* Without a matrix of its own the loader has published no exemption.      *)
Unexempt ==
  desired = Nothing => allow = FALSE /\ diffs = <<>> /\ scene.pads = FALSE

(* While the scene is reported ready, or a query is under way, the newest  *)
(* message on each topic is that of the present policy.                    *)
UpToDate ==
  ready \/ pending # Nothing =>
    /\ objects # <<>> => Newest(objects) = include
    /\ diffs # <<>> => Newest(diffs) = desired

(* The scene is the one asked for, as far as nothing is under way to it.   *)
Shown ==
  /\ objects = <<>> => scene.table /\ scene.cube = include
  /\ Aligned /\ diffs = <<>> => scene.pads = allow

(* What was verified, or will be by the answer at hand, is so.             *)
Justified ==
  /\ ready /\ sound => Shown
  /\ QueryDone /\ pending.sound /\ Verified => Shown

Announced ==
  told.ready => ready /\ told.include = include /\ told.allow = allow

LInv == Shaped /\ Unexempt /\ UpToDate /\ Justified /\ Announced

LEMMA SentLast ==
  ASSUME NEW S, NEW topic \in Seq(S), NEW m \in S
  PROVE  /\ Sent(topic, m) \in Seq(S)
         /\ Sent(topic, m) # <<>>
         /\ Newest(Sent(topic, m)) = m
<1> DEFINE all == Append(topic, m)
<1>1. all \in Seq(S) /\ Len(all) = Len(topic) + 1 /\ Len(topic) \in Nat
  OBVIOUS
<1>2. all[Len(all)] = m
  BY <1>1
<1>3. Sent(topic, m) = IF Len(all) > Depth THEN Tail(all) ELSE all
  BY DEF Sent
<1> HIDE DEF all
<1>4. CASE Len(all) > Depth
  <2>1. Len(topic) > 0
    BY LoaderConstants, <1>1, <1>4
  <2>2. all # <<>>
    BY <1>1
  <2>3. /\ Tail(all) \in Seq(S) /\ Len(Tail(all)) = Len(all) - 1
        /\ \A i \in 1..Len(Tail(all)) : Tail(all)[i] = all[i + 1]
    BY <1>1, <2>2, HeadTailProperties
  <2>4. Len(Tail(all)) = Len(topic) /\ Tail(all)[Len(topic)] = all[Len(all)]
    BY <1>1, <2>1, <2>3
  <2>5. Tail(all) # <<>>
    BY <2>1, <2>4
  <2> QED BY <1>2, <1>3, <1>4, <2>3, <2>4, <2>5 DEF Newest
<1>5. CASE ~(Len(all) > Depth)
  <2>1. all # <<>>
    BY <1>1
  <2> QED BY <1>1, <1>2, <1>3, <1>5, <2>1 DEF Newest
<1> QED BY <1>4, <1>5

(* Delivering a message leaves the newest one, or nothing.                 *)
LEMMA Delivered ==
  ASSUME NEW S, NEW topic \in Seq(S), topic # <<>>
  PROVE  /\ Tail(topic) \in Seq(S)
         /\ Tail(topic) # <<>> => Newest(Tail(topic)) = Newest(topic)
         /\ Tail(topic) = <<>> => Head(topic) = Newest(topic)
         /\ Head(topic) \in S
<1> DEFINE rest == Tail(topic)
<1>1. /\ Head(topic) \in S /\ rest \in Seq(S) /\ Len(rest) = Len(topic) - 1
      /\ \A i \in 1..Len(rest) : rest[i] = topic[i + 1]
  BY HeadTailProperties
<1>2. Len(topic) \in Nat /\ Head(topic) = topic[1]
  OBVIOUS
<1> HIDE DEF rest
<1>3. Len(rest) \in Nat
  BY <1>1
<1>4. ASSUME rest # <<>>
      PROVE  Newest(rest) = Newest(topic)
  <2>1. Len(rest) > 0
    BY <1>1, <1>4
  <2> QED BY <1>1, <1>2, <1>3, <2>1 DEF Newest
<1>5. ASSUME rest = <<>>
      PROVE  Head(topic) = Newest(topic)
  <2>1. Len(rest) = 0
    BY <1>5
  <2>2. Len(topic) = 1
    BY <1>1, <1>2, <2>1
  <2> QED BY <1>2, <2>2 DEF Newest
<1> QED BY <1>1, <1>4, <1>5 DEF rest

LEMMA Truths == TRUE \in BOOLEAN /\ FALSE \in BOOLEAN
OBVIOUS

(* A scene that is not vouched for, with no query under way, needs nothing.*)
LEMMA Withdrawn ==
  ASSUME ~ready', pending' = Nothing, ~told'.ready
  PROVE  UpToDate' /\ Justified' /\ Announced'
BY DEF UpToDate, Justified, Announced, QueryDone

LEMMA LoaderStarts ==
  ASSUME LoaderInit
  PROVE  LInv
<1>1. Shaped
  <2>1. objects \in Seq(BOOLEAN) /\ diffs \in Seq(BOOLEAN)
    BY EmptySeq DEF LoaderInit
  <2>2. include \in BOOLEAN /\ allow \in BOOLEAN
    BY Truths, Zenon DEF LoaderInit
  <2>3. scene = [table |-> scene.table, cube |-> scene.cube,
                 pads |-> scene.pads]
    BY DEF LoaderInit, Empty
  <2> QED BY <2>1, <2>2, <2>3 DEF Shaped, LoaderInit
<1>2. Unexempt
  BY DEF Unexempt, LoaderInit, Empty
<1>3. UpToDate /\ Justified /\ Announced
  BY DEF UpToDate, Justified, Announced, LoaderInit, QueryDone
<1> QED BY <1>1, <1>2, <1>3 DEF LInv

(* The policy, the scene and the topics are as they were, and the query is *)
(* finished, dropped or left alone.                                        *)
LEMMA Quiet ==
  ASSUME LInv,
         UNCHANGED <<include, allow, desired, scene, objects, diffs>>,
         pending' \in {pending, Nothing},
         \/ ready' = ready /\ sound' = sound
         \/ ready' = FALSE
         \/ QueryDone /\ Finished,
         \/ told' = [ready |-> ready', include |-> include, allow |-> allow]
         \/ told' = [ready |-> FALSE, include |-> include, allow |-> allow]
         \/ told' = told /\ ready' = ready
  PROVE  LInv'
<1>1. Shaped'
  BY DEF LInv, Shaped
<1>2. Unexempt'
  BY DEF LInv, Unexempt
<1>3. UpToDate'
  BY DEF LInv, UpToDate, QueryDone
<1>4. Shown' = Shown
  BY DEF Shown, Aligned
<1>5. ready' /\ sound' => Shown
  BY DEF LInv, Justified, Finished
<1>6. QueryDone' /\ pending.sound' /\ Verified' => Shown
  BY DEF LInv, Justified, QueryDone, Verified,
         ObjectsMatch, PadsMatch
<1>7. Justified'
  BY <1>4, <1>5, <1>6 DEF Justified
<1>8. Announced'
  BY DEF LInv, Announced
<1> QED BY <1>1, <1>2, <1>3, <1>7, <1>8 DEF LInv

LEMMA LoaderStutters ==
  ASSUME LInv, UNCHANGED loaderVars
  PROVE  LInv'
<1>1. /\ UNCHANGED <<include, allow, desired, scene, objects, diffs>>
      /\ pending' = pending /\ ready' = ready /\ sound' = sound
      /\ told' = told
  BY DEF loaderVars, loader, moveit
<1> QED BY <1>1, Quiet

LEMMA TicksKeep ==
  ASSUME LInv,
         \/ TickRollback
         \/ TickFault
         \/ FinishQuery
         \/ TickWaiting
         \/ RetryTime
         \/ Reset
         \/ QueryTimeout
         \/ OptionalCubeSame
         \/ TargetPadsSame
  PROVE  LInv'
<1> USE DEF loader, moveit, Publish
<1>1. CASE TickRollback
  BY <1>1, Quiet DEF TickRollback
<1>2. CASE TickFault
  BY <1>2, Quiet DEF TickFault
<1>3. CASE FinishQuery
  BY <1>3, Quiet DEF FinishQuery, Finished
<1>4. CASE TickWaiting
  BY <1>4, Quiet DEF TickWaiting
<1>5. CASE RetryTime
  BY <1>5, Quiet DEF RetryTime
<1>6. CASE Reset
  BY <1>6, Quiet DEF Reset
<1>7. CASE QueryTimeout
  BY <1>7, Quiet DEF QueryTimeout
<1>8. CASE OptionalCubeSame
  BY <1>8, Quiet DEF OptionalCubeSame, Finished
<1>9. CASE TargetPadsSame
  BY <1>9, Quiet DEF TargetPadsSame, Finished
<1> QED BY <1>1, <1>2, <1>3, <1>4, <1>5, <1>6, <1>7, <1>8, <1>9

(* Publishing again puts the present policy last on each topic.            *)
LEMMA Republished ==
  ASSUME LInv, Republish
  PROVE  /\ objects' \in Seq(BOOLEAN) /\ diffs' \in Seq(BOOLEAN)
         /\ ready => objects' = objects /\ diffs' = diffs
         /\ ~ready => objects' # <<>> /\ Newest(objects') = include
         /\ ~ready /\ desired # Nothing =>
              diffs' # <<>> /\ Newest(diffs') = desired
         /\ desired = Nothing => diffs' = diffs
<1>1. /\ objects \in Seq(BOOLEAN) /\ diffs \in Seq(BOOLEAN)
      /\ include \in BOOLEAN
  BY DEF LInv, Shaped
<1>2. CASE ready
  BY <1>1, <1>2 DEF Republish
<1>3. CASE ~ready
  <2>1. /\ objects' = Sent(objects, include)
        /\ desired = Nothing => diffs' = diffs
        /\ desired # Nothing => diffs' = Sent(diffs, desired)
    BY <1>3 DEF Republish
  <2>2. /\ objects' \in Seq(BOOLEAN)
        /\ objects' # <<>> /\ Newest(objects') = include
    BY <1>1, <2>1, SentLast
  <2>3. ASSUME desired # Nothing
        PROVE  /\ diffs' \in Seq(BOOLEAN)
               /\ diffs' # <<>> /\ Newest(diffs') = desired
    <3>1. desired \in BOOLEAN
      BY <2>3 DEF LInv, Shaped
    <3> QED BY <1>1, <2>1, <2>3, <3>1, SentLast
  <2> QED BY <1>1, <1>3, <2>1, <2>2, <2>3
<1> QED BY <1>2, <1>3

LEMMA SendQueryKeeps ==
  ASSUME LInv, SendQuery
  PROVE  LInv'
<1> USE DEF loader, SendQuery
<1>1. /\ objects' \in Seq(BOOLEAN) /\ diffs' \in Seq(BOOLEAN)
      /\ ready => objects' = objects /\ diffs' = diffs
      /\ ~ready => objects' # <<>> /\ Newest(objects') = include
      /\ ~ready /\ desired # Nothing =>
           diffs' # <<>> /\ Newest(diffs') = desired
      /\ desired = Nothing => diffs' = diffs
  BY Republished
<1>2. Shaped'
  BY <1>1 DEF LInv, Shaped
<1>3. Unexempt'
  BY <1>1 DEF LInv, Unexempt
<1>4. UpToDate'
  <2>1. CASE ready
    BY <1>1, <2>1 DEF LInv, UpToDate, Newest
  <2>2. CASE ~ready
    BY <1>1, <2>2 DEF LInv, Unexempt, UpToDate, Newest
  <2> QED BY <2>1, <2>2
<1>5. Justified'
  <2>1. ~QueryDone'
    BY DEF QueryDone
  <2>2. ready /\ sound => Shown'
    BY <1>1 DEF LInv, Justified, Shown, Aligned
  <2> QED BY <2>1, <2>2 DEF Justified
<1>6. Announced'
  BY DEF LInv, Announced, Publish
<1> QED BY <1>2, <1>3, <1>4, <1>5, <1>6 DEF LInv

LEMMA ServiceAbsentKeeps ==
  ASSUME LInv, ServiceAbsent
  PROVE  LInv'
<1> USE DEF loader, ServiceAbsent
<1>1. /\ objects' \in Seq(BOOLEAN) /\ diffs' \in Seq(BOOLEAN)
      /\ desired = Nothing => diffs' = diffs
  BY Republished
<1>2. Shaped'
  BY <1>1 DEF LInv, Shaped
<1>3. Unexempt'
  BY <1>1 DEF LInv, Unexempt
<1>4. UpToDate' /\ Justified' /\ Announced'
  BY Withdrawn DEF Publish
<1> QED BY <1>2, <1>3, <1>4 DEF LInv

LEMMA OptionalCubeKeeps ==
  ASSUME LInv, OptionalCube
  PROVE  LInv'
<1>1. /\ pending' = Nothing /\ ready' = FALSE /\ allow' = FALSE
      /\ UNCHANGED <<scene, objects, diffs>>
  BY DEF OptionalCube, moveit
<1>2. told'.ready = FALSE
  <2>1. \E i, a : Publish(FALSE, i, a)
    BY Zenon DEF OptionalCube
  <2> QED BY <2>1 DEF Publish
<1>3. include' = include \/ include' = ~include
  BY Zenon DEF OptionalCube
<1>4. desired' = desired \/ desired' = FALSE
  BY DEF OptionalCube
<1>5. Shaped'
  <2>1. allow' \in BOOLEAN
    BY <1>1, Truths
  <2>2. include' \in BOOLEAN
    <3>1. include \in BOOLEAN
      BY DEF LInv, Shaped
    <3> QED BY <1>3, <3>1, Zenon
  <2>3. desired' \in BOOLEAN \cup {Nothing}
    <3>1. desired \in BOOLEAN \cup {Nothing}
      BY DEF LInv, Shaped
    <3> QED BY <1>4, <3>1, Truths
  <2> QED BY <1>1, <2>1, <2>2, <2>3 DEF LInv, Shaped
<1>6. Unexempt'
  <2>1. FALSE # Nothing
    BY LoaderConstants, Truths
  <2> QED BY <1>1, <1>4, <2>1 DEF LInv, Unexempt
<1>7. UpToDate' /\ Justified' /\ Announced'
  BY <1>1, <1>2, Withdrawn
<1> QED BY <1>5, <1>6, <1>7 DEF LInv

LEMMA TargetPadsKeeps ==
  ASSUME LInv, TargetPads
  PROVE  LInv'
<1>1. /\ pending' = Nothing /\ ready' = FALSE /\ told'.ready = FALSE
      /\ allow' = ~allow /\ desired' = allow'
      /\ UNCHANGED <<include, scene, objects>>
      /\ diffs' = Sent(diffs, allow')
  BY DEF TargetPads, Publish
<1>2. allow' \in BOOLEAN
  BY <1>1, Zenon
<1>3. diffs' \in Seq(BOOLEAN)
  <2>1. diffs \in Seq(BOOLEAN)
    BY DEF LInv, Shaped
  <2> QED BY <1>1, <1>2, <2>1, SentLast
<1>4. Shaped'
  BY <1>1, <1>2, <1>3 DEF LInv, Shaped
<1>5. Unexempt'
  <2>1. desired' # Nothing
    BY LoaderConstants, <1>1, <1>2
  <2> QED BY <2>1 DEF Unexempt
<1>6. UpToDate' /\ Justified' /\ Announced'
  BY <1>1, Withdrawn
<1> QED BY <1>4, <1>5, <1>6 DEF LInv

(* A message that is the last on its topic brings the scene to the policy. *)
LEMMA ApplyObjectsKeeps ==
  ASSUME LInv, ApplyObjects
  PROVE  LInv'
<1> USE DEF ApplyObjects, loader
<1>1. /\ objects' \in Seq(BOOLEAN)
      /\ objects' # <<>> => Newest(objects') = Newest(objects)
      /\ objects' = <<>> => Head(objects) = Newest(objects)
  BY Delivered DEF LInv, Shaped
<1>2. /\ scene' = [table |-> TRUE, cube |-> Head(objects),
                   pads |-> scene.pads]
      /\ scene'.pads = scene.pads
  BY DEF LInv, Shaped
<1>3. Shaped'
  BY <1>1, <1>2 DEF LInv, Shaped
<1>4. Unexempt'
  BY <1>2 DEF LInv, Unexempt
<1>5. UpToDate'
  BY <1>1 DEF LInv, UpToDate, Newest
<1>6. ready \/ pending # Nothing => (Shown => Shown')
  BY <1>1, <1>2 DEF LInv, UpToDate, Shown, Aligned
<1>7. Justified'
  BY <1>6 DEF LInv, Justified, QueryDone, Verified,
              ObjectsMatch, PadsMatch
<1>8. Announced'
  BY DEF LInv, Announced
<1> QED BY <1>3, <1>4, <1>5, <1>7, <1>8 DEF LInv

LEMMA ApplyDiffKeeps ==
  ASSUME LInv, ApplyDiff
  PROVE  LInv'
<1> USE DEF ApplyDiff, loader
<1>1. /\ diffs' \in Seq(BOOLEAN)
      /\ diffs' # <<>> => Newest(diffs') = Newest(diffs)
      /\ diffs' = <<>> => Head(diffs) = Newest(diffs)
  BY Delivered DEF LInv, Shaped
<1>2. /\ scene' = [table |-> scene.table, cube |-> scene.cube,
                   pads |-> Head(diffs)]
      /\ scene'.table = scene.table /\ scene'.cube = scene.cube
      /\ scene'.pads = Head(diffs)
  BY DEF LInv, Shaped
<1>3. Shaped'
  BY <1>1, <1>2 DEF LInv, Shaped
<1>4. Unexempt'
  BY DEF LInv, Unexempt
<1>5. UpToDate'
  BY <1>1 DEF LInv, UpToDate, Newest
<1>6. ready \/ pending # Nothing => (Shown => Shown')
  <2>1. desired # Nothing
    BY DEF LInv, Unexempt
  <2> QED BY <1>1, <1>2, <2>1 DEF LInv, UpToDate, Shown, Aligned
<1>7. Justified'
  BY <1>6 DEF LInv, Justified, QueryDone, Verified,
              ObjectsMatch, PadsMatch
<1>8. Announced'
  BY DEF LInv, Announced
<1> QED BY <1>3, <1>4, <1>5, <1>7, <1>8 DEF LInv

(* An answer that matches the policy shows the scene, unless a message     *)
(* still under way will: that one is of the present policy (UpToDate).     *)
LEMMA AnswerKeeps ==
  ASSUME LInv, Answer
  PROVE  LInv'
<1> USE DEF loader, moveit
<1>1. UNCHANGED <<include, allow, desired, ready, told, sound, scene,
                  objects, diffs>>
  BY DEF Answer
<1>2. \E answer : /\ pending' = [pending EXCEPT !.answer = answer]
                  /\ answer \in {scene, [scene EXCEPT !.pads = Bad]}
  BY DEF Answer
<1>3. PICK answer : /\ pending' = [pending EXCEPT !.answer = answer]
                    /\ answer \in {scene, [scene EXCEPT !.pads = Bad]}
  BY <1>2
<1>4. pending # Nothing
  BY DEF Answer
<1>5. pending' = [epoch |-> pending.epoch, answer |-> answer,
                  sound |-> pending.sound]
  BY <1>3, <1>4 DEF LInv, Shaped
<1>6. Shaped'
  BY <1>1, <1>5 DEF LInv, Shaped
<1>7. Unexempt' /\ UpToDate' /\ Announced'
  BY <1>1, <1>4 DEF LInv, Unexempt, UpToDate, Announced, Newest
<1>8. Verified' => Shown'
  <2> SUFFICES ASSUME Verified' PROVE Shown'
    OBVIOUS
  <2>1. answer.table /\ answer.cube = include /\ answer.pads = allow
    BY <1>1, <1>5 DEF Verified, ObjectsMatch, PadsMatch
  <2>2. answer = scene
    <3>1. [scene EXCEPT !.pads = Bad].pads = Bad
      BY DEF LInv, Shaped
    <3>2. allow # Bad
      BY LoaderConstants DEF LInv, Shaped
    <3> QED BY <1>3, <2>1, <3>1, <3>2
  <2> QED BY <1>1, <2>1, <2>2 DEF Shown, Aligned
<1>9. Justified'
  <2>1. ready /\ sound => Shown'
    BY <1>1 DEF LInv, Justified, Shown, Aligned
  <2> QED BY <1>1, <1>8, <2>1 DEF Justified
<1> QED BY <1>6, <1>7, <1>9 DEF LInv

LEMMA RestartKeeps ==
  ASSUME LInv, Restart
  PROVE  LInv'
<1> USE DEF loader
<1>1. /\ UNCHANGED <<include, allow, desired, ready, told>>
      /\ scene' = [table |-> FALSE, cube |-> FALSE, pads |-> FALSE]
      /\ objects' = <<>> /\ diffs' = <<>> /\ sound' = FALSE
      /\ pending' = IF QueryDone
                      THEN [pending EXCEPT !.sound = FALSE] ELSE pending
  BY DEF Restart, Empty
<1>2. QueryDone =>
        pending' = [epoch |-> pending.epoch, answer |-> pending.answer,
                    sound |-> FALSE]
  BY <1>1 DEF LInv, Shaped, QueryDone
<1>3. Shaped'
  <2>1. objects' \in Seq(BOOLEAN) /\ diffs' \in Seq(BOOLEAN)
    BY <1>1, EmptySeq
  <2> QED BY <1>1, <1>2, <2>1 DEF LInv, Shaped
<1>4. Unexempt'
  BY <1>1 DEF LInv, Unexempt
<1>5. UpToDate' /\ Announced'
  BY <1>1 DEF LInv, UpToDate, Announced
<1>6. Justified'
  <2>1. QueryDone' => ~pending'.sound
    BY <1>1, <1>2 DEF QueryDone
  <2> QED BY <1>1, <2>1 DEF Justified
<1> QED BY <1>3, <1>4, <1>5, <1>6 DEF LInv

LEMMA LoaderStep ==
  ASSUME LInv, [LoaderNext]_loaderVars
  PROVE  LInv'
<1>1. CASE UNCHANGED loaderVars
  BY <1>1, LoaderStutters
<1>2. CASE LoaderNext
  BY <1>2, TicksKeep, SendQueryKeeps, ServiceAbsentKeeps, OptionalCubeKeeps,
     TargetPadsKeeps, ApplyObjectsKeeps, ApplyDiffKeeps, AnswerKeeps,
     RestartKeeps DEF LoaderNext, Tick
<1> QED BY <1>1, <1>2

LEMMA LoaderSettled == LInv => SettledIsTrue
BY DEF LInv, Justified, Announced, Shown, SettledIsTrue

(* Ready is not said of a scene that a message still under way could yet   *)
(* change: once the topics are empty, MoveIt's scene is the one the policy *)
(* asks for, whatever was lost, restarted, reset or asked for meanwhile.   *)
THEOREM ReadyIsSettled == LoaderSpec => []SettledIsTrue
<1>1. LoaderInit => LInv
  BY LoaderStarts
<1>2. LInv /\ [LoaderNext]_loaderVars => LInv'
  BY LoaderStep
<1> QED BY <1>1, <1>2, LoaderSettled, PTL DEF LoaderSpec

=============================================================================
