------------------------- MODULE GraspSequenceProofs -------------------------
(***************************************************************************)
(* Proofs about GraspSequence, for every set of tasks, every timeout and   *)
(* every bound on time and epochs.  The inductive invariant says what the  *)
(* controller's own record (active, the stop evidence) knows of the        *)
(* downstream motion, and which stages lie behind and ahead of it.         *)
(***************************************************************************)
EXTENDS GraspSequence, TLAPS

USE DEF Stages, Commands

(* What a stop may rely on: live commands are only the active one once     *)
(* stop_all was confirmed, and not that one once its end was proved.       *)
StopEvidence ==
  phase = "SAFE_STOP" =>
    /\ recoveryRequired = ~(cancelTerminalConfirmed /\ stopAllTerminalConfirmed)
    /\ stopAllTerminalConfirmed => live \subseteq ActiveCommands
    /\ cancelTerminalConfirmed => live \cap ActiveCommands = {}

(* The running stage: everything before it succeeded, nothing after it was *)
(* submitted.                                                              *)
Progress ==
  phase \in Busy =>
    \E s \in Stages :
      /\ task \in Task /\ active \in Active
      /\ active.cmd = <<task.id, s>>
      /\ \A r \in Stages : r < s => <<task.id, r>> \in succeeded
      /\ \A r \in Stages : r > s => <<task.id, r>> \notin issued

Resting == phase \in {"IDLE", "COMPLETE"} => active = None
UsedIds == \A c \in issued : c[1] \in usedTaskIds

IInv ==
  /\ TypeOK
  /\ OnlyActiveMoves
  /\ StopEvidence
  /\ Progress
  /\ Resting
  /\ UsedIds
  /\ StageGated
  /\ CompleteIsDone

LEMMA InitIInv == Init => IInv
<1> SUFFICES ASSUME Init PROVE IInv
  OBVIOUS
<1> USE DEF Init
<1>0. 0 \in Epochs
  BY ConstantsOK DEF Epochs
<1>1. TypeOK
  BY <1>0 DEF TypeOK, Phases
<1>2. OnlyActiveMoves /\ Resting /\ UsedIds /\ StageGated
  BY DEF OnlyActiveMoves, Resting, UsedIds, StageGated
<1>3. StopEvidence /\ Progress /\ CompleteIsDone
  BY DEF StopEvidence, Progress, CompleteIsDone, Busy, PlanPhases, ExecPhases
<1> QED
  BY <1>1, <1>2, <1>3 DEF IInv

(* The next value of the clock watermark is a clock value.                 *)
LEMMA NowAfterType ==
  ASSUME TypeOK, NEW now \in Nows
  PROVE  NowAfter(now) \in Times \cup {-1}
BY DEF TypeOK, NowAfter, Nows

(* What every path through _fail_closed establishes, whatever the calling  *)
(* method made of the active command and of the downstream motion.         *)
LEMMA FailClosedEffect ==
  ASSUME TypeOK, NEW now \in Nows, NEW fault \in BOOLEAN
  PROVE  \A act \in Active \cup {None}, lv \in SUBSET Commands :
           FailClosed(now, fault, act, lv) =>
             /\ phase' = "SAFE_STOP"
             /\ active' = act
             /\ live' \subseteq lv
             /\ lastNow' \in Times \cup {-1}
             /\ clockFault' \in BOOLEAN
             /\ recoveryRequired' \in BOOLEAN
             /\ cancelTerminalConfirmed' \in BOOLEAN
             /\ stopAllTerminalConfirmed' \in BOOLEAN
             /\ outcome' = "stopped"
             /\ StopEvidence'
<1> SUFFICES ASSUME NEW act \in Active \cup {None}, NEW lv \in SUBSET Commands,
                    FailClosed(now, fault, act, lv)
             PROVE  /\ phase' = "SAFE_STOP"
                    /\ active' = act
                    /\ live' \subseteq lv
                    /\ lastNow' \in Times \cup {-1}
                    /\ clockFault' \in BOOLEAN
                    /\ recoveryRequired' \in BOOLEAN
                    /\ cancelTerminalConfirmed' \in BOOLEAN
                    /\ stopAllTerminalConfirmed' \in BOOLEAN
                    /\ outcome' = "stopped"
                    /\ StopEvidence'
  OBVIOUS
<1> DEFINE mine == IF act = None THEN {} ELSE {act.cmd}
<1>1. PICK cancel \in CancelReplies, stopOk \in BOOLEAN :
        LET cancelOk == act = None \/ cancel = "terminal_confirmed"
            left     == IF cancelOk THEN lv \ mine ELSE lv
        IN /\ phase' = "SAFE_STOP"
           /\ lastNow' = NowAfter(now)
           /\ clockFault' = (clockFault \/ fault \/ ClockBad(now))
           /\ active' = act
           /\ live' = IF stopOk THEN left \cap mine ELSE left
           /\ cancelTerminalConfirmed' = cancelOk
           /\ stopAllTerminalConfirmed' = stopOk
           /\ recoveryRequired' = RecoveryNeeded(cancelOk, stopOk)
           /\ outcome' = "stopped"
  BY DEF FailClosed
<1>2. ActiveCommands' = mine
  BY <1>1 DEF ActiveCommands
<1>3. StopEvidence'
  <2> HIDE DEF mine
  <2> QED BY <1>1, <1>2 DEF StopEvidence, RecoveryNeeded
<1> QED
  BY <1>1, <1>3, NowAfterType DEF RecoveryNeeded, TypeOK, ClockBad

(* The type of every variable that _fail_closed and the issuing methods    *)
(* leave to their callers.                                                 *)
CallerTypes ==
  /\ task \in Task \cup {None}
  /\ completed \subseteq Commands
  /\ usedTaskIds \subseteq TaskIds
  /\ lastSource \in Times \cup {-1}
  /\ epoch \in Epochs
  /\ succeeded \subseteq Commands

(* A stop keeps the invariant if its caller forgets no used task id, no    *)
(* success and no issued command.                                          *)
LEMMA StopKeepsIInv ==
  ASSUME IInv, NEW now \in Nows, NEW fault \in BOOLEAN
  PROVE  \A act \in Active \cup {None} :
           /\ FailClosed(now, fault, act, live)
           /\ CallerTypes'
           /\ usedTaskIds \subseteq usedTaskIds'
           /\ UNCHANGED <<succeeded, issued, lastIssue>>
           => IInv'
<1> SUFFICES ASSUME NEW act \in Active \cup {None},
                    FailClosed(now, fault, act, live),
                    CallerTypes',
                    usedTaskIds \subseteq usedTaskIds',
                    UNCHANGED <<succeeded, issued, lastIssue>>
             PROVE  IInv'
  OBVIOUS
<1>1. TypeOK /\ live \in SUBSET Commands
  BY DEF IInv, TypeOK
<1>2. /\ phase' = "SAFE_STOP" /\ active' = act /\ live' \subseteq live
      /\ lastNow' \in Times \cup {-1} /\ clockFault' \in BOOLEAN
      /\ recoveryRequired' \in BOOLEAN
      /\ cancelTerminalConfirmed' \in BOOLEAN
      /\ stopAllTerminalConfirmed' \in BOOLEAN
      /\ outcome' = "stopped" /\ StopEvidence'
  BY <1>1, FailClosedEffect
<1>3. TypeOK'
  BY <1>1, <1>2 DEF TypeOK, CallerTypes, Phases
<1>4. OnlyActiveMoves' /\ Progress' /\ Resting' /\ CompleteIsDone'
  BY <1>2 DEF OnlyActiveMoves, Progress, Resting, CompleteIsDone, Busy,
     PlanPhases, ExecPhases
<1>5. UsedIds' /\ StageGated'
  BY DEF IInv, UsedIds, StageGated
<1> QED
  BY <1>2, <1>3, <1>4, <1>5 DEF IInv

(* Submitting the next stage keeps the invariant, whatever the port        *)
(* answers, if the stages before it succeeded and nothing moves.           *)
LEMMA IssueKeepsIInv ==
  ASSUME IInv, NEW now \in Times, NEW src \in Times, NEW stage \in Stages
  PROVE  \A t \in Task :
           /\ Issues(t, stage, now, src)
           /\ CallerTypes' /\ task' = t
           /\ usedTaskIds \subseteq usedTaskIds' /\ t.id \in usedTaskIds'
           /\ UNCHANGED succeeded
           /\ epoch \in Epochs
           /\ live = {}
           /\ \A r \in Stages : r < stage => <<t.id, r>> \in succeeded
           /\ \A r \in Stages : r >= stage => <<t.id, r>> \notin issued
           => IInv'
<1> SUFFICES ASSUME NEW t \in Task,
                    Issues(t, stage, now, src),
                    CallerTypes', task' = t,
                    usedTaskIds \subseteq usedTaskIds', t.id \in usedTaskIds',
                    UNCHANGED succeeded,
                    epoch \in Epochs,
                    live = {},
                    \A r \in Stages : r < stage => <<t.id, r>> \in succeeded,
                    \A r \in Stages : r >= stage => <<t.id, r>> \notin issued
             PROVE  IInv'
  OBVIOUS
<1> DEFINE cmd == <<t.id, stage>>
           new == [cmd |-> cmd, src |-> src, at |-> now]
<1>1. t.id \in TaskIds /\ cmd \in Commands /\ new \in Active
  BY DEF Task, Active
<1>2. TypeOK /\ now \in Nows /\ now # -1
  BY DEF IInv, Nows, Times
<1>3. issued' = issued \cup {cmd}
  BY DEF Issues
<1>4. lastIssue' \in Issue \cup {None}
  BY <1>1 DEF Issues, Issue
<1>5. UsedIds'
  BY <1>3 DEF IInv, UsedIds
<1>6. StageGated'
  <2> SUFFICES ASSUME NEW c \in issued', NEW r \in 0..(c[2] - 1)
               PROVE  <<c[1], r>> \in succeeded
    BY DEF StageGated
  <2>1. CASE c \in issued
    BY <2>1 DEF IInv, StageGated
  <2>2. CASE c = cmd
    BY <2>2
  <2> QED
    BY <2>1, <2>2, <1>3
<1>7. PICK reply \in SubmitReplies, sent \in BOOLEAN :
        LET lv == IF sent THEN live \cup {cmd} ELSE live
        IN \/ /\ reply = "accepted" /\ sent
              /\ phase' = IssuePhase[stage]
              /\ active' = new
              /\ live' = lv
              /\ lastNow' = now
              /\ UNCHANGED <<evidence, clockFault, outcome>>
           \/ /\ reply = "rejected"
              /\ FailClosed(now, FALSE, None, lv)
           \/ /\ reply = "raised"
              /\ FailClosed(now, FALSE, new, lv)
  BY DEF Issues
<1> DEFINE lv == IF sent THEN live \cup {cmd} ELSE live
<1>8. CASE /\ reply = "accepted" /\ sent
           /\ phase' = IssuePhase[stage]
           /\ active' = new
           /\ live' = lv
           /\ lastNow' = now
           /\ UNCHANGED <<evidence, clockFault, outcome>>
  <2>1. phase' \in Busy /\ phase' \in Phases
    BY <1>8 DEF IssuePhase, Busy, Phases, PlanPhases, ExecPhases
  <2>2. phase' \notin {"IDLE", "COMPLETE", "SAFE_STOP"}
    BY <2>1 DEF Busy, PlanPhases, ExecPhases
  <2>3. live' = {cmd} /\ active' = new
    BY <1>8
  <2>4. TypeOK'
    <3>1. UNCHANGED <<recoveryRequired, cancelTerminalConfirmed,
                      stopAllTerminalConfirmed, clockFault, outcome>>
      BY <1>8 DEF evidence
    <3>2. lastNow' \in Times \cup {-1}
      BY <1>8
    <3> QED
      BY <1>1, <1>2, <1>3, <1>4, <2>1, <2>3, <3>1, <3>2 DEF TypeOK, CallerTypes
  <2>5. ActiveCommands' = {cmd} /\ active' \in Active
    BY <1>1, <2>3, ConstantsOK DEF ActiveCommands, ConstantsOK
  <2>6. OnlyActiveMoves'
    BY <2>3, <2>5 DEF OnlyActiveMoves
  <2>7. Progress'
    BY <1>1, <1>3, <2>3, <2>5 DEF Progress
  <2>8. StopEvidence' /\ Resting' /\ CompleteIsDone'
    BY <2>2 DEF StopEvidence, Resting, CompleteIsDone
  <2> QED
    BY <1>5, <1>6, <2>4, <2>6, <2>7, <2>8 DEF IInv
<1>9. ASSUME NEW act \in Active \cup {None}, FailClosed(now, FALSE, act, lv)
      PROVE  IInv'
  <2>1. lv \in SUBSET Commands
    BY <1>1
  <2>2. /\ phase' = "SAFE_STOP" /\ active' = act /\ live' \subseteq lv
        /\ lastNow' \in Times \cup {-1} /\ clockFault' \in BOOLEAN
        /\ recoveryRequired' \in BOOLEAN
        /\ cancelTerminalConfirmed' \in BOOLEAN
        /\ stopAllTerminalConfirmed' \in BOOLEAN
        /\ outcome' = "stopped" /\ StopEvidence'
    <3> HIDE DEF lv
    <3> QED BY <1>2, <1>9, <2>1, FailClosedEffect
  <2>3. TypeOK'
    <3> HIDE DEF lv, cmd
    <3> QED BY <1>1, <1>2, <1>3, <1>4, <2>1, <2>2 DEF TypeOK, CallerTypes, Phases
  <2>4. OnlyActiveMoves' /\ Progress' /\ Resting' /\ CompleteIsDone'
    BY <2>2 DEF OnlyActiveMoves, Progress, Resting, CompleteIsDone, Busy,
       PlanPhases, ExecPhases
  <2> QED
    BY <1>5, <1>6, <2>2, <2>3, <2>4 DEF IInv
<1> QED
  BY <1>1, <1>7, <1>8, <1>9

(* A stop that touches nothing else.                                       *)
LEMMA AbortKeepsIInv ==
  ASSUME IInv, NEW now \in Nows, NEW fault \in BOOLEAN, Abort(now, fault),
         lastSource' \in Times \cup {-1}
  PROVE  IInv'
<1>1. FailClosed(now, fault, active, live)
  BY DEF Abort
<1>2. UNCHANGED <<task, completed, usedTaskIds, epoch, succeeded, issued,
                  lastIssue>>
  BY DEF Abort
<1>3. active \in Active \cup {None} /\ CallerTypes'
  BY <1>2 DEF IInv, TypeOK, CallerTypes
<1> QED
  BY <1>1, <1>2, <1>3, StopKeepsIInv

(* A step that only moves the watermarks, or a plan phase to its running   *)
(* phase.                                                                  *)
LEMMA NotedKeepsIInv ==
  ASSUME IInv, lastNow' \in Times \cup {-1}, lastSource' \in Times \cup {-1},
         phase' = phase \/ (phase \in Busy /\ phase' \in ExecPhases),
         UNCHANGED <<task, active, completed, usedTaskIds, evidence,
                     clockFault, epoch, outcome, ghosts>>
  PROVE  IInv'
<1>1. TypeOK'
  BY DEF IInv, TypeOK, evidence, ghosts, Phases, Busy
<1>2. phase' = phase \/ (phase \in Busy /\ phase' \in Busy)
  BY DEF Busy
<1>3. phase # phase' => {phase, phase'} \cap {"IDLE", "COMPLETE", "SAFE_STOP"}
                          = {}
  BY <1>2 DEF Busy, PlanPhases, ExecPhases
<1>4. OnlyActiveMoves' /\ StopEvidence' /\ Resting' /\ CompleteIsDone'
  <2>1. ActiveCommands' = ActiveCommands
    BY DEF ActiveCommands
  <2> QED
    BY <1>3, <2>1 DEF IInv, OnlyActiveMoves, StopEvidence, Resting,
       CompleteIsDone, evidence, ghosts
<1>5. Progress' /\ UsedIds' /\ StageGated'
  BY <1>2 DEF IInv, Progress, UsedIds, StageGated, ghosts
<1> QED
  BY <1>1, <1>4, <1>5 DEF IInv

LEMMA InputTypes ==
  ASSUME NEW h \in Healths
  PROVE  h.src \in Times
BY ConstantsOK DEF ConstantsOK, Health

LEMMA ClockGood ==
  ASSUME NEW now \in Nows, ~ClockBad(now)
  PROVE  now \in Times
BY DEF ClockBad, Nows, Times

LEMMA StartKeepsIInv ==
  ASSUME IInv, NEW now \in Nows, NEW h \in Healths, NEW t \in TaskInputs,
         StartRefused(t, h, now) \/ StartAdmitted(t, h, now)
  PROVE  IInv'
<1>1. t \in Task /\ h.src \in Times
  BY ConstantsOK, InputTypes DEF ConstantsOK
<1>2. active \in Active \cup {None} /\ live \subseteq ActiveCommands
      /\ TypeOK
  BY DEF IInv, OnlyActiveMoves, TypeOK, StartRefused, StartAdmitted
<1>3. CASE StartRefused(t, h, now)
  <2>1. \E fault \in BOOLEAN : FailClosed(now, fault, active, live)
    BY <1>3 DEF StartRefused
  <2>2. task' \in {task, t} /\ lastSource' \in {lastSource, h.src}
    BY <1>3 DEF StartRefused
  <2>3. UNCHANGED <<completed, usedTaskIds, epoch, succeeded, issued,
                    lastIssue>>
    BY <1>3 DEF StartRefused
  <2>4. CallerTypes'
    BY <1>1, <1>2, <2>2, <2>3 DEF CallerTypes, TypeOK
  <2> QED
    BY <1>2, <2>1, <2>3, <2>4, StopKeepsIInv
<1>4. CASE StartAdmitted(t, h, now)
  <2>1. now \in Times
    BY <1>4, ClockGood DEF StartAdmitted
  <2>2. live = {}
    BY <1>2, <1>4 DEF IInv, Resting, ActiveCommands, StartAdmitted
  <2>3. \A r \in Stages : <<t.id, r>> \notin issued
    BY <1>4 DEF IInv, UsedIds, StartAdmitted
  <2>4. task' = t /\ t.id \in usedTaskIds' /\ usedTaskIds \subseteq usedTaskIds'
        /\ UNCHANGED succeeded /\ Issues(t, 0, now, h.src)
    BY <1>4 DEF StartAdmitted
  <2>5. CallerTypes' /\ epoch \in Epochs
    BY <1>1, <1>2, <1>4 DEF StartAdmitted, CallerTypes, TypeOK, Task
  <2>6. 0 \in Stages /\ \A r \in Stages : ~(r < 0)
    OBVIOUS
  <2> QED
    BY <1>1, <2>1, <2>2, <2>3, <2>4, <2>5, <2>6, IssueKeepsIInv
<1> QED
  BY <1>3, <1>4

LEMMA TerminalKeepsIInv ==
  ASSUME IInv, NEW now \in Nows, NEW h \in Healths, NEW m \in Report,
         StageTerminal(m, h, now)
  PROVE  IInv'
<1>1. /\ Honest(m) /\ ~ClockBad(now) /\ phase \in Busy
      /\ lastSource' = h.src /\ h.src \in Times
  BY InputTypes DEF StageTerminal, Admits
<1>2. now \in Times /\ TypeOK /\ m.task \in TaskIds /\ m.stage \in Stages
  BY <1>1, ClockGood DEF IInv, Report
<1>3. CASE /\ <<m.task, m.stage>> \in completed
           /\ lastNow' = now
           /\ UNCHANGED <<phase, task, active, completed, usedTaskIds,
                          evidence, clockFault, epoch, outcome, ghosts>>
  BY <1>1, <1>2, <1>3, NotedKeepsIInv
<1>4. ASSUME NEW fault \in BOOLEAN, Abort(now, fault)
      PROVE  IInv'
  BY <1>1, <1>4, AbortKeepsIInv
<1>5. CASE Correlated(m.task, m.stage) /\ ContractHolds(m)
           /\ StageSucceeded(m, h, now)
  <2>1. PICK s \in Stages :
          /\ task \in Task /\ active \in Active
          /\ active.cmd = <<task.id, s>>
          /\ \A r \in Stages : r < s => <<task.id, r>> \in succeeded
          /\ \A r \in Stages : r > s => <<task.id, r>> \notin issued
    BY <1>1 DEF IInv, Progress
  <2>2. m.task = task.id /\ m.stage = s
    BY <1>5, <2>1 DEF Correlated
  <2>3. <<task.id, s>> \in succeeded /\ <<task.id, s>> \notin live
        /\ <<task.id, s>> \in issued
    BY <1>1, <1>5, <2>2 DEF Honest, ContractHolds
  <2>4. live = {}
    <3>1. live \subseteq {<<task.id, s>>}
      BY <1>1, <2>1 DEF IInv, OnlyActiveMoves, ActiveCommands, Busy,
         PlanPhases, ExecPhases
    <3> QED
      BY <2>3, <3>1
  <2>5. \A r \in Stages : r <= s => <<task.id, r>> \in succeeded
    BY <2>1, <2>3
  <2>6. CallerTypes' /\ epoch \in Epochs /\ task' = task
        /\ UNCHANGED <<usedTaskIds, succeeded>>
    <3>1. completed' = completed \cup {<<m.task, m.stage>>}
      BY <1>5 DEF StageSucceeded
    <3>2. UNCHANGED <<task, usedTaskIds, epoch, succeeded>>
      BY <1>5 DEF StageSucceeded
    <3> QED
      BY <1>1, <1>2, <2>1, <3>1, <3>2 DEF CallerTypes, TypeOK
  <2>7. CASE s = LastStage
    <3>1. /\ phase' = "COMPLETE" /\ active' = None /\ outcome' = "completed"
          /\ lastNow' = now
          /\ UNCHANGED <<evidence, clockFault, live, issued, lastIssue>>
      BY <1>5, <2>2, <2>7 DEF StageSucceeded
    <3>2. TypeOK'
      BY <1>2, <2>6, <3>1 DEF TypeOK, CallerTypes, evidence, Phases
    <3>3. OnlyActiveMoves' /\ StopEvidence' /\ Resting' /\ Progress'
      BY <2>4, <3>1 DEF OnlyActiveMoves, StopEvidence, Resting, Progress,
         Busy, PlanPhases, ExecPhases
    <3>4. CompleteIsDone'
      BY <2>4, <2>5, <2>6, <2>7, <3>1 DEF CompleteIsDone, LastStage
    <3>5. UsedIds' /\ StageGated'
      BY <2>6, <3>1 DEF IInv, UsedIds, StageGated
    <3> QED
      BY <3>2, <3>3, <3>4, <3>5 DEF IInv
  <2>8. CASE s # LastStage
    <3>1. Issues(task, s + 1, now, h.src)
      BY <1>5, <2>2, <2>8 DEF StageSucceeded
    <3>2. s + 1 \in Stages
          /\ (\A r \in Stages : r < s + 1 => <<task.id, r>> \in succeeded)
          /\ (\A r \in Stages : r >= s + 1 => <<task.id, r>> \notin issued)
      BY <2>1, <2>5, <2>8 DEF LastStage
    <3>3. task.id \in usedTaskIds'
      BY <2>3, <2>6 DEF IInv, UsedIds
    <3> QED
      BY <1>1, <1>2, <2>1, <2>4, <2>6, <3>1, <3>2, <3>3, IssueKeepsIInv
  <2> QED
    BY <2>7, <2>8
<1>6. CASE StageFailed(m, now)
  <2>1. PICK act \in {None, active} : FailClosed(now, FALSE, act, live)
    BY <1>6 DEF StageFailed
  <2>2. completed' \in {completed, completed \cup {<<m.task, m.stage>>}}
        /\ UNCHANGED <<task, usedTaskIds, epoch, succeeded, issued, lastIssue>>
    BY <1>6 DEF StageFailed
  <2>3. CallerTypes'
    BY <1>1, <1>2, <2>2 DEF CallerTypes, TypeOK
  <2>4. act \in Active \cup {None}
    BY <1>2 DEF TypeOK
  <2> QED
    BY <2>1, <2>2, <2>3, <2>4, StopKeepsIInv
<1>7. CASE Correlated(m.task, m.stage) /\ m.echo # "exact"
           /\ Abort(now, m.echo \in ClockEchoes)
  <2>1. (m.echo \in ClockEchoes) \in BOOLEAN
    OBVIOUS
  <2> QED
    BY <1>4, <1>7, <2>1
<1>8. CASE <<m.task, m.stage>> \notin completed /\ Abort(now, FALSE)
  BY <1>4, <1>8
<1> QED
  BY <1>3, <1>5, <1>6, <1>7, <1>8 DEF StageTerminal

LEMMA LateKeepsIInv ==
  ASSUME IInv, NEW now \in Nows, NEW m \in Report, LateTerminal(m, now)
  PROVE  IInv'
<1>1. /\ Honest(m) /\ phase = "SAFE_STOP" /\ phase' = "SAFE_STOP"
      /\ UNCHANGED <<task, usedTaskIds, lastSource, epoch, outcome, ghosts>>
  BY DEF LateTerminal
<1>2. TypeOK /\ StopEvidence
  BY DEF IInv
<1>3. CASE /\ clockFault' \in BOOLEAN /\ lastNow' \in Times \cup {-1}
           /\ UNCHANGED <<active, completed, evidence>>
  <2>1. TypeOK'
    BY <1>1, <1>2, <1>3 DEF TypeOK, evidence, ghosts
  <2>2. StopEvidence'
    BY <1>1, <1>2, <1>3 DEF StopEvidence, evidence, ghosts, ActiveCommands
  <2>3. OnlyActiveMoves' /\ Progress' /\ Resting' /\ CompleteIsDone'
    BY <1>1 DEF OnlyActiveMoves, Progress, Resting, CompleteIsDone, Busy,
       PlanPhases, ExecPhases
  <2>4. UsedIds' /\ StageGated'
    BY <1>1 DEF IInv, UsedIds, StageGated, ghosts
  <2> QED
    BY <2>1, <2>2, <2>3, <2>4 DEF IInv
<1>4. CASE /\ ~ClockBad(now) /\ lastNow' = now
           /\ task # None /\ active # None
           /\ m.task = task.id /\ active.cmd = <<m.task, m.stage>>
           /\ DownstreamOver(m)
           /\ active' = None
           /\ completed' = completed \cup {active.cmd}
           /\ cancelTerminalConfirmed' = TRUE
           /\ recoveryRequired' = RecoveryNeeded(TRUE, stopAllTerminalConfirmed)
           /\ UNCHANGED <<stopAllTerminalConfirmed, clockFault>>
  <2>1. active.cmd \in Commands /\ active.cmd \notin live
    BY <1>1, <1>2, <1>4 DEF Honest, DownstreamOver, TypeOK, Active
  <2>2. lastNow' \in Times \cup {-1}
    BY <1>4, ClockGood
  <2>3. UNCHANGED <<live, succeeded, issued, lastIssue>>
    BY <1>1 DEF ghosts
  <2>4. TypeOK'
    BY <1>1, <1>2, <1>4, <2>1, <2>2, <2>3 DEF TypeOK, RecoveryNeeded
  <2>5. StopEvidence'
    BY <1>1, <1>2, <1>4, <2>1, <2>3 DEF StopEvidence, RecoveryNeeded, TypeOK,
       ActiveCommands
  <2>6. OnlyActiveMoves' /\ Progress' /\ Resting' /\ CompleteIsDone'
    BY <1>1 DEF OnlyActiveMoves, Progress, Resting, CompleteIsDone, Busy,
       PlanPhases, ExecPhases
  <2>7. UsedIds' /\ StageGated'
    BY <1>1, <2>3 DEF IInv, UsedIds, StageGated
  <2> QED
    BY <2>4, <2>5, <2>6, <2>7 DEF IInv
<1>5. CASE ClockBad(now)
  <2>1. clockFault' \in BOOLEAN /\ lastNow' = lastNow
        /\ UNCHANGED <<active, completed, evidence>>
    BY <1>5 DEF LateTerminal
  <2> QED
    BY <1>2, <1>3, <2>1 DEF TypeOK
<1>6. CASE ~ClockBad(now)
  <2>1. lastNow' = now /\ now \in Times /\ clockFault' = clockFault
    BY <1>6, ClockGood DEF LateTerminal
  <2>2. CASE UNCHANGED <<active, completed, evidence>>
    BY <1>2, <1>3, <2>1, <2>2 DEF TypeOK
  <2>3. CASE ~UNCHANGED <<active, completed, evidence>>
    BY <1>4, <1>6, <2>1, <2>3 DEF LateTerminal
  <2> QED
    BY <2>2, <2>3
<1> QED
  BY <1>5, <1>6

LEMMA ResetKeepsIInv ==
  ASSUME IInv, NEW now \in Nows, NEW e \in Epochs, NEW x \in BOOLEAN,
         Reset(now, e, x)
  PROVE  IInv'
<1>1. /\ phase' = "IDLE" /\ task' = None /\ active' = None
      /\ completed' = {} /\ lastNow' = now /\ lastSource' = -1
      /\ recoveryRequired' = FALSE
      /\ cancelTerminalConfirmed' = TRUE /\ stopAllTerminalConfirmed' = TRUE
      /\ clockFault' = FALSE /\ outcome' = "none" /\ epoch' = e
      /\ UNCHANGED <<usedTaskIds, live, succeeded, issued, lastIssue>>
  BY DEF Reset, Fresh, ghosts
<1>2. live = {}
  BY DEF Reset, IInv, StopEvidence, OnlyActiveMoves, Resting, ActiveCommands
<1>3. now \in Times \cup {-1}
  BY DEF Nows
<1>4. TypeOK'
  BY <1>1, <1>3 DEF IInv, TypeOK, Phases
<1>5. OnlyActiveMoves' /\ StopEvidence' /\ Progress' /\ Resting'
      /\ CompleteIsDone'
  BY <1>1, <1>2 DEF OnlyActiveMoves, StopEvidence, Progress, Resting,
     CompleteIsDone, Busy, PlanPhases, ExecPhases
<1>6. UsedIds' /\ StageGated'
  BY <1>1 DEF IInv, UsedIds, StageGated
<1> QED
  BY <1>4, <1>5, <1>6 DEF IInv

LEMMA EndKeepsIInv ==
  ASSUME IInv, NEW c \in Commands, NEW ok \in BOOLEAN, DownstreamEnds(c, ok)
  PROVE  IInv'
<1>1. /\ live' = live \ {c} /\ succeeded \subseteq succeeded'
      /\ succeeded' \subseteq Commands
  BY DEF DownstreamEnds, IInv, TypeOK
<1>2. UNCHANGED <<phase, task, active, completed, usedTaskIds, lastNow,
                  lastSource, evidence, clockFault, epoch, outcome, issued,
                  lastIssue>>
  BY DEF DownstreamEnds
<1>3. TypeOK'
  BY <1>1, <1>2 DEF IInv, TypeOK, evidence
<1>4. OnlyActiveMoves' /\ StopEvidence' /\ Resting' /\ CompleteIsDone'
  BY <1>1, <1>2 DEF IInv, OnlyActiveMoves, StopEvidence, Resting,
     CompleteIsDone, ActiveCommands, evidence
<1>5. Progress'
  BY <1>1, <1>2 DEF IInv, Progress
<1>6. UsedIds' /\ StageGated'
  BY <1>1, <1>2 DEF IInv, UsedIds, StageGated
<1> QED
  BY <1>3, <1>4, <1>5, <1>6 DEF IInv

LEMMA WatchKeepsIInv ==
  ASSUME IInv, NEW now \in Nows, NEW h \in Healths,
         EventRefused(h, now) \/ Tick(h, now)
  PROVE  IInv'
<1>1. h.src \in Times /\ lastSource \in Times \cup {-1} /\ TypeOK
  BY InputTypes DEF IInv, TypeOK
<1>2. ASSUME NEW fault \in BOOLEAN, Abort(now, fault),
             lastSource' \in {lastSource, h.src}
      PROVE  IInv'
  BY <1>1, <1>2, AbortKeepsIInv
<1>3. CASE Admits(h, now) /\ Noted(h, now) /\ UNCHANGED phase
  <2>1. now \in Times
    BY <1>3, ClockGood DEF Admits
  <2> QED
    BY <1>1, <1>3, <2>1, NotedKeepsIInv DEF Noted
<1>4. CASE UNCHANGED vars
  BY <1>1, <1>4, NotedKeepsIInv DEF vars, TypeOK
<1>5. CASE EventRefused(h, now)
  <2>1. (HealthFault(h, now, task) = "clock") \in BOOLEAN
    OBVIOUS
  <2> QED
    BY <1>2, <1>5, <2>1 DEF EventRefused
<1>6. CASE Tick(h, now)
  BY <1>2, <1>3, <1>4, <1>6 DEF Tick
<1> QED
  BY <1>5, <1>6

LEMMA StartedKeepsIInv ==
  ASSUME IInv, NEW now \in Nows, NEW h \in Healths, NEW id \in TaskIds,
         NEW s \in Stages, ExecutionStarted(id, s, h, now)
  PROVE  IInv'
<1>1. h.src \in Times /\ now \in Times /\ phase \in Busy
  BY InputTypes, ClockGood DEF ExecutionStarted, Admits
<1>2. CASE Noted(h, now) /\ UNCHANGED phase
  BY <1>1, <1>2, NotedKeepsIInv DEF Noted
<1>3. CASE Abort(now, FALSE) /\ lastSource' = h.src
  BY <1>1, <1>3, AbortKeepsIInv
<1>4. CASE /\ phase' = IF phase \in PlanPhases THEN ExecPhase[s] ELSE phase
           /\ Noted(h, now)
  <2>1. ExecPhase[s] \in ExecPhases
    BY DEF ExecPhase, ExecPhases
  <2>2. phase' = phase \/ phase' \in ExecPhases
    BY <1>4, <2>1
  <2> QED
    BY <1>1, <1>4, <2>2, NotedKeepsIInv DEF Noted
<1> QED
  BY <1>2, <1>3, <1>4 DEF ExecutionStarted

LEMMA IdleKeepsIInv ==
  ASSUME IInv, NEW now \in Nows,
         \/ StartInvalid(now) \/ InvalidTerminal(now) \/ RequestStop(now)
         \/ IdleClock(now)
  PROVE  IInv'
<1>1. lastSource \in Times \cup {-1}
  BY DEF IInv, TypeOK
<1>2. ASSUME NEW fault \in BOOLEAN, Abort(now, fault), UNCHANGED lastSource
      PROVE  IInv'
  BY <1>1, <1>2, AbortKeepsIInv
<1>3. CASE StartInvalid(now)
  <2>1. ClockBad(now) \in BOOLEAN
    BY DEF ClockBad
  <2> QED
    BY <1>2, <1>3, <2>1 DEF StartInvalid
<1>4. CASE InvalidTerminal(now) \/ RequestStop(now)
  BY <1>2, <1>4 DEF InvalidTerminal, RequestStop
<1>5. CASE IdleClock(now)
  <2>1. CASE ClockBad(now)
    BY <1>2, <1>5, <2>1 DEF IdleClock
  <2>2. CASE ~ClockBad(now)
    BY <1>1, <1>5, <2>2, ClockGood, NotedKeepsIInv DEF IdleClock
  <2> QED
    BY <2>1, <2>2
<1> QED
  BY <1>3, <1>4, <1>5

(* The invariant is inductive.                                             *)
LEMMA NextKeepsIInv == IInv /\ [Next]_vars => IInv'
<1> SUFFICES ASSUME IInv, [Next]_vars PROVE IInv'
  OBVIOUS
<1>1. CASE UNCHANGED vars
  BY <1>1, NotedKeepsIInv DEF vars, IInv, TypeOK
<1>2. CASE \E now \in Nows, h \in Healths :
             \/ \E t \in TaskInputs : StartRefused(t, h, now)
             \/ \E t \in TaskInputs : StartAdmitted(t, h, now)
  BY <1>2, StartKeepsIInv
<1>3. CASE \E now \in Nows, h \in Healths :
             EventRefused(h, now) \/ Tick(h, now)
  BY <1>3, WatchKeepsIInv
<1>4. CASE \E now \in Nows, h \in Healths, id \in TaskIds, s \in Stages :
             ExecutionStarted(id, s, h, now)
  BY <1>4, StartedKeepsIInv
<1>5. CASE \E now \in Nows, h \in Healths, m \in Report :
             StageTerminal(m, h, now)
  BY <1>5, TerminalKeepsIInv
<1>6. CASE \E now \in Nows, m \in Report : LateTerminal(m, now)
  BY <1>6, LateKeepsIInv
<1>7. CASE \E now \in Nows : \/ StartInvalid(now) \/ InvalidTerminal(now)
                             \/ RequestStop(now) \/ IdleClock(now)
  BY <1>7, IdleKeepsIInv
<1>8. CASE \E now \in Nows, e \in Epochs, x \in BOOLEAN : Reset(now, e, x)
  BY <1>8, ResetKeepsIInv
<1>9. CASE \E c \in Commands, ok \in BOOLEAN : DownstreamEnds(c, ok)
  BY <1>9, EndKeepsIInv
<1> QED
  BY <1>1, <1>2, <1>3, <1>4, <1>5, <1>6, <1>7, <1>8, <1>9 DEF Next

LEMMA Invariance == Spec => []IInv
<1>1. Init => IInv
  BY InitIInv
<1>2. IInv /\ [Next]_vars => IInv'
  BY NextKeepsIInv
<1> QED
  BY <1>1, <1>2, PTL DEF Spec
-----------------------------------------------------------------------------
(* Each issuing step submits a command not submitted before, with nothing  *)
(* moving; every other step leaves lastIssue alone.                        *)
LEMMA IssuingStep ==
  ASSUME IInv, [Next]_vars
  PROVE  \/ lastIssue' = lastIssue
         \/ /\ live = {}
            /\ lastIssue'.cmd \notin issued
<1>1. CASE \E now \in Nows, h \in Healths, t \in TaskInputs :
             StartAdmitted(t, h, now)
  <2>1. PICK now \in Nows, h \in Healths, t \in TaskInputs :
          StartAdmitted(t, h, now)
    BY <1>1
  <2>2. lastIssue'.cmd = <<t.id, 0>>
    BY <2>1 DEF StartAdmitted, Issues
  <2>3. <<t.id, 0>> \notin issued
    BY <2>1 DEF IInv, UsedIds, StartAdmitted
  <2>4. live = {}
    BY <2>1 DEF IInv, OnlyActiveMoves, Resting, ActiveCommands, StartAdmitted
  <2> QED
    BY <2>2, <2>3, <2>4
<1>2. CASE \E now \in Nows, h \in Healths, m \in Report :
             StageTerminal(m, h, now)
  <2>1. PICK now \in Nows, h \in Healths, m \in Report :
          StageTerminal(m, h, now)
    BY <1>2
  <2>2. CASE lastIssue' = lastIssue
    BY <2>2
  <2>3. CASE lastIssue' # lastIssue
    <3>1. /\ Correlated(m.task, m.stage) /\ ContractHolds(m)
          /\ StageSucceeded(m, h, now) /\ Honest(m) /\ phase \in Busy
      BY <2>1, <2>3 DEF StageTerminal, StageFailed, Abort, ghosts, Admits
    <3>2. PICK s \in Stages :
            /\ task \in Task /\ active \in Active
            /\ active.cmd = <<task.id, s>>
            /\ \A r \in Stages : r > s => <<task.id, r>> \notin issued
      BY <3>1 DEF IInv, Progress
    <3>3. m.task = task.id /\ m.stage = s
      BY <3>1, <3>2 DEF Correlated
    <3>4. s # LastStage /\ Issues(task, s + 1, now, h.src)
      BY <2>3, <3>1, <3>3 DEF StageSucceeded
    <3>5. lastIssue'.cmd = <<task.id, s + 1>>
      BY <3>4 DEF Issues
    <3>6. <<task.id, s + 1>> \notin issued
      BY <3>2, <3>4 DEF LastStage
    <3>7. live = {}
      <4>1. live \subseteq {<<task.id, s>>}
        BY <3>1, <3>2 DEF IInv, OnlyActiveMoves, ActiveCommands, Busy,
           PlanPhases, ExecPhases
      <4>2. <<task.id, s>> \notin live
        BY <3>1, <3>3 DEF Honest, ContractHolds
      <4> QED
        BY <4>1, <4>2
    <3> QED
      BY <3>5, <3>6, <3>7
  <2> QED
    BY <2>2, <2>3
<1>3. CASE UNCHANGED vars
  BY <1>3 DEF vars, ghosts
<1>4. CASE \E now \in Nows, h \in Healths :
             \/ \E t \in TaskInputs : StartRefused(t, h, now)
             \/ EventRefused(h, now)
             \/ \E id \in TaskIds, s \in Stages : ExecutionStarted(id, s, h, now)
             \/ Tick(h, now)
  <2>1. CASE \E now \in Nows, h \in Healths, t \in TaskInputs :
               StartRefused(t, h, now)
    BY <2>1 DEF StartRefused
  <2>2. CASE \E now \in Nows, h \in Healths : EventRefused(h, now)
    BY <2>2 DEF EventRefused, Abort
  <2>3. CASE \E now \in Nows, h \in Healths, id \in TaskIds, s \in Stages :
               ExecutionStarted(id, s, h, now)
    BY <2>3 DEF ExecutionStarted, Abort, Noted, ghosts
  <2>4. CASE \E now \in Nows, h \in Healths : Tick(h, now)
    BY <2>4 DEF Tick, Abort, Noted, ghosts, vars
  <2> QED
    BY <1>4, <2>1, <2>2, <2>3, <2>4
<1>5. CASE \E now \in Nows :
             \/ \E m \in Report : LateTerminal(m, now)
             \/ StartInvalid(now) \/ InvalidTerminal(now) \/ IdleClock(now)
             \/ RequestStop(now)
             \/ \E e \in Epochs, x \in BOOLEAN : Reset(now, e, x)
  BY <1>5 DEF LateTerminal, StartInvalid, InvalidTerminal, IdleClock,
     RequestStop, Reset, Abort, ghosts
<1>6. CASE \E cmd \in Commands, ok \in BOOLEAN : DownstreamEnds(cmd, ok)
  BY <1>6 DEF DownstreamEnds
<1> QED
  BY <1>1, <1>2, <1>3, <1>4, <1>5, <1>6 DEF Next

(* Every reachable state of the coordinator is well typed.                 *)
THEOREM TypeCorrect == Spec => []TypeOK
<1>1. IInv => TypeOK
  BY DEF IInv
<1> QED
  BY <1>1, Invariance, PTL

(* A stop that asks for no external confirmation is a proved standstill.   *)
THEOREM RecoveryIsSound == Spec => []RecoveredIsStill
<1>1. IInv => RecoveredIsStill
  BY DEF IInv, RecoveredIsStill, StopEvidence, TypeOK
<1> QED
  BY <1>1, Invariance, PTL

(* COMPLETE is only reached by a task whose four motions succeeded.        *)
THEOREM CompletionIsSound == Spec => []CompleteIsDone
<1>1. IInv => CompleteIsDone
  BY DEF IInv
<1> QED
  BY <1>1, Invariance, PTL

(* No command is submitted while another can move.                         *)
THEOREM MotionsDoNotOverlap == Spec => NoOverlap
<1>1. IInv /\ [Next]_vars => [IssueStep => live = {}]_vars
  BY IssuingStep DEF IssueStep
<1> QED
  BY <1>1, Invariance, PTL DEF Spec, NoOverlap

(* No command is submitted twice.                                          *)
THEOREM CommandsAreUnique == Spec => NeverReissued
<1>1. IInv /\ [Next]_vars => [IssueStep => lastIssue'.cmd \notin issued]_vars
  BY IssuingStep DEF IssueStep
<1> QED
  BY <1>1, Invariance, PTL DEF Spec, NeverReissued
-----------------------------------------------------------------------------
(* What a command is bound to.                                             *)

(* What the controller's watermarks say of the latest issue.  A busy       *)
(* sequence took its source stamp from it or from a later snapshot.        *)
Bound ==
  /\ lastIssue # None =>
       /\ lastIssue.cmd \in issued
       /\ lastIssue.epoch <= epoch
       /\ lastIssue.epoch = epoch => lastIssue.at <= lastNow
  /\ phase \in Busy =>
       /\ lastIssue # None
       /\ lastIssue.cmd[1] = task.id /\ lastIssue.src <= lastSource

(* A step that issues binds a fresh stamp to a task that is new, or goes   *)
(* on with a running one and does not take its source stamp back.          *)
Binds(t, stage, now, src) ==
  /\ now \in Times /\ src \in Times /\ lastNow <= now
  /\ now - src \in 0..SourceTimeout
  /\ t \in Task /\ task' = t /\ stage \in Stages
  /\ lastIssue' = [cmd |-> <<t.id, stage>>, src |-> src, at |-> now,
                   epoch |-> epoch]
  /\ issued' = issued \cup {<<t.id, stage>>}
  /\ lastNow' = now /\ lastSource' = src /\ UNCHANGED epoch
  /\ \/ t.id \notin usedTaskIds
     \/ phase \in Busy /\ t = task /\ lastSource <= src

(* Any other step: the watermarks only go back with a new epoch.           *)
Bides ==
  /\ UNCHANGED <<lastIssue, issued>>
  /\ epoch <= epoch' /\ (epoch' = epoch => lastNow <= lastNow')
  /\ phase' \in Busy => /\ phase \in Busy /\ UNCHANGED task
                        /\ lastSource <= lastSource'

LEMMA HealthyIsFresh ==
  ASSUME TypeOK, NEW h \in Healths, NEW now \in Times,
         NEW t \in Task \cup {None}, HealthFault(h, now, t) = "none"
  PROVE  now - h.src \in 0..SourceTimeout /\ lastSource <= h.src
<1>1. ~(h.src > now) /\ ~(now - h.src > SourceTimeout) /\ ~(h.src < lastSource)
  BY DEF HealthFault
<1> QED
  BY <1>1, InputTypes, ConstantsOK DEF ConstantsOK, Times, TypeOK

LEMMA ClockForward ==
  ASSUME TypeOK, NEW now \in Nows
  PROVE  /\ lastNow <= NowAfter(now)
         /\ ~ClockBad(now) => lastNow <= now /\ NowAfter(now) = now
BY DEF TypeOK, NowAfter, ClockBad, Nows, Times

LEMMA StopBides ==
  ASSUME TypeOK, NEW now \in Nows, NEW fault, NEW act, NEW lv,
         FailClosed(now, fault, act, lv),
         UNCHANGED <<lastIssue, issued, epoch>>
  PROVE  Bides
<1>1. phase' = "SAFE_STOP" /\ lastNow' = NowAfter(now)
  BY DEF FailClosed
<1> QED
  BY <1>1, ClockForward DEF Bides, Busy, PlanPhases, ExecPhases, TypeOK, Epochs

LEMMA AbortBides ==
  ASSUME TypeOK, NEW now \in Nows, NEW fault, Abort(now, fault)
  PROVE  Bides
BY StopBides DEF Abort

LEMMA NotedBides ==
  ASSUME TypeOK, NEW h \in Healths, NEW now \in Nows, Admits(h, now),
         Noted(h, now)
  PROVE  Bides
<1>1. now \in Times /\ lastNow <= now
  BY ClockGood, ClockForward DEF Admits
<1>2. lastSource <= h.src
  BY <1>1, HealthyIsFresh DEF Admits, TypeOK
<1> QED
  BY <1>1, <1>2 DEF Bides, Noted, ghosts, Admits, TypeOK, Epochs

LEMMA IssuesBinds ==
  ASSUME TypeOK, NEW t \in Task, NEW stage \in Stages, NEW now \in Times,
         NEW src \in Times, ~ClockBad(now), Issues(t, stage, now, src)
  PROVE  /\ lastNow' = now /\ lastNow <= now
         /\ issued' = issued \cup {<<t.id, stage>>}
         /\ lastIssue' = [cmd |-> <<t.id, stage>>, src |-> src, at |-> now,
                          epoch |-> epoch]
<1>1. now \in Nows
  BY DEF Nows
<1>2. lastNow' \in {now, NowAfter(now)}
  BY DEF Issues, FailClosed
<1> QED
  BY <1>1, <1>2, ClockForward DEF Issues

LEMMA StartBinds ==
  ASSUME TypeOK, NEW now \in Nows, NEW h \in Healths, NEW t \in TaskInputs,
         StartAdmitted(t, h, now)
  PROVE  Binds(t, 0, now, h.src)
<1>1. t \in Task /\ h.src \in Times /\ now \in Times
  BY InputTypes, ConstantsOK, ClockGood DEF ConstantsOK, StartAdmitted
<1>2. now - h.src \in 0..SourceTimeout
  BY <1>1, HealthyIsFresh DEF StartAdmitted
<1>3. /\ lastNow' = now /\ lastNow <= now
      /\ issued' = issued \cup {<<t.id, 0>>}
      /\ lastIssue' = [cmd |-> <<t.id, 0>>, src |-> h.src, at |-> now,
                       epoch |-> epoch]
  BY <1>1, IssuesBinds DEF StartAdmitted
<1> QED
  BY <1>1, <1>2, <1>3 DEF StartAdmitted, Binds

LEMMA TerminalBinds ==
  ASSUME IInv, NEW now \in Nows, NEW h \in Healths, NEW m \in Report,
         StageTerminal(m, h, now)
  PROVE  Bides \/ \E stage \in Stages : Binds(task, stage, now, h.src)
<1>1. /\ TypeOK /\ phase \in Busy /\ ~ClockBad(now) /\ lastSource' = h.src
      /\ HealthFault(h, now, task) = "none" /\ now \in Times
  BY ClockGood DEF IInv, StageTerminal, Admits
<1>2. /\ now - h.src \in 0..SourceTimeout /\ lastSource <= h.src
      /\ h.src \in Times /\ lastNow <= now /\ m.stage \in Stages
  BY <1>1, HealthyIsFresh, InputTypes, ClockForward DEF TypeOK, Report
<1>3. CASE /\ lastNow' = now
           /\ UNCHANGED <<phase, task, active, completed, usedTaskIds, evidence,
                          clockFault, epoch, outcome, ghosts>>
  BY <1>1, <1>2, <1>3 DEF Bides, ghosts, TypeOK, Epochs
<1>4. CASE Abort(now, FALSE) \/ Abort(now, m.echo \in ClockEchoes)
  BY <1>1, <1>4, AbortBides
<1>5. CASE StageFailed(m, now)
  BY <1>1, <1>5, StopBides DEF StageFailed
<1>6. CASE StageSucceeded(m, h, now)
  <2>1. CASE m.stage = LastStage
    BY <1>1, <1>2, <1>6, <2>1 DEF StageSucceeded, Bides, Busy, PlanPhases,
       ExecPhases, TypeOK, Epochs
  <2>2. CASE m.stage # LastStage
    <3>1. task \in Task /\ UNCHANGED <<task, epoch>>
      BY <1>1, <1>6 DEF IInv, Progress, StageSucceeded
    <3>2. m.stage + 1 \in Stages /\ Issues(task, m.stage + 1, now, h.src)
      BY <1>2, <1>6, <2>2 DEF StageSucceeded, LastStage
    <3>3. /\ lastNow' = now
          /\ issued' = issued \cup {<<task.id, m.stage + 1>>}
          /\ lastIssue' = [cmd |-> <<task.id, m.stage + 1>>, src |-> h.src,
                           at |-> now, epoch |-> epoch]
      BY <1>1, <1>2, <3>1, <3>2, IssuesBinds
    <3>4. Binds(task, m.stage + 1, now, h.src)
      BY <1>1, <1>2, <3>1, <3>2, <3>3 DEF Binds
    <3> QED
      BY <3>2, <3>4
  <2> QED
    BY <2>1, <2>2
<1> QED
  BY <1>3, <1>4, <1>5, <1>6 DEF StageTerminal

LEMMA StepBinds ==
  ASSUME IInv, [Next]_vars
  PROVE  \/ Bides
         \/ \E t \in Task, stage \in Stages, now \in Times, src \in Times :
              Binds(t, stage, now, src)
<1>0. TypeOK /\ epoch \in Nat
  BY DEF IInv, TypeOK, Epochs
<1>1. CASE \E now \in Nows, h \in Healths, t \in TaskInputs :
             StartAdmitted(t, h, now)
  BY <1>0, <1>1, StartBinds DEF Binds
<1>2. CASE \E now \in Nows, h \in Healths, m \in Report :
             StageTerminal(m, h, now)
  BY <1>2, TerminalBinds DEF Binds
<1>3. CASE \E now \in Nows, h \in Healths, t \in TaskInputs :
             StartRefused(t, h, now)
  <2>1. PICK now \in Nows, h \in Healths, t \in TaskInputs :
          StartRefused(t, h, now)
    BY <1>3
  <2>2. PICK fault \in BOOLEAN : FailClosed(now, fault, active, live)
    BY <2>1 DEF StartRefused
  <2> QED
    BY <1>0, <2>1, <2>2, StopBides DEF StartRefused
<1>4. CASE \E now \in Nows, h \in Healths :
             \/ EventRefused(h, now) \/ Tick(h, now)
             \/ \E id \in TaskIds, s \in Stages : ExecutionStarted(id, s, h, now)
  <2>1. PICK now \in Nows, h \in Healths :
             \/ EventRefused(h, now) \/ Tick(h, now)
             \/ \E id \in TaskIds, s \in Stages : ExecutionStarted(id, s, h, now)
    BY <1>4
  <2>2. \/ \E fault \in BOOLEAN : Abort(now, fault)
        \/ Admits(h, now) /\ Noted(h, now)
        \/ UNCHANGED vars
    BY <2>1 DEF EventRefused, Tick, ExecutionStarted
  <2>3. CASE UNCHANGED vars
    BY <1>0, <2>3 DEF vars, ghosts, Bides, TypeOK, Times
  <2> QED
    BY <1>0, <2>2, <2>3, AbortBides, NotedBides
<1>5. CASE \E now \in Nows : \/ StartInvalid(now) \/ InvalidTerminal(now)
                             \/ RequestStop(now) \/ IdleClock(now)
  <2>1. PICK now \in Nows : \/ StartInvalid(now) \/ InvalidTerminal(now)
                            \/ RequestStop(now) \/ IdleClock(now)
    BY <1>5
  <2>2. CASE \E fault \in BOOLEAN : Abort(now, fault)
    BY <1>0, <2>2, AbortBides
  <2>3. CASE IdleClock(now) /\ ~ClockBad(now) /\ lastNow' = now
             /\ UNCHANGED <<phase, epoch, ghosts>>
    BY <1>0, <2>3, ClockForward DEF IdleClock, Bides, ghosts, Busy, PlanPhases,
       ExecPhases
  <2> QED
    BY <2>1, <2>2, <2>3 DEF StartInvalid, InvalidTerminal, RequestStop,
       IdleClock, ClockBad
<1>6. CASE \E now \in Nows, m \in Report : LateTerminal(m, now)
  <2>1. PICK now \in Nows, m \in Report : LateTerminal(m, now)
    BY <1>6
  <2>2. lastNow <= lastNow' /\ UNCHANGED <<epoch, lastIssue, issued>>
        /\ phase' = "SAFE_STOP"
    <3>1. lastNow' = lastNow \/ (~ClockBad(now) /\ lastNow' = now)
      BY <2>1 DEF LateTerminal
    <3>2. lastNow <= lastNow'
      BY <1>0, <3>1, ClockForward DEF TypeOK, Times
    <3> QED
      BY <2>1, <3>2 DEF LateTerminal, ghosts
  <2> QED
    BY <1>0, <2>2 DEF Bides, Busy, PlanPhases, ExecPhases
<1>7. CASE \E now \in Nows, e \in Epochs, x \in BOOLEAN : Reset(now, e, x)
  <2>1. PICK now \in Nows, e \in Epochs, x \in BOOLEAN : Reset(now, e, x)
    BY <1>7
  <2>2. /\ phase' = "IDLE" /\ UNCHANGED <<lastIssue, issued>>
        /\ epoch' \in epoch..MaxEpoch /\ (epoch' = epoch => lastNow <= lastNow')
    BY <2>1 DEF Reset, Fresh, ghosts
  <2> QED
    BY <1>0, <2>2 DEF Bides, Busy, PlanPhases, ExecPhases
<1>8. CASE \E c \in Commands, ok \in BOOLEAN : DownstreamEnds(c, ok)
  BY <1>0, <1>8 DEF DownstreamEnds, Bides, TypeOK, Times
<1>9. CASE UNCHANGED vars
  BY <1>0, <1>9 DEF vars, ghosts, Bides, TypeOK, Times
<1> QED
  BY <1>1, <1>2, <1>3, <1>4, <1>5, <1>6, <1>7, <1>8, <1>9 DEF Next

LEMMA BindingStep ==
  ASSUME IInv, Bound, [Next]_vars
  PROVE  /\ Bound'
         /\ IssueStep =>
              /\ lastIssue'.at - lastIssue'.src \in 0..SourceTimeout
              /\ lastIssue # None =>
                   /\ lastIssue.cmd[1] = lastIssue'.cmd[1]
                        => lastIssue.src <= lastIssue'.src
                   /\ lastIssue.epoch = lastIssue'.epoch
                        => lastIssue.at <= lastIssue'.at
<1>1. /\ epoch \in Nat /\ epoch' \in Nat /\ lastNow \in Int /\ lastNow' \in Int
      /\ lastSource \in Int /\ lastSource' \in Int
      /\ lastIssue # None => /\ lastIssue.epoch \in Nat /\ lastIssue.at \in Nat
                             /\ lastIssue.src \in Nat
  <2>1. TypeOK /\ TypeOK'
    BY NextKeepsIInv DEF IInv
  <2> QED
    BY <2>1 DEF TypeOK, Times, Epochs, Issue
<1>2. CASE Bides
  BY <1>1, <1>2 DEF Bides, Bound, IssueStep
<1>3. ASSUME NEW t \in Task, NEW stage \in Stages, NEW now \in Times,
             NEW src \in Times, Binds(t, stage, now, src)
      PROVE  /\ Bound'
             /\ lastIssue'.at - lastIssue'.src \in 0..SourceTimeout
             /\ lastIssue # None =>
                  /\ lastIssue.cmd[1] = lastIssue'.cmd[1]
                       => lastIssue.src <= lastIssue'.src
                  /\ lastIssue.epoch = lastIssue'.epoch
                       => lastIssue.at <= lastIssue'.at
  <2>1. /\ lastIssue'.cmd = <<t.id, stage>> /\ lastIssue'.src = src
        /\ lastIssue'.at = now /\ lastIssue'.epoch = epoch
        /\ lastIssue' # None
    <3>1. lastIssue' \in Issue
      BY <1>3 DEF Binds, Issue, Task, IInv, TypeOK
    <3> QED
      BY <1>3, <3>1, ConstantsOK DEF Binds, ConstantsOK
  <2>2. Bound'
    BY <1>1, <1>3, <2>1 DEF Binds, Bound, Times
  <2>3. lastIssue # None /\ lastIssue.cmd[1] = t.id => lastIssue.src <= src
    <3>1. CASE t.id \notin usedTaskIds
      BY <1>3, <3>1 DEF Bound, IInv, UsedIds
    <3>2. CASE phase \in Busy /\ lastSource <= src
      BY <1>1, <1>3, <3>2 DEF Bound, Times
    <3> QED
      BY <1>3, <3>1, <3>2 DEF Binds
  <2>4. lastIssue # None /\ lastIssue.epoch = epoch => lastIssue.at <= now
    BY <1>1, <1>3 DEF Bound, Binds, Times
  <2> QED
    BY <1>3, <2>1, <2>2, <2>3, <2>4 DEF Binds
<1> QED
  BY <1>2, <1>3, StepBinds

(* A command is bound to a fresh source stamp, and neither stamps nor      *)
(* submission times go back, across resets included.                       *)
THEOREM BindingIsFresh == Spec => FreshBinding
<1>1. Init => Bound
  BY DEF Init, Bound, Busy, PlanPhases, ExecPhases
<1>2. IInv /\ Bound /\ [Next]_vars => Bound'
  BY BindingStep
<1>3. IInv /\ Bound /\ [Next]_vars =>
        [IssueStep =>
           /\ lastIssue'.at - lastIssue'.src \in 0..SourceTimeout
           /\ lastIssue # None =>
                /\ lastIssue.cmd[1] = lastIssue'.cmd[1]
                     => lastIssue.src <= lastIssue'.src
                /\ lastIssue.epoch = lastIssue'.epoch
                     => lastIssue.at <= lastIssue'.at]_vars
  BY BindingStep
<1> QED
  BY <1>1, <1>2, <1>3, Invariance, PTL DEF Spec, FreshBinding
-----------------------------------------------------------------------------
(* The coordinator implements StagedMotion.                                *)

LEMMA StopImplements ==
  ASSUME NEW now \in Nows, NEW fault \in BOOLEAN,
         UNCHANGED <<issued, succeeded>>
  PROVE  \A act \in Active \cup {None} :
           FailClosed(now, fault, act, live) => Staged!Stop
<1> SUFFICES ASSUME NEW act \in Active \cup {None},
                    FailClosed(now, fault, act, live)
             PROVE  Staged!Stop
  OBVIOUS
<1>1. phase' = "SAFE_STOP" /\ live' \subseteq live
  BY DEF FailClosed
<1> QED
  BY <1>1 DEF Staged!Stop, Mode

LEMMA IssueImplements ==
  ASSUME NEW now \in Times, NEW src \in Times, NEW stage \in Stages, TypeOK
  PROVE  \A t \in Task :
           /\ Issues(t, stage, now, src)
           /\ live = {} /\ <<t.id, stage>> \notin issued
           /\ \A r \in Stages : r < stage => <<t.id, r>> \in succeeded
           /\ IF stage = 0 THEN phase = "IDLE" ELSE phase \in Busy
           /\ UNCHANGED succeeded
           => Staged!Release(<<t.id, stage>>)
<1> SUFFICES ASSUME NEW t \in Task,
                    Issues(t, stage, now, src),
                    live = {}, <<t.id, stage>> \notin issued,
                    \A r \in Stages : r < stage => <<t.id, r>> \in succeeded,
                    IF stage = 0 THEN phase = "IDLE" ELSE phase \in Busy,
                    UNCHANGED succeeded
             PROVE  Staged!Release(<<t.id, stage>>)
  OBVIOUS
<1> DEFINE cmd == <<t.id, stage>>
           new == [cmd |-> cmd, src |-> src, at |-> now]
<1>1. cmd \in Commands /\ new \in Active
  BY DEF Task, Active
<1>2. issued' = issued \cup {cmd}
  BY DEF Issues
<1>3. IF stage = 0 THEN Mode = "idle" ELSE Mode = "moving"
  BY DEF Mode, Busy, PlanPhases, ExecPhases
<1>4. \/ phase' = IssuePhase[stage] /\ live' = {cmd}
      \/ phase' = "SAFE_STOP" /\ live' \subseteq {cmd}
  BY DEF Issues, FailClosed
<1>5. \/ Mode' = "moving" /\ live' = {cmd}
      \/ Mode' = "stopped" /\ live' \in {{}, {cmd}}
  BY <1>4 DEF IssuePhase, Mode
<1>6. cmd[1] = t.id /\ cmd[2] = stage
  OBVIOUS
<1> QED
  BY <1>1, <1>2, <1>3, <1>5, <1>6 DEF Staged!Release, Staged!Motions

LEMMA StepImplements ==
  ASSUME IInv, [Next]_vars
  PROVE  [Staged!Next]_(Staged!vars)
<1>1. TypeOK /\ active \in Active \cup {None}
  BY DEF IInv, TypeOK
<1>2. ASSUME NEW now \in Nows, NEW fault \in BOOLEAN, Abort(now, fault)
      PROVE  Staged!Stop
  BY <1>1, <1>2, StopImplements DEF Abort
<1>3. CASE \E now \in Nows, h \in Healths, t \in TaskInputs :
             StartAdmitted(t, h, now)
  <2>1. PICK now \in Nows, h \in Healths, t \in TaskInputs :
          StartAdmitted(t, h, now)
    BY <1>3
  <2>2. t \in Task /\ h.src \in Times /\ now \in Times
    BY <2>1, ConstantsOK, InputTypes, ClockGood DEF ConstantsOK, StartAdmitted
  <2>3. live = {} /\ <<t.id, 0>> \notin issued
    BY <2>1 DEF IInv, UsedIds, OnlyActiveMoves, Resting, ActiveCommands,
       StartAdmitted
  <2>4. phase = "IDLE" /\ UNCHANGED succeeded /\ Issues(t, 0, now, h.src)
    BY <2>1 DEF StartAdmitted
  <2>5. Staged!Release(<<t.id, 0>>)
    BY <1>1, <2>2, <2>3, <2>4, IssueImplements
  <2>6. <<t.id, 0>> \in Staged!Motions
    BY <2>2 DEF Staged!Motions, Task
  <2> QED
    BY <2>5, <2>6 DEF Staged!Next
<1>4. CASE \E now \in Nows, h \in Healths, t \in TaskInputs :
             StartRefused(t, h, now)
  <2>1. PICK now \in Nows, h \in Healths, t \in TaskInputs :
          StartRefused(t, h, now)
    BY <1>4
  <2>2. \E fault \in BOOLEAN : FailClosed(now, fault, active, live)
    BY <2>1 DEF StartRefused
  <2>3. UNCHANGED <<issued, succeeded>>
    BY <2>1 DEF StartRefused
  <2> QED
    BY <1>1, <2>2, <2>3, StopImplements DEF Staged!Next
<1>5. CASE \E now \in Nows, h \in Healths, m \in Report :
             StageTerminal(m, h, now)
  <2>1. PICK now \in Nows, h \in Healths, m \in Report :
          StageTerminal(m, h, now)
    BY <1>5
  <2>2. /\ Honest(m) /\ phase \in Busy /\ now \in Times /\ h.src \in Times
        /\ m.task \in TaskIds /\ m.stage \in Stages
    BY <2>1, ClockGood, InputTypes DEF StageTerminal, Admits, Report
  <2>3. CASE UNCHANGED <<phase, ghosts>>
    BY <2>3 DEF ghosts, Staged!vars, Mode
  <2>4. ASSUME NEW fault \in BOOLEAN, Abort(now, fault)
        PROVE  Staged!Next
    BY <1>2, <2>4 DEF Staged!Next
  <2>5. CASE StageFailed(m, now)
    <3>1. PICK act \in {None, active} : FailClosed(now, FALSE, act, live)
      BY <2>5 DEF StageFailed
    <3>2. UNCHANGED <<issued, succeeded>>
      BY <2>5 DEF StageFailed
    <3> QED
      BY <1>1, <3>1, <3>2, StopImplements DEF Staged!Next
  <2>6. CASE /\ Correlated(m.task, m.stage) /\ ContractHolds(m)
             /\ StageSucceeded(m, h, now)
    <3>1. PICK s \in Stages :
            /\ task \in Task /\ active \in Active
            /\ active.cmd = <<task.id, s>>
            /\ \A r \in Stages : r < s => <<task.id, r>> \in succeeded
            /\ \A r \in Stages : r > s => <<task.id, r>> \notin issued
      BY <2>2 DEF IInv, Progress
    <3>2. m.task = task.id /\ m.stage = s
      BY <2>6, <3>1 DEF Correlated
    <3>3. <<task.id, s>> \in succeeded \ live
      BY <2>2, <2>6, <3>2 DEF Honest, ContractHolds
    <3>4. live = {}
      <4>1. live \subseteq {<<task.id, s>>}
        BY <2>2, <3>1 DEF IInv, OnlyActiveMoves, ActiveCommands, Busy,
           PlanPhases, ExecPhases
      <4> QED
        BY <3>3, <4>1
    <3>5. UNCHANGED succeeded /\ task.id \in TaskIds
      BY <2>6, <3>1 DEF StageSucceeded, Task
    <3>6. CASE s = LastStage
      <4>1. phase' = "COMPLETE" /\ UNCHANGED <<live, issued>>
        BY <2>6, <3>2, <3>6 DEF StageSucceeded
      <4>2. \A r \in Stages : <<task.id, r>> \in succeeded
        BY <3>1, <3>3, <3>6 DEF LastStage
      <4>3. Mode = "moving" /\ Mode' = "complete"
        BY <2>2, <4>1 DEF Mode, Busy, PlanPhases, ExecPhases
      <4> QED
        BY <3>4, <3>5, <4>1, <4>2, <4>3 DEF Staged!Next, Staged!Complete
    <3>7. CASE s # LastStage
      <4>1. Issues(task, s + 1, now, h.src)
        BY <2>6, <3>2, <3>7 DEF StageSucceeded
      <4>2. /\ s + 1 \in Stages /\ s + 1 # 0
            /\ \A r \in Stages : r < s + 1 => <<task.id, r>> \in succeeded
            /\ <<task.id, s + 1>> \notin issued
        BY <3>1, <3>3, <3>7 DEF LastStage
      <4>3. Staged!Release(<<task.id, s + 1>>)
        BY <1>1, <2>2, <3>1, <3>4, <3>5, <4>1, <4>2, IssueImplements
      <4>4. <<task.id, s + 1>> \in Staged!Motions
        BY <3>5, <4>2 DEF Staged!Motions
      <4> QED
        BY <4>3, <4>4 DEF Staged!Next
    <3> QED
      BY <3>6, <3>7
  <2>7. CASE Correlated(m.task, m.stage) /\ Abort(now, m.echo \in ClockEchoes)
    <3>1. (m.echo \in ClockEchoes) \in BOOLEAN
      OBVIOUS
    <3> QED
      BY <2>4, <2>7, <3>1
  <2>8. CASE Abort(now, FALSE)
    BY <2>4, <2>8
  <2> QED
    BY <2>1, <2>3, <2>5, <2>6, <2>7, <2>8 DEF StageTerminal
<1>6. CASE \E now \in Nows, h \in Healths : EventRefused(h, now)
  <2>1. PICK now \in Nows, fault \in BOOLEAN : Abort(now, fault)
    BY <1>6 DEF EventRefused
  <2> QED
    BY <1>2, <2>1 DEF Staged!Next
<1>7. CASE \E now \in Nows, h \in Healths : Tick(h, now)
  <2>1. \/ \E now \in Nows, fault \in BOOLEAN : Abort(now, fault)
        \/ UNCHANGED <<phase, ghosts>>
    BY <1>7 DEF Tick, Noted, vars
  <2> QED
    BY <1>2, <2>1 DEF Staged!Next, Staged!vars, Mode, ghosts
<1>8. CASE \E now \in Nows, h \in Healths, id \in TaskIds, s \in Stages :
             ExecutionStarted(id, s, h, now)
  <2>1. PICK now \in Nows, h \in Healths, id \in TaskIds, s \in Stages :
          ExecutionStarted(id, s, h, now)
    BY <1>8
  <2>2. CASE Abort(now, FALSE)
    BY <1>2, <2>2 DEF Staged!Next
  <2>3. CASE /\ phase' = IF phase \in PlanPhases THEN ExecPhase[s] ELSE phase
             /\ Noted(h, now)
    <3>1. ExecPhase[s] \in ExecPhases
      BY DEF ExecPhase, ExecPhases
    <3>2. Mode' = Mode
      BY <2>3, <3>1 DEF Mode, ExecPhases, PlanPhases
    <3> QED
      BY <2>3, <3>2 DEF Noted, ghosts, Staged!vars
  <2>4. CASE Noted(h, now) /\ UNCHANGED phase
    BY <2>4 DEF Noted, ghosts, Staged!vars, Mode
  <2> QED
    BY <2>1, <2>2, <2>3, <2>4 DEF ExecutionStarted
<1>9. CASE \E now \in Nows, m \in Report : LateTerminal(m, now)
  BY <1>9 DEF LateTerminal, ghosts, Staged!vars, Mode
<1>10. CASE \E now \in Nows : \/ StartInvalid(now) \/ InvalidTerminal(now)
                              \/ RequestStop(now) \/ IdleClock(now)
  <2>1. PICK now \in Nows : \/ StartInvalid(now) \/ InvalidTerminal(now)
                            \/ RequestStop(now) \/ IdleClock(now)
    BY <1>10
  <2>2. \/ \E fault \in BOOLEAN : Abort(now, fault)
        \/ UNCHANGED <<phase, ghosts>>
    BY <2>1 DEF StartInvalid, InvalidTerminal, RequestStop, IdleClock, ClockBad
  <2> QED
    BY <1>2, <2>2 DEF Staged!Next, Staged!vars, Mode, ghosts
<1>11. CASE \E now \in Nows, e \in Epochs, x \in BOOLEAN : Reset(now, e, x)
  <2>1. phase' = "IDLE" /\ phase \in {"SAFE_STOP", "COMPLETE"}
        /\ UNCHANGED <<live, succeeded, issued>>
    BY <1>11 DEF Reset, Fresh, ghosts
  <2>2. live = {}
    BY <1>11 DEF Reset, IInv, StopEvidence, OnlyActiveMoves, Resting,
       ActiveCommands
  <2> QED
    BY <2>1, <2>2 DEF Staged!Next, Staged!Recover, Mode
<1>12. CASE \E c \in Commands, ok \in BOOLEAN : DownstreamEnds(c, ok)
  <2>1. PICK c \in Commands, ok \in BOOLEAN : DownstreamEnds(c, ok)
    BY <1>12
  <2>2. Staged!End(c)
    BY <2>1 DEF DownstreamEnds, Staged!End, Mode
  <2> QED
    BY <2>2 DEF Staged!Next, Staged!Motions
<1>13. CASE UNCHANGED vars
  BY <1>13 DEF vars, ghosts, Staged!vars, Mode
<1> QED
  BY <1>3, <1>4, <1>5, <1>6, <1>7, <1>8, <1>9, <1>10, <1>11, <1>12, <1>13
  DEF Next

(* The coordinator implements its abstract specification: motions are      *)
(* released one at a time and in order, a stop releases nothing, and work  *)
(* resumes only at a standstill.                                           *)
THEOREM CoordinatorImplementsStagedMotion == Spec => Staging
<1>1. Init => Staged!Init
  BY DEF Init, Staged!Init, Mode
<1>2. IInv /\ [Next]_vars => [Staged!Next]_(Staged!vars)
  BY StepImplements
<1> QED
  BY <1>1, <1>2, Invariance, PTL DEF Spec, Staging, Staged!Spec
=============================================================================
