---------------------------- MODULE PipelineProofs ----------------------------
(***************************************************************************)
(* Proofs about Pipeline, for every set of targets, every bound on time,   *)
(* epochs and nesting, and every freshness and watchdog limit.  What makes *)
(* the invariants inductive is Owned: a PLANNING or EXECUTING state always *)
(* belongs to the innermost call, and nothing it was accepted with has     *)
(* changed since.                                                          *)
(***************************************************************************)
EXTENDS Pipeline, SequenceTheorems, TLAPS

(* While the state is PLANNING the innermost call is the planning one, in  *)
(* the epoch and with the receipt and the observation it was accepted      *)
(* with; while it is EXECUTING the innermost call is the executing one.    *)
Owned ==
  /\ state = "PLANNING" =>
       /\ stack # <<>> /\ Top.pc = "planning" /\ seen # None
       /\ Top.epoch = epoch /\ Top.at = lastReceive /\ Top.src = seen.src
  /\ state = "EXECUTING" => stack # <<>> /\ Top.pc = "executing"

IInv == TypeOK /\ StillUnlessExecuting /\ Owned

LEMMA InitIInv == Init => IInv
<1> SUFFICES ASSUME Init PROVE IInv
  OBVIOUS
<1>1. stack \in Seq(Frame) /\ Len(stack) <= MaxDepth
  BY PipelineConstants, EmptySeq DEF Init
<1>2. state \in States /\ lastNow \in Nows /\ lastReceive \in -1..lastNow
  BY DEF Init, States, Nows
<1>3. epoch \in 0..MaxEpoch
  BY PipelineConstants DEF Init
<1>4. TypeOK
  BY <1>1, <1>2, <1>3 DEF Init, TypeOK
<1> QED
  BY <1>4 DEF Init, IInv, StillUnlessExecuting, Owned

(* The call on top of a well-typed stack is a frame, and popping it leaves *)
(* a well-typed stack that is no deeper.                                   *)
LEMMA TopType ==
  ASSUME TypeOK, stack # <<>>
  PROVE  Top \in Frame /\ Len(stack) \in 1..MaxDepth
  BY PipelineConstants DEF TypeOK, Top

LEMMA PopType ==
  ASSUME TypeOK, stack # <<>>, Pop
  PROVE  stack' \in Seq(Frame) /\ Len(stack') <= MaxDepth
<1>1. Len(stack) \in 1..MaxDepth /\ stack \in Seq(Frame)
  BY TopType DEF TypeOK
<1>2. \A i \in 1..(Len(stack) - 1) : stack[i] \in Frame
  BY <1>1
<1>3. /\ SubSeq(stack, 1, Len(stack) - 1) \in Seq(Frame)
      /\ Len(SubSeq(stack, 1, Len(stack) - 1))
           = IF 1 <= Len(stack) - 1 THEN Len(stack) - 1 - 1 + 1 ELSE 0
  BY <1>1, <1>2, SubSeqProperties
<1> QED
  BY <1>1, <1>3, PipelineConstants DEF Pop

(* The watermark only grows by a reading that is not a clock fault.        *)
LEMMA GoodReading ==
  ASSUME TypeOK, NEW now \in Nows, ~ClockBad(now)
  PROVE  now \in Times /\ now >= lastNow /\ lastReceive \in -1..now
  BY PipelineConstants DEF TypeOK, Nows, Times, ClockBad

(* A stop leaves a controller that is latched, or that was still.          *)
LEMMA SafeStopEffect ==
  ASSUME IInv, NEW stopOk \in BOOLEAN, SafeStop(stopOk)
  PROVE  /\ state' \in Latched /\ moving' \in BOOLEAN
         /\ moving' => state' = "ERROR"
  BY DEF IInv, TypeOK, StillUnlessExecuting, SafeStop, Latched

LEMMA EnterErrorEffect ==
  ASSUME IInv, NEW stopOk \in BOOLEAN, EnterError(stopOk)
  PROVE  /\ state' \in Latched /\ moving' \in BOOLEAN /\ raised' \in BOOLEAN
         /\ moving' => state' = "ERROR"
  BY DEF IInv, TypeOK, StillUnlessExecuting, EnterError, Latched

(* A step into a latched state that keeps the types keeps the invariant.   *)
LEMMA LatchedKeepsIInv ==
  ASSUME TypeOK', state' \in Latched, moving' => state' = "ERROR"
  PROVE  IInv'
  BY DEF IInv, StillUnlessExecuting, Owned, Latched

LEMMA RefusedKeepsIInv ==
  ASSUME IInv, NEW t \in Target, NEW now \in Nows, NEW stopOk \in BOOLEAN,
         TargetRefused(t, now, stopOk)
  PROVE  IInv'
<1>1. state' \in Latched /\ moving' \in BOOLEAN /\ (moving' => state' = "ERROR")
  BY SafeStopEffect DEF TargetRefused
<1>2. lastNow' \in Nows /\ lastReceive' \in -1..lastNow'
  BY GoodReading, PipelineConstants DEF TargetRefused, IInv, TypeOK, Nows, Times
<1>3. TypeOK'
  BY <1>1, <1>2 DEF TargetRefused, IInv, TypeOK, States, Latched, ClockBad
<1> QED
  BY <1>1, <1>3, LatchedKeepsIInv

LEMMA PlannedKeepsIInv ==
  ASSUME IInv, NEW t \in Target, NEW now \in Nows, NEW exec \in Nows,
         TargetPlanned(t, now, exec)
  PROVE  IInv'
<1> DEFINE f == [pc |-> "planning", src |-> t.src, at |-> now,
                 exec |-> exec, epoch |-> epoch]
<1>1. now \in Times /\ t.id \in Ids /\ t.src \in Times
  BY GoodReading DEF TargetPlanned, IInv, Target
<1>2. f \in Frame
  BY <1>1 DEF Frame, IInv, TypeOK
<1>3. stack \in Seq(Frame) /\ stack' = Append(stack, f) /\ Len(stack) < MaxDepth
  BY DEF TargetPlanned, IInv, TypeOK
<1>4. /\ stack' \in Seq(Frame) /\ stack' # <<>>
      /\ Len(stack') = Len(stack) + 1 /\ stack'[Len(stack) + 1] = f
  BY <1>2, <1>3, AppendProperties
<1>5. Len(stack') <= MaxDepth /\ Top' = f
  BY <1>3, <1>4, PipelineConstants DEF Top
<1>6. seen' \in Seen /\ seen' # None /\ seen'.src = t.src
  BY <1>1, PipelineConstants DEF TargetPlanned, Seen
<1>7. TypeOK'
  BY <1>1, <1>4, <1>5, <1>6, PipelineConstants
  DEF TargetPlanned, IInv, TypeOK, States, Nows, Times
<1>8. StillUnlessExecuting'
  BY DEF TargetPlanned, IInv, StillUnlessExecuting
<1>9. Owned'
  <2>1. state' = "PLANNING" /\ epoch' = epoch /\ lastReceive' = now
    BY DEF TargetPlanned
  <2>2. f.pc = "planning" /\ f.epoch = epoch /\ f.at = now /\ f.src = t.src
    OBVIOUS
  <2> HIDE DEF f
  <2> QED
    BY <1>4, <1>5, <1>6, <2>1, <2>2 DEF Owned
<1> QED
  BY <1>7, <1>8, <1>9 DEF IInv

(* A call that ends in a failure leaves the controller latched.            *)
LEMMA RaisesKeepsIInv ==
  ASSUME IInv, NEW stopOk \in BOOLEAN,
         PlannerRaises(stopOk) \/ ExecuteRaises(stopOk)
  PROVE  IInv'
<1>1. /\ stack # <<>> /\ Pop /\ EnterError(stopOk)
      /\ UNCHANGED <<seen, lastNow, lastReceive, clockFault, epoch>>
  BY DEF PlannerRaises, ExecuteRaises
<1>2. /\ state' \in Latched /\ moving' \in BOOLEAN /\ raised' \in BOOLEAN
      /\ moving' => state' = "ERROR"
  BY <1>1, EnterErrorEffect
<1>3. stack' \in Seq(Frame) /\ Len(stack') <= MaxDepth
  BY <1>1, PopType DEF IInv
<1>4. TypeOK'
  BY <1>1, <1>2, <1>3 DEF IInv, TypeOK, States, Latched
<1> QED
  BY <1>2, <1>4, LatchedKeepsIInv

LEMMA DroppedKeepsIInv ==
  ASSUME IInv, NEW valid \in BOOLEAN, NEW stopOk \in BOOLEAN,
         PlanDropped(valid, stopOk)
  PROVE  IInv'
<1>1. /\ stack # <<>> /\ Top.pc = "planning" /\ Pop
      /\ UNCHANGED <<seen, lastReceive, epoch, raised>>
  BY DEF PlanDropped
<1>2. Top.exec \in Nows
  BY <1>1, TopType DEF IInv, Frame
<1>3. stack' \in Seq(Frame) /\ Len(stack') <= MaxDepth
  BY <1>1, PopType DEF IInv
<1>4. lastNow' \in Nows /\ lastReceive' \in -1..lastNow' /\ clockFault' \in BOOLEAN
  BY <1>1, <1>2, GoodReading, PipelineConstants
  DEF PlanDropped, IInv, TypeOK, Nows, Times, ClockBad
<1>5. CASE state = "PLANNING"
  <2>1. SafeStop(stopOk)
    BY <1>5 DEF PlanDropped
  <2>2. state' \in Latched /\ moving' \in BOOLEAN /\ (moving' => state' = "ERROR")
    BY <2>1, SafeStopEffect
  <2>3. TypeOK'
    BY <1>1, <1>3, <1>4, <2>2 DEF IInv, TypeOK, States, Latched
  <2> QED
    BY <2>2, <2>3, LatchedKeepsIInv
<1>6. CASE state # "PLANNING"
  <2>1. state' = state /\ moving' = moving /\ state # "EXECUTING"
    BY <1>1, <1>6 DEF PlanDropped, IInv, Owned
  <2>2. TypeOK'
    BY <1>1, <1>3, <1>4, <2>1 DEF IInv, TypeOK
  <2> QED
    BY <1>6, <2>1, <2>2 DEF IInv, StillUnlessExecuting, Owned
<1> QED
  BY <1>5, <1>6

LEMMA ExecutedKeepsIInv ==
  ASSUME IInv, PlanExecuted
  PROVE  IInv'
<1> DEFINE f == [Top EXCEPT !.pc = "executing"]
<1>1. Top \in Frame /\ Len(stack) \in 1..MaxDepth /\ stack \in Seq(Frame)
  BY TopType DEF PlanExecuted, IInv, TypeOK
<1>2. f \in Frame /\ f.pc = "executing" /\ Top.exec \in Nows
  BY <1>1 DEF Frame
<1>3. stack' = [stack EXCEPT ![Len(stack)] = f]
  BY DEF PlanExecuted, Top
<1> HIDE DEF f
<1>4. /\ stack' \in Seq(Frame) /\ Len(stack') = Len(stack)
      /\ stack'[Len(stack)] = f
  BY <1>1, <1>2, <1>3, ExceptSeq
<1>5. Top' = f /\ stack' # <<>> /\ Len(stack') <= MaxDepth
  BY <1>1, <1>4, PipelineConstants DEF Top
<1>6. lastNow' \in Nows /\ lastReceive' \in -1..lastNow'
  BY <1>2, GoodReading DEF PlanExecuted, IInv, Nows
<1>7. TypeOK'
  BY <1>4, <1>5, <1>6 DEF PlanExecuted, IInv, TypeOK, States
<1> QED
  BY <1>2, <1>5, <1>7 DEF PlanExecuted, IInv, StillUnlessExecuting, Owned

LEMMA ReturnsKeepsIInv ==
  ASSUME IInv, NEW success \in BOOLEAN, ExecuteReturns(success)
  PROVE  IInv'
<1>1. /\ stack # <<>> /\ Top.pc = "executing" /\ Pop /\ moving' = FALSE
      /\ UNCHANGED <<seen, lastNow, lastReceive, clockFault, epoch, raised>>
  BY DEF ExecuteReturns
<1>2. stack' \in Seq(Frame) /\ Len(stack') <= MaxDepth
  BY <1>1, PopType DEF IInv
<1>3. state' \in States \ {"PLANNING", "EXECUTING"}
  BY <1>1 DEF ExecuteReturns, IInv, TypeOK, Owned, States
<1> QED
  BY <1>1, <1>2, <1>3 DEF IInv, TypeOK, StillUnlessExecuting, Owned

LEMMA WatchKeepsIInv ==
  ASSUME IInv, NEW now \in Nows, NEW stopOk \in BOOLEAN,
         Tick(now, stopOk) \/ Stop(now, stopOk)
  PROVE  IInv'
<1>1. /\ lastNow' = IF ClockBad(now) THEN lastNow ELSE now
      /\ clockFault' = (clockFault \/ ClockBad(now))
      /\ UNCHANGED <<stack, seen, lastReceive, epoch, raised>>
      /\ SafeStop(stopOk) \/ UNCHANGED <<state, moving>>
  BY DEF Tick, Stop
<1>2. lastNow' \in Nows /\ lastReceive' \in -1..lastNow' /\ clockFault' \in BOOLEAN
  BY <1>1, GoodReading, PipelineConstants DEF IInv, TypeOK, Nows, Times, ClockBad
<1>3. CASE SafeStop(stopOk)
  <2>1. state' \in Latched /\ moving' \in BOOLEAN /\ (moving' => state' = "ERROR")
    BY <1>3, SafeStopEffect
  <2>2. TypeOK'
    BY <1>1, <1>2, <2>1 DEF IInv, TypeOK, States, Latched
  <2> QED
    BY <2>1, <2>2, LatchedKeepsIInv
<1>4. CASE UNCHANGED <<state, moving>>
  <2>1. TypeOK'
    BY <1>1, <1>2, <1>4 DEF IInv, TypeOK
  <2> QED
    BY <1>1, <1>4, <2>1 DEF IInv, StillUnlessExecuting, Owned, Top
<1> QED
  BY <1>1, <1>3, <1>4

LEMMA ResetKeepsIInv ==
  ASSUME IInv, NEW now \in Nows, NEW newEpoch \in BOOLEAN,
         NEW stopOk \in BOOLEAN, Reset(now, newEpoch, stopOk)
  PROVE  IInv'
<1>1. now \in Times
  BY PipelineConstants DEF Reset, Nows, Times
<1>2. CASE MustStop /\ ~stopOk
  <2>1. /\ state' = "ERROR" /\ moving' = moving
        /\ lastNow' = IF newEpoch THEN lastNow ELSE now
        /\ UNCHANGED <<seen, lastReceive, epoch, clockFault, stack, raised>>
    BY <1>2 DEF Reset, IInv, TypeOK
  <2>2. lastNow' \in Nows /\ lastReceive' \in -1..lastNow'
    BY <2>1, GoodReading DEF Reset, IInv, TypeOK
  <2>3. TypeOK'
    BY <2>1, <2>2 DEF IInv, TypeOK, States
  <2> QED
    BY <2>1, <2>3, LatchedKeepsIInv DEF Latched
<1>3. CASE ~(MustStop /\ ~stopOk)
  <2>0. /\ state' = "IDLE" /\ seen' = None /\ lastReceive' = -1 /\ lastNow' = now
        /\ epoch' = IF newEpoch THEN epoch + 1 ELSE epoch
        /\ clockFault' = (clockFault /\ ~newEpoch)
        /\ UNCHANGED <<stack, raised>>
    BY <1>3 DEF Reset, Forget
  <2>01. epoch \in 0..MaxEpoch /\ (newEpoch => epoch < MaxEpoch)
    BY DEF Reset, IInv, TypeOK
  <2>1. /\ state' = "IDLE" /\ seen' = None /\ lastReceive' = -1 /\ lastNow' = now
        /\ epoch' \in 0..MaxEpoch /\ clockFault' \in BOOLEAN
        /\ UNCHANGED <<stack, raised>>
    BY <2>0, <2>01, PipelineConstants
  <2>2. moving' = FALSE
    BY <1>3 DEF Reset, MustStop, IInv, TypeOK, StillUnlessExecuting
  <2>3. lastNow' \in Nows /\ lastReceive' \in -1..lastNow'
    BY <1>1, <2>1, PipelineConstants DEF Nows, Times
  <2>4. TypeOK'
    BY <2>1, <2>2, <2>3 DEF IInv, TypeOK, States
  <2> QED
    BY <2>1, <2>2, <2>4 DEF IInv, StillUnlessExecuting, Owned
<1> QED
  BY <1>2, <1>3

LEMMA NextKeepsIInv == IInv /\ [Next]_vars => IInv'
<1> SUFFICES ASSUME IInv, [Next]_vars PROVE IInv'
  OBVIOUS
<1>1. CASE UNCHANGED vars
  BY <1>1 DEF vars, IInv, TypeOK, StillUnlessExecuting, Owned, Top
<1>2. ASSUME NEW now \in Nows, ResetRollback(now)
      PROVE  IInv'
  BY <1>2 DEF ResetRollback, IInv, TypeOK, StillUnlessExecuting, Owned, Top
<1> QED
  BY <1>1, <1>2, RefusedKeepsIInv, PlannedKeepsIInv, RaisesKeepsIInv,
     DroppedKeepsIInv, ExecutedKeepsIInv, ReturnsKeepsIInv, WatchKeepsIInv,
     ResetKeepsIInv DEF Next

LEMMA Invariance == Spec => []IInv
  BY InitIInv, NextKeepsIInv, PTL DEF Spec

(* The types hold, and the watchdog's receipt belongs to the epoch: it is  *)
(* not ahead of the clock, and exists with the predictor's observation.    *)
THEOREM PipelineTypes == Spec => []TypeOK
<1>1. IInv => TypeOK
  BY DEF IInv
<1> QED
  BY <1>1, Invariance, PTL

(* IDLE, TRACKING, PLANNING and SAFE_STOP never hide a moving backend,     *)
(* whatever callbacks stop, reset and restart the nested calls.            *)
THEOREM StillnessIsKept == Spec => []StillUnlessExecuting
<1>1. IInv => StillUnlessExecuting
  BY DEF IInv
<1> QED
  BY <1>1, Invariance, PTL

(* A plan reaches the backend only in the epoch, with the receipt and the  *)
(* observation it was made for, fresh and within the watchdog's budget.    *)
THEOREM ExecutionBoundary == Spec => ExecutionIsSafe
<1> DEFINE A == state # "EXECUTING" /\ state' = "EXECUTING" =>
       /\ Top.epoch = epoch /\ Top.at = lastReceive /\ Top.src = seen.src
       /\ lastNow' - Top.src \in 0..MaxAge
       /\ lastNow' - lastReceive \in 0..WatchdogTimeout
<1>1. ASSUME IInv, [Next]_vars, state # "EXECUTING", state' = "EXECUTING"
      PROVE  PlanExecuted
  <2>1. /\ \A t, now, s : ~TargetRefused(t, now, s)
        /\ \A t, now, e : ~TargetPlanned(t, now, e)
        /\ \A s : ~PlannerRaises(s) /\ ~ExecuteRaises(s)
        /\ \A v, s : ~PlanDropped(v, s)
        /\ \A s : ~ExecuteReturns(s)
        /\ \A now, s : ~Tick(now, s) /\ ~Stop(now, s)
        /\ \A now : ~ResetRollback(now)
        /\ \A now, e, s : ~Reset(now, e, s)
    BY <1>1
    DEF TargetRefused, TargetPlanned, PlannerRaises, ExecuteRaises, PlanDropped,
        ExecuteReturns, Tick, Stop, ResetRollback, Reset, SafeStop, EnterError
  <2> QED
    BY <1>1, <2>1 DEF Next, vars
<1>2. ASSUME IInv, PlanExecuted
      PROVE  A
  <2>1. Top \in Frame /\ Top.exec \in Nows
    BY <1>2, TopType DEF PlanExecuted, IInv, Frame
  <2>2. Top.exec >= lastNow /\ lastReceive \in -1..Top.exec
    BY <1>2, <2>1, GoodReading DEF PlanExecuted, IInv
  <2>3. lastReceive \in Int /\ lastReceive <= Top.exec /\ Top.exec \in Int
    BY <2>1, <2>2, PipelineConstants DEF Nows, Times
  <2> QED
    BY <1>2, <2>3, PipelineConstants
    DEF PlanExecuted, IInv, Owned, Fresh, Silent
<1>3. IInv /\ [Next]_vars => [A]_vars
  BY <1>1, <1>2
<1> QED
  BY <1>3, Invariance, PTL DEF Spec, ExecutionIsSafe

(* Within an epoch the clock never goes back and a clock fault is never    *)
(* forgiven.                                                               *)
THEOREM EpochBoundary == Spec => EpochsSeparateTime
<1> DEFINE A == epoch' = epoch => lastNow' >= lastNow /\ (clockFault => clockFault')
<1>1. ASSUME IInv, [Next]_vars
      PROVE  [A]_vars
  <2>1. lastNow \in Int /\ \A now \in Nows : now \in Int
    BY <1>1, PipelineConstants DEF IInv, TypeOK, Nows, Times
  <2>2. \A now \in Nows : ~ClockBad(now) => now >= lastNow
    BY <1>1, GoodReading DEF IInv
  <2>3. stack # <<>> => Top.exec \in Nows
    BY <1>1, TopType DEF IInv, Frame
  <2>4. ASSUME NEW now \in Nows, NEW e \in BOOLEAN, NEW s \in BOOLEAN,
               Reset(now, e, s)
        PROVE  A
    BY <2>1, <2>2, <2>4, <1>1 DEF Reset, IInv, TypeOK
  <2>5. ASSUME NEW v \in BOOLEAN, NEW s \in BOOLEAN, PlanDropped(v, s)
        PROVE  A
    BY <2>1, <2>2, <2>3, <2>5 DEF PlanDropped
  <2>6. PlanExecuted => A
    BY <2>1, <2>2, <2>3 DEF PlanExecuted
  <2>7. ASSUME NEW now \in Nows, NEW s \in BOOLEAN,
               \/ \E t \in Target : TargetRefused(t, now, s)
               \/ \E t \in Target, exec \in Nows : TargetPlanned(t, now, exec)
               \/ Tick(now, s) \/ Stop(now, s) \/ ResetRollback(now)
        PROVE  A
    <3>1. \/ lastNow' = lastNow
          \/ ~ClockBad(now) /\ lastNow' = now
      BY <2>7 DEF TargetRefused, TargetPlanned, Tick, Stop, ResetRollback
    <3>2. clockFault => clockFault'
      BY <2>7 DEF TargetRefused, TargetPlanned, Tick, Stop, ResetRollback
    <3> QED
      BY <2>1, <2>2, <3>1, <3>2
  <2>8. ASSUME NEW s \in BOOLEAN, NEW b \in BOOLEAN,
               PlannerRaises(s) \/ ExecuteRaises(s) \/ ExecuteReturns(b)
        PROVE  A
    BY <2>1, <2>8 DEF PlannerRaises, ExecuteRaises, ExecuteReturns
  <2> QED
    BY <1>1, <2>4, <2>5, <2>6, <2>7, <2>8 DEF Next
<1> QED
  BY <1>1, Invariance, PTL DEF Spec, EpochsSeparateTime

=============================================================================
