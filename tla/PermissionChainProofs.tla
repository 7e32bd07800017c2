------------------------- MODULE PermissionChainProofs -------------------------
(***************************************************************************)
(* Proofs about the chain from a target to a permitted motion.  What is    *)
(* true of a permission is a statement about the message (Good) that every *)
(* handler must leave true of all messages on the topic: a later target, a *)
(* reset and a clock that went back included.  Taken is what the monitor's *)
(* memory must say for a handler to publish a good message, Told what is   *)
(* left of one at the consumer.                                            *)
(***************************************************************************)
EXTENDS PermissionChain, SequenceTheorems, TLAPS

(* What the monitor remembers of its targets is when they arrived.         *)
Taken ==
  /\ latest <= lastSource
  /\ latest # -1 => lastReceive # -1 /\ received[latest] = lastReceive
  /\ pending # -1 => pendingReceive # -1 /\ received[pending] = pendingReceive
  /\ lastReceive <= lastClock /\ pendingReceive <= lastClock

(* A message on the topic is not overdue and of no later epoch.  If it     *)
(* permits motion its target was fresh when it was sent, and, while its    *)
(* epoch lasts, that target is known to have arrived in time.              *)
Good(m) ==
  /\ m.epoch <= epoch /\ clock - m.at <= MaxDelay
  /\ m.allowed => m.src # -1 /\ m.at - m.src \in 0..MaxAge
  /\ m.allowed /\ m.epoch = epoch =>
       /\ m.src <= lastSource /\ received[m.src] # -1
       /\ m.at - received[m.src] \in 0..WatchdogTimeout

Wired == \A i \in DOMAIN wire : Good(wire[i])

(* What the consumer was last told, if it was a permission.                *)
Told == allowed = "yes" /\ ~fault =>
          heard # -1 /\ signal - heard <= MaxAge + MaxDelay

IInv == TypeOK /\ Taken /\ Wired /\ LatchedDenies /\ Told

Note(b, src, of) == [allowed |-> b, src |-> IF b THEN src ELSE -1,
                     at |-> clock, epoch |-> of]

USE MonitorConstants, ChainConstants DEF targets, mvars, consumer, Times,
    MaybeTime

(* A full queue drops its oldest message for the new one.                  *)
LEMMA PublishWire ==
  ASSUME TypeOK, NEW b \in BOOLEAN, NEW s \in MaybeTime, NEW e \in 0..MaxEpoch,
         Publish(b, s, e)
  PROVE  /\ wire' \in Seq(Message) /\ Len(wire') <= QueueDepth
         /\ wire' # <<>> /\ Last(wire') = Note(b, s, e)
         /\ \A i \in DOMAIN wire' : \/ wire'[i] = Note(b, s, e)
                                    \/ \E j \in DOMAIN wire : wire'[i] = wire[j]
<1> DEFINE m == Note(b, s, e)
           all == Append(wire, m)
<1>1. m \in Message
  BY DEF Note, Message, TypeOK
<1>2. wire \in Seq(Message) /\ Len(wire) <= QueueDepth
  BY DEF TypeOK
<1>3. wire' = IF Len(all) > QueueDepth THEN Tail(all) ELSE all
  BY DEF Publish, Note
<1> HIDE DEF m
<1>4. /\ all \in Seq(Message) /\ all # <<>> /\ Len(all) = Len(wire) + 1
      /\ \A i \in 1..Len(wire) : all[i] = wire[i]
      /\ all[Len(wire) + 1] = m
  BY <1>1, <1>2, AppendProperties
<1>5. Len(wire) \in Nat /\ DOMAIN wire = 1..Len(wire)
  BY <1>2, LenProperties
<1> HIDE DEF all
<1>6. CASE Len(all) > QueueDepth
  <2>1. /\ wire' \in Seq(Message) /\ Len(wire') = Len(all) - 1
        /\ \A i \in 1..Len(wire') : wire'[i] = all[i + 1]
    BY <1>3, <1>4, <1>6, HeadTailProperties
  <2>2. Len(wire') = Len(wire) /\ Len(wire) >= 1 /\ DOMAIN wire' = 1..Len(wire)
    BY <1>2, <1>4, <1>5, <1>6, <2>1
  <2>3. wire'[Len(wire)] = m
    BY <1>4, <1>5, <2>1, <2>2
  <2>4. ASSUME NEW i \in DOMAIN wire'
        PROVE  wire'[i] = m \/ \E j \in DOMAIN wire : wire'[i] = wire[j]
    <3>1. wire'[i] = all[i + 1] /\ i \in 1..Len(wire)
      BY <2>1, <2>2
    <3>2. CASE i = Len(wire)
      BY <2>3, <3>2
    <3>3. CASE i # Len(wire)
      <4>1. i + 1 \in 1..Len(wire)
        BY <1>5, <3>1, <3>3
      <4> QED BY <1>4, <1>5, <3>1, <4>1
    <3> QED BY <3>2, <3>3
  <2>5. wire' # <<>>
    BY <2>2
  <2> QED BY <1>2, <2>1, <2>2, <2>3, <2>4, <2>5 DEF m, Last
<1>7. CASE ~(Len(all) > QueueDepth)
  <2>1. wire' = all
    BY <1>3, <1>7
  <2>2. DOMAIN all = 1..Len(wire) + 1
    BY <1>4, <1>5, LenProperties
  <2>3. \A i \in DOMAIN all : i \in 1..Len(wire) \/ i = Len(wire) + 1
    BY <1>5, <2>2
  <2>4. \A i \in DOMAIN all :
          all[i] = m \/ \E j \in DOMAIN wire : all[i] = wire[j]
    BY <1>4, <1>5, <2>3
  <2>5. Len(all) <= QueueDepth
    BY <1>4, <1>5, <1>7
  <2> QED BY <1>4, <2>1, <2>4, <2>5 DEF m, Last
<1> QED BY <1>6, <1>7

(* What a handler publishes is good if a permission in it is covered, and  *)
(* leaves the messages before it good.                                     *)
Covered(s) ==
  /\ s # -1 /\ clock - s \in 0..MaxAge /\ s <= lastSource
  /\ received[s] # -1 /\ clock - received[s] \in 0..WatchdogTimeout

Remembers ==
  \/ /\ epoch' = epoch
     /\ lastSource' \in MaybeTime /\ lastSource <= lastSource'
     /\ \A t \in Times : t <= lastSource => received'[t] = received[t]
  \/ epoch' = epoch + 1

(* A step that remembers what arrived leaves a good message good.          *)
LEMMA GoodKept ==
  ASSUME TypeOK, UNCHANGED clock, Remembers, NEW m \in Message, Good(m)
  PROVE  Good(m)'
<1>1. /\ m.src \in MaybeTime /\ m.epoch \in 0..MaxEpoch /\ m.allowed \in BOOLEAN
      /\ m.at \in Times /\ epoch \in 0..MaxEpoch
      /\ lastSource \in MaybeTime /\ MaxEpoch \in Nat
  BY DEF Message, TypeOK
<1>2. CASE epoch' = epoch + 1
  BY <1>1, <1>2 DEF Good
<1>3. CASE /\ epoch' = epoch
           /\ lastSource' \in MaybeTime /\ lastSource <= lastSource'
           /\ \A t \in Times : t <= lastSource => received'[t] = received[t]
  <2>1. /\ m.epoch <= epoch' /\ clock' - m.at <= MaxDelay
        /\ m.allowed => m.src # -1 /\ m.at - m.src \in 0..MaxAge
    BY <1>3 DEF Good
  <2>2. ASSUME m.allowed, m.epoch = epoch'
        PROVE  /\ m.src <= lastSource' /\ received'[m.src] # -1
               /\ m.at - received'[m.src] \in 0..WatchdogTimeout
    <3>1. /\ m.src <= lastSource /\ received[m.src] # -1 /\ m.src # -1
          /\ m.at - received[m.src] \in 0..WatchdogTimeout
      BY <1>3, <2>2 DEF Good
    <3>2. received'[m.src] = received[m.src]
      BY <1>1, <1>3, <3>1
    <3>3. m.src <= lastSource'
      BY <1>1, <1>3, <3>1
    <3> QED BY <3>1, <3>2, <3>3
  <2> QED BY <2>1, <2>2 DEF Good
<1> QED BY <1>2, <1>3 DEF Remembers

(* A handler that publishes only what is covered keeps the topic good.     *)
LEMMA PublishKeeps ==
  ASSUME IInv, NEW b \in BOOLEAN, NEW s \in MaybeTime,
         epoch' \in 0..MaxEpoch, Publish(b, s, epoch'),
         UNCHANGED clock, Remembers, b => Covered(s)', latched' => ~b
  PROVE  /\ wire' \in Seq(Message) /\ Len(wire') <= QueueDepth
         /\ Wired' /\ LatchedDenies'
<1>0. TypeOK /\ Wired
  BY DEF IInv
<1>a. PICK m : m = Note(b, s, epoch')
  OBVIOUS
<1>1. /\ wire' \in Seq(Message) /\ Len(wire') <= QueueDepth
      /\ wire' # <<>> /\ Last(wire') = m
      /\ \A i \in DOMAIN wire' : \/ wire'[i] = m
                                 \/ \E j \in DOMAIN wire : wire'[i] = wire[j]
  BY <1>0, <1>a, PublishWire
<1>2. clock \in Times
  BY <1>0 DEF TypeOK
<1>3. /\ m.allowed = b /\ m.at = clock /\ m.epoch = epoch'
      /\ b => m.src = s
  BY <1>a DEF Note
<1>4. Good(m)'
  BY <1>2, <1>3 DEF Good, Covered
<1>5. \A j \in DOMAIN wire : wire[j] \in Message /\ Good(wire[j])
  BY <1>0, ElementOfSeq, LenProperties DEF TypeOK, Wired
<1>6. \A n \in Message : Good(n) => Good(n)'
  BY <1>0, GoodKept
<1>7. ASSUME NEW i \in DOMAIN wire'
      PROVE  Good(wire[i])'
  <2>1. CASE wire'[i] = m
    BY <1>4, <2>1
  <2>2. ASSUME NEW j \in DOMAIN wire, wire'[i] = wire[j]
        PROVE  Good(wire[i])'
    BY <1>5, <1>6, <2>2
  <2> QED BY <1>1, <2>1, <2>2
<1>8. LatchedDenies'
  BY <1>1, <1>3 DEF LatchedDenies
<1> QED BY <1>1, <1>7, <1>8 DEF Wired
-----------------------------------------------------------------------------
(* Every handler of the monitor keeps the invariant.                       *)
LEMMA LatchKeeps ==
  ASSUME IInv, Latch, UNCHANGED <<clock, lastSource, epoch, received>>,
         lastClock' \in {lastClock, clock}, ~Rollback \/ lastClock' = lastClock,
         UNCHANGED <<consumer, rollbacks>>
  PROVE  IInv'
<1>0. TypeOK /\ Taken /\ Told
  BY DEF IInv
<1>1. /\ latched' = TRUE /\ latest' = -1 /\ pending' = -1 /\ pendingReceive' = -1
      /\ lastReceive' = lastReceive /\ Publish(FALSE, -1, epoch')
  BY DEF Latch
<1>2. Remembers /\ epoch' \in 0..MaxEpoch
  BY <1>0 DEF Remembers, TypeOK
<1>3. /\ wire' \in Seq(Message) /\ Len(wire') <= QueueDepth
      /\ Wired' /\ LatchedDenies'
  BY <1>1, <1>2, PublishKeeps
<1>4. TypeOK'
  BY <1>0, <1>1, <1>3 DEF TypeOK
<1>5. Taken'
  BY <1>0, <1>1 DEF Taken, TypeOK, Rollback
<1> QED BY <1>0, <1>3, <1>4, <1>5 DEF IInv, Told

(* A denial that leaves the targets alone.                                 *)
LEMMA DenyKeeps ==
  ASSUME IInv, Publish(FALSE, latest, epoch),
         UNCHANGED <<clock, targets, epoch, received, consumer, rollbacks>>,
         latched' \in BOOLEAN, lastClock' \in {lastClock, clock},
         ~Rollback \/ lastClock' = lastClock
  PROVE  IInv'
<1>0. TypeOK /\ Taken /\ Told
  BY DEF IInv
<1>1. Remembers /\ epoch' \in 0..MaxEpoch /\ latest \in MaybeTime
  BY <1>0 DEF Remembers, TypeOK
<1>2. /\ wire' \in Seq(Message) /\ Len(wire') <= QueueDepth
      /\ Wired' /\ LatchedDenies'
  BY <1>1, PublishKeeps
<1>3. TypeOK'
  BY <1>0, <1>2 DEF TypeOK
<1>4. Taken'
  BY <1>0 DEF Taken, TypeOK, Rollback
<1> QED BY <1>0, <1>2, <1>3, <1>4 DEF IInv, Told

(* The latest target, while it stands, is one whose arrival is known.      *)
LEMMA PriorIsCovered ==
  ASSUME TypeOK, Taken, PriorStands
  PROVE  Covered(latest)
BY DEF TypeOK, Taken, PriorStands, Covered, Fresh

(* _publish_pending_decision, from the target handler or the timer.        *)
LEMMA PendingKeeps ==
  ASSUME IInv, NEW s \in Times, NEW at \in Times, PendingDecision(s, at),
         ~Rollback, ~latched, lastClock' = clock, at <= clock,
         s = lastSource', latest < s, received'[s] = at,
         received' \in [Times -> MaybeTime], Remembers,
         \A t \in Times : t <= lastSource /\ t # s => received'[t] = received[t],
         UNCHANGED <<clock, epoch, consumer, rollbacks>>
  PROVE  IInv'
<1>0. TypeOK /\ Taken /\ Told
  BY DEF IInv
<1>1. epoch' \in 0..MaxEpoch /\ latest \in MaybeTime /\ PriorStands \in BOOLEAN
  BY <1>0 DEF TypeOK, PriorStands
<1>2. latest # -1 => received'[latest] = received[latest]
  BY <1>0, <1>1 DEF Taken, TypeOK
<1>3. CASE s - clock > SkewTolerance
  <2>1. Latch
    BY <1>3 DEF PendingDecision
  <2>2. /\ latched' = TRUE /\ latest' = -1 /\ pending' = -1
        /\ pendingReceive' = -1 /\ lastReceive' = lastReceive
        /\ Publish(FALSE, -1, epoch')
    BY <2>1 DEF Latch
  <2>3. /\ wire' \in Seq(Message) /\ Len(wire') <= QueueDepth
        /\ Wired' /\ LatchedDenies'
    BY <1>1, <2>2, PublishKeeps
  <2>4. TypeOK'
    BY <1>0, <2>2, <2>3 DEF TypeOK
  <2>5. Taken'
    BY <1>0, <2>2 DEF Taken, TypeOK, Rollback
  <2> QED BY <1>0, <2>3, <2>4, <2>5 DEF IInv, Told
<1>4. CASE ~(s - clock > SkewTolerance)
  <2>1. /\ pending' = s /\ pendingReceive' = at
        /\ Publish(PriorStands, latest, epoch')
        /\ UNCHANGED <<latest, lastReceive, latched>>
    BY <1>4 DEF PendingDecision
  <2>2. PriorStands => Covered(latest)'
    <3>1. PriorStands => Covered(latest)
      BY <1>0, PriorIsCovered
    <3> QED BY <1>0, <1>2, <2>1, <3>1 DEF Covered, TypeOK
  <2>3. /\ wire' \in Seq(Message) /\ Len(wire') <= QueueDepth
        /\ Wired' /\ LatchedDenies'
    <3>1. PriorStands => latest' = latest
      BY <2>1
    <3>2. PICK b \in BOOLEAN, l \in MaybeTime : b = PriorStands /\ l = latest
      BY <1>1
    <3>3. b => Covered(l)'
      BY <2>1, <2>2, <3>2
    <3> QED BY <1>1, <2>1, <3>2, <3>3, PublishKeeps
  <2>4. TypeOK'
    BY <1>0, <2>1, <2>3 DEF TypeOK
  <2>5. Taken'
    BY <1>0, <1>2, <2>1 DEF Taken, TypeOK, Rollback
  <2> QED BY <1>0, <2>3, <2>4, <2>5 DEF IInv, Told
<1> QED BY <1>3, <1>4
(* _on_target.                                                             *)
LEMMA TargetKeeps ==
  ASSUME IInv, NEW s \in Times, NEW ok \in BOOLEAN,
         UNCHANGED <<consumer, rollbacks>>,
         \/ TargetLatches(s, ok) \/ TargetAhead(s, ok)
         \/ TargetStale(s, ok) \/ TargetAccepted(s, ok)
  PROVE  IInv'
<1>0. TypeOK /\ Taken /\ Wired /\ LatchedDenies /\ Told
  BY DEF IInv
<1>1. CASE TargetLatches(s, ok)
  BY <1>1, LatchKeeps DEF TargetLatches
<1>2. CASE TargetAhead(s, ok)
  <2>1. /\ ~Rollback /\ ~latched /\ s > lastSource
        /\ lastClock' = clock /\ lastSource' = s
        /\ received' = [received EXCEPT ![s] = clock]
        /\ PendingDecision(s, clock) /\ UNCHANGED <<clock, epoch>>
    BY <1>2 DEF TargetAhead, Acceptable
  <2>2. /\ clock \in Times /\ lastSource \in MaybeTime /\ latest \in MaybeTime
        /\ received \in [Times -> MaybeTime]
    BY <1>0 DEF TypeOK
  <2>3. /\ received' \in [Times -> MaybeTime] /\ received'[s] = clock
        /\ \A t \in Times : t # s => received'[t] = received[t]
    BY <2>1, <2>2
  <2>4. \A t \in Times : t <= lastSource => t # s
    BY <2>1, <2>2
  <2>5. latest < s
    BY <1>0, <2>1, <2>2 DEF Taken
  <2>6. Remembers
    BY <2>1, <2>2, <2>3, <2>4 DEF Remembers
  <2> QED BY <2>1, <2>2, <2>3, <2>5, <2>6, PendingKeeps
<1>3. CASE TargetStale(s, ok)
  BY <1>0, <1>3, DenyKeeps DEF TargetStale, TypeOK
<1>4. CASE TargetAccepted(s, ok)
  <2>1. /\ ~Rollback /\ ~latched /\ s > lastSource /\ Fresh(s)
        /\ lastClock' = clock /\ lastSource' = s
        /\ received' = [received EXCEPT ![s] = clock]
        /\ latest' = s /\ lastReceive' = clock
        /\ pending' = -1 /\ pendingReceive' = -1
        /\ UNCHANGED <<clock, latched, epoch, wire>>
    BY <1>4 DEF TargetAccepted, Acceptable
  <2>2. /\ clock \in Times /\ lastSource \in MaybeTime
        /\ received \in [Times -> MaybeTime]
    BY <1>0 DEF TypeOK
  <2>3. /\ received' \in [Times -> MaybeTime] /\ received'[s] = clock
        /\ \A t \in Times : t # s => received'[t] = received[t]
    BY <2>1, <2>2
  <2>4. \A t \in Times : t <= lastSource => t # s
    BY <2>1, <2>2
  <2>5. Remembers
    BY <2>1, <2>2, <2>3, <2>4 DEF Remembers
  <2>6. \A n \in Message : Good(n) => Good(n)'
    BY <1>0, <2>1, <2>5, GoodKept
  <2>7. \A j \in DOMAIN wire : wire[j] \in Message
    BY <1>0, ElementOfSeq, LenProperties DEF TypeOK
  <2>8. Wired'
    BY <1>0, <2>1, <2>6, <2>7 DEF Wired
  <2>9. TypeOK'
    BY <1>0, <2>1, <2>3 DEF TypeOK
  <2>10. Taken'
    BY <2>1, <2>2, <2>3 DEF Taken
  <2>11. LatchedDenies'
    BY <2>1 DEF LatchedDenies
  <2> QED BY <1>0, <2>8, <2>9, <2>10, <2>11 DEF IInv, Told
<1> QED BY <1>1, <1>2, <1>3, <1>4

(* _evaluate, the timer.                                                   *)
LEMMA EvaluateKeeps ==
  ASSUME IInv, Evaluate, UNCHANGED <<consumer, rollbacks>>
  PROVE  IInv'
<1>0. TypeOK /\ Taken /\ Wired /\ LatchedDenies /\ Told
  BY DEF IInv
<1>1. CASE EvaluateRollback
  BY <1>1, DenyKeeps DEF EvaluateRollback
<1>2. CASE EvaluateLatched
  BY <1>0, <1>2, DenyKeeps DEF EvaluateLatched, TypeOK
<1>3. CASE EvaluateAhead
  <2>1. /\ ~Rollback /\ ~latched /\ pending # -1 /\ lastClock' = clock
        /\ PendingDecision(pending, pendingReceive)
        /\ UNCHANGED <<clock, lastSource, epoch, received>>
    BY <1>3 DEF EvaluateAhead
  <2>2. /\ pending \in Times /\ pendingReceive \in Times /\ latest < pending
        /\ pending = lastSource /\ received[pending] = pendingReceive
        /\ received \in [Times -> MaybeTime]
    BY <1>0, <2>1 DEF TypeOK, Taken
  <2>3. pendingReceive <= clock
    BY <1>0, <2>1, <2>2 DEF Taken, TypeOK, Rollback
  <2>4. Remembers
    BY <1>0, <2>1 DEF Remembers, TypeOK
  <2> QED BY <2>1, <2>2, <2>3, <2>4, PendingKeeps
<1>4. CASE EvaluateTargets
  <2> DEFINE take == pending # -1 /\ Fresh(pending)
             l == IF take THEN pending ELSE latest
             r == IF take THEN pendingReceive ELSE lastReceive
             b == /\ l # -1 /\ r # -1 /\ Fresh(l)
                  /\ clock - r <= WatchdogTimeout
  <2>1. /\ ~Rollback /\ ~latched /\ lastClock' = clock
        /\ latest' = l /\ lastReceive' = r
        /\ pending' = -1 /\ pendingReceive' = -1
        /\ UNCHANGED <<clock, lastSource, epoch, received>>
        /\ latched' = (l # -1 /\ r # -1 /\ Future(l))
        /\ Publish(b, l, epoch)
    BY <1>4 DEF EvaluateTargets, PendingReceipt
  <2>2. /\ l \in MaybeTime /\ r \in MaybeTime /\ l <= lastSource
        /\ l # -1 => r # -1 /\ received[l] = r
        /\ r <= lastClock
    BY <1>0 DEF TypeOK, Taken
  <2>3. /\ clock \in Times /\ lastClock \in MaybeTime /\ lastClock <= clock
    BY <1>0, <2>1 DEF TypeOK, Rollback
  <2>4. b => Covered(l)
    BY <2>2, <2>3 DEF Covered, Fresh
  <2>5. b \in BOOLEAN /\ latched' \in BOOLEAN
    BY <2>1
  <2>6. latched' => ~b
    <3>1. \A x \in MaybeTime : Future(x) => ~Fresh(x)
      BY <2>3 DEF Future, Fresh
    <3>2. latched' => Future(l)
      BY <2>1
    <3>3. b => Fresh(l)
      OBVIOUS
    <3> HIDE DEF b, l
    <3> QED BY <2>2, <3>1, <3>2, <3>3
  <2>7. Remembers /\ epoch' = epoch /\ epoch' \in 0..MaxEpoch
    BY <1>0, <2>1 DEF Remembers, TypeOK
  <2> HIDE DEF b
  <2>8. PICK v \in BOOLEAN, t \in MaybeTime : v = b /\ t = l
    BY <2>2, <2>5
  <2>9. v => Covered(t)'
    BY <2>1, <2>4, <2>8 DEF Covered
  <2>10. /\ wire' \in Seq(Message) /\ Len(wire') <= QueueDepth
         /\ Wired' /\ LatchedDenies'
    <3>1. Publish(v, t, epoch')
      BY <2>1, <2>7, <2>8
    <3>2. latched' => ~v
      BY <2>6, <2>8
    <3> QED BY <2>1, <2>7, <2>8, <2>9, <3>1, <3>2, PublishKeeps
  <2>11. TypeOK'
    BY <1>0, <2>1, <2>2, <2>5, <2>10 DEF TypeOK
  <2>12. Taken'
    BY <2>1, <2>2, <2>3 DEF Taken
  <2> QED BY <1>0, <2>10, <2>11, <2>12 DEF IInv, Told
<1> QED BY <1>1, <1>2, <1>3, <1>4 DEF Evaluate

(* _on_reset.                                                              *)
LEMMA ResetKeeps ==
  ASSUME IInv, OnReset, UNCHANGED <<consumer, rollbacks>>
  PROVE  IInv'
<1>0. TypeOK /\ Told
  BY DEF IInv
<1>1. /\ epoch < MaxEpoch /\ epoch' = epoch + 1 /\ Publish(FALSE, -1, epoch')
      /\ UNCHANGED clock /\ lastClock' = clock /\ latched' = FALSE
      /\ latest' = -1 /\ lastReceive' = -1 /\ pending' = -1
      /\ pendingReceive' = -1 /\ lastSource' = -1
      /\ received' = [s \in Times |-> -1]
  BY DEF OnReset
<1>2. Remembers /\ epoch' \in 0..MaxEpoch
  BY <1>0, <1>1 DEF Remembers, TypeOK
<1>3. /\ wire' \in Seq(Message) /\ Len(wire') <= QueueDepth
      /\ Wired' /\ LatchedDenies'
  BY <1>1, <1>2, PublishKeeps
<1>4. TypeOK'
  BY <1>0, <1>1, <1>2, <1>3 DEF TypeOK
<1>5. Taken'
  BY <1>0, <1>1 DEF Taken, TypeOK
<1> QED BY <1>0, <1>3, <1>4, <1>5 DEF IInv, Told
(* The monitor.                                                            *)
LEMMA MonitorKeeps == IInv /\ Monitor => IInv'
<1> SUFFICES ASSUME IInv, Monitor PROVE IInv'
  OBVIOUS
<1>0. MonitorNext /\ UNCHANGED <<consumer, rollbacks>>
  BY DEF Monitor
<1>1. CASE TargetWhileLatched
  <2>1. TypeOK
    BY DEF IInv
  <2> QED BY <1>0, <1>1, <2>1, DenyKeeps DEF TargetWhileLatched, TypeOK
<1> QED BY <1>0, <1>1, TargetKeeps, EvaluateKeeps, ResetKeeps DEF MonitorNext

-----------------------------------------------------------------------------
(* The clock, the topic and the consumer.                                  *)
LEMMA ClockKeeps ==
  ASSUME IInv, Advance \/ GoBack
  PROVE  IInv'
<1>0. TypeOK /\ Taken /\ Wired /\ LatchedDenies /\ Told
  BY DEF IInv
<1>1. /\ UNCHANGED <<targets, lastClock, latched, epoch, wire, received>>
      /\ UNCHANGED consumer
  BY DEF Advance, GoBack
<1>2. clock \in Times /\ clock' \in Times
  BY <1>0 DEF Advance, GoBack, TypeOK
<1>3. rollbacks' \in 0..MaxRollbacks
  <2>1. rollbacks \in 0..MaxRollbacks
    BY <1>0 DEF TypeOK
  <2>2. \/ rollbacks' = rollbacks
        \/ rollbacks < MaxRollbacks /\ rollbacks' = rollbacks + 1
    BY DEF Advance, GoBack
  <2> QED
    BY <2>1, <2>2
<1>4. TypeOK' /\ Taken' /\ LatchedDenies' /\ Told'
  BY <1>0, <1>1, <1>2, <1>3 DEF TypeOK, Taken, LatchedDenies, Told
<1>5. ASSUME NEW i \in DOMAIN wire
      PROVE  clock' - wire[i].at <= MaxDelay
  <2>1. wire[i] \in Message
    BY <1>0, ElementOfSeq, LenProperties DEF TypeOK
  <2>2. wire[i].at \in Times /\ clock - wire[i].at <= MaxDelay
    BY <1>0, <2>1 DEF Message, Wired, Good
  <2>3. CASE Advance
    BY <1>2, <2>2, <2>3 DEF Advance
  <2>4. CASE GoBack
    BY <1>2, <2>2, <2>4 DEF GoBack
  <2> QED BY <2>3, <2>4
<1>6. Wired'
  BY <1>0, <1>1, <1>5 DEF Wired, Good
<1> QED BY <1>4, <1>6 DEF IInv

(* _on_permission of the consumer.                                         *)
LEMMA DeliverKeeps ==
  ASSUME IInv, Deliver
  PROVE  IInv'
<1>0. TypeOK /\ Taken /\ Wired /\ LatchedDenies /\ Told
  BY DEF IInv
<1>1. /\ wire # <<>> /\ wire' = Tail(wire) /\ heard' = Head(wire).src
      /\ Gate!Update(Head(wire).allowed, clock)
      /\ UNCHANGED <<clock, targets, lastClock, latched, epoch, received,
                     rollbacks>>
  BY DEF Deliver
<1>2. wire \in Seq(Message) /\ Len(wire) <= QueueDepth /\ Len(wire) \in Nat
  BY <1>0, LenProperties DEF TypeOK
<1>3. /\ Head(wire) \in Message /\ wire' \in Seq(Message)
      /\ Len(wire') = Len(wire) - 1
      /\ \A i \in 1..Len(wire') : wire'[i] = wire[i + 1]
  BY <1>1, <1>2, HeadTailProperties
<1>4. Len(wire') \in Nat /\ DOMAIN wire' = 1..Len(wire')
      /\ DOMAIN wire = 1..Len(wire)
  BY <1>2, <1>3, LenProperties
<1>5. Wired'
  <2>1. ASSUME NEW i \in DOMAIN wire'
        PROVE  Good(wire[i + 1]) /\ wire'[i] = wire[i + 1]
    BY <1>0, <1>2, <1>3, <1>4 DEF Wired
  <2> QED BY <1>1, <2>1 DEF Wired, Good
<1>6. LatchedDenies'
  <2>1. ASSUME wire' # <<>>
        PROVE  Last(wire') = Last(wire)
    <3>1. Len(wire') # 0
      BY <1>3, <2>1, EmptySeq
    <3>2. wire'[Len(wire')] = wire[Len(wire)]
      BY <1>2, <1>3, <1>4, <3>1
    <3> QED BY <3>2 DEF Last
  <2> QED BY <1>0, <1>1, <2>1 DEF LatchedDenies
<1>7. Head(wire) = wire[1] /\ 1 \in DOMAIN wire
  BY <1>1, <1>2, <1>4, EmptySeq
<1>8. Good(Head(wire))
  BY <1>0, <1>7 DEF Wired
<1>9. PICK m \in Message : m = Head(wire)
  BY <1>3
<1>10. /\ m.src \in MaybeTime /\ m.at \in Times /\ m.allowed \in BOOLEAN
       /\ clock \in Times /\ clock - m.at <= MaxDelay
       /\ m.allowed => m.src # -1 /\ m.at - m.src \in 0..MaxAge
  BY <1>0, <1>8, <1>9 DEF Message, Good, TypeOK
<1>11. /\ lastNow' \in MaybeTime /\ fault' \in BOOLEAN
       /\ fault => fault'
  BY <1>0, <1>1, <1>10 DEF Gate!Update, Gate!Observe, Gate!Rewound, TypeOK
<1>12. \/ UNCHANGED <<allowed, signal>> /\ fault'
       \/ /\ allowed' = (IF m.allowed THEN "yes" ELSE "no") /\ signal' = clock
  BY <1>0, <1>1, <1>9 DEF Gate!Update, Gate!Observe, Gate!Rewound, TypeOK
<1>13. TypeOK'
  BY <1>0, <1>1, <1>2, <1>3, <1>9, <1>10, <1>11, <1>12 DEF TypeOK
<1>14. Told'
  <2>1. CASE UNCHANGED <<allowed, signal>> /\ fault'
    BY <2>1 DEF Told
  <2>2. CASE /\ allowed' = (IF m.allowed THEN "yes" ELSE "no")
             /\ signal' = clock
    <3>1. allowed' = "yes" => m.allowed
      BY <2>2
    <3>2. m.allowed => m.src # -1 /\ clock - m.src <= MaxAge + MaxDelay
      BY <1>10
    <3> QED BY <1>1, <1>9, <2>2, <3>1, <3>2 DEF Told
  <2> QED BY <1>12, <2>1, <2>2
<1> QED BY <1>0, <1>1, <1>5, <1>6, <1>13, <1>14 DEF IInv, Taken

(* evaluate and reset_epoch of the consumer.                               *)
LEMMA ConsumerKeeps ==
  ASSUME IInv, Ask \/ ResetConsumer
  PROVE  IInv'
<1>0. TypeOK /\ Taken /\ Wired /\ LatchedDenies /\ Told
  BY DEF IInv
<1>1. UNCHANGED <<mvars, rollbacks>>
  BY DEF Ask, ResetConsumer
<1>2. TypeOK' /\ Told'
  BY <1>0, <1>1 DEF Ask, ResetConsumer, Gate!Evaluate, Gate!Observe,
     Gate!Rewound, Gate!ResetEpoch, TypeOK, Told
<1>3. Taken' /\ Wired' /\ LatchedDenies'
  BY <1>0, <1>1 DEF Taken, Wired, Good, LatchedDenies
<1> QED BY <1>2, <1>3 DEF IInv

(* The invariant holds at first.                                           *)
LEMMA InitInv == Init => IInv
<1> SUFFICES ASSUME Init PROVE IInv
  OBVIOUS
<1>1. /\ wire = <<>> /\ latched = FALSE /\ allowed = "unknown"
  BY DEF Init, MonitorInit, Gate!GateInit
<1>2. TypeOK
  <2>1. wire \in Seq(Message) /\ Len(wire) <= QueueDepth
    BY <1>1, EmptySeq
  <2>2. received \in [Times -> MaybeTime]
    BY DEF Init, MonitorInit
  <2>3. /\ clock \in Times /\ epoch \in 0..MaxEpoch
        /\ rollbacks \in 0..MaxRollbacks
    BY DEF Init, MonitorInit
  <2>4. /\ latest = -1 /\ lastReceive = -1 /\ pending = -1
        /\ pendingReceive = -1 /\ lastSource = -1 /\ lastClock = -1
        /\ signal = -1 /\ lastNow = -1 /\ fault = FALSE /\ heard = -1
    BY DEF Init, MonitorInit, Gate!GateInit
  <2> QED BY <1>1, <2>1, <2>2, <2>3, <2>4 DEF TypeOK
<1>3. Taken
  BY DEF Init, MonitorInit, Taken
<1> QED BY <1>1, <1>2, <1>3 DEF IInv, Wired, LatchedDenies, Told

(* The invariant holds for good.                                           *)
LEMMA Invariance == Spec => []IInv
<1>1. IInv /\ [Next]_vars => IInv'
  <2> SUFFICES ASSUME IInv, [Next]_vars PROVE IInv'
    OBVIOUS
  <2>1. CASE UNCHANGED vars
    BY <2>1 DEF vars, IInv, TypeOK, Taken, Wired, Good, LatchedDenies, Told
  <2> QED BY <2>1, MonitorKeeps, ClockKeeps, DeliverKeeps, ConsumerKeeps DEF Next
<1> QED BY <1>1, InitInv, PTL DEF Spec

(* safety_monitor.py: a permission of the current epoch, whichever handler *)
(* published it, is for a target that arrived and was fresh, for any       *)
(* limits, queue and number of resets and rollbacks.                       *)
THEOREM SpecTrueIsCovered == Spec => []TrueIsCovered
<1>1. IInv => TrueIsCovered
  <2> SUFFICES ASSUME IInv, NEW i \in DOMAIN wire,
                      wire[i].allowed, wire[i].epoch = epoch
               PROVE  /\ wire[i].src # -1 /\ received[wire[i].src] # -1
                      /\ wire[i].at - wire[i].src \in 0..MaxAge
                      /\ wire[i].at - received[wire[i].src] \in 0..WatchdogTimeout
    BY DEF TrueIsCovered
  <2> QED BY DEF IInv, Wired, Good
<1> QED BY <1>1, Invariance, PTL

(* safety_monitor.py: once latched, the last word on the topic is no.      *)
THEOREM SpecLatchedDenies == Spec => []LatchedDenies
<1>1. IInv => LatchedDenies
  BY DEF IInv
<1> QED BY <1>1, Invariance, PTL

(* permission.py: what a consumer permits rests on a target not older than *)
(* the three limits together.                                              *)
THEOREM SpecPermissionExpires == Spec => []PermissionExpires
<1>1. IInv => PermissionExpires
  <2> SUFFICES ASSUME IInv, Permits
               PROVE  /\ heard # -1
                      /\ clock - heard <= MaxAge + MaxDelay + PermissionTimeout
    BY DEF PermissionExpires
  <2>1. /\ allowed = "yes" /\ ~fault /\ clock - signal <= PermissionTimeout
    BY DEF Permits, Gate!Allows
  <2>2. /\ heard # -1 /\ signal - heard <= MaxAge + MaxDelay
        /\ heard \in MaybeTime /\ signal \in MaybeTime /\ clock \in Times
    BY <2>1 DEF IInv, Told, TypeOK
  <2> QED BY <2>1, <2>2
<1> QED BY <1>1, Invariance, PTL
================================================================================
