------------------------ MODULE PhysicsObserverProofs ------------------------
(***************************************************************************)
(* Proofs about the physics observer, for every pad set, every sample a    *)
(* topic can carry, every queue length and every timing constant.          *)
(*                                                                         *)
(* A verdict is earned step by step: Dated says what each phase of the     *)
(* core has seen, and Lasting that a grasp under retention has been beyond *)
(* doubt since the retention began, unless its evidence is already so old  *)
(* that no sample can save it.  That the evidence cannot be saved is why   *)
(* Dated keeps the newest pose and the newest contact of all pads close to *)
(* each other: each has been judged by the age of the other.               *)
(*                                                                         *)
(* Nothing is out of order because the queue is kept in the order of the   *)
(* stamps (Queued) and behind what the core has seen (Ahead), and the      *)
(* clock the node has seen is the world's or an earlier one (OnTime).      *)
(***************************************************************************)
EXTENDS PhysicsObserver, FiniteSetTheorems, SequenceTheorems, TLAPS

Goal == [stage : {"checked", "reserved", "opened", "running"}, epoch : Nat,
         started : Int \cup {None}]

Sample ==
  UNION {[kind : {k}, src : Int, epoch : Nat, say : Samples[k]] :
           k \in DOMAIN Samples}

Typed ==
  /\ now \in Int /\ clock \in Int \cup {None} /\ epoch \in Nat
  /\ core \in Core \cup {None} /\ goal \in Goal \cup {None}
  /\ pending \in Seq(Sample) /\ held \in Nat

(* A goal under way has a core, and a core that was started has a clock.   *)
Staged ==
  /\ Active => core # None
  /\ At({"opened"}) => core.phase = "IDLE"
  /\ At({"running"}) => core.phase # "IDLE"
  /\ core # None /\ core.phase # "IDLE" => clock # None

(* The newest pose and the newest contact of all pads are near each other. *)
Near(c) ==
  /\ c.pose.at - c.both <= Freshness
  /\ c.both - c.pose.at <= Freshness

Sure(c) ==
  /\ c.completed /\ c.pose # None /\ c.both # None /\ c.since # None
  /\ c.heights # <<>> /\ Lifted(c, c.pose.z)

(* What a core has seen in each phase, at a time not before its last call. *)
DatedAt(c, t) ==
  /\ c.phase = "IDLE" => c = Idle
  /\ c.phase \in {"WAIT_CONTACT", "WAIT_LIFT"} => c.heights # <<>>
  /\ c.pose # None /\ ~Terminal(c) => c.pose.at <= t
  /\ c.phase = "RETENTION" => Sure(c) /\ Near(c) /\ c.since <= t

Dated == core # None => DatedAt(core, clock)

Overdue(c, t) == t - c.both > 2 * Freshness \/ t - c.pose.at > 2 * Freshness

Lasting ==
  core # None /\ core.phase = "RETENTION" =>
    held >= Retention \/ held >= clock - core.since \/ Overdue(core, clock)

Earned == Typed /\ Staged /\ Dated /\ Lasting /\ VerifiedIsEarned

(* The queue is in the order of the stamps, which are different for samples*)
(* of one kind.                                                            *)
InOrder(q) ==
  \A i, j \in DOMAIN q :
    i < j => /\ q[i].src <= q[j].src
             /\ q[i].kind = q[j].kind => q[i].src < q[j].src

Queued == InOrder(pending)

AheadOf(c, q) ==
  \A k \in {"pose", "contact"} :
    c[k] # None => \A i \in DOMAIN q : q[i].kind = k => c[k].src < q[i].src

Ahead == core # None => AheadOf(core, pending)

OnTime ==
  steady /\ core # None /\ core.phase # "IDLE" => clock <= now

Regular == Queued /\ Ahead /\ OnTime /\ NoFalseFault
USE EvidenceConstants, ObserverConstants

(***************************************************************************)
(* The core: what each method makes of one.                                *)
(***************************************************************************)
LEMMA IdleCore ==
  /\ Idle \in Core /\ Idle.phase = "IDLE" /\ Idle.why = None
  /\ Idle.pose = None /\ Idle.contact = None /\ ~Idle.completed
BY DEF Idle, Core

LEMMA FaultCore ==
  ASSUME NEW w \in Whys
  PROVE  /\ Fault(w) \in Core /\ Fault(w).phase = "FAULT" /\ Fault(w).why = w
         /\ Fault(w).pose = None /\ Fault(w).contact = None
<1>1. Idle \in Core /\ Idle.pose = None /\ Idle.contact = None
  BY IdleCore
<1> DEFINE f == [Idle EXCEPT !.phase = "FAULT", !.why = w]
<1>2. Fault(w) = f
  BY DEF Fault
<1>3. f \in Core
  BY <1>1 DEF Core
<1>4. /\ f.phase = "FAULT" /\ f.why = w /\ f.pose = Idle.pose
      /\ f.contact = Idle.contact
  BY <1>1 DEF Core
<1> HIDE DEF f
<1> QED
  BY <1>1, <1>2, <1>3, <1>4

LEMMA PoseAt ==
  ASSUME NEW c \in Core, c.pose # None
  PROVE  c.pose \in Pose /\ c.pose.at \in Int /\ c.pose.src \in Int
BY DEF Core, Pose

(* What a call at a time makes of a core that is not through: it fails, or *)
(* the core stays as it is, or it has been judged at that time.            *)
FreshAt(c, t) == ContactFresh(c, t) /\ t - c.pose.at <= Freshness

Kept(c, d, t) ==
  /\ Sure(d) /\ FreshAt(d, t)
  /\ d.phase = "RETENTION" =>
       d.since = t \/ (c.phase = "RETENTION" /\ d.since = c.since)
  /\ d.phase = "VERIFIED" =>
       c.phase = "RETENTION" /\ t - c.since >= Retention

(* Only a retention that was not looked at is as it was.                   *)
Moved(c, d, t) ==
  /\ d \in Core /\ d.phase # "IDLE"
  /\ d.phase = "FAULT" => d.pose = None /\ d.contact = None
  /\ d.phase \in {"WAIT_CONTACT", "WAIT_LIFT"} => d.heights # <<>>
  /\ d.phase # "FAULT" =>
       /\ d.pose = c.pose \/ (d.pose # None /\ d.pose.at = t)
       /\ d.both = c.both \/ d.both = t
       /\ d.pose = c.pose \/ d.both = c.both
  /\ d.phase \in {"RETENTION", "VERIFIED"} => Kept(c, d, t)

LEMMA FaultMoves ==
  ASSUME NEW c, NEW w \in Whys, NEW t
  PROVE  Moved(c, Fault(w), t)
BY FaultCore DEF Moved

LEMMA LiftedSame ==
  ASSUME NEW c, NEW d, NEW z, c.heights = d.heights, Lifted(c, z)
  PROVE  Lifted(d, z)
BY DEF Lifted

(* A core made ready to be judged, from core c.                            *)
Ready(c, d, t) ==
  /\ d \in Core /\ d.phase \notin {"IDLE", "VERIFIED", "FAULT"}
  /\ d.phase \in {"WAIT_CONTACT", "WAIT_LIFT"} => d.heights # <<>>
  /\ d.pose = c.pose \/ (d.pose # None /\ d.pose.at = t)
  /\ d.both = c.both \/ d.both = t
  /\ d.pose = c.pose \/ d.both = c.both
  /\ d.phase = "RETENTION" =>
       c.phase = "RETENTION" /\ d.since = c.since /\ Sure(d)

LEMMA EnterReady ==
  ASSUME NEW d \in Core, NEW t \in Int, d.phase = "WAIT_LIFT",
         d.heights # <<>>, EnterRetention(d, t) # d
  PROVE  LET e == EnterRetention(d, t)
         IN  /\ e \in Core /\ e.phase = "RETENTION" /\ e.since = t
             /\ e.pose = d.pose /\ e.both = d.both /\ Sure(e)
<1> DEFINE e == [d EXCEPT !.phase = "RETENTION", !.since = t,
                          !.home = d.pose.xy]
<1>1. /\ d.completed /\ d.pose # None /\ Lifted(d, d.pose.z)
      /\ ContactFresh(d, t) /\ EnterRetention(d, t) = e
  BY DEF EnterRetention
<1>2. d.pose \in Pose /\ d.pose.xy \in Places
  BY <1>1 DEF Core, Pose
<1>3. e \in Core
  BY <1>2 DEF Core
<1>4. /\ e.phase = "RETENTION" /\ e.since = t /\ e.pose = d.pose
      /\ e.both = d.both /\ e.heights = d.heights
      /\ e.completed = d.completed
  BY DEF Core
<1> HIDE DEF e
<1>5. Lifted(e, d.pose.z)
  BY <1>1, <1>4, LiftedSame
<1>6. Sure(e)
  BY <1>1, <1>4, <1>5 DEF Sure, ContactFresh
<1> QED
  BY <1>1, <1>3, <1>4, <1>6

LEMMA CompleteMoves ==
  ASSUME NEW c \in Core, NEW d \in Core, NEW t \in Int,
         d.phase \notin {"IDLE", "VERIFIED", "FAULT"},
         d.phase \in {"WAIT_CONTACT", "WAIT_LIFT"} => d.heights # <<>>,
         d.pose = c.pose \/ (d.pose # None /\ d.pose.at = t),
         d.both = c.both \/ d.both = t,
         d.pose = c.pose \/ d.both = c.both,
         d.phase = "RETENTION" =>
           /\ Sure(d)
           /\ d.since = t \/ (c.phase = "RETENTION" /\ d.since = c.since)
  PROVE  Moved(c, CompleteRetention(d, t), t)
<1>1. CASE d.phase # "RETENTION"
  BY <1>1 DEF CompleteRetention, Moved
<1>2. CASE /\ d.phase = "RETENTION"
           /\ ~ContactFresh(d, t) \/ t - d.pose.at > Freshness
  <2>1. CompleteRetention(d, t) = Fault("liveness")
    BY <1>2 DEF CompleteRetention
  <2> QED
    BY <2>1, FaultMoves DEF Whys
<1>3. CASE /\ d.phase = "RETENTION" /\ t - d.since < Retention
           /\ ~(~ContactFresh(d, t) \/ t - d.pose.at > Freshness)
  <2>1. CompleteRetention(d, t) = d
    BY <1>3 DEF CompleteRetention
  <2>2. d.pose.at \in Int
    BY <1>3, PoseAt DEF Sure
  <2>3. FreshAt(d, t)
    BY <1>3, <2>2 DEF FreshAt
  <2> QED
    BY <1>3, <2>1, <2>3 DEF Moved, Kept
<1>4. CASE /\ d.phase = "RETENTION" /\ ~(t - d.since < Retention)
           /\ ~(~ContactFresh(d, t) \/ t - d.pose.at > Freshness)
  <2> DEFINE e == [d EXCEPT !.phase = "VERIFIED"]
  <2>1. CompleteRetention(d, t) =
          IF d.phase # "RETENTION" THEN d
          ELSE IF ~ContactFresh(d, t) \/ t - d.pose.at > Freshness
            THEN Fault("liveness")
          ELSE IF t - d.since < Retention THEN d ELSE e
    BY DEF CompleteRetention
  <2>2. e \in Core
    BY ZenonT(60) DEF Core
  <2>3. /\ e.phase = "VERIFIED" /\ e.since = d.since /\ e.pose = d.pose
        /\ e.both = d.both /\ e.heights = d.heights
        /\ e.completed = d.completed
    BY DEF Core
  <2> HIDE DEF e
  <2>4. CompleteRetention(d, t) = e
    BY <1>4, <2>1
  <2>5. d.pose.at \in Int /\ d.since \in Int
    BY <1>4, PoseAt DEF Sure, Core
  <2>6. FreshAt(e, t)
    BY <1>4, <2>3, <2>5 DEF FreshAt, ContactFresh
  <2>7. Lifted(e, d.pose.z)
    BY <1>4, <2>3, LiftedSame DEF Sure
  <2>8. Sure(e)
    BY <1>4, <2>3, <2>7 DEF Sure
  <2>9. t - d.since >= Retention
    BY <1>4, <2>5
  <2>10. c.phase = "RETENTION" /\ d.since = c.since
    BY <1>4, <2>9, <2>5
  <2> QED
    BY <2>4, <2>2, <2>3, <2>6, <2>8, <2>9, <2>10 DEF Moved, Kept
<1> QED
  BY <1>1, <1>2, <1>3, <1>4

LEMMA EvaluateMoves ==
  ASSUME NEW c \in Core, NEW d, NEW t \in Int, Ready(c, d, t)
  PROVE  Moved(c, Evaluate(d, t), t)
<1> DEFINE e == EnterRetention(d, t)
<1>0. d \in Core
  BY DEF Ready
<1>1. CASE e = d
  BY <1>0, <1>1, CompleteMoves DEF Evaluate, Ready
<1>2. CASE e # d
  <2>1. d.phase = "WAIT_LIFT"
    BY <1>2 DEF EnterRetention
  <2>2. /\ e \in Core /\ e.phase = "RETENTION" /\ e.since = t
        /\ e.pose = d.pose /\ e.both = d.both /\ Sure(e)
    BY <1>0, <1>2, <2>1, EnterReady DEF Ready
  <2> HIDE DEF e
  <2>3. Moved(c, CompleteRetention(e, t), t)
    BY <2>2, CompleteMoves DEF Ready
  <2> QED
    BY <2>3 DEF Evaluate, e
<1> QED
  BY <1>1, <1>2

LEMMA SampleKind ==
  ASSUME NEW s \in Sample
  PROVE  s.kind \in DOMAIN Samples /\ s.src \in Int /\ s.say \in Samples[s.kind]
BY DEF Sample

LEMMA TickMoves ==
  ASSUME NEW c \in Core, NEW t \in Int, NEW u, DatedAt(c, u),
         c.phase # "IDLE", ~Terminal(c)
  PROVE  Moved(c, Tick(c, t), t)
<1>1. CASE Silent(c, t)
  BY <1>1, FaultMoves DEF Tick, Whys
<1>2. CASE ~Silent(c, t)
  <2>1. Ready(c, c, t)
    BY DEF Ready, DatedAt, Terminal, Core
  <2> QED
    BY <1>2, <2>1, EvaluateMoves DEF Tick
<1> QED
  BY <1>1, <1>2

LEMMA PosedMoves ==
  ASSUME NEW c \in Core, NEW t \in Int, NEW s \in Sample, s.kind = "pose",
         NEW u, DatedAt(c, u), c.phase # "IDLE", ~Terminal(c)
  PROVE  Moved(c, Posed(c, s, t), t)
<1> DEFINE p == [src |-> s.src, at |-> t, z |-> s.say.z, xy |-> s.say.xy]
           d == [c EXCEPT !.pose = p]
<1>1. s.say.z \in Heights /\ s.say.xy \in Places /\ s.src \in Int
  BY SampleKind DEF Heights, Places
<1>2. p \in Pose /\ p.at = t /\ p.z = s.say.z
  BY <1>1 DEF Pose
<1>3. p # None
  BY <1>2
<1> HIDE DEF p
<1>4. d \in Core
  BY <1>2 DEF Core
<1>5. /\ d.pose = p /\ d.phase = c.phase /\ d.both = c.both
      /\ d.heights = c.heights /\ d.since = c.since
      /\ d.completed = c.completed /\ d.home = c.home
  BY DEF Core
<1>6. Posed(c, s, t) =
        IF d.phase = "BASELINE" THEN Measured(d, s.say.z)
        ELSE IF /\ d.phase = "RETENTION"
                /\ s.say.xy # d.home \/ ~Lifted(d, s.say.z)
          THEN Fault("dropped")
        ELSE Evaluate(d, t)
  BY DEF Posed, p
<1> HIDE DEF d
<1>7. CASE d.phase = "BASELINE"
  <2> DEFINE hs == Append(d.heights, s.say.z)
             ph == IF Len(hs) >= BaselineCount THEN "WAIT_CONTACT" ELSE d.phase
             e == [d EXCEPT !.heights = hs, !.phase = ph]
  <2>1. d.heights \in Seq(Heights)
    BY <1>4 DEF Core
  <2>2. hs \in Seq(Heights) /\ hs # <<>>
    BY <1>1, <2>1
  <2>3. ph \in {"BASELINE", "WAIT_CONTACT"}
    BY <1>7
  <2>4. Measured(d, s.say.z) = e
    BY DEF Measured
  <2> HIDE DEF hs, ph
  <2>5. e \in Core
    BY <1>4, <2>2, <2>3, ZenonT(60) DEF Core
  <2>6. /\ e.phase = ph /\ e.heights = hs /\ e.pose = d.pose
        /\ e.both = d.both
    BY <1>4 DEF Core
  <2> HIDE DEF e
  <2>7. e.phase \in {"BASELINE", "WAIT_CONTACT"}
    BY <2>3, <2>6
  <2>8. /\ e.heights # <<>> /\ e.pose # None /\ e.pose.at = t
        /\ e.both = c.both
    BY <1>2, <1>3, <1>5, <2>2, <2>6
  <2>9. Posed(c, s, t) = e
    BY <1>6, <1>7, <2>4
  <2> QED
    BY <2>5, <2>7, <2>8, <2>9 DEF Moved
<1>8. CASE /\ d.phase # "BASELINE" /\ d.phase = "RETENTION"
           /\ s.say.xy # d.home \/ ~Lifted(d, s.say.z)
  BY <1>6, <1>8, FaultMoves DEF Whys
<1>9. CASE /\ d.phase # "BASELINE"
           /\ ~(/\ d.phase = "RETENTION"
                /\ s.say.xy # d.home \/ ~Lifted(d, s.say.z))
  <2>1. Posed(c, s, t) = Evaluate(d, t)
    BY <1>6, <1>9
  <2>2. d.phase = "RETENTION" => Sure(d)
    BY <1>2, <1>3, <1>5, <1>9 DEF Sure, DatedAt
  <2>3. Ready(c, d, t)
    BY <1>2, <1>3, <1>4, <1>5, <1>9, <2>2 DEF Ready, DatedAt, Terminal, Core
  <2> QED
    BY <2>1, <2>3, EvaluateMoves
<1> QED
  BY <1>7, <1>8, <1>9

LEMMA TouchedMoves ==
  ASSUME NEW c \in Core, NEW t \in Int, NEW s \in Sample, s.kind = "contact",
         NEW u, DatedAt(c, u), c.phase # "IDLE", ~Terminal(c)
  PROVE  Moved(c, Touched(c, s, t), t)
<1> DEFINE touched == s.say.pads # {} /\ c.phase # "BASELINE"
           k == [src |-> s.src, at |-> t]
           b == IF Pads \subseteq s.say.pads THEN t ELSE c.both
           n == (c.seen \/ touched)
           ph == IF touched /\ c.phase = "WAIT_CONTACT"
                   THEN "WAIT_LIFT" ELSE c.phase
           d == [c EXCEPT !.contact = k, !.both = b, !.seen = n, !.phase = ph]
<1>1. k \in [src : Int, at : Int] /\ s.src \in Int
  BY SampleKind
<1>2. b \in Int \cup {None} /\ (b = c.both \/ b = t)
  BY DEF Core
<1>3. n \in BOOLEAN
  OBVIOUS
<1>4. /\ ph = c.phase \/ (ph = "WAIT_LIFT" /\ c.phase = "WAIT_CONTACT")
  OBVIOUS
<1>5. Touched(c, s, t) =
        IF c.phase = "RETENTION" /\ s.say.table THEN Fault("dropped")
        ELSE Evaluate(d, t)
  BY DEF Touched
<1> HIDE DEF k, b, n, ph
<1>6. d \in Core
  BY <1>1, <1>2, <1>3, <1>4 DEF Core
<1>7. /\ d.pose = c.pose /\ d.phase = ph /\ d.both = b
      /\ d.heights = c.heights /\ d.since = c.since
      /\ d.completed = c.completed
  BY DEF Core
<1> HIDE DEF d
<1>8. CASE c.phase = "RETENTION" /\ s.say.table
  BY <1>5, <1>8, FaultMoves DEF Whys
<1>9. CASE ~(c.phase = "RETENTION" /\ s.say.table)
  <2>1. Touched(c, s, t) = Evaluate(d, t)
    BY <1>5, <1>9
  <2>2. t # None
    OBVIOUS
  <2>3. ASSUME d.phase = "RETENTION"
        PROVE  c.phase = "RETENTION" /\ Sure(d)
    <3>1. c.phase = "RETENTION" /\ Sure(c)
      BY <1>4, <1>7, <2>3 DEF DatedAt
    <3>2. Lifted(d, c.pose.z)
      BY <3>1, <1>7, LiftedSame DEF Sure
    <3> QED
      BY <3>1, <3>2, <1>2, <1>7, <2>2 DEF Sure
  <2>4. Ready(c, d, t)
    BY <1>2, <1>4, <1>6, <1>7, <2>3 DEF Ready, DatedAt, Terminal
  <2> QED
    BY <2>1, <2>4, EvaluateMoves
<1> QED
  BY <1>8, <1>9

LEMMA CompletedMoves ==
  ASSUME NEW c \in Core, NEW t \in Int, NEW s \in Sample,
         NEW u, DatedAt(c, u), c.phase # "IDLE", ~Terminal(c)
  PROVE  Completed(c, s, t) = c \/ Moved(c, Completed(c, s, t), t)
<1>1. CASE s.say.end = "stopped"
  BY <1>1, FaultMoves DEF Completed, Whys
<1>2. CASE s.say.end \notin {"stopped", "other"} /\ ~c.completed
  <2> DEFINE d == [c EXCEPT !.completed = TRUE]
  <2>1. d \in Core
    BY DEF Core
  <2>2. /\ d.pose = c.pose /\ d.phase = c.phase /\ d.both = c.both
        /\ d.heights = c.heights
    BY DEF Core
  <2>3. Completed(c, s, t) = Evaluate(d, t)
    BY <1>2 DEF Completed
  <2> HIDE DEF d
  <2>4. c.phase # "RETENTION"
    BY <1>2 DEF DatedAt, Sure
  <2>5. Ready(c, d, t)
    BY <2>1, <2>2, <2>4 DEF Ready, DatedAt, Terminal
  <2> QED
    BY <2>3, <2>5, EvaluateMoves
<1>3. CASE s.say.end = "other" \/ (s.say.end # "stopped" /\ c.completed)
  BY <1>3 DEF Completed
<1> QED
  BY <1>1, <1>2, <1>3

LEMMA ObserveMoves ==
  ASSUME NEW c \in Core, NEW t \in Int, NEW s \in Sample,
         NEW u, DatedAt(c, u), c.phase # "IDLE", ~Terminal(c)
  PROVE  Observe(c, s, t) = c \/ Moved(c, Observe(c, s, t), t)
<1> DEFINE Meant(last) == SampleReason(c, s, t, last)
<1>1. \A last : Meant(last) \in {None, "source", "order"}
  BY DEF SampleReason
<1>2. \A last, d : Judge(c, s, t, last, d) \in
                     {d, Fault("source"), Fault("order")}
  BY <1>1 DEF Judge
<1>3. Moved(c, Fault("source"), t) /\ Moved(c, Fault("order"), t)
  BY FaultMoves DEF Whys
<1>4. s.kind \in {"pose", "contact", "sequence"}
  BY SampleKind
<1>5. CASE s.kind = "pose"
  <2>1. Observe(c, s, t) = Judge(c, s, t, c.pose, Posed(c, s, t))
    BY <1>5 DEF Observe, ObservePose
  <2> QED
    BY <1>2, <1>3, <1>5, <2>1, PosedMoves
<1>6. CASE s.kind = "contact"
  <2>1. Observe(c, s, t) = Judge(c, s, t, c.contact, Touched(c, s, t))
    BY <1>6 DEF Observe, ObserveContact
  <2> QED
    BY <1>2, <1>3, <1>6, <2>1, TouchedMoves
<1>7. CASE s.kind = "sequence"
  <2>1. Observe(c, s, t) = Judge(c, s, t, None, Completed(c, s, t))
    BY <1>7 DEF Observe, ObserveCompletion
  <2> QED
    BY <1>2, <1>3, <2>1, CompletedMoves
<1> QED
  BY <1>4, <1>5, <1>6, <1>7

(***************************************************************************)
(* A verified grasp was held.                                              *)
(***************************************************************************)
LEMMA SureTyped ==
  ASSUME NEW c \in Core, Sure(c)
  PROVE  c.both \in Int /\ c.pose.at \in Int /\ c.since \in Int
BY PoseAt DEF Sure, Core

LEMMA SureDoubt ==
  ASSUME NEW c \in Core, NEW t \in Int, Sure(c)
  PROVE  Doubtful(c, t) <=> Overdue(c, t)
<1>1. /\ c.completed /\ c.pose # None /\ c.both # None
      /\ c.heights # <<>> /\ Lifted(c, c.pose.z)
  BY DEF Sure
<1> QED
  BY <1>1 DEF Doubtful, Overdue

LEMMA FreshSure ==
  ASSUME NEW c \in Core, NEW t \in Int, Sure(c), FreshAt(c, t)
  PROVE  /\ ~Overdue(c, t)
         /\ c.both <= t /\ t - c.both <= Freshness
         /\ t - c.pose.at <= Freshness
<1>1. c.both \in Int /\ c.pose.at \in Int /\ Freshness \in Nat
  BY SureTyped
<1>2. c.both <= t /\ t - c.both <= Freshness /\ t - c.pose.at <= Freshness
  BY DEF FreshAt, ContactFresh
<1> QED
  BY <1>1, <1>2 DEF Overdue

(* Evidence that is judged fresh by the age of one half was not overdue    *)
(* before the other half came.                                             *)
LEMMA Saved ==
  ASSUME NEW c \in Core, NEW d \in Core, NEW t \in Int, Sure(c), Near(c),
         Sure(d), FreshAt(d, t),
         d.pose = c.pose \/ d.pose.at = t, d.both = c.both \/ d.both = t,
         d.pose = c.pose \/ d.both = c.both
  PROVE  ~Overdue(c, t)
<1>1. /\ c.both \in Int /\ c.pose.at \in Int
      /\ d.both \in Int /\ d.pose.at \in Int /\ Freshness \in Nat
  BY SureTyped
<1>2. t - d.both <= Freshness /\ t - d.pose.at <= Freshness
  BY FreshSure
<1> QED
  BY <1>1, <1>2 DEF Near, Overdue

LEMMA LastedNat ==
  ASSUME Typed, Staged, Dated
  PROVE  Lasted \in Nat
<1>1. CASE core # None /\ ~Terminal(core) /\ ~Rolled /\ ~Doubtful(core, now)
  <2>1. core \in Core /\ held \in Nat /\ now \in Int /\ Retention \in Nat
    BY <1>1 DEF Typed
  <2>2. core.phase # "IDLE"
    BY <1>1, <2>1, IdleCore DEF Dated, DatedAt, Doubtful
  <2>3. clock # None /\ clock \in Int
    BY <1>1, <2>2 DEF Staged, Typed
  <2>4. now >= clock
    BY <1>1, <2>1, <2>3 DEF Rolled
  <2> QED
    BY <1>1, <2>1, <2>3, <2>4 DEF Lasted
<1>2. CASE ~(core # None /\ ~Terminal(core) /\ ~Rolled /\ ~Doubtful(core, now))
  BY <1>2 DEF Lasted, Typed
<1> QED
  BY <1>1, <1>2

(* A retention that is not overdue now has lasted since it began.          *)
LEMMA LastedLong ==
  ASSUME Typed, Staged, Dated, Lasting, core # None,
         core.phase = "RETENTION", ~Rolled, ~Overdue(core, now)
  PROVE  Lasted >= Retention \/ Lasted >= now - core.since
<1>1. core \in Core /\ Sure(core)
  BY DEF Typed, Dated, DatedAt
<1>2. /\ clock \in Int /\ now \in Int /\ held \in Nat /\ Retention \in Nat
      /\ Freshness \in Nat
  BY DEF Typed, Staged
<1>3. core.both \in Int /\ core.pose.at \in Int /\ core.since \in Int
  BY <1>1, SureTyped
<1>4. clock <= now
  BY <1>2 DEF Rolled
<1>5. ~Overdue(core, clock)
  BY <1>2, <1>3, <1>4 DEF Overdue
<1>6. held >= Retention \/ held >= clock - core.since
  BY <1>5 DEF Lasting
<1>7. ~Terminal(core) /\ ~Doubtful(core, now)
  BY <1>1, <1>2, SureDoubt DEF Terminal
<1>8. Lasted = IF held + now - clock > Retention THEN Retention
               ELSE held + now - clock
  BY <1>7 DEF Lasted
<1> QED
  BY <1>2, <1>3, <1>4, <1>6, <1>8

LEMMA StaysEarned ==
  ASSUME Typed, Staged, Dated, Lasting, VerifiedIsEarned, core # None,
         Looked, NEW q, Judged(core, q), Rolled => Terminal(core)
  PROVE  Dated' /\ Lasting' /\ VerifiedIsEarned'
<1>1. core' = core /\ clock' = now /\ core \in Core /\ now \in Int
  BY DEF Judged, Looked, Typed
<1>2. /\ clock \in Int \cup {None} /\ Rolled => clock # None /\ now < clock
      /\ held' = IF ~Terminal(core) /\ Doubtful(core, now) THEN 0 ELSE Lasted
  BY DEF Judged, Typed, Rolled
<1>3. ASSUME core.phase \notin {"IDLE", "VERIFIED", "FAULT"}
      PROVE  clock \in Int /\ clock <= now /\ ~Rolled
  BY <1>1, <1>2, <1>3 DEF Staged, Typed, Rolled, Terminal
<1>4. Dated'
  <2>1. DatedAt(core, clock)
    BY DEF Dated
  <2>2. core.pose # None /\ ~Terminal(core) => core.pose.at <= now
    <3>1. SUFFICES ASSUME core.pose # None, ~Terminal(core)
                   PROVE  core.pose.at <= now
      OBVIOUS
    <3>2. core.phase # "IDLE" /\ core.pose.at <= clock
      BY <2>1, <3>1, IdleCore DEF DatedAt
    <3> QED
      BY <1>1, <1>3, <3>1, <3>2, PoseAt DEF Terminal
  <2>3. core.phase = "RETENTION" => core.since <= now
    <3>1. SUFFICES ASSUME core.phase = "RETENTION" PROVE core.since <= now
      OBVIOUS
    <3>2. Sure(core) /\ core.since <= clock
      BY <2>1, <3>1 DEF DatedAt
    <3> QED
      BY <1>1, <1>3, <3>1, <3>2, SureTyped
  <2>4. DatedAt(core, now)
    BY <2>1, <2>2, <2>3 DEF DatedAt
  <2> QED
    BY <1>1, <2>4 DEF Dated
<1>5. Lasting'
  <2>1. SUFFICES ASSUME core.phase = "RETENTION"
                 PROVE  \/ held' >= Retention \/ held' >= now - core.since
                        \/ Overdue(core, now)
    BY <1>1 DEF Lasting
  <2>2. CASE ~Overdue(core, now)
    <3>1. ~Rolled /\ ~Terminal(core) /\ Sure(core)
      BY <1>3, <2>1 DEF Terminal, Dated, DatedAt
    <3>2. Lasted >= Retention \/ Lasted >= now - core.since
      BY <2>1, <2>2, <3>1, LastedLong
    <3>3. ~Doubtful(core, now)
      BY <1>1, <2>2, <3>1, SureDoubt
    <3> QED
      BY <1>2, <3>2, <3>3
  <2> QED
    BY <2>2
<1>6. VerifiedIsEarned'
  <2>1. SUFFICES ASSUME core.phase = "VERIFIED" PROVE held' >= Retention
    BY <1>1 DEF VerifiedIsEarned
  <2>2. Terminal(core)
    BY <2>1 DEF Terminal
  <2>3. held' = held
    BY <1>2, <2>2 DEF Lasted
  <2> QED
    BY <2>1, <2>3 DEF VerifiedIsEarned
<1> QED
  BY <1>4, <1>5, <1>6

LEMMA MovesEarned ==
  ASSUME Typed, Staged, Dated, Lasting, core # None, ~Rolled,
         core.phase # "IDLE", ~Terminal(core),
         Looked, NEW d, Moved(core, d, now), NEW q, Judged(d, q)
  PROVE  Dated' /\ Lasting' /\ VerifiedIsEarned'
<1>1. /\ core' = d /\ clock' = now /\ core \in Core /\ d \in Core
      /\ now \in Int /\ Retention \in Nat /\ Freshness \in Nat
  BY DEF Judged, Looked, Typed, Moved
<1>2. clock \in Int /\ clock <= now
  BY <1>1 DEF Typed, Staged, Rolled
<1>3. /\ d # None /\ held' = IF Doubtful(d, now) THEN 0 ELSE Lasted
  BY <1>1 DEF Judged
<1>4. /\ d.phase # "IDLE"
      /\ d.phase = "FAULT" => d.pose = None
      /\ d.phase \in {"WAIT_CONTACT", "WAIT_LIFT"} => d.heights # <<>>
      /\ d.phase # "FAULT" =>
           /\ d.pose = core.pose \/ (d.pose # None /\ d.pose.at = now)
           /\ d.both = core.both \/ d.both = now
           /\ d.pose = core.pose \/ d.both = core.both
      /\ d.phase \in {"RETENTION", "VERIFIED"} => Kept(core, d, now)
  BY DEF Moved
<1>5. d.pose # None => d.pose.at <= now
  <2>1. SUFFICES ASSUME d.pose # None PROVE d.pose.at <= now
    OBVIOUS
  <2>2. d.pose \in Pose /\ d.pose.at \in Int
    BY <1>1, <2>1, PoseAt
  <2>3. d.pose = core.pose => core.pose.at <= clock
    BY <2>1 DEF Dated, DatedAt
  <2> QED
    BY <1>1, <1>2, <1>4, <2>1, <2>2, <2>3
<1>6. ASSUME d.phase \in {"RETENTION", "VERIFIED"}
      PROVE  /\ Sure(d) /\ FreshAt(d, now) /\ Near(d) /\ held' = Lasted
  <2>1. Sure(d) /\ FreshAt(d, now)
    BY <1>4, <1>6 DEF Kept
  <2>2. /\ ~Overdue(d, now) /\ d.both <= now /\ now - d.both <= Freshness
        /\ now - d.pose.at <= Freshness
    BY <1>1, <2>1, FreshSure
  <2>3. d.both \in Int /\ d.pose.at \in Int /\ d.pose # None
    BY <1>1, <2>1, SureTyped DEF Sure
  <2>4. Near(d)
    BY <1>1, <1>5, <2>2, <2>3 DEF Near
  <2>5. ~Doubtful(d, now)
    BY <1>1, <2>1, <2>2, SureDoubt
  <2> QED
    BY <1>3, <2>1, <2>4, <2>5
<1>7. ASSUME d.phase \in {"RETENTION", "VERIFIED"}, core.phase = "RETENTION"
      PROVE  held' >= Retention \/ held' >= now - core.since
  <2>1. Sure(core) /\ Near(core)
    BY <1>7 DEF Dated, DatedAt
  <2>2. ~Overdue(core, now)
    BY <1>1, <1>4, <1>6, <1>7, <2>1, Saved
  <2> QED
    BY <1>6, <1>7, <2>2, LastedLong
<1>8. Dated'
  <2>1. d.phase = "RETENTION" => d.since <= now
    <3>1. SUFFICES ASSUME d.phase = "RETENTION" PROVE d.since <= now
      OBVIOUS
    <3>2. d.since = now \/ (core.phase = "RETENTION" /\ d.since = core.since)
      BY <1>4, <3>1 DEF Kept
    <3>3. d.since \in Int
      BY <1>1, <1>6, <3>1, SureTyped
    <3>4. core.phase = "RETENTION" => core.since <= clock
      BY DEF Dated, DatedAt
    <3> QED
      BY <1>1, <1>2, <3>2, <3>3, <3>4
  <2>2. DatedAt(d, now)
    BY <1>4, <1>5, <1>6, <2>1 DEF DatedAt
  <2> QED
    BY <1>1, <2>2 DEF Dated
<1>9. Lasting'
  <2>1. SUFFICES ASSUME d.phase = "RETENTION"
                 PROVE  held' >= Retention \/ held' >= now - d.since
    BY <1>1 DEF Lasting
  <2>2. d.since = now \/ (core.phase = "RETENTION" /\ d.since = core.since)
    BY <1>4, <2>1 DEF Kept
  <2>3. held' \in Nat
    BY <1>6, <2>1, LastedNat
  <2> QED
    BY <1>1, <1>7, <2>1, <2>2, <2>3
<1>10. VerifiedIsEarned'
  <2>1. SUFFICES ASSUME d.phase = "VERIFIED" PROVE held' >= Retention
    BY <1>1 DEF VerifiedIsEarned
  <2>2. core.phase = "RETENTION" /\ now - core.since >= Retention
    BY <1>4, <2>1 DEF Kept
  <2>3. core.since \in Int /\ held' \in Nat
    BY <1>1, <1>6, <2>1, <2>2, LastedNat, SureTyped DEF Dated, DatedAt
  <2> QED
    BY <1>1, <1>7, <2>1, <2>2, <2>3
<1> QED
  BY <1>8, <1>9, <1>10

LEMMA FailsEarned ==
  ASSUME NEW d \in Core, d.phase = "FAULT", d.pose = None, core' = d
  PROVE  Dated' /\ Lasting' /\ VerifiedIsEarned'
BY DEF Dated, DatedAt, Lasting, VerifiedIsEarned

(***************************************************************************)
(* The queue: where a sample is put, and what is left of it.               *)
(***************************************************************************)
NotLater(s, q) == {i \in DOMAIN q : q[i].src <= s.src}

LEMMA UpTo ==
  ASSUME NEW n \in Nat
  PROVE  IsFiniteSet(1 .. n) /\ Cardinality(1 .. n) = n
<1>1. 1 \in Int /\ n \in Int
  OBVIOUS
<1>2. /\ IsFiniteSet(1 .. n)
      /\ Cardinality(1 .. n) = IF 1 > n THEN 0 ELSE n - 1 + 1
  BY <1>1, FS_Interval, Zenon
<1> QED
  BY <1>2

LEMMA ConcatSamples ==
  ASSUME NEW a \in Seq(Sample), NEW b \in Seq(Sample)
  PROVE  /\ a \o b \in Seq(Sample) /\ Len(a \o b) = Len(a) + Len(b)
         /\ \A i \in 1 .. Len(a) + Len(b) :
              (a \o b)[i] = IF i <= Len(a) THEN a[i] ELSE b[i - Len(a)]
BY ConcatProperties

LEMMA CutTyped ==
  ASSUME NEW q \in Seq(Sample), NEW s
  PROVE  /\ IsFiniteSet(NotLater(s, q))
         /\ Cardinality(NotLater(s, q)) \in 0 .. Len(q)
<1>1. Len(q) \in Nat /\ DOMAIN q = 1 .. Len(q)
  OBVIOUS
<1>2. NotLater(s, q) \in SUBSET (1 .. Len(q))
  BY <1>1 DEF NotLater
<1>3. IsFiniteSet(1 .. Len(q)) /\ Cardinality(1 .. Len(q)) = Len(q)
  BY <1>1, UpTo
<1>4. /\ IsFiniteSet(NotLater(s, q))
      /\ Cardinality(NotLater(s, q)) <= Len(q)
  BY <1>2, <1>3, FS_Subset
<1> QED
  BY <1>1, <1>4, FS_CardinalityType

(* The samples that are not later are the first ones of an ordered queue.  *)
LEMMA CutOrdered ==
  ASSUME NEW q \in Seq(Sample), InOrder(q), NEW s \in Sample
  PROVE  NotLater(s, q) = 1 .. Cardinality(NotLater(s, q))
<1> DEFINE D == NotLater(s, q)
           n == Cardinality(D)
<1>1. IsFiniteSet(D) /\ n \in 0 .. Len(q) /\ n \in Nat /\ Len(q) \in Nat
  BY CutTyped
<1>2. DOMAIN q = 1 .. Len(q) /\ \A i \in DOMAIN q : q[i].src \in Int
  BY SampleKind
<1>3. s.src \in Int
  BY SampleKind
<1>4. \A i \in D : 1 .. i \subseteq D
  BY <1>1, <1>2, <1>3 DEF NotLater, InOrder
<1>5. \A i \in D : i \in 1 .. n
  <2>1. SUFFICES ASSUME NEW i \in D PROVE i \in 1 .. n
    OBVIOUS
  <2>2. i \in 1 .. Len(q) /\ i \in Int
    BY <1>2 DEF NotLater
  <2>3. 1 .. i \in SUBSET D
    BY <1>4
  <2>4. Cardinality(1 .. i) = i
    BY <2>2, UpTo
  <2>5. i <= n
    BY <1>1, <2>3, <2>4, FS_Subset
  <2> QED
    BY <1>1, <2>2, <2>5
<1>6. D \in SUBSET (1 .. n)
  BY <1>5
<1>7. IsFiniteSet(1 .. n) /\ Cardinality(1 .. n) = n
  BY <1>1, UpTo
<1> HIDE DEF D
<1>8. 1 .. n = D
  BY <1>6, <1>7, FS_Subset
<1> QED
  BY <1>8 DEF D

LEMMA SortedIs ==
  ASSUME NEW q \in Seq(Sample), NEW s \in Sample
  PROVE  LET n == Cardinality(NotLater(s, q))
             r == Sorted(s, q)
         IN  /\ r \in Seq(Sample) /\ Len(r) = Len(q) + 1
             /\ \A i \in 1 .. n : r[i] = q[i]
             /\ r[n + 1] = s
             /\ \A i \in n + 2 .. Len(q) + 1 : r[i] = q[i - 1]
<1> DEFINE n == Cardinality(NotLater(s, q))
           a == SubSeq(q, 1, n)
           b == SubSeq(q, n + 1, Len(q))
<1>1. n \in 0 .. Len(q) /\ n \in Nat /\ Len(q) \in Nat
  BY CutTyped
<1>2. Sorted(s, q) = a \o <<s>> \o b
  BY DEF Sorted, NotLater
<1> HIDE DEF n
<1>3. /\ a \in Seq(Sample) /\ Len(a) = n
      /\ \A i \in 1 .. n : a[i] = q[i]
  BY <1>1
<1>4. /\ b \in Seq(Sample) /\ Len(b) = Len(q) - n
      /\ \A i \in 1 .. Len(q) - n : b[i] = q[n + i]
  BY <1>1
<1> HIDE DEF a, b
<1>5. /\ <<s>> \in Seq(Sample) /\ Len(<<s>>) = 1 /\ <<s>>[1] = s
  OBVIOUS
<1> DEFINE c == a \o <<s>>
<1>6. /\ c \in Seq(Sample) /\ Len(c) = n + 1
      /\ \A i \in 1 .. n : c[i] = q[i]
      /\ c[n + 1] = s
  <2>1. /\ c \in Seq(Sample) /\ Len(c) = n + 1
        /\ \A i \in 1 .. n + 1 : c[i] = IF i <= n THEN a[i] ELSE <<s>>[i - n]
    BY <1>1, <1>3, <1>5, ConcatSamples
  <2> HIDE DEF c
  <2>2. \A i \in 1 .. n : c[i] = q[i]
    BY <1>1, <1>3, <2>1
  <2>3. c[n + 1] = s
    <3>1. n + 1 \in 1 .. n + 1 /\ ~(n + 1 <= n) /\ (n + 1) - n = 1
      BY <1>1
    <3> QED
      BY <1>5, <2>1, <3>1
  <2> QED
    BY <2>1, <2>2, <2>3
<1> HIDE DEF c
<1> DEFINE r == c \o b
<1>7. /\ r \in Seq(Sample) /\ Len(r) = Len(q) + 1
      /\ \A i \in 1 .. Len(q) + 1 :
           r[i] = IF i <= n + 1 THEN c[i] ELSE b[i - (n + 1)]
  <2>1. /\ r \in Seq(Sample) /\ Len(r) = Len(c) + Len(b)
        /\ \A i \in 1 .. Len(c) + Len(b) :
             r[i] = IF i <= Len(c) THEN c[i] ELSE b[i - Len(c)]
    BY <1>4, <1>6, ConcatSamples
  <2>2. Len(c) + Len(b) = Len(q) + 1 /\ Len(c) = n + 1
    BY <1>1, <1>4, <1>6
  <2> QED
    BY <2>1, <2>2
<1> HIDE DEF r
<1>8. \A i \in 1 .. n : r[i] = q[i]
  BY <1>1, <1>6, <1>7
<1>9. r[n + 1] = s
  BY <1>1, <1>6, <1>7
<1>10. \A i \in n + 2 .. Len(q) + 1 : r[i] = q[i - 1]
  <2>1. SUFFICES ASSUME NEW i \in n + 2 .. Len(q) + 1 PROVE r[i] = q[i - 1]
    OBVIOUS
  <2>2. /\ i \in 1 .. Len(q) + 1 /\ ~(i <= n + 1)
        /\ i - (n + 1) \in 1 .. Len(q) - n /\ n + (i - (n + 1)) = i - 1
    BY <1>1
  <2> QED
    BY <1>4, <1>7, <2>2
<1>11. Sorted(s, q) = r
  BY <1>2 DEF r, c
<1> QED
  BY <1>7, <1>8, <1>9, <1>10, <1>11 DEF n

(***************************************************************************)
(* The steps of the node, for what a verdict is earned with.               *)
(***************************************************************************)
LEMMA ReadIs ==
  ASSUME Typed
  PROVE  /\ Read = core \/ (core # None /\ Rolled /\ Read = Fault("rollback"))
         /\ core # None /\ Rolled => Terminal(Read)
         /\ ~Rolled => Read = core
         /\ Read # None <=> core # None
<1>1. Fault("rollback").phase = "FAULT" /\ Fault("rollback") # None
  BY FaultCore DEF Whys
<1> QED
  BY <1>1 DEF Read, FailClosed, Terminal

(* What a step that looks at the clock makes of the core.                  *)
Turns(d) ==
  \/ d = core /\ (core # None /\ Rolled => Terminal(core))
  \/ /\ core # None /\ core.phase # "IDLE"
     /\ d \in Core /\ d.phase = "FAULT" /\ d.pose = None
  \/ /\ core # None /\ core.phase # "IDLE" /\ ~Terminal(core) /\ ~Rolled
     /\ Moved(core, d, now)

LEMMA ReadTurns ==
  ASSUME Typed, Looked
  PROVE  Turns(Read)
<1>1. CASE Read = core
  BY <1>1, ReadIs DEF Turns
<1>2. CASE core # None /\ Rolled /\ Read = Fault("rollback")
  <2>1. core.phase # "IDLE"
    BY <1>2 DEF Looked, Raises, Unstarted
  <2> QED
    BY <1>2, <2>1, FaultCore DEF Turns, Whys
<1> QED
  BY <1>1, <1>2, ReadIs

LEMMA FailTurns ==
  ASSUME Typed, Looked, NEW w \in Whys, core # None, core.phase # "IDLE"
  PROVE  Turns(FailClosed(Read, w))
<1>1. CASE Terminal(Read)
  BY <1>1, ReadTurns DEF FailClosed
<1>2. CASE ~Terminal(Read)
  BY <1>2, FaultCore DEF FailClosed, Turns
<1> QED
  BY <1>1, <1>2

LEMMA TickTurns ==
  ASSUME Typed, Dated, Looked, core # None, core.phase # "IDLE"
  PROVE  Turns(Tick(Read, now))
<1>1. CASE Terminal(Read)
  BY <1>1, ReadTurns DEF Tick
<1>2. CASE ~Terminal(Read)
  <2>1. ~Rolled /\ Read = core
    BY <1>2, ReadIs
  <2>2. core \in Core /\ now \in Int /\ DatedAt(core, clock)
    BY DEF Typed, Dated
  <2>3. Moved(core, Tick(core, now), now)
    BY <1>2, <2>1, <2>2, TickMoves
  <2> QED
    BY <1>2, <2>1, <2>3 DEF Turns
<1> QED
  BY <1>1, <1>2

LEMMA ObserveTurns ==
  ASSUME Typed, Dated, Looked, core # None, core.phase # "IDLE",
         ~Terminal(Read), NEW s \in Sample
  PROVE  Turns(Observe(Read, s, now))
<1>1. ~Rolled /\ Read = core
  BY ReadIs
<1>2. core \in Core /\ now \in Int /\ DatedAt(core, clock)
  BY DEF Typed, Dated
<1>3. \/ Observe(core, s, now) = core
      \/ Moved(core, Observe(core, s, now), now)
  BY <1>1, <1>2, ObserveMoves
<1> QED
  BY <1>1, <1>3 DEF Turns

(* What is left of a step when the core has turned.                        *)
Turned ==
  /\ core' \in Core \cup {None} /\ clock' \in Int /\ held' \in Nat
  /\ pending' \in Seq(Sample)
  /\ core' = None <=> core = None
  /\ core # None => (core'.phase = "IDLE" <=> core.phase = "IDLE")
  /\ Dated' /\ Lasting' /\ VerifiedIsEarned'

LEMMA StepTurned ==
  ASSUME Earned, Looked, NEW d, Turns(d), NEW q \in Seq(Sample), Judged(d, q)
  PROVE  Turned
<1>0. Typed /\ Staged /\ Dated /\ Lasting /\ VerifiedIsEarned
  BY DEF Earned
<1>1. core' = d /\ clock' = now
  BY DEF Judged, Looked
<1>2. held' \in Nat
  BY <1>0, LastedNat DEF Judged
<1>3. pending' \in Seq(Sample)
  BY DEF Judged
<1>4. clock' \in Int
  BY <1>0, <1>1 DEF Typed
<1>5. CASE core = None /\ d = core
  BY <1>0, <1>1, <1>2, <1>3, <1>4, <1>5
    DEF Turned, Typed, Dated, Lasting, VerifiedIsEarned
<1>6. CASE core # None /\ d = core /\ (Rolled => Terminal(core))
  <2>1. Judged(core, q)
    BY <1>6
  <2>2. Dated' /\ Lasting' /\ VerifiedIsEarned'
    BY <1>0, <1>6, <2>1, StaysEarned
  <2> QED
    BY <1>0, <1>1, <1>2, <1>3, <1>4, <1>6, <2>2 DEF Turned, Typed
<1>7. CASE /\ core # None /\ core.phase # "IDLE"
           /\ d \in Core /\ d.phase = "FAULT" /\ d.pose = None
  <2>1. Dated' /\ Lasting' /\ VerifiedIsEarned'
    BY <1>1, <1>7, FailsEarned
  <2> QED
    BY <1>1, <1>2, <1>3, <1>4, <1>7, <2>1 DEF Turned
<1>8. CASE /\ core # None /\ core.phase # "IDLE" /\ ~Terminal(core)
           /\ ~Rolled /\ Moved(core, d, now)
  <2>1. Dated' /\ Lasting' /\ VerifiedIsEarned'
    BY <1>0, <1>8, MovesEarned
  <2>2. d \in Core /\ d.phase # "IDLE"
    BY <1>8 DEF Moved
  <2> QED
    BY <1>1, <1>2, <1>3, <1>4, <1>8, <2>1, <2>2 DEF Turned
<1> QED
  BY <1>5, <1>6, <1>7, <1>8 DEF Turns

(* Most steps leave the goal as it is.                                     *)
LEMMA SameGoalEarned ==
  ASSUME Earned, Turned, UNCHANGED <<world, epoch, goal, steady>>
  PROVE  Earned'
<1>1. Typed'
  BY DEF Earned, Typed, Turned, world
<1>2. Staged'
  <2>1. At({"opened"})' = At({"opened"}) /\ At({"running"})' = At({"running"})
        /\ Active' = Active
    BY DEF At, Active
  <2>2. clock' # None
    BY DEF Turned
  <2>3. Active => core # None
    BY DEF Earned, Staged
  <2>4. At({"opened"}) => Active
    BY DEF At, Active
  <2>5. At({"running"}) => Active
    BY DEF At, Active
  <2> QED
    BY <2>1, <2>2, <2>3, <2>4, <2>5 DEF Earned, Staged, Turned
<1> QED
  BY <1>1, <1>2 DEF Earned, Turned

LEMMA StartCore ==
  ASSUME NEW g \in Goal, NEW t
  PROVE  LET c == Start(g, t)
         IN  /\ c \in Core /\ c.phase \in {"BASELINE", "FAULT"}
             /\ c.pose = None /\ c.contact = None
             /\ c.why \notin {"rollback", "order"}
<1> DEFINE c == [Idle EXCEPT !.epoch = g.epoch, !.started = g.started,
                             !.phase = "BASELINE"]
<1>1. /\ Idle \in Core /\ Idle.pose = None /\ Idle.contact = None
      /\ Idle.why = None
  BY IdleCore
<1>2. g.epoch \in Nat /\ g.started \in Int \cup {None}
  BY DEF Goal
<1>3. c \in Core
  BY <1>1, <1>2 DEF Core
<1>4. /\ c.phase = "BASELINE" /\ c.pose = None /\ c.contact = None
      /\ c.why = None
  BY <1>1 DEF Core
<1>5. Start(g, t) = c \/ Start(g, t) = Fault("source")
  BY DEF Start
<1> HIDE DEF c
<1>6. CASE Start(g, t) = c
  BY <1>3, <1>4, <1>6 DEF Whys
<1>7. CASE Start(g, t) = Fault("source")
  BY <1>7, FaultCore DEF Whys
<1> QED
  BY <1>5, <1>6, <1>7

LEMMA InitEarned ==
  ASSUME Init
  PROVE  Earned
<1>1. Typed
  BY DEF Init, Typed
<1>2. Staged
  BY DEF Init, Staged, Active, At
<1>3. Dated /\ Lasting /\ VerifiedIsEarned
  BY DEF Init, Dated, Lasting, VerifiedIsEarned
<1> QED
  BY <1>1, <1>2, <1>3 DEF Earned

(* A step that leaves the core, its clock and the count of time alone.     *)
LEMMA StillEarned ==
  ASSUME Earned, UNCHANGED <<core, clock, held>>, Typed', Staged'
  PROVE  Earned'
BY DEF Earned, Dated, Lasting, VerifiedIsEarned

LEMMA CheckGoalEarned ==
  ASSUME Earned, CheckGoal
  PROVE  Earned'
<1>1. Turned
  <2>1. Turns(Read) /\ pending \in Seq(Sample)
    BY ReadTurns DEF Earned, CheckGoal, Typed
  <2> QED
    BY <2>1, StepTurned DEF CheckGoal
<1>2. goal' \in Goal /\ goal'.stage = "checked"
  BY DEF CheckGoal, Earned, Typed, Goal
<1>3. Typed'
  BY <1>1, <1>2 DEF CheckGoal, Earned, Typed, Turned, world
<1>4. Staged'
  <2>1. clock' # None
    BY <1>1 DEF Turned
  <2> QED
    BY <1>2, <2>1 DEF Staged, Active, At
<1> QED
  BY <1>1, <1>3, <1>4 DEF Earned, Turned

LEMMA StartGoalEarned ==
  ASSUME Earned, StartGoal
  PROVE  Earned'
<1> DEFINE d == Start(goal, now)
<1>0. Typed /\ Staged /\ Dated
  BY DEF Earned
<1>1. goal \in Goal /\ goal.stage = "opened" /\ now \in Int
  BY <1>0 DEF StartGoal, At, Typed
<1>2. /\ d \in Core /\ d.phase \in {"BASELINE", "FAULT"} /\ d.pose = None
      /\ d # None
  BY <1>1, StartCore
<1>3. /\ core' = d /\ clock' = now
      /\ held' = 0 \/ held' = Lasted
      /\ pending' = <<>> \/ pending' = pending
  BY DEF StartGoal, Looked, Judged
<1>4. goal' \in Goal /\ goal'.stage = "running"
  BY <1>1 DEF StartGoal, Goal
<1> HIDE DEF d
<1>5. held' \in Nat
  BY <1>0, <1>3, LastedNat
<1>6. Typed'
  <2>1. clock' \in Int /\ pending' \in Seq(Sample)
    <3>1. <<>> \in Seq(Sample) /\ pending \in Seq(Sample)
      BY <1>0 DEF Typed
    <3> QED
      BY <1>1, <1>3, <3>1
  <2>2. UNCHANGED <<world, epoch, steady>>
    BY DEF StartGoal
  <2> QED
    BY <1>0, <1>2, <1>3, <1>4, <1>5, <2>1, <2>2 DEF Typed, world
<1>7. Staged'
  BY <1>1, <1>2, <1>3, <1>4 DEF Staged, Active, At
<1>8. Dated' /\ Lasting' /\ VerifiedIsEarned'
  BY <1>2, <1>3 DEF Dated, DatedAt, Lasting, VerifiedIsEarned
<1> QED
  BY <1>6, <1>7, <1>8 DEF Earned

LEMMA RoundEarned ==
  ASSUME Earned, NEW d, Turns(d), Round(d)
  PROVE  Earned'
<1>1. Turned
  BY StepTurned DEF Round, Earned, Typed
<1> QED
  BY <1>1, SameGoalEarned DEF Round

LEMMA HandedEarned ==
  ASSUME Earned, NEW d, Turns(d), NEW q \in Seq(Sample), Handed(d, q)
  PROVE  Earned'
<1>1. Turned
  BY StepTurned DEF Handed
<1> QED
  BY <1>1, SameGoalEarned DEF Handed

LEMMA RunningCore ==
  ASSUME Typed, Staged, At({"running"})
  PROVE  core # None /\ core.phase # "IDLE"
BY DEF Staged, Active, At

LEMMA ObservingEarned ==
  ASSUME Earned, Observing
  PROVE  Earned'
<1>0. Typed /\ Staged /\ Dated
  BY DEF Earned
<1>1. CASE CheckGoal
  BY <1>1, CheckGoalEarned
<1>2. CASE CheckRaises
  <2>1. Typed' /\ Staged'
    BY <1>0, <1>2 DEF CheckRaises, Typed, Staged, Active, At, world
  <2> QED
    BY <1>2, <2>1, StillEarned DEF CheckRaises
<1>3. CASE ReserveGoal
  <2>1. goal' \in Goal /\ goal'.stage = "reserved"
    BY <1>0, <1>3 DEF ReserveGoal, At, Typed, Goal
  <2>2. Typed'
    BY <1>0, <1>3, <2>1 DEF ReserveGoal, Typed, world, clocks
  <2>3. Staged'
    BY <1>0, <1>3, <2>1 DEF ReserveGoal, Staged, Active, At, clocks
  <2> QED
    BY <1>3, <2>2, <2>3, StillEarned DEF ReserveGoal, clocks
<1>4. CASE OpenGoal
  <2>1. goal' \in Goal /\ goal'.stage = "opened"
    BY <1>0, <1>4 DEF OpenGoal, At, Typed, Goal
  <2>2. /\ core' = Idle /\ core' \in Core /\ core'.phase = "IDLE"
        /\ core'.pose = None /\ core' # None
    BY <1>4, IdleCore DEF OpenGoal
  <2>3. Typed'
    BY <1>0, <1>4, <2>1, <2>2 DEF OpenGoal, Typed, world, clocks
  <2>4. Staged'
    BY <2>1, <2>2 DEF Staged, Active, At
  <2>5. Dated' /\ Lasting' /\ VerifiedIsEarned'
    BY <2>2 DEF Dated, DatedAt, Lasting, VerifiedIsEarned
  <2> QED
    BY <2>3, <2>4, <2>5 DEF Earned
<1>5. CASE StartGoal
  BY <1>5, StartGoalEarned
<1>6. CASE StartRaises
  <2>1. Typed'
    BY <1>0, <1>6 DEF StartRaises, Typed, world
  <2>2. Staged'
    BY <1>0, <1>6 DEF StartRaises, Staged, Active, At
  <2> QED
    BY <1>6, <2>1, <2>2, StillEarned DEF StartRaises
<1>7. CASE TickCancelled
  <2>1. Turns(FailClosed(Read, "cancelled"))
    BY <1>0, <1>7, FailTurns, RunningCore DEF TickCancelled, Round, Whys
  <2> QED
    BY <1>7, <2>1, RoundEarned DEF TickCancelled
<1>8. CASE TickTimeout
  <2>1. Turns(FailClosed(Read, "timeout"))
    BY <1>0, <1>8, FailTurns, RunningCore DEF TickTimeout, Round, Whys
  <2> QED
    BY <1>8, <2>1, RoundEarned DEF TickTimeout
<1>9. CASE TickCore
  <2>1. Turns(Tick(Read, now))
    BY <1>0, <1>9, TickTurns, RunningCore DEF TickCore, Round
  <2> QED
    BY <1>9, <2>1, RoundEarned DEF TickCore
<1>10. CASE FinishGoal
  <2>1. Typed'
    BY <1>0, <1>10 DEF FinishGoal, Typed, world, clocks
  <2>2. Staged'
    BY <1>0, <1>10 DEF FinishGoal, Staged, Active, At, clocks
  <2> QED
    BY <1>10, <2>1, <2>2, StillEarned DEF FinishGoal, clocks
<1> QED
  BY <1>1, <1>2, <1>3, <1>4, <1>5, <1>6, <1>7, <1>8, <1>9, <1>10
    DEF Observing

LEMMA CallbacksEarned ==
  ASSUME Earned, Callbacks
  PROVE  Earned'
<1>0. Typed /\ Staged /\ Dated /\ pending \in Seq(Sample)
  BY DEF Earned, Typed
<1>1. CASE EnqueueDropped
  BY <1>0, <1>1, ReadTurns, HandedEarned DEF EnqueueDropped, Handed
<1>2. CASE EnqueueFails
  <2>1. core # None /\ core.phase # "IDLE"
    BY <1>0, <1>2 DEF EnqueueFails, Staged, Unstarted
  <2>2. Turns(FailClosed(Read, "queue"))
    BY <1>0, <1>2, <2>1, FailTurns DEF EnqueueFails, Handed, Whys
  <2> QED
    BY <1>0, <1>2, <2>2, HandedEarned DEF EnqueueFails
<1>3. CASE InputFault
  <2>1. core # None /\ core.phase # "IDLE"
    BY <1>3 DEF InputFault, Unstarted
  <2>2. Turns(FailClosed(Read, "input"))
    BY <1>0, <1>3, <2>1, FailTurns DEF InputFault, Handed, Whys
  <2> QED
    BY <1>0, <1>3, <2>2, HandedEarned DEF InputFault
<1>4. CASE DrainOne
  <2>1. Head(pending) \in Sample /\ Tail(pending) \in Seq(Sample)
    BY <1>0, <1>4, HeadTailProperties DEF DrainOne, Due
  <2>2. core # None /\ core.phase # "IDLE"
    BY <1>0, <1>4 DEF DrainOne, Due, Staged, Unstarted
  <2> DEFINE d == Observe(Read, Head(pending), now)
  <2>3. Turns(d)
    BY <1>0, <1>4, <2>1, <2>2, ObserveTurns DEF DrainOne
  <2>4. Looked /\ Judged(d, Tail(pending))
    BY <1>4 DEF DrainOne
  <2> HIDE DEF d
  <2>5. Turned
    BY <2>1, <2>3, <2>4, StepTurned
  <2> QED
    BY <1>4, <2>5, SameGoalEarned DEF DrainOne
<1>5. ASSUME NEW k \in DOMAIN Samples, Enqueue(k)
      PROVE  Earned'
  <2>1. PICK say \in Samples[k], src \in now .. now + Freshness :
          Handed(Read, Sorted([kind |-> k, src |-> src, epoch |-> epoch,
                               say |-> say], pending))
    BY <1>5 DEF Enqueue
  <2> DEFINE s == [kind |-> k, src |-> src, epoch |-> epoch, say |-> say]
  <2>2. s \in Sample
    BY <1>0 DEF Sample, Typed
  <2> HIDE DEF s
  <2>3. Sorted(s, pending) \in Seq(Sample)
    BY <1>0, <2>2, SortedIs
  <2>4. Handed(Read, Sorted(s, pending))
    BY <2>1 DEF s
  <2>5. Turns(Read)
    BY <1>0, <2>4, ReadTurns DEF Handed
  <2> QED
    BY <2>3, <2>4, <2>5, HandedEarned
<1> QED
  BY <1>1, <1>2, <1>3, <1>4, <1>5 DEF Callbacks

LEMMA NextEarned ==
  ASSUME Earned, [Next]_vars
  PROVE  Earned'
<1>0. Typed /\ Staged /\ Dated
  BY DEF Earned
<1>1. CASE Observing
  BY <1>1, ObservingEarned
<1>2. CASE Callbacks
  BY <1>2, CallbacksEarned
<1>3. CASE Crash
  <2>1. Typed' /\ Staged'
    BY <1>0, <1>3 DEF Crash, Typed, Staged, Active, At, clocks
  <2> QED
    BY <1>3, <2>1, StillEarned DEF Crash, clocks
<1>4. CASE Reset
  <2>1. Typed'
    BY <1>0, <1>4 DEF Reset, Typed, world
  <2>2. Staged'
    BY <1>0, <1>4 DEF Reset, Staged, Active, At
  <2> QED
    BY <1>4, <2>1, <2>2
      DEF Reset, Earned, Dated, Lasting, VerifiedIsEarned
<1>5. CASE ClockForward
  <2>1. Typed' /\ Staged'
    BY <1>0, <1>5 DEF ClockForward, Typed, Staged, Active, At, clocks
  <2> QED
    BY <1>5, <2>1, StillEarned DEF ClockForward, clocks
<1>6. CASE ClockBack
  <2>1. Typed'
    BY <1>0, <1>6 DEF ClockBack, Typed, clocks
  <2>2. Staged'
    BY <1>0, <1>6 DEF ClockBack, Staged, Active, At, clocks
  <2> QED
    BY <1>6, <2>1, <2>2, StillEarned DEF ClockBack, clocks
<1>7. CASE UNCHANGED vars
  BY <1>7 DEF vars, clocks, world, Earned, Typed, Staged, Active, At, Dated,
              Lasting, VerifiedIsEarned
<1> QED
  BY <1>1, <1>2, <1>3, <1>4, <1>5, <1>6, <1>7 DEF Next

LEMMA AlwaysEarned == Spec => []Earned
<1>1. Init => Earned
  BY InitEarned
<1>2. Earned /\ [Next]_vars => Earned'
  BY NextEarned
<1> QED
  BY <1>1, <1>2, PTL DEF Spec

(* However samples, rounds of the loop and the clock interleave, a grasp   *)
(* is verified only after the clock the node has seen has advanced by the  *)
(* whole retention time since the last doubt (_maybe_complete_retention,   *)
(* called from every handler of the node).                                 *)
THEOREM VerdictsAreEarned == Spec => []VerifiedIsEarned
<1>1. Earned => VerifiedIsEarned
  BY DEF Earned
<1> QED
  BY <1>1, AlwaysEarned, PTL

(***************************************************************************)
(* Nothing looks like a fault of the simulator.                            *)
(***************************************************************************)
Blames == {"rollback", "order"}

(* What a core has seen stays as it is or is dropped with a fault of which *)
(* the simulator is not the cause.                                         *)
Keeps(c, d) ==
  /\ d.pose \in {c.pose, None} /\ d.contact \in {c.contact, None}
  /\ d.why = c.why \/ d.why \notin Blames

(* So it is but for what the sample brings.                                *)
Takes(c, d, s) ==
  /\ d.pose \in {c.pose, None} \/ (s.kind = "pose" /\ d.pose.src = s.src)
  /\ \/ d.contact \in {c.contact, None}
     \/ s.kind = "contact" /\ d.contact.src = s.src
  /\ d.why = c.why \/ d.why \notin Blames

LEMMA FaultKeeps ==
  ASSUME NEW c, NEW w \in Whys \ Blames
  PROVE  Keeps(c, Fault(w))
BY FaultCore DEF Keeps

LEMMA EvaluateKeeps ==
  ASSUME NEW c \in Core, NEW t
  PROVE  Keeps(c, Evaluate(c, t))
<1> DEFINE e == [c EXCEPT !.phase = "RETENTION", !.since = t,
                          !.home = c.pose.xy]
           f == EnterRetention(c, t)
           v == [f EXCEPT !.phase = "VERIFIED"]
<1>1. e.pose = c.pose /\ e.contact = c.contact /\ e.why = c.why
  BY DEF Core
<1>2. f = e \/ f = c
  BY DEF EnterRetention
<1>3. f.pose = c.pose /\ f.contact = c.contact /\ f.why = c.why
  BY <1>1, <1>2
<1>4. v.pose = f.pose /\ v.contact = f.contact /\ v.why = f.why
  <2>1. DOMAIN e = DOMAIN c
    OBVIOUS
  <2>2. DOMAIN f = DOMAIN c
    BY <1>2, <2>1
  <2>3. {"pose", "contact", "why"} \subseteq DOMAIN c
    BY DEF Core
  <2> HIDE DEF f
  <2> QED
    BY <2>2, <2>3
<1> HIDE DEF f, v
<1>5. Evaluate(c, t) \in {f, v, Fault("liveness")}
  BY DEF Evaluate, CompleteRetention, f, v
<1>6. CASE Evaluate(c, t) \in {f, v}
  BY <1>3, <1>4, <1>6 DEF Keeps
<1>7. CASE Evaluate(c, t) = Fault("liveness")
  BY <1>7, FaultKeeps DEF Whys, Blames
<1> QED
  BY <1>5, <1>6, <1>7

LEMMA TickKeeps ==
  ASSUME NEW c \in Core, NEW t
  PROVE  Keeps(c, Tick(c, t))
<1>1. Keeps(c, Fault("liveness"))
  BY FaultKeeps DEF Whys, Blames
<1>2. Keeps(c, c)
  BY DEF Keeps
<1> QED
  BY <1>1, <1>2, EvaluateKeeps DEF Tick

LEMMA PosedTakes ==
  ASSUME NEW c \in Core, NEW t \in Int, NEW s \in Sample, s.kind = "pose"
  PROVE  Takes(c, Posed(c, s, t), s)
<1> DEFINE p == [src |-> s.src, at |-> t, z |-> s.say.z, xy |-> s.say.xy]
           d == [c EXCEPT !.pose = p]
<1>1. s.say.z \in Heights /\ s.say.xy \in Places /\ s.src \in Int
  BY SampleKind DEF Heights, Places
<1>2. p \in Pose /\ p.src = s.src
  BY <1>1 DEF Pose
<1> HIDE DEF p
<1>3. d \in Core
  BY <1>2 DEF Core
<1>4. d.pose = p /\ d.contact = c.contact /\ d.why = c.why
  BY DEF Core
<1>5. Posed(c, s, t) \in {Measured(d, s.say.z), Fault("dropped"),
                          Evaluate(d, t)}
  BY DEF Posed, p
<1> HIDE DEF d
<1>6. CASE Posed(c, s, t) = Measured(d, s.say.z)
  <2> DEFINE hs == Append(d.heights, s.say.z)
             ph == IF Len(hs) >= BaselineCount THEN "WAIT_CONTACT" ELSE d.phase
             e == [d EXCEPT !.heights = hs, !.phase = ph]
  <2>1. Posed(c, s, t) = e
    BY <1>6 DEF Measured
  <2> HIDE DEF hs, ph
  <2>2. e.pose = d.pose /\ e.contact = d.contact /\ e.why = d.why
    BY <1>3 DEF Core
  <2> QED
    BY <1>2, <1>4, <2>1, <2>2 DEF Takes
<1>7. CASE Posed(c, s, t) = Fault("dropped")
  <2>1. Keeps(c, Fault("dropped"))
    BY FaultKeeps DEF Whys, Blames
  <2> QED
    BY <1>7, <2>1 DEF Keeps, Takes
<1>8. CASE Posed(c, s, t) = Evaluate(d, t)
  <2>1. Keeps(d, Evaluate(d, t))
    BY <1>3, EvaluateKeeps
  <2> QED
    BY <1>2, <1>4, <1>8, <2>1 DEF Keeps, Takes
<1> QED
  BY <1>5, <1>6, <1>7, <1>8

LEMMA TouchedTakes ==
  ASSUME NEW c \in Core, NEW t \in Int, NEW s \in Sample, s.kind = "contact"
  PROVE  Takes(c, Touched(c, s, t), s)
<1> DEFINE touched == s.say.pads # {} /\ c.phase # "BASELINE"
           k == [src |-> s.src, at |-> t]
           b == IF Pads \subseteq s.say.pads THEN t ELSE c.both
           n == (c.seen \/ touched)
           ph == IF touched /\ c.phase = "WAIT_CONTACT"
                   THEN "WAIT_LIFT" ELSE c.phase
           d == [c EXCEPT !.contact = k, !.both = b, !.seen = n, !.phase = ph]
<1>1. k \in [src : Int, at : Int] /\ k.src = s.src
  BY SampleKind
<1>2. b \in Int \cup {None}
  BY DEF Core
<1>3. n \in BOOLEAN
  OBVIOUS
<1>4. ph = c.phase \/ ph = "WAIT_LIFT"
  OBVIOUS
<1>5. Touched(c, s, t) \in {Fault("dropped"), Evaluate(d, t)}
  BY DEF Touched
<1> HIDE DEF k, b, n, ph
<1>6. d \in Core
  BY <1>1, <1>2, <1>3, <1>4 DEF Core
<1>7. d.pose = c.pose /\ d.contact = k /\ d.why = c.why
  BY DEF Core
<1> HIDE DEF d
<1>8. CASE Touched(c, s, t) = Fault("dropped")
  <2>1. Keeps(c, Fault("dropped"))
    BY FaultKeeps DEF Whys, Blames
  <2> QED
    BY <1>8, <2>1 DEF Keeps, Takes
<1>9. CASE Touched(c, s, t) = Evaluate(d, t)
  <2>1. Keeps(d, Evaluate(d, t))
    BY <1>6, EvaluateKeeps
  <2> QED
    BY <1>1, <1>7, <1>9, <2>1 DEF Keeps, Takes
<1> QED
  BY <1>5, <1>8, <1>9

LEMMA CompletedKeeps ==
  ASSUME NEW c \in Core, NEW t, NEW s
  PROVE  Keeps(c, Completed(c, s, t))
<1> DEFINE d == [c EXCEPT !.completed = TRUE]
<1>1. d \in Core
  BY DEF Core
<1>2. d.pose = c.pose /\ d.contact = c.contact /\ d.why = c.why
  BY DEF Core
<1>3. Completed(c, s, t) \in {c, Fault("sequence"), Evaluate(d, t)}
  BY DEF Completed
<1> HIDE DEF d
<1>4. Keeps(c, Evaluate(d, t))
  <2>1. Keeps(d, Evaluate(d, t))
    BY <1>1, EvaluateKeeps
  <2> QED
    BY <1>2, <2>1 DEF Keeps
<1>5. Keeps(c, Fault("sequence"))
  BY FaultKeeps DEF Whys, Blames
<1>6. Keeps(c, c)
  BY DEF Keeps
<1> QED
  BY <1>3, <1>4, <1>5, <1>6

(* A sample that is ahead of what the core has seen is not out of order.   *)
LEMMA ObserveTakes ==
  ASSUME NEW c \in Core, NEW t \in Int, NEW s \in Sample,
         s.kind = "pose" /\ c.pose # None => c.pose.src < s.src,
         s.kind = "contact" /\ c.contact # None => c.contact.src < s.src
  PROVE  Takes(c, Observe(c, s, t), s)
<1>1. s.kind \in {"pose", "contact", "sequence"} /\ s.src \in Int
  BY SampleKind
<1>2. Takes(c, c, s) /\ Takes(c, Fault("source"), s)
  <2>1. Keeps(c, Fault("source"))
    BY FaultKeeps DEF Whys, Blames
  <2> QED
    BY <2>1 DEF Keeps, Takes
<1>3. ASSUME NEW last, NEW d, last # None => ~(s.src <= last.src),
             Takes(c, d, s)
      PROVE  Takes(c, Judge(c, s, t, last, d), s)
  <2>1. SampleReason(c, s, t, last) \in {"source", None}
    BY <1>3 DEF SampleReason
  <2>2. Judge(c, s, t, last, d) \in {c, d, Fault("source")}
    BY <2>1 DEF Judge
  <2> QED
    BY <1>2, <1>3, <2>2
<1>4. CASE s.kind = "pose"
  <2>1. c.pose # None => ~(s.src <= c.pose.src)
    BY <1>1, <1>4, PoseAt
  <2>2. Takes(c, Posed(c, s, t), s)
    BY <1>4, PosedTakes
  <2> QED
    BY <1>3, <1>4, <2>1, <2>2 DEF Observe, ObservePose
<1>5. CASE s.kind = "contact"
  <2>1. c.contact # None => ~(s.src <= c.contact.src)
    BY <1>1, <1>5 DEF Core
  <2>2. Takes(c, Touched(c, s, t), s)
    BY <1>5, TouchedTakes
  <2> QED
    BY <1>3, <1>5, <2>1, <2>2 DEF Observe, ObserveContact
<1>6. CASE s.kind = "sequence"
  <2>1. Takes(c, Completed(c, s, t), s)
    BY CompletedKeeps DEF Keeps, Takes
  <2> QED
    BY <1>3, <1>6, <2>1 DEF Observe, ObserveCompletion
<1> QED
  BY <1>1, <1>4, <1>5, <1>6

(* An ordered queue stays ordered when a sample of the right kind of stamp *)
(* is sorted in, and so it is ahead of the core.                           *)
LEMMA SortedInOrder ==
  ASSUME NEW q \in Seq(Sample), InOrder(q), NEW s \in Sample,
         \A i \in DOMAIN q : q[i].kind = s.kind => q[i].src < s.src
  PROVE  InOrder(Sorted(s, q))
<1> DEFINE n == Cardinality(NotLater(s, q))
           r == Sorted(s, q)
<1>1. n \in 0 .. Len(q) /\ n \in Nat /\ Len(q) \in Nat
  BY CutTyped
<1>2. /\ DOMAIN q = 1 .. Len(q)
      /\ \A i \in 1 .. Len(q) : q[i].src \in Int
  BY SampleKind
<1>3. s.src \in Int
  BY SampleKind
<1> DEFINE D == NotLater(s, q)
<1>4. \A i \in DOMAIN q : i \in D <=> q[i].src <= s.src
  BY DEF NotLater
<1>5. D = 1 .. n
  BY CutOrdered
<1>6. /\ r \in Seq(Sample) /\ Len(r) = Len(q) + 1
      /\ \A i \in 1 .. n : r[i] = q[i]
      /\ r[n + 1] = s
      /\ \A i \in n + 2 .. Len(q) + 1 : r[i] = q[i - 1]
  BY SortedIs
<1> HIDE DEF r, n, D
<1>7. \A i \in 1 .. n : q[i].src <= s.src
  BY <1>1, <1>2, <1>4, <1>5
<1>8. \A i \in n + 1 .. Len(q) : s.src < q[i].src
  <2>1. SUFFICES ASSUME NEW i \in n + 1 .. Len(q) PROVE s.src < q[i].src
    OBVIOUS
  <2>2. i \in 1 .. Len(q) /\ i \notin 1 .. n
    BY <1>1
  <2>3. ~(q[i].src <= s.src)
    BY <1>2, <1>4, <1>5, <2>2
  <2> QED
    BY <1>2, <1>3, <2>2, <2>3
<1>9. DOMAIN r = 1 .. Len(q) + 1
  BY <1>6
<1>10. SUFFICES ASSUME NEW i \in 1 .. Len(q) + 1, NEW j \in 1 .. Len(q) + 1,
                      i < j
               PROVE  /\ r[i].src <= r[j].src
                      /\ r[i].kind = r[j].kind => r[i].src < r[j].src
  BY <1>9 DEF InOrder, r
<1>11. CASE j <= n
  <2>1. r[i] = q[i] /\ r[j] = q[j] /\ i \in DOMAIN q /\ j \in DOMAIN q
    BY <1>1, <1>2, <1>6, <1>10, <1>11
  <2> QED
    BY <1>10, <2>1 DEF InOrder
<1>12. CASE j = n + 1
  <2>1. /\ r[i] = q[i] /\ r[j] = s /\ i \in DOMAIN q /\ i \in 1 .. n
    BY <1>1, <1>2, <1>6, <1>10, <1>12
  <2> QED
    BY <1>7, <2>1
<1>13. CASE i <= n /\ j > n + 1
  <2>1. /\ r[i] = q[i] /\ r[j] = q[j - 1] /\ i \in DOMAIN q
        /\ j - 1 \in DOMAIN q /\ i < j - 1
    BY <1>1, <1>2, <1>6, <1>10, <1>13
  <2> QED
    BY <2>1 DEF InOrder
<1>14. CASE i = n + 1
  <2>1. /\ r[i] = s /\ r[j] = q[j - 1] /\ j - 1 \in n + 1 .. Len(q)
        /\ j - 1 \in 1 .. Len(q)
    BY <1>1, <1>6, <1>10, <1>14
  <2>2. s.src < q[j - 1].src /\ q[j - 1].src \in Int
    BY <1>2, <1>8, <2>1
  <2>3. s.src <= q[j - 1].src
    BY <1>3, <2>2
  <2> QED
    BY <2>1, <2>2, <2>3
<1>15. CASE i > n + 1
  <2>1. /\ r[i] = q[i - 1] /\ r[j] = q[j - 1] /\ i - 1 \in DOMAIN q
        /\ j - 1 \in DOMAIN q /\ i - 1 < j - 1
    BY <1>1, <1>2, <1>6, <1>10, <1>15
  <2> QED
    BY <2>1 DEF InOrder
<1> QED
  BY <1>1, <1>10, <1>11, <1>12, <1>13, <1>14, <1>15

LEMMA SortedAhead ==
  ASSUME NEW q \in Seq(Sample), NEW s \in Sample, NEW c, AheadOf(c, q),
         s.kind # "sequence" /\ c[s.kind] # None => c[s.kind].src < s.src
  PROVE  AheadOf(c, Sorted(s, q))
<1> DEFINE n == Cardinality(NotLater(s, q))
           r == Sorted(s, q)
<1>1. n \in 0 .. Len(q) /\ n \in Nat /\ Len(q) \in Nat
      /\ DOMAIN q = 1 .. Len(q)
  BY CutTyped
<1>2. /\ r \in Seq(Sample) /\ Len(r) = Len(q) + 1
      /\ \A i \in 1 .. n : r[i] = q[i]
      /\ r[n + 1] = s
      /\ \A i \in n + 2 .. Len(q) + 1 : r[i] = q[i - 1]
  BY SortedIs
<1> HIDE DEF r, n
<1>3. SUFFICES ASSUME NEW k \in {"pose", "contact"}, c[k] # None,
                      NEW i \in 1 .. Len(q) + 1, r[i].kind = k
               PROVE  c[k].src < r[i].src
  BY <1>2 DEF AheadOf, r
<1>4. CASE i = n + 1
  BY <1>2, <1>3, <1>4
<1>5. CASE i <= n
  <2>1. r[i] = q[i] /\ i \in DOMAIN q
    BY <1>1, <1>2, <1>5
  <2> QED
    BY <1>3, <2>1 DEF AheadOf
<1>6. CASE i > n + 1
  <2>1. r[i] = q[i - 1] /\ i - 1 \in DOMAIN q
    BY <1>1, <1>2, <1>6
  <2> QED
    BY <1>3, <2>1 DEF AheadOf
<1> QED
  BY <1>1, <1>4, <1>5, <1>6

LEMMA EmptyQueue ==
  ASSUME NEW c
  PROVE  InOrder(<<>>) /\ AheadOf(c, <<>>)
BY DEF InOrder, AheadOf

LEMMA KeepsAhead ==
  ASSUME NEW c, NEW d, NEW q, d.pose \in {c.pose, None},
         d.contact \in {c.contact, None}, AheadOf(c, q)
  PROVE  AheadOf(d, q)
BY DEF AheadOf

(* What is left behind the head of an ordered queue is ahead of a core     *)
(* that has taken the head.                                                *)
LEMMA TailAhead ==
  ASSUME NEW q \in Seq(Sample), q # <<>>, InOrder(q), NEW c, AheadOf(c, q),
         NEW d, Takes(c, d, Head(q))
  PROVE  InOrder(Tail(q)) /\ AheadOf(d, Tail(q))
<1> DEFINE r == Tail(q)
<1>1. /\ r \in Seq(Sample) /\ Len(r) = Len(q) - 1 /\ Len(q) \in Nat
      /\ \A i \in 1 .. Len(r) : r[i] = q[i + 1]
      /\ Head(q) = q[1] /\ Len(q) > 0
  BY HeadTailProperties
<1> HIDE DEF r
<1>2. DOMAIN r = 1 .. Len(q) - 1 /\ DOMAIN q = 1 .. Len(q)
  BY <1>1
<1>3. \A i \in DOMAIN r : /\ r[i] = q[i + 1] /\ i + 1 \in DOMAIN q
                          /\ 1 \in DOMAIN q /\ 1 < i + 1
  BY <1>1, <1>2
<1>4. InOrder(r)
  <2>1. SUFFICES ASSUME NEW i \in DOMAIN r, NEW j \in DOMAIN r, i < j
                 PROVE  /\ r[i].src <= r[j].src
                        /\ r[i].kind = r[j].kind => r[i].src < r[j].src
    BY DEF InOrder
  <2>2. i + 1 < j + 1
    BY <1>1, <1>2, <2>1
  <2> QED
    BY <1>3, <2>2 DEF InOrder
<1>5. AheadOf(d, r)
  <2>1. SUFFICES ASSUME NEW k \in {"pose", "contact"}, d[k] # None,
                        NEW i \in DOMAIN r, r[i].kind = k
                 PROVE  d[k].src < r[i].src
    BY DEF AheadOf
  <2>2. d[k] = c[k] \/ (q[1].kind = k /\ d[k].src = q[1].src)
    BY <1>1, <2>1 DEF Takes
  <2>3. CASE d[k] = c[k]
    BY <1>3, <2>1, <2>3 DEF AheadOf
  <2>4. CASE q[1].kind = k /\ d[k].src = q[1].src
    BY <1>3, <2>1, <2>4 DEF InOrder
  <2> QED
    BY <2>2, <2>3, <2>4
<1> QED
  BY <1>4, <1>5 DEF r

(* A step that looks at the clock and leaves or drops what the core has    *)
(* seen.  While the clock has not gone back nothing is blamed on it.       *)
Quiet(d) ==
  /\ core = None => d = None
  /\ core # None =>
       /\ d.pose \in {core.pose, None} /\ d.contact \in {core.contact, None}
       /\ steady => d.why = core.why \/ d.why \notin Blames

LEMMA SteadyClock ==
  ASSUME Typed, Staged, OnTime, Looked, core # None, steady
  PROVE  ~Rolled
<1>1. CASE core.phase = "IDLE"
  BY <1>1 DEF Looked, Raises, Unstarted
<1>2. CASE core.phase # "IDLE"
  <2>1. clock \in Int /\ now \in Int /\ clock <= now
    BY <1>2 DEF OnTime, Staged, Typed
  <2> QED
    BY <2>1 DEF Rolled
<1> QED
  BY <1>1, <1>2

LEMMA ReadQuiet ==
  ASSUME Typed, Staged, OnTime, Looked
  PROVE  Quiet(Read)
<1>1. CASE Read = core
  BY <1>1 DEF Quiet
<1>2. CASE core # None /\ Rolled /\ Read = Fault("rollback")
  BY <1>2, SteadyClock, FaultCore DEF Quiet, Whys
<1> QED
  BY <1>1, <1>2, ReadIs

LEMMA FailQuiet ==
  ASSUME Typed, Staged, OnTime, Looked, NEW w \in Whys \ Blames, core # None
  PROVE  Quiet(FailClosed(Read, w))
<1>1. CASE Terminal(Read)
  BY <1>1, ReadQuiet DEF FailClosed
<1>2. CASE ~Terminal(Read)
  BY <1>2, FaultKeeps, FaultCore DEF FailClosed, Quiet, Keeps
<1> QED
  BY <1>1, <1>2

LEMMA TickQuiet ==
  ASSUME Typed, Staged, OnTime, Looked, core # None
  PROVE  Quiet(Tick(Read, now))
<1>1. CASE Terminal(Read)
  BY <1>1, ReadQuiet DEF Tick
<1>2. CASE ~Terminal(Read)
  <2>1. Read = core /\ core \in Core
    BY <1>2, ReadIs DEF Typed
  <2>2. Keeps(core, Tick(core, now))
    BY <2>1, TickKeeps
  <2> QED
    BY <2>1, <2>2 DEF Quiet, Keeps
<1> QED
  BY <1>1, <1>2

LEMMA QuietRegular ==
  ASSUME Earned, Regular, Looked, UNCHANGED <<now, steady>>,
         NEW d, Quiet(d), NEW q, Judged(d, q), InOrder(q),
         core # None => AheadOf(core, q)
  PROVE  Regular'
<1>1. /\ core' = d /\ clock' = now
      /\ pending' = <<>> \/ pending' = q
  BY DEF Judged, Looked
<1>2. Queued'
  BY <1>1, EmptyQueue DEF Queued
<1>3. Ahead'
  <2>1. CASE core = None
    BY <1>1, <2>1 DEF Quiet, Ahead
  <2>2. CASE core # None
    <3>1. AheadOf(d, q)
      BY <2>2, KeepsAhead DEF Quiet
    <3> QED
      BY <1>1, <3>1, EmptyQueue DEF Ahead
  <2> QED
    BY <2>1, <2>2
<1>4. OnTime'
  BY <1>1 DEF OnTime, Earned, Typed
<1>5. NoFalseFault'
  BY <1>1 DEF Regular, NoFalseFault, Quiet, Blames
<1> QED
  BY <1>2, <1>3, <1>4, <1>5 DEF Regular

(* A step that leaves the core, its queue and its clock alone.             *)
LEMMA StillRegular ==
  ASSUME Regular, UNCHANGED <<core, pending, clock, now, steady>>
  PROVE  Regular'
BY DEF Regular, Queued, Ahead, OnTime, NoFalseFault

LEMMA InitRegular ==
  ASSUME Init
  PROVE  Regular
BY EmptyQueue DEF Init, Regular, Queued, Ahead, OnTime, NoFalseFault

LEMMA ObservingRegular ==
  ASSUME Earned, Regular, Observing
  PROVE  Regular'
<1>0. Typed /\ Staged /\ OnTime /\ InOrder(pending)
      /\ (core # None => AheadOf(core, pending))
  BY DEF Earned, Regular, Queued, Ahead
<1>1. CASE CheckGoal
  BY <1>0, <1>1, ReadQuiet, QuietRegular DEF CheckGoal, world
<1>2. CASE CheckRaises
  BY <1>2, StillRegular DEF CheckRaises, world
<1>3. CASE ReserveGoal
  BY <1>3, StillRegular DEF ReserveGoal, world, clocks
<1>4. CASE OpenGoal
  <2>1. core' = Idle /\ pending' = <<>> /\ Idle.phase = "IDLE"
        /\ Idle.why = None
    BY <1>4, IdleCore DEF OpenGoal
  <2>2. Queued' /\ Ahead'
    BY <2>1, EmptyQueue DEF Queued, Ahead
  <2>3. OnTime' /\ NoFalseFault'
    BY <2>1 DEF OnTime, NoFalseFault, Whys
  <2> QED
    BY <2>2, <2>3 DEF Regular
<1>5. CASE StartGoal
  <2>1. goal \in Goal
    BY <1>0, <1>5 DEF StartGoal, At, Typed
  <2> DEFINE d == Start(goal, now)
  <2>2. /\ d.pose = None /\ d.contact = None
        /\ d.why \notin {"rollback", "order"}
    BY <2>1, StartCore
  <2>3. /\ core' = d /\ clock' = now /\ now' = now
        /\ pending' = <<>> \/ pending' = pending
    BY <1>5 DEF StartGoal, Judged, Looked, world
  <2> HIDE DEF d
  <2>4. Queued'
    BY <1>0, <2>3, EmptyQueue DEF Queued
  <2>5. Ahead'
    BY <2>2, <2>3 DEF Ahead, AheadOf
  <2>6. OnTime' /\ NoFalseFault'
    BY <1>0, <2>2, <2>3 DEF OnTime, NoFalseFault, Typed
  <2> QED
    BY <2>4, <2>5, <2>6 DEF Regular
<1>6. CASE StartRaises
  <2>1. UNCHANGED <<core, clock, now, steady>> /\ pending' = <<>>
    BY <1>6 DEF StartRaises, world
  <2> QED
    BY <2>1, EmptyQueue
      DEF Regular, Queued, Ahead, OnTime, NoFalseFault
<1>7. CASE TickCancelled
  <2>1. Quiet(FailClosed(Read, "cancelled"))
    BY <1>0, <1>7, FailQuiet, RunningCore
      DEF TickCancelled, Round, Whys, Blames
  <2> QED
    BY <1>0, <1>7, <2>1, QuietRegular DEF TickCancelled, Round, world
<1>8. CASE TickTimeout
  <2>1. Quiet(FailClosed(Read, "timeout"))
    BY <1>0, <1>8, FailQuiet, RunningCore DEF TickTimeout, Round, Whys, Blames
  <2> QED
    BY <1>0, <1>8, <2>1, QuietRegular DEF TickTimeout, Round, world
<1>9. CASE TickCore
  <2>1. Quiet(Tick(Read, now))
    BY <1>0, <1>9, TickQuiet, RunningCore DEF TickCore, Round
  <2> QED
    BY <1>0, <1>9, <2>1, QuietRegular DEF TickCore, Round, world
<1>10. CASE FinishGoal
  <2>1. UNCHANGED <<core, clock, now, steady>> /\ pending' = <<>>
    BY <1>10 DEF FinishGoal, clocks, world
  <2> QED
    BY <2>1, EmptyQueue
      DEF Regular, Queued, Ahead, OnTime, NoFalseFault
<1> QED
  BY <1>1, <1>2, <1>3, <1>4, <1>5, <1>6, <1>7, <1>8, <1>9, <1>10
    DEF Observing

LEMMA DrainRegular ==
  ASSUME Earned, Regular, DrainOne
  PROVE  Regular'
<1> DEFINE s == Head(pending)
           d == Observe(Read, s, now)
<1>1. pending \in Seq(Sample) /\ pending # <<>> /\ now \in Int
  BY DEF DrainOne, Due, Earned, Typed
<1>2. s \in Sample /\ s = pending[1] /\ 1 \in DOMAIN pending
  BY <1>1, HeadTailProperties
<1>3. core # None /\ core \in Core /\ ~Rolled /\ Read = core
  BY ReadIs DEF DrainOne, Due, Earned, Typed, Staged
<1>4. InOrder(pending) /\ AheadOf(core, pending)
  BY <1>3 DEF Regular, Queued, Ahead
<1> HIDE DEF s
<1>5. Takes(core, d, s)
  <2>1. s.kind = "pose" /\ core.pose # None => core.pose.src < s.src
    BY <1>2, <1>4 DEF AheadOf
  <2>2. s.kind = "contact" /\ core.contact # None => core.contact.src < s.src
    BY <1>2, <1>4 DEF AheadOf
  <2> QED
    BY <1>1, <1>2, <1>3, <2>1, <2>2, ObserveTakes
<1> HIDE DEF d
<1>6. /\ core' = d /\ clock' = now /\ now' = now /\ steady' = steady
      /\ pending' = <<>> \/ pending' = Tail(pending)
  BY DEF DrainOne, Looked, Judged, world, d, s
<1>7. InOrder(Tail(pending)) /\ AheadOf(d, Tail(pending))
  BY <1>1, <1>4, <1>5, TailAhead DEF s
<1>8. Queued' /\ Ahead'
  BY <1>6, <1>7, EmptyQueue DEF Queued, Ahead
<1>9. OnTime' /\ NoFalseFault'
  BY <1>1, <1>3, <1>5, <1>6 DEF OnTime, Regular, NoFalseFault, Takes, Blames
<1> QED
  BY <1>8, <1>9 DEF Regular

LEMMA EnqueueRegular ==
  ASSUME Earned, Regular, NEW k \in DOMAIN Samples, Enqueue(k)
  PROVE  Regular'
<1>0. /\ Typed /\ Staged /\ OnTime /\ pending \in Seq(Sample)
      /\ InOrder(pending) /\ epoch \in Nat /\ now \in Int
      /\ core # None /\ AheadOf(core, pending)
  BY DEF Earned, Regular, Queued, Ahead, Typed, Staged, Enqueue
<1>1. PICK say \in Samples[k], src \in now .. now + Freshness :
        /\ Follows(k, src)
        /\ Handed(Read, Sorted([kind |-> k, src |-> src, epoch |-> epoch,
                                say |-> say], pending))
  BY DEF Enqueue
<1> DEFINE s == [kind |-> k, src |-> src, epoch |-> epoch, say |-> say]
<1>2. s \in Sample /\ s.kind = k /\ s.src = src
  BY <1>0 DEF Sample
<1> HIDE DEF s
<1> DEFINE q == Sorted(s, pending)
<1>3. Looked /\ Judged(Read, q) /\ UNCHANGED <<now, steady>>
  BY <1>1 DEF Handed, s, world
<1>4. InOrder(q)
  BY <1>0, <1>1, <1>2, SortedInOrder DEF Follows
<1>5. AheadOf(core, q)
  BY <1>0, <1>1, <1>2, SortedAhead DEF Follows
<1> HIDE DEF q
<1>6. Quiet(Read)
  BY <1>0, <1>3, ReadQuiet
<1> QED
  BY <1>3, <1>4, <1>5, <1>6, QuietRegular

LEMMA CallbacksRegular ==
  ASSUME Earned, Regular, Callbacks
  PROVE  Regular'
<1>0. Typed /\ Staged /\ OnTime /\ InOrder(pending)
      /\ (core # None => AheadOf(core, pending))
  BY DEF Earned, Regular, Queued, Ahead
<1>1. CASE EnqueueDropped
  BY <1>0, <1>1, ReadQuiet, QuietRegular DEF EnqueueDropped, Handed, world
<1>2. CASE EnqueueFails
  <2>1. Quiet(FailClosed(Read, "queue"))
    BY <1>0, <1>2, FailQuiet DEF EnqueueFails, Handed, Staged, Whys, Blames
  <2> QED
    BY <1>0, <1>2, <2>1, QuietRegular DEF EnqueueFails, Handed, world
<1>3. CASE InputFault
  <2>1. Quiet(FailClosed(Read, "input"))
    BY <1>0, <1>3, FailQuiet DEF InputFault, Handed, Whys, Blames
  <2> QED
    BY <1>0, <1>3, <2>1, QuietRegular DEF InputFault, Handed, world
<1> QED
  BY <1>1, <1>2, <1>3, DrainRegular, EnqueueRegular DEF Callbacks

LEMMA NextRegular ==
  ASSUME Earned, Regular, [Next]_vars
  PROVE  Regular'
<1>1. CASE Observing
  BY <1>1, ObservingRegular
<1>2. CASE Callbacks
  BY <1>2, CallbacksRegular
<1>3. CASE Crash
  BY <1>3, StillRegular DEF Crash, clocks
<1>4. CASE Reset
  BY <1>4 DEF Reset, Regular, Queued, Ahead, OnTime, NoFalseFault
<1>5. CASE ClockForward
  <2>1. /\ now \in Int /\ now' = now + 1
        /\ core # None /\ core.phase # "IDLE" => clock \in Int
        /\ UNCHANGED <<core, pending, clock, steady>>
    BY <1>5 DEF ClockForward, Earned, Typed, Staged, clocks
  <2>2. OnTime'
    BY <2>1 DEF Regular, OnTime
  <2> QED
    BY <2>1, <2>2 DEF Regular, Queued, Ahead, NoFalseFault
<1>6. CASE ClockBack
  BY <1>6 DEF ClockBack, Regular, Queued, Ahead, OnTime, NoFalseFault, clocks
<1>7. CASE UNCHANGED vars
  BY <1>7, StillRegular DEF vars, clocks, world
<1> QED
  BY <1>1, <1>2, <1>3, <1>4, <1>5, <1>6, <1>7 DEF Next

(* As long as the simulator's clock is not set back no observation ends    *)
(* for a rollback or for samples out of order, with any number of samples  *)
(* queued ahead of the clock and drained by any thread (_now_ns,           *)
(* _queue_observation, _drain_pending_observations).                       *)
THEOREM NoFaultIsFalse == Spec => []NoFalseFault
<1>1. Init => Regular
  BY InitRegular
<1>2. Earned /\ Regular /\ [Next]_vars => Regular'
  BY NextRegular
<1>3. Spec => []Regular
  BY <1>1, <1>2, AlwaysEarned, PTL DEF Spec
<1>4. Regular => NoFalseFault
  BY DEF Regular
<1> QED
  BY <1>3, <1>4, PTL
=============================================================================
