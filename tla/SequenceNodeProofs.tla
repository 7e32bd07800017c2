-------------------------- MODULE SequenceNodeProofs --------------------------
(***************************************************************************)
(* Proofs about the action wrapper.  The actions are first reduced to a    *)
(* few effects (Effect): a stop begins or ends, a command is submitted, a  *)
(* slot is freed or marked, a goal turns downstream, and so on.  The       *)
(* inductive invariant IInv then has four layers, each kept by every       *)
(* effect: what was handed out is new (Fresh), what may move is held and   *)
(* what is marked over is over (Held), what a stop confirmed is still      *)
(* (Confirmed), and what the coordinator and the client were told of       *)
(* success is true (Told).                                                 *)
(***************************************************************************)
EXTENDS SequenceNode, TLAPS

Live == {"sent", "accepted"}
Ended == {"succeeded", "failed"}

(* The types the proofs need.                                              *)
Typed ==
  /\ active \in Commands \cup {None}
  /\ stopping \in Halfway \cup {None}
  /\ slot \in [Kinds -> Slot \cup {None}]
  /\ place \in [Commands -> Places]
  /\ says \in [Commands -> Verdicts]
  /\ goal \in [Commands -> GoalStates]
  /\ exec # "none" => reserved \in TaskIds

-----------------------------------------------------------------------------
(* The ports of a stop change no slot but in what they asked of it.        *)
Alike(s, z) ==
  /\ z \in Slot \cup {None}
  /\ z = None <=> s = None
  /\ s # None => z.cmd = s.cmd /\ z.terminal = s.terminal

SlotsKept == /\ slot' \in [Kinds -> Slot \cup {None}]
             /\ \A k \in Kinds : Alike(slot[k], slot'[k])

(* None is no slot, no command and no half-done stop.                      *)
LEMMA SlotNotNone ==
  None \notin Slot /\ None \notin Commands /\ None \notin Halfway
BY NodeConstants

(* What a port asks of a slot changes neither its command nor its mark.    *)
LEMMA AskedAlike ==
  ASSUME NEW s \in Slot
  PROVE  /\ Alike(s, [s EXCEPT !.cancelOnAccept = TRUE])
         /\ Alike(s, [s EXCEPT !.cancel = "asked"])
         /\ Alike(s, [s EXCEPT !.cancel = "answered"])
         /\ Alike(s, [s EXCEPT !.accepted = TRUE])
         /\ Alike(s, [s EXCEPT !.told = TRUE])
<1> DEFINE Rec(z) == z \in Slot /\ z.cmd = s.cmd /\ z.terminal = s.terminal
<1>1. /\ Rec([s EXCEPT !.cancelOnAccept = TRUE])
      /\ Rec([s EXCEPT !.cancel = "asked"])
      /\ Rec([s EXCEPT !.cancel = "answered"])
      /\ Rec([s EXCEPT !.accepted = TRUE])
      /\ Rec([s EXCEPT !.told = TRUE])
  BY DEF Slot
<1>2. \A z : Rec(z) => Alike(s, z)
  BY SlotNotNone DEF Alike
<1> QED BY <1>1, <1>2

(* _cancel_slot calls a command over only if its slot is free or marked.   *)
LEMMA CancelSlotAlike ==
  ASSUME Typed, NEW k \in Kinds, NEW c, NEW o \in CancelSlot(k, c)
  PROVE  /\ Alike(slot[k], o.slot) /\ o.over \in BOOLEAN
         /\ o.over /\ (slot[k] # None => c = slot[k].cmd)
              => slot[k] = None \/ slot[k].terminal
<1> DEFINE s == slot[k]
<1>0. s \in Slot \cup {None}
  BY DEF Typed
<1>1. CASE s = None
  <2>1. o = Outcome(s, {}, c \notin uncertain)
    BY <1>1 DEF CancelSlot
  <2>2. o.slot = s /\ o.over = (c \notin uncertain)
    BY <2>1 DEF Outcome
  <2> QED BY <1>1, <2>2, SlotNotNone DEF Alike
<1>2. CASE s # None /\ s.cmd # c
  <2>1. o = Outcome(s, {}, FALSE)
    BY <1>2 DEF CancelSlot
  <2>2. o.slot = s /\ o.over = FALSE
    BY <2>1 DEF Outcome
  <2> QED BY <1>0, <1>2, <2>2 DEF Alike
<1>3. CASE s # None /\ s.cmd = c /\ s.terminal
  <2>1. o = Outcome(s, {}, TRUE)
    BY <1>3 DEF CancelSlot
  <2>2. o.slot = s /\ o.over = TRUE
    BY <2>1 DEF Outcome
  <2> QED BY <1>0, <1>3, <2>2 DEF Alike
<1>4. CASE s # None /\ s.cmd = c /\ ~s.terminal /\ ~s.accepted
  <2>1. o = Outcome([s EXCEPT !.cancelOnAccept = TRUE], {}, FALSE)
    BY <1>4 DEF CancelSlot
  <2>2. o.slot = [s EXCEPT !.cancelOnAccept = TRUE] /\ o.over = FALSE
    BY <2>1 DEF Outcome
  <2> QED BY <1>0, <1>4, <2>2, AskedAlike
<1>5. CASE s # None /\ s.cmd = c /\ ~s.terminal /\ s.accepted /\ s.cancel # "none"
  <2>1. o = Outcome(s, {}, FALSE)
    BY <1>5 DEF CancelSlot
  <2>2. o.slot = s /\ o.over = FALSE
    BY <2>1 DEF Outcome
  <2> QED BY <1>0, <1>5, <2>2 DEF Alike
<1>6. CASE s # None /\ s.cmd = c /\ ~s.terminal /\ s.accepted /\ ~(s.cancel # "none")
  <2>1. \/ o = Outcome([s EXCEPT !.cancel = "asked"], {}, FALSE)
        \/ o = Outcome(s, {c}, FALSE)
    BY <1>6 DEF CancelSlot
  <2>2. \/ o.slot = [s EXCEPT !.cancel = "asked"] /\ o.over = FALSE
        \/ o.slot = s /\ o.over = FALSE
    BY <2>1 DEF Outcome
  <2>3. Alike(s, s)
    BY <1>0 DEF Alike
  <2> QED BY <1>0, <1>6, <2>2, <2>3, AskedAlike
<1> QED BY <1>1, <1>2, <1>3, <1>4, <1>5, <1>6

(* _stop_kind calls a kind stopped only if its slot is free or marked.     *)
LEMMA StopKindAlike ==
  ASSUME Typed, NEW k \in Kinds, NEW o \in StopKind(k)
  PROVE  /\ Alike(slot[k], o.slot) /\ o.over \in BOOLEAN
         /\ o.over => slot[k] = None \/ slot[k].terminal
<1>1. CASE slot[k] = None
  <2>1. o = Outcome(None, {}, uncertain = {})
    BY <1>1 DEF StopKind
  <2>2. o.slot = None /\ o.over = (uncertain = {})
    BY <2>1 DEF Outcome
  <2> QED BY <1>1, <2>2, SlotNotNone DEF Alike
<1>2. CASE slot[k] # None
  <2>1. o \in CancelSlot(k, slot[k].cmd)
    BY <1>2 DEF StopKind
  <2> QED BY <1>2, <2>1, CancelSlotAlike
<1> QED BY <1>1, <1>2

(* Writing one slot alike keeps all of them.                               *)
LEMMA OneSlotKept ==
  ASSUME Typed, NEW k \in Kinds, NEW z, Alike(slot[k], z),
         slot' = [slot EXCEPT ![k] = z]
  PROVE  SlotsKept
<1>1. slot' \in [Kinds -> Slot \cup {None}]
  BY DEF Typed, Alike
<1>2. ASSUME NEW j \in Kinds
      PROVE  Alike(slot[j], slot'[j])
  <2>1. CASE j = k
    BY <2>1 DEF Typed
  <2>2. CASE j # k
    <3>1. slot'[j] = slot[j]
      BY <2>2 DEF Typed
    <3>2. slot[j] \in Slot \cup {None}
      BY DEF Typed
    <3> QED BY <3>1, <3>2 DEF Alike
  <2> QED BY <2>1, <2>2
<1> QED BY <1>1, <1>2 DEF SlotsKept

(* So does writing none.                                                   *)
LEMMA SlotSame ==
  ASSUME Typed, UNCHANGED slot
  PROVE  SlotsKept
BY DEF Typed, SlotsKept, Alike

(* The first port call of a stop keeps the slots.                          *)
LEMMA BeginStopKeeps ==
  ASSUME Typed, NEW a \in Commands \cup {None}, BeginStop(a)
  PROVE  SlotsKept /\ stopping' \in Halfway
<1>1. CASE a = None
  <2>1. stopping' = [act |-> None, over |-> TRUE] /\ slot' = slot
    BY <1>1 DEF BeginStop, ports
  <2> QED BY <2>1, SlotSame DEF Halfway
<1>2. CASE a # None
  <2>1. PICK o \in CancelSlot(Kind(a), a) :
          /\ stopping' = [act |-> a, over |-> o.over]
          /\ slot' = [slot EXCEPT ![Kind(a)] = o.slot]
    BY <1>2 DEF BeginStop
  <2>2. Kind(a) \in Kinds
    BY DEF Kind, Kinds
  <2>3. Alike(slot[Kind(a)], o.slot) /\ o.over \in BOOLEAN
    BY <2>2, CancelSlotAlike
  <2>4. stopping' \in Halfway
    BY <2>1, <2>3 DEF Halfway
  <2> QED BY <2>1, <2>2, <2>3, <2>4, OneSlotKept
<1> QED BY <1>1, <1>2

(* A stop whose two ports confirmed it found each slot free or its goal    *)
(* over.                                                                   *)
LEMMA FinishStopKeeps ==
  ASSUME Typed, FinishStop
  PROVE  /\ SlotsKept /\ stopOk' \in BOOLEAN /\ recovery' \in BOOLEAN
         /\ stopOk' \/ ~recovery'
              => \A k \in Kinds : slot[k] = None \/ slot[k].terminal
<1>1. PICK a \in StopKind("arm"), g \in StopKind("gripper") :
        /\ slot' = [k \in Kinds |-> IF k = "arm" THEN a.slot ELSE g.slot]
        /\ stopOk' = (a.over /\ g.over)
        /\ recovery' = ~(stopping.over /\ a.over /\ g.over)
  BY DEF FinishStop
<1>2. /\ Alike(slot["arm"], a.slot) /\ Alike(slot["gripper"], g.slot)
      /\ a.over \in BOOLEAN /\ g.over \in BOOLEAN
      /\ a.over => slot["arm"] = None \/ slot["arm"].terminal
      /\ g.over => slot["gripper"] = None \/ slot["gripper"].terminal
  BY StopKindAlike DEF Kinds
<1>3. SlotsKept
  BY <1>1, <1>2 DEF SlotsKept, Alike, Kinds
<1>4. stopOk' \in BOOLEAN /\ recovery' \in BOOLEAN
  BY <1>1
<1>5. stopOk' \/ ~recovery' => a.over /\ g.over
  BY <1>1
<1> QED BY <1>2, <1>3, <1>4, <1>5 DEF Kinds

-----------------------------------------------------------------------------
(* The effects an action may have.  Calm: at most one command's callbacks  *)
(* move on, and carry no better verdict than before.                       *)
Calm ==
  \/ UNCHANGED <<place, says>>
  \/ \E c \in Commands, p \in Places \ {"terminal"} :
       \E v \in {"unproven", says[c]} : To(c, p, v)

Aside ==
  /\ SlotsKept /\ Calm
  /\ UNCHANGED <<phase, task, active, used, recovery, stopOk, stopping, goal,
                 reserved, exec, answer>>

StopBegins ==
  /\ stopping = None /\ stopping' \in Halfway
  /\ SlotsKept /\ Calm
  /\ UNCHANGED <<phase, active, used, recovery, stopOk, goal, reserved, answer>>
  /\ \/ UNCHANGED <<task, exec>>
     \/ /\ exec = "admitted" /\ phase = "IDLE"
        /\ task' = reserved /\ exec' = "running"

StopEnds ==
  /\ stopping # None /\ stopping' = None
  /\ SlotsKept /\ stopOk' \in BOOLEAN /\ recovery' \in BOOLEAN
  /\ stopOk' \/ ~recovery'
       => \A k \in Kinds : slot[k] = None \/ slot[k].terminal
  /\ phase' = "SAFE_STOP" /\ active' \in Commands \cup {None}
  /\ UNCHANGED <<place, says, task, used, goal, reserved, exec, answer>>

Withheld(c) ==
  /\ goal' = [goal EXCEPT ![c] = "withheld"]
  /\ slot' = slot /\ active' = None /\ stopping' \in Halfway

Sent(c) ==
  /\ slot[Kind(c)] = None
  /\ goal' = [goal EXCEPT ![c] = "sent"]
  /\ slot' = [slot EXCEPT ![Kind(c)] = NewSlot(c)]
  /\ \/ active' = c /\ stopping' = None
     \/ active' = None /\ stopping' \in Halfway

Submits(c) ==
  /\ stopping = None
  /\ Withheld(c) \/ Sent(c)
  /\ place' \in [Commands -> Places]
  /\ \A d \in Commands : place'[d] = "terminal" => place[d] = "terminal"
  /\ phase' = "RUN"
  /\ UNCHANGED <<says, recovery, stopOk, reserved, answer>>

Starts ==
  /\ exec = "admitted" /\ phase = "IDLE" /\ reserved \notin used
  /\ used' = used \cup {reserved} /\ task' = reserved /\ exec' = "running"
  /\ Submits(<<reserved, 0>>)

Succeeds(c) == phase = "RUN" /\ stopping = None /\ active = c
               /\ says[c] = "succeeded"

Advances(c) ==
  /\ Succeeds(c) /\ c[2] # LastStage
  /\ Submits(<<c[1], c[2] + 1>>)
  /\ UNCHANGED <<used, task, exec>>

Completes(c) ==
  /\ Succeeds(c) /\ c[2] = LastStage
  /\ phase' = "COMPLETE" /\ active' = None /\ Calm
  /\ UNCHANGED <<slot, goal, stopping, used, task, exec, reserved, recovery,
                 stopOk, answer>>

Elsewhere == UNCHANGED <<phase, task, active, used, recovery, stopOk, stopping,
                         reserved, exec, answer>>

Frees(c) ==
  /\ Mine(c)
  /\ goal[c] = "refused" \/ place[c] = "terminal"
  /\ slot' = [slot EXCEPT ![Kind(c)] = None]
  /\ Calm /\ UNCHANGED goal /\ Elsewhere

Trusts(c) ==
  /\ Mine(c) /\ goal[c] \in Ended
  /\ slot' = [slot EXCEPT ![Kind(c)].terminal = TRUE]
  /\ place' = [place EXCEPT ![c] = "terminal"]
  /\ \E v \in Verdicts : /\ says' = [says EXCEPT ![c] = v]
                         /\ v = "succeeded" => goal[c] = "succeeded"
  /\ UNCHANGED goal /\ Elsewhere

Turns(c) ==
  /\ goal[c] \in Live
  /\ \E g \in {"accepted", "refused", "succeeded", "failed"} :
       goal' = [goal EXCEPT ![c] = g]
  /\ UNCHANGED <<slot, place, says>> /\ Elsewhere

Recovers ==
  /\ stopping = None /\ reserved = None /\ \A k \in Kinds : slot[k] = None
  /\ phase \in {"COMPLETE", "SAFE_STOP"} /\ phase' = "IDLE"
  /\ task' = None /\ active' = None /\ recovery' = FALSE /\ stopOk' = TRUE
  /\ UNCHANGED <<used, stopping, reserved, exec, answer, slot, place, says,
                 goal>>

Confirms ==
  /\ phase = "SAFE_STOP" /\ stopping = None
  /\ active' = None /\ recovery' = ~stopOk
  /\ Calm
  /\ UNCHANGED <<phase, task, used, stopOk, stopping, slot, goal, reserved,
                 exec, answer>>

ClientMoves ==
  /\ UNCHANGED <<phase, task, active, used, recovery, stopOk, stopping, slot,
                 place, says, goal>>
  /\ \/ /\ reserved = None /\ reserved' \in TaskIds /\ exec' = "reserved"
        /\ UNCHANGED answer
     \/ /\ exec = "reserved" /\ exec' = "admitted"
        /\ UNCHANGED <<reserved, answer>>
     \/ /\ exec # "none" /\ exec' = "none" /\ reserved' = None
        /\ \E a \in {"succeeded", "canceled", "aborted"} :
             /\ answer' = [answer EXCEPT ![reserved] = a]
             /\ a = "succeeded" => exec = "running" /\ phase = "COMPLETE"

Effect ==
  \/ Aside \/ StopBegins \/ StopEnds \/ Starts \/ Recovers \/ Confirms
  \/ ClientMoves
  \/ \E c \in Commands : \/ Advances(c) \/ Completes(c) \/ Frees(c)
                         \/ Trusts(c) \/ Turns(c)

USE DEF core, client, ports, cb, world

(* Moving one command's callbacks on is calm.                              *)
LEMMA ToCalm ==
  ASSUME NEW c \in Commands, NEW p \in Places \ {"terminal"}, NEW v,
         v = "unproven" \/ v = says[c], To(c, p, v)
  PROVE  Calm
BY DEF Calm

(* The client's goal, its scene check and its answer.                      *)
LEMMA ClientEffect ==
  ASSUME Typed,
         (\E t \in TaskIds : OnGoal(t)) \/ AdmitScene \/ Refuse \/ Finish
  PROVE  ClientMoves
<1>1. CASE \E t \in TaskIds : OnGoal(t)
  BY <1>1 DEF OnGoal, ClientMoves
<1>2. CASE AdmitScene
  BY <1>2 DEF AdmitScene, ClientMoves
<1>3. CASE Refuse
  BY <1>3 DEF Refuse, Leave, ClientMoves
<1>4. CASE Finish
  <2> DEFINE a == CASE cancelRequested     -> "canceled"
                    [] phase = "COMPLETE" /\ ~cancelRequested -> "succeeded"
                    [] OTHER               -> "aborted"
  <2>1. exec = "running" /\ Leave(reserved, a)
    BY <1>4 DEF Finish
  <2>2. a \in {"succeeded", "canceled", "aborted"}
    OBVIOUS
  <2>3. a = "succeeded" => phase = "COMPLETE"
    OBVIOUS
  <2>4. UNCHANGED <<phase, task, active, used, recovery, stopOk, stopping, slot,
                    place, says, goal>>
    BY <1>4 DEF Finish
  <2> HIDE DEF a
  <2> QED BY <2>1, <2>2, <2>3, <2>4 DEF Leave, ClientMoves
<1> QED BY <1>1, <1>2, <1>3, <1>4

(* _submit_arm and _submit_gripper, from either caller.                    *)
LEMMA SubmitEffect ==
  ASSUME Typed, NEW c \in Commands, NEW pl \in [Commands -> Places],
         \A d \in Commands : pl[d] = "terminal" => place[d] = "terminal",
         CoreFree, Submit(c, pl), phase' = "RUN",
         UNCHANGED <<says, recovery, stopOk, reserved, answer>>
  PROVE  Submits(c)
<1>0. [act |-> None, over |-> TRUE] \in Halfway
  BY DEF Halfway
<1>1. CASE Withhold(c, pl)
  <2>1. Withheld(c)
    BY <1>0, <1>1 DEF Withhold, Withheld
  <2> QED BY <1>1, <2>1 DEF Withhold, Submits, CoreFree
<1>2. CASE Send(c, pl)
  <2>1. Sent(c)
    BY <1>0, <1>2 DEF Send, Sent, CoreFree
  <2>2. PICK p \in {"sent", "over"} : place' = [pl EXCEPT ![c] = p]
    BY <1>2 DEF Send
  <2>3. place' \in [Commands -> Places]
    BY <2>2 DEF Places
  <2>4. \A d \in Commands : place'[d] = "terminal" => place[d] = "terminal"
    BY <2>2
  <2> QED BY <2>1, <2>3, <2>4 DEF Submits, CoreFree
<1> QED BY <1>1, <1>2 DEF Submit

(* start submits the first stage or begins a stop.                         *)
LEMMA StartEffect ==
  ASSUME Typed, NEW ok \in BOOLEAN, Start(ok)
  PROVE  Starts \/ StopBegins
<1>1. /\ CoreFree /\ exec = "admitted" /\ phase = "IDLE" /\ exec' = "running"
      /\ task' = reserved /\ UNCHANGED <<reserved, answer, says>>
  BY DEF Start
<1>2. CASE ok /\ reserved \notin used
  <2>1. /\ used' = used \cup {reserved} /\ phase' = "RUN"
        /\ Submit(<<reserved, 0>>, place) /\ UNCHANGED <<recovery, stopOk>>
    BY <1>2 DEF Start
  <2>2. <<reserved, 0>> \in Commands /\ place \in [Commands -> Places]
    BY <1>1 DEF Typed, Commands, Stages
  <2>3. Submits(<<reserved, 0>>)
    BY <1>1, <2>1, <2>2, SubmitEffect
  <2> QED BY <1>1, <1>2, <2>1, <2>3 DEF Starts
<1>3. CASE ~(ok /\ reserved \notin used)
  <2>1. BeginStop(None) /\ UNCHANGED <<phase, active, used, recovery, stopOk,
                                       place, goal>>
    BY <1>3 DEF Start
  <2>2. SlotsKept /\ stopping' \in Halfway
    BY <2>1, BeginStopKeeps
  <2> QED BY <1>1, <2>1, <2>2 DEF StopBegins, CoreFree, Calm
<1> QED BY <1>2, <1>3

(* A success submits the next stage or completes the sequence.             *)
LEMMA AdvanceEffect ==
  ASSUME Typed, NEW c \in Commands, DeliverSuccess(c)
  PROVE  Advances(c) \/ Completes(c)
<1> DEFINE pl == [place EXCEPT ![c] = "over"]
<1>1. /\ CoreFree /\ phase = "RUN" /\ active = c /\ says[c] = "succeeded"
      /\ UNCHANGED <<task, used, recovery, stopOk, says, reserved, exec, answer>>
  BY DEF DeliverSuccess
<1>2. Succeeds(c)
  BY <1>1 DEF Succeeds, CoreFree
<1>3. pl \in [Commands -> Places]
      /\ \A d \in Commands : pl[d] = "terminal" => place[d] = "terminal"
  BY DEF Typed, Places
<1>4. CASE c[2] = LastStage
  <2>1. /\ phase' = "COMPLETE" /\ active' = None /\ place' = pl
        /\ UNCHANGED <<stopping, slot, goal>>
    BY <1>4 DEF DeliverSuccess
  <2>2. says' = [says EXCEPT ![c] = says[c]]
    BY <1>1 DEF Typed
  <2>3. Calm
    BY <2>1, <2>2 DEF Calm, To, Places
  <2> QED BY <1>1, <1>2, <1>4, <2>1, <2>3 DEF Completes
<1>5. CASE c[2] # LastStage
  <2>1. Submit(<<c[1], c[2] + 1>>, pl) /\ phase' = "RUN"
    BY <1>1, <1>5 DEF DeliverSuccess
  <2>2. <<c[1], c[2] + 1>> \in Commands
    BY <1>5 DEF Commands, Stages, LastStage
  <2>3. Submits(<<c[1], c[2] + 1>>)
    <3> HIDE DEF pl
    <3> QED BY <1>1, <1>3, <2>1, <2>2, SubmitEffect
  <2> QED BY <1>1, <1>2, <1>5, <2>3 DEF Advances
<1> QED BY <1>4, <1>5

(* _fail_closed up to its first port call begins a stop.                   *)
LEMMA StopEffect ==
  ASSUME Typed, NEW a \in Commands \cup {None}, CoreFree, BeginStop(a), Calm,
         UNCHANGED <<phase, task, active, used, recovery, stopOk, goal,
                     reserved, exec, answer>>
  PROVE  StopBegins
BY BeginStopKeeps DEF StopBegins, CoreFree

(* request_stop begins a stop or does nothing.                             *)
LEMMA StopIfRunningEffect ==
  ASSUME Typed, CoreFree, StopIfRunning, Calm,
         UNCHANGED <<task, used, goal, reserved, exec, answer>>
  PROVE  StopBegins \/ Aside
<1>1. CASE phase = "RUN"
  <2>1. BeginStop(active) /\ UNCHANGED <<phase, active, recovery, stopOk>>
    BY <1>1 DEF StopIfRunning
  <2>2. active \in Commands \cup {None}
    BY DEF Typed
  <2> QED BY <2>1, <2>2, StopEffect
<1>2. CASE phase # "RUN"
  <2>1. UNCHANGED <<phase, active, recovery, stopOk, stopping, slot>>
    BY <1>2 DEF StopIfRunning
  <2> QED BY <2>1, SlotSame DEF Aside
<1> QED BY <1>1, <1>2

(* The control loop, a client cancel, the end of a stop and reset.         *)
LEMMA LoopEffect ==
  ASSUME Typed, TickFails \/ OnCancel \/ FinishStop \/ Reset
  PROVE  Effect
<1>1. CASE TickFails
  <2>1. CoreFree /\ BeginStop(active) /\ active \in Commands \cup {None} /\ Calm
        /\ UNCHANGED <<phase, task, active, used, recovery, stopOk, goal,
                       reserved, exec, answer>>
    BY <1>1 DEF TickFails, Calm, Typed
  <2> QED BY <2>1, StopEffect DEF Effect
<1>2. CASE OnCancel
  <2>1. CoreFree /\ BeginStop(active) /\ active \in Commands \cup {None} /\ Calm
        /\ UNCHANGED <<phase, task, active, used, recovery, stopOk, goal,
                       reserved, exec, answer>>
    BY <1>2 DEF OnCancel, Calm, Typed
  <2> QED BY <2>1, StopEffect DEF Effect
<1>3. CASE FinishStop
  <2>1. /\ stopping # None /\ stopping' = None /\ phase' = "SAFE_STOP"
        /\ active' = stopping.act
        /\ UNCHANGED <<place, says, task, used, goal, reserved, exec, answer>>
    BY <1>3 DEF FinishStop
  <2>2. stopping.act \in Commands \cup {None}
    BY <2>1 DEF Typed, Halfway
  <2> QED BY <1>3, <2>1, <2>2, FinishStopKeeps DEF StopEnds, Effect
<1>4. CASE Reset
  <2>1. Recovers
    BY <1>4 DEF Reset, Recovers, CoreFree
  <2> QED BY <2>1 DEF Effect
<1> QED BY <1>1, <1>2, <1>3, <1>4

(* The callbacks of a command that change no slot but its own.             *)
LEMMA PortEffect ==
  ASSUME Typed, NEW c \in Commands,
         \/ FutureRaises(c) \/ GoalAccepted(c) \/ CancelAccepted(c)
         \/ AwaitResult(c) \/ ResultUntrusted(c) \/ AskContacts(c)
         \/ ContactsConfirmed(c) \/ ContactsFail(c) \/ DeliverIgnored(c)
         \/ FeedbackSeen(c)
  PROVE  Aside
<1>0. Kind(c) \in Kinds
  BY DEF Kind, Kinds
<1>1. UNCHANGED <<phase, task, active, used, recovery, stopOk, stopping, goal,
                  reserved, exec, answer>>
  BY DEF FutureRaises, GoalAccepted, CancelAccepted, AwaitResult,
     ResultUntrusted, AskContacts, ContactsConfirmed, ContactsFail,
     DeliverIgnored, FeedbackSeen, Keeps
<1>2. Calm
  <2>1. CASE FutureRaises(c)
    BY <2>1, ToCalm DEF FutureRaises, Places
  <2>2. CASE GoalAccepted(c)
    <3>1. PICK p \in {"cancelling", "accepted"} : To(c, p, "unproven")
      BY <2>2 DEF GoalAccepted
    <3> QED BY <3>1, ToCalm DEF Places
  <2>3. CASE CancelAccepted(c) \/ AwaitResult(c) \/ ResultUntrusted(c)
    <3>1. PICK p \in {"accepted", "awaiting", "stop"} : To(c, p, "unproven")
      BY <2>3 DEF CancelAccepted, AwaitResult, ResultUntrusted
    <3> QED BY <3>1, ToCalm DEF Places
  <2>4. CASE \/ AskContacts(c) \/ ContactsConfirmed(c) \/ ContactsFail(c)
            \/ DeliverIgnored(c)
    <3>1. PICK p \in {"calling", "deliver", "stop", "over"} : To(c, p, says[c])
      BY <2>4 DEF AskContacts, ContactsConfirmed, ContactsFail, DeliverIgnored
    <3> QED BY <3>1, ToCalm DEF Places
  <2>5. CASE FeedbackSeen(c)
    BY <2>5 DEF FeedbackSeen, Calm
  <2> QED BY <2>1, <2>2, <2>3, <2>4, <2>5
<1>3. SlotsKept
  <2>1. CASE UNCHANGED slot
    BY <2>1, SlotSame
  <2>2. CASE GoalAccepted(c)
    <3>1. Mine(c) /\ slot' = [slot EXCEPT ![Kind(c)].accepted = TRUE]
      BY <2>2 DEF GoalAccepted
    <3>2. slot[Kind(c)] \in Slot
      BY <1>0, <3>1 DEF Typed, Mine
    <3>3. slot' = [slot EXCEPT ![Kind(c)] =
                                 [slot[Kind(c)] EXCEPT !.accepted = TRUE]]
      BY <3>1
    <3> QED BY <1>0, <3>2, <3>3, AskedAlike, OneSlotKept
  <2>3. CASE FeedbackSeen(c)
    <3>1. slot["arm"] # None /\ slot' = [slot EXCEPT !["arm"].told = TRUE]
      BY <2>3 DEF FeedbackSeen, Mine
    <3>2. "arm" \in Kinds /\ slot["arm"] \in Slot
      BY <3>1 DEF Typed, Kinds
    <3>3. slot' = [slot EXCEPT !["arm"] = [slot["arm"] EXCEPT !.told = TRUE]]
      BY <3>1
    <3> QED BY <3>2, <3>3, AskedAlike, OneSlotKept
  <2>4. CASE CancelAccepted(c)
    <3>1. PICK o \in CancelSlot(Kind(c), c) :
            slot' = [slot EXCEPT ![Kind(c)] = o.slot]
      BY <2>4 DEF CancelAccepted
    <3> QED BY <1>0, <3>1, CancelSlotAlike, OneSlotKept
  <2> QED BY <2>1, <2>2, <2>3, <2>4 DEF FutureRaises, AwaitResult,
          ResultUntrusted, AskContacts, ContactsConfirmed, ContactsFail,
          DeliverIgnored
<1> QED BY <1>1, <1>2, <1>3 DEF Aside

(* The answer to a cancel changes its slot's mark of it only.              *)
LEMMA CancelAnsweredEffect ==
  ASSUME Typed, NEW k \in Kinds, CancelAnswered(k)
  PROVE  Aside
<1>1. /\ slot[k] # None /\ slot' = [slot EXCEPT ![k].cancel = "answered"]
      /\ UNCHANGED <<phase, task, active, used, recovery, stopOk, stopping, goal,
                     reserved, exec, answer, place, says>>
  BY DEF CancelAnswered
<1>2. slot[k] \in Slot
  BY <1>1 DEF Typed
<1>3. slot' = [slot EXCEPT ![k] = [slot[k] EXCEPT !.cancel = "answered"]]
  BY <1>1
<1>4. SlotsKept
  BY <1>2, <1>3, AskedAlike, OneSlotKept
<1> QED BY <1>1, <1>4 DEF Aside, Calm

(* Results mark a slot, release it or retain it.                           *)
LEMMA ResultEffect ==
  ASSUME Typed, NEW c \in Commands,
         GoalRejected(c) \/ ResultTrusted(c) \/ ReleaseSlot(c)
  PROVE  Frees(c) \/ Trusts(c)
<1>0. Elsewhere /\ UNCHANGED goal
  BY DEF GoalRejected, ResultTrusted, ReleaseSlot, Keeps, Elsewhere
<1>1. CASE GoalRejected(c)
  <2>1. Calm
    BY <1>1, ToCalm DEF GoalRejected, Places
  <2> QED BY <1>0, <1>1, <2>1 DEF GoalRejected, Frees
<1>2. CASE ResultTrusted(c)
  BY <1>0, <1>2 DEF ResultTrusted, Trusts, To, Ended
<1>3. CASE ReleaseSlot(c)
  <2>1. PICK p \in {"policy", "deliver"} : To(c, p, says[c])
    BY <1>3 DEF ReleaseSlot
  <2>2. Calm
    BY <2>1, ToCalm DEF Places
  <2> QED BY <1>0, <1>3, <2>2 DEF ReleaseSlot, Frees
<1> QED BY <1>1, <1>2, <1>3

(* What is delivered is ignored, confirms a stop or begins one.            *)
LEMMA DeliverEffect ==
  ASSUME Typed, NEW c \in Commands,
         \/ StopRequested(c) \/ DeliverCancelled(c) \/ DeliverLate(c)
         \/ \E ok \in BOOLEAN : DeliverFailure(c, ok) \/ FeedbackTold(c, ok)
  PROVE  Aside \/ StopBegins \/ Confirms
<1>0. active \in Commands \cup {None}
  BY DEF Typed
<1>1. CASE StopRequested(c) \/ DeliverCancelled(c)
  <2>1. /\ CoreFree /\ StopIfRunning /\ To(c, "over", says[c])
        /\ UNCHANGED <<task, used, goal, reserved, exec, answer>>
    BY <1>1 DEF StopRequested, DeliverCancelled
  <2>2. Calm
    BY <2>1, ToCalm DEF Places
  <2> QED BY <2>1, <2>2, StopIfRunningEffect
<1>2. CASE DeliverLate(c)
  <2>1. Calm
    BY <1>2, ToCalm DEF DeliverLate, Places
  <2> QED BY <1>2, <2>1 DEF DeliverLate, Confirms, CoreFree
<1>3. ASSUME NEW ok \in BOOLEAN, DeliverFailure(c, ok)
      PROVE  StopBegins
  <2>1. /\ CoreFree
        /\ BeginStop(None) \/ BeginStop(active)
        /\ To(c, "over", says[c])
        /\ UNCHANGED <<phase, task, active, used, recovery, stopOk, goal,
                       reserved, exec, answer>>
    BY <1>3 DEF DeliverFailure
  <2>2. Calm
    BY <2>1, ToCalm DEF Places
  <2> QED BY <1>0, <2>1, <2>2, StopEffect
<1>4. ASSUME NEW ok \in BOOLEAN, FeedbackTold(c, ok)
      PROVE  StopBegins \/ Aside
  <2>1. /\ CoreFree /\ Calm
        /\ UNCHANGED <<phase, task, active, used, recovery, stopOk, goal,
                       reserved, exec, answer>>
    BY <1>4 DEF FeedbackTold, Calm
  <2>2. BeginStop(active) \/ UNCHANGED <<stopping, slot>>
    BY <1>4 DEF FeedbackTold
  <2> QED BY <1>0, <2>1, <2>2, StopEffect, SlotSame DEF Aside
<1> QED BY <1>1, <1>2, <1>3, <1>4

(* Outside the node goals turn, and the scene changes.                     *)
LEMMA OutsideEffect ==
  ASSUME Typed, (\E c \in Commands : Outside(c)) \/ ContactsWithdrawn \/ SceneStatus
  PROVE  Aside \/ \E c \in Commands : Turns(c)
<1>1. ASSUME NEW c \in Commands, ServerAccepts(c) \/ MotionEnds(c)
      PROVE  Turns(c)
  BY <1>1 DEF ServerAccepts, MotionEnds, Turns, Live, live, Elsewhere
<1>2. ASSUME (\E c \in Commands : LoaderServes(c)) \/ ContactsWithdrawn
             \/ SceneStatus
      PROVE  Aside
  <2>1. UNCHANGED <<phase, task, active, used, recovery, stopOk, stopping, goal,
                    reserved, exec, answer, place, says, slot>>
    BY <1>2 DEF LoaderServes, ContactsWithdrawn, SceneStatus
  <2> QED BY <2>1, SlotSame DEF Aside, Calm
<1> QED BY <1>1, <1>2 DEF Outside

(* Every step has one of the effects.                                      *)
LEMMA StepEffect == Typed /\ [Next]_vars => Effect
<1> SUFFICES ASSUME Typed, [Next]_vars PROVE Effect
  OBVIOUS
<1>1. ASSUME NEW c \in Commands, Callback(c)
      PROVE  Effect
  BY <1>1, PortEffect, ResultEffect, DeliverEffect, AdvanceEffect
  DEF Callback, Effect, Snapshots
<1>2. ASSUME NEW ok \in Snapshots, Start(ok)
      PROVE  Effect
  BY <1>2, StartEffect DEF Effect, Snapshots
<1>3. CASE FinishStop \/ TickFails \/ OnCancel \/ Reset
  BY <1>3, LoopEffect
<1>4. CASE (\E t \in TaskIds : OnGoal(t)) \/ AdmitScene \/ Refuse \/ Finish
  BY <1>4, ClientEffect DEF Effect
<1>5. CASE \E k \in Kinds : CancelAnswered(k)
  BY <1>5, CancelAnsweredEffect DEF Effect
<1>6. CASE (\E c \in Commands : Outside(c)) \/ ContactsWithdrawn \/ SceneStatus
  BY <1>6, OutsideEffect DEF Effect
<1>7. CASE UNCHANGED vars
  <2>1. UNCHANGED <<phase, task, active, used, recovery, stopOk, stopping, goal,
                    reserved, exec, answer, place, says, slot>>
    BY <1>7 DEF vars
  <2> QED BY <2>1, SlotSame DEF Aside, Calm, Effect
<1> QED BY <1>1, <1>2, <1>3, <1>4, <1>5, <1>6, <1>7 DEF Next
-----------------------------------------------------------------------------
(* The inductive invariant.                                                *)

(* A task not yet used was handed nothing downstream; while a sequence     *)
(* runs it has one active command and later stages were not handed out.    *)
Fresh ==
  /\ \A c \in Commands : c[1] \notin used => goal[c] = "none"
  /\ phase = "RUN" /\ stopping = None =>
       /\ active \in Commands /\ active[1] \in used
       /\ \A s \in Stages : s > active[2] => goal[<<active[1], s>>] = "none"

(* A goal that may move is in its slot, and a terminal on its way or       *)
(* marked in a slot is one of a goal that ended.                           *)
Held ==
  /\ MovingIsHeld
  /\ \A c \in Commands : place[c] = "terminal" => goal[c] \in Ended
  /\ \A k \in Kinds : slot[k] # None /\ slot[k].terminal
                        => goal[slot[k].cmd] \in Ended

(* A stop that was confirmed, or whose other half a late terminal may yet  *)
(* confirm, left nothing moving.                                           *)
Confirmed == /\ stopOk \in BOOLEAN /\ recovery \in BOOLEAN
             /\ phase = "SAFE_STOP" /\ (stopOk \/ ~recovery) => live = {}

(* The client's task is the coordinator's, and what each has been told of  *)
(* success is true.                                                        *)
Told ==
  /\ phase \in {"IDLE", "RUN", "COMPLETE", "SAFE_STOP"}
  /\ phase = "IDLE" => live = {}
  /\ phase = "RUN" /\ stopping = None =>
       /\ active[1] = task /\ live \subseteq {active}
       /\ \A s \in Stages : s < active[2] => <<task, s>> \in succeeded
  /\ \A c \in Commands : says[c] = "succeeded" => c \in succeeded
  /\ exec = "running" => task = reserved
  /\ phase = "COMPLETE" => \A s \in Stages : <<task, s>> \in succeeded
  /\ answer \in [TaskIds -> {"none", "succeeded", "canceled", "aborted"}]
  /\ SuccessIsTrue

IInv == Typed /\ Fresh /\ Held /\ Confirmed /\ Told

(* A calm step keeps the callbacks' types and invents no verdict.          *)
LEMMA CalmKeeps ==
  ASSUME Typed, Calm
  PROVE  /\ place' \in [Commands -> Places] /\ says' \in [Commands -> Verdicts]
         /\ \A c \in Commands : place'[c] = "terminal" => place[c] = "terminal"
         /\ \A c \in Commands : says'[c] = "succeeded" => says[c] = "succeeded"
<1>1. CASE UNCHANGED <<place, says>>
  BY <1>1 DEF Typed
<1>2. ASSUME NEW c \in Commands, NEW p \in Places \ {"terminal"},
             NEW v \in {"unproven", says[c]}, To(c, p, v)
      PROVE  /\ place' \in [Commands -> Places] /\ says' \in [Commands -> Verdicts]
             /\ \A d \in Commands : place'[d] = "terminal" => place[d] = "terminal"
             /\ \A d \in Commands : says'[d] = "succeeded" => says[d] = "succeeded"
  <2>1. place' = [place EXCEPT ![c] = p] /\ says' = [says EXCEPT ![c] = v]
    BY <1>2 DEF To
  <2>2. v \in Verdicts
    BY DEF Typed, Verdicts
  <2> QED BY <2>1, <2>2 DEF Typed
<1> QED BY <1>1, <1>2 DEF Calm

(* A submission hands out its command alone, or withholds it.              *)
LEMMA SubmitKeeps ==
  ASSUME Typed, NEW c \in Commands, Submits(c)
  PROVE  /\ goal' \in [Commands -> GoalStates]
         /\ slot' \in [Kinds -> Slot \cup {None}]
         /\ active' \in Commands \cup {None} /\ stopping' \in Halfway \cup {None}
         /\ stopping' = None => active' = c
         /\ \A d \in Commands \ {c} : goal'[d] = goal[d]
         /\ goal'[c] \in {"withheld", "sent"}
<1>1. NewSlot(c) \in Slot /\ Kind(c) \in Kinds
  BY DEF NewSlot, Slot, Kind, Kinds
<1>2. CASE Withheld(c)
  BY <1>2, SlotNotNone DEF Withheld, Typed, GoalStates
<1>3. CASE Sent(c)
  BY <1>1, <1>3, SlotNotNone DEF Sent, Typed, GoalStates
<1> QED BY <1>2, <1>3 DEF Submits

(* Every effect keeps the types.                                           *)
LEMMA TypedStep ==
  ASSUME Typed, Effect
  PROVE  Typed'
<1>1. CASE Aside
  BY <1>1, CalmKeeps DEF Aside, SlotsKept, Typed
<1>2. CASE StopBegins
  BY <1>2, CalmKeeps DEF StopBegins, SlotsKept, Typed
<1>3. CASE StopEnds
  BY <1>3 DEF StopEnds, SlotsKept, Typed
<1>4. CASE Starts
  <2>1. reserved \in TaskIds
    BY <1>4 DEF Starts, Typed
  <2>2. <<reserved, 0>> \in Commands
    BY <2>1 DEF Commands, Stages
  <2> QED BY <1>4, <2>1, <2>2, SubmitKeeps DEF Starts, Submits, Typed
<1>5. CASE Recovers
  BY <1>5 DEF Recovers, Typed
<1>6. CASE Confirms
  BY <1>6, CalmKeeps DEF Confirms, Typed
<1>7. CASE ClientMoves
  BY <1>7 DEF ClientMoves, Typed
<1>8. ASSUME NEW c \in Commands, Advances(c)
      PROVE  Typed'
  <2>1. <<c[1], c[2] + 1>> \in Commands
    BY <1>8 DEF Advances, Commands, Stages, LastStage
  <2> QED BY <1>8, <2>1, SubmitKeeps DEF Advances, Submits, Typed
<1>9. ASSUME NEW c \in Commands, Completes(c)
      PROVE  Typed'
  BY <1>9, CalmKeeps DEF Completes, Typed
<1>10. ASSUME NEW c \in Commands, Frees(c)
       PROVE  Typed'
  <2>1. slot' \in [Kinds -> Slot \cup {None}]
    BY <1>10 DEF Frees, Typed
  <2> QED BY <1>10, <2>1, CalmKeeps DEF Frees, Elsewhere, Typed
<1>11. ASSUME NEW c \in Commands, Trusts(c)
       PROVE  Typed'
  <2>1. Kind(c) \in Kinds /\ slot[Kind(c)] \in Slot
    BY <1>11 DEF Trusts, Mine, Typed, Kind, Kinds
  <2>2. [slot[Kind(c)] EXCEPT !.terminal = TRUE] \in Slot
    BY <2>1 DEF Slot
  <2>3. slot' \in [Kinds -> Slot \cup {None}]
    BY <1>11, <2>1, <2>2 DEF Trusts, Typed
  <2>4. /\ place' \in [Commands -> Places] /\ says' \in [Commands -> Verdicts]
    <3>1. PICK v \in Verdicts : says' = [says EXCEPT ![c] = v]
      BY <1>11 DEF Trusts
    <3>2. place' = [place EXCEPT ![c] = "terminal"]
      BY <1>11 DEF Trusts
    <3> QED BY <3>1, <3>2 DEF Typed, Places
  <2> QED BY <1>11, <2>3, <2>4 DEF Trusts, Elsewhere, Typed
<1>12. ASSUME NEW c \in Commands, Turns(c)
       PROVE  Typed'
  <2>1. goal' \in [Commands -> GoalStates]
    BY <1>12 DEF Turns, Typed, GoalStates
  <2> QED BY <1>12, <2>1 DEF Turns, Elsewhere, Typed
<1> QED BY <1>1, <1>2, <1>3, <1>4, <1>5, <1>6, <1>7, <1>8, <1>9, <1>10,
           <1>11, <1>12 DEF Effect

(* Only a command that was not handed out is submitted.                    *)
LEMMA SubmitsFresh ==
  ASSUME Typed, Fresh
  PROVE  /\ Starts => /\ <<reserved, 0>> \in Commands
                      /\ goal[<<reserved, 0>>] = "none"
         /\ \A c \in Commands :
              Advances(c) => /\ <<c[1], c[2] + 1>> \in Commands
                             /\ goal[<<c[1], c[2] + 1>>] = "none"
<1>1. ASSUME Starts
      PROVE  /\ <<reserved, 0>> \in Commands
             /\ goal[<<reserved, 0>>] = "none"
  <2>1. reserved \in TaskIds /\ reserved \notin used
    BY <1>1 DEF Starts, Typed
  <2>2. <<reserved, 0>> \in Commands
    BY <2>1 DEF Commands, Stages
  <2> QED BY <2>1, <2>2 DEF Fresh
<1>2. ASSUME NEW c \in Commands, Advances(c)
      PROVE  /\ <<c[1], c[2] + 1>> \in Commands
             /\ goal[<<c[1], c[2] + 1>>] = "none"
  <2>1. /\ c[1] \in TaskIds /\ c[2] \in Stages
        /\ c[2] + 1 \in Stages /\ c[2] + 1 > c[2]
    BY <1>2 DEF Advances, Commands, Stages, LastStage
  <2>2. active = c /\ phase = "RUN" /\ stopping = None
    BY <1>2 DEF Advances, Succeeds
  <2> QED BY <2>1, <2>2 DEF Fresh, Commands
<1> QED BY <1>1, <1>2

(* Every effect keeps Fresh: stages are handed out in order.               *)
LEMMA FreshStep ==
  ASSUME Typed, Fresh, Effect
  PROVE  Fresh'
<1>1. CASE Aside \/ StopBegins \/ StopEnds \/ Recovers \/ Confirms \/ ClientMoves
  BY <1>1, SlotNotNone DEF Aside, StopBegins, StopEnds, Recovers, Confirms,
                           ClientMoves, Fresh
<1>2. CASE Starts
  <2>1. /\ <<reserved, 0>> \in Commands /\ reserved \in TaskIds
        /\ reserved \notin used
    BY <1>2, SubmitsFresh DEF Starts, Typed
  <2>2. Submits(<<reserved, 0>>) /\ used' = used \cup {reserved}
    BY <1>2 DEF Starts
  <2>3. /\ stopping' = None => active' = <<reserved, 0>>
        /\ \A d \in Commands \ {<<reserved, 0>>} : goal'[d] = goal[d]
    BY <2>1, <2>2, SubmitKeeps
  <2>4. \A d \in Commands : d[1] \notin used' => goal'[d] = "none"
    BY <2>1, <2>2, <2>3 DEF Fresh
  <2>5. \A s \in Stages : s > 0 => goal'[<<reserved, s>>] = "none"
    <3>1. SUFFICES ASSUME NEW s \in Stages, s > 0
                   PROVE  goal'[<<reserved, s>>] = "none"
      OBVIOUS
    <3>2. <<reserved, s>> \in Commands \ {<<reserved, 0>>}
      BY <2>1, <3>1 DEF Commands, Stages
    <3> QED BY <2>1, <2>3, <3>2 DEF Fresh
  <2> QED BY <2>1, <2>2, <2>3, <2>4, <2>5 DEF Fresh
<1>3. ASSUME NEW c \in Commands, Advances(c)
      PROVE  Fresh'
  <2> DEFINE d == <<c[1], c[2] + 1>>
  <2>1. /\ d \in Commands /\ c[1] \in TaskIds /\ c[2] \in Stages
        /\ active = c /\ phase = "RUN" /\ stopping = None /\ used' = used
    BY <1>3, SubmitsFresh DEF Advances, Succeeds, Commands
  <2>2. Submits(d)
    BY <1>3 DEF Advances
  <2>3. /\ stopping' = None => active' = d
        /\ \A e \in Commands \ {d} : goal'[e] = goal[e]
    BY <2>1, <2>2, SubmitKeeps
  <2>4. c[1] \in used
    BY <2>1 DEF Fresh
  <2>5. \A e \in Commands : e[1] \notin used' => goal'[e] = "none"
    BY <2>1, <2>3, <2>4 DEF Fresh
  <2>6. \A s \in Stages : s > c[2] + 1 => goal'[<<c[1], s>>] = "none"
    <3>1. SUFFICES ASSUME NEW s \in Stages, s > c[2] + 1
                   PROVE  goal'[<<c[1], s>>] = "none"
      OBVIOUS
    <3>2. <<c[1], s>> \in Commands \ {d} /\ s > c[2]
      BY <2>1, <3>1 DEF Commands, Stages
    <3> QED BY <2>1, <2>3, <3>2 DEF Fresh
  <2> QED BY <2>1, <2>3, <2>4, <2>5, <2>6 DEF Fresh
<1>4. ASSUME NEW c \in Commands, Completes(c) \/ Frees(c) \/ Trusts(c)
      PROVE  Fresh'
  BY <1>4 DEF Completes, Frees, Trusts, Elsewhere, Fresh
<1>5. ASSUME NEW c \in Commands, Turns(c)
      PROVE  Fresh'
  <2>1. \A d \in Commands : goal[d] = "none" => goal'[d] = "none"
    BY <1>5 DEF Turns, Live, Typed
  <2>2. UNCHANGED <<used, phase, stopping, active>>
    BY <1>5 DEF Turns, Elsewhere
  <2>3. phase = "RUN" /\ stopping = None =>
          \A s \in Stages : <<active[1], s>> \in Commands
    BY DEF Fresh, Commands
  <2> QED BY <2>1, <2>2, <2>3 DEF Fresh
<1> QED BY <1>1, <1>2, <1>3, <1>4, <1>5 DEF Effect
(* A command that is sent takes a free slot, and a slot is only freed once *)
(* its command is over, so no live goal loses its slot.                    *)
LEMMA HeldStep ==
  ASSUME Typed, Fresh, Held, Effect
  PROVE  Held'
<1> USE DEF Live, Ended
<1>0. \A c \in Commands : Kind(c) \in Kinds
  BY DEF Kind, Kinds
<1>a. ASSUME SlotsKept, Calm, UNCHANGED goal
      PROVE  Held'
  <2>1. \A c \in Commands : place'[c] = "terminal" => place[c] = "terminal"
    BY <1>a, CalmKeeps
  <2>2. \A k \in Kinds : Alike(slot[k], slot'[k])
    BY <1>a DEF SlotsKept
  <2>3. MovingIsHeld'
    BY <1>0, <1>a, <2>2 DEF Held, MovingIsHeld, live, Mine, Alike
  <2>4. \A k \in Kinds : slot'[k] # None /\ slot'[k].terminal
                           => goal'[slot'[k].cmd] \in Ended
    BY <1>a, <2>2 DEF Held, Alike
  <2> QED BY <1>a, <2>1, <2>3, <2>4 DEF Held
<1>b. ASSUME UNCHANGED <<slot, place, goal>>
      PROVE  Held'
  BY <1>b DEF Held, MovingIsHeld, live, Mine
<1>c. ASSUME NEW c \in Commands, goal[c] = "none", Submits(c)
      PROVE  Held'
  <2>1. /\ \A d \in Commands \ {c} : goal'[d] = goal[d]
        /\ goal'[c] \in {"withheld", "sent"}
    BY <1>c, SubmitKeeps
  <2>2. \A d \in Commands : goal[d] \in Ended => goal'[d] \in Ended
    BY <1>c, <2>1
  <2>3. \A d \in Commands : place'[d] = "terminal" => goal'[d] \in Ended
    BY <1>c, <2>2 DEF Submits, Held
  <2>4. CASE Withheld(c)
    <3>1. slot' = slot /\ goal'[c] = "withheld"
      BY <2>4 DEF Withheld, Typed
    <3>2. MovingIsHeld'
      BY <2>1, <3>1 DEF Held, MovingIsHeld, live, Mine
    <3>3. \A k \in Kinds : slot[k] # None => slot[k].cmd \in Commands
      BY DEF Typed, Slot
    <3>4. \A k \in Kinds : slot'[k] # None /\ slot'[k].terminal
                             => goal'[slot'[k].cmd] \in Ended
      BY <2>2, <3>1, <3>3 DEF Held
    <3> QED BY <2>3, <3>2, <3>4 DEF Held
  <2>5. CASE Sent(c)
    <3>1. /\ slot[Kind(c)] = None
          /\ slot'[Kind(c)] = NewSlot(c)
          /\ \A k \in Kinds \ {Kind(c)} : slot'[k] = slot[k]
      BY <1>0, <2>5 DEF Sent, Typed
    <3>2. NewSlot(c) # None /\ NewSlot(c).cmd = c /\ NewSlot(c).terminal = FALSE
      <4>1. NewSlot(c) \in Slot
        BY DEF NewSlot, Slot
      <4> QED BY <4>1, SlotNotNone DEF NewSlot
    <3>3. ASSUME NEW d \in Commands, goal'[d] \in Live
          PROVE  Mine(d)'
      <4>1. CASE d = c
        BY <3>1, <3>2, <4>1 DEF Mine
      <4>2. CASE d # c
        <5>1. d \in live
          BY <2>1, <3>3, <4>2 DEF live
        <5>2. Mine(d)
          BY <5>1 DEF Held, MovingIsHeld
        <5>3. Kind(d) # Kind(c)
          BY <3>1, <5>2 DEF Mine
        <5> QED BY <1>0, <3>1, <5>2, <5>3 DEF Mine
      <4> QED BY <4>1, <4>2
    <3>4. MovingIsHeld'
      BY <3>3 DEF MovingIsHeld, live
    <3>5. \A k \in Kinds : slot[k] # None => slot[k].cmd \in Commands
      BY DEF Typed, Slot
    <3>6. \A k \in Kinds : slot'[k] # None /\ slot'[k].terminal
                             => goal'[slot'[k].cmd] \in Ended
      BY <2>2, <3>1, <3>2, <3>5 DEF Held
    <3> QED BY <2>3, <3>4, <3>6 DEF Held
  <2> QED BY <1>c, <2>4, <2>5 DEF Submits
<1>1. CASE Aside \/ StopBegins
  BY <1>a, <1>1 DEF Aside, StopBegins
<1>2. CASE StopEnds
  BY <1>a, <1>2 DEF StopEnds, Calm
<1>3. CASE Recovers \/ ClientMoves
  BY <1>b, <1>3 DEF Recovers, ClientMoves
<1>4. CASE Confirms
  BY <1>a, <1>4, SlotSame DEF Confirms
<1>5. CASE Starts
  BY <1>c, <1>5, SubmitsFresh DEF Starts
<1>6. ASSUME NEW c \in Commands, Advances(c)
      PROVE  Held'
  BY <1>c, <1>6, SubmitsFresh DEF Advances
<1>7. ASSUME NEW c \in Commands, Completes(c)
      PROVE  Held'
  BY <1>a, <1>7, SlotSame DEF Completes
<1>8. ASSUME NEW c \in Commands, Frees(c)
      PROVE  Held'
  <2>1. c \notin live
    BY <1>8 DEF Frees, Held, live
  <2>2. /\ slot'[Kind(c)] = None
        /\ \A k \in Kinds \ {Kind(c)} : slot'[k] = slot[k]
        /\ slot[Kind(c)].cmd = c /\ goal' = goal
    BY <1>0, <1>8 DEF Frees, Typed, Mine
  <2>3. MovingIsHeld'
    BY <1>0, <2>1, <2>2 DEF Held, MovingIsHeld, live, Mine
  <2>4. \A d \in Commands : place'[d] = "terminal" => place[d] = "terminal"
    BY <1>8, CalmKeeps DEF Frees
  <2> QED BY <2>2, <2>3, <2>4 DEF Held
<1>9. ASSUME NEW c \in Commands, Trusts(c)
      PROVE  Held'
  <2> DEFINE z == [slot[Kind(c)] EXCEPT !.terminal = TRUE]
  <2>1. /\ slot[Kind(c)] \in Slot /\ slot[Kind(c)].cmd = c
        /\ goal[c] \in Ended /\ goal' = goal
    BY <1>0, <1>9 DEF Trusts, Typed, Mine
  <2>2. z \in Slot /\ z.cmd = c
    BY <2>1 DEF Slot
  <2>3. slot' = [slot EXCEPT ![Kind(c)] = z]
    BY <1>9 DEF Trusts
  <2> HIDE DEF z
  <2>4. /\ slot'[Kind(c)] = z
        /\ \A k \in Kinds \ {Kind(c)} : slot'[k] = slot[k]
    BY <1>0, <2>3 DEF Typed
  <2>5. MovingIsHeld'
    BY <1>0, <2>1, <2>2, <2>4, SlotNotNone
    DEF Held, MovingIsHeld, live, Mine
  <2>6. \A k \in Kinds : slot'[k] # None /\ slot'[k].terminal
                           => goal'[slot'[k].cmd] \in Ended
    BY <2>1, <2>2, <2>4 DEF Held
  <2>7. place' = [place EXCEPT ![c] = "terminal"]
    BY <1>9 DEF Trusts
  <2>8. \A d \in Commands : place'[d] = "terminal" => goal'[d] \in Ended
    BY <2>1, <2>7 DEF Held, Typed
  <2> QED BY <2>5, <2>6, <2>8 DEF Held
<1>10. ASSUME NEW c \in Commands, Turns(c)
       PROVE  Held'
  <2>1. PICK g \in {"accepted", "refused", "succeeded", "failed"} :
          goal' = [goal EXCEPT ![c] = g]
    BY <1>10 DEF Turns
  <2>2. /\ \A d \in Commands : goal'[d] \in Live => goal[d] \in Live
        /\ \A d \in Commands : goal[d] \in Ended => goal'[d] = goal[d]
        /\ UNCHANGED <<slot, place>>
    BY <1>10, <2>1 DEF Turns, Typed
  <2>3. MovingIsHeld'
    BY <2>2 DEF Held, MovingIsHeld, live, Mine
  <2>4. \A k \in Kinds : slot[k] # None => slot[k].cmd \in Commands
    BY DEF Typed, Slot
  <2> QED BY <2>2, <2>3, <2>4 DEF Held
<1> QED BY <1>1, <1>2, <1>3, <1>4, <1>5, <1>6, <1>7, <1>8, <1>9, <1>10 DEF Effect

(* What moved before: no effect but a submission makes a goal live.        *)
LEMMA LiveShrinks ==
  ASSUME Typed, UNCHANGED goal \/ \E c \in Commands : Turns(c)
  PROVE  live' \subseteq live
<1>1. CASE UNCHANGED goal
  BY <1>1 DEF live
<1>2. ASSUME NEW c \in Commands, Turns(c)
      PROVE  live' \subseteq live
  BY <1>2 DEF Turns, Live, live, Typed
<1> QED BY <1>1, <1>2

(* When every slot is free, or marked by a terminal, nothing moves.        *)
LEMMA SlotsOver ==
  ASSUME Typed, Held, \A k \in Kinds : slot[k] = None \/ slot[k].terminal
  PROVE  live = {}
<1> SUFFICES ASSUME NEW c \in live PROVE FALSE
  OBVIOUS
<1>1. /\ Mine(c) /\ Kind(c) \in Kinds /\ c \in Commands
      /\ goal[c] \in {"sent", "accepted"}
  BY DEF Held, MovingIsHeld, live, Kind, Kinds
<1>2. slot[Kind(c)] # None /\ slot[Kind(c)].cmd = c
  BY <1>1 DEF Mine
<1>3. goal[c] \in Ended
  BY <1>1, <1>2 DEF Held
<1> QED BY <1>1, <1>3 DEF Ended

(* Every effect keeps Confirmed: nothing is submitted after a stop.        *)
LEMMA ConfirmedStep ==
  ASSUME Typed, Held, Confirmed, Effect
  PROVE  Confirmed'
<1>1. CASE Aside \/ StopBegins \/ ClientMoves
  <2>1. UNCHANGED <<phase, stopOk, recovery, goal>>
    BY <1>1 DEF Aside, StopBegins, ClientMoves
  <2> QED BY <2>1 DEF Confirmed, live
<1>2. CASE StopEnds
  <2>1. /\ stopOk' \in BOOLEAN /\ recovery' \in BOOLEAN /\ goal' = goal
        /\ stopOk' \/ ~recovery'
             => \A k \in Kinds : slot[k] = None \/ slot[k].terminal
    BY <1>2 DEF StopEnds
  <2>2. live' = live
    BY <2>1 DEF live
  <2>3. stopOk' \/ ~recovery' => live' = {}
    BY <2>1, <2>2, SlotsOver
  <2> QED BY <2>1, <2>3 DEF Confirmed
<1>3. CASE Starts \/ \E c \in Commands : Advances(c)
  <2>1. phase' = "RUN" /\ UNCHANGED <<stopOk, recovery>>
    BY <1>3 DEF Starts, Advances, Submits
  <2> QED BY <2>1 DEF Confirmed
<1>4. CASE Recovers
  <2>1. phase' = "IDLE" /\ stopOk' = TRUE /\ recovery' = FALSE
    BY <1>4 DEF Recovers
  <2> QED BY <2>1 DEF Confirmed
<1>5. CASE Confirms
  <2>1. /\ phase = "SAFE_STOP" /\ recovery' = ~stopOk
        /\ UNCHANGED <<phase, stopOk, goal>>
    BY <1>5 DEF Confirms
  <2>2. live' = live
    BY <2>1 DEF live
  <2>3. CASE stopOk = TRUE
    BY <2>1, <2>2, <2>3 DEF Confirmed
  <2>4. CASE stopOk = FALSE
    BY <2>1, <2>2, <2>4 DEF Confirmed
  <2> QED BY <2>3, <2>4 DEF Confirmed
<1>6. CASE \E c \in Commands : Completes(c)
  <2>1. phase' = "COMPLETE" /\ UNCHANGED <<stopOk, recovery>>
    BY <1>6 DEF Completes
  <2> QED BY <2>1 DEF Confirmed
<1>7. CASE \E c \in Commands : Frees(c) \/ Trusts(c) \/ Turns(c)
  <2>1. UNCHANGED <<phase, stopOk, recovery>>
    BY <1>7 DEF Frees, Trusts, Turns, Elsewhere
  <2>2. live' \subseteq live
    BY <1>7, LiveShrinks DEF Frees, Trusts
  <2> QED BY <2>1, <2>2 DEF Confirmed
<1> QED BY <1>1, <1>2, <1>3, <1>4, <1>5, <1>6, <1>7 DEF Effect
(* A command that is sent while nothing moves is the one that moves then;  *)
(* it was new, so what succeeded before still has.                         *)
LEMMA SubmitTells ==
  ASSUME Typed, Told, NEW c \in Commands, goal[c] = "none", Submits(c),
         live = {}
  PROVE  /\ phase' = "RUN" /\ live' \subseteq {c} /\ succeeded' = succeeded
         /\ stopping' = None => active' = c
         /\ \A d \in Commands : says'[d] = "succeeded" => d \in succeeded'
         /\ SuccessIsTrue'
<1>1. /\ \A d \in Commands \ {c} : goal'[d] = goal[d]
      /\ goal'[c] \in {"withheld", "sent"}
      /\ stopping' = None => active' = c
  BY SubmitKeeps
<1>2. succeeded' = succeeded /\ live' \subseteq {c}
  BY <1>1 DEF succeeded, live
<1>3. phase' = "RUN" /\ UNCHANGED <<says, answer>>
  BY DEF Submits
<1> QED BY <1>1, <1>2, <1>3 DEF Told, SuccessIsTrue

(* The active command, once its success is reported, is over.              *)
LEMMA ActiveIsOver ==
  ASSUME Typed, Fresh, Told, NEW c \in Commands, Succeeds(c)
  PROVE  /\ live = {} /\ c[1] = task
         /\ \A s \in Stages : s <= c[2] => <<task, s>> \in succeeded
<1>1. /\ c[1] = task /\ live \subseteq {c} /\ c \in succeeded
      /\ \A s \in Stages : s < c[2] => <<task, s>> \in succeeded
  BY DEF Succeeds, Told
<1>2. c = <<c[1], c[2]>> /\ c[2] \in Stages
  BY DEF Commands
<1>3. live = {}
  BY <1>1 DEF live, succeeded
<1> QED BY <1>1, <1>2, <1>3 DEF Stages

(* What is unchanged or only turned keeps what was told.                   *)
LEMMA ToldKept ==
  ASSUME Typed, Told, live' \subseteq live, succeeded \subseteq succeeded',
         \A c \in Commands : says'[c] = "succeeded" => c \in succeeded',
         UNCHANGED <<task, active, reserved, exec, answer>>,
         phase' = phase \/ phase' = "SAFE_STOP",
         stopping' = stopping \/ stopping' # None \/ phase' = "SAFE_STOP"
  PROVE  Told'
BY DEF Told, SuccessIsTrue

(* Every effect keeps Told.                                                *)
LEMMA ToldStep ==
  ASSUME Typed, Fresh, Held, Told, Effect
  PROVE  Told'
<1>0. None \notin Halfway /\ None \notin TaskIds
  BY NodeConstants
<1>a. ASSUME UNCHANGED goal
      PROVE  live' = live /\ succeeded' = succeeded
  BY <1>a DEF live, succeeded
<1>b. ASSUME UNCHANGED goal, Calm
      PROVE  \A c \in Commands : says'[c] = "succeeded" => c \in succeeded'
  BY <1>a, <1>b, CalmKeeps DEF Told
<1>1. CASE Aside
  BY <1>a, <1>b, <1>1, ToldKept DEF Aside
<1>2. CASE StopBegins
  <2>1. /\ stopping' # None /\ UNCHANGED <<phase, goal, reserved, answer>>
        /\ \A c \in Commands : says'[c] = "succeeded" => c \in succeeded'
    BY <1>0, <1>b, <1>2 DEF StopBegins
  <2>2. \/ UNCHANGED <<task, exec>>
        \/ phase = "IDLE" /\ task' = reserved
    BY <1>2 DEF StopBegins
  <2> QED BY <1>a, <2>1, <2>2 DEF Told, SuccessIsTrue
<1>3. CASE StopEnds
  <2>1. /\ phase' = "SAFE_STOP"
        /\ UNCHANGED <<task, goal, reserved, exec, answer, says>>
    BY <1>3 DEF StopEnds
  <2> QED BY <1>a, <2>1 DEF Told, SuccessIsTrue
<1>4. CASE Starts
  <2>1. /\ <<reserved, 0>> \in Commands /\ goal[<<reserved, 0>>] = "none"
        /\ reserved \in TaskIds
    BY <1>4, SubmitsFresh DEF Starts, Typed
  <2>2. /\ phase = "IDLE" /\ task' = reserved /\ exec' = "running"
        /\ Submits(<<reserved, 0>>)
    BY <1>4 DEF Starts
  <2>3. live = {}
    BY <2>2 DEF Told
  <2>4. /\ phase' = "RUN" /\ live' \subseteq {<<reserved, 0>>}
        /\ stopping' = None => active' = <<reserved, 0>>
        /\ \A d \in Commands : says'[d] = "succeeded" => d \in succeeded'
        /\ SuccessIsTrue'
    BY <2>1, <2>2, <2>3, SubmitTells
  <2>5. UNCHANGED <<reserved, answer>>
    BY <2>2 DEF Submits
  <2> QED BY <2>2, <2>4, <2>5 DEF Told, Stages
<1>5. CASE Recovers
  <2>1. /\ phase' = "IDLE" /\ reserved = None
        /\ UNCHANGED <<says, goal, reserved, exec, answer>>
    BY <1>5 DEF Recovers
  <2>2. live = {}
    BY <1>5, SlotsOver DEF Recovers
  <2>3. exec # "running"
    BY <1>0, <2>1 DEF Typed
  <2> QED BY <1>a, <2>1, <2>2, <2>3 DEF Told, SuccessIsTrue
<1>6. CASE Confirms
  <2>1. /\ phase = "SAFE_STOP" /\ phase' = phase
        /\ UNCHANGED <<task, goal, reserved, exec, answer>>
        /\ \A c \in Commands : says'[c] = "succeeded" => c \in succeeded'
    BY <1>b, <1>6 DEF Confirms
  <2> QED BY <1>a, <2>1 DEF Told, SuccessIsTrue
<1>7. CASE ClientMoves
  <2>1. UNCHANGED <<phase, task, active, stopping, says, goal>>
    BY <1>7 DEF ClientMoves
  <2>2. CASE UNCHANGED answer
    <3>1. exec' # "running"
      BY <1>7, <2>2 DEF ClientMoves
    <3> QED BY <1>a, <2>1, <2>2, <3>1 DEF Told, SuccessIsTrue
  <2>3. CASE /\ exec # "none" /\ exec' = "none" /\ reserved' = None
             /\ \E a \in {"succeeded", "canceled", "aborted"} :
                  /\ answer' = [answer EXCEPT ![reserved] = a]
                  /\ a = "succeeded" => exec = "running" /\ phase = "COMPLETE"
    <3>1. PICK a \in {"succeeded", "canceled", "aborted"} :
            /\ answer' = [answer EXCEPT ![reserved] = a]
            /\ a = "succeeded" => exec = "running" /\ phase = "COMPLETE"
      BY <2>3
    <3>2. reserved \in TaskIds
      BY <2>3 DEF Typed
    <3>3. a = "succeeded" =>
            \A s \in Stages : <<reserved, s>> \in succeeded
      BY <3>1 DEF Told
    <3>4. answer' \in [TaskIds -> {"none", "succeeded", "canceled", "aborted"}]
      BY <3>1, <3>2 DEF Told
    <3>5. SuccessIsTrue'
      BY <1>a, <2>1, <3>1, <3>2, <3>3 DEF Told, SuccessIsTrue
    <3> QED BY <1>a, <2>1, <2>3, <3>4, <3>5 DEF Told
  <2> QED BY <1>7, <2>2, <2>3 DEF ClientMoves
<1>8. ASSUME NEW c \in Commands, Advances(c)
      PROVE  Told'
  <2> DEFINE d == <<c[1], c[2] + 1>>
  <2>1. /\ d \in Commands /\ goal[d] = "none"
        /\ c[2] \in Stages /\ c[2] + 1 \in Stages
    BY <1>8, SubmitsFresh DEF Commands
  <2>2. Succeeds(c) /\ Submits(d) /\ UNCHANGED <<task, exec>>
    BY <1>8 DEF Advances
  <2>3. /\ live = {} /\ c[1] = task
        /\ \A s \in Stages : s <= c[2] => <<task, s>> \in succeeded
    BY <2>2, ActiveIsOver
  <2>4. /\ phase' = "RUN" /\ live' \subseteq {d} /\ succeeded' = succeeded
        /\ stopping' = None => active' = d
        /\ \A e \in Commands : says'[e] = "succeeded" => e \in succeeded'
        /\ SuccessIsTrue'
    BY <2>1, <2>2, <2>3, SubmitTells
  <2>5. UNCHANGED <<reserved, answer>>
    BY <2>2 DEF Submits
  <2>6. \A s \in Stages : s < c[2] + 1 => s <= c[2]
    BY <2>1 DEF Stages
  <2> QED BY <2>2, <2>3, <2>4, <2>5, <2>6 DEF Told
<1>9. ASSUME NEW c \in Commands, Completes(c)
      PROVE  Told'
  <2>1. /\ Succeeds(c) /\ c[2] = LastStage /\ phase' = "COMPLETE"
        /\ UNCHANGED <<task, goal, exec, reserved, answer>>
        /\ \A e \in Commands : says'[e] = "succeeded" => e \in succeeded'
    BY <1>b, <1>9 DEF Completes
  <2>2. \A s \in Stages : <<task, s>> \in succeeded
    <3>1. \A s \in Stages : s <= c[2] => <<task, s>> \in succeeded
      BY <2>1, ActiveIsOver
    <3> QED BY <2>1, <3>1 DEF Stages, LastStage
  <2> QED BY <1>a, <2>1, <2>2 DEF Told, SuccessIsTrue
<1>10. ASSUME NEW c \in Commands, Frees(c)
       PROVE  Told'
  BY <1>a, <1>b, <1>10, ToldKept DEF Frees, Elsewhere
<1>11. ASSUME NEW c \in Commands, Trusts(c)
       PROVE  Told'
  <2>1. PICK v \in Verdicts : /\ says' = [says EXCEPT ![c] = v]
                              /\ v = "succeeded" => goal[c] = "succeeded"
    BY <1>11 DEF Trusts
  <2>2. UNCHANGED goal /\ Elsewhere
    BY <1>11 DEF Trusts
  <2>3. \A e \in Commands : says'[e] = "succeeded" => e \in succeeded'
    BY <1>a, <2>1, <2>2 DEF Told, Typed, succeeded
  <2> QED BY <1>a, <2>2, <2>3, ToldKept DEF Elsewhere
<1>12. ASSUME NEW c \in Commands, Turns(c)
       PROVE  Told'
  <2>1. live' \subseteq live
    BY <1>12, LiveShrinks
  <2>2. succeeded \subseteq succeeded'
    BY <1>12 DEF Turns, Live, succeeded, Typed
  <2>3. UNCHANGED says /\ Elsewhere
    BY <1>12 DEF Turns
  <2>4. \A e \in Commands : says'[e] = "succeeded" => e \in succeeded'
    BY <2>2, <2>3 DEF Told
  <2> QED BY <2>1, <2>2, <2>3, <2>4, ToldKept DEF Elsewhere
<1> QED BY <1>1, <1>2, <1>3, <1>4, <1>5, <1>6, <1>7, <1>8, <1>9, <1>10,
           <1>11, <1>12 DEF Effect

-----------------------------------------------------------------------------
(* The invariant holds at first.                                           *)
LEMMA InitInv == Init => IInv
<1> SUFFICES ASSUME Init PROVE IInv
  OBVIOUS
<1>1. Typed
  BY DEF Init, Typed, Places, Verdicts, GoalStates
<1>2. live = {} /\ succeeded = {}
  BY DEF Init, live, succeeded
<1>3. Fresh
  BY DEF Init, Fresh
<1>4. Held
  BY <1>2 DEF Init, Held, MovingIsHeld
<1>5. Confirmed
  BY DEF Init, Confirmed
<1>6. Told
  BY <1>2 DEF Init, Told, SuccessIsTrue
<1> QED BY <1>1, <1>3, <1>4, <1>5, <1>6 DEF IInv

(* The invariant holds for good.                                           *)
LEMMA Invariance == Spec => []IInv
<1>1. IInv /\ [Next]_vars => IInv'
  BY StepEffect, TypedStep, FreshStep, HeldStep, ConfirmedStep, ToldStep
  DEF IInv
<1> QED BY <1>1, InitInv, PTL DEF Spec

(* node.py: a goal that may still move keeps its slot, so that every later *)
(* stop, goal and reset finds it.                                          *)
THEOREM SpecMovingIsHeld == Spec => []MovingIsHeld
<1>1. IInv => MovingIsHeld
  BY DEF IInv, Held
<1> QED BY <1>1, Invariance, PTL

(* node.py: what the answers of _cancel_slot and _stop_all confirm of a    *)
(* stop is true, however they interleave with the callbacks.               *)
THEOREM SpecConfirmedIsOver == Spec => []ConfirmedIsOver
<1>1. IInv => ConfirmedIsOver
  BY DEF IInv, Confirmed, ConfirmedIsOver
<1> QED BY <1>1, Invariance, PTL

(* node.py: a client is told that its task succeeded only if each of the   *)
(* four motions did.                                                       *)
THEOREM SpecSuccessIsTrue == Spec => []SuccessIsTrue
<1>1. IInv => SuccessIsTrue
  BY DEF IInv, Told
<1> QED BY <1>1, Invariance, PTL
-----------------------------------------------------------------------------
(* A submission is a release of the abstract coordinator.                  *)
LEMMA SubmitReleases ==
  ASSUME IInv, NEW c \in Commands, goal[c] = "none", Submits(c), live = {},
         \A s \in Stages : s < c[2] => <<c[1], s>> \in succeeded,
         IF c[2] = 0 THEN phase = "IDLE" ELSE phase = "RUN"
  PROVE  Staged!Release(c)
<1>1. /\ \A d \in Commands \ {c} : goal'[d] = goal[d]
      /\ goal'[c] \in {"withheld", "sent"} /\ phase' = "RUN"
      /\ stopping = None
  BY SubmitKeeps DEF IInv, Submits
<1>2. succeeded' = succeeded /\ issued' = issued \cup {c} /\ c \notin issued
  BY <1>1 DEF succeeded, issued
<1>3. IF c[2] = 0 THEN Mode = "idle" ELSE Mode = "moving"
  BY <1>1 DEF Mode
<1>4. CASE Withheld(c)
  <2>1. goal'[c] = "withheld" /\ stopping' # None
    BY <1>4, SlotNotNone DEF Withheld, IInv, Typed
  <2>2. live' = {} /\ Mode' = "stopped"
    BY <1>1, <2>1 DEF live, Mode
  <2> QED BY <1>2, <1>3, <2>2 DEF Staged!Release, Staged!Motions, Commands
<1>5. CASE Sent(c)
  <2>1. goal'[c] = "sent"
    BY <1>5 DEF Sent, IInv, Typed
  <2>2. live' = {c}
    BY <1>1, <2>1 DEF live
  <2>3. Mode' = "moving" \/ Mode' = "stopped"
    BY <1>1 DEF Mode
  <2> QED BY <1>2, <1>3, <2>2, <2>3 DEF Staged!Release, Staged!Motions, Commands
<1> QED BY <1>4, <1>5 DEF Submits

(* Every effect is a step of the abstract coordinator, or none.            *)
LEMMA EffectStages ==
  ASSUME IInv, Effect
  PROVE  [Staged!Next]_(Staged!vars)
<1> USE DEF Staged!Motions
<1>0. /\ Typed /\ Fresh /\ Held /\ Confirmed /\ Told /\ None \notin Halfway
  BY SlotNotNone DEF IInv
<1>a. ASSUME UNCHANGED goal
      PROVE  UNCHANGED <<issued, live, succeeded>>
  BY <1>a DEF issued, live, succeeded
<1>b. ASSUME UNCHANGED <<phase, stopping>>
      PROVE  Mode' = Mode
  BY <1>b DEF Mode
<1>1. CASE Aside \/ Confirms \/ ClientMoves
           \/ \E c \in Commands : Frees(c) \/ Trusts(c)
  <2>1. UNCHANGED <<phase, stopping, goal>>
    BY <1>1 DEF Aside, Confirms, ClientMoves, Frees, Trusts, Elsewhere
  <2> QED BY <1>a, <1>b, <2>1 DEF Staged!vars
<1>2. CASE StopBegins \/ StopEnds
  <2>1. UNCHANGED goal
    BY <1>2 DEF StopBegins, StopEnds
  <2>2. Mode' = "stopped"
    BY <1>0, <1>2 DEF StopBegins, StopEnds, Mode
  <2>3. Staged!Stop
    BY <1>a, <2>1, <2>2 DEF Staged!Stop
  <2> QED BY <2>3 DEF Staged!Next
<1>3. CASE Starts
  <2> DEFINE c == <<reserved, 0>>
  <2>1. /\ c \in Commands /\ goal[c] = "none" /\ Submits(c)
        /\ phase = "IDLE" /\ live = {}
    BY <1>0, <1>3, SubmitsFresh DEF Starts, Told
  <2>2. \A s \in Stages : s < c[2] => <<c[1], s>> \in succeeded
    BY DEF Stages
  <2>3. Staged!Release(c)
    BY <2>1, <2>2, SubmitReleases
  <2> QED BY <2>1, <2>3 DEF Staged!Next, Commands
<1>4. ASSUME NEW d \in Commands, Advances(d)
      PROVE  Staged!Next
  <2> DEFINE c == <<d[1], d[2] + 1>>
  <2>1. /\ c \in Commands /\ goal[c] = "none" /\ Submits(c) /\ Succeeds(d)
        /\ phase = "RUN" /\ d[2] \in Stages
    BY <1>0, <1>4, SubmitsFresh DEF Advances, Succeeds, Commands
  <2>2. /\ live = {} /\ d[1] = task
        /\ \A s \in Stages : s <= d[2] => <<task, s>> \in succeeded
    BY <1>0, <2>1, ActiveIsOver
  <2>3. /\ \A s \in Stages : s < c[2] => <<c[1], s>> \in succeeded
        /\ c[2] # 0
    BY <2>1, <2>2 DEF Stages
  <2>4. Staged!Release(c)
    BY <2>1, <2>2, <2>3, SubmitReleases
  <2> QED BY <2>1, <2>4 DEF Staged!Next, Commands
<1>5. ASSUME NEW c \in Commands, Completes(c)
      PROVE  Staged!Next
  <2>1. /\ Succeeds(c) /\ c[2] = LastStage /\ phase' = "COMPLETE"
        /\ UNCHANGED <<goal, stopping>> /\ phase = "RUN" /\ stopping = None
    BY <1>5 DEF Completes, Succeeds
  <2>2. /\ live = {} /\ c[1] = task
        /\ \A s \in Stages : s <= c[2] => <<task, s>> \in succeeded
    BY <1>0, <2>1, ActiveIsOver
  <2>3. /\ c[1] \in TaskIds
        /\ \A s \in Stages : <<c[1], s>> \in succeeded
    BY <2>1, <2>2 DEF Stages, LastStage, Commands
  <2>4. Mode = "moving" /\ Mode' = "complete"
    BY <2>1 DEF Mode
  <2>5. Staged!Complete
    BY <1>a, <2>1, <2>2, <2>3, <2>4 DEF Staged!Complete
  <2> QED BY <2>5 DEF Staged!Next
<1>6. CASE Recovers
  <2>1. live = {}
    BY <1>0, <1>6, SlotsOver DEF Recovers
  <2>2. Mode \in {"complete", "stopped"} /\ Mode' = "idle" /\ UNCHANGED goal
    BY <1>6 DEF Recovers, Mode
  <2>3. Staged!Recover
    BY <1>a, <2>1, <2>2 DEF Staged!Recover
  <2> QED BY <2>3 DEF Staged!Next
<1>7. ASSUME NEW c \in Commands, Turns(c)
      PROVE  [Staged!Next]_(Staged!vars)
  <2>1. PICK g \in {"accepted", "refused", "succeeded", "failed"} :
          goal' = [goal EXCEPT ![c] = g]
    BY <1>7 DEF Turns
  <2>2. /\ c \in live /\ c \in issued /\ c \notin succeeded
    BY <1>7 DEF Turns, Live, live, issued, succeeded
  <2>3. /\ \A d \in Commands \ {c} : goal'[d] = goal[d]
        /\ goal'[c] = g
    BY <1>0, <2>1 DEF Typed
  <2>4. Mode' = Mode
    BY <1>b, <1>7 DEF Turns, Elsewhere
  <2>5. issued' = issued
    BY <2>2, <2>3 DEF issued
  <2>6. CASE g = "accepted"
    <3>1. live' = live /\ succeeded' = succeeded
      BY <2>2, <2>3, <2>6 DEF live, succeeded
    <3> QED BY <2>4, <2>5, <3>1 DEF Staged!vars
  <2>7. CASE g # "accepted"
    <3>1. live' = live \ {c}
      BY <2>2, <2>3, <2>7 DEF live
    <3>2. succeeded' \in {succeeded, succeeded \cup {c}}
      <4>1. CASE g = "succeeded"
        BY <2>3, <4>1 DEF succeeded
      <4>2. CASE g # "succeeded"
        BY <2>2, <2>3, <4>2 DEF succeeded
      <4> QED BY <4>1, <4>2
    <3>3. Staged!End(c)
      BY <2>2, <2>4, <2>5, <3>1, <3>2 DEF Staged!End
    <3> QED BY <3>3 DEF Staged!Next, Commands
  <2> QED BY <2>6, <2>7
<1> QED BY <1>0, <1>1, <1>2, <1>3, <1>4, <1>5, <1>6, <1>7 DEF Effect

(* node.py: whatever its callbacks do, the wrapper releases one motion at  *)
(* a time and in order, and its reset takes work up only at a standstill:  *)
(* it implements the abstract coordinator.                                 *)
THEOREM NodeImplementsStagedMotion == Spec => Staging
<1>1. Init => Staged!Init
  BY DEF Init, Staged!Init, Mode, issued, live, succeeded
<1>2. IInv /\ [Next]_vars => [Staged!Next]_(Staged!vars)
  BY StepEffect, EffectStages DEF IInv
<1> QED BY <1>1, <1>2, Invariance, PTL DEF Spec, Staging, Staged!Spec
=============================================================================
