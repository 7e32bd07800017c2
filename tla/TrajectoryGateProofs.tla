-------------------------- MODULE TrajectoryGateProofs --------------------------
(***************************************************************************)
(* Proofs about the trajectory gate, for every set of controllers, typed   *)
(* and legacy commands and transport failures, and any number of resets    *)
(* and threads.  Every action is first shown to have an effect of a few    *)
(* kinds on the life of each goal, on its context and on each slot; the    *)
(* invariant is then shown to be kept by the effects.                      *)
(***************************************************************************)
EXTENDS TrajectoryGate, TLAPS

Pre     == {"idle", "reserved", "bound", "admit", "send"}
Serving == {"bound", "admit", "send", "sent", "wait"}
Closing == {"unbind", "release", "over"}

(* What answers and results say of a goal is so, and a goal that was not   *)
(* sent has neither.                                                       *)
Traced ==
  \A g \in Goals :
    /\ run[g] \in Pre => /\ down[g] = "none" /\ resp[g] = "none"
                         /\ done[g] = "none"
    /\ resp[g] = "rejected" => down[g] = "refused"
    /\ done[g] \in Ends => down[g] = done[g]

(* What a context says of its command is so, and it is terminal before the *)
(* command is answered: until then the controller is bound to it.          *)
Told ==
  \A g \in Commands :
    /\ ctx[g].success => down[g] = "succeeded"
    /\ ctx[g].status = "canceled" => run[g] \notin Pre /\ ~Live(g)
    /\ reported[g] = "canceled" => run[g] \notin Pre
    /\ run[g] \in Serving => ctx[g].terminal \/ slot[CtlOf[g]].typed = g
    /\ run[g] = "finish" => ctx[g].terminal
    /\ reported[g] # "none" => run[g] \in Closing /\ ctx[g].terminal

(* A confirmed tombstone is that of a goal that ended.                     *)
Buried ==
  \A c \in Controllers :
    slot[c].tomb # None /\ slot[c].tomb.confirmed
      => down[slot[c].tomb.goal] \in Over

Numbered == resetting => epoch < MaxResets

IInv == TypeOK /\ Numbered /\ Traced /\ Told /\ Buried /\ ReportIsProven

-----------------------------------------------------------------------------
(* Effects.                                                                *)

(* A tombstone is confirmed by an end; it stays, with its owner.           *)
Evident(s, t) ==
  t.tomb # None /\ t.tomb.confirmed =>
    t.tomb = s.tomb \/ down[t.tomb.goal] \in Over

Lasting(s, t) ==
  /\ Evident(s, t)
  /\ s.tomb # None =>
       /\ t.tomb # None /\ t.tomb.goal = s.tomb.goal
       /\ s.tomb.confirmed => t.tomb.confirmed
       /\ s.owner = s.tomb.goal => t.owner = s.owner

SlotsLast == \A c \in Controllers : Lasting(slot[c], slot'[c])

(* A context that says no more than before, and stands once it is terminal.*)
Stays(x, y) == /\ x.terminal => Stands(x, y)
               /\ y.success => x.success
               /\ y.status = "canceled" => x.status = "canceled"

(* The context of g: once terminal it stands, except when the execute      *)
(* thread fails; what it says rests on what the goal did.                  *)
Told1(g) ==
  /\ ctx[g].terminal => ctx'[g].terminal
  /\ ctx[g].terminal /\ run[g] \in Closing => Stands(ctx[g], ctx'[g])
  /\ ctx'[g].success => ctx[g].success \/ down[g] = "succeeded"
  /\ ctx'[g].status = "canceled" =>
       \/ ctx[g].status = "canceled"
       \/ run'[g] \notin Pre /\ run[g] # "send" /\ ~Live(g)
  /\ slot[CtlOf[g]].typed = g /\ run'[g] \in Serving
       => slot'[CtlOf[g]].typed = g
  /\ run'[g] \in Serving =>
       \/ run[g] \in Serving
       \/ ctx'[g].terminal \/ slot'[CtlOf[g]].typed = g
  /\ run'[g] = "finish" => run[g] = "finish" \/ ctx'[g].terminal
  /\ reported'[g] # reported[g] =>
       /\ run[g] \notin Closing /\ run'[g] \in Closing /\ ctx'[g].terminal
       /\ reported'[g] = "succeeded" => ctx[g].success
       /\ reported'[g] = "canceled" => ctx[g].status = "canceled"

(* The life of a goal.                                                     *)
Life(g) ==
  /\ \/ down'[g] = down[g]
     \/ run[g] = "send" /\ run'[g] = "sent" /\ down'[g] = "sent"
     \/ Live(g) /\ down'[g] \in Over \cup {"active"} /\ run'[g] = run[g]
  /\ run'[g] \in Pre => run[g] \in Pre /\ resp'[g] = resp[g]
                        /\ done'[g] = done[g] /\ down'[g] = down[g]
  /\ run[g] \in Closing => run'[g] \in Closing
  /\ resp'[g] = "rejected" => resp[g] = "rejected" \/ down[g] = "refused"
  /\ done'[g] \in Ends => done'[g] = done[g] \/ down[g] = done'[g]

Effect ==
  /\ TypeOK' /\ Numbered'
  /\ \A c \in Controllers : Evident(slot[c], slot'[c])
  /\ \A g \in Commands : Told1(g)
  /\ \A g \in Goals : Life(g)

LEMMA EffectKeeps ==
  ASSUME IInv, Effect
  PROVE  IInv'
<1> USE GateConstants DEF Goals
<1>1. ASSUME NEW g \in Goals
      PROVE  /\ down[g] \in Over => down'[g] = down[g]
             /\ run[g] \notin Pre => run'[g] \notin Pre
             /\ run[g] \notin Pre /\ ~Live(g) => down'[g] = down[g]
             /\ Life(g)
  BY DEF Effect, Life, IInv, Traced, Live, Over, Pre
<1>2. Traced'
  <2> SUFFICES ASSUME NEW g \in Goals
               PROVE  /\ run'[g] \in Pre => /\ down'[g] = "none"
                                            /\ resp'[g] = "none"
                                            /\ done'[g] = "none"
                      /\ resp'[g] = "rejected" => down'[g] = "refused"
                      /\ done'[g] \in Ends => down'[g] = done'[g]
    BY DEF Traced
  <2> QED
    BY <1>1 DEF IInv, Traced, Life, Over, Ends
<1>3. Told'
  <2> SUFFICES ASSUME NEW g \in Commands
               PROVE  /\ ctx'[g].success => down'[g] = "succeeded"
                      /\ ctx'[g].status = "canceled" =>
                           run'[g] \notin Pre /\ ~Live(g)'
                      /\ reported'[g] = "canceled" => run'[g] \notin Pre
                      /\ run'[g] \in Serving =>
                           ctx'[g].terminal \/ slot'[CtlOf[g]].typed = g
                      /\ run'[g] = "finish" => ctx'[g].terminal
                      /\ reported'[g] # "none" =>
                           run'[g] \in Closing /\ ctx'[g].terminal
    BY DEF Told
  <2>1. g \in Goals /\ Told1(g) /\ Life(g)
    BY DEF Effect
  <2>2. ctx'[g].success => down'[g] = "succeeded"
    BY <1>1, <2>1 DEF IInv, Told, Told1, Stands, Over
  <2>3. ctx'[g].status = "canceled" => run'[g] \notin Pre /\ ~Live(g)'
    <3>1. CASE ctx[g].status = "canceled"
      BY <1>1, <2>1, <3>1 DEF IInv, Told, Live
    <3>2. CASE run'[g] \notin Pre /\ ~Live(g) /\ run[g] # "send"
      BY <2>1, <3>2 DEF Life, Live
    <3> QED
      BY <2>1, <3>1, <3>2 DEF Told1, Stands
  <2>4. run'[g] \in Serving => ctx'[g].terminal \/ slot'[CtlOf[g]].typed = g
    BY <2>1 DEF IInv, Told, Told1, Stands
  <2>5. run'[g] = "finish" => ctx'[g].terminal
    BY <2>1 DEF IInv, Told, Told1, Stands
  <2>6. reported'[g] # "none" => run'[g] \in Closing /\ ctx'[g].terminal
    BY <2>1 DEF IInv, Told, Told1, Stands, Life
  <2>7. reported'[g] = "canceled" => run'[g] \notin Pre
    BY <2>6 DEF Closing, Pre
  <2> QED
    BY <2>2, <2>3, <2>4, <2>5, <2>6, <2>7
<1>4. Buried'
  <2> SUFFICES ASSUME NEW c \in Controllers,
                      slot'[c].tomb # None, slot'[c].tomb.confirmed
               PROVE  down'[slot'[c].tomb.goal] \in Over
    BY DEF Buried
  <2>1. Evident(slot[c], slot'[c])
    BY DEF Effect
  <2>2. down[slot'[c].tomb.goal] \in Over
    BY <2>1 DEF Evident, IInv, Buried
  <2>3. slot'[c].tomb.goal \in Goals
    BY DEF Effect, TypeOK, Slot, Tombstone
  <2> QED
    BY <1>1, <2>2, <2>3
<1>5. ReportIsProven'
  <2> SUFFICES ASSUME NEW g \in Commands
               PROVE  /\ reported'[g] = "succeeded" => down'[g] = "succeeded"
                      /\ reported'[g] = "canceled" => ~Live(g)'
    BY DEF ReportIsProven
  <2>1. g \in Goals /\ Told1(g)
    BY DEF Effect
  <2>2. CASE reported'[g] = reported[g]
    BY <1>1, <2>1, <2>2 DEF IInv, Told, ReportIsProven, Over, Live
  <2>3. CASE reported'[g] # reported[g]
    BY <1>1, <2>1, <2>3 DEF IInv, Told, Told1, Stands, Over, Live
  <2> QED
    BY <2>2, <2>3
<1> QED
  BY <1>2, <1>3, <1>4, <1>5 DEF IInv, Effect
-----------------------------------------------------------------------------
(* The helpers.                                                            *)

(* Two slots that agree on the tombstone, the owner and the bound command. *)
Alike(s, t) == t.tomb = s.tomb /\ t.owner = s.owner /\ t.typed = s.typed

LEMMA NewTombstone ==
  ASSUME NEW g \in Goals
  PROVE  [goal |-> g, confirmed |-> FALSE] \in Tombstone \ {None}
<1>1. [goal |-> g, confirmed |-> FALSE] \in Tombstone
  BY DEF Tombstone
<1> QED
  BY <1>1, GateConstants

LEMMA SlotOps ==
  ASSUME NEW s \in Slot, NEW g \in Goals
  PROVE  /\ Latched(s, g) \in Slot /\ Latched(s, None) = s
         /\ Lasting(s, Latched(s, g)) /\ Latched(s, g).typed = s.typed
         /\ Released(s, g) \in Slot
         /\ Lasting(s, Released(s, g)) /\ Released(s, g).typed = s.typed
         /\ Cleared(s) \in Slot /\ Alike(s, Cleared(s))
         /\ Culprit(s) \in Goals \cup {None}
<1> USE GateConstants DEF Slot, Tombstone, Goals
<1>1. /\ Latched(s, g) \in Slot /\ Latched(s, None) = s
      /\ Lasting(s, Latched(s, g)) /\ Latched(s, g).typed = s.typed
  <2> DEFINE b == [goal |-> g, confirmed |-> FALSE]
  <2>1. b \in Tombstone /\ b # None /\ b.confirmed = FALSE
    BY NewTombstone
  <2>2. Latched(s, None) = s
    BY DEF Latched
  <2>3. Latched(s, g) = IF s.tomb # None THEN s ELSE [s EXCEPT !.tomb = b]
    BY DEF Latched
  <2> HIDE DEF b
  <2>4. [s EXCEPT !.tomb = b] \in Slot /\ [s EXCEPT !.tomb = b].tomb = b
        /\ [s EXCEPT !.tomb = b].typed = s.typed
    BY <2>1
  <2> QED
    BY <2>1, <2>2, <2>3, <2>4 DEF Lasting, Evident
<1>2. /\ Released(s, g) \in Slot
      /\ Lasting(s, Released(s, g)) /\ Released(s, g).typed = s.typed
  BY DEF Released, Tombstoned, Lasting, Evident
<1>3. Cleared(s) \in Slot /\ Alike(s, Cleared(s))
  BY ZenonT(60) DEF Cleared, Alike
<1>4. Culprit(s) \in Goals \cup {None}
  BY DEF Culprit
<1> QED
  BY <1>1, <1>2, <1>3, <1>4

LEMMA CancelFailedOps ==
  ASSUME NEW s \in Slot
  PROVE  /\ CancelFailed(s) \in Slot /\ Lasting(s, CancelFailed(s))
         /\ CancelFailed(s).typed = s.typed
<1> DEFINE r == [s EXCEPT !.requested = FALSE, !.cancel = None, !.deadline = FALSE]
           u == [r EXCEPT !.exhausted = TRUE, !.retry = FALSE]
<1>1. /\ [r EXCEPT !.retry = TRUE] \in Slot
      /\ Alike(s, [r EXCEPT !.retry = TRUE])
      /\ u \in Slot /\ Alike(s, u)
  BY GateConstants, ZenonT(60) DEF Slot, Alike
<1> HIDE DEF u
<1>2. Culprit(s) \in Goals \cup {None}
  BY SlotOps, GateConstants DEF Slot, Culprit, Goals
<1>3. /\ Latched(u, Culprit(s)) \in Slot /\ Lasting(u, Latched(u, Culprit(s)))
      /\ Latched(u, Culprit(s)).typed = u.typed
  <2>1. CASE Culprit(s) \in Goals
    BY <1>1, <2>1, SlotOps
  <2>2. CASE Culprit(s) = None
    BY <1>1, <2>2 DEF Latched, Lasting, Evident
  <2> QED
    BY <1>2, <2>1, <2>2
<1>4. CancelFailed(s) \in {[r EXCEPT !.retry = TRUE], Latched(u, Culprit(s))}
  BY DEF CancelFailed, u
<1> HIDE DEF r
<1> QED
  BY <1>1, <1>3, <1>4 DEF Alike, Lasting, Evident

(* Completing or flagging a context says no more of its command than the   *)
(* status and the success it is completed with.                            *)
LEMMA ContextOps ==
  ASSUME NEW S \in [Controllers -> Slot], NEW X \in [Commands -> Context],
         NEW g, NEW status \in Ends \cup {"unknown"},
         NEW observed \in BOOLEAN, NEW success \in BOOLEAN
  PROVE  /\ Ended(S, X, g, status, observed, success) \in [Commands -> Context]
         /\ Flagged(X, g) \in [Commands -> Context]
         /\ \A h \in Commands :
              LET y == Ended(S, X, g, status, observed, success)[h] IN
              /\ X[h].terminal => y = X[h]
              /\ h # g => y = X[h]
              /\ y.success => X[h].success \/ success
              /\ y.status = "canceled" =>
                   X[h].status = "canceled" \/ status = "canceled"
              /\ g = h /\ S[CtlOf[g]].typed = g => y.terminal
         /\ \A h \in Commands : Stays(X[h], Flagged(X, g)[h])
                                /\ Flagged(X, g)[h].terminal = X[h].terminal
<1>1. /\ Ended(S, X, g, status, observed, success) \in [Commands -> Context]
      /\ Flagged(X, g) \in [Commands -> Context]
  BY ZenonT(60) DEF Ended, Flagged, Context
<1>2. ASSUME NEW h \in Commands
      PROVE  LET y == Ended(S, X, g, status, observed, success)[h] IN
             /\ X[h].terminal => y = X[h]
             /\ h # g => y = X[h]
             /\ y.success => X[h].success \/ success
             /\ y.status = "canceled" =>
                  X[h].status = "canceled" \/ status = "canceled"
             /\ g = h /\ S[CtlOf[g]].typed = g => y.terminal
  BY DEF Ended, Context
<1>3. ASSUME NEW h \in Commands
      PROVE  /\ Stays(X[h], Flagged(X, g)[h])
             /\ Flagged(X, g)[h].terminal = X[h].terminal
  BY DEF Flagged, Context, Stays, Stands
<1> QED
  BY <1>1, <1>2, <1>3

(* So does noting a reason on a context, whether or not it is terminal.    *)
LEMMA NotedOps ==
  ASSUME NEW X \in [Commands -> Context], NEW g
  PROVE  /\ Noted(X, g) \in [Commands -> Context]
         /\ \A h \in Commands : Stays(X[h], Noted(X, g)[h])
                                /\ Noted(X, g)[h].terminal = X[h].terminal
<1>1. Noted(X, g) \in [Commands -> Context]
  BY ZenonT(60) DEF Noted, Context
<1>2. ASSUME NEW h \in Commands
      PROVE  /\ Stays(X[h], Noted(X, g)[h])
             /\ Noted(X, g)[h].terminal = X[h].terminal
  BY DEF Noted, Context, Stays, Stands
<1> QED
  BY <1>1, <1>2

LEMMA FailedOps ==
  ASSUME NEW S \in [Controllers -> Slot], NEW X \in [Commands -> Context],
         NEW g
  PROVE  /\ Failed(S, X, g) \in [Commands -> Context]
         /\ \A h \in Commands : Stays(X[h], Failed(S, X, g)[h])
         /\ g \in Commands /\ S[CtlOf[g]].typed = g
              => Failed(S, X, g)[g].terminal
<1>1. Failed(S, X, g) \in [Commands -> Context]
  BY DEF Failed, Ended, Context
<1>2. ASSUME NEW h \in Commands
      PROVE  Stays(X[h], Failed(S, X, g)[h])
  BY DEF Failed, Ended, Context, Stays, Stands
<1>3. g \in Commands /\ S[CtlOf[g]].typed = g => Failed(S, X, g)[g].terminal
  BY DEF Failed, Ended, Context
<1> QED
  BY <1>1, <1>2, <1>3

(* A cancel marks slots and contexts, and passes on what it was given.     *)
LEMMA CancellingOps ==
  ASSUME TypeOK, NEW C, NEW S \in [Controllers -> Slot],
         NEW X \in [Commands -> Context], NEW r \in BOOLEAN,
         Cancelling(C, S, X, r)
  PROVE  /\ slot' \in [Controllers -> Slot] /\ ctx' \in [Commands -> Context]
         /\ asking' \in [Goals -> 0..MaxAsking]
         /\ \A c \in Controllers : Alike(S[c], slot'[c])
         /\ \A g \in Commands : Stays(X[g], ctx'[g])
                                /\ ctx'[g].terminal = X[g].terminal
<1>1. /\ slot' \in [Controllers -> Slot]
      /\ \A c \in Controllers : Alike(S[c], slot'[c])
  <2>1. ASSUME NEW c \in Controllers
        PROVE  slot'[c] \in Slot /\ Alike(S[c], slot'[c])
    <3> DEFINE b == \/ S[c].onAccept
                    \/ c \in C /\ S[c].send # None /\ S[c].handle = None
    <3>1. b \in BOOLEAN
      OBVIOUS
    <3>2. slot'[c] = [S[c] EXCEPT !.onAccept = b]
      BY Zenon DEF Cancelling
    <3> HIDE DEF b
    <3> QED
      BY <3>1, <3>2 DEF Slot, Alike
  <2>2. slot' = [c \in Controllers |-> slot'[c]]
    BY Zenon DEF Cancelling
  <2> QED
    BY <2>1, <2>2
<1>2. /\ ctx' \in [Commands -> Context]
      /\ \A g \in Commands : Stays(X[g], ctx'[g])
                             /\ ctx'[g].terminal = X[g].terminal
  <2>1. \A g \in Commands : ctx'[g] \in {X[g], Flagged(X, g)[g]}
    BY DEF Cancelling
  <2>2. ctx' = [g \in Commands |-> ctx'[g]]
    BY DEF Cancelling
  <2>3. \A g \in Commands : /\ Flagged(X, g)[g] \in Context
                            /\ Stays(X[g], Flagged(X, g)[g])
                            /\ Flagged(X, g)[g].terminal = X[g].terminal
                            /\ Stays(X[g], X[g])
    BY DEF Flagged, Context, Stays, Stands
  <2> QED
    BY <2>1, <2>2, <2>3
<1>3. asking' \in [Goals -> 0..MaxAsking]
  <2>1. \A g \in Goals : asking'[g] \in {asking[g], asking[g] + 1}
    BY DEF Cancelling
  <2>2. \A g \in Goals : asking'[g] <= MaxAsking
    BY DEF Cancelling
  <2>3. asking' = [g \in Goals |-> asking'[g]]
    BY DEF Cancelling
  <2> QED
    BY <2>1, <2>2, <2>3, GateConstants DEF TypeOK
<1> QED
  BY <1>1, <1>2, <1>3

LEMMA CancelFailureOps ==
  ASSUME TypeOK, NEW c \in Controllers, NEW s \in Slot, CancelFailure(c, s),
         Lasting(slot[c], s), s.typed = slot[c].typed
  PROVE  /\ fault' = TRUE
         /\ slot' \in [Controllers -> Slot] /\ ctx' \in [Commands -> Context]
         /\ SlotsLast
         /\ \A d \in Controllers : slot'[d].typed = slot[d].typed
         /\ \A g \in Commands : Stays(ctx[g], ctx'[g])
<1> DEFINE t == CancelFailed(s)
<1>1. t \in Slot /\ Lasting(s, t) /\ t.typed = s.typed
  BY CancelFailedOps
<1>2. slot \in [Controllers -> Slot] /\ ctx \in [Commands -> Context]
  BY DEF TypeOK
<1>3. fault' = TRUE /\ slot' = [slot EXCEPT ![c] = t]
  BY DEF CancelFailure
<1>4. ctx' \in {ctx, Failed([slot EXCEPT ![c] = s], ctx, s.typed)}
  BY DEF CancelFailure
<1>5. /\ ctx' \in [Commands -> Context]
      /\ \A g \in Commands : Stays(ctx[g], ctx'[g])
  <2>1. [slot EXCEPT ![c] = s] \in [Controllers -> Slot]
    BY <1>2
  <2> DEFINE Y == Failed([slot EXCEPT ![c] = s], ctx, s.typed)
  <2>2. /\ Y \in [Commands -> Context]
        /\ \A g \in Commands : Stays(ctx[g], Y[g])
    BY <1>2, <2>1, FailedOps
  <2> HIDE DEF Y
  <2>3. ctx' = ctx \/ ctx' = Y
    BY <1>4 DEF Y
  <2> QED
    BY <1>2, <2>2, <2>3 DEF Stays, Stands
<1> HIDE DEF t
<1>6. slot' \in [Controllers -> Slot]
  BY <1>1, <1>2, <1>3
<1>7. ASSUME NEW d \in Controllers
      PROVE  Lasting(slot[d], slot'[d]) /\ slot'[d].typed = slot[d].typed
  BY <1>1, <1>2, <1>3 DEF Lasting, Evident
<1> QED
  BY <1>3, <1>5, <1>6, <1>7 DEF SlotsLast

-----------------------------------------------------------------------------
(* Steps.  One that touches no goal's life, and one that touches that of g.*)

Step == Effect /\ SlotsLast

Rest ==
  /\ fault \in BOOLEAN /\ permitted \in BOOLEAN
  /\ reserved \subseteq Commands /\ asked \subseteq Commands
  /\ asking \in [Goals -> 0..MaxAsking] /\ cancels \subseteq Calls
  /\ watch \in [Controllers -> BOOLEAN] /\ captured \subseteq Commands

Mild ==
  /\ slot' \in [Controllers -> Slot] /\ ctx' \in [Commands -> Context]
  /\ SlotsLast
  /\ \A c \in Controllers : slot'[c].typed = slot[c].typed
  /\ \A g \in Commands : Stays(ctx[g], ctx'[g])

LEMMA CalmStep ==
  ASSUME IInv, Mild, Rest', Numbered', resetting' \in BOOLEAN, UNCHANGED epoch,
         UNCHANGED <<run, resp, done, down, reported>>
  PROVE  Step
<1>1. TypeOK'
  BY DEF IInv, TypeOK, Mild, Rest
<1>2. ASSUME NEW g \in Goals
      PROVE  Life(g)
  BY <1>2 DEF Life
<1>3. ASSUME NEW g \in Commands
      PROVE  Told1(g)
  <2>1. CtlOf[g] \in Controllers
    BY GateConstants DEF Goals
  <2> QED
    BY <2>1 DEF Told1, Mild, Stays, Stands
<1> QED
  BY <1>1, <1>2, <1>3 DEF Step, Effect, Mild, SlotsLast, Lasting

(* Cancelling from slots and contexts that are themselves a mild change.   *)
LEMMA CancellingIsMild ==
  ASSUME TypeOK, NEW C, NEW S \in [Controllers -> Slot],
         NEW X \in [Commands -> Context], NEW r \in BOOLEAN,
         Cancelling(C, S, X, r),
         \A c \in Controllers : Lasting(slot[c], S[c]) /\ S[c].typed = slot[c].typed,
         \A g \in Commands : Stays(ctx[g], X[g])
  PROVE  Mild /\ asking' \in [Goals -> 0..MaxAsking]
<1>1. /\ slot' \in [Controllers -> Slot] /\ ctx' \in [Commands -> Context]
      /\ asking' \in [Goals -> 0..MaxAsking]
      /\ \A c \in Controllers : Alike(S[c], slot'[c])
      /\ \A g \in Commands : Stays(X[g], ctx'[g])
  BY CancellingOps
<1>2. ASSUME NEW c \in Controllers
      PROVE  Lasting(slot[c], slot'[c]) /\ slot'[c].typed = slot[c].typed
  BY <1>1 DEF Alike, Lasting, Evident
<1>3. \A g \in Commands : Stays(ctx[g], ctx'[g])
  BY <1>1 DEF Stays, Stands
<1> QED
  BY <1>1, <1>2, <1>3 DEF Mild, SlotsLast

LEMMA Same ==
  ASSUME TypeOK
  PROVE  /\ slot \in [Controllers -> Slot] /\ ctx \in [Commands -> Context]
         /\ \A c \in Controllers : Lasting(slot[c], slot[c])
         /\ \A g \in Commands : Stays(ctx[g], ctx[g])
         /\ Rest
BY DEF TypeOK, Lasting, Evident, Stays, Stands, Rest

LEMMA CancelIsMild ==
  ASSUME TypeOK, NEW C, Cancel(C)
  PROVE  Mild /\ asking' \in [Goals -> 0..MaxAsking]
BY Same, CancellingIsMild DEF Cancel

-----------------------------------------------------------------------------
(* The steps that touch no goal's life.                                    *)

LEMMA CalmSteps ==
  ASSUME IInv,
         \/ \E g \in Commands : TypedCancel(g) \/ WaitCancel(g)
         \/ \E c \in Controllers : WatchBlocked(c)
         \/ \E bad \in BOOLEAN : Refused(bad) \/ Permitted(bad)
         \/ ResetRefused \/ ResetChecked
  PROVE  Step
<1> USE GateConstants DEF transport
<1>0. TypeOK /\ Numbered /\ Rest /\ resetting \in BOOLEAN /\ epoch \in Nat
  BY Same DEF IInv, TypeOK
<1>1. CASE \E g \in Commands : TypedCancel(g)
  <2>1. PICK g \in Commands : TypedCancel(g)
    BY <1>1
  <2>2. Mild /\ asking' \in [Goals -> 0..MaxAsking]
    BY <1>0, <2>1, CancelIsMild DEF TypedCancel
  <2> QED
    BY <1>0, <2>1, <2>2, CalmStep DEF TypedCancel, Rest, Numbered
<1>2. CASE \E g \in Commands : WaitCancel(g)
  <2>1. PICK g \in Commands : WaitCancel(g)
    BY <1>2
  <2>2. /\ Flagged(ctx, g) \in [Commands -> Context]
        /\ \A h \in Commands : Stays(ctx[h], Flagged(ctx, g)[h])
    <3>1. ctx \in [Commands -> Context]
      BY <1>0 DEF TypeOK
    <3> QED
      BY <3>1, ZenonT(60) DEF Flagged, Context, Stays, Stands
  <2>3. Mild /\ asking' \in [Goals -> 0..MaxAsking]
    <3>1. Cancelling({CtlOf[g]}, slot, Flagged(ctx, g), FALSE)
      BY <2>1 DEF WaitCancel
    <3> QED
      BY <1>0, <2>2, <3>1, Same, CancellingIsMild
  <2> QED
    BY <1>0, <2>1, <2>3, CalmStep DEF WaitCancel, Rest, Numbered
<1>3. CASE \E c \in Controllers : WatchBlocked(c)
  <2>1. PICK c \in Controllers : WatchBlocked(c)
    BY <1>3
  <2>2. Mild /\ asking' \in [Goals -> 0..MaxAsking]
    BY <1>0, <2>1, CancelIsMild DEF WatchBlocked
  <2> QED
    BY <1>0, <2>1, <2>2, CalmStep DEF WatchBlocked, Rest, Numbered
<1>4. CASE \E bad \in BOOLEAN : Refused(bad)
  <2>1. PICK bad \in BOOLEAN : Refused(bad)
    BY <1>4
  <2>2. Mild /\ asking' \in [Goals -> 0..MaxAsking]
    BY <1>0, <2>1, CancelIsMild DEF Refused
  <2> QED
    BY <1>0, <2>1, <2>2, CalmStep DEF Refused, Rest, Numbered
<1>5. CASE \E bad \in BOOLEAN : Permitted(bad)
  <2>1. Mild
    BY <1>0, <1>5, Same DEF Permitted, Mild, SlotsLast
  <2> QED
    BY <1>0, <1>5, <2>1, CalmStep DEF Permitted, Rest, Numbered
<1>6. CASE ResetRefused
  <2>2. Mild /\ asking' \in [Goals -> 0..MaxAsking]
    BY <1>0, <1>6, CancelIsMild DEF ResetRefused
  <2> QED
    BY <1>0, <1>6, <2>2, CalmStep DEF ResetRefused, Rest, Numbered
<1>7. CASE ResetChecked
  <2>1. Mild
    BY <1>0, <1>7, Same DEF ResetChecked, Mild, SlotsLast
  <2> QED
    BY <1>0, <1>7, <2>1, CalmStep DEF ResetChecked, Rest, Numbered
<1> QED
  BY <1>1, <1>2, <1>3, <1>4, <1>5, <1>6, <1>7

LEMMA CancelSteps ==
  ASSUME IInv,
         \/ \E g \in Goals : SendCancel(g)
         \/ \E f \in cancels : CancelResponse(f)
  PROVE  Step
<1> USE GateConstants DEF transport
<1>0. TypeOK /\ Numbered /\ Rest /\ resetting \in BOOLEAN
  BY Same DEF IInv, TypeOK
<1>1. CASE \E g \in Goals : SendCancel(g)
  <2>1. PICK g \in Goals : SendCancel(g)
    BY <1>1
  <2> DEFINE c == CtlOf[g]
             s == [slot[c] EXCEPT !.requested = TRUE, !.attempts = @ + 1]
             t == [s EXCEPT !.cancel = <<g, s.attempts>>]
  <2>2. c \in Controllers /\ slot[c] \in Slot
    BY <1>0 DEF TypeOK
  <2>3. slot[c].attempts \in Nat /\ s.attempts = slot[c].attempts + 1
    BY <2>2 DEF Slot
  <2>4. s.attempts \in 1..(MaxAttempts + MaxAsking)
    <3>1. s.attempts <= MaxAttempts + MaxAsking
      BY <2>1 DEF SendCancel
    <3> HIDE DEF s
    <3> QED
      BY <2>3, <3>1
  <2>5. s \in Slot /\ Alike(slot[c], s)
    <3> DEFINE n == slot[c].attempts + 1
               u == [slot[c] EXCEPT !.requested = TRUE, !.attempts = n]
    <3>1. n \in 0..(MaxAttempts + MaxAsking)
      BY <2>3, <2>4
    <3> HIDE DEF n
    <3>2. u \in Slot /\ Alike(slot[c], u)
      BY <2>2, <3>1 DEF Slot, Alike
    <3> QED
      BY <3>2 DEF n
  <2>6. <<g, s.attempts>> \in Calls
    BY <2>4 DEF Calls
  <2>7. t \in Slot /\ Alike(slot[c], t)
    <3> HIDE DEF s
    <3> QED BY <2>5, <2>6 DEF Slot, Alike
  <2>8. Rest' /\ UNCHANGED <<run, resp, done, down, reported, resetting, epoch>>
    <3>1. asking' \in [Goals -> 0..MaxAsking]
      <4>1. asking[g] \in 0..MaxAsking /\ asking[g] > 0
        BY <1>0, <2>1 DEF SendCancel, Rest
      <4>2. asking' = [asking EXCEPT ![g] = asking[g] - 1]
        BY <2>1 DEF SendCancel
      <4>3. asking[g] - 1 \in 0..MaxAsking
        BY <4>1
      <4> QED
        BY <1>0, <4>2, <4>3 DEF Rest
    <3>2. cancels' \subseteq Calls
      <4> HIDE DEF s
      <4> QED BY <1>0, <2>1, <2>6 DEF SendCancel, Rest, s
    <3>3. fault' \in BOOLEAN
      BY <1>0, <2>1 DEF SendCancel, CancelFailure, Rest
    <3> QED
      BY <1>0, <2>1, <3>1, <3>2, <3>3 DEF SendCancel, Rest
  <2>9. CASE slot' = [slot EXCEPT ![c] = t] /\ UNCHANGED ctx
    <3>1. Mild
      <4> HIDE DEF t
      <4>1. slot' \in [Controllers -> Slot]
        BY <1>0, <2>2, <2>7, <2>9 DEF TypeOK
      <4>2. ASSUME NEW d \in Controllers
            PROVE  Alike(slot[d], slot'[d])
        BY <1>0, <2>2, <2>7, <2>9 DEF TypeOK, Alike
      <4> QED
        BY <1>0, <2>9, <4>1, <4>2, Same DEF Mild, SlotsLast, Alike, Lasting, Evident
    <3> QED
      BY <1>0, <2>8, <3>1, CalmStep DEF Numbered
  <2>10. CASE CancelFailure(c, s)
    <3> HIDE DEF s
    <3>1. Lasting(slot[c], s) /\ s.typed = slot[c].typed
      BY <2>5 DEF Alike, Lasting, Evident
    <3>2. Mild
      BY <1>0, <2>2, <2>5, <2>10, <3>1, CancelFailureOps DEF Mild
    <3> QED
      BY <1>0, <2>8, <3>2, CalmStep DEF Numbered
  <2> QED
    BY <2>1, <2>9, <2>10 DEF SendCancel
<1>2. CASE \E f \in cancels : CancelResponse(f)
  <2>1. PICK f \in cancels : CancelResponse(f)
    BY <1>2
  <2> DEFINE c == CtlOf[f[1]]
             s == [slot[c] EXCEPT !.cancel = None, !.retry = FALSE,
                                  !.deadline = TRUE]
  <2>2. f[1] \in Goals
    BY <1>0 DEF Rest, Calls
  <2>3. c \in Controllers /\ slot[c] \in Slot /\ Lasting(slot[c], slot[c])
    BY <1>0, <2>2, Same DEF TypeOK
  <2>4. s \in Slot /\ Alike(slot[c], s)
    BY <2>3, ZenonT(60) DEF Slot, Alike
  <2>5. Rest' /\ UNCHANGED <<run, resp, done, down, reported, resetting, epoch>>
    BY <1>0, <2>1 DEF CancelResponse, CancelFailure, Rest
  <2>6. CASE UNCHANGED <<fault, slot, ctx>>
    BY <1>0, <2>5, <2>6, Same, CalmStep DEF Mild, SlotsLast, Numbered
  <2>7. CASE slot' = [slot EXCEPT ![c].cancel = None, ![c].retry = FALSE,
                                  ![c].deadline = TRUE] /\ UNCHANGED ctx
    <3>0. slot' = [slot EXCEPT ![c] = s]
      BY <1>0, <2>3, <2>7 DEF TypeOK
    <3>1. Mild
      <4> HIDE DEF s
      <4>1. slot' \in [Controllers -> Slot]
        BY <1>0, <2>3, <2>4, <3>0 DEF TypeOK
      <4>2. ASSUME NEW d \in Controllers
            PROVE  Alike(slot[d], slot'[d])
        BY <1>0, <2>3, <2>4, <3>0 DEF TypeOK, Alike
      <4> QED
        BY <1>0, <2>7, <4>1, <4>2, Same DEF Mild, SlotsLast, Alike, Lasting, Evident
    <3> QED
      BY <1>0, <2>5, <3>1, CalmStep DEF Numbered
  <2>8. CASE CancelFailure(c, slot[c])
    <3>1. Mild
      BY <1>0, <2>3, <2>8, CancelFailureOps DEF Mild
    <3> QED
      BY <1>0, <2>5, <3>1, CalmStep DEF Numbered
  <2> QED
    BY <2>1, <2>6, <2>7, <2>8 DEF CancelResponse
<1> QED
  BY <1>1, <1>2

(* One slot is changed.                                                    *)
LEMMA UpdateIsMild ==
  ASSUME TypeOK, NEW c \in Controllers, NEW t \in Slot, Lasting(slot[c], t),
         t.typed = slot[c].typed, slot' = [slot EXCEPT ![c] = t],
         ctx' \in [Commands -> Context],
         \A g \in Commands : Stays(ctx[g], ctx'[g])
  PROVE  Mild
<1>1. slot' \in [Controllers -> Slot]
  BY Same
<1>2. ASSUME NEW d \in Controllers
      PROVE  Lasting(slot[d], slot'[d]) /\ slot'[d].typed = slot[d].typed
  BY Same
<1> QED
  BY <1>1, <1>2 DEF Mild, SlotsLast

LEMMA LatchedOps ==
  ASSUME NEW s \in Slot, NEW g \in Goals \cup {None}
  PROVE  /\ Latched(s, g) \in Slot /\ Lasting(s, Latched(s, g))
         /\ Latched(s, g).typed = s.typed
<1>1. CASE g \in Goals
  BY <1>1, SlotOps
<1>2. CASE g = None
  BY <1>2 DEF Latched, Lasting, Evident
<1> QED
  BY <1>1, <1>2

LEMMA WatchSteps ==
  ASSUME IInv,
         \E c \in Controllers : \/ WatchSend(c) \/ SendTimeout(c)
                               \/ WatchResult(c) \/ WatchCancel(c)
                               \/ WatchRetry(c)
  PROVE  Step
<1>0. TypeOK /\ Numbered /\ Rest /\ resetting \in BOOLEAN
  BY Same DEF IInv, TypeOK
<1>1. PICK c \in Controllers : \/ WatchSend(c) \/ SendTimeout(c)
                               \/ WatchResult(c) \/ WatchCancel(c)
                               \/ WatchRetry(c)
  OBVIOUS
<1>2. slot[c] \in Slot /\ Lasting(slot[c], slot[c])
  BY <1>0, Same
<1>3. CASE WatchSend(c)
  <2>1. Mild
    BY <1>0, <1>3, Same DEF WatchSend, Mild, SlotsLast
  <2> QED
    BY <1>0, <1>3, <2>1, CalmStep DEF WatchSend, Rest, Numbered
<1>4. CASE SendTimeout(c)
  <2> DEFINE s == [slot[c] EXCEPT !.onAccept = TRUE]
             t == Latched(s, Culprit(slot[c]))
  <2>1. s \in Slot /\ Alike(slot[c], s)
    BY <1>2 DEF Slot, Alike
  <2>2. Culprit(slot[c]) \in Goals \cup {None}
    BY <1>2 DEF Slot, Culprit, Goals
  <2> HIDE DEF s
  <2>3. t \in Slot /\ Lasting(s, t) /\ t.typed = s.typed
    BY <2>1, <2>2, LatchedOps
  <2>4. slot' = [slot EXCEPT ![c] = t] /\ ctx' = Failed(slot, ctx, slot[c].typed)
    BY <1>4 DEF SendTimeout, s
  <2> HIDE DEF t
  <2>5. Lasting(slot[c], t) /\ t.typed = slot[c].typed
    BY <2>1, <2>3 DEF Alike, Lasting, Evident
  <2>6. /\ ctx' \in [Commands -> Context]
        /\ \A g \in Commands : Stays(ctx[g], ctx'[g])
    BY <1>0, <2>4, Same, FailedOps
  <2>7. Mild
    BY <1>0, <2>3, <2>4, <2>5, <2>6, UpdateIsMild
  <2> QED
    BY <1>0, <1>4, <2>7, CalmStep DEF SendTimeout, Rest, Numbered
<1>5. CASE WatchResult(c)
  <2> DEFINE s == [slot[c] EXCEPT !.deadline = FALSE]
             S == [slot EXCEPT ![c] = s]
  <2>1. s \in Slot /\ Alike(slot[c], s)
    BY <1>2 DEF Slot, Alike
  <2>2. \/ CancelFailure(c, s) /\ UNCHANGED asking
        \/ fault' = TRUE /\ Cancelling({c}, S, ctx, FALSE)
    BY <1>5 DEF WatchResult
  <2> HIDE DEF s
  <2>3. Lasting(slot[c], s) /\ s.typed = slot[c].typed
    BY <2>1 DEF Alike, Lasting, Evident
  <2>4. Mild /\ asking' \in [Goals -> 0..MaxAsking] /\ fault' = TRUE
    <3>1. CASE CancelFailure(c, s) /\ UNCHANGED asking
      BY <1>0, <2>1, <2>3, <3>1, CancelFailureOps DEF Mild, Rest
    <3>2. CASE fault' = TRUE /\ Cancelling({c}, S, ctx, FALSE)
      <4>1. S \in [Controllers -> Slot]
        BY <1>0, <2>1, Same
      <4>2. \A d \in Controllers : /\ Lasting(slot[d], S[d])
                                  /\ S[d].typed = slot[d].typed
        BY <1>0, <2>3, Same
      <4> HIDE DEF S
      <4> QED
        BY <1>0, <3>2, <4>1, <4>2, Same, CancellingIsMild
    <3> QED
      BY <2>2, <3>1, <3>2
  <2> QED
    BY <1>0, <1>5, <2>4, CalmStep DEF WatchResult, Rest, Numbered
<1>6. CASE WatchCancel(c)
  <2>1. CancelFailure(c, slot[c])
    BY <1>6 DEF WatchCancel
  <2>2. Mild /\ fault' = TRUE
    BY <1>0, <1>2, <2>1, CancelFailureOps DEF Mild
  <2> QED
    BY <1>0, <1>6, <2>2, CalmStep DEF WatchCancel, Rest, Numbered, transport
<1>7. CASE WatchRetry(c)
  <2> DEFINE s == [slot[c] EXCEPT !.retry = FALSE]
             S == [slot EXCEPT ![c] = s]
  <2>1. s \in Slot /\ Alike(slot[c], s)
    BY <1>2 DEF Slot, Alike
  <2>2. Cancelling({c}, S, ctx, TRUE)
    BY <1>0, <1>7, Same DEF WatchRetry
  <2> HIDE DEF s
  <2>3. Lasting(slot[c], s) /\ s.typed = slot[c].typed
    BY <2>1 DEF Alike, Lasting, Evident
  <2>4. Mild /\ asking' \in [Goals -> 0..MaxAsking]
    <3>1. S \in [Controllers -> Slot]
      BY <1>0, <2>1, Same
    <3>2. \A d \in Controllers : /\ Lasting(slot[d], S[d])
                                /\ S[d].typed = slot[d].typed
      BY <1>0, <2>3, Same
    <3> HIDE DEF S
    <3> QED
      BY <1>0, <2>2, <3>1, <3>2, Same, CancellingIsMild
  <2> QED
    BY <1>0, <1>7, <2>4, CalmStep DEF WatchRetry, Rest, Numbered
<1> QED
  BY <1>1, <1>3, <1>4, <1>5, <1>6, <1>7

-----------------------------------------------------------------------------
(* The steps of one goal.                                                  *)

TypedKept ==
  \A h \in Commands :
    slot[CtlOf[h]].typed = h /\ run'[h] \in Serving => slot'[CtlOf[h]].typed = h

(* No other goal has a part in the step.                                   *)
Others(g) ==
  /\ \A h \in Goals \ {g} :
       /\ run'[h] = run[h] /\ resp'[h] = resp[h] /\ done'[h] = done[h]
       /\ down'[h] = down[h]
  /\ \A h \in Commands \ {g} :
       reported'[h] = reported[h] /\ Stays(ctx[h], ctx'[h])

LEMMA OneGoal ==
  ASSUME IInv, TypeOK', Numbered', SlotsLast, TypedKept, NEW g \in Goals,
         Others(g), Life(g), g \in Commands => Told1(g)
  PROVE  Step
<1>1. ASSUME NEW h \in Goals
      PROVE  Life(h)
  BY <1>1 DEF Others, Life
<1>2. ASSUME NEW h \in Commands
      PROVE  Told1(h)
  <2>1. CASE h = g
    BY <2>1
  <2>2. CASE h # g
    BY <2>2 DEF Others, TypedKept, Told1, Stays, Stands, Goals
  <2> QED
    BY <2>1, <2>2
<1> QED
  BY <1>1, <1>2 DEF Step, Effect, SlotsLast, Lasting

(* A step of the run thread that reports nothing.                          *)
Labels == Pre \cup Serving \cup Closing \cup {"finish"}

LEMMA RunStep ==
  ASSUME IInv, NEW g \in Goals, NEW to \in Labels,
         run' = [run EXCEPT ![g] = to],
         UNCHANGED <<resp, done, down, reported, resetting, epoch>>,
         slot' \in [Controllers -> Slot], ctx' \in [Commands -> Context],
         SlotsLast, TypedKept, Rest',
         \A h \in Commands : Stays(ctx[h], ctx'[h]),
         run[g] \in Closing => to \in Closing,
         to \in Pre => run[g] \in Pre,
         g \in Commands /\ to \in Serving =>
           run[g] \in Serving \/ ctx'[g].terminal \/ slot'[CtlOf[g]].typed = g,
         g \in Commands /\ to = "finish" => ctx'[g].terminal
  PROVE  Step
<1>0. TypeOK /\ run \in [Goals -> Labels] /\ run' \in [Goals -> Labels]
  <2>1. TypeOK /\ run \in [Goals -> Labels]
    BY DEF IInv, TypeOK, Labels, Pre, Serving, Closing
  <2> QED
    BY <2>1
<1>1. TypeOK'
  <2>1. run' \in [Goals -> {"idle", "reserved", "bound", "admit", "send", "sent",
                             "wait", "finish", "unbind", "release", "over"}]
    BY <1>0 DEF Labels, Pre, Serving, Closing
  <2> QED
    BY <1>0, <2>1 DEF TypeOK, Rest
<1>2. Numbered'
  BY DEF IInv, Numbered
<1>3. Others(g)
  BY <1>0 DEF Others, Goals
<1>4. run'[g] = to
  BY <1>0
<1>5. Life(g)
  BY <1>4 DEF Life
<1>6. g \in Commands => Told1(g)
  BY <1>4 DEF Told1, Stays, Stands, TypedKept
<1> QED
  BY <1>1, <1>2, <1>3, <1>5, <1>6, OneGoal

(* What the steps below read of the state.                                 *)
LEMMA At ==
  ASSUME IInv, NEW g \in Goals
  PROVE  /\ TypeOK /\ Rest /\ Numbered
         /\ CtlOf[g] \in Controllers /\ slot[CtlOf[g]] \in Slot
         /\ slot \in [Controllers -> Slot] /\ ctx \in [Commands -> Context]
         /\ \A c \in Controllers : Lasting(slot[c], slot[c])
         /\ \A h \in Commands : h \in Goals /\ Stays(ctx[h], ctx[h])
BY Same, GateConstants DEF IInv, TypeOK, Goals

LEMMA MildKeepsTyped == Mild => TypedKept
BY GateConstants DEF Mild, TypedKept, Goals

LEMMA ClaimSteps ==
  ASSUME IInv, NEW g \in Goals,
         \/ g \in Commands /\ (TypedGoal(g) \/ Bind(g))
         \/ LegacyRequest(g)
  PROVE  Step
<1> DEFINE c == CtlOf[g]
           o == [slot[c] EXCEPT !.owner = g]
           b == [slot[c] EXCEPT !.typed = g]
<1>0. /\ TypeOK /\ Rest /\ c \in Controllers /\ slot[c] \in Slot
      /\ slot \in [Controllers -> Slot] /\ ctx \in [Commands -> Context]
      /\ \A h \in Commands : Stays(ctx[h], ctx[h])
  BY At
<1>1. o \in Slot /\ (slot[c].tomb = None => Lasting(slot[c], o))
      /\ o.typed = slot[c].typed
  BY <1>0 DEF Slot, Lasting, Evident
<1>2. b \in Slot \/ g \notin Commands
  BY <1>0 DEF Slot
<1>3. Lasting(slot[c], b) /\ b.typed = g
  BY <1>0 DEF Slot, Lasting, Evident
<1> HIDE DEF o, b
<1>4. CASE TypedGoal(g) /\ g \in Commands
  <2>1. slot' = [slot EXCEPT ![c] = o] /\ UNCHANGED ctx
    BY <1>0, <1>4 DEF TypedGoal, o
  <2>2. slot[c].tomb = None
    BY <1>0, <1>4 DEF TypedGoal
  <2>3. Mild
    BY <1>0, <1>1, <2>1, <2>2, UpdateIsMild
  <2>4. Rest'
    BY <1>0, <1>4 DEF TypedGoal, Rest, transport
  <2>5. run[g] = "idle" /\ run' = [run EXCEPT ![g] = "reserved"]
        /\ UNCHANGED <<resp, done, down, reported, resetting, epoch>>
    BY <1>4 DEF TypedGoal
  <2> QED
    BY <2>3, <2>4, <2>5, MildKeepsTyped, RunStep DEF Mild, Labels, Pre, Serving,
       Closing
<1>5. CASE LegacyRequest(g)
  <2>1. slot' = [slot EXCEPT ![c] = o] /\ UNCHANGED ctx
    BY <1>0, <1>5 DEF LegacyRequest, o
  <2>2. slot[c].tomb = None
    BY <1>0, <1>5 DEF LegacyRequest
  <2>3. Mild
    BY <1>0, <1>1, <2>1, <2>2, UpdateIsMild
  <2>4. Rest'
    BY <1>0, <1>5 DEF LegacyRequest, Rest, transport
  <2>5. /\ run[g] = "idle" /\ run' = [run EXCEPT ![g] = "admit"]
        /\ g \notin Commands
        /\ UNCHANGED <<resp, done, down, reported, resetting, epoch>>
    BY <1>5, GateConstants DEF LegacyRequest
  <2> QED
    BY <2>3, <2>4, <2>5, MildKeepsTyped, RunStep DEF Mild, Labels, Pre, Serving,
       Closing
<1>6. CASE Bind(g) /\ g \in Commands
  <2>0. /\ run[g] = "reserved" /\ Rest'
        /\ UNCHANGED <<resp, done, down, reported, resetting, epoch>>
    BY <1>0, <1>6 DEF Bind, Rest, transport
  <2>1. CASE /\ slot[c].typed = None /\ slot' = [slot EXCEPT ![c].typed = g]
             /\ run' = [run EXCEPT ![g] = "bound"] /\ UNCHANGED ctx
    <3>1. slot' = [slot EXCEPT ![c] = b]
      BY <1>0, <2>1 DEF b
    <3>2. slot' \in [Controllers -> Slot] /\ SlotsLast /\ slot'[c].typed = g
      BY <1>0, <1>2, <1>3, <1>6, <3>1, At DEF SlotsLast
    <3>3. TypedKept
      <4> SUFFICES ASSUME NEW h \in Commands, slot[CtlOf[h]].typed = h
                   PROVE  slot'[CtlOf[h]].typed = h
        BY DEF TypedKept
      <4>1. h # None /\ CtlOf[h] \in Controllers
        BY GateConstants DEF Goals
      <4>2. CtlOf[h] # c
        BY <2>1, <4>1
      <4> QED
        BY <1>0, <3>1, <4>1, <4>2
    <3> QED
      BY <1>0, <2>0, <2>1, <3>2, <3>3, RunStep DEF Labels, Pre, Serving, Closing
  <2>2. CASE /\ ctx' = [ctx EXCEPT ![g].terminal = TRUE]
             /\ run' = [run EXCEPT ![g] = "wait"] /\ UNCHANGED slot
    <3>1. ctx' \in [Commands -> Context] /\ ctx'[g].terminal
      BY <1>0, <1>6, <2>2 DEF Context
    <3>2. \A h \in Commands : Stays(ctx[h], ctx'[h])
      BY <1>0, <2>2 DEF Context, Stays, Stands
    <3>3. SlotsLast /\ TypedKept
      BY <2>2, At DEF SlotsLast, TypedKept
    <3> QED
      BY <1>0, <2>0, <2>2, <3>1, <3>2, <3>3, RunStep DEF Labels, Pre, Serving,
         Closing
  <2> QED
    BY <1>6, <2>1, <2>2 DEF Bind
<1> QED
  BY <1>4, <1>5, <1>6

LEMMA CheckSteps ==
  ASSUME IInv, NEW g \in Commands, Check(g)
  PROVE  Step
<1>0. /\ TypeOK /\ Rest /\ g \in Goals /\ slot' = slot
      /\ slot \in [Controllers -> Slot] /\ ctx \in [Commands -> Context]
      /\ \A h \in Commands : h \in Goals /\ Stays(ctx[h], ctx[h])
  <2>1. g \in Goals
    BY DEF Goals
  <2> QED
    BY <2>1, At DEF Check
<1>1. /\ run[g] = "bound" /\ Rest' /\ SlotsLast /\ TypedKept
      /\ UNCHANGED <<resp, done, down, reported, resetting, epoch>>
  BY <1>0, At DEF Check, Rest, SlotsLast, TypedKept, transport
<1>2. CASE ctx' = Failed(slot, ctx, g) /\ run' = [run EXCEPT ![g] = "wait"]
  <2>1. /\ ctx' \in [Commands -> Context]
        /\ \A h \in Commands : Stays(ctx[h], ctx'[h])
    BY <1>0, <1>2, FailedOps
  <2> QED
    BY <1>0, <1>1, <1>2, <2>1, RunStep DEF Labels, Pre, Serving, Closing
<1>3. CASE UNCHANGED ctx /\ run' = [run EXCEPT ![g] = "admit"]
  BY <1>0, <1>1, <1>3, RunStep DEF Labels, Pre, Serving, Closing
<1>4. CASE /\ ctx' = Ended(slot, Flagged(ctx, g), g, "canceled", FALSE, FALSE)
           /\ run' = [run EXCEPT ![g] = "wait"]
  <2> DEFINE X == Flagged(ctx, g)
             Y == Ended(slot, X, g, "canceled", FALSE, FALSE)
  <2>1. /\ X \in [Commands -> Context]
        /\ \A h \in Commands : Stays(ctx[h], X[h])
    BY <1>0 DEF Flagged, Context, Stays, Stands
  <2> HIDE DEF X
  <2>2. /\ Y \in [Commands -> Context]
        /\ \A h \in Commands : /\ X[h].terminal => Y[h] = X[h]
                               /\ h # g => Y[h] = X[h]
                               /\ Y[h].success => X[h].success
    <3>1. "canceled" \in Ends \cup {"unknown"}
      BY DEF Ends
    <3>2. Y \in [Commands -> Context]
      BY <2>1, <3>1 DEF Ended, Context
    <3>3. ASSUME NEW h \in Commands
          PROVE  /\ X[h].terminal => Y[h] = X[h]
                 /\ h # g => Y[h] = X[h]
                 /\ Y[h].success => X[h].success
      BY <2>1 DEF Ended, Context
    <3> QED
      BY <3>2, <3>3
  <2> HIDE DEF Y
  <2>3. ctx' = Y
    BY <1>4 DEF X, Y
  <2>4. run'[g] = "wait" /\ run' \in [Goals -> Labels]
    BY <1>0, <1>4 DEF TypeOK, Labels, Pre, Serving, Closing
  <2>5. TypeOK'
    BY <1>0, <1>1, <1>4, <2>2, <2>3 DEF TypeOK, Rest
  <2>6. Others(g)
    <3>1. \A h \in Goals \ {g} : run'[h] = run[h]
      BY <1>0, <1>4 DEF TypeOK
    <3>2. \A h \in Commands \ {g} : Stays(ctx[h], ctx'[h])
      BY <2>1, <2>2, <2>3
    <3> QED
      BY <1>1, <3>1, <3>2 DEF Others
  <2>7. Life(g)
    BY <1>1, <2>4 DEF Life, Pre, Closing
  <2>8. down[g] = "none"
    BY <1>0, <1>1 DEF IInv, Traced, Pre
  <2>9. Told1(g)
    BY <1>0, <1>1, <2>1, <2>2, <2>3, <2>4, <2>8 DEF Told1, Stays, Stands, TypedKept,
       Pre, Serving, Closing, Live
  <2>10. Numbered'
    BY <1>1 DEF IInv, Numbered
  <2> QED
    BY <1>0, <1>1, <2>5, <2>6, <2>7, <2>9, <2>10, OneGoal
<1> QED
  BY <1>2, <1>3, <1>4 DEF Check

LEMMA DispatchSteps ==
  ASSUME IInv, NEW g \in Goals, Dispatch(g)
  PROVE  Step
<1> DEFINE c == CtlOf[g]
           s == [slot[c] EXCEPT !.onAccept = FALSE, !.requested = FALSE,
                                !.attempts = 0, !.retry = FALSE,
                                !.exhausted = FALSE]
           f == [slot[c] EXCEPT !.send = g]
           to == AfterDispatch(g)
<1>0. /\ TypeOK /\ Rest /\ c \in Controllers /\ slot[c] \in Slot
      /\ slot \in [Controllers -> Slot] /\ ctx \in [Commands -> Context]
      /\ Lasting(slot[c], slot[c])
      /\ \A h \in Commands : Stays(ctx[h], ctx[h])
  BY At
<1>1. s \in Slot /\ Alike(slot[c], s) /\ f \in Slot /\ Alike(slot[c], f)
  <2>1. 0 \in 0..(MaxAttempts + MaxAsking)
    BY GateConstants
  <2>2. s \in Slot /\ Alike(slot[c], s)
    BY <1>0, <2>1 DEF Slot, Alike
  <2>3. f \in Slot /\ Alike(slot[c], f)
    BY <1>0 DEF Slot, Alike
  <2> QED
    BY <2>2, <2>3
<1>2. to \in {"wait", "over"} /\ (g \in Commands => to = "wait")
  BY DEF AfterDispatch
<1>3. /\ Released(slot[c], g) \in Slot /\ Lasting(slot[c], Released(slot[c], g))
      /\ Released(slot[c], g).typed = slot[c].typed
  BY <1>0, SlotOps
<1>4. /\ Released(s, g) \in Slot /\ Lasting(s, Released(s, g))
      /\ Released(s, g).typed = s.typed
  BY <1>1, SlotOps
<1>5. /\ Failed(slot, ctx, g) \in [Commands -> Context]
      /\ \A h \in Commands : Stays(ctx[h], Failed(slot, ctx, g)[h])
  BY <1>0, FailedOps
<1> HIDE DEF s, f, to
<1>6. CASE Admit(g)
  <2>0. /\ run[g] = "admit" /\ Rest'
        /\ UNCHANGED <<resp, done, down, reported, resetting, epoch>>
    BY <1>0, <1>6 DEF Admit, Rest, transport
  <2>1. CASE UNCHANGED <<slot, ctx>> /\ run' = [run EXCEPT ![g] = "send"]
    <3>1. SlotsLast /\ TypedKept
      BY <2>1, At DEF SlotsLast, TypedKept
    <3> QED
      BY <1>0, <2>0, <2>1, <3>1, RunStep DEF Labels, Pre, Serving, Closing
  <2>2. CASE /\ ctx' = Failed(slot, ctx, g) /\ run' = [run EXCEPT ![g] = to]
             /\ slot' = [slot EXCEPT ![c] = Released(slot[c], g)]
    <3>1. Mild
      BY <1>0, <1>3, <1>5, <2>2, UpdateIsMild
    <3> QED
      BY <1>2, <2>0, <2>2, <3>1, MildKeepsTyped, RunStep DEF Mild, Labels, Pre,
         Serving, Closing
  <2> QED
    BY <1>0, <1>6, <2>1, <2>2 DEF Admit, to
<1>7. CASE StoreFuture(g)
  <2>1. slot' = [slot EXCEPT ![c] = f] /\ UNCHANGED ctx
    BY <1>0, <1>7 DEF StoreFuture, f
  <2>2. Mild
    BY <1>0, <1>1, <2>1, UpdateIsMild DEF Alike, Lasting, Evident
  <2>3. /\ run[g] = "sent" /\ run' = [run EXCEPT ![g] = to] /\ Rest'
        /\ UNCHANGED <<resp, done, down, reported, resetting, epoch>>
    BY <1>0, <1>7 DEF StoreFuture, Rest, transport, to
  <2> QED
    BY <1>2, <2>2, <2>3, MildKeepsTyped, RunStep DEF Mild, Labels, Pre, Serving,
       Closing
<1>8. CASE Send(g)
  <2>0. /\ run[g] = "send" /\ Rest'
        /\ UNCHANGED <<done, reported, resetting, epoch>>
    BY <1>0, <1>8 DEF Send, Rest, transport
  <2>1. CASE /\ ctx' = Failed(slot, ctx, g) /\ run' = [run EXCEPT ![g] = to]
             /\ slot' = [slot EXCEPT ![c] = Released(s, g)]
             /\ UNCHANGED <<down, resp>>
    <3>1. Lasting(slot[c], Released(s, g)) /\ Released(s, g).typed = slot[c].typed
      BY <1>1, <1>4 DEF Alike, Lasting, Evident
    <3>2. Mild
      BY <1>0, <1>4, <1>5, <2>1, <3>1, UpdateIsMild
    <3> QED
      BY <1>2, <2>0, <2>1, <3>2, MildKeepsTyped, RunStep DEF Mild, Labels, Pre,
         Serving, Closing
  <2>2. CASE /\ slot' = [slot EXCEPT ![c] = s] /\ UNCHANGED ctx
             /\ down' = [down EXCEPT ![g] = "sent"]
             /\ resp' = [resp EXCEPT ![g] = "pending"]
             /\ run' = [run EXCEPT ![g] = "sent"]
    <3>1. Mild
      BY <1>0, <1>1, <2>2, UpdateIsMild DEF Alike, Lasting, Evident
    <3>2. /\ run'[g] = "sent" /\ down'[g] = "sent" /\ resp'[g] = "pending"
          /\ \A h \in Goals \ {g} : /\ run'[h] = run[h] /\ down'[h] = down[h]
                                    /\ resp'[h] = resp[h]
      BY <1>0, <2>2 DEF TypeOK
    <3>3. TypeOK'
      BY <1>0, <2>0, <2>2, <3>1 DEF TypeOK, Rest, Mild
    <3>4. Others(g)
      BY <2>0, <3>1, <3>2 DEF Others, Mild
    <3>5. Life(g)
      BY <2>0, <3>2 DEF Life, Pre, Closing, Ends
    <3>6. g \in Commands => Told1(g)
      BY <2>0, <2>2, <3>1, <3>2, MildKeepsTyped DEF Told1, Mild, Stays, Stands, TypedKept,
         Serving
    <3>7. Numbered'
      BY <2>0 DEF IInv, Numbered
    <3> QED
      BY <3>1, <3>3, <3>4, <3>5, <3>6, <3>7, MildKeepsTyped, OneGoal DEF Mild
  <2> QED
    BY <1>8, <2>1, <2>2 DEF Send, s, to
<1> QED
  BY <1>6, <1>7, <1>8 DEF Dispatch

(* The execute thread after the dispatch.                                  *)
LEMMA CloseSteps ==
  ASSUME IInv, NEW g \in Commands,
         \/ WallGuard(g) \/ Woken(g) \/ Unbind(g) \/ ReleaseOwner(g)
  PROVE  Step
<1> DEFINE c == CtlOf[g]
<1>0. /\ TypeOK /\ Rest /\ g \in Goals /\ c \in Controllers /\ slot[c] \in Slot
      /\ slot \in [Controllers -> Slot] /\ ctx \in [Commands -> Context]
      /\ \A d \in Controllers : Lasting(slot[d], slot[d])
      /\ \A h \in Commands : h \in Goals /\ Stays(ctx[h], ctx[h])
  <2>1. g \in Goals
    BY DEF Goals
  <2> QED
    BY <2>1, At
<1>1. CASE WallGuard(g)
  <2> DEFINE t == Latched(slot[c], g)
             S == [slot EXCEPT ![c] = t]
             X == Failed(slot, Flagged(ctx, g), g)
  <2>1. t \in Slot /\ Lasting(slot[c], t) /\ t.typed = slot[c].typed
    BY <1>0, LatchedOps
  <2>2. /\ Flagged(ctx, g) \in [Commands -> Context]
        /\ \A h \in Commands : Stays(ctx[h], Flagged(ctx, g)[h])
    BY <1>0 DEF Flagged, Context, Stays, Stands
  <2>3. run[g] = "wait" /\ ~ctx[g].terminal
    BY <1>1 DEF WallGuard
  <2>4. slot[c].typed = g
    BY <2>3 DEF IInv, Told, Serving
  <2>5. /\ X \in [Commands -> Context] /\ X[g].terminal
        /\ \A h \in Commands : Stays(Flagged(ctx, g)[h], X[h])
    BY <1>0, <2>2, <2>4, FailedOps
  <2>6. Cancelling({c}, S, X, FALSE)
    BY <1>0, <1>1 DEF WallGuard
  <2> HIDE DEF t, X
  <2>7. /\ S \in [Controllers -> Slot]
        /\ \A d \in Controllers : Lasting(slot[d], S[d]) /\ S[d].typed = slot[d].typed
    BY <1>0, <2>1
  <2>8. \A h \in Commands : Stays(ctx[h], X[h])
    BY <2>2, <2>5 DEF Stays, Stands
  <2> HIDE DEF S
  <2>9. /\ Mild /\ asking' \in [Goals -> 0..MaxAsking] /\ ctx'[g].terminal
    BY <1>0, <2>5, <2>6, <2>7, <2>8, CancellingIsMild, CancellingOps
  <2>10. /\ run' = [run EXCEPT ![g] = "finish"] /\ Rest'
         /\ UNCHANGED <<resp, done, down, reported, resetting, epoch>>
    BY <1>0, <1>1, <2>9 DEF WallGuard, Rest
  <2> QED
    BY <1>0, <2>3, <2>9, <2>10, MildKeepsTyped, RunStep DEF Mild, Labels, Pre,
       Serving, Closing
<1>2. CASE Woken(g)
  <2>1. /\ run[g] = "wait" /\ ctx[g].terminal /\ Rest' /\ SlotsLast /\ TypedKept
        /\ UNCHANGED <<slot, ctx, resp, done, down, reported, resetting, epoch>>
        /\ run' = [run EXCEPT ![g] = "finish"]
    BY <1>0, <1>2 DEF Woken, Rest, SlotsLast, TypedKept, transport
  <2> QED
    BY <1>0, <2>1, RunStep DEF Labels, Pre, Serving, Closing
<1>3. CASE Unbind(g)
  <2> DEFINE u == [slot[c] EXCEPT !.typed = None]
  <2>1. u \in Slot /\ Lasting(slot[c], u)
    BY <1>0 DEF Slot, Lasting, Evident
  <2>2. /\ slot' = slot \/ (slot[c].typed = g /\ slot' = [slot EXCEPT ![c] = u])
        /\ run[g] = "unbind" /\ run' = [run EXCEPT ![g] = "release"]
        /\ UNCHANGED <<ctx, resp, done, down, reported, resetting, epoch>> /\ Rest'
    BY <1>0, <1>3 DEF Unbind, Rest, transport
  <2> HIDE DEF u
  <2>3. slot' \in [Controllers -> Slot] /\ SlotsLast
    BY <1>0, <2>1, <2>2 DEF SlotsLast
  <2>4. TypedKept
    <3> SUFFICES ASSUME NEW h \in Commands, slot[CtlOf[h]].typed = h,
                        run'[h] \in Serving
                 PROVE  slot'[CtlOf[h]].typed = h
      BY DEF TypedKept
    <3>1. h # g
      BY <1>0, <2>2 DEF TypeOK, Serving
    <3>2. CtlOf[h] \in Controllers /\ (slot[c].typed = g => CtlOf[h] # c)
      BY <3>1, At DEF Goals
    <3> QED
      BY <1>0, <2>2, <3>2
  <2> QED
    BY <1>0, <2>2, <2>3, <2>4, RunStep DEF Labels, Pre, Serving, Closing
<1>4. CASE ReleaseOwner(g)
  <2>1. /\ Released(slot[c], g) \in Slot /\ Lasting(slot[c], Released(slot[c], g))
        /\ Released(slot[c], g).typed = slot[c].typed
    BY <1>0, SlotOps
  <2>2. /\ slot' = [slot EXCEPT ![c] = Released(slot[c], g)]
        /\ run[g] = "release" /\ run' = [run EXCEPT ![g] = "over"]
        /\ UNCHANGED <<ctx, resp, done, down, reported, resetting, epoch>> /\ Rest'
    BY <1>0, <1>4 DEF ReleaseOwner, Rest, transport
  <2>3. Mild
    BY <1>0, <2>1, <2>2, UpdateIsMild
  <2> QED
    BY <1>0, <2>2, <2>3, MildKeepsTyped, RunStep DEF Mild, Labels, Pre, Serving,
       Closing
<1> QED
  BY <1>1, <1>2, <1>3, <1>4

LEMMA AnswerSteps ==
  ASSUME IInv, NEW g \in Commands, Finish(g) \/ ExecuteFails(g)
  PROVE  Step
<1> DEFINE c == CtlOf[g]
<1>0. /\ TypeOK /\ Rest /\ g \in Goals /\ c \in Controllers /\ slot[c] \in Slot
      /\ slot \in [Controllers -> Slot] /\ ctx \in [Commands -> Context]
      /\ \A d \in Controllers : Lasting(slot[d], slot[d])
      /\ \A h \in Commands : h \in Goals /\ Stays(ctx[h], ctx[h])
  <2>1. g \in Goals
    BY DEF Goals
  <2> QED
    BY <2>1, At
<1>1. /\ run' = [run EXCEPT ![g] = "unbind"] /\ run[g] \notin Closing
      /\ UNCHANGED <<resp, done, down, resetting, epoch>>
  BY DEF Finish, ExecuteFails, Closing
<1>2. /\ run'[g] = "unbind" /\ \A h \in Goals \ {g} : run'[h] = run[h]
  BY <1>0, <1>1 DEF TypeOK
<1>3. Life(g) /\ Numbered'
  BY <1>1, <1>2 DEF Life, Pre, Closing, IInv, Numbered
<1>4. CASE Finish(g)
  <2>1. /\ ctx' = ctx /\ slot' = slot /\ Rest' /\ run[g] = "finish"
        /\ SlotsLast /\ TypedKept
    BY <1>0, <1>4 DEF Finish, Rest, SlotsLast, TypedKept, transport
  <2> DEFINE a == CASE ctx[g].success                            -> "succeeded"
                    [] g \in asked /\ ctx[g].status = "canceled" -> "canceled"
                    [] OTHER                                     -> "aborted"
  <2>2. /\ reported' = [reported EXCEPT ![g] = a]
        /\ a \in {"succeeded", "canceled", "aborted"}
        /\ a = "succeeded" => ctx[g].success
        /\ a = "canceled" => ctx[g].status = "canceled"
    <3>1. reported' = [reported EXCEPT ![g] = a]
      BY <1>4 DEF Finish
    <3>2. /\ a \in {"succeeded", "canceled", "aborted"}
          /\ a = "succeeded" => ctx[g].success
          /\ a = "canceled" => ctx[g].status = "canceled"
      OBVIOUS
    <3> QED
      BY <3>1, <3>2
  <2> HIDE DEF a
  <2>3. TypeOK'
    BY <1>0, <1>1, <2>1, <2>2 DEF TypeOK, Rest
  <2>4. Others(g)
    BY <1>0, <1>1, <1>2, <2>1, <2>2 DEF Others, TypeOK
  <2>5. ctx[g].terminal
    BY <2>1 DEF IInv, Told
  <2>6. Told1(g)
    BY <1>0, <1>1, <1>2, <2>1, <2>2, <2>5 DEF Told1, Stands, TypeOK, Serving, Closing
  <2> QED
    BY <1>0, <1>3, <2>1, <2>3, <2>4, <2>6, OneGoal
<1>5. CASE ExecuteFails(g)
  <2> DEFINE maybe == \/ slot[c].send # None \/ slot[c].handle # None
                      \/ slot[c].res # None \/ slot[c].cancel # None
             flagged == [ctx EXCEPT ![g].cancelled = @ \/ maybe]
             X == IF ctx[g].terminal THEN [flagged EXCEPT ![g].success = FALSE]
                                     ELSE Failed(slot, flagged, g)
             t == Latched(slot[c], g)
             S == [slot EXCEPT ![c] = t]
  <2>1. /\ flagged \in [Commands -> Context]
        /\ \A h \in Commands : /\ h # g => flagged[h] = ctx[h]
                               /\ flagged[h].terminal = ctx[h].terminal
                               /\ flagged[h].success = ctx[h].success
                               /\ flagged[h].status = ctx[h].status
    <3> HIDE DEF maybe
    <3>1. (ctx[g].cancelled \/ maybe) \in BOOLEAN
      OBVIOUS
    <3> QED
      BY <1>0, <3>1 DEF Context
  <2>2. run[g] \in {"bound", "wait", "finish"} /\ (ctx[g].terminal \/ slot[c].typed = g)
    BY <1>5 DEF ExecuteFails, IInv, Told, Serving
  <2> HIDE DEF flagged
  <2>3. /\ X \in [Commands -> Context] /\ X[g].terminal
        /\ X[g].success => ctx[g].success
        /\ X[g].status = "canceled" => ctx[g].status = "canceled"
        /\ \A h \in Commands \ {g} : Stays(ctx[h], X[h])
    <3>1. CASE ctx[g].terminal
      <4> DEFINE Z == [flagged EXCEPT ![g].success = FALSE]
      <4>1. /\ Z \in [Commands -> Context] /\ Z[g].terminal /\ ~Z[g].success
            /\ Z[g].status = ctx[g].status
            /\ \A h \in Commands \ {g} : Z[h] = ctx[h]
        BY <2>1, <3>1 DEF Context
      <4>2. X = Z
        BY <3>1
      <4> HIDE DEF X, Z
      <4> QED
        BY <4>1, <4>2 DEF Stays, Stands
    <3>2. CASE ~ctx[g].terminal
      <4> DEFINE Z == Failed(slot, flagged, g)
      <4>1. /\ Z \in [Commands -> Context]
            /\ \A h \in Commands : Stays(flagged[h], Z[h])
            /\ slot[CtlOf[g]].typed = g => Z[g].terminal
        BY <1>0, <2>1, FailedOps
      <4>2. X = Z
        BY <3>2
      <4> HIDE DEF X, Z
      <4> QED
        BY <2>1, <2>2, <3>2, <4>1, <4>2 DEF Stays, Stands
    <3> QED
      BY <3>1, <3>2
  <2>4. t \in Slot /\ Lasting(slot[c], t) /\ t.typed = slot[c].typed
    BY <1>0, LatchedOps
  <2>5. \/ Cancelling({c}, S, X, FALSE)
        \/ ctx' = X /\ UNCHANGED <<slot, asking>>
    BY <1>0, <1>5 DEF ExecuteFails, flagged
  <2> HIDE DEF t, X
  <2>6. /\ S \in [Controllers -> Slot]
        /\ \A d \in Controllers : Lasting(slot[d], S[d]) /\ S[d].typed = slot[d].typed
    BY <1>0, <2>4
  <2> HIDE DEF S
  <2>7. /\ slot' \in [Controllers -> Slot] /\ ctx' \in [Commands -> Context]
        /\ asking' \in [Goals -> 0..MaxAsking] /\ SlotsLast
        /\ \A d \in Controllers : slot'[d].typed = slot[d].typed
        /\ \A h \in Commands : /\ Stays(X[h], ctx'[h])
                               /\ ctx'[h].terminal = X[h].terminal
    <3>1. CASE Cancelling({c}, S, X, FALSE)
      <4>1. /\ slot' \in [Controllers -> Slot] /\ ctx' \in [Commands -> Context]
            /\ asking' \in [Goals -> 0..MaxAsking]
            /\ \A d \in Controllers : Alike(S[d], slot'[d])
            /\ \A h \in Commands : /\ Stays(X[h], ctx'[h])
                                   /\ ctx'[h].terminal = X[h].terminal
        BY <1>0, <2>3, <2>6, <3>1, CancellingOps
      <4>2. ASSUME NEW d \in Controllers
            PROVE  Lasting(slot[d], slot'[d]) /\ slot'[d].typed = slot[d].typed
        BY <2>6, <4>1 DEF Alike, Lasting, Evident
      <4> QED
        BY <4>1, <4>2 DEF SlotsLast
    <3>2. CASE ctx' = X /\ UNCHANGED <<slot, asking>>
      BY <1>0, <2>3, <3>2 DEF SlotsLast, Rest, Stays, Stands
    <3> QED
      BY <2>5, <3>1, <3>2
  <2>8. reported' = [reported EXCEPT ![g] = "aborted"] /\ Rest'
    BY <1>0, <1>5, <2>7 DEF ExecuteFails, Rest
  <2>9. TypeOK'
    BY <1>0, <1>1, <2>7, <2>8 DEF TypeOK, Rest
  <2>10. \A h \in Commands \ {g} : Stays(ctx[h], ctx'[h])
    BY <2>3, <2>7 DEF Stays, Stands
  <2>11. Others(g)
    BY <1>0, <1>1, <1>2, <2>8, <2>10 DEF Others, TypeOK
  <2>12. reported'[g] = "aborted"
    BY <1>0, <2>8 DEF TypeOK
  <2>13. Told1(g)
    BY <1>1, <1>2, <2>3, <2>7, <2>12 DEF Told1, Stays, Stands, Serving, Closing
  <2>14. TypedKept
    BY <2>7, GateConstants DEF TypedKept, Goals
  <2> QED
    BY <1>0, <1>3, <2>7, <2>9, <2>11, <2>13, <2>14, OneGoal
<1> QED
  BY <1>4, <1>5
-----------------------------------------------------------------------------
(* The threads of the responses and the results.                           *)

(* What a response or a result adds to the context of its command.         *)
Added(g, x, y) == /\ x.terminal => Stands(x, y)
                  /\ y.success => x.success \/ down[g] = "succeeded"
                  /\ y.status = "canceled" => x.status = "canceled" \/ ~Live(g)

LEMMA ReplyStep ==
  ASSUME IInv, NEW g \in Goals, NEW r, NEW d,
         r \in Answered \cup {"none", "pending", "taken", "clear", "blocked",
                              "over"},
         d \in Statuses \cup {"none", "pending", "release", "clear", "over"},
         resp' = [resp EXCEPT ![g] = r], done' = [done EXCEPT ![g] = d],
         UNCHANGED <<run, down, reported, resetting, epoch>>,
         resp[g] # "none" \/ done[g] # "none",
         r = "rejected" => down[g] = "refused", d \in Ends => d = down[g],
         slot' \in [Controllers -> Slot], ctx' \in [Commands -> Context],
         SlotsLast, \A c \in Controllers : slot'[c].typed = slot[c].typed, Rest',
         \A h \in Commands \ {g} : Stays(ctx[h], ctx'[h]),
         g \in Commands => Added(g, ctx[g], ctx'[g])
  PROVE  Step
<1>1. TypeOK /\ TypeOK'
  BY DEF IInv, TypeOK, Rest
<1>2. Numbered'
  BY DEF IInv, Numbered
<1>3. run[g] \notin Pre
  BY DEF IInv, Traced
<1>4. resp'[g] = r /\ done'[g] = d
  BY <1>1 DEF TypeOK
<1>5. Others(g)
  BY <1>1 DEF Others, TypeOK
<1>6. Life(g)
  BY <1>3, <1>4 DEF Life
<1>7. TypedKept
  BY GateConstants DEF TypedKept, Goals
<1>8. ASSUME g \in Commands
      PROVE  Told1(g)
  BY <1>3, <1>7, <1>8 DEF Told1, Stands, Added, TypedKept, Pre
<1> QED
  BY <1>1, <1>2, <1>5, <1>6, <1>7, <1>8, OneGoal

LEMMA StaysAdds ==
  ASSUME NEW g, NEW x, NEW y, Stays(x, y)
  PROVE  Added(g, x, y)
BY DEF Stays, Stands, Added
LEMMA ConfirmedOps ==
  ASSUME NEW s \in Slot, NEW g \in Goals, Tombstoned(s, g), down[g] \in Over
  PROVE  LET k == [s EXCEPT !.tomb.confirmed = TRUE] IN
         k \in Slot /\ Lasting(s, k) /\ k.typed = s.typed
<1> DEFINE k == [s EXCEPT !.tomb.confirmed = TRUE]
           b == [s.tomb EXCEPT !.confirmed = TRUE]
<1>1. s.tomb \in Tombstone /\ s.tomb # None /\ s.tomb.goal = g
  BY DEF Slot, Tombstoned
<1>2. b \in Tombstone /\ b # None /\ b.goal = g /\ b.confirmed
  BY <1>1, GateConstants DEF Tombstone
<1>3. k = [s EXCEPT !.tomb = b]
  OBVIOUS
<1> HIDE DEF b
<1>4. [s EXCEPT !.tomb = b] \in Slot
  BY <1>2 DEF Slot
<1>5. /\ [s EXCEPT !.tomb = b].tomb = b /\ [s EXCEPT !.tomb = b].owner = s.owner
      /\ [s EXCEPT !.tomb = b].typed = s.typed
  BY DEF Slot
<1> HIDE DEF k
<1>6. k \in Slot /\ Lasting(s, k) /\ k.typed = s.typed
  BY <1>1, <1>2, <1>3, <1>4, <1>5 DEF Lasting, Evident
<1> QED
  BY <1>6 DEF k

LEMMA ResponseSteps ==
  ASSUME IInv, NEW g \in Goals, GoalResponse(g) \/ HandleSet(g)
  PROVE  Step
<1> DEFINE c == CtlOf[g]
           s == [slot[c] EXCEPT !.send = None]
           k == [s EXCEPT !.tomb.confirmed = TRUE]
           e == [slot[c] EXCEPT !.handle = g]
           X == Failed(slot, ctx, g)
<1>0. /\ TypeOK /\ Rest /\ c \in Controllers /\ slot[c] \in Slot
      /\ slot \in [Controllers -> Slot] /\ ctx \in [Commands -> Context]
      /\ Lasting(slot[c], slot[c])
      /\ \A h \in Commands : h \in Goals /\ Stays(ctx[h], ctx[h])
  BY At
<1>1. done' = [done EXCEPT ![g] = done[g]] /\ done[g] \in
        Statuses \cup {"none", "pending", "release", "clear", "over"}
      /\ UNCHANGED <<run, down, reported, resetting, epoch>>
      /\ (done[g] \in Ends => done[g] = down[g])
  BY <1>0 DEF GoalResponse, HandleSet, TypeOK, IInv, Traced
<1>2. /\ s \in Slot /\ Alike(slot[c], s)
      /\ e \in Slot /\ Alike(slot[c], e)
  BY <1>0 DEF Slot, Alike
<1>3. /\ Released(s, g) \in Slot /\ Lasting(s, Released(s, g))
      /\ Released(s, g).typed = s.typed
  BY <1>2, SlotOps
<1>4. ASSUME Tombstoned(s, g), down[g] = "refused"
      PROVE  k \in Slot /\ Lasting(slot[c], k) /\ k.typed = slot[c].typed
  <2>1. s \in Slot /\ down[g] \in Over
    BY <1>2, <1>4 DEF Over
  <2> HIDE DEF s
  <2>2. k \in Slot /\ Lasting(s, k) /\ k.typed = s.typed
    BY <1>4, <2>1, ConfirmedOps
  <2> HIDE DEF k
  <2> QED
    BY <1>2, <2>2 DEF Alike, Lasting, Evident
<1>5. /\ X \in [Commands -> Context]
      /\ \A h \in Commands : Stays(ctx[h], X[h])
  BY <1>0, FailedOps
<1> HIDE DEF s, k, e, X
<1>6. CASE GoalResponse(g)
  <2>0. resp[g] \in Answered /\ resp[g] # "none" /\ Rest'
    <3>1. slot[c].typed = g => g \in Commands
      BY <1>0, GateConstants DEF Slot, Goals
    <3>2. captured' = captured \/ (slot[c].typed = g /\ captured' = captured \cup {g})
      BY <1>6, Zenon DEF GoalResponse
    <3>3. captured' \subseteq Commands
      BY <1>0, <3>1, <3>2 DEF Rest
    <3>4. fault' = TRUE \/ fault' = fault
      BY <1>6, Zenon DEF GoalResponse
    <3>5. /\ resp[g] \in Answered
          /\ UNCHANGED <<permitted, reserved, asked, asking, cancels, watch>>
      BY <1>6, Zenon DEF GoalResponse, transport
    <3> QED
      BY <1>0, <3>3, <3>4, <3>5 DEF Answered, Rest
  <2>1. CASE UNCHANGED <<slot, ctx>> /\ resp' = [resp EXCEPT ![g] = "over"]
    <3>1. SlotsLast
      BY <2>1, At DEF SlotsLast
    <3> QED
      BY <1>0, <1>1, <2>0, <2>1, <3>1, StaysAdds, ReplyStep
  <2>2. CASE /\ ctx' = X /\ slot' = [slot EXCEPT ![c] = Released(s, g)]
             /\ resp' = [resp EXCEPT ![g] = "over"]
    <3>1. Lasting(slot[c], Released(s, g)) /\ Released(s, g).typed = slot[c].typed
      BY <1>2, <1>3 DEF Alike, Lasting, Evident
    <3>2. Mild
      BY <1>0, <1>3, <1>5, <2>2, <3>1, UpdateIsMild
    <3> QED
      BY <1>0, <1>1, <2>0, <2>2, <3>2, StaysAdds, ReplyStep DEF Mild
  <2>3. CASE /\ resp[g] = "rejected" /\ Tombstoned(s, g) /\ UNCHANGED ctx
             /\ slot' = [slot EXCEPT ![c] = k]
             /\ resp' = [resp EXCEPT ![g] = "over"]
    <3>1. down[g] = "refused"
      BY <2>3 DEF IInv, Traced
    <3>2. Mild
      BY <1>0, <1>4, <2>3, <3>1, UpdateIsMild
    <3> QED
      BY <1>0, <1>1, <2>0, <2>3, <3>2, StaysAdds, ReplyStep DEF Mild
  <2>4. CASE /\ UNCHANGED ctx /\ slot' = [slot EXCEPT ![c] = s]
             /\ resp' = [resp EXCEPT ![g] = "taken"]
    <3>1. Mild
      BY <1>0, <1>2, <2>4, UpdateIsMild DEF Alike, Lasting, Evident
    <3> QED
      BY <1>0, <1>1, <2>0, <2>4, <3>1, StaysAdds, ReplyStep DEF Mild
  <2> QED
    BY <1>0, <1>6, <2>1, <2>2, <2>3, <2>4 DEF GoalResponse, s, k, X
<1>7. CASE HandleSet(g)
  <2>1. slot' = [slot EXCEPT ![c] = e] /\ UNCHANGED ctx
    BY <1>0, <1>7 DEF HandleSet, e
  <2>2. Mild
    BY <1>0, <1>2, <2>1, UpdateIsMild DEF Alike, Lasting, Evident
  <2>3. resp[g] # "none" /\ Rest'
        /\ (\/ resp' = [resp EXCEPT ![g] = "clear"]
            \/ resp' = [resp EXCEPT ![g] = "blocked"])
    BY <1>0, <1>7 DEF HandleSet, Rest, transport
  <2>4. g \in Commands => Added(g, ctx[g], ctx'[g])
    BY <2>2, StaysAdds DEF Mild
  <2>5. CASE resp' = [resp EXCEPT ![g] = "clear"]
    BY <1>0, <1>1, <2>1, <2>2, <2>3, <2>4, <2>5, ReplyStep DEF Mild
  <2>6. CASE resp' = [resp EXCEPT ![g] = "blocked"]
    BY <1>0, <1>1, <2>1, <2>2, <2>3, <2>4, <2>6, ReplyStep DEF Mild
  <2> QED
    BY <2>3, <2>5, <2>6
<1> QED
  BY <1>6, <1>7
(* The contexts of a command that fails after it may have moved; b: the    *)
(* callback holds on to its context.                                       *)
Lost(g, b) == Failed(slot, IF b THEN Noted(ctx, g) ELSE ctx, g)

LEMMA LostOps ==
  ASSUME TypeOK, NEW g \in Goals, NEW b
  PROVE  /\ Lost(g, b) \in [Commands -> Context]
         /\ \A h \in Commands : Stays(ctx[h], Lost(g, b)[h])
<1> DEFINE Y == IF b THEN Noted(ctx, g) ELSE ctx
<1>1. /\ Noted(ctx, g) \in [Commands -> Context]
      /\ \A h \in Commands : Stays(ctx[h], Noted(ctx, g)[h])
  BY Same, NotedOps
<1>2. /\ Y \in [Commands -> Context]
      /\ \A h \in Commands : Stays(ctx[h], Y[h])
  BY <1>1, Same
<1> HIDE DEF Y
<1>3. /\ Failed(slot, Y, g) \in [Commands -> Context]
      /\ \A h \in Commands : Stays(Y[h], Failed(slot, Y, g)[h])
  BY <1>2, Same, FailedOps
<1>4. Lost(g, b) = Failed(slot, Y, g)
  BY DEF Lost, Y
<1> QED
  BY <1>2, <1>3, <1>4 DEF Stays, Stands

(* A step that marks the command of g as uncertain and cancels.            *)
LEMMA LosingIsMild ==
  ASSUME TypeOK, NEW c \in Controllers, NEW g \in Goals, NEW s \in Slot, NEW b,
         Alike(slot[c], s),
         Cancelling({c}, [slot EXCEPT ![c] = Latched(s, g)], Lost(g, b), FALSE)
  PROVE  Mild /\ asking' \in [Goals -> 0..MaxAsking]
<1> DEFINE t == Latched(s, g)
           S == [slot EXCEPT ![c] = t]
<1>1. t \in Slot /\ Lasting(s, t) /\ t.typed = s.typed
  BY LatchedOps
<1>2. Cancelling({c}, S, Lost(g, b), FALSE)
  OBVIOUS
<1> HIDE DEF t
<1>3. Lasting(slot[c], t) /\ t.typed = slot[c].typed
  BY <1>1 DEF Alike, Lasting, Evident
<1>4. /\ S \in [Controllers -> Slot]
      /\ \A d \in Controllers : /\ Lasting(slot[d], S[d])
                                /\ S[d].typed = slot[d].typed
  BY <1>1, <1>3, Same
<1> HIDE DEF S
<1> QED
  BY <1>2, <1>4, LostOps, CancellingIsMild

LEMMA RequestSteps ==
  ASSUME IInv, NEW g \in Goals, RequestResult(g)
  PROVE  Step
<1> DEFINE c == CtlOf[g]
           s == [slot[c] EXCEPT !.res = g, !.deadline = TRUE]
           S == [slot EXCEPT ![c] = s]
           X == IF g \in captured THEN Noted(ctx, g) ELSE ctx
<1>0. /\ TypeOK /\ Rest /\ c \in Controllers /\ slot[c] \in Slot
      /\ slot \in [Controllers -> Slot] /\ ctx \in [Commands -> Context]
      /\ \A d \in Controllers : Lasting(slot[d], slot[d])
      /\ \A h \in Commands : h \in Goals /\ Stays(ctx[h], ctx[h])
  BY At
<1>1. /\ UNCHANGED <<run, down, reported, resetting, epoch, permitted, reserved,
                     asked, cancels, watch>>
      /\ captured' \subseteq Commands
      /\ resp[g] # "none" /\ resp' = [resp EXCEPT ![g] = "over"]
  BY <1>0 DEF RequestResult, Rest
<1>2. s \in Slot /\ Lasting(slot[c], s) /\ s.typed = slot[c].typed
  BY <1>0 DEF Slot, Lasting, Evident
<1>2a. /\ X \in [Commands -> Context]
       /\ \A h \in Commands : Stays(ctx[h], X[h])
  BY <1>0, NotedOps
<1> HIDE DEF s, X
<1>3. CASE /\ done' = [done EXCEPT ![g] = "pending"] /\ UNCHANGED fault
           /\ \/ Cancelling({c}, S, ctx, FALSE)
              \/ Cancelling({c}, S, X, FALSE)
  <2>1. /\ S \in [Controllers -> Slot]
        /\ \A d \in Controllers : /\ Lasting(slot[d], S[d])
                                  /\ S[d].typed = slot[d].typed
    BY <1>0, <1>2
  <2> HIDE DEF S
  <2>2. Mild /\ asking' \in [Goals -> 0..MaxAsking]
    <3>1. CASE Cancelling({c}, S, ctx, FALSE)
      BY <1>0, <2>1, <3>1, CancellingIsMild
    <3>2. CASE Cancelling({c}, S, X, FALSE)
      BY <1>0, <1>2a, <2>1, <3>2, CancellingIsMild
    <3> QED
      BY <1>3, <3>1, <3>2
  <2>3. Rest' /\ "pending" \notin Ends
    BY <1>0, <1>1, <1>3, <2>2 DEF Rest, Ends
  <2> QED
    BY <1>0, <1>1, <1>3, <2>2, <2>3, StaysAdds, ReplyStep DEF Mild
<1>4. CASE /\ done' = [done EXCEPT ![g] = "pending"]
           /\ UNCHANGED <<fault, ctx, asking>> /\ slot' = S
  <2>1. Mild
    BY <1>0, <1>2, <1>4, UpdateIsMild
  <2>2. Rest' /\ "pending" \notin Ends
    BY <1>0, <1>1, <1>4 DEF Rest, Ends
  <2> QED
    BY <1>0, <1>1, <1>4, <2>1, <2>2, StaysAdds, ReplyStep DEF Mild
<1>5. CASE /\ fault' = TRUE /\ UNCHANGED done
           /\ Cancelling({c}, [slot EXCEPT ![c] = Latched(slot[c], g)],
                         Lost(g, g \in captured), FALSE)
  <2>1. Mild /\ asking' \in [Goals -> 0..MaxAsking]
    BY <1>0, <1>5, LosingIsMild DEF Alike
  <2>2. Rest'
    BY <1>0, <1>1, <1>5, <2>1 DEF Rest
  <2>3. /\ done' = [done EXCEPT ![g] = done[g]]
        /\ done[g] \in Statuses \cup {"none", "pending", "release", "clear", "over"}
        /\ done[g] \in Ends => done[g] = down[g]
    BY <1>0, <1>5 DEF TypeOK, IInv, Traced
  <2> QED
    BY <1>0, <1>1, <2>1, <2>2, <2>3, StaysAdds, ReplyStep DEF Mild
<1> QED
  BY <1>0, <1>3, <1>4, <1>5 DEF RequestResult, Lost, s, X
LEMMA ResultSteps ==
  ASSUME IInv, NEW g \in Goals, ResultCallback(g)
  PROVE  Step
<1> DEFINE c == CtlOf[g]
           s == [slot[c] EXCEPT !.res = None, !.deadline = FALSE]
           k == [slot[c] EXCEPT !.tomb.confirmed = TRUE]
<1>0. /\ TypeOK /\ Rest /\ c \in Controllers /\ slot[c] \in Slot
      /\ slot \in [Controllers -> Slot] /\ ctx \in [Commands -> Context]
      /\ \A d \in Controllers : Lasting(slot[d], slot[d])
      /\ \A h \in Commands : h \in Goals /\ Stays(ctx[h], ctx[h])
  BY At
<1>1. /\ UNCHANGED <<run, down, reported, resetting, epoch, permitted, reserved,
                     asked, captured, watch>>
      /\ done[g] # "none" /\ resp' = [resp EXCEPT ![g] = resp[g]]
      /\ resp[g] \in Answered \cup {"none", "pending", "taken", "clear",
                                    "blocked", "over"}
      /\ resp[g] = "rejected" => down[g] = "refused"
  <2>1. UNCHANGED <<run, down, reported, resetting, epoch, permitted, reserved,
                    asked, captured, watch, resp>>
    BY DEF ResultCallback, ResultLate, ResultException, ResultTombstoned, Result,
           ResultRelease, ResultClear, transport
  <2>2. done[g] # "none"
    BY DEF ResultCallback, ResultLate, ResultException, ResultTombstoned, Result,
           ResultRelease, ResultClear, Statuses, Ends
  <2> QED
    BY <1>0, <2>1, <2>2 DEF TypeOK, IInv, Traced
<1>2. {"over", "release", "clear"} \cap Ends = {}
  BY DEF Ends
<1>3. CASE ResultLate(g)
  <2>1. /\ done' = [done EXCEPT ![g] = "over"] /\ Rest' /\ SlotsLast
        /\ UNCHANGED <<slot, ctx>>
    BY <1>0, <1>3 DEF ResultLate, Rest, SlotsLast, transport
  <2> QED
    BY <1>0, <1>1, <1>2, <2>1, StaysAdds, ReplyStep
<1>4. CASE ResultException(g)
  <2>1. s \in Slot /\ Alike(slot[c], s)
    BY <1>0 DEF Slot, Alike
  <2>2. /\ fault' = TRUE /\ done' = [done EXCEPT ![g] = "over"]
        /\ UNCHANGED cancels
        /\ Cancelling({c}, [slot EXCEPT ![c] = Latched(s, g)],
                      Lost(g, slot[c].typed = g), FALSE)
    BY <1>0, <1>4 DEF ResultException, Lost
  <2> HIDE DEF s
  <2>3. Mild /\ asking' \in [Goals -> 0..MaxAsking]
    BY <1>0, <2>1, <2>2, LosingIsMild
  <2>4. Rest'
    BY <1>0, <1>1, <2>2, <2>3 DEF Rest
  <2> QED
    BY <1>0, <1>1, <1>2, <2>2, <2>3, <2>4, StaysAdds, ReplyStep DEF Mild
<1>5. CASE ResultTombstoned(g)
  <2>0. done' = [done EXCEPT ![g] = "over"] /\ Rest' /\ UNCHANGED ctx
    BY <1>0, <1>5 DEF ResultTombstoned, Rest, transport
  <2>1. CASE UNCHANGED slot
    <3>1. SlotsLast
      BY <1>0, <2>1 DEF SlotsLast
    <3> QED
      BY <1>0, <1>1, <1>2, <2>0, <2>1, <3>1, StaysAdds, ReplyStep
  <2>2. CASE /\ Proven(done[g]) /\ slot' = [slot EXCEPT ![c] = Cleared(k)]
    <3>1. down[g] \in Over
      BY <2>2 DEF Proven, IInv, Traced, Ends, Over
    <3>2. k \in Slot /\ Lasting(slot[c], k) /\ k.typed = slot[c].typed
      BY <1>0, <1>5, <3>1, ConfirmedOps DEF ResultTombstoned
    <3> HIDE DEF k
    <3>3. Cleared(k) \in Slot /\ Alike(k, Cleared(k))
      BY <3>2, SlotOps
    <3>4. Lasting(slot[c], Cleared(k)) /\ Cleared(k).typed = slot[c].typed
      BY <3>2, <3>3 DEF Alike, Lasting, Evident
    <3>5. Mild
      BY <1>0, <2>0, <2>2, <3>3, <3>4, UpdateIsMild
    <3> QED
      BY <1>0, <1>1, <1>2, <2>0, <3>5, StaysAdds, ReplyStep DEF Mild
  <2> QED
    BY <1>0, <1>5, <2>1, <2>2 DEF ResultTombstoned, k
<1>6. CASE Result(g)
  <2> DEFINE cancelled == slot[c].typed = g /\ ctx[g].cancelled
             success == Success(g, cancelled)
             X == Ended(slot, ctx, g, done[g], TRUE, success)
  <2>1. /\ done[g] \in Ends \cup {"unknown"} /\ success \in BOOLEAN
        /\ done[g] \in Ends => done[g] = down[g]
    BY <1>6 DEF Result, Success, IInv, Traced
  <2>2. success => down[g] = "succeeded"
    BY <2>1 DEF Success, Ends
  <2>3. /\ done' = [done EXCEPT ![g] = "release"] /\ UNCHANGED slot
        /\ ctx' = X /\ fault' \in BOOLEAN /\ UNCHANGED transport
    BY <1>0, <1>6 DEF Result, Rest
  <2> HIDE DEF success
  <2>4. /\ X \in [Commands -> Context]
        /\ \A h \in Commands :
             /\ X[h].terminal \in BOOLEAN
             /\ ctx[h].terminal => X[h] = ctx[h]
             /\ h # g => X[h] = ctx[h]
             /\ X[h].success => ctx[h].success \/ success
             /\ X[h].status = "canceled" =>
                  ctx[h].status = "canceled" \/ done[g] = "canceled"
    <3>1. X \in [Commands -> Context]
      BY <1>0, <2>1 DEF Ended, Context
    <3>2. ASSUME NEW h \in Commands
          PROVE  /\ ctx[h].terminal => X[h] = ctx[h]
                 /\ h # g => X[h] = ctx[h]
                 /\ X[h].success => ctx[h].success \/ success
                 /\ X[h].status = "canceled" =>
                      ctx[h].status = "canceled" \/ done[g] = "canceled"
      BY <1>0, <2>1 DEF Ended, Context
    <3> HIDE DEF X
    <3> QED
      BY <3>1, <3>2 DEF Context
  <2> HIDE DEF X
  <2>5. done[g] = "canceled" => ~Live(g)
    BY <2>1 DEF Ends, Live
  <2>6. \A h \in Commands \ {g} : Stays(ctx[h], ctx'[h])
    BY <1>0, <2>3, <2>4
  <2>7. g \in Commands => Added(g, ctx[g], ctx'[g])
    BY <2>2, <2>3, <2>4, <2>5 DEF Added, Stands
  <2>8. Rest' /\ SlotsLast
    BY <1>0, <1>1, <2>3 DEF Rest, SlotsLast, transport
  <2> QED
    BY <1>0, <1>1, <1>2, <2>3, <2>4, <2>6, <2>7, <2>8, ReplyStep
<1>7. CASE ResultRelease(g) \/ ResultClear(g)
  <2>1. /\ Released(slot[c], g) \in Slot /\ Lasting(slot[c], Released(slot[c], g))
        /\ Released(slot[c], g).typed = slot[c].typed
        /\ Cleared(slot[c]) \in Slot /\ Alike(slot[c], Cleared(slot[c]))
    BY <1>0, SlotOps
  <2>2. /\ UNCHANGED ctx /\ Rest'
        /\ \/ /\ slot' = [slot EXCEPT ![c] = Released(slot[c], g)]
              /\ done' = [done EXCEPT ![g] = "clear"]
           \/ /\ slot' = [slot EXCEPT ![c] = Cleared(slot[c])]
              /\ done' = [done EXCEPT ![g] = "over"]
    BY <1>0, <1>7 DEF ResultRelease, ResultClear, Rest, transport
  <2>3. Mild
    BY <1>0, <2>1, <2>2, UpdateIsMild DEF Alike, Lasting, Evident
  <2>4. CASE done' = [done EXCEPT ![g] = "clear"]
    BY <1>0, <1>1, <1>2, <2>2, <2>3, <2>4, StaysAdds, ReplyStep DEF Mild
  <2>5. CASE done' = [done EXCEPT ![g] = "over"]
    BY <1>0, <1>1, <1>2, <2>2, <2>3, <2>5, StaysAdds, ReplyStep DEF Mild
  <2> QED
    BY <2>2, <2>4, <2>5
<1> QED
  BY <1>3, <1>4, <1>5, <1>6, <1>7 DEF ResultCallback
-----------------------------------------------------------------------------
(* The controllers, a reset, and every step.                               *)

LEMMA DownstreamSteps ==
  ASSUME IInv, NEW g \in Goals, Downstream(g)
  PROVE  Step
<1>0. /\ TypeOK /\ Rest /\ slot \in [Controllers -> Slot]
      /\ ctx \in [Commands -> Context]
      /\ \A d \in Controllers : Lasting(slot[d], slot[d])
      /\ \A h \in Commands : h \in Goals /\ Stays(ctx[h], ctx[h])
  BY At
<1>1. /\ UNCHANGED <<slot, ctx, run, reported, resetting, epoch>>
      /\ Rest' /\ SlotsLast
  BY <1>0 DEF Downstream, DownstreamStep, AnswerGoal, AnswerResult, Rest, SlotsLast,
              transport
<1>2. ASSUME NEW state \in Over \cup {"active"}, DownstreamStep(g, state)
      PROVE  Step
  <2>1. /\ down' = [down EXCEPT ![g] = state] /\ Live(g) /\ down[g] # "none"
        /\ UNCHANGED <<resp, done>>
    BY <1>2 DEF DownstreamStep, Live
  <2>2. down'[g] = state /\ \A h \in Goals \ {g} : down'[h] = down[h]
    BY <1>0, <2>1 DEF TypeOK
  <2>3. TypeOK'
    BY <1>0, <1>1, <2>1 DEF TypeOK, Rest
  <2>4. run[g] \notin Pre
    BY <2>1 DEF IInv, Traced
  <2>5. Others(g)
    BY <1>0, <1>1, <2>1, <2>2 DEF Others
  <2>6. Life(g)
    BY <1>1, <2>1, <2>2, <2>4 DEF Life
  <2>7. TypedKept /\ Numbered'
    BY <1>1 DEF TypedKept, IInv, Numbered
  <2>8. g \in Commands => Told1(g)
    BY <1>0, <1>1 DEF Told1, Stands
  <2> QED
    BY <1>1, <2>3, <2>5, <2>6, <2>7, <2>8, OneGoal
<1>3. CASE AnswerGoal(g)
  <2>1. PICK answer \in Answered :
          /\ answer = "rejected" => down[g] = "refused"
          /\ resp' = [resp EXCEPT ![g] = answer]
    BY <1>3 DEF AnswerGoal
  <2>2. /\ done' = [done EXCEPT ![g] = done[g]] /\ UNCHANGED down
        /\ done[g] \in Statuses \cup {"none", "pending", "release", "clear", "over"}
        /\ done[g] \in Ends => done[g] = down[g]
        /\ resp[g] # "none"
    BY <1>0, <1>3 DEF AnswerGoal, TypeOK, IInv, Traced
  <2> QED
    BY <1>0, <1>1, <2>1, <2>2, StaysAdds, ReplyStep
<1>4. CASE AnswerResult(g)
  <2>1. PICK answer \in Statuses :
          /\ answer \in Ends => answer = down[g]
          /\ done' = [done EXCEPT ![g] = answer]
    BY <1>4 DEF AnswerResult, Ends
  <2>2. /\ resp' = [resp EXCEPT ![g] = resp[g]] /\ UNCHANGED down
        /\ resp[g] \in Answered \cup {"none", "pending", "taken", "clear",
                                      "blocked", "over"}
        /\ resp[g] = "rejected" => down[g] = "refused"
        /\ done[g] # "none"
    BY <1>0, <1>4 DEF AnswerResult, TypeOK, IInv, Traced
  <2> QED
    BY <1>0, <1>1, <2>1, <2>2, StaysAdds, ReplyStep
<1> QED
  BY <1>2, <1>3, <1>4 DEF Downstream

LEMMA ResetEffect ==
  ASSUME IInv, ResetDone
  PROVE  Effect
<1>0. /\ TypeOK /\ Rest /\ Numbered /\ slot \in [Controllers -> Slot]
  BY Same DEF IInv
<1> DEFINE U(c) == [slot[c] EXCEPT !.owner = None, !.tomb = None,
                                   !.attempts = 0, !.retry = FALSE,
                                   !.exhausted = FALSE]
<1>1. /\ slot' = [c \in Controllers |-> U(c)]
      /\ UNCHANGED <<ctx, reserved, asked, reported, run, resp, captured, done,
                     transport, down>>
      /\ resetting /\ resetting' = FALSE /\ epoch' = epoch + 1
      /\ fault' = FALSE /\ permitted' = FALSE
  BY Zenon DEF ResetDone
<1>2. ASSUME NEW c \in Controllers
      PROVE  U(c) \in Slot /\ U(c).tomb = None /\ U(c).typed = slot[c].typed
  <2>1. 0 \in 0..(MaxAttempts + MaxAsking)
    BY GateConstants
  <2> QED
    BY <1>0, <2>1, ZenonT(60) DEF Slot
<1> HIDE DEF U
<1>3. ASSUME NEW c \in Controllers
      PROVE  slot'[c].tomb = None /\ slot'[c].typed = slot[c].typed
  BY <1>1, <1>2
<1>4. slot' \in [Controllers -> Slot]
  BY <1>1, <1>2
<1>5. /\ UNCHANGED <<ctx, reserved, asked, reported, run, resp, captured, done,
                     asking, cancels, watch, down>>
      /\ fault' = FALSE /\ permitted' = FALSE /\ resetting' = FALSE
      /\ epoch' \in 0..MaxResets
  BY <1>0, <1>1, GateConstants DEF transport, Numbered, TypeOK
<1>6. TypeOK' /\ Numbered'
  BY <1>0, <1>4, <1>5 DEF TypeOK, Numbered
<1>7. \A c \in Controllers : Evident(slot[c], slot'[c])
  BY <1>3 DEF Evident
<1>8. ASSUME NEW g \in Commands
      PROVE  Told1(g)
  <2>1. CtlOf[g] \in Controllers
    BY GateConstants DEF Goals
  <2> QED
    BY <1>3, <1>5, <2>1 DEF Told1, Stands
<1>9. ASSUME NEW g \in Goals
      PROVE  Life(g)
  BY <1>5 DEF Life
<1> QED
  BY <1>6, <1>7, <1>8, <1>9 DEF Effect

LEMMA CallbackSteps ==
  ASSUME IInv, Callback
  PROVE  Step
<1>0. Commands \subseteq Goals /\ Legacy \subseteq Goals
  BY DEF Goals
<1>1. ASSUME NEW g \in Commands, CommandStep(g)
      PROVE  Step
  BY <1>0, <1>1, ClaimSteps, CheckSteps, CalmSteps, CloseSteps, AnswerSteps
     DEF CommandStep, Execute
<1>2. ASSUME NEW g \in Legacy, LegacyRequest(g)
      PROVE  Step
  BY <1>0, <1>2, ClaimSteps
<1>3. ASSUME NEW g \in Goals, GoalStep(g)
      PROVE  Step
  BY <1>3, DispatchSteps, ResponseSteps, RequestSteps, ResultSteps, CancelSteps
     DEF GoalStep
<1>4. ASSUME NEW c \in Controllers, Watchdog(c)
      PROVE  Step
  BY <1>4, CalmSteps, WatchSteps DEF Watchdog
<1>5. CASE \/ \E bad \in BOOLEAN : Refused(bad)
           \/ \E allowed \in BOOLEAN : Permitted(allowed)
           \/ ResetRefused \/ ResetChecked
  BY <1>5, CalmSteps
<1>6. CASE \E f \in cancels : CancelResponse(f)
  BY <1>6, CancelSteps
<1> QED
  BY <1>1, <1>2, <1>3, <1>4, <1>5, <1>6 DEF Callback

LEMMA StepEffect ==
  ASSUME IInv, [Next]_vars
  PROVE  /\ Effect
         /\ ResetDone \/ SlotsLast
<1>1. CASE UNCHANGED vars
  <2>1. Mild
    BY <1>1, Same DEF IInv, vars, Mild, SlotsLast
  <2>2. /\ Rest' /\ resetting' \in BOOLEAN /\ Numbered'
        /\ UNCHANGED <<run, resp, done, down, reported, epoch>>
    BY <1>1, Same DEF IInv, TypeOK, vars, Rest, Numbered, transport
  <2> QED
    BY <2>1, <2>2, CalmStep DEF Step
<1>2. CASE Callback
  BY <1>2, CallbackSteps DEF Step
<1>3. CASE ResetDone
  BY <1>3, ResetEffect
<1>4. CASE \E g \in Goals : Downstream(g)
  BY <1>4, DownstreamSteps DEF Step
<1> QED
  BY <1>1, <1>2, <1>3, <1>4 DEF Next

LEMMA InitIInv == Init => IInv
<1> SUFFICES ASSUME Init
             PROVE  IInv
  OBVIOUS
<1> USE GateConstants
<1>1. Idle \in Slot /\ Idle.tomb = None
  <2>1. 0 \in 0..(MaxAttempts + MaxAsking)
    OBVIOUS
  <2> QED
    BY <2>1 DEF Idle, Slot
<1>2. TypeOK
  <2>1. ctx \in [Commands -> Context]
    BY DEF Init, Context
  <2>2. slot \in [Controllers -> Slot]
    BY <1>1 DEF Init
  <2>3. asking \in [Goals -> 0..MaxAsking] /\ epoch \in 0..MaxResets
    BY DEF Init
  <2> QED
    BY <2>1, <2>2, <2>3 DEF Init, TypeOK
<1>3. Numbered /\ Traced /\ ReportIsProven
  BY DEF Init, Numbered, Traced, ReportIsProven, Ends, Goals
<1>4. Told
  BY DEF Init, Told, Serving, Goals
<1>5. Buried
  BY <1>1 DEF Init, Buried
<1> QED
  BY <1>2, <1>3, <1>4, <1>5 DEF IInv

LEMMA Invariance == Spec => []IInv
<1>1. IInv /\ [Next]_vars => IInv'
  BY StepEffect, EffectKeeps
<1> QED
  BY <1>1, InitIInv, PTL DEF Spec
-----------------------------------------------------------------------------
(* What the gate promises.                                                 *)

(* Whatever the transport does, the state of the gate is well typed.       *)
THEOREM Typed == Spec => []TypeOK
BY Invariance, PTL DEF IInv

(* A command is reported succeeded only if its trajectory was carried out, *)
(* and canceled only if nothing of it moves any more (_on_result,          *)
(* _complete_typed, _execute_typed): for any number of commands, threads   *)
(* and cancel attempts, any failures, and also when a reset may be         *)
(* overtaken between its two lock regions.                                 *)
THEOREM ReportsAreProven == Spec => []ReportIsProven
BY Invariance, PTL DEF IInv

(* A tombstone that _on_reset may remove is that of a goal that is over    *)
(* downstream: only a rejection or a terminal status confirms it.          *)
THEOREM ConfirmedAreOver == Spec => []ConfirmedIsOver
<1>1. IInv => ConfirmedIsOver
  BY DEF IInv, Buried, ConfirmedIsOver, Over, Live
<1> QED
  BY <1>1, Invariance, PTL

(* The answer of a finished command, and what its context records of the   *)
(* motion, stand against every late response, result, cancel, watchdog     *)
(* tick and reset; a late callback may only add a cancel reason.           *)
THEOREM AnswersStand == Spec => AnswerStands
<1>1. ASSUME IInv, [Next]_vars, NEW g \in Commands, reported[g] # "none"
      PROVE  Stands(ctx[g], ctx'[g]) /\ reported'[g] = reported[g]
  BY <1>1, StepEffect DEF Effect, Told1, Stands, IInv, Told
<1>2. IInv /\ [Next]_vars =>
        [\A g \in Commands : reported[g] # "none" =>
           Stands(ctx[g], ctx'[g]) /\ reported'[g] = reported[g]]_vars
  BY <1>1
<1> QED
  BY <1>2, Invariance, PTL DEF Spec, AnswerStands

-----------------------------------------------------------------------------
(* What a reset may do, when no callback comes between its lock regions.   *)

Quiet == resetting => ~Active

LEMMA ResettingKept ==
  ASSUME Callback \/ \E g \in Goals : Downstream(g)
  PROVE  UNCHANGED epoch /\ (resetting' = resetting \/ ResetChecked)
<1>1. ASSUME NEW g \in Commands, CommandStep(g)
      PROVE  UNCHANGED <<resetting, epoch>>
  BY <1>1 DEF CommandStep, Execute, TypedGoal, TypedCancel, Bind, Check, WaitCancel,
     Woken, Finish, Unbind, ReleaseOwner, WallGuard, ExecuteFails
<1>2. ASSUME NEW g \in Legacy, LegacyRequest(g)
      PROVE  UNCHANGED <<resetting, epoch>>
  BY <1>2 DEF LegacyRequest
<1>3. ASSUME NEW g \in Goals, GoalStep(g)
      PROVE  UNCHANGED <<resetting, epoch>>
  BY <1>3 DEF GoalStep, Dispatch, Admit, Send, StoreFuture, GoalResponse, HandleSet,
     RequestResult, ResultCallback, ResultLate, ResultException, ResultTombstoned,
     Result, ResultRelease, ResultClear, SendCancel
<1>4. ASSUME NEW c \in Controllers, Watchdog(c)
      PROVE  UNCHANGED <<resetting, epoch>>
  <2>1. CASE WatchBlocked(c) \/ WatchSend(c) \/ SendTimeout(c)
    BY <2>1 DEF WatchBlocked, WatchSend, SendTimeout
  <2>2. CASE WatchResult(c)
    BY <2>2 DEF WatchResult
  <2>3. CASE WatchCancel(c) \/ WatchRetry(c)
    BY <2>3 DEF WatchCancel, WatchRetry
  <2> QED
    BY <1>4, <2>1, <2>2, <2>3 DEF Watchdog
<1>5. ASSUME NEW bad \in BOOLEAN, Refused(bad) \/ Permitted(bad) \/ ResetRefused
      PROVE  UNCHANGED <<resetting, epoch>>
  BY <1>5 DEF Refused, Permitted, ResetRefused
<1>6. ASSUME NEW f, CancelResponse(f)
      PROVE  UNCHANGED <<resetting, epoch>>
  BY <1>6 DEF CancelResponse
<1>7. ASSUME NEW g \in Goals, Downstream(g)
      PROVE  UNCHANGED <<resetting, epoch>>
  BY <1>7 DEF Downstream, DownstreamStep, AnswerGoal, AnswerResult
<1>8. ResetChecked => UNCHANGED epoch
  BY DEF ResetChecked
<1> QED
  BY <1>1, <1>2, <1>3, <1>4, <1>5, <1>6, <1>7, <1>8 DEF Callback

LEMMA QuietKept ==
  ASSUME ~ResetGap, Quiet, [Next]_vars
  PROVE  Quiet'
<1>1. CASE UNCHANGED vars
  BY <1>1 DEF Quiet, vars, Active, Tombstoned
<1>2. CASE ResetDone
  <2>1. resetting' = FALSE
    BY <1>2, Zenon DEF ResetDone
  <2> QED
    BY <2>1 DEF Quiet
<1>3. CASE ~resetting /\ Callback
  <2>1. CASE resetting' = resetting
    BY <1>3, <2>1 DEF Quiet
  <2>2. CASE ResetChecked
    BY <2>2 DEF ResetChecked, Quiet, Active, Tombstoned
  <2> QED
    BY <1>3, <2>1, <2>2, ResettingKept
<1>4. CASE \E g \in Goals : Downstream(g)
  <2>1. UNCHANGED <<slot, reserved, resetting>>
    BY <1>4 DEF Downstream, DownstreamStep, AnswerGoal, AnswerResult
  <2> QED
    BY <2>1 DEF Quiet, Active, Tombstoned
<1> QED
  BY <1>1, <1>2, <1>3, <1>4 DEF Next

(* Only a reset removes a tombstone, and only a confirmed one; until then  *)
(* its command stays the owner (docstring of _TypedTombstone).  Here the   *)
(* two lock regions of _on_reset must not be overtaken.                    *)
THEOREM TombstonesStay == ~ResetGap /\ Spec => TombstoneStays
<1> DEFINE Kept(c) ==
      slot[c].tomb # None =>
        IF epoch' = epoch
          THEN /\ slot'[c].tomb # None
               /\ slot'[c].tomb.goal = slot[c].tomb.goal
               /\ slot[c].tomb.confirmed => slot'[c].tomb.confirmed
               /\ slot[c].owner = slot[c].tomb.goal
                    => slot'[c].owner = slot[c].owner
          ELSE slot[c].tomb.confirmed
<1>1. ASSUME ~ResetGap, IInv, Quiet, [Next]_vars, NEW c \in Controllers
      PROVE  Kept(c)
  <2>1. CASE ResetDone
    <3>1. epoch' # epoch
      <4>1. epoch' = epoch + 1
        BY <2>1, Zenon DEF ResetDone
      <4>2. epoch \in Nat
        BY <1>1, GateConstants DEF IInv, TypeOK
      <4> QED
        BY <4>1, <4>2
    <3>2. slot[c].tomb # None => slot[c].tomb.confirmed
      <4>1. resetting
        BY <2>1, Zenon DEF ResetDone
      <4> QED
        BY <1>1, <4>1 DEF Quiet, Active
    <3> QED
      BY <3>1, <3>2
  <2>2. CASE ~ResetDone
    <3>1. UNCHANGED epoch
      BY <1>1, <2>2, ResettingKept DEF Next, vars
    <3>2. Lasting(slot[c], slot'[c])
      BY <1>1, <2>2, StepEffect DEF SlotsLast
    <3> QED
      BY <3>1, <3>2 DEF Lasting
  <2> QED
    BY <2>1, <2>2
<1> HIDE DEF Kept
<1>2. ~ResetGap /\ Spec => []Quiet
  <2>1. Init => Quiet
    BY DEF Init, Quiet
  <2>2. ~ResetGap /\ Quiet /\ [Next]_vars => Quiet'
    BY QuietKept
  <2>3. CASE ResetGap
    BY <2>3
  <2>4. CASE ~ResetGap
    <3>1. Quiet /\ [Next]_vars => Quiet'
      BY <2>2, <2>4
    <3> QED
      BY <2>1, <3>1, PTL DEF Spec
  <2> QED
    BY <2>3, <2>4
<1>3. CASE ~ResetGap
  <2>1. IInv /\ Quiet /\ [Next]_vars => [\A c \in Controllers : Kept(c)]_vars
    BY <1>1, <1>3
  <2>2. Spec => [][\A c \in Controllers : Kept(c)]_vars
    BY <1>2, <1>3, <2>1, Invariance, PTL DEF Spec
  <2> QED
    BY <2>2 DEF TombstoneStays, Kept
<1> QED
  BY <1>3
-----------------------------------------------------------------------------
(* Who owns a controller, while no goal response fails for a goal that was *)
(* accepted, every result has a status, and no execute thread raises.      *)

Faithful == ~ResetGap /\ Failures \cap {"response", "unknown", "execute"} = {}

(* The gate still works for g: it is claimed and was not sent, or it may   *)
(* move, or its goal response is under way.                                *)
Engaged(g) == \/ run[g] \in {"reserved", "bound", "admit", "send"} \/ Live(g)
              \/ resp[g] \in Answered \cup {"pending", "taken", "clear", "blocked"}

(* Nothing keeps the execute thread of g from giving up the controller.    *)
Spent(g) == ctx[g].terminal \/ run[g] \in Closing \cup {"finish"}

Claimed == \A g \in Goals : Engaged(g) => slot[CtlOf[g]].owner = g

(* Such a thread finds a tombstone, and the tombstone is its own.          *)
Marked ==
  \A g \in Commands : Engaged(g) =>
    \/ Tombstoned(slot[CtlOf[g]], g)
    \/ slot[CtlOf[g]].tomb = None /\ ~Spent(g)

(* Only a reserved command is bound to a controller, and a controller has  *)
(* one reservation.                                                        *)
Seated ==
  /\ \A c \in Controllers : slot[c].typed # None =>
       slot[c].typed \in reserved /\ CtlOf[slot[c].typed] = c
  /\ \A g \in Commands :
       /\ run[g] \in {"idle", "reserved"} =>
            ~ctx[g].terminal /\ slot[CtlOf[g]].typed # g
       /\ run[g] = "reserved" => g \in reserved
  /\ \A g, h \in reserved : CtlOf[g] = CtlOf[h] => g = h

(* The result of g is asked for when its response has been dealt with, and *)
(* the owner is released for a result that ended it.                       *)
Regular(g) ==
  /\ done[g] # "none" => resp[g] = "over"
  /\ done[g] = "release" => ~Live(g)
  /\ done[g] # "unknown" /\ resp[g] # "failed"
Served == \A g \in Goals : Regular(g)

Sealed == \A c \in Controllers :
  slot[c].tomb # None /\ slot[c].tomb.confirmed => resp[slot[c].tomb.goal] = "over"

Orderly == Claimed /\ Marked /\ Seated /\ Served /\ Sealed

-----------------------------------------------------------------------------
(* A new tombstone is that of the bound command or of the owner.           *)
Blames(s, t) ==
  \/ t.tomb = s.tomb
  \/ /\ s.tomb = None /\ t.tomb # None /\ ~t.tomb.confirmed
     /\ t.tomb.goal \in {s.typed, s.owner}

Confirms(s, t) ==
  /\ s.tomb # None /\ t.tomb # None /\ t.tomb.goal = s.tomb.goal
  /\ resp'[s.tomb.goal] = "over"

Frees ==
  /\ \A c \in Controllers :
       Blames(slot[c], slot'[c]) \/ Confirms(slot[c], slot'[c])
  /\ \A g \in Goals :
       /\ Engaged(g)' => Engaged(g) /\ slot'[CtlOf[g]].owner = slot[CtlOf[g]].owner
       /\ resp[g] = "over" => resp'[g] = "over"
       /\ Regular(g)'
  /\ \A g \in Commands :
       Engaged(g)' /\ Spent(g)' => Spent(g) \/ slot'[CtlOf[g]].tomb # None

Sits ==
  /\ UNCHANGED reserved
  /\ \A c \in Controllers : slot'[c].typed = slot[c].typed
  /\ \A g \in Commands :
       /\ run'[g] \in {"idle", "reserved"} => run'[g] = run[g]
       /\ ctx'[g].terminal => \/ ctx[g].terminal \/ slot[CtlOf[g]].typed = g
                              \/ run'[g] \notin {"idle", "reserved"}

(* The command that the gate works for is the one that is bound or owns.   *)
LEMMA BlamedIsEngaged ==
  ASSUME IInv, Orderly, NEW g \in Commands, Engaged(g), slot[CtlOf[g]].tomb = None,
         slot[CtlOf[g]].typed # None
  PROVE  slot[CtlOf[g]].typed = g
<1>1. g \in Goals /\ CtlOf[g] \in Controllers
  BY GateConstants DEF Goals
<1>2. ~Spent(g)
  BY <1>1 DEF Orderly, Marked, Tombstoned
<1>3. run[g] \in Serving \cup {"reserved"}
  <2>1. run[g] \in Pre \cup Serving
    BY <1>1, <1>2 DEF IInv, TypeOK, Spent, Pre, Serving, Closing
  <2>2. run[g] # "idle"
    BY <1>1 DEF IInv, Traced, Pre, Engaged, Live, Answered
  <2> QED
    BY <2>1, <2>2 DEF Pre, Serving
<1>4. CASE run[g] \in Serving
  BY <1>2, <1>4 DEF IInv, Told, Spent
<1>5. CASE run[g] = "reserved"
  BY <1>1, <1>5 DEF Orderly, Seated
<1> QED
  BY <1>3, <1>4, <1>5

LEMMA FreesKeeps ==
  ASSUME IInv, Orderly, Frees, TypeOK'
  PROVE  Claimed' /\ Marked' /\ Served' /\ Sealed'
<1>1. Claimed'
  BY DEF Orderly, Claimed, Frees
<1>2. Served'
  BY DEF Frees, Served
<1>3. Sealed'
  <2> SUFFICES ASSUME NEW c \in Controllers, slot'[c].tomb # None,
                      slot'[c].tomb.confirmed
               PROVE  resp'[slot'[c].tomb.goal] = "over"
    BY DEF Sealed
  <2>1. CASE Confirms(slot[c], slot'[c])
    BY <2>1 DEF Confirms
  <2>2. CASE slot'[c].tomb = slot[c].tomb
    <3>1. slot[c].tomb.goal \in Goals
      BY <2>2 DEF IInv, TypeOK, Slot, Tombstone
    <3> QED
      BY <2>2, <3>1 DEF Orderly, Sealed, Frees
  <2> QED
    BY <2>1, <2>2 DEF Frees, Blames
<1>4. Marked'
  <2> SUFFICES ASSUME NEW g \in Commands, Engaged(g)'
               PROVE  \/ Tombstoned(slot'[CtlOf[g]], g)
                      \/ slot'[CtlOf[g]].tomb = None /\ ~Spent(g)'
    BY DEF Marked
  <2> DEFINE c == CtlOf[g]
  <2>1. g \in Goals /\ c \in Controllers /\ Engaged(g) /\ slot[c].owner = g
    BY GateConstants DEF Goals, Frees, Orderly, Claimed
  <2>2. Spent(g)' => Spent(g) \/ slot'[c].tomb # None
    BY DEF Frees
  <2>3. Tombstoned(slot[c], g) \/ (slot[c].tomb = None /\ ~Spent(g))
    BY <2>1 DEF Orderly, Marked
  <2>4. CASE slot'[c].tomb = slot[c].tomb
    BY <2>2, <2>3, <2>4 DEF Tombstoned
  <2>5. CASE Confirms(slot[c], slot'[c])
    BY <2>3, <2>5 DEF Confirms, Tombstoned
  <2>6. CASE /\ slot[c].tomb = None /\ slot'[c].tomb # None
             /\ slot'[c].tomb.goal \in {slot[c].typed, slot[c].owner}
    <3>1. slot[c].typed \in {None, g}
      BY <2>1, <2>6, BlamedIsEngaged
    <3>2. slot'[c].tomb.goal # None
      <4>1. slot'[c].tomb.goal \in Goals
        BY <2>1, <2>6 DEF TypeOK, Slot, Tombstone
      <4> QED
        BY <4>1, GateConstants
    <3> QED
      BY <2>1, <2>6, <3>1, <3>2 DEF Tombstoned
  <2> QED
    BY <2>1, <2>4, <2>5, <2>6 DEF Frees, Blames
<1> QED
  BY <1>1, <1>2, <1>3, <1>4

LEMMA SitsKeeps ==
  ASSUME IInv, Orderly, Sits
  PROVE  Seated'
<1>1. \A c \in Controllers : slot'[c].typed # None =>
        slot'[c].typed \in reserved' /\ CtlOf[slot'[c].typed] = c
  BY DEF Orderly, Seated, Sits
<1>2. ASSUME NEW g \in Commands
      PROVE  /\ run'[g] \in {"idle", "reserved"} =>
                  ~ctx'[g].terminal /\ slot'[CtlOf[g]].typed # g
             /\ run'[g] = "reserved" => g \in reserved'
  <2>1. CtlOf[g] \in Controllers
    BY GateConstants DEF Goals
  <2> QED
    BY <2>1 DEF Orderly, Seated, Sits
<1>3. \A g, h \in reserved' : CtlOf[g] = CtlOf[h] => g = h
  BY DEF Orderly, Seated, Sits
<1> QED
  BY <1>1, <1>2, <1>3 DEF Seated
-----------------------------------------------------------------------------
(* What the helpers leave of a slot: its owner and its bound command; a    *)
(* tombstone they add is that of one of the two.                           *)
Holds(s, t) == t.owner = s.owner /\ t.typed = s.typed /\ Blames(s, t)

LEMMA AlikeHolds ==
  ASSUME NEW s, NEW t, NEW u
  PROVE  /\ Alike(s, t) => Holds(s, t)
         /\ Holds(s, t) /\ Alike(t, u) => Holds(s, u)
         /\ Alike(s, t) /\ Holds(t, u) => Holds(s, u)
BY DEF Alike, Holds, Blames

LEMMA LatchedHolds ==
  ASSUME NEW s \in Slot, NEW g \in {s.typed, s.owner}
  PROVE  Holds(s, Latched(s, g)) /\ (g # None => Latched(s, g).tomb # None)
<1> DEFINE b == [goal |-> g, confirmed |-> FALSE]
<1>1. CASE g = None
  BY <1>1 DEF Latched, Holds, Blames
<1>2. CASE g # None
  <2>1. g \in Goals
    BY <1>2 DEF Slot, Goals
  <2>2. b \in Tombstone /\ b # None /\ b.confirmed = FALSE /\ b.goal = g
    BY <2>1, NewTombstone
  <2>3. Latched(s, g) = IF s.tomb # None THEN s ELSE [s EXCEPT !.tomb = b]
    BY <1>2 DEF Latched
  <2> HIDE DEF b
  <2>4. LET t == [s EXCEPT !.tomb = b]
        IN  t.tomb = b /\ t.typed = s.typed /\ t.owner = s.owner
    BY DEF Slot
  <2> QED
    BY <2>2, <2>3, <2>4 DEF Holds, Blames
<1> QED
  BY <1>1, <1>2

LEMMA CulpritHolds ==
  ASSUME NEW s \in Slot
  PROVE  /\ Holds(s, Latched(s, Culprit(s)))
         /\ s.typed # None => Latched(s, Culprit(s)).tomb # None
BY LatchedHolds DEF Culprit

LEMMA CancelFailedHolds ==
  ASSUME NEW s \in Slot
  PROVE  /\ Holds(s, CancelFailed(s))
         /\ ~Retryable(s) /\ s.typed # None => CancelFailed(s).tomb # None
<1> DEFINE r == [s EXCEPT !.requested = FALSE, !.cancel = None, !.deadline = FALSE]
           u == [r EXCEPT !.exhausted = TRUE, !.retry = FALSE]
<1>1. /\ Alike(s, [r EXCEPT !.retry = TRUE])
      /\ u \in Slot /\ Alike(s, u)
  BY GateConstants, ZenonT(60) DEF Slot, Alike
<1>2. CancelFailed(s) = IF Retryable(s) THEN [r EXCEPT !.retry = TRUE]
                                        ELSE Latched(u, Culprit(s))
  BY DEF CancelFailed
<1> HIDE DEF u, r
<1>3. Culprit(u) = Culprit(s)
  BY <1>1 DEF Culprit, Alike
<1>4. CASE Retryable(s)
  BY <1>1, <1>2, <1>4, AlikeHolds
<1>5. CASE ~Retryable(s)
  <2>1. /\ Holds(u, Latched(u, Culprit(s)))
        /\ u.typed # None => Latched(u, Culprit(s)).tomb # None
    BY <1>1, <1>3, CulpritHolds
  <2>2. u.typed = s.typed
    BY <1>1 DEF Alike
  <2> QED
    BY <1>1, <1>2, <1>5, <2>1, <2>2, AlikeHolds
<1> QED
  BY <1>4, <1>5

(* A context is completed only for the command that is bound.              *)
LEMMA EndedOnly ==
  ASSUME NEW S, NEW X \in [Commands -> Context], NEW g, NEW status,
         NEW observed, NEW success, NEW h \in Commands
  PROVE  Ended(S, X, g, status, observed, success)[h].terminal =>
           X[h].terminal \/ (h = g /\ S[CtlOf[h]].typed = h)
BY DEF Ended, Context

LEMMA FailedOnly ==
  ASSUME NEW S, NEW X \in [Commands -> Context], NEW g, NEW h \in Commands
  PROVE  Failed(S, X, g)[h].terminal =>
           X[h].terminal \/ (h = g /\ S[CtlOf[h]].typed = h)
BY DEF Ended, Failed, Context

LEMMA FlaggedOnly ==
  ASSUME NEW X \in [Commands -> Context], NEW g, NEW h \in Commands
  PROVE  Flagged(X, g)[h].terminal = X[h].terminal
BY DEF Flagged, Context

HoldAll(S) == \A c \in Controllers : Holds(slot[c], S[c])

LEMMA CancellingHolds ==
  ASSUME TypeOK, NEW C, NEW S \in [Controllers -> Slot],
         NEW X \in [Commands -> Context], NEW r \in BOOLEAN,
         Cancelling(C, S, X, r), HoldAll(S)
  PROVE  /\ \A c \in Controllers : Holds(slot[c], slot'[c])
                                   /\ slot'[c].tomb = S[c].tomb
         /\ \A g \in Commands : ctx'[g].terminal = X[g].terminal
<1>1. /\ \A c \in Controllers : Alike(S[c], slot'[c])
      /\ \A g \in Commands : ctx'[g].terminal = X[g].terminal
  BY CancellingOps
<1> QED
  BY <1>1, AlikeHolds DEF Alike, HoldAll

(* A command that is completed unproven is bound and leaves a tombstone.   *)
Gives(g) == ctx'[g].terminal =>
  ctx[g].terminal \/ (slot[CtlOf[g]].typed = g /\ slot'[CtlOf[g]].tomb # None)

LEMMA CancelFailureHolds ==
  ASSUME TypeOK, Seated, NEW c \in Controllers, NEW s \in Slot,
         CancelFailure(c, s), Alike(slot[c], s)
  PROVE  /\ \A d \in Controllers : Holds(slot[d], slot'[d])
         /\ \A g \in Commands : Gives(g)
<1>1. /\ Holds(s, CancelFailed(s))
      /\ ~Retryable(s) /\ s.typed # None => CancelFailed(s).tomb # None
  BY CancelFailedHolds
<1>2. slot \in [Controllers -> Slot] /\ ctx \in [Commands -> Context]
  BY DEF TypeOK
<1>3. slot' = [slot EXCEPT ![c] = CancelFailed(s)]
  BY DEF CancelFailure
<1>4. Holds(slot[c], CancelFailed(s))
  BY <1>1, AlikeHolds
<1>5. ASSUME NEW d \in Controllers
      PROVE  Holds(slot[d], slot'[d])
  BY <1>2, <1>3, <1>4 DEF Holds, Blames
<1>6. ASSUME NEW g \in Commands, ctx'[g].terminal, ~ctx[g].terminal
      PROVE  slot[CtlOf[g]].typed = g /\ slot'[CtlOf[g]].tomb # None
  <2>1. ~Retryable(s)
    BY <1>6 DEF CancelFailure
  <2>2. ctx' = Failed([slot EXCEPT ![c] = s], ctx, s.typed)
    BY <2>1 DEF CancelFailure
  <2>3. g = s.typed
    <3> DEFINE S == [slot EXCEPT ![c] = s]
    <3>1. ctx' = Failed(S, ctx, s.typed)
      BY <2>2
    <3> HIDE DEF S
    <3>2. ASSUME NEW k
          PROVE  Failed(S, ctx, k)[g].terminal => ctx[g].terminal \/ g = k
      BY <1>2, FailedOnly
    <3> QED
      BY <1>6, <3>1, <3>2
  <2>4. slot[c].typed = g /\ g # None
    BY <2>3, GateConstants DEF Alike, Goals
  <2>5. CtlOf[g] = c
    BY <2>4 DEF Seated
  <2>6. slot'[c].tomb # None
    BY <1>1, <1>2, <1>3, <2>1, <2>3, <2>4
  <2> QED
    BY <2>4, <2>5, <2>6
<1> QED
  BY <1>5, <1>6 DEF Gives

-----------------------------------------------------------------------------
(* A step that touches no goal's life, and one that touches that of g.     *)

LEMMA CalmKeeps ==
  ASSUME IInv, Orderly, TypeOK', UNCHANGED <<run, resp, done, down, reserved>>,
         \A c \in Controllers : Holds(slot[c], slot'[c]),
         \A g \in Commands : Gives(g)
  PROVE  Orderly'
<1>1. ASSUME NEW g \in Goals
      PROVE  CtlOf[g] \in Controllers /\ (Engaged(g)' <=> Engaged(g))
  BY GateConstants DEF Engaged, Live
<1>2. Frees
  <2>1. \A c \in Controllers : Blames(slot[c], slot'[c])
    BY DEF Holds
  <2>2. ASSUME NEW g \in Goals
        PROVE  /\ Engaged(g)' => Engaged(g) /\ slot'[CtlOf[g]].owner = slot[CtlOf[g]].owner
               /\ resp[g] = "over" => resp'[g] = "over"
               /\ Regular(g)'
    BY <1>1 DEF Holds, Orderly, Served, Regular, Live
  <2>3. ASSUME NEW g \in Commands
        PROVE  Spent(g)' => Spent(g) \/ slot'[CtlOf[g]].tomb # None
    BY DEF Spent, Gives
  <2> QED
    BY <2>1, <2>2, <2>3 DEF Frees
<1>3. Sits
  BY DEF Sits, Holds, Gives
<1> QED
  BY <1>2, <1>3, FreesKeeps, SitsKeeps DEF Orderly

(* The steps of g change the life of no other goal.                        *)
Alone(g) ==
  \A h \in Goals \ {g} : /\ run'[h] = run[h] /\ resp'[h] = resp[h]
                         /\ done'[h] = done[h] /\ down'[h] = down[h]

Grants(g) ==
  /\ \A c \in Controllers :
       /\ Blames(slot[c], slot'[c]) \/ Confirms(slot[c], slot'[c])
       /\ \/ slot'[c].owner = slot[c].owner
          \/ slot[c].owner = g /\ ~Engaged(g)'
  /\ \A h \in Commands \ {g} : Gives(h)
  /\ Engaged(g)' => Engaged(g)
  /\ resp[g] = "over" => resp'[g] = "over"
  /\ Regular(g)'
  /\ g \in Commands /\ Engaged(g)' /\ Spent(g)' =>
       Spent(g) \/ slot'[CtlOf[g]].tomb # None

LEMMA GrantsFrees ==
  ASSUME IInv, Orderly, TypeOK', NEW g \in Goals, Alone(g), Grants(g)
  PROVE  Claimed' /\ Marked' /\ Served' /\ Sealed'
<1>1. ASSUME NEW h \in Goals, h # g
      PROVE  Engaged(h)' <=> Engaged(h)
  BY <1>1 DEF Engaged, Live, Alone
<1>2. ASSUME NEW h \in Goals
      PROVE  /\ Engaged(h)' => Engaged(h) /\ slot'[CtlOf[h]].owner = slot[CtlOf[h]].owner
             /\ resp[h] = "over" => resp'[h] = "over"
             /\ Regular(h)'
  <2>1. CtlOf[h] \in Controllers
    BY GateConstants
  <2>2. CASE h = g
    BY <2>1, <2>2 DEF Grants
  <2>3. CASE h # g
    <3>1. Engaged(h) => slot[CtlOf[h]].owner = h
      BY DEF Orderly, Claimed
    <3>2. Regular(h)'
      BY <2>3 DEF Orderly, Served, Regular, Live, Alone
    <3> QED
      BY <1>1, <2>1, <2>3, <3>1, <3>2 DEF Grants, Alone
  <2> QED
    BY <2>2, <2>3
<1>3. ASSUME NEW h \in Commands
      PROVE  Engaged(h)' /\ Spent(h)' => Spent(h) \/ slot'[CtlOf[h]].tomb # None
  <2>1. h \in Goals
    BY DEF Goals
  <2>2. CASE h # g
    BY <2>1, <2>2 DEF Spent, Gives, Grants, Alone
  <2> QED
    BY <2>2 DEF Grants
<1>4. Frees
  BY <1>2, <1>3 DEF Frees, Grants
<1> QED
  BY <1>4, FreesKeeps

LEMMA OneKeeps ==
  ASSUME IInv, Orderly, TypeOK', NEW g \in Goals, Alone(g), Grants(g),
         UNCHANGED reserved,
         \A c \in Controllers : slot'[c].typed = slot[c].typed,
         g \in Commands /\ run'[g] \in {"idle", "reserved"} =>
           /\ run'[g] = run[g]
           /\ ctx'[g].terminal => ctx[g].terminal \/ slot[CtlOf[g]].typed = g
  PROVE  Orderly'
<1>1. ASSUME NEW h \in Commands
      PROVE  /\ run'[h] \in {"idle", "reserved"} => run'[h] = run[h]
             /\ ctx'[h].terminal => \/ ctx[h].terminal \/ slot[CtlOf[h]].typed = h
                                    \/ run'[h] \notin {"idle", "reserved"}
  <2>1. h \in Goals
    BY DEF Goals
  <2>2. CASE h # g
    BY <2>1, <2>2 DEF Gives, Alone, Grants
  <2> QED
    BY <2>2
<1>2. Sits
  BY <1>1 DEF Sits
<1> QED
  BY <1>2, GrantsFrees, SitsKeeps DEF Orderly

-----------------------------------------------------------------------------
(* The steps that touch no goal's life.                                    *)
Calm == UNCHANGED <<run, resp, done, down, reserved>>

(* Cancelling from slots and contexts that keep owners and bound commands. *)
LEMMA CancelKeeps ==
  ASSUME IInv, Orderly, TypeOK', Calm, NEW C, NEW S \in [Controllers -> Slot],
         NEW X \in [Commands -> Context], NEW r \in BOOLEAN,
         Cancelling(C, S, X, r),
         \A c \in Controllers : Alike(slot[c], S[c]),
         \A g \in Commands : X[g].terminal = ctx[g].terminal
  PROVE  Orderly'
<1>1. TypeOK
  BY DEF IInv
<1>2. HoldAll(S)
  BY AlikeHolds DEF HoldAll
<1>3. /\ \A c \in Controllers : Holds(slot[c], slot'[c])
      /\ \A g \in Commands : ctx'[g].terminal = X[g].terminal
  BY <1>1, <1>2, CancellingHolds
<1>4. \A g \in Commands : Gives(g)
  BY <1>3 DEF Gives
<1> QED
  BY <1>3, <1>4, CalmKeeps DEF Calm

LEMMA CancelsKeep ==
  ASSUME IInv, Orderly, TypeOK',
         \/ \E g \in Commands : TypedCancel(g) \/ WaitCancel(g)
         \/ \E c \in Controllers : WatchBlocked(c) \/ WatchRetry(c)
         \/ \E bad \in BOOLEAN : Refused(bad)
         \/ ResetRefused
  PROVE  Orderly'
<1>1. /\ slot \in [Controllers -> Slot] /\ ctx \in [Commands -> Context]
      /\ \A c \in Controllers : Alike(slot[c], slot[c])
  BY DEF IInv, TypeOK, Alike
<1>2. ASSUME Calm, NEW C, Cancel(C)
      PROVE  Orderly'
  BY <1>1, <1>2, CancelKeeps DEF Cancel
<1>3. ASSUME NEW g \in Commands, TypedCancel(g)
      PROVE  Orderly'
  <2>1. Cancel({CtlOf[g]})
    BY <1>3 DEF TypedCancel
  <2>2. Calm
    BY <1>3 DEF TypedCancel, Calm
  <2> QED
    BY <1>2, <2>1, <2>2
<1>4. ASSUME NEW g \in Commands, WaitCancel(g)
      PROVE  Orderly'
  <2> DEFINE X == Flagged(ctx, g)
  <2>1. Cancelling({CtlOf[g]}, slot, X, FALSE)
    BY <1>4 DEF WaitCancel
  <2>2. Calm
    BY <1>4 DEF WaitCancel, Calm
  <2>3. X \in [Commands -> Context]
    BY <1>1 DEF Flagged, Context
  <2>4. \A h \in Commands : X[h].terminal = ctx[h].terminal
    BY <1>1, FlaggedOnly
  <2> HIDE DEF X
  <2> QED
    BY <1>1, <2>1, <2>2, <2>3, <2>4, CancelKeeps
<1>5. ASSUME NEW c \in Controllers, WatchBlocked(c)
      PROVE  Orderly'
  <2>1. Cancel({c}) /\ Calm
    BY <1>5 DEF WatchBlocked, Calm
  <2> QED
    BY <1>2, <2>1
<1>6. ASSUME NEW c \in Controllers, WatchRetry(c)
      PROVE  Orderly'
  <2> DEFINE S == [slot EXCEPT ![c].retry = FALSE]
  <2>1. Cancelling({c}, S, ctx, TRUE)
    BY <1>6 DEF WatchRetry
  <2>2. Calm
    BY <1>6 DEF WatchRetry, Calm
  <2>3. S \in [Controllers -> Slot] /\ \A d \in Controllers : Alike(slot[d], S[d])
    <3>1. [slot[c] EXCEPT !.retry = FALSE] \in Slot
          /\ Alike(slot[c], [slot[c] EXCEPT !.retry = FALSE])
      BY <1>1 DEF Slot, Alike
    <3> QED
      BY <1>1, <3>1
  <2> HIDE DEF S
  <2> QED
    BY <1>1, <2>1, <2>2, <2>3, CancelKeeps
<1>7. ASSUME NEW bad \in BOOLEAN, Refused(bad)
      PROVE  Orderly'
  <2>1. Cancel(Controllers) /\ Calm
    BY <1>7 DEF Refused, Calm
  <2> QED
    BY <1>2, <2>1
<1>8. ASSUME ResetRefused
      PROVE  Orderly'
  <2>1. Cancel(Controllers) /\ Calm
    BY <1>8 DEF ResetRefused, Calm
  <2> QED
    BY <1>2, <2>1
<1> QED
  BY <1>3, <1>4, <1>5, <1>6, <1>7, <1>8

LEMMA FailuresKeep ==
  ASSUME IInv, Orderly, TypeOK',
         \/ \E g \in Goals : SendCancel(g)
         \/ \E f \in cancels : CancelResponse(f)
         \/ \E c \in Controllers : WatchCancel(c) \/ WatchResult(c) \/ SendTimeout(c)
  PROVE  Orderly'
<1>1. /\ slot \in [Controllers -> Slot] /\ ctx \in [Commands -> Context]
      /\ \A c \in Controllers : slot[c] \in Slot /\ Alike(slot[c], slot[c])
                                /\ Holds(slot[c], slot[c])
      /\ \A g \in Commands : ctx[g].terminal = ctx[g].terminal
      /\ TypeOK /\ Seated
  BY DEF IInv, TypeOK, Alike, Holds, Blames, Orderly
<1>2. ASSUME Calm, NEW c \in Controllers, NEW s \in Slot, CancelFailure(c, s),
             Alike(slot[c], s)
      PROVE  Orderly'
  <2>1. /\ \A d \in Controllers : Holds(slot[d], slot'[d])
        /\ \A g \in Commands : Gives(g)
    BY <1>1, <1>2, CancelFailureHolds
  <2> QED
    BY <1>2, <2>1, CalmKeeps DEF Calm
<1>3. ASSUME Calm, \A d \in Controllers : Alike(slot[d], slot'[d]), UNCHANGED ctx
      PROVE  Orderly'
  <2>1. \A d \in Controllers : Holds(slot[d], slot'[d])
    BY <1>3, AlikeHolds
  <2>2. \A g \in Commands : Gives(g)
    BY <1>3 DEF Gives
  <2> QED
    BY <1>3, <2>1, <2>2, CalmKeeps DEF Calm
<1>4. ASSUME NEW g \in Goals, SendCancel(g)
      PROVE  Orderly'
  <2> DEFINE c == CtlOf[g]
             s == [slot[c] EXCEPT !.requested = TRUE, !.attempts = @ + 1]
  <2>1. c \in Controllers
    BY GateConstants
  <2>2. Calm
    BY <1>4 DEF SendCancel, Calm
  <2>3. /\ s.attempts <= MaxAttempts + MaxAsking
        /\ \/ /\ slot' = [slot EXCEPT ![c] = [s EXCEPT !.cancel = <<g, s.attempts>>]]
              /\ UNCHANGED ctx
           \/ CancelFailure(c, s)
    BY <1>4 DEF SendCancel
  <2>4. Alike(slot[c], s) /\ Alike(slot[c], [s EXCEPT !.cancel = <<g, s.attempts>>])
    BY <1>1, <2>1 DEF Slot, Alike
  <2>5. s \in Slot
    <3>1. slot[c].attempts + 1 \in 0..(MaxAttempts + MaxAsking)
      BY <1>1, <2>1, <2>3, GateConstants DEF Slot
    <3>2. ASSUME NEW n \in 0..(MaxAttempts + MaxAsking)
          PROVE  [slot[c] EXCEPT !.requested = TRUE, !.attempts = n] \in Slot
      BY <1>1, <2>1, ZenonT(60) DEF Slot
    <3> QED
      BY <3>1, <3>2
  <2> HIDE DEF s
  <2>6. CASE CancelFailure(c, s)
    BY <1>2, <2>1, <2>2, <2>4, <2>5, <2>6
  <2>7. CASE /\ slot' = [slot EXCEPT ![c] = [s EXCEPT !.cancel = <<g, s.attempts>>]]
             /\ UNCHANGED ctx
    <3>1. \A d \in Controllers : Alike(slot[d], slot'[d])
      BY <1>1, <2>1, <2>4, <2>7
    <3> QED
      BY <1>3, <2>2, <2>7, <3>1
  <2> QED
    BY <2>3, <2>6, <2>7
<1>5. ASSUME NEW f \in cancels, CancelResponse(f)
      PROVE  Orderly'
  <2> DEFINE c == CtlOf[f[1]]
             t == [slot[c] EXCEPT !.cancel = None, !.retry = FALSE, !.deadline = TRUE]
  <2>1. c \in Controllers
    BY <1>1, GateConstants DEF TypeOK, Calls
  <2>2. Calm
    BY <1>5 DEF CancelResponse, Calm
  <2>3. \/ UNCHANGED <<slot, ctx>>
        \/ slot' = [slot EXCEPT ![c] = t] /\ UNCHANGED ctx
        \/ CancelFailure(c, slot[c])
    BY <1>5, <1>1, <2>1, Zenon DEF CancelResponse
  <2>4. Alike(slot[c], t)
    BY <1>1, <2>1 DEF Slot, Alike
  <2> HIDE DEF t
  <2>5. CASE UNCHANGED <<slot, ctx>>
    BY <1>1, <1>3, <2>2, <2>5
  <2>6. CASE slot' = [slot EXCEPT ![c] = t] /\ UNCHANGED ctx
    <3>1. \A d \in Controllers : Alike(slot[d], slot'[d])
      BY <1>1, <2>1, <2>4, <2>6
    <3> QED
      BY <1>3, <2>2, <2>6, <3>1
  <2>7. CASE CancelFailure(c, slot[c])
    BY <1>1, <1>2, <2>1, <2>2, <2>7
  <2> QED
    BY <2>3, <2>5, <2>6, <2>7
<1>6. ASSUME NEW c \in Controllers, WatchCancel(c)
      PROVE  Orderly'
  <2>1. Calm /\ CancelFailure(c, slot[c])
    BY <1>6 DEF WatchCancel, Calm
  <2> QED
    BY <1>1, <1>2, <2>1
<1>7. ASSUME NEW c \in Controllers, WatchResult(c)
      PROVE  Orderly'
  <2> DEFINE s == [slot[c] EXCEPT !.deadline = FALSE]
             S == [slot EXCEPT ![c] = s]
  <2>1. s \in Slot /\ Alike(slot[c], s)
    BY <1>1 DEF Slot, Alike
  <2>2. Calm
    BY <1>7 DEF WatchResult, Calm
  <2>3. CancelFailure(c, s) \/ Cancelling({c}, S, ctx, FALSE)
    BY <1>7 DEF WatchResult
  <2> HIDE DEF s
  <2>4. CASE CancelFailure(c, s)
    BY <1>2, <2>1, <2>2, <2>4
  <2>5. S \in [Controllers -> Slot] /\ \A d \in Controllers : Alike(slot[d], S[d])
    BY <1>1, <2>1
  <2> HIDE DEF S
  <2>6. CASE Cancelling({c}, S, ctx, FALSE)
    BY <1>1, <2>2, <2>5, <2>6, CancelKeeps
  <2> QED
    BY <2>3, <2>4, <2>6
<1>8. ASSUME NEW c \in Controllers, SendTimeout(c)
      PROVE  Orderly'
  <2> DEFINE s == [slot[c] EXCEPT !.onAccept = TRUE]
             t == Latched(s, Culprit(slot[c]))
  <2>1. s \in Slot /\ Alike(slot[c], s) /\ Culprit(s) = Culprit(slot[c])
    BY <1>1 DEF Slot, Alike, Culprit
  <2>2. Calm
    BY <1>8 DEF SendTimeout, Calm
  <2>3. slot' = [slot EXCEPT ![c] = t] /\ ctx' = Failed(slot, ctx, slot[c].typed)
    BY <1>8 DEF SendTimeout
  <2>4. Holds(slot[c], t) /\ (slot[c].typed # None => t.tomb # None)
    <3>1. Holds(s, t) /\ (s.typed # None => t.tomb # None)
      BY <2>1, CulpritHolds
    <3>2. s.typed = slot[c].typed
      BY <2>1 DEF Alike
    <3> HIDE DEF s, t
    <3> QED
      BY <2>1, <3>1, <3>2, AlikeHolds
  <2> HIDE DEF s, t
  <2>5. \A d \in Controllers : Holds(slot[d], slot'[d])
    BY <1>1, <2>3, <2>4
  <2>6. ASSUME NEW g \in Commands, ctx'[g].terminal, ~ctx[g].terminal
        PROVE  slot[CtlOf[g]].typed = g /\ slot'[CtlOf[g]].tomb # None
    <3>1. g = slot[c].typed /\ g # None
      BY <1>1, <2>3, <2>6, FailedOnly, GateConstants DEF Goals
    <3>2. CtlOf[g] = c
      BY <1>1, <3>1 DEF Seated
    <3> QED
      BY <1>1, <2>3, <2>4, <3>1, <3>2
  <2>7. \A g \in Commands : Gives(g)
    BY <2>6 DEF Gives
  <2> QED
    BY <2>2, <2>5, <2>7, CalmKeeps DEF Calm
<1> QED
  BY <1>4, <1>5, <1>6, <1>7, <1>8
LEMMA CalmStepsKeep ==
  ASSUME IInv, Orderly, TypeOK',
         \/ \E c \in Controllers : WatchSend(c)
         \/ \E allowed \in BOOLEAN : Permitted(allowed)
         \/ ResetChecked \/ UNCHANGED vars
  PROVE  Orderly'
<1>1. UNCHANGED <<slot, ctx>>
  BY DEF WatchSend, Permitted, ResetChecked, vars
<1>2. Calm
  BY DEF WatchSend, Permitted, ResetChecked, vars, Calm
<1>3. \A c \in Controllers : Holds(slot[c], slot'[c])
  BY <1>1 DEF Holds, Blames
<1>4. \A g \in Commands : Gives(g)
  BY <1>1 DEF Gives
<1> QED
  BY <1>2, <1>3, <1>4, CalmKeeps DEF Calm

-----------------------------------------------------------------------------
(* The steps of one goal.                                                  *)
(* A controller comes to an owner, or to a command: nobody owned it.       *)
LEMMA ClaimsKeep ==
  ASSUME IInv, Orderly, TypeOK', NEW g \in Goals,
         LegacyRequest(g) \/ (g \in Commands /\ TypedGoal(g))
  PROVE  Orderly'
<1> DEFINE c == CtlOf[g]
<1>1. /\ c \in Controllers /\ slot \in [Controllers -> Slot]
      /\ run \in [Goals -> {"idle", "reserved", "bound", "admit", "send", "sent",
                        "wait", "finish", "unbind", "release", "over"}]
  BY GateConstants DEF IInv, TypeOK
<1>2. /\ run[g] = "idle" /\ slot[c].owner = None
      /\ \A d \in Controllers : slot[d].tomb = None
      /\ slot' = [slot EXCEPT ![c].owner = g]
      /\ UNCHANGED <<ctx, resp, done, down>>
  BY DEF LegacyRequest, TypedGoal
<1>3. \/ g \in Legacy /\ run' = [run EXCEPT ![g] = "admit"] /\ UNCHANGED reserved
      \/ /\ g \in Commands /\ run' = [run EXCEPT ![g] = "reserved"]
         /\ \A h \in reserved : CtlOf[h] # c
         /\ reserved' = reserved \cup {g}
  BY DEF LegacyRequest, TypedGoal
<1>4. \A h \in Goals : run'[h] = IF h = g THEN run'[g] ELSE run[h]
  BY <1>1, <1>3
<1>5. \A d \in Controllers : /\ slot'[d].tomb = None /\ slot'[d].typed = slot[d].typed
                             /\ slot'[d].owner = IF d = c THEN g ELSE slot[d].owner
  BY <1>1, <1>2 DEF Slot
<1>6. Claimed'
  <2> SUFFICES ASSUME NEW h \in Goals, Engaged(h)'
               PROVE  slot'[CtlOf[h]].owner = h
    BY DEF Claimed
  <2>1. CASE h = g
    BY <1>1, <1>5, <2>1
  <2>2. CASE h # g
    <3>1. slot[CtlOf[h]].owner = h /\ CtlOf[h] \in Controllers
      BY <1>2, <1>4, <2>2, GateConstants DEF Orderly, Claimed, Engaged, Live
    <3>2. CtlOf[h] # c
      BY <1>2, <3>1, GateConstants
    <3> QED
      BY <1>5, <3>1, <3>2
  <2> QED
    BY <2>1, <2>2
<1>7. Marked'
  <2> SUFFICES ASSUME NEW h \in Commands, Engaged(h)'
               PROVE  slot'[CtlOf[h]].tomb = None /\ ~Spent(h)'
    BY DEF Marked
  <2>1. h \in Goals /\ CtlOf[h] \in Controllers
    BY GateConstants DEF Goals
  <2>2. CASE h = g
    <3>1. ~ctx[g].terminal
      BY <1>2, <2>2 DEF Orderly, Seated
    <3>2. run'[g] \in {"admit", "reserved"}
      BY <1>1, <1>3
    <3> QED
      BY <1>2, <1>5, <2>1, <2>2, <3>1, <3>2 DEF Spent, Closing
  <2>3. CASE h # g
    <3>1. Engaged(h)
      BY <1>2, <1>4, <2>1, <2>3 DEF Engaged, Live
    <3>2. ~Spent(h)
      BY <1>2, <2>1, <3>1 DEF Orderly, Marked, Tombstoned
    <3> QED
      BY <1>2, <1>4, <1>5, <2>1, <2>3, <3>2 DEF Spent
  <2> QED
    BY <2>2, <2>3
<1>8. Seated'
  <2>1. ASSUME NEW d \in Controllers, slot'[d].typed # None
        PROVE  slot'[d].typed \in reserved' /\ CtlOf[slot'[d].typed] = d
    BY <1>3, <1>5, <2>1 DEF Orderly, Seated
  <2>2. ASSUME NEW h \in Commands
        PROVE  /\ run'[h] \in {"idle", "reserved"} =>
                    ~ctx'[h].terminal /\ slot'[CtlOf[h]].typed # h
               /\ run'[h] = "reserved" => h \in reserved'
    <3>1. h \in Goals /\ CtlOf[h] \in Controllers
      BY GateConstants DEF Goals
    <3>2. CASE h = g
      BY <1>1, <1>2, <1>3, <1>5, <3>1, <3>2 DEF Orderly, Seated
    <3>3. CASE h # g
      BY <1>2, <1>3, <1>4, <1>5, <3>1, <3>3 DEF Orderly, Seated
    <3> QED
      BY <3>2, <3>3
  <2>3. \A h, k \in reserved' : CtlOf[h] = CtlOf[k] => h = k
    BY <1>3 DEF Orderly, Seated
  <2> QED
    BY <2>1, <2>2, <2>3 DEF Seated
<1>9. Served' /\ Sealed'
  <2>1. Served'
    BY <1>2 DEF Orderly, Served, Regular, Live
  <2> QED
    BY <1>5, <2>1 DEF Sealed
<1> QED
  BY <1>6, <1>7, <1>8, <1>9 DEF Orderly
(* A command is bound, and let go.                                         *)
LEMMA BindKeeps ==
  ASSUME IInv, Orderly, TypeOK', NEW g \in Commands, Bind(g)
  PROVE  Orderly'
<1> DEFINE c == CtlOf[g]
<1>1. /\ g \in Goals /\ c \in Controllers /\ slot \in [Controllers -> Slot]
      /\ run \in [Goals -> {"idle", "reserved", "bound", "admit", "send", "sent",
                        "wait", "finish", "unbind", "release", "over"}]
  BY GateConstants DEF IInv, TypeOK, Goals
<1>2. run[g] = "reserved" /\ UNCHANGED <<reserved, resp, done, down>>
  BY DEF Bind
<1>3. g \in reserved /\ slot[c].owner = g /\ slot[c].typed = None
  <2>1. g \in reserved /\ slot[c].owner = g /\ slot[c].typed # g
    BY <1>1, <1>2 DEF Orderly, Claimed, Engaged, Seated
  <2> QED
    BY <1>1, <2>1 DEF Orderly, Seated
<1>4. slot' = [slot EXCEPT ![c].typed = g] /\ run' = [run EXCEPT ![g] = "bound"]
      /\ UNCHANGED ctx
  BY <1>3 DEF Bind
<1>5. \A d \in Controllers : /\ slot'[d].tomb = slot[d].tomb
                             /\ slot'[d].owner = slot[d].owner
                             /\ slot'[d].typed = IF d = c THEN g ELSE slot[d].typed
  BY <1>1, <1>4 DEF Slot
<1>6. run'[g] = "bound" /\ \A h \in Goals \ {g} : run'[h] = run[h]
  BY <1>1, <1>4
<1>7. Alone(g) /\ Grants(g)
  <2>1. Regular(g)'
    BY <1>1, <1>2 DEF Orderly, Served, Regular, Live
  <2>2. Engaged(g) /\ (Spent(g)' => Spent(g))
    BY <1>1, <1>2, <1>4, <1>6 DEF Engaged, Spent, Closing
  <2> QED
    BY <1>1, <1>2, <1>4, <1>5, <1>6, <2>1, <2>2 DEF Alone, Grants, Gives, Blames
<1>8. Seated'
  <2>1. \A d \in Controllers : slot'[d].typed # None =>
          slot'[d].typed \in reserved' /\ CtlOf[slot'[d].typed] = d
    BY <1>2, <1>3, <1>5 DEF Orderly, Seated
  <2>2. ASSUME NEW h \in Commands
        PROVE  /\ run'[h] \in {"idle", "reserved"} =>
                    ~ctx'[h].terminal /\ slot'[CtlOf[h]].typed # h
               /\ run'[h] = "reserved" => h \in reserved'
    <3>1. h \in Goals /\ CtlOf[h] \in Controllers
      BY GateConstants DEF Goals
    <3>2. CASE h # g
      BY <1>2, <1>4, <1>5, <1>6, <3>1, <3>2 DEF Orderly, Seated
    <3> QED
      BY <1>6, <3>2
  <2> QED
    BY <1>2, <2>1, <2>2 DEF Orderly, Seated
<1> QED
  BY <1>1, <1>7, <1>8, GrantsFrees DEF Orderly

LEMMA UnbindKeeps ==
  ASSUME IInv, Orderly, TypeOK', NEW g \in Commands, Unbind(g)
  PROVE  Orderly'
<1> DEFINE c == CtlOf[g]
<1>1. /\ g \in Goals /\ c \in Controllers /\ slot \in [Controllers -> Slot]
      /\ run \in [Goals -> {"idle", "reserved", "bound", "admit", "send", "sent",
                        "wait", "finish", "unbind", "release", "over"}]
  BY GateConstants DEF IInv, TypeOK, Goals
<1>2. /\ run[g] = "unbind" /\ run' = [run EXCEPT ![g] = "release"]
      /\ reserved' = reserved \ {g} /\ UNCHANGED <<ctx, resp, done, down>>
      /\ slot' = IF slot[c].typed = g THEN [slot EXCEPT ![c].typed = None] ELSE slot
  BY DEF Unbind
<1>3. \A d \in Controllers :
        /\ slot'[d].tomb = slot[d].tomb /\ slot'[d].owner = slot[d].owner
        /\ slot'[d].typed = IF d = c /\ slot[c].typed = g THEN None ELSE slot[d].typed
  BY <1>1, <1>2 DEF Slot
<1>4. run'[g] = "release" /\ \A h \in Goals \ {g} : run'[h] = run[h]
  BY <1>1, <1>2
<1>5. Alone(g) /\ Grants(g)
  <2>1. Regular(g)'
    BY <1>1, <1>2 DEF Orderly, Served, Regular, Live
  <2>2. (Engaged(g)' => Engaged(g)) /\ Spent(g)
    BY <1>1, <1>2, <1>4 DEF Engaged, Spent, Closing, Live
  <2> QED
    BY <1>1, <1>2, <1>3, <1>4, <2>1, <2>2 DEF Alone, Grants, Gives, Blames
<1>6. Seated'
  <2>1. ASSUME NEW d \in Controllers, slot'[d].typed # None
        PROVE  slot'[d].typed \in reserved' /\ CtlOf[slot'[d].typed] = d
    BY <1>2, <1>3, <2>1 DEF Orderly, Seated
  <2>2. ASSUME NEW h \in Commands
        PROVE  /\ run'[h] \in {"idle", "reserved"} =>
                    ~ctx'[h].terminal /\ slot'[CtlOf[h]].typed # h
               /\ run'[h] = "reserved" => h \in reserved'
    <3>1. h \in Goals /\ CtlOf[h] \in Controllers /\ h # None
      BY GateConstants DEF Goals
    <3>2. CASE h # g
      BY <1>2, <1>3, <1>4, <3>1, <3>2 DEF Orderly, Seated
    <3> QED
      BY <1>4, <3>2
  <2> QED
    BY <1>2, <2>1, <2>2 DEF Orderly, Seated
<1> QED
  BY <1>1, <1>5, <1>6, GrantsFrees DEF Orderly
(* What is left of a slot when g may give up the controller.               *)
Yields(s, t, g) ==
  /\ t.typed = s.typed /\ Blames(s, t)
  /\ t.owner = s.owner \/ (s.owner = g /\ ~Tombstoned(s, g))

LEMMA ReleasedOps ==
  ASSUME NEW r \in Slot, NEW s \in Slot, Alike(r, s), NEW g
  PROVE  Yields(r, Released(s, g), g)
BY DEF Released, Slot, Alike, Yields, Blames, Tombstoned

LEMMA ReleaseSlots ==
  ASSUME TypeOK, NEW c \in Controllers, NEW g, NEW t,
         Yields(slot[c], t, g), slot' = [slot EXCEPT ![c] = t]
  PROVE  \A d \in Controllers :
           /\ slot'[d].typed = slot[d].typed /\ Blames(slot[d], slot'[d])
           /\ \/ slot'[d].owner = slot[d].owner
              \/ d = c /\ slot[d].owner = g /\ ~Tombstoned(slot[c], g)
<1>1. slot \in [Controllers -> Slot]
  BY DEF TypeOK
<1> QED
  BY <1>1 DEF Yields, Blames

LEMMA AlikeSlots ==
  ASSUME TypeOK, NEW c \in Controllers, NEW s \in Slot, Alike(slot[c], s),
         slot' = [slot EXCEPT ![c] = s]
  PROVE  \A d \in Controllers :
           /\ slot'[d].typed = slot[d].typed /\ Blames(slot[d], slot'[d])
           /\ slot'[d].owner = slot[d].owner
<1>1. slot \in [Controllers -> Slot]
  BY DEF TypeOK
<1> QED
  BY <1>1 DEF Alike, Blames

LEMMA StageOf ==
  ASSUME IInv, Orderly, NEW g \in Goals
  PROVE  /\ CtlOf[g] \in Controllers /\ slot[CtlOf[g]] \in Slot
         /\ slot \in [Controllers -> Slot] /\ ctx \in [Commands -> Context]
         /\ run[g] \in {"reserved", "bound", "admit", "send"} =>
              /\ Engaged(g) /\ down[g] = "none" /\ resp[g] = "none"
              /\ done[g] = "none" /\ slot[CtlOf[g]].owner = g
         /\ Engaged(g) => slot[CtlOf[g]].owner = g
         /\ Regular(g) /\ Alike(slot[CtlOf[g]], slot[CtlOf[g]])
         /\ DOMAIN run = Goals /\ DOMAIN resp = Goals
         /\ DOMAIN done = Goals /\ DOMAIN down = Goals
         /\ TypeOK
BY GateConstants DEF IInv, TypeOK, Traced, Pre, Orderly, Claimed, Served, Engaged, Alike

LEMMA DispatchKeeps ==
  ASSUME IInv, Orderly, TypeOK', NEW g \in Goals,
         \/ g \in Commands /\ Check(g)
         \/ Admit(g) \/ Send(g) \/ StoreFuture(g)
  PROVE  Orderly'
<1> DEFINE c == CtlOf[g]
<1>1. /\ c \in Controllers /\ slot[c] \in Slot
      /\ slot \in [Controllers -> Slot] /\ ctx \in [Commands -> Context]
      /\ DOMAIN run = Goals /\ DOMAIN resp = Goals /\ DOMAIN down = Goals
      /\ TypeOK /\ Regular(g) /\ Alike(slot[c], slot[c])
  BY StageOf
<1>2. CASE g \in Commands /\ Check(g)
  <2>1. /\ run[g] = "bound" /\ UNCHANGED <<slot, reserved, resp, done, down>>
        /\ \/ run' = [run EXCEPT ![g] = "wait"]
           \/ run' = [run EXCEPT ![g] = "admit"] /\ UNCHANGED ctx
    BY <1>2 DEF Check
  <2>2. \A h \in Commands : ctx'[h].terminal => ctx[h].terminal \/ h = g
    <3>1. \/ ctx' = Failed(slot, ctx, g)
          \/ ctx' = Ended(slot, Flagged(ctx, g), g, "canceled", FALSE, FALSE)
          \/ UNCHANGED ctx
      BY <1>2 DEF Check
    <3>2. CASE ctx' = Failed(slot, ctx, g)
      BY <1>1, <3>2, FailedOnly
    <3>3. CASE ctx' = Ended(slot, Flagged(ctx, g), g, "canceled", FALSE, FALSE)
      <4> DEFINE X == Flagged(ctx, g)
      <4>1. /\ X \in [Commands -> Context]
            /\ \A h \in Commands : X[h].terminal = ctx[h].terminal
        <5>1. X \in [Commands -> Context]
          BY <1>1 DEF Flagged, Context
        <5> QED
          BY <1>1, <5>1, FlaggedOnly
      <4>2. ctx' = Ended(slot, X, g, "canceled", FALSE, FALSE)
        BY <3>3
      <4> HIDE DEF X
      <4> QED
        <5> SUFFICES ASSUME NEW h \in Commands
                     PROVE  ctx'[h].terminal => ctx[h].terminal \/ h = g
          OBVIOUS
        <5>1. Ended(slot, X, g, "canceled", FALSE, FALSE)[h].terminal =>
                X[h].terminal \/ (h = g /\ slot[CtlOf[h]].typed = h)
          BY <4>1, EndedOnly
        <5> QED
          BY <4>1, <4>2, <5>1
    <3> QED
      BY <3>1, <3>2, <3>3
  <2>3. /\ Engaged(g) /\ down[g] = "none" /\ resp[g] = "none" /\ done[g] = "none"
    <3>1. run[g] = "bound"
      BY <2>1
    <3> QED
      BY <3>1, StageOf
  <2>4. Alone(g)
    BY <1>1, <2>1 DEF Alone
  <2>5. Grants(g)
    <3>1. Regular(g)'
      BY <1>1, <2>1 DEF Regular, Live
    <3>2. Engaged(g)' => ~Spent(g)' \/ Spent(g)
      BY <1>1, <1>2, <2>1, <2>3 DEF Engaged, Live, Spent, Closing, Answered
    <3> QED
      BY <2>1, <2>2, <2>3, <3>1, <3>2 DEF Grants, Gives, Blames
  <2>6. run'[g] \notin {"idle", "reserved"}
    BY <1>1, <2>1
  <2> QED
    BY <2>1, <2>4, <2>5, <2>6, OneKeeps
<1>3. CASE Admit(g)
  <2>1. /\ run[g] = "admit" /\ UNCHANGED <<reserved, resp, done, down>>
        /\ \/ run' = [run EXCEPT ![g] = "send"] /\ UNCHANGED <<slot, ctx>>
           \/ /\ run' = [run EXCEPT ![g] = AfterDispatch(g)]
              /\ ctx' = Failed(slot, ctx, g)
              /\ slot' = [slot EXCEPT ![c] = Released(slot[c], g)]
    BY <1>3 DEF Admit
  <2>2. Engaged(g) /\ down[g] = "none" /\ resp[g] = "none" /\ done[g] = "none"
    BY <2>1, StageOf
  <2>3. Alone(g) /\ Regular(g)'
    BY <1>1, <2>1 DEF Alone, Regular, Live
  <2>4. CASE run' = [run EXCEPT ![g] = "send"] /\ UNCHANGED <<slot, ctx>>
    <3>1. run'[g] = "send"
      BY <1>1, <2>4
    <3>2. Spent(g)' => Spent(g)
      BY <2>4, <3>1 DEF Spent, Closing
    <3>3. Grants(g)
      BY <2>1, <2>2, <2>3, <2>4, <3>2 DEF Grants, Gives, Blames
    <3> QED
      BY <2>1, <2>3, <2>4, <3>1, <3>3, OneKeeps
  <2>5. CASE /\ run' = [run EXCEPT ![g] = AfterDispatch(g)]
             /\ ctx' = Failed(slot, ctx, g)
             /\ slot' = [slot EXCEPT ![c] = Released(slot[c], g)]
    <3>1. run'[g] \in {"wait", "over"}
      BY <1>1, <2>5 DEF AfterDispatch
    <3>2. ~Engaged(g)'
      BY <2>1, <2>2, <3>1 DEF Engaged, Live, Answered
    <3>3. \A d \in Controllers :
            /\ slot'[d].typed = slot[d].typed /\ Blames(slot[d], slot'[d])
            /\ slot'[d].owner = slot[d].owner \/ slot[d].owner = g
      <4> DEFINE t == Released(slot[c], g)
      <4>1. Yields(slot[c], t, g) /\ slot' = [slot EXCEPT ![c] = t]
        BY <1>1, <2>5, ReleasedOps
      <4> HIDE DEF t
      <4> QED
        BY <1>1, <4>1, ReleaseSlots
    <3>4. \A h \in Commands \ {g} : Gives(h)
      BY <1>1, <2>5, FailedOnly DEF Gives
    <3>5. Grants(g)
      BY <2>1, <2>3, <3>2, <3>3, <3>4 DEF Grants
    <3> QED
      BY <2>1, <2>3, <3>1, <3>3, <3>5, OneKeeps
  <2> QED
    BY <2>1, <2>4, <2>5
<1>4. CASE Send(g)
  <2> DEFINE s == [slot[c] EXCEPT !.onAccept = FALSE, !.requested = FALSE,
                                  !.attempts = 0, !.retry = FALSE,
                                  !.exhausted = FALSE]
  <2>1. s \in Slot /\ Alike(slot[c], s)
    <3>1. 0 \in 0..(MaxAttempts + MaxAsking)
      BY GateConstants
    <3> QED
      BY <1>1, <3>1, ZenonT(60) DEF Slot, Alike
  <2>2. /\ run[g] = "send" /\ UNCHANGED <<reserved, done>>
        /\ \/ /\ slot' = [slot EXCEPT ![c] = s] /\ UNCHANGED ctx
              /\ down' = [down EXCEPT ![g] = "sent"]
              /\ resp' = [resp EXCEPT ![g] = "pending"]
              /\ run' = [run EXCEPT ![g] = "sent"]
           \/ /\ run' = [run EXCEPT ![g] = AfterDispatch(g)]
              /\ ctx' = Failed(slot, ctx, g)
              /\ slot' = [slot EXCEPT ![c] = Released(s, g)]
              /\ UNCHANGED <<down, resp>>
    BY <1>4, Zenon DEF Send
  <2> HIDE DEF s
  <2>3. Engaged(g) /\ down[g] = "none" /\ resp[g] = "none" /\ done[g] = "none"
    BY <2>2, StageOf
  <2>4. Alone(g)
    BY <1>1, <2>2 DEF Alone
  <2>5. CASE /\ slot' = [slot EXCEPT ![c] = s] /\ UNCHANGED ctx
             /\ down' = [down EXCEPT ![g] = "sent"]
             /\ resp' = [resp EXCEPT ![g] = "pending"]
             /\ run' = [run EXCEPT ![g] = "sent"]
    <3>1. run'[g] = "sent" /\ resp'[g] = "pending"
      BY <1>1, <2>5
    <3>2. Regular(g)' /\ (Spent(g)' => Spent(g))
      BY <2>2, <2>3, <2>5, <3>1 DEF Regular, Spent, Closing
    <3>3. \A d \in Controllers :
            /\ slot'[d].typed = slot[d].typed /\ Blames(slot[d], slot'[d])
            /\ slot'[d].owner = slot[d].owner
      BY <1>1, <2>1, <2>5, AlikeSlots
    <3>4. Grants(g)
      BY <2>3, <2>5, <3>2, <3>3 DEF Grants, Gives
    <3> QED
      BY <2>2, <2>4, <3>1, <3>3, <3>4, OneKeeps
  <2>6. CASE /\ run' = [run EXCEPT ![g] = AfterDispatch(g)]
             /\ ctx' = Failed(slot, ctx, g)
             /\ slot' = [slot EXCEPT ![c] = Released(s, g)]
             /\ UNCHANGED <<down, resp>>
    <3>1. run'[g] \in {"wait", "over"}
      BY <1>1, <2>6 DEF AfterDispatch
    <3>2. ~Engaged(g)' /\ Regular(g)'
      BY <1>1, <2>2, <2>3, <2>6, <3>1 DEF Engaged, Live, Answered, Regular
    <3>3. \A d \in Controllers :
            /\ slot'[d].typed = slot[d].typed /\ Blames(slot[d], slot'[d])
            /\ slot'[d].owner = slot[d].owner \/ slot[d].owner = g
      <4> DEFINE t == Released(s, g)
      <4>1. Yields(slot[c], t, g) /\ slot' = [slot EXCEPT ![c] = t]
        BY <1>1, <2>1, <2>6, ReleasedOps
      <4> HIDE DEF t
      <4> QED
        BY <1>1, <4>1, ReleaseSlots
    <3>4. \A h \in Commands \ {g} : Gives(h)
      BY <1>1, <2>6, FailedOnly DEF Gives
    <3>5. Grants(g)
      BY <2>6, <3>2, <3>3, <3>4 DEF Grants
    <3> QED
      BY <2>2, <2>4, <3>1, <3>3, <3>5, OneKeeps
  <2> QED
    BY <2>2, <2>5, <2>6
<1>5. CASE StoreFuture(g)
  <2> DEFINE s == [slot[c] EXCEPT !.send = g]
  <2>1. s \in Slot /\ Alike(slot[c], s)
    BY <1>1 DEF Slot, Alike
  <2>2. /\ run[g] = "sent" /\ slot' = [slot EXCEPT ![c] = s]
        /\ run' = [run EXCEPT ![g] = AfterDispatch(g)]
        /\ UNCHANGED <<ctx, reserved, resp, done, down>>
    BY <1>5 DEF StoreFuture
  <2> HIDE DEF s
  <2>3. run'[g] \in {"wait", "over"} /\ (g \in Commands => run'[g] = "wait")
    BY <1>1, <2>2 DEF AfterDispatch
  <2>4. Alone(g) /\ Regular(g)'
    BY <1>1, <2>2 DEF Alone, Regular, Live
  <2>5. \A d \in Controllers :
          /\ slot'[d].typed = slot[d].typed /\ Blames(slot[d], slot'[d])
          /\ slot'[d].owner = slot[d].owner
    BY <1>1, <2>1, <2>2, AlikeSlots
  <2>6. /\ Engaged(g)' => Engaged(g)
        /\ g \in Commands /\ Spent(g)' => Spent(g)
    BY <2>2, <2>3 DEF Engaged, Live, Spent, Closing
  <2>7. Grants(g)
    BY <2>2, <2>4, <2>5, <2>6 DEF Grants, Gives
  <2> QED
    BY <2>2, <2>3, <2>4, <2>5, <2>7, OneKeeps
<1> QED
  BY <1>2, <1>3, <1>4, <1>5
(* g ends its thread: what the wait and the last blocks do.                *)
LEMMA CloseKeeps ==
  ASSUME IInv, Orderly, TypeOK', NEW g \in Commands,
         WallGuard(g) \/ Woken(g) \/ Finish(g) \/ ReleaseOwner(g)
  PROVE  Orderly'
<1> DEFINE c == CtlOf[g]
<1>0. g \in Goals
  BY DEF Goals
<1>1. /\ c \in Controllers /\ slot[c] \in Slot
      /\ slot \in [Controllers -> Slot] /\ ctx \in [Commands -> Context]
      /\ DOMAIN run = Goals
      /\ TypeOK /\ Regular(g) /\ Alike(slot[c], slot[c])
  BY <1>0, StageOf
<1>2. CASE WallGuard(g)
  <2> DEFINE s == Latched(slot[c], g)
             S == [slot EXCEPT ![c] = s]
             X == Flagged(ctx, g)
             Y == Failed(slot, X, g)
  <2>1. /\ run[g] = "wait" /\ ~ctx[g].terminal
        /\ Cancelling({c}, S, Y, FALSE) /\ run' = [run EXCEPT ![g] = "finish"]
        /\ UNCHANGED <<reserved, resp, done, down>>
    BY <1>2 DEF WallGuard
  <2>2. slot[c].typed = g
    BY <2>1 DEF IInv, Told, Serving
  <2>3. Holds(slot[c], s) /\ s.tomb # None
    BY <1>1, <2>2, LatchedHolds, GateConstants DEF Goals
  <2>4. s \in Slot
    BY <1>0, <1>1, SlotOps
  <2>5. X \in [Commands -> Context] /\ \A h \in Commands : X[h].terminal = ctx[h].terminal
    <3>1. X \in [Commands -> Context]
      BY <1>1 DEF Flagged, Context
    <3> QED
      BY <1>1, <3>1, FlaggedOnly
  <2> HIDE DEF s, X
  <2>6. Y \in [Commands -> Context]
        /\ \A h \in Commands : Y[h].terminal => ctx[h].terminal \/ h = g
    <3>1. Y \in [Commands -> Context]
      BY <2>5 DEF Failed, Ended, Context
    <3>2. \A h \in Commands : Y[h].terminal => X[h].terminal \/ h = g
      BY <2>5, FailedOnly
    <3> QED
      BY <2>5, <3>1, <3>2
  <2> HIDE DEF Y
  <2>7. S \in [Controllers -> Slot] /\ S[c] = s
        /\ HoldAll(S)
    BY <1>1, <2>3, <2>4 DEF Holds, Blames, HoldAll
  <2> HIDE DEF S
  <2>8. /\ \A d \in Controllers : Holds(slot[d], slot'[d])
                                  /\ slot'[d].tomb = S[d].tomb
        /\ \A h \in Commands : ctx'[h].terminal = Y[h].terminal
    BY <1>1, <2>1, <2>6, <2>7, CancellingHolds
  <2>9. run'[g] = "finish" /\ Alone(g)
    BY <1>0, <1>1, <2>1 DEF Alone
  <2>10. Regular(g)' /\ (Engaged(g)' => Engaged(g))
    BY <1>1, <2>1, <2>9 DEF Regular, Live, Engaged
  <2>11. slot'[c].tomb # None
    BY <1>1, <2>3, <2>7, <2>8
  <2>12. Grants(g)
    BY <2>1, <2>6, <2>8, <2>10, <2>11 DEF Grants, Holds, Gives
  <2> QED
    BY <1>0, <2>1, <2>8, <2>9, <2>12, OneKeeps DEF Holds
<1>3. CASE Woken(g) \/ Finish(g)
  <2>1. /\ \/ run[g] = "wait" /\ ctx[g].terminal /\ run' = [run EXCEPT ![g] = "finish"]
           \/ run[g] = "finish" /\ run' = [run EXCEPT ![g] = "unbind"]
        /\ UNCHANGED <<slot, ctx, reserved, resp, done, down>>
    BY <1>3 DEF Woken, Finish
  <2>2. run'[g] \in {"finish", "unbind"} /\ Alone(g)
    BY <1>0, <1>1, <2>1 DEF Alone
  <2>3. Regular(g)' /\ (Engaged(g)' => Engaged(g)) /\ Spent(g)
    BY <1>1, <2>1, <2>2 DEF Regular, Live, Engaged, Spent
  <2>4. Grants(g)
    BY <2>1, <2>3 DEF Grants, Gives, Blames
  <2> QED
    BY <1>0, <2>1, <2>2, <2>4, OneKeeps
<1>4. CASE ReleaseOwner(g)
  <2> DEFINE t == Released(slot[c], g)
  <2>1. /\ run[g] = "release" /\ run' = [run EXCEPT ![g] = "over"]
        /\ slot' = [slot EXCEPT ![c] = t]
        /\ UNCHANGED <<ctx, reserved, resp, done, down>>
    BY <1>4 DEF ReleaseOwner
  <2>2. Yields(slot[c], t, g)
    BY <1>1, ReleasedOps
  <2> HIDE DEF t
  <2>3. \A d \in Controllers :
          /\ slot'[d].typed = slot[d].typed /\ Blames(slot[d], slot'[d])
          /\ \/ slot'[d].owner = slot[d].owner
             \/ slot[d].owner = g /\ ~Tombstoned(slot[c], g)
    BY <1>1, <2>1, <2>2, ReleaseSlots
  <2>4. run'[g] = "over" /\ Alone(g)
    BY <1>0, <1>1, <2>1 DEF Alone
  <2>5. Regular(g)' /\ (Engaged(g)' => Engaged(g)) /\ Spent(g)
    BY <1>1, <2>1, <2>4 DEF Regular, Live, Engaged, Spent, Closing
  <2>6. Engaged(g)' => Tombstoned(slot[c], g)
    BY <2>5 DEF Orderly, Marked
  <2>7. Grants(g)
    BY <2>1, <2>3, <2>5, <2>6 DEF Grants, Gives
  <2> QED
    BY <1>0, <2>1, <2>3, <2>4, <2>7, OneKeeps
<1> QED
  BY <1>2, <1>3, <1>4
(* The goal response.                                                      *)
LEMMA GoalResponseKeeps ==
  ASSUME IInv, Orderly, TypeOK', NEW g \in Goals, GoalResponse(g)
  PROVE  Orderly'
<1> DEFINE c == CtlOf[g]
           s == [slot[c] EXCEPT !.send = None]
<1>1. /\ c \in Controllers /\ slot[c] \in Slot
      /\ slot \in [Controllers -> Slot] /\ ctx \in [Commands -> Context]
      /\ DOMAIN run = Goals /\ DOMAIN resp = Goals
      /\ TypeOK /\ Regular(g) /\ Alike(slot[c], slot[c])
  BY StageOf
<1>2. s \in Slot /\ Alike(slot[c], s)
  BY <1>1 DEF Slot, Alike
<1>3. resp[g] \in Answered /\ UNCHANGED <<reserved, run, done, down>>
  BY DEF GoalResponse
<1>4. /\ Engaged(g) /\ run[g] \notin Pre /\ done[g] = "none" /\ resp[g] # "failed"
      /\ resp[g] # "over"
  BY <1>1, <1>3 DEF Engaged, IInv, Traced, Regular, Answered
<1>5. \/ resp' = [resp EXCEPT ![g] = "over"] /\ UNCHANGED <<slot, ctx>>
      \/ /\ resp[g] = "rejected" /\ resp' = [resp EXCEPT ![g] = "over"]
         /\ IF Tombstoned(s, g)
              THEN /\ slot' = [slot EXCEPT ![c] = [s EXCEPT !.tomb.confirmed = TRUE]]
                   /\ UNCHANGED ctx
              ELSE /\ slot' = [slot EXCEPT ![c] = Released(s, g)]
                   /\ ctx' = Failed(slot, ctx, g)
      \/ /\ resp' = [resp EXCEPT ![g] = "taken"] /\ UNCHANGED ctx
         /\ slot' = [slot EXCEPT ![c] = s]
  BY <1>4, Zenon DEF GoalResponse
<1> HIDE DEF s
<1>6. Alone(g) /\ resp'[g] \in {"over", "taken"}
  BY <1>1, <1>3, <1>5 DEF Alone
<1>7. Regular(g)' /\ (Spent(g)' => Spent(g) \/ ctx'[g].terminal)
  BY <1>1, <1>3, <1>4, <1>6 DEF Regular, Live, Spent
<1>8. run'[g] \notin {"idle", "reserved"}
  BY <1>3, <1>4 DEF Pre
<1>9. CASE resp' = [resp EXCEPT ![g] = "over"] /\ UNCHANGED <<slot, ctx>>
  <2>1. Spent(g)' => Spent(g)
    BY <1>3, <1>9 DEF Spent
  <2>2. Grants(g)
    BY <1>4, <1>6, <1>7, <1>9, <2>1 DEF Grants, Gives, Blames
  <2> QED
    BY <1>3, <1>6, <1>8, <1>9, <2>2, OneKeeps
<1>10. CASE /\ resp[g] = "rejected" /\ resp' = [resp EXCEPT ![g] = "over"]
            /\ IF Tombstoned(s, g)
                 THEN /\ slot' = [slot EXCEPT ![c] = [s EXCEPT !.tomb.confirmed = TRUE]]
                      /\ UNCHANGED ctx
                 ELSE /\ slot' = [slot EXCEPT ![c] = Released(s, g)]
                      /\ ctx' = Failed(slot, ctx, g)
  <2>1. ~Engaged(g)'
    <3>1. down[g] = "refused" /\ resp'[g] = "over"
      BY <1>1, <1>10 DEF IInv, Traced
    <3> QED
      BY <1>3, <1>4, <3>1 DEF Engaged, Live, Pre, Answered
  <2>2. CASE Tombstoned(s, g)
    <3> DEFINE t == [s EXCEPT !.tomb.confirmed = TRUE]
    <3>1. /\ t.typed = slot[c].typed /\ t.owner = slot[c].owner
          /\ slot[c].tomb # None /\ t.tomb # None /\ t.tomb.goal = slot[c].tomb.goal
          /\ slot[c].tomb.goal = g
      <4>1. s.tomb \in Tombstone /\ s.tomb.goal = g /\ s.tomb = slot[c].tomb
            /\ s.tomb # None
        BY <1>2, <2>2 DEF Slot, Tombstoned, Alike
      <4>2. [s.tomb EXCEPT !.confirmed = TRUE] \in Tombstone
            /\ [s.tomb EXCEPT !.confirmed = TRUE].goal = g
        BY <4>1 DEF Tombstone
      <4>3. [s.tomb EXCEPT !.confirmed = TRUE] # None
        BY <4>2, GateConstants
      <4>4. /\ t.tomb = [s.tomb EXCEPT !.confirmed = TRUE]
            /\ t.typed = s.typed /\ t.owner = s.owner
        BY <1>2 DEF Slot
      <4> QED
        BY <1>2, <4>1, <4>2, <4>3, <4>4 DEF Alike
    <3>2. slot' = [slot EXCEPT ![c] = t] /\ UNCHANGED ctx
      BY <1>10, <2>2
    <3> HIDE DEF t
    <3>3. \A d \in Controllers :
            /\ slot'[d].typed = slot[d].typed /\ slot'[d].owner = slot[d].owner
            /\ Blames(slot[d], slot'[d]) \/ Confirms(slot[d], slot'[d])
      BY <1>1, <1>10, <3>1, <3>2 DEF Blames, Confirms
    <3>4. Grants(g)
      BY <1>4, <1>6, <1>7, <2>1, <3>2, <3>3 DEF Grants, Gives
    <3> QED
      BY <1>3, <1>6, <1>8, <3>3, <3>4, OneKeeps
  <2>3. CASE ~Tombstoned(s, g)
    <3> DEFINE t == Released(s, g)
    <3>1. Yields(slot[c], t, g) /\ slot' = [slot EXCEPT ![c] = t]
          /\ ctx' = Failed(slot, ctx, g)
      BY <1>1, <1>2, <1>10, <2>3, ReleasedOps
    <3> HIDE DEF t
    <3>2. \A d \in Controllers :
            /\ slot'[d].typed = slot[d].typed /\ Blames(slot[d], slot'[d])
            /\ slot'[d].owner = slot[d].owner \/ slot[d].owner = g
      BY <1>1, <3>1, ReleaseSlots
    <3>3. \A h \in Commands \ {g} : Gives(h)
      BY <1>1, <3>1, FailedOnly DEF Gives
    <3>4. Grants(g)
      BY <1>4, <1>6, <1>7, <2>1, <3>2, <3>3 DEF Grants
    <3> QED
      BY <1>3, <1>6, <1>8, <3>2, <3>4, OneKeeps
  <2> QED
    BY <2>2, <2>3
<1>11. CASE /\ resp' = [resp EXCEPT ![g] = "taken"] /\ UNCHANGED ctx
            /\ slot' = [slot EXCEPT ![c] = s]
  <2>1. \A d \in Controllers :
          /\ slot'[d].typed = slot[d].typed /\ Blames(slot[d], slot'[d])
          /\ slot'[d].owner = slot[d].owner
    BY <1>1, <1>2, <1>11, AlikeSlots
  <2>2. Spent(g)' => Spent(g)
    BY <1>3, <1>11 DEF Spent
  <2>3. Grants(g)
    BY <1>4, <1>6, <1>7, <1>11, <2>1, <2>2 DEF Grants, Gives
  <2> QED
    BY <1>3, <1>6, <1>8, <2>1, <2>3, OneKeeps
<1> QED
  BY <1>5, <1>9, <1>10, <1>11

LEMMA HandleKeeps ==
  ASSUME IInv, Orderly, TypeOK', NEW g \in Goals, HandleSet(g)
  PROVE  Orderly'
<1> DEFINE c == CtlOf[g]
           s == [slot[c] EXCEPT !.handle = g]
<1>1. /\ c \in Controllers /\ slot[c] \in Slot
      /\ slot \in [Controllers -> Slot]
      /\ DOMAIN run = Goals /\ DOMAIN resp = Goals
      /\ TypeOK /\ Regular(g)
  BY StageOf
<1>2. s \in Slot /\ Alike(slot[c], s)
  BY <1>1 DEF Slot, Alike
<1>3. /\ resp[g] = "taken" /\ UNCHANGED <<ctx, reserved, run, done, down>>
      /\ slot' = [slot EXCEPT ![c] = s]
      /\ resp' = [resp EXCEPT ![g] = "clear"] \/ resp' = [resp EXCEPT ![g] = "blocked"]
  BY DEF HandleSet
<1> HIDE DEF s
<1>4. Alone(g) /\ resp'[g] \in {"clear", "blocked"}
  BY <1>1, <1>3 DEF Alone
<1>5. Regular(g)' /\ Engaged(g) /\ (Spent(g)' => Spent(g)) /\ run[g] \notin Pre
  BY <1>1, <1>3, <1>4 DEF Regular, Engaged, Spent, Live, IInv, Traced
<1>6. \A d \in Controllers :
        /\ slot'[d].typed = slot[d].typed /\ Blames(slot[d], slot'[d])
        /\ slot'[d].owner = slot[d].owner
  BY <1>1, <1>2, <1>3, AlikeSlots
<1>7. Grants(g)
  BY <1>3, <1>4, <1>5, <1>6 DEF Grants, Gives
<1> QED
  BY <1>3, <1>4, <1>5, <1>6, <1>7, OneKeeps DEF Pre
(* A transport failure blames g, which owns the controller.                *)
LEMMA LosesKeep ==
  ASSUME IInv, Orderly, TypeOK', NEW g \in Goals, NEW s \in Slot, NEW b,
         Alike(slot[CtlOf[g]], s), slot[CtlOf[g]].owner = g,
         Cancelling({CtlOf[g]}, [slot EXCEPT ![CtlOf[g]] = Latched(s, g)],
                    Lost(g, b), FALSE),
         Alone(g), Engaged(g)' => Engaged(g),
         resp[g] = "over" => resp'[g] = "over", Regular(g)',
         UNCHANGED <<reserved, run>>, run[g] \notin {"idle", "reserved"}
  PROVE  Orderly'
<1> DEFINE c == CtlOf[g]
           t == Latched(s, g)
           S == [slot EXCEPT ![c] = t]
           X == IF b THEN Noted(ctx, g) ELSE ctx
           Y == Failed(slot, X, g)
<1>1. /\ c \in Controllers /\ TypeOK
      /\ slot \in [Controllers -> Slot] /\ ctx \in [Commands -> Context]
  BY StageOf
<1>2. Cancelling({c}, S, Y, FALSE)
  BY DEF Lost
<1>3. Holds(slot[c], t) /\ t.tomb # None
  <2>1. Holds(s, t) /\ (g # None => t.tomb # None)
    BY LatchedHolds DEF Alike
  <2>2. g # None
    BY GateConstants
  <2> HIDE DEF t
  <2> QED
    BY <2>1, <2>2, AlikeHolds
<1>4. t \in Slot
  BY SlotOps
<1>5. X \in [Commands -> Context] /\ \A h \in Commands : X[h].terminal = ctx[h].terminal
  BY <1>1, NotedOps
<1> HIDE DEF t, X
<1>6. Y \in [Commands -> Context]
      /\ \A h \in Commands : Y[h].terminal => ctx[h].terminal \/ h = g
  <2>1. Y \in [Commands -> Context]
    BY <1>5 DEF Failed, Ended, Context
  <2>2. \A h \in Commands : Y[h].terminal => X[h].terminal \/ h = g
    BY <1>5, FailedOnly
  <2> QED
    BY <1>5, <2>1, <2>2
<1> HIDE DEF Y
<1>7. S \in [Controllers -> Slot] /\ S[c] = t
      /\ HoldAll(S)
  BY <1>1, <1>3, <1>4 DEF Holds, Blames, HoldAll
<1> HIDE DEF S
<1>8. /\ \A d \in Controllers : Holds(slot[d], slot'[d])
                                /\ slot'[d].tomb = S[d].tomb
      /\ \A h \in Commands : ctx'[h].terminal = Y[h].terminal
  BY <1>1, <1>2, <1>6, <1>7, CancellingHolds
<1>9. slot'[c].tomb # None
  BY <1>1, <1>3, <1>7, <1>8
<1>10. Grants(g)
  BY <1>6, <1>8, <1>9 DEF Grants, Holds, Gives
<1> QED
  BY <1>8, <1>10, OneKeeps DEF Holds

(* The result is asked for.                                                *)
LEMMA RequestKeeps ==
  ASSUME IInv, Orderly, TypeOK', NEW g \in Goals, RequestResult(g)
  PROVE  Orderly'
<1> DEFINE c == CtlOf[g]
           s == [slot[c] EXCEPT !.res = g, !.deadline = TRUE]
           S == [slot EXCEPT ![c] = s]
           X == IF g \in captured THEN Noted(ctx, g) ELSE ctx
<1>1. /\ c \in Controllers /\ slot[c] \in Slot
      /\ slot \in [Controllers -> Slot] /\ ctx \in [Commands -> Context]
      /\ DOMAIN run = Goals /\ DOMAIN resp = Goals /\ DOMAIN done = Goals
      /\ TypeOK /\ Regular(g) /\ Alike(slot[c], slot[c])
  BY StageOf
<1>2. s \in Slot /\ Alike(slot[c], s)
  BY <1>1 DEF Slot, Alike
<1>3. /\ resp[g] \in {"clear", "blocked"} /\ UNCHANGED <<reserved, run, down>>
      /\ resp' = [resp EXCEPT ![g] = "over"]
      /\ \/ /\ done' = [done EXCEPT ![g] = "pending"]
            /\ \/ Cancelling({c}, S, ctx, FALSE)
               \/ Cancelling({c}, S, X, FALSE)
               \/ slot' = S /\ UNCHANGED ctx
         \/ /\ Cancelling({c}, [slot EXCEPT ![c] = Latched(slot[c], g)],
                          Lost(g, g \in captured), FALSE)
            /\ UNCHANGED done
  BY DEF RequestResult, Lost
<1>4. Engaged(g) /\ run[g] \notin Pre /\ slot[c].owner = g
  <2>1. Engaged(g) /\ run[g] \notin Pre
    BY <1>3 DEF Engaged, IInv, Traced
  <2> QED
    BY <2>1 DEF Orderly, Claimed
<1>5. Alone(g) /\ resp'[g] = "over"
  BY <1>1, <1>3 DEF Alone
<1>6. run[g] \notin {"idle", "reserved"}
  BY <1>4 DEF Pre
<1>6a. X \in [Commands -> Context] /\ \A h \in Commands : X[h].terminal = ctx[h].terminal
  BY <1>1, NotedOps
<1> HIDE DEF X
<1>7. CASE /\ Cancelling({c}, [slot EXCEPT ![c] = Latched(slot[c], g)],
                         Lost(g, g \in captured), FALSE)
           /\ UNCHANGED done
  <2>1. Regular(g)'
    BY <1>1, <1>3, <1>5, <1>7 DEF Regular, Live
  <2> QED
    BY <1>1, <1>3, <1>4, <1>5, <1>6, <1>7, <2>1, LosesKeep
<1>8. CASE /\ done' = [done EXCEPT ![g] = "pending"]
           /\ \/ Cancelling({c}, S, ctx, FALSE)
              \/ Cancelling({c}, S, X, FALSE)
              \/ slot' = S /\ UNCHANGED ctx
  <2> HIDE DEF s
  <2>1. S \in [Controllers -> Slot] /\ \A d \in Controllers : Alike(slot[d], S[d])
    BY <1>1, <1>2 DEF Alike
  <2>2. HoldAll(S)
    BY <2>1, AlikeHolds DEF HoldAll
  <2> HIDE DEF S
  <2>3. /\ \A d \in Controllers : Holds(slot[d], slot'[d])
        /\ \A h \in Commands : ctx'[h].terminal = ctx[h].terminal
    <3>1. CASE Cancelling({c}, S, ctx, FALSE)
      BY <1>1, <2>1, <2>2, <3>1, CancellingHolds
    <3>2. CASE slot' = S /\ UNCHANGED ctx
      BY <2>2, <3>2 DEF HoldAll
    <3>3. CASE Cancelling({c}, S, X, FALSE)
      BY <1>1, <1>6a, <2>1, <2>2, <3>3, CancellingHolds
    <3> QED
      BY <1>8, <3>1, <3>2, <3>3
  <2>4. Regular(g)' /\ (Spent(g)' /\ g \in Commands => Spent(g))
    BY <1>1, <1>3, <1>5, <1>8, <2>3 DEF Regular, Live, Spent
  <2>5. Grants(g)
    BY <1>4, <1>5, <2>3, <2>4 DEF Grants, Holds, Gives
  <2> QED
    BY <1>3, <1>5, <1>6, <2>3, <2>5, OneKeeps DEF Holds
<1> QED
  BY <1>3, <1>7, <1>8
(* The result.                                                             *)
LEMMA ResultKeeps ==
  ASSUME IInv, Orderly, TypeOK', NEW g \in Goals, ResultCallback(g)
  PROVE  Orderly'
<1> DEFINE c == CtlOf[g]
<1>1. /\ c \in Controllers /\ slot[c] \in Slot
      /\ slot \in [Controllers -> Slot] /\ ctx \in [Commands -> Context]
      /\ DOMAIN run = Goals /\ DOMAIN resp = Goals /\ DOMAIN done = Goals
      /\ TypeOK /\ Regular(g) /\ Alike(slot[c], slot[c])
  BY StageOf
<1>2. UNCHANGED <<reserved, run, resp, down>>
  BY DEF ResultCallback, ResultLate, ResultException, ResultTombstoned, Result,
         ResultRelease, ResultClear
<1>3. done[g] # "none" /\ \E d \in {"over", "release", "clear"} :
                            done' = [done EXCEPT ![g] = d]
  BY <1>1 DEF ResultCallback, ResultLate, ResultException, ResultTombstoned, Result,
         ResultRelease, ResultClear, Statuses, Ends
<1>4. Alone(g) /\ resp[g] = "over" /\ run[g] \notin Pre
  BY <1>1, <1>2, <1>3 DEF Alone, Regular, IInv, Traced
<1>5. run'[g] \notin {"idle", "reserved"} /\ (Engaged(g)' <=> Engaged(g))
      /\ (Engaged(g) <=> Live(g))
  BY <1>2, <1>4 DEF Pre, Engaged, Live, Answered
<1>6. done'[g] # "release" \/ ~Live(g) => Regular(g)'
  BY <1>1, <1>2, <1>3, <1>4 DEF Regular, Live
<1>7. CASE ResultLate(g)
  <2>1. UNCHANGED <<slot, ctx>> /\ done'[g] = "over"
    BY <1>1, <1>7 DEF ResultLate
  <2>2. Regular(g)' /\ (Spent(g)' => Spent(g))
    BY <1>2, <1>6, <2>1 DEF Spent
  <2>3. Grants(g)
    BY <1>2, <1>5, <2>1, <2>2 DEF Grants, Gives, Blames
  <2> QED
    BY <1>2, <1>4, <1>5, <2>1, <2>3, OneKeeps
<1>8. CASE ResultException(g)
  <2> DEFINE s == [slot[c] EXCEPT !.res = None, !.deadline = FALSE]
  <2>1. s \in Slot /\ Alike(slot[c], s)
    BY <1>1 DEF Slot, Alike
  <2>2. /\ slot[c].owner = g /\ done'[g] = "over"
        /\ Cancelling({c}, [slot EXCEPT ![c] = Latched(s, g)],
                      Lost(g, slot[c].typed = g), FALSE)
    BY <1>1, <1>8 DEF ResultException, Lost
  <2> HIDE DEF s
  <2>3. Regular(g)'
    BY <1>6, <2>2
  <2>4. run[g] \notin {"idle", "reserved"}
    BY <1>4 DEF Pre
  <2> QED
    BY <1>2, <1>4, <1>5, <2>1, <2>2, <2>3, <2>4, LosesKeep
<1>9. CASE ResultTombstoned(g)
  <2> DEFINE r == [slot[c] EXCEPT !.tomb.confirmed = TRUE]
             t == Cleared(r)
  <2>1. /\ Tombstoned(slot[c], g) /\ UNCHANGED ctx /\ done'[g] = "over"
        /\ slot' = [slot EXCEPT ![c] = t] \/ UNCHANGED slot
    BY <1>1, <1>9 DEF ResultTombstoned
  <2>2. /\ t.typed = slot[c].typed /\ t.owner = slot[c].owner
        /\ slot[c].tomb # None /\ t.tomb # None /\ t.tomb.goal = slot[c].tomb.goal
        /\ slot[c].tomb.goal = g
    <3>1. slot[c].tomb \in Tombstone /\ slot[c].tomb.goal = g /\ slot[c].tomb # None
      BY <1>1, <2>1 DEF Slot, Tombstoned
    <3> DEFINE b == [slot[c].tomb EXCEPT !.confirmed = TRUE]
    <3>2. b \in Tombstone /\ b.goal = g
      BY <3>1 DEF Tombstone
    <3>3. b # None
      BY <3>2, GateConstants
    <3>4. r = [slot[c] EXCEPT !.tomb = b]
      OBVIOUS
    <3> HIDE DEF b
    <3>5. /\ r \in Slot /\ r.tomb = b
          /\ r.typed = slot[c].typed /\ r.owner = slot[c].owner
      BY <1>1, <3>2, <3>4 DEF Slot
    <3> HIDE DEF r
    <3>6. Alike(r, t)
      BY <3>5, SlotOps
    <3> QED
      BY <3>1, <3>2, <3>3, <3>5, <3>6 DEF Alike
  <2> HIDE DEF t, r
  <2>3. \A d \in Controllers :
          /\ slot'[d].typed = slot[d].typed /\ slot'[d].owner = slot[d].owner
          /\ Blames(slot[d], slot'[d]) \/ Confirms(slot[d], slot'[d])
    BY <1>1, <1>2, <1>4, <2>1, <2>2 DEF Blames, Confirms
  <2>4. Regular(g)' /\ (Spent(g)' => Spent(g))
    BY <1>2, <1>6, <2>1 DEF Spent
  <2>5. Grants(g)
    BY <1>2, <1>5, <2>1, <2>3, <2>4 DEF Grants, Gives
  <2> QED
    BY <1>2, <1>4, <1>5, <2>3, <2>5, OneKeeps
<1>10. CASE Result(g)
  <2>1. /\ UNCHANGED slot /\ done[g] \in Ends \cup {"unknown"} /\ done'[g] = "release"
        /\ \E cancelled \in BOOLEAN :
             ctx' = Ended(slot, ctx, g, done[g], TRUE, Success(g, cancelled))
    <3> DEFINE cancelled == slot[c].typed = g /\ ctx[g].cancelled
    <3>1. CASE cancelled
      BY <1>1, <1>10, <3>1 DEF Result
    <3>2. CASE ~cancelled
      BY <1>1, <1>10, <3>2 DEF Result
    <3> QED
      BY <3>1, <3>2
  <2>2. ~Live(g)
    BY <1>1, <2>1 DEF Regular, IInv, Traced, Live, Ends
  <2>3. \A h \in Commands \ {g} : Gives(h)
    <3> SUFFICES ASSUME NEW h \in Commands \ {g}
                 PROVE  ctx'[h].terminal => ctx[h].terminal
      BY DEF Gives
    <3>1. PICK cancelled \in BOOLEAN :
            ctx' = Ended(slot, ctx, g, done[g], TRUE, Success(g, cancelled))
      BY <2>1
    <3>2. Ended(slot, ctx, g, done[g], TRUE, Success(g, cancelled))[h].terminal
            => ctx[h].terminal \/ (h = g /\ slot[CtlOf[h]].typed = h)
      BY <1>1, EndedOnly, ZenonT(60)
    <3> QED
      BY <3>1, <3>2
  <2>4. Grants(g)
    BY <1>2, <1>5, <1>6, <2>1, <2>2, <2>3 DEF Grants, Blames
  <2> QED
    BY <1>2, <1>4, <1>5, <2>1, <2>4, OneKeeps
<1>11. CASE ResultRelease(g)
  <2> DEFINE t == Released(slot[c], g)
  <2>1. /\ slot' = [slot EXCEPT ![c] = t] /\ UNCHANGED ctx
        /\ done[g] = "release" /\ done'[g] = "clear"
    BY <1>1, <1>11 DEF ResultRelease
  <2>2. ~Live(g)
    BY <1>1, <2>1 DEF Regular
  <2>3. Yields(slot[c], t, g)
    BY <1>1, ReleasedOps
  <2> HIDE DEF t
  <2>4. \A d \in Controllers :
          /\ slot'[d].typed = slot[d].typed /\ Blames(slot[d], slot'[d])
          /\ slot'[d].owner = slot[d].owner \/ slot[d].owner = g
    BY <1>1, <2>1, <2>3, ReleaseSlots
  <2>5. Grants(g)
    BY <1>2, <1>5, <1>6, <2>1, <2>2, <2>4 DEF Grants, Gives
  <2> QED
    BY <1>2, <1>4, <1>5, <2>4, <2>5, OneKeeps
<1>12. CASE ResultClear(g)
  <2> DEFINE t == Cleared(slot[c])
  <2>1. /\ slot' = [slot EXCEPT ![c] = t] /\ UNCHANGED ctx /\ done'[g] = "over"
    BY <1>1, <1>12 DEF ResultClear
  <2>2. t \in Slot /\ Alike(slot[c], t)
    BY <1>1, SlotOps
  <2> HIDE DEF t
  <2>3. \A d \in Controllers :
          /\ slot'[d].typed = slot[d].typed /\ Blames(slot[d], slot'[d])
          /\ slot'[d].owner = slot[d].owner
    BY <1>1, <2>1, <2>2, AlikeSlots
  <2>4. Regular(g)' /\ (Spent(g)' => Spent(g))
    BY <1>2, <1>6, <2>1 DEF Spent
  <2>5. Grants(g)
    BY <1>2, <1>5, <2>1, <2>3, <2>4 DEF Grants, Gives
  <2> QED
    BY <1>2, <1>4, <1>5, <2>3, <2>5, OneKeeps
<1> QED
  BY <1>7, <1>8, <1>9, <1>10, <1>11, <1>12 DEF ResultCallback

(* The controller and its answers.                                         *)
LEMMA DownstreamKeeps ==
  ASSUME IInv, Orderly, TypeOK', Faithful, NEW g \in Goals, Downstream(g)
  PROVE  Orderly'
<1>1. /\ DOMAIN run = Goals /\ DOMAIN resp = Goals /\ DOMAIN done = Goals
      /\ DOMAIN down = Goals /\ Regular(g)
  BY StageOf
<1>2. UNCHANGED <<slot, ctx, reserved, run>>
  BY DEF Downstream, DownstreamStep, AnswerGoal, AnswerResult
<1>3. /\ Spent(g)' => Spent(g)
      /\ \A d \in Controllers :
           /\ slot'[d].typed = slot[d].typed /\ Blames(slot[d], slot'[d])
           /\ slot'[d].owner = slot[d].owner
  BY <1>2 DEF Spent, Blames
<1>4. \/ /\ UNCHANGED <<resp, done>> /\ Live(g)
         /\ \E state \in Over \cup {"active"} : down' = [down EXCEPT ![g] = state]
      \/ /\ UNCHANGED <<done, down>> /\ resp[g] = "pending"
         /\ \E answer \in {"accepted", "rejected"} : resp' = [resp EXCEPT ![g] = answer]
      \/ /\ UNCHANGED <<resp, down>> /\ done[g] = "pending"
         /\ \E answer \in Ends \cup {"failed"} : done' = [done EXCEPT ![g] = answer]
  <2>1. CASE \E state \in Over \cup {"active"} : DownstreamStep(g, state)
    BY <2>1 DEF DownstreamStep, Live
  <2>2. CASE AnswerGoal(g)
    <3>1. PICK answer \in Answered :
            /\ answer = "failed" => "response" \in Failures
            /\ resp' = [resp EXCEPT ![g] = answer]
      BY <2>2 DEF AnswerGoal
    <3>2. answer \in {"accepted", "rejected"}
      BY <3>1 DEF Faithful, Answered
    <3> QED
      BY <2>2, <3>1, <3>2 DEF AnswerGoal
  <2>3. CASE AnswerResult(g)
    <3>1. PICK answer \in Statuses :
            /\ answer = "unknown" => "unknown" \in Failures
            /\ done' = [done EXCEPT ![g] = answer]
      BY <2>3 DEF AnswerResult
    <3>2. answer \in Ends \cup {"failed"}
      BY <3>1 DEF Faithful, Statuses
    <3> QED
      BY <2>3, <3>1, <3>2 DEF AnswerResult
  <2> QED
    BY <2>1, <2>2, <2>3 DEF Downstream
<1>5. Alone(g)
  BY <1>1, <1>2, <1>4 DEF Alone
<1>6. Engaged(g)' => Engaged(g)
  BY <1>1, <1>2, <1>4 DEF Engaged, Live
<1>7. Regular(g)' /\ (resp[g] = "over" => resp'[g] = "over")
  BY <1>1, <1>4 DEF Regular, Live, Ends
<1>8. Grants(g)
  BY <1>2, <1>3, <1>6, <1>7 DEF Grants, Gives
<1> QED
  BY <1>2, <1>3, <1>5, <1>8, OneKeeps
-----------------------------------------------------------------------------
(* The reset, the initial states and the theorems.                         *)

(* When nothing is active every goal that had a controller is over: it left*)
(* a tombstone that an end confirmed.                                      *)
LEMMA QuietIsOver ==
  ASSUME IInv, Orderly, ~Active, NEW g \in Goals
  PROVE  ~Engaged(g)
<1> SUFFICES ASSUME Engaged(g)
             PROVE  FALSE
  OBVIOUS
<1> DEFINE c == CtlOf[g]
<1>1. c \in Controllers /\ g # None /\ slot[c].owner = g
  BY GateConstants DEF Orderly, Claimed
<1>2. Tombstoned(slot[c], g) /\ slot[c].tomb.confirmed
  BY <1>1 DEF Active, Tombstoned
<1>3. down[g] \in Over /\ resp[g] = "over"
  BY <1>1, <1>2 DEF IInv, Buried, Orderly, Sealed, Tombstoned
<1>4. run[g] \in {"reserved", "bound", "admit", "send"}
  BY <1>3 DEF Engaged, Live, Over, Answered
<1> QED
  BY <1>3, <1>4 DEF IInv, Traced, Pre, Over

LEMMA ResetKeeps ==
  ASSUME IInv, Orderly, Quiet, ResetDone
  PROVE  Orderly' /\ \A g \in Goals : ~Live(g)
<1>1. resetting /\ UNCHANGED <<ctx, reserved, run, resp, done, down>>
  BY Zenon DEF ResetDone
<1>2. \A g \in Goals : ~Engaged(g)
  BY <1>1, QuietIsOver DEF Quiet
<1>3. \A c \in Controllers : slot'[c].tomb = None /\ slot'[c].typed = slot[c].typed
  <2> SUFFICES ASSUME NEW c \in Controllers
               PROVE  slot'[c].tomb = None /\ slot'[c].typed = slot[c].typed
    OBVIOUS
  <2>1. slot'[c] = [slot[c] EXCEPT !.owner = None, !.tomb = None, !.attempts = 0,
                                   !.retry = FALSE, !.exhausted = FALSE]
    BY Zenon DEF ResetDone
  <2>2. slot[c] \in Slot
    BY DEF IInv, TypeOK
  <2> QED
    BY <2>1, <2>2 DEF Slot
<1>4. \A g \in Goals : ~Engaged(g)' /\ ~Live(g)
  BY <1>1, <1>2 DEF Engaged, Live
<1>5. Claimed' /\ Marked' /\ Sealed'
  BY <1>3, <1>4 DEF Claimed, Marked, Sealed, Goals
<1>6. Served'
  BY <1>1 DEF Orderly, Served, Regular, Live
<1>7. Seated'
  BY <1>1, <1>3, GateConstants DEF Orderly, Seated, Goals
<1> QED
  BY <1>4, <1>5, <1>6, <1>7 DEF Orderly

LEMMA CallbackKeeps ==
  ASSUME Faithful, IInv, Orderly, TypeOK', Callback
  PROVE  Orderly'
<1>1. ASSUME NEW g \in Commands, CommandStep(g)
      PROVE  Orderly'
  <2>1. g \in Goals
    BY DEF Goals
  <2>2. ~ExecuteFails(g)
    BY DEF Faithful, ExecuteFails
  <2> QED
    BY <1>1, <2>1, <2>2, ClaimsKeep, CancelsKeep, BindKeeps, UnbindKeeps, DispatchKeeps,
       CloseKeeps DEF CommandStep, Execute
<1>2. ASSUME NEW g \in Legacy, LegacyRequest(g)
      PROVE  Orderly'
  <2>1. g \in Goals
    BY DEF Goals
  <2> QED
    BY <1>2, <2>1, ClaimsKeep
<1>3. ASSUME NEW g \in Goals, GoalStep(g)
      PROVE  Orderly'
  BY <1>3, DispatchKeeps, GoalResponseKeeps, HandleKeeps, RequestKeeps, ResultKeeps,
     FailuresKeep DEF GoalStep, Dispatch
<1>4. ASSUME NEW f \in cancels, CancelResponse(f)
      PROVE  Orderly'
  BY <1>4, FailuresKeep
<1>5. ASSUME NEW c \in Controllers, Watchdog(c)
      PROVE  Orderly'
  BY <1>5, CancelsKeep, CalmStepsKeep, FailuresKeep DEF Watchdog
<1>6. ASSUME NEW b \in BOOLEAN, Refused(b) \/ Permitted(b)
      PROVE  Orderly'
  BY <1>6, CancelsKeep, CalmStepsKeep
<1>7. ResetRefused \/ ResetChecked => Orderly'
  BY CancelsKeep, CalmStepsKeep
<1> QED
  BY <1>1, <1>2, <1>3, <1>4, <1>5, <1>6, <1>7 DEF Callback

LEMMA StepKeeps ==
  ASSUME Faithful, IInv, Orderly, Quiet, [Next]_vars
  PROVE  /\ Orderly'
         /\ epoch' # epoch => \A g \in Goals : ~Live(g)
<1>1. TypeOK'
  BY StepEffect DEF Effect
<1>2. CASE ResetDone
  BY <1>2, ResetKeeps
<1>3. CASE Callback
  BY <1>1, <1>3, CallbackKeeps, ResettingKept
<1>4. CASE \E g \in Goals : Downstream(g)
  BY <1>1, <1>4, DownstreamKeeps, ResettingKept
<1>5. CASE UNCHANGED vars
  <2>1. UNCHANGED epoch
    BY <1>5 DEF vars
  <2> QED
    BY <1>1, <1>5, <2>1, CalmStepsKeep
<1> QED
  BY <1>2, <1>3, <1>4, <1>5 DEF Next

LEMMA InitOrderly == Init => Orderly /\ Quiet
<1> SUFFICES ASSUME Init
             PROVE  Orderly /\ Quiet
  OBVIOUS
<1>1. \A g \in Goals : ~Engaged(g) /\ Regular(g) /\ CtlOf[g] \in Controllers
  BY GateConstants DEF Init, Engaged, Live, Answered, Regular
<1>2. \A c \in Controllers : slot[c].typed = None /\ slot[c].tomb = None
  BY DEF Init, Idle
<1>3. Seated
  BY <1>1, <1>2, GateConstants DEF Init, Seated, Goals
<1>4. Claimed /\ Marked /\ Served /\ Sealed
  BY <1>1, <1>2 DEF Claimed, Marked, Served, Sealed, Goals
<1> QED
  BY <1>3, <1>4 DEF Init, Orderly, Quiet

LEMMA Order == Faithful /\ Spec => [](IInv /\ Orderly /\ Quiet)
<1>1. CASE ~Faithful
  BY <1>1
<1>2. CASE Faithful
  <2>1. IInv /\ Orderly /\ Quiet /\ [Next]_vars => Orderly' /\ Quiet'
    BY <1>2, StepKeeps, QuietKept DEF Faithful
  <2>2. Spec => [](Orderly /\ Quiet)
    BY <2>1, InitOrderly, Invariance, PTL DEF Spec
  <2> QED
    BY <2>2, Invariance, PTL
<1> QED
  BY <1>1, <1>2

(* The goal that may move a controller is the one the gate holds as its    *)
(* owner: every _release_controller_owner waits for the end of the goal.   *)
(* This is so as long as a controller accepts or rejects what it is sent,  *)
(* a result has a status, the execute thread does not raise and a reset is *)
(* not overtaken; sends, result requests, results and cancels may all fail,*)
(* and any deadline may pass.                                              *)
THEOREM MotionsAreOwned == Faithful /\ Spec => []MotionIsOwned
<1>1. Orderly => MotionIsOwned
  BY DEF Orderly, Claimed, Engaged, MotionIsOwned
<1> QED
  BY <1>1, Order, PTL

(* A successful _on_reset finds nothing moving, under the same conditions. *)
THEOREM ResetsAreQuiet == Faithful /\ Spec => ResetIsQuiet
<1>1. CASE ~Faithful
  BY <1>1
<1>2. CASE Faithful
  <2>1. IInv /\ Orderly /\ Quiet /\ [Next]_vars =>
          [epoch' # epoch => \A g \in Goals : ~Live(g)]_vars
    BY <1>2, StepKeeps
  <2> QED
    BY <1>2, <2>1, Order, PTL DEF Spec, ResetIsQuiet
<1> QED
  BY <1>1, <1>2
=============================================================================
