---------------------------- MODULE TrajectoryGate ----------------------------
(***************************************************************************)
(* The command boundary in front of the two joint-trajectory controllers:  *)
(* ros_ws/src/edgegrasp_ros/edgegrasp_ros/trajectory_gate.py.              *)
(*                                                                         *)
(* The node runs in a MultiThreadedExecutor and most of its callbacks are  *)
(* in a re-entrant group, so its methods interleave.  An action is a part  *)
(* of a method in which no other callback of the same controller can be    *)
(* noticed: a block under _state_lock, or the code between two points      *)
(* where another thread's write changes what the method does next.  Each   *)
(* goal has three threads: run (the execute callback, or the dispatch of a *)
(* legacy topic message), resp (the goal-response callback) and done (the  *)
(* result callback).  Timeouts are not measured: a deadline that is armed  *)
(* may be seen as past by any watchdog tick.  A turn of the wait loop and a *)
(* result callback hold on to the context within one action only; the goal *)
(* response holds on to it over three (captured).  Of a context only what  *)
(* ends the action goal and what decides a result is kept: its accepted    *)
(* flag, reason, codes and feedback are left out.                          *)
(***************************************************************************)
EXTENDS Integers, FiniteSets

CONSTANTS
  Controllers,   \* CONTROLLERS
  Commands,      \* typed commands; an identifier is submitted once
  Legacy,        \* trajectories that come in on the legacy topics
  CtlOf,         \* the controller each of them is for
  MaxAttempts,   \* max_cancel_attempts
  MaxAsking,     \* bound on the threads that are in _cancel_controller, past
                 \* its checks, for one goal at the same time
  MaxResets,     \* bound on successful resets
  ResetGap,      \* whether callbacks run between the two locks of _on_reset
  Failures,      \* the transport failures that may happen
  None

Goals == Commands \cup Legacy
Over  == {"refused", "succeeded", "canceled", "aborted"}
Ends  == {"succeeded", "canceled", "aborted"}   \* a proven terminal status
AllFailures == {"send", "response", "request", "result", "unknown", "cancel",
                "execute"}

Tombstone == [goal : Goals, confirmed : BOOLEAN]
Calls == Goals \X (1..(MaxAttempts + MaxAsking))  \* a cancel request's future

(* What the node keeps for a controller: the _x[controller] dictionaries.  *)
Slot ==
  [owner : Goals \cup {None}, typed : Commands \cup {None},
   tomb : Tombstone \cup {None},
   send : Goals \cup {None}, handle : Goals \cup {None},
   res : Goals \cup {None}, deadline : BOOLEAN,
   onAccept : BOOLEAN, requested : BOOLEAN, cancel : Calls \cup {None},
   attempts : 0..(MaxAttempts + MaxAsking), retry : BOOLEAN,
   exhausted : BOOLEAN]

(* _TypedExecution. *)
Context == [terminal : BOOLEAN, cancelled : BOOLEAN, success : BOOLEAN,
            status : Ends \cup {"unknown"}, observed : BOOLEAN]

ASSUME GateConstants ==
  /\ Commands \cap Legacy = {} /\ None \notin Goals \cup Calls \cup Tombstone
  /\ CtlOf \in [Goals -> Controllers]
  /\ MaxAttempts \in Nat \ {0} /\ MaxAsking \in Nat \ {0} /\ MaxResets \in Nat
  /\ ResetGap \in BOOLEAN /\ Failures \subseteq AllFailures

VARIABLES
  fault,       \* _fault_latched is set
  permitted,   \* permission, interface, target and joint states all recent
  slot, ctx,
  reserved,    \* _typed_reservations
  asked,       \* open typed goals whose client requested a cancel
  reported,    \* the state the typed goal was ended in
  run, resp, done,
  captured,    \* typed goals whose response callback holds on to the context
  asking,      \* threads of _cancel_controller about to call cancel_goal_async
  cancels,     \* cancel requests that are not answered
  watch,       \* the watchdog found the goal response overdue
  down,        \* what the controller does with the goal
  resetting, epoch

transport == <<asking, cancels, watch>>
vars == <<fault, permitted, slot, ctx, reserved, asked, reported, run, resp,
          captured, done, transport, down, resetting, epoch>>

Idle == [owner |-> None, typed |-> None, tomb |-> None, send |-> None,
         handle |-> None, res |-> None, deadline |-> FALSE,
         onAccept |-> FALSE, requested |-> FALSE, cancel |-> None,
         attempts |-> 0, retry |-> FALSE, exhausted |-> FALSE]

Init ==
  /\ fault = FALSE /\ permitted = FALSE
  /\ slot = [c \in Controllers |-> Idle]
  /\ ctx = [g \in Commands |->
              [terminal |-> FALSE, cancelled |-> FALSE, success |-> FALSE,
               status |-> "unknown", observed |-> FALSE]]
  /\ reserved = {} /\ asked = {} /\ reported = [g \in Commands |-> "none"]
  /\ run = [g \in Goals |-> "idle"] /\ resp = [g \in Goals |-> "none"]
  /\ captured = {} /\ done = [g \in Goals |-> "none"]
  /\ asking = [g \in Goals |-> 0] /\ cancels = {}
  /\ watch = [c \in Controllers |-> FALSE]
  /\ down = [g \in Goals |-> "none"]
  /\ resetting = FALSE /\ epoch = 0

-----------------------------------------------------------------------------
(* The helpers, as functions on a slot or on the contexts.                 *)

(* A name X_Y is a wrong variant of X, Y saying how; no specification uses *)
(* it.  They show which properties notice the mistake.                     *)
Blocked == fault \/ ~permitted   \* permission and _admission_state refuse
Live(g) == down[g] \in {"sent", "active"}

Ended_Rewrites(S, X, g, status, observed, success) ==
  IF g \in Commands /\ S[CtlOf[g]].typed = g
    THEN [X EXCEPT ![g] = [@ EXCEPT !.terminal = TRUE, !.status = status,
                                    !.observed = observed,
                                    !.success = success]]
    ELSE X

(* _complete_typed on the context bound to the controller, if it is g's;   *)
(* a context that is terminal stays as it is.                              *)
Ended(S, X, g, status, observed, success) ==
  IF g \in Commands /\ S[CtlOf[g]].typed = g /\ ~X[g].terminal
    THEN [X EXCEPT ![g] = [@ EXCEPT !.terminal = TRUE, !.status = status,
                                    !.observed = observed,
                                    !.success = success]]
    ELSE X
Failed(S, X, g) == Ended(S, X, g, "unknown", FALSE, FALSE)

(* _cancel_controller notes a reason only on a command that has not ended. *)
Flagged(X, g) ==
  IF g \in Commands /\ ~X[g].terminal THEN [X EXCEPT ![g].cancelled = TRUE]
                                      ELSE X

(* A callback notes its cancel reason on the context it has looked up,     *)
(* whether or not the command has ended in the meantime.                   *)
Noted(X, g) ==
  IF g \in Commands THEN [X EXCEPT ![g].cancelled = TRUE] ELSE X

(* _latch_typed_tombstone: the first uncertain command keeps the place.    *)
Latched(s, g) ==
  IF g = None \/ s.tomb # None THEN s
  ELSE [s EXCEPT !.tomb = [goal |-> g, confirmed |-> FALSE]]
Tombstoned(s, g) == s.tomb # None /\ s.tomb.goal = g

Released_Tombstoned(s, g) ==
  IF s.owner = g THEN [s EXCEPT !.owner = None] ELSE s

(* _release_controller_owner: a tombstoned command stays the owner.        *)
Released(s, g) ==
  IF s.owner = g /\ ~Tombstoned(s, g) THEN [s EXCEPT !.owner = None] ELSE s

(* _clear_low_level_after_terminal. *)
Cleared(s) ==
  [s EXCEPT !.handle = None, !.send = None, !.res = None,
            !.deadline = FALSE, !.requested = FALSE, !.cancel = None,
            !.onAccept = FALSE, !.retry = FALSE, !.exhausted = FALSE]

(* The command that is uncertain when a stop cannot be confirmed. *)
Culprit(s) == IF s.typed # None THEN s.typed ELSE s.owner

(* _cancel_controller up to its last check, for the controllers C, from    *)
(* slots S and contexts X: the bound context records a cancel reason, a    *)
(* goal that waits for its response is to be cancelled when accepted, and  *)
(* a goal that passes the checks is about to be cancelled (SendCancel).    *)
Passes(s, retrying) ==
  /\ s.handle # None /\ ~s.exhausted /\ ~s.requested
  /\ s.retry => retrying
Cancelling(C, S, X, retrying) ==
  /\ slot' = [c \in Controllers |->
       [S[c] EXCEPT !.onAccept =
          @ \/ (c \in C /\ S[c].send # None /\ S[c].handle = None)]]
  /\ ctx' = [g \in Commands |->
       IF CtlOf[g] \in C /\ S[CtlOf[g]].typed = g THEN Flagged(X, g)[g]
                                                  ELSE X[g]]
  /\ asking' = [g \in Goals |->
       IF \E c \in C : S[c].handle = g /\ Passes(S[c], retrying)
         THEN asking[g] + 1 ELSE asking[g]]
  /\ \A g \in Goals : asking'[g] <= MaxAsking
Cancel(C) == Cancelling(C, slot, ctx, FALSE)

(* _handle_cancel_failure: retry later, or give up and tombstone.          *)
Retryable(s) == s.handle # None /\ s.attempts < MaxAttempts
CancelFailed(s) ==
  LET r == [s EXCEPT !.requested = FALSE, !.cancel = None, !.deadline = FALSE]
  IN IF Retryable(s)
       THEN [r EXCEPT !.retry = TRUE]
       ELSE Latched([r EXCEPT !.exhausted = TRUE, !.retry = FALSE], Culprit(s))
CancelFailure_KeepsWaiting(c, s) ==
  /\ fault' = TRUE
  /\ slot' = [slot EXCEPT ![c] = CancelFailed(s)]
  /\ ctx' = ctx

CancelFailure(c, s) ==
  /\ fault' = TRUE
  /\ slot' = [slot EXCEPT ![c] = CancelFailed(s)]
  /\ ctx' = IF Retryable(s)
              THEN ctx ELSE Failed([slot EXCEPT ![c] = s], ctx, s.typed)

-----------------------------------------------------------------------------
(* Typed commands: the action server's callbacks and the execute thread.   *)

(* _on_typed_goal reserves the controller.  A goal it rejects changes      *)
(* nothing, a duplicate of a seen identifier among them.                   *)
TypedGoal(g) ==
  LET c == CtlOf[g] IN
  /\ run[g] = "idle" /\ ~fault
  /\ \A d \in Controllers : slot[d].tomb = None
  /\ \A h \in reserved : CtlOf[h] # c
  /\ slot[c].owner = None /\ slot[c].handle = None /\ slot[c].send = None
  /\ reserved' = reserved \cup {g}
  /\ slot' = [slot EXCEPT ![c].owner = g]
  /\ run' = [run EXCEPT ![g] = "reserved"]
  /\ UNCHANGED <<fault, permitted, ctx, asked, reported, resp, captured,
                 done, transport, down, resetting, epoch>>

(* _on_typed_cancel accepts; the action server then marks the goal.        *)
TypedCancel(g) ==
  LET c == CtlOf[g] IN
  /\ run[g] \in {"reserved", "bound", "admit", "send", "sent", "wait"}
  /\ g \notin asked
  /\ IF slot[c].typed = g THEN ~ctx[g].terminal ELSE g \in reserved
  /\ asked' = asked \cup {g}
  /\ Cancel({c})
  /\ UNCHANGED <<fault, permitted, reserved, reported, run, resp, captured,
                 done, cancels, watch, down, resetting, epoch>>

(* _execute_typed, first block: the context is bound to the controller if  *)
(* the reservation still stands.  Otherwise the command fails at once.     *)
Bind(g) ==
  LET c == CtlOf[g] IN
  /\ run[g] = "reserved"
  /\ IF g \in reserved /\ slot[c].owner = g /\ slot[c].typed = None
       THEN /\ slot' = [slot EXCEPT ![c].typed = g]
            /\ run' = [run EXCEPT ![g] = "bound"]
            /\ UNCHANGED ctx
       ELSE /\ ctx' = [ctx EXCEPT ![g].terminal = TRUE]
            /\ run' = [run EXCEPT ![g] = "wait"]
            /\ UNCHANGED slot
  /\ UNCHANGED <<fault, permitted, reserved, asked, reported, resp, captured,
                 done, transport, down, resetting, epoch>>

(* Its admission block: metadata or digest refused, cancelled before       *)
(* dispatch, or on to _dispatch_trajectory.                                *)
Check(g) ==
  /\ run[g] = "bound"
  /\ \/ /\ ctx' = Failed(slot, ctx, g)   \* metadata or digest refused
        /\ run' = [run EXCEPT ![g] = "wait"]
     \/ /\ g \in asked
        /\ ctx' = Ended(slot, Flagged(ctx, g), g, "canceled", FALSE, FALSE)
        /\ run' = [run EXCEPT ![g] = "wait"]
     \/ /\ g \notin asked
        /\ run' = [run EXCEPT ![g] = "admit"]
        /\ UNCHANGED ctx
  /\ UNCHANGED <<fault, permitted, slot, reserved, asked, reported, resp,
                 captured, done, transport, down, resetting, epoch>>

(* _on_trajectory: a legacy trajectory claims the controller.              *)
LegacyRequest(g) ==
  LET c == CtlOf[g] IN
  /\ g \in Legacy /\ run[g] = "idle" /\ ~fault
  /\ \A d \in Controllers : slot[d].tomb = None
  /\ slot[c].owner = None
  /\ slot' = [slot EXCEPT ![c].owner = g]
  /\ run' = [run EXCEPT ![g] = "admit"]
  /\ UNCHANGED <<fault, permitted, ctx, reserved, asked, reported, resp,
                 captured, done, transport, down, resetting, epoch>>

AfterDispatch(g) == IF g \in Commands THEN "wait" ELSE "over"

(* _dispatch_trajectory up to the send: every refusal ends the command and *)
(* releases the controller, a lost ownership only ends the command.        *)
Admit(g) ==
  LET c      == CtlOf[g]
      busy   == \/ slot[c].handle # None
                \/ slot[c].send # None /\ resp[slot[c].send] = "pending"
  IN
  /\ run[g] = "admit"
  /\ \/ /\ slot[c].owner = g /\ ~Blocked /\ ~busy
        /\ run' = [run EXCEPT ![g] = "send"]
        /\ UNCHANGED <<slot, ctx>>
     \/ /\ ctx' = Failed(slot, ctx, g)   \* refused, also for its contract
        /\ slot' = [slot EXCEPT ![c] = Released(@, g)]
        /\ run' = [run EXCEPT ![g] = AfterDispatch(g)]
  /\ UNCHANGED <<fault, permitted, reserved, asked, reported, resp, captured,
                 done, transport, down, resetting, epoch>>

(* The cancel flags are reset and the goal goes out.                       *)
Send(g) ==
  LET c == CtlOf[g]
      s == [slot[c] EXCEPT !.onAccept = FALSE, !.requested = FALSE,
                           !.attempts = 0, !.retry = FALSE,
                           !.exhausted = FALSE]
  IN
  /\ run[g] = "send"
  /\ \/ /\ slot' = [slot EXCEPT ![c] = s]
        /\ down' = [down EXCEPT ![g] = "sent"]
        /\ resp' = [resp EXCEPT ![g] = "pending"]
        /\ run' = [run EXCEPT ![g] = "sent"]
        /\ UNCHANGED <<fault, ctx>>
     \/ /\ "send" \in Failures
        /\ fault' = TRUE
        /\ ctx' = Failed(slot, ctx, g)
        /\ slot' = [slot EXCEPT ![c] = Released(s, g)]
        /\ run' = [run EXCEPT ![g] = AfterDispatch(g)]
        /\ UNCHANGED <<down, resp>>
  /\ UNCHANGED <<permitted, reserved, asked, reported, captured, done,
                 transport, resetting, epoch>>

(* The future is stored and its callback registered.                       *)
StoreFuture(g) ==
  /\ run[g] = "sent"
  /\ slot' = [slot EXCEPT ![CtlOf[g]].send = g]
  /\ run' = [run EXCEPT ![g] = AfterDispatch(g)]
  /\ UNCHANGED <<fault, permitted, ctx, reserved, asked, reported, resp,
                 captured, done, transport, down, resetting, epoch>>

(* The wait loop: a cancel that found no context, the wall-clock guard, or *)
(* the event.                                                              *)
WaitCancel(g) ==
  /\ run[g] = "wait" /\ ~ctx[g].terminal
  /\ g \in asked /\ ~ctx[g].cancelled
  /\ Cancelling({CtlOf[g]}, slot, Flagged(ctx, g), FALSE)
  /\ UNCHANGED <<fault, permitted, reserved, asked, reported, run, resp,
                 captured, done, cancels, watch, down, resetting, epoch>>

WallGuard(g) ==
  LET c == CtlOf[g] IN
  /\ run[g] = "wait" /\ ~ctx[g].terminal
  /\ fault' = TRUE
  /\ Cancelling({c}, [slot EXCEPT ![c] = Latched(@, g)],
                Failed(slot, Flagged(ctx, g), g), FALSE)
  /\ run' = [run EXCEPT ![g] = "finish"]
  /\ UNCHANGED <<permitted, reserved, asked, reported, resp, captured, done,
                 cancels, watch, down, resetting, epoch>>

Woken(g) ==
  /\ run[g] = "wait" /\ ctx[g].terminal
  /\ run' = [run EXCEPT ![g] = "finish"]
  /\ UNCHANGED <<fault, permitted, slot, ctx, reserved, asked, reported,
                 resp, captured, done, transport, down, resetting, epoch>>

(* The state the action goal is ended in. *)
Finish(g) ==
  /\ run[g] = "finish"
  /\ reported' = [reported EXCEPT ![g] =
       CASE ctx[g].success                             -> "succeeded"
         [] g \in asked /\ ctx[g].status = "canceled"  -> "canceled"
         [] OTHER                                      -> "aborted"]
  /\ run' = [run EXCEPT ![g] = "unbind"]
  /\ UNCHANGED <<fault, permitted, slot, ctx, reserved, asked, resp,
                 captured, done, transport, down, resetting, epoch>>

(* The exception handler: stop what may be active, fail, abort the goal.   *)
ExecuteFails(g) ==
  LET c      == CtlOf[g]
      maybe  == \/ slot[c].send # None \/ slot[c].handle # None
                \/ slot[c].res # None \/ slot[c].cancel # None
      flagged == [ctx EXCEPT ![g].cancelled = @ \/ maybe]
      failed  == IF ctx[g].terminal
                   THEN [flagged EXCEPT ![g].success = FALSE]
                   ELSE Failed(slot, flagged, g)
  IN
  /\ "execute" \in Failures /\ run[g] \in {"bound", "wait", "finish"}
  /\ fault' = TRUE
  /\ IF maybe
       THEN Cancelling({c}, [slot EXCEPT ![c] = Latched(@, g)], failed, FALSE)
       ELSE ctx' = failed /\ UNCHANGED <<slot, asking>>
  /\ reported' = [reported EXCEPT ![g] = "aborted"]
  /\ run' = [run EXCEPT ![g] = "unbind"]
  /\ UNCHANGED <<permitted, reserved, asked, resp, captured, done, cancels,
                 watch, down, resetting, epoch>>

(* The finally block: two lock regions.  Nothing reads any more whether a  *)
(* cancel was asked for.                                                   *)
Unbind(g) ==
  LET c == CtlOf[g] IN
  /\ run[g] = "unbind"
  /\ slot' = IF slot[c].typed = g THEN [slot EXCEPT ![c].typed = None]
                                  ELSE slot
  /\ reserved' = reserved \ {g} /\ asked' = asked \ {g}
  /\ run' = [run EXCEPT ![g] = "release"]
  /\ UNCHANGED <<fault, permitted, ctx, reported, resp, captured,
                 done, transport, down, resetting, epoch>>

ReleaseOwner(g) ==
  /\ run[g] = "release"
  /\ slot' = [slot EXCEPT ![CtlOf[g]] = Released(@, g)]
  /\ run' = [run EXCEPT ![g] = "over"]
  /\ UNCHANGED <<fault, permitted, ctx, reserved, asked, reported, resp,
                 captured, done, transport, down, resetting, epoch>>

Execute(g) ==
  \/ Bind(g) \/ Check(g) \/ WaitCancel(g) \/ Woken(g) \/ Finish(g)
  \/ Unbind(g) \/ ReleaseOwner(g)
Dispatch(g) == Admit(g) \/ Send(g) \/ StoreFuture(g)

-----------------------------------------------------------------------------
(* The goal response.                                                      *)

Answered == {"accepted", "rejected", "failed"}

(* _on_goal_response up to the point where the future is forgotten.  Its   *)
(* callback is registered when run has left "sent".  It looks up the       *)
(* context once and holds on to it, also when the execute thread has taken *)
(* it off the controller.                                                  *)
GoalResponse(g) ==
  LET c == CtlOf[g]
      s == [slot[c] EXCEPT !.send = None]
      t == Tombstoned(s, g)
  IN
  /\ resp[g] \in Answered /\ run[g] # "sent"
  /\ IF slot[c].send # g \/ slot[c].owner # g
       THEN /\ resp' = [resp EXCEPT ![g] = "over"]   \* ignored, late
            /\ UNCHANGED <<fault, slot, ctx, captured>>
       ELSE \/ /\ resp[g] = "failed"
               /\ fault' = TRUE
               /\ ctx' = Failed(slot, ctx, g)
               /\ slot' = [slot EXCEPT ![c] = Released(s, g)]
               /\ resp' = [resp EXCEPT ![g] = "over"]
               /\ UNCHANGED captured
            \/ /\ resp[g] = "rejected"
               /\ slot' = [slot EXCEPT ![c] =
                     IF t THEN [s EXCEPT !.tomb.confirmed = TRUE]
                          ELSE Released(s, g)]
               /\ ctx' = IF t THEN ctx ELSE Failed(slot, ctx, g)
               /\ resp' = [resp EXCEPT ![g] = "over"]
               /\ UNCHANGED <<fault, captured>>
            \/ /\ resp[g] = "accepted"
               /\ slot' = [slot EXCEPT ![c] = s]
               /\ resp' = [resp EXCEPT ![g] = "taken"]
               /\ captured' = IF slot[c].typed = g THEN captured \cup {g}
                                                   ELSE captured
               /\ UNCHANGED <<fault, ctx>>
  /\ UNCHANGED <<permitted, reserved, asked, reported, run, done, transport,
                 down, resetting, epoch>>

(* The handle is kept and the boundary checked again; the metadata of a    *)
(* typed command may have become stale in the meantime.                    *)
HandleSet(g) ==
  /\ resp[g] = "taken"
  /\ slot' = [slot EXCEPT ![CtlOf[g]].handle = g]
  /\ \/ /\ ~Blocked
        /\ resp' = [resp EXCEPT ![g] = "clear"]
     \/ /\ Blocked \/ g \in captured
        /\ resp' = [resp EXCEPT ![g] = "blocked"]
  /\ UNCHANGED <<fault, permitted, ctx, reserved, asked, reported, run,
                 captured, done, transport, down, resetting, epoch>>

(* The result is requested, then a cancel that was asked for while the     *)
(* goal was pending, or that the boundary asks for now, is begun.  The     *)
(* reason of the second goes to the context the callback holds on to, and  *)
(* so does that of a result that cannot be requested: the command may have *)
(* ended, and been answered, since it was looked up.                       *)
RequestResult(g) ==
  LET c == CtlOf[g]
      s == [slot[c] EXCEPT !.res = g, !.deadline = TRUE]
      noted == IF g \in captured THEN Noted(ctx, g) ELSE ctx
  IN
  /\ resp[g] \in {"clear", "blocked"}
  /\ resp' = [resp EXCEPT ![g] = "over"]
  /\ captured' = captured \ {g}
  /\ \/ /\ done' = [done EXCEPT ![g] = "pending"]
        /\ UNCHANGED fault
        /\ IF s.onAccept \/ resp[g] = "blocked"
             THEN Cancelling({c}, [slot EXCEPT ![c] = s],
                             IF s.onAccept THEN ctx ELSE noted, FALSE)
             ELSE /\ slot' = [slot EXCEPT ![c] = s]
                  /\ UNCHANGED <<ctx, asking>>
     \/ /\ "request" \in Failures
        /\ fault' = TRUE
        /\ Cancelling({c}, [slot EXCEPT ![c] = Latched(@, g)],
                      Failed(slot, noted, g), FALSE)
        /\ UNCHANGED done
  /\ UNCHANGED <<permitted, reserved, asked, reported, run, cancels, watch,
                 down, resetting, epoch>>

-----------------------------------------------------------------------------
(* The result: _on_result.                                                 *)

Statuses == Ends \cup {"unknown", "failed"}

ResultLate(g) ==
  /\ done[g] \in Statuses
  /\ slot[CtlOf[g]].res # g \/ slot[CtlOf[g]].owner # g
  /\ done' = [done EXCEPT ![g] = "over"]
  /\ UNCHANGED <<fault, permitted, slot, ctx, reserved, asked, reported, run,
                 resp, captured, transport, down, resetting, epoch>>

ResultException(g) ==
  LET c == CtlOf[g] IN
  /\ done[g] = "failed" /\ slot[c].res = g /\ slot[c].owner = g
  /\ fault' = TRUE
  /\ Cancelling({c},
        [slot EXCEPT ![c] = Latched([@ EXCEPT !.res = None,
                                              !.deadline = FALSE], g)],
        Failed(slot, IF slot[c].typed = g THEN Noted(ctx, g) ELSE ctx, g),
        FALSE)
  /\ done' = [done EXCEPT ![g] = "over"]
  /\ UNCHANGED <<permitted, reserved, asked, reported, run, resp, captured,
                 cancels, watch, down, resetting, epoch>>

Proven_AnyStatus(status) == TRUE
Proven(status) == status \in Ends

(* A result for a tombstoned command only adds terminal evidence.          *)
ResultTombstoned(g) ==
  LET c == CtlOf[g] IN
  /\ done[g] \in Ends \cup {"unknown"}
  /\ slot[c].res = g /\ slot[c].owner = g /\ Tombstoned(slot[c], g)
  /\ IF Proven(done[g])
       THEN /\ slot' = [slot EXCEPT ![c] =
                  Cleared([@ EXCEPT !.tomb.confirmed = TRUE])]
            /\ UNCHANGED fault
       ELSE fault' = TRUE /\ UNCHANGED slot
  /\ done' = [done EXCEPT ![g] = "over"]
  /\ UNCHANGED <<permitted, ctx, reserved, asked, reported, run, resp,
                 captured, transport, down, resetting, epoch>>

Success_AnyStatus(g, cancelled) == ~cancelled
Success(g, cancelled) == done[g] = "succeeded" /\ ~cancelled

(* Otherwise the command is completed, whatever the status, then released, *)
(* then the transport state cleared: three lock regions.                   *)
Result(g) ==
  LET c         == CtlOf[g]
      cancelled == slot[c].typed = g /\ ctx[g].cancelled
      success   == Success(g, cancelled)
  IN
  /\ done[g] \in Ends \cup {"unknown"}
  /\ slot[c].res = g /\ slot[c].owner = g /\ ~Tombstoned(slot[c], g)
  /\ ctx' = Ended(slot, ctx, g, done[g], TRUE, success)
  /\ fault' = (fault \/ ~(success \/ (done[g] = "canceled" /\ cancelled)))
  /\ done' = [done EXCEPT ![g] = "release"]
  /\ UNCHANGED <<permitted, slot, reserved, asked, reported, run, resp,
                 captured, transport, down, resetting, epoch>>

ResultRelease(g) ==
  /\ done[g] = "release"
  /\ slot' = [slot EXCEPT ![CtlOf[g]] = Released(@, g)]
  /\ done' = [done EXCEPT ![g] = "clear"]
  /\ UNCHANGED <<fault, permitted, ctx, reserved, asked, reported, run, resp,
                 captured, transport, down, resetting, epoch>>

ResultClear(g) ==
  /\ done[g] = "clear"
  /\ slot' = [slot EXCEPT ![CtlOf[g]] = Cleared(@)]
  /\ done' = [done EXCEPT ![g] = "over"]
  /\ UNCHANGED <<fault, permitted, ctx, reserved, asked, reported, run, resp,
                 captured, transport, down, resetting, epoch>>

ResultCallback(g) ==
  \/ ResultLate(g) \/ ResultException(g) \/ ResultTombstoned(g) \/ Result(g)
  \/ ResultRelease(g) \/ ResultClear(g)

-----------------------------------------------------------------------------
(* Cancelling.                                                             *)

(* The rest of _cancel_controller: nothing was locked since its checks, so *)
(* two threads may both be here for one goal, and the goal may be over.    *)
SendCancel(g) ==
  LET c == CtlOf[g]
      s == [slot[c] EXCEPT !.requested = TRUE, !.attempts = @ + 1]
  IN
  /\ asking[g] > 0 /\ s.attempts <= MaxAttempts + MaxAsking
  /\ asking' = [asking EXCEPT ![g] = @ - 1]
  /\ \/ /\ slot' = [slot EXCEPT ![c] = [s EXCEPT !.cancel = <<g, s.attempts>>]]
        /\ cancels' = cancels \cup {<<g, s.attempts>>}
        /\ UNCHANGED <<fault, ctx>>
     \/ /\ "cancel" \in Failures
        /\ CancelFailure(c, s)
        /\ UNCHANGED cancels
  /\ UNCHANGED <<permitted, reserved, asked, reported, run, resp, captured,
                 done, watch, down, resetting, epoch>>

(* _on_cancel_response.  The controller acknowledges the cancel of a goal  *)
(* that is active and rejects it for one that is over.  An acknowledgement *)
(* is not a stop: the result has a new deadline.                           *)
CancelResponse(f) ==
  LET c == CtlOf[f[1]] IN
  /\ f \in cancels
  /\ cancels' = cancels \ {f}
  /\ \/ /\ slot[c].cancel # f
        /\ UNCHANGED <<fault, slot, ctx>>
     \/ /\ slot[c].cancel = f /\ down[f[1]] = "active"
        /\ slot' = [slot EXCEPT ![c].cancel = None, ![c].retry = FALSE,
                                ![c].deadline = TRUE]
        /\ UNCHANGED <<fault, ctx>>
     \/ /\ slot[c].cancel = f
        /\ down[f[1]] # "active" \/ "cancel" \in Failures
        /\ CancelFailure(c, slot[c])
  /\ UNCHANGED <<permitted, reserved, asked, reported, run, resp, captured,
                 done, asking, watch, down, resetting, epoch>>

-----------------------------------------------------------------------------
(* The watchdog timer.  It never runs twice at the same time.              *)

WatchBlocked(c) ==
  /\ Blocked /\ Cancel({c})
  /\ UNCHANGED <<fault, permitted, reserved, asked, reported, run, resp,
                 captured, done, cancels, watch, down, resetting, epoch>>

(* The goal response is overdue: the check of the future, and the reaction.*)
WatchSend(c) ==
  /\ ~watch[c] /\ slot[c].send # None /\ resp[slot[c].send] = "pending"
  /\ watch' = [watch EXCEPT ![c] = TRUE]
  /\ UNCHANGED <<fault, permitted, slot, ctx, reserved, asked, reported, run,
                 resp, captured, done, asking, cancels, down, resetting,
                 epoch>>

SendTimeout(c) ==
  /\ watch[c]
  /\ watch' = [watch EXCEPT ![c] = FALSE]
  /\ fault' = TRUE
  /\ slot' = [slot EXCEPT ![c] =
                Latched([@ EXCEPT !.onAccept = TRUE], Culprit(@))]
  /\ ctx' = Failed(slot, ctx, slot[c].typed)
  /\ UNCHANGED <<permitted, reserved, asked, reported, run, resp, captured,
                 done, asking, cancels, down, resetting, epoch>>

(* The result is overdue, before or after a cancel was acknowledged.       *)
WatchResult(c) ==
  LET s == [slot[c] EXCEPT !.deadline = FALSE] IN
  /\ slot[c].handle # None /\ slot[c].deadline
  /\ IF s.requested
       THEN CancelFailure(c, s) /\ UNCHANGED asking
       ELSE /\ fault' = TRUE
            /\ Cancelling({c}, [slot EXCEPT ![c] = s], ctx, FALSE)
  /\ UNCHANGED <<permitted, reserved, asked, reported, run, resp, captured,
                 done, cancels, watch, down, resetting, epoch>>

(* The cancel response is overdue. *)
WatchCancel(c) ==
  /\ slot[c].cancel \in cancels
  /\ CancelFailure(c, slot[c])
  /\ UNCHANGED <<permitted, reserved, asked, reported, run, resp, captured,
                 done, transport, down, resetting, epoch>>

(* The retry goes out under a reason that _cancel_controller does not know.*)
WatchRetry_Unrecognised(c) ==
  /\ slot[c].retry
  /\ Cancelling({c}, slot, ctx, FALSE)
  /\ UNCHANGED <<fault, permitted, reserved, asked, reported, run, resp,
                 captured, done, cancels, watch, down, resetting, epoch>>

WatchRetry(c) ==
  /\ slot[c].retry
  /\ Cancelling({c}, [slot EXCEPT ![c].retry = FALSE], ctx, TRUE)
  /\ UNCHANGED <<fault, permitted, reserved, asked, reported, run, resp,
                 captured, done, cancels, watch, down, resetting, epoch>>

Watchdog(c) ==
  \/ WatchBlocked(c) \/ WatchSend(c) \/ SendTimeout(c) \/ WatchResult(c)
  \/ WatchCancel(c) \/ WatchRetry(c)

-----------------------------------------------------------------------------
(* Permission, interface, target and joint-state topics.                   *)

(* A topic says that motion is not allowed, or carries a bad message, which*)
(* latches a fault: everything is cancelled.                               *)
Refused(bad) ==
  /\ permitted' = (permitted /\ bad)
  /\ fault' = (fault \/ bad)
  /\ Cancel(Controllers)
  /\ UNCHANGED <<reserved, asked, reported, run, resp, captured, done,
                 cancels, watch, down, resetting, epoch>>

(* All of them are recent and allow motion; or one of them has expired.    *)
Permitted(allowed) ==
  /\ permitted' = allowed
  /\ UNCHANGED <<fault, slot, ctx, reserved, asked, reported, run, resp,
                 captured, done, transport, down, resetting, epoch>>

-----------------------------------------------------------------------------
(* _on_reset: refused while anything may be active, and then everything is *)
(* cancelled; otherwise a second lock region starts a new epoch.           *)

Active_TypedOnly ==
  reserved # {} \/ \E c \in Controllers : slot[c].typed # None

Active ==
  \/ reserved # {}
  \/ \E c \in Controllers :
       LET s == slot[c] IN
       \/ s.tomb # None /\ ~s.tomb.confirmed
       \/ s.owner # None /\ ~Tombstoned(s, s.owner)
       \/ s.handle # None \/ s.send # None \/ s.res # None
       \/ s.cancel # None \/ s.requested \/ s.retry \/ s.typed # None

ResetRefused ==
  /\ Active /\ Cancel(Controllers)
  /\ UNCHANGED <<fault, permitted, reserved, asked, reported, run, resp,
                 captured, done, cancels, watch, down, resetting, epoch>>

ResetChecked ==
  /\ ~Active /\ ~resetting /\ epoch < MaxResets
  /\ resetting' = TRUE
  /\ UNCHANGED <<fault, permitted, slot, ctx, reserved, asked, reported, run,
                 resp, captured, done, transport, down, epoch>>

ResetDone ==
  /\ resetting
  /\ resetting' = FALSE /\ epoch' = epoch + 1
  /\ fault' = FALSE /\ permitted' = FALSE
  /\ slot' = [c \in Controllers |->
                [slot[c] EXCEPT !.owner = None, !.tomb = None, !.attempts = 0,
                                !.retry = FALSE, !.exhausted = FALSE]]
  /\ UNCHANGED <<ctx, reserved, asked, reported, run, resp, captured, done,
                 transport, down>>

-----------------------------------------------------------------------------
(* The controllers and the transport: not under src/.                      *)

DownstreamStep(g, state) ==
  /\ \/ /\ down[g] = "sent" /\ state \in {"active", "refused"}
     \/ /\ down[g] = "active" /\ state \in Ends
  /\ down' = [down EXCEPT ![g] = state]
  /\ UNCHANGED <<fault, permitted, slot, ctx, reserved, asked, reported, run,
                 resp, captured, done, transport, resetting, epoch>>

(* The goal response arrives, or its future fails. *)
AnswerGoal(g) ==
  /\ resp[g] = "pending"
  /\ \E answer \in Answered :
       /\ CASE answer = "accepted" -> down[g] \in {"active"} \cup Ends
            [] answer = "rejected" -> down[g] = "refused"
            [] OTHER               -> "response" \in Failures
       /\ resp' = [resp EXCEPT ![g] = answer]
  /\ UNCHANGED <<fault, permitted, slot, ctx, reserved, asked, reported, run,
                 captured, done, transport, down, resetting, epoch>>

(* The result arrives, or the answer has no status, or its future fails.   *)
AnswerResult(g) ==
  /\ done[g] = "pending"
  /\ \E answer \in Statuses :
       /\ CASE answer = "unknown" -> "unknown" \in Failures
            [] answer = "failed"  -> "result" \in Failures
            [] OTHER              -> down[g] = answer
       /\ done' = [done EXCEPT ![g] = answer]
  /\ UNCHANGED <<fault, permitted, slot, ctx, reserved, asked, reported, run,
                 resp, captured, transport, down, resetting, epoch>>

Downstream(g) == \/ \E state \in Over \cup {"active"} : DownstreamStep(g, state)
                 \/ AnswerGoal(g) \/ AnswerResult(g)

GoalStep(g) ==
  \/ Dispatch(g) \/ GoalResponse(g) \/ HandleSet(g) \/ RequestResult(g)
  \/ ResultCallback(g) \/ SendCancel(g)
CommandStep(g) ==
  TypedGoal(g) \/ TypedCancel(g) \/ Execute(g) \/ WallGuard(g) \/ ExecuteFails(g)

Callback ==
  \/ \E g \in Commands : CommandStep(g)
  \/ \E g \in Legacy : LegacyRequest(g)
  \/ \E g \in Goals : GoalStep(g)
  \/ \E f \in cancels : CancelResponse(f)
  \/ \E c \in Controllers : Watchdog(c)
  \/ \E bad \in BOOLEAN : Refused(bad)
  \/ \E allowed \in BOOLEAN : Permitted(allowed)
  \/ ResetRefused \/ ResetChecked

Next ==
  \/ (resetting => ResetGap) /\ Callback
  \/ ResetDone
  \/ \E g \in Goals : Downstream(g)

Spec == Init /\ [][Next]_vars

-----------------------------------------------------------------------------
(* Properties.                                                             *)

TypeOK ==
  /\ fault \in BOOLEAN /\ permitted \in BOOLEAN /\ resetting \in BOOLEAN
  /\ slot \in [Controllers -> Slot] /\ ctx \in [Commands -> Context]
  /\ reserved \subseteq Commands /\ asked \subseteq Commands
  /\ reported \in [Commands -> {"none", "succeeded", "canceled", "aborted"}]
  /\ run \in [Goals -> {"idle", "reserved", "bound", "admit", "send", "sent",
                        "wait", "finish", "unbind", "release", "over"}]
  /\ resp \in [Goals -> Answered \cup {"none", "pending", "taken", "clear",
                                       "blocked", "over"}]
  /\ captured \subseteq Commands
  /\ done \in [Goals -> Statuses \cup {"none", "pending", "release", "clear",
                                       "over"}]
  /\ asking \in [Goals -> 0..MaxAsking] /\ cancels \subseteq Calls
  /\ watch \in [Controllers -> BOOLEAN]
  /\ down \in [Goals -> Over \cup {"none", "sent", "active"}]
  /\ epoch \in 0..MaxResets

(* A command is reported succeeded only if its trajectory was carried out, *)
(* and canceled only if nothing of it moves any more: _on_result,          *)
(* _complete_typed and the last lines of _execute_typed, whatever fails.   *)
ReportIsProven ==
  \A g \in Commands :
    /\ reported[g] = "succeeded" => down[g] = "succeeded"
    /\ reported[g] = "canceled" => ~Live(g)

(* A tombstone is confirmed only when its goal is over downstream: what    *)
(* _on_reset relies on.                                                    *)
ConfirmedIsOver ==
  \A c \in Controllers :
    LET t == slot[c].tomb IN t # None /\ t.confirmed => ~Live(t.goal)

(* The goal that may move a controller is the one the gate holds as the    *)
(* controller's owner, so a controller never has two of them: every        *)
(* _release_controller_owner waits for the end of the goal.                *)
MotionIsOwned ==
  \A g \in Goals : Live(g) => slot[CtlOf[g]].owner = g

(* A successful reset finds nothing moving (message of the refused one:    *)
(* "reset refused while a downstream goal may be active").                 *)
ResetIsQuiet == [][epoch' # epoch => \A g \in Goals : ~Live(g)]_vars

(* Only a reset removes a tombstone, and only a confirmed one; until then  *)
(* its command stays the owner (docstring of _TypedTombstone).             *)
TombstoneStays ==
  [][\A c \in Controllers : slot[c].tomb # None =>
       IF epoch' = epoch
         THEN /\ slot'[c].tomb # None
              /\ slot'[c].tomb.goal = slot[c].tomb.goal
              /\ slot[c].tomb.confirmed => slot'[c].tomb.confirmed
              /\ slot[c].owner = slot[c].tomb.goal
                   => slot'[c].owner = slot[c].owner
         ELSE slot[c].tomb.confirmed]_vars

(* What a command answered is not rewritten by a late response, a late     *)
(* result, a late cancel or a watchdog: the state its action goal ended in *)
(* and what _complete_typed recorded of the motion stay.  A cancel reason  *)
(* may still be added to the context: the callbacks of the goal response   *)
(* and of the result note it on the context they hold on to                *)
(* (trajectory_gate.py:1145-1147, 1179-1181, 1215-1217).                   *)
Stands(x, y) ==
  /\ y.terminal = x.terminal
  /\ y.status = x.status /\ y.observed = x.observed /\ y.success = x.success
  /\ x.cancelled => y.cancelled
AnswerStands ==
  [][\A g \in Commands : reported[g] # "none" =>
       Stands(ctx[g], ctx'[g]) /\ reported'[g] = reported[g]]_vars

(* What runs without waiting for a controller: the executor's threads and, *)
(* as ROS time passes, the watchdog.  The controller owes nothing, and the *)
(* wall-clock guard is not counted on.                                     *)
Fairness ==
  /\ \A g \in Commands : WF_vars(Execute(g))
  /\ \A g \in Goals :
       /\ WF_vars(Dispatch(g)) /\ WF_vars(SendCancel(g))
       /\ WF_vars(GoalResponse(g) \/ HandleSet(g) \/ RequestResult(g))
       /\ WF_vars(ResultCallback(g))
  /\ \A c \in Controllers :
       /\ WF_vars(WatchBlocked(c)) /\ WF_vars(WatchSend(c))
       /\ WF_vars(SendTimeout(c)) /\ WF_vars(WatchResult(c))
       /\ WF_vars(WatchCancel(c)) /\ WF_vars(WatchRetry(c))
  /\ WF_vars(ResetDone)
FairSpec == Spec /\ Fairness

(* A typed command ends even if the controller never answers again: the    *)
(* overdue response, the overdue result and the bounded cancel attempts    *)
(* between them complete it (_watchdog, _handle_cancel_failure).           *)
CommandEnds == \A g \in Commands : run[g] = "reserved" ~> run[g] = "over"

(* While motion is not permitted an accepted goal is asked to stop, and    *)
(* after a failed cancel asked again, until the attempts are used up       *)
(* (_watchdog, _cancel_controller, _handle_cancel_failure).                *)
LossStops ==
  \A c \in Controllers, g \in Goals :
    slot[c].handle = g /\ ~permitted
      ~> \/ permitted \/ slot[c].handle # g
         \/ slot[c].requested \/ slot[c].exhausted
==============================================================================
