----------------------------- MODULE SceneLoader -----------------------------
(***************************************************************************)
(* The planning scene loader, planning_scene_loader.py: it publishes the   *)
(* table, the optional target cube and the collision exemption of the      *)
(* gripper pads to MoveIt, and reports ready only after a scene query has  *)
(* shown them.                                                             *)
(*                                                                         *)
(* One thread spins the node, so a callback is an action.  What makes it   *)
(* hard is the other side: objects and exemptions travel on two topics,    *)
(* the query is a service call, so a query can overtake what was published *)
(* before it; MoveIt may restart and forget its scene, the query may time  *)
(* out, and the two policies may change while an answer is on its way.     *)
(*                                                                         *)
(* Names are kept apart from those of MoveItAdapter, beside which this     *)
(* module is proved about: clockEpoch is _clock_epoch, and so on.          *)
(***************************************************************************)
EXTENDS Naturals, Sequences

CONSTANTS
  Depth,   \* history depth of the two topics: the oldest message is dropped
  Budget,  \* bound on policy changes, resets and disturbances
  Bad,     \* what a malformed collision matrix says of the pads
  Nothing  \* no query, no answer, no matrix

ASSUME LoaderConstants ==
  /\ Depth \in Nat \ {0} /\ Budget \in Nat
  /\ Nothing \notin BOOLEAN /\ Bad \notin BOOLEAN

VARIABLES
  include,    \* _include_optional_cube
  allow,      \* _allow_target_pad_contacts
  observed,   \* what _last_observed_acm says of the pads, or Nothing
  desired,    \* what _desired_acm says of the pads, or Nothing
  ready,      \* _ready
  pending,    \* _pending: the epoch of the query, its answer, and whether
              \* MoveIt has restarted since
  latched,    \* _fault_latched is set
  clockEpoch, \* _clock_epoch
  waiting,    \* _next_attempt_wall lies ahead
  told,       \* the last message on the ready and status topics
  scene,      \* MoveIt's scene
  objects,    \* the collision object topic
  diffs,      \* the planning scene topic
  sound,      \* MoveIt has not restarted since the answer told of was given
  budget

loader == <<include, allow, observed, desired, latched, clockEpoch>>
moveit == <<scene, objects, diffs>>
loaderVars ==
  <<loader, ready, pending, waiting, told, moveit, sound, budget>>

Empty == [table |-> FALSE, cube |-> FALSE, pads |-> FALSE]

LoaderInit ==
  /\ include \in BOOLEAN /\ allow = FALSE
  /\ observed = Nothing /\ desired = Nothing
  /\ ready = FALSE /\ pending = Nothing /\ latched = FALSE /\ clockEpoch = 0
  /\ waiting = FALSE
  /\ told = [ready |-> FALSE, include |-> include, allow |-> FALSE]
  /\ scene = Empty /\ objects = <<>> /\ diffs = <<>>
  /\ sound = TRUE /\ budget = Budget

-----------------------------------------------------------------------------
Publish(r, i, a) == told' = [ready |-> r, include |-> i, allow |-> a]

Sent(topic, message) ==
  LET all == Append(topic, message)
  IN  IF Len(all) > Depth THEN Tail(all) ELSE all

Spend == budget > 0 /\ budget' = budget - 1

(* verify_planning_scene_objects: the table and exactly the wanted cube.   *)
ObjectsMatch(s) == s.table /\ s.cube = include

(* verify_target_pad_collision_policy                                      *)
PadsMatch(s) == s.pads = allow

QueryDone == pending # Nothing /\ pending.answer # Nothing
Verified == ObjectsMatch(pending.answer) /\ PadsMatch(pending.answer)

(* What a finished query leaves: see _finish_query.                        *)
Finished ==
  /\ observed' = pending.answer.pads
  /\ ready' = Verified
  /\ sound' = pending.sound

-----------------------------------------------------------------------------
(* The timer.  A clock that went back latches before anything else.        *)
TickRollback ==
  /\ ~latched /\ Spend /\ latched' = TRUE /\ Publish(FALSE, include, allow)
  /\ UNCHANGED <<include, allow, observed, desired, clockEpoch, ready, pending,
                 waiting, moveit, sound>>

TickFault ==
  /\ latched /\ Publish(FALSE, include, allow)
  /\ UNCHANGED <<loader, ready, pending, waiting, moveit, sound, budget>>

FinishQuery ==
  /\ ~latched /\ QueryDone
  /\ Finished /\ Publish(Verified, include, allow)
  /\ pending' = Nothing /\ waiting' = TRUE
  /\ UNCHANGED <<include, allow, desired, latched, clockEpoch, moveit, budget>>

QueryTimeout ==
  /\ ~latched /\ pending # Nothing /\ ~QueryDone /\ Spend
  /\ pending' = Nothing /\ ready' = FALSE /\ waiting' = TRUE
  /\ Publish(FALSE, include, allow)
  /\ UNCHANGED <<loader, moveit, sound>>

TickWaiting ==
  /\ ~latched /\ pending = Nothing /\ waiting /\ Publish(ready, include, allow)
  /\ UNCHANGED <<loader, ready, pending, waiting, moveit, sound, budget>>

RetryTime ==
  /\ waiting /\ waiting' = FALSE
  /\ UNCHANGED <<loader, ready, pending, told, moveit, sound, budget>>

(* While the scene is unconfirmed each attempt publishes it again.         *)
Republish_ObjectsOnly ==
  /\ objects' = IF ready THEN objects ELSE Sent(objects, include)
  /\ UNCHANGED diffs

Republish ==
  IF ready
    THEN UNCHANGED <<objects, diffs>>
    ELSE /\ objects' = Sent(objects, include)
         /\ diffs' = IF desired = Nothing THEN diffs ELSE Sent(diffs, desired)

SendQuery ==
  /\ ~latched /\ pending = Nothing /\ ~waiting
  /\ Republish
  /\ pending' = [epoch |-> clockEpoch, answer |-> Nothing, sound |-> TRUE]
  /\ Publish(ready, include, allow)
  /\ UNCHANGED <<loader, ready, waiting, scene, sound, budget>>

(* The service is not there, or calling it raises.                         *)
ServiceAbsent ==
  /\ ~latched /\ pending = Nothing /\ ~waiting /\ Spend
  /\ Republish
  /\ ready' = FALSE /\ waiting' = TRUE /\ Publish(FALSE, include, allow)
  /\ UNCHANGED <<loader, pending, scene, sound>>

-----------------------------------------------------------------------------
Reset ==
  /\ pending # Nothing => QueryDone
  /\ Spend
  /\ clockEpoch' = clockEpoch + 1 /\ latched' = FALSE
  /\ ready' = FALSE /\ waiting' = FALSE
  /\ Publish(FALSE, include, allow)
  /\ UNCHANGED <<include, allow, observed, desired, pending, moveit, sound>>

(* set_optional_cube_collision.  A query that has its answer is finished   *)
(* for the old policy, any other is dropped; the pads lose their exemption *)
(* with a matrix built from the last one seen, or the loader latches.      *)
OptionalCubeSame ==
  /\ ~latched /\ pending # Nothing /\ Spend
  /\ IF QueryDone
       THEN Finished /\ Publish(Verified, include, allow) /\ waiting' = TRUE
       ELSE UNCHANGED <<observed, ready, sound, told, waiting>>
  /\ pending' = Nothing
  /\ UNCHANGED <<include, allow, desired, latched, clockEpoch, moveit>>

OptionalCube_KeepsQuery ==
  /\ ~latched /\ Spend
  /\ allow' = FALSE
  /\ desired' = IF observed = Nothing THEN desired ELSE FALSE
  /\ include' = ~include /\ ready' = FALSE /\ waiting' = FALSE
  /\ Publish(FALSE, include', FALSE)
  /\ UNCHANGED <<observed, pending, latched, clockEpoch, moveit, sound>>

OptionalCube ==
  /\ ~latched /\ Spend
  /\ IF QueryDone THEN observed' = pending.answer.pads ELSE UNCHANGED observed
  /\ pending' = Nothing /\ allow' = FALSE /\ ready' = FALSE
  /\ IF observed' = Bad
       THEN /\ latched' = TRUE /\ Publish(FALSE, include, told.allow)
            /\ UNCHANGED <<include, desired, waiting>>
       ELSE /\ include' = ~include /\ waiting' = FALSE
            /\ desired' = IF observed' = Nothing THEN desired ELSE FALSE
            /\ Publish(FALSE, include', FALSE)
            /\ UNCHANGED latched
  /\ UNCHANGED <<clockEpoch, moveit, sound>>

(* set_target_pad_contacts.  Refused for an unconfirmed scene; a query of  *)
(* a confirmed one is dropped.  The exemption is published at once.        *)
Confirmed == IF QueryDone THEN Verified ELSE ready /\ observed # Nothing

TargetPads ==
  /\ ~latched /\ include /\ Confirmed /\ Spend
  /\ IF QueryDone THEN observed' = pending.answer.pads ELSE UNCHANGED observed
  /\ pending' = Nothing
  /\ allow' = ~allow /\ desired' = allow' /\ ready' = FALSE /\ waiting' = FALSE
  /\ Publish(FALSE, include, allow')
  /\ diffs' = Sent(diffs, allow')
  /\ UNCHANGED <<include, latched, clockEpoch, scene, objects, sound>>

(* The policy is as asked, or the scene turns out to be unconfirmed: a     *)
(* query that has its answer is finished, one of a confirmed scene dropped.*)
TargetPadsSame ==
  /\ ~latched /\ include /\ pending # Nothing /\ Spend
  /\ \/ /\ QueryDone /\ Finished /\ Publish(Verified, include, allow)
        /\ waiting' = TRUE
     \/ /\ ~QueryDone /\ Confirmed
        /\ UNCHANGED <<observed, ready, sound, told, waiting>>
  /\ pending' = Nothing
  /\ UNCHANGED <<include, allow, desired, latched, clockEpoch, moveit>>

-----------------------------------------------------------------------------
(* MoveIt.                                                                 *)
ApplyObjects ==
  /\ objects # <<>> /\ objects' = Tail(objects)
  /\ scene' = [scene EXCEPT !.table = TRUE, !.cube = Head(objects)]
  /\ UNCHANGED <<loader, ready, pending, waiting, told, diffs, sound, budget>>

ApplyDiff ==
  /\ diffs # <<>> /\ diffs' = Tail(diffs)
  /\ scene' = [scene EXCEPT !.pads = Head(diffs)]
  /\ UNCHANGED <<loader, ready, pending, waiting, told, objects, sound,
                 budget>>

Answer ==
  /\ pending # Nothing /\ ~QueryDone
  /\ \/ pending' = [pending EXCEPT !.answer = scene] /\ UNCHANGED budget
     \/ pending' = [pending EXCEPT !.answer = [scene EXCEPT !.pads = Bad]]
        /\ Spend
  /\ UNCHANGED <<loader, ready, waiting, told, moveit, sound>>

(* A restart forgets the scene and the messages under way.                 *)
Restart ==
  /\ Spend /\ scene' = Empty /\ objects' = <<>> /\ diffs' = <<>>
  /\ sound' = FALSE
  /\ pending' = IF QueryDone THEN [pending EXCEPT !.sound = FALSE] ELSE pending
  /\ UNCHANGED <<loader, ready, waiting, told>>

Tick ==
  \/ TickFault \/ FinishQuery \/ TickWaiting \/ SendQuery

LoaderNext ==
  \/ Tick \/ TickRollback \/ QueryTimeout \/ ServiceAbsent \/ RetryTime
  \/ Reset \/ OptionalCubeSame \/ OptionalCube \/ TargetPads \/ TargetPadsSame
  \/ ApplyObjects \/ ApplyDiff \/ Answer \/ Restart

LoaderSpec == LoaderInit /\ [][LoaderNext]_loaderVars

(* The timer fires, the retry period passes, the topics deliver and MoveIt *)
(* answers.  Timeouts and restarts are within the budget.                  *)
FairLoaderSpec ==
  /\ LoaderSpec
  /\ WF_loaderVars(Tick) /\ WF_loaderVars(RetryTime)
  /\ WF_loaderVars(ApplyObjects) /\ WF_loaderVars(ApplyDiff)
  /\ WF_loaderVars(Answer)

-----------------------------------------------------------------------------
(* The exemption published is the one reported, but for a matrix found     *)
(* malformed while the cube was switched with the pads exempt: the         *)
(* exemption is off from then on and goes on being published.              *)
Aligned == desired \in {Nothing, allow}

(* A scene reported ready is the one the policy asks for once the topics   *)
(* are empty, unless MoveIt has restarted since it answered: no exemption  *)
(* published for an earlier policy arrives last (_on_set_optional_cube,    *)
(* _on_set_target_pad_contacts, _tick).                                    *)
SettledIsTrue ==
  told.ready /\ sound /\ Aligned /\ objects = <<>> /\ diffs = <<>> =>
    /\ scene.table /\ scene.cube = told.include
    /\ scene.pads = told.allow

(* Whatever changed, timed out or restarted, the loader comes back to      *)
(* ready or is latched, for it publishes the scene again while it is       *)
(* unconfirmed (_tick).                                                    *)
ReadyAgain == []<>(ready \/ latched \/ ~Aligned)

=============================================================================
