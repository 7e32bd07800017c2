-------------------------- MODULE MCPhysicsObserver --------------------------
EXTENDS PhysicsObserver

CONSTANTS fixed, moving

MCSamples ==
  [pose |-> {[z |-> 0, xy |-> 0], [z |-> 1, xy |-> 0], [z |-> 1, xy |-> 1]},
   contact |-> {[pads |-> {fixed, moving}, table |-> FALSE],
                [pads |-> {fixed}, table |-> TRUE]},
   sequence |-> {[end |-> "done"], [end |-> "stopped"]}]

(* The node compares times and epochs and never looks at one by itself, so *)
(* states that differ by a shift are one, and an age beyond its limit is   *)
(* as good as any other.  A core that is through is only asked its phase.  *)
Age(t, limit) ==
  IF t = None THEN None ELSE IF now - t > limit THEN limit + 1 ELSE now - t
Behind(e) == IF epoch - e > 1 THEN 2 ELSE epoch - e

GoalView ==
  IF goal = None THEN None
  ELSE [goal EXCEPT !.started = Age(@, Freshness), !.epoch = Behind(@)]

CoreView ==
  IF core = None THEN None
  ELSE IF Terminal(core) THEN <<core.phase, core.why>>
  ELSE [core EXCEPT
    !.started = IF core.pose = None THEN Age(@, Freshness) ELSE None,
    !.epoch = Behind(@),
    !.pose = IF @ = None THEN None
             ELSE [@ EXCEPT !.src = Age(@, Freshness),
                            !.at = Age(@, 2 * Freshness)],
    !.contact = IF @ = None THEN None
                ELSE [src |-> Age(@.src, Freshness),
                      at |-> Age(@.at, Freshness)],
    !.both = Age(@, 2 * Freshness), !.since = Age(@, Retention)]

Ages ==
  <<Age(clock, 2 * Freshness), latched, crashed, steady, held,
    GoalView, CoreView,
    [i \in DOMAIN pending |->
      [pending[i] EXCEPT !.src = Age(@, Freshness), !.epoch = Behind(@)]]>>
=============================================================================
