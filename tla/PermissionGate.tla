---------------------------- MODULE PermissionGate ----------------------------
(***************************************************************************)
(* MotionPermissionGate: src/src/edgegrasp/permission.py, the copy of the  *)
(* permission that a consumer (trajectory_gate.py, adapter_node.py) keeps. *)
(* Its clock readings are those of its node.  -1 stands for None.          *)
(***************************************************************************)
EXTENDS Integers

CONSTANTS
  Timeout   \* permission_timeout_ms

VARIABLES
  allowed,  \* _allowed: "yes", "no", or "unknown" for None
  signal,   \* _signal_ns
  lastNow,  \* _last_now_ns
  fault     \* _fault is not None

gvars == <<allowed, signal, lastNow, fault>>

GateInit == allowed = "unknown" /\ signal = -1 /\ lastNow = -1 /\ fault = FALSE

(* _observe, for a reading of the node's clock (never negative)            *)
Rewound(now) == now < lastNow
Observe(now) ==
  /\ lastNow' = IF Rewound(now) THEN lastNow ELSE now
  /\ fault' = (fault \/ Rewound(now))

Update(b, now) ==
  /\ Observe(now)
  /\ IF fault \/ Rewound(now) THEN UNCHANGED <<allowed, signal>>
     ELSE allowed' = (IF b THEN "yes" ELSE "no") /\ signal' = now

(* What evaluate answers, and what calling it changes.  A name X_Y is a    *)
(* wrong variant of X; no specification uses it.                           *)
Allows_Unlimited(now) ==
  ~fault /\ ~Rewound(now) /\ allowed = "yes"

Allows(now) ==
  ~fault /\ ~Rewound(now) /\ allowed = "yes" /\ now - signal <= Timeout

Evaluate(now) == Observe(now) /\ UNCHANGED <<allowed, signal>>

ResetEpoch(now) ==
  allowed' = "unknown" /\ signal' = -1 /\ lastNow' = now /\ fault' = FALSE

=============================================================================
