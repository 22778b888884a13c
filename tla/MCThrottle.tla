----------------------------- MODULE MCThrottle -----------------------------
(* Three throttles, two of them on the same container.                     *)
EXTENDS Throttle

CONSTANTS c1, c2   \* model values

MCTargetOf == <<c1, c2, c1>>
MCOneTarget == <<c1>>
=============================================================================
