--------------------------- MODULE MCCircuitBreaker ---------------------------
(***************************************************************************)
(* CircuitBreaker for TLC: the default trip predicate with the threshold   *)
(* a BreakerConfigSpec configures.                                         *)
(***************************************************************************)
EXTENDS CircuitBreaker

CONSTANT Threshold

ConsecutiveAtLeast(n) == n.ConsecutiveFailures >= Threshold
=============================================================================
