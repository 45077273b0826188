-------------------------- MODULE MCCircuitBreaker --------------------------
(* A small instance of CircuitBreaker for TLC.  The window (3) is longer than *)
(* the streak that trips (2), so failure, success, failure trips by the rate  *)
(* 2/3 alone; cooldowns 1, 2 and the cap 3 are told apart by two doublings.   *)
EXTENDS CircuitBreaker

CONSTANTS c1, c2, c3

MCCallers == {c1, c2, c3}

=============================================================================
