--------------------------- MODULE MCCircuitBreaker ---------------------------
(* Two sub-batches share one breaker; the cooldown is shorter than the       *)
(* probe lease, as in the code (60 s and 120 s).                             *)
EXTENDS CircuitBreaker
=============================================================================
