---------------------- MODULE MCIdempotencyCoordinator ----------------------
(* Model values for checking IdempotencyCoordinator with TLC. *)
EXTENDS IdempotencyCoordinator, TLC

CONSTANTS w1, w2

TwoWorkers == {w1, w2}
=============================================================================
