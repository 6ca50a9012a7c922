----------------------- MODULE MCSystemOperationLock -----------------------
(* Model values for checking SystemOperationLock with TLC. *)
EXTENDS SystemOperationLock, TLC

CONSTANTS w1, w2, w3

TwoWorkers == {w1, w2}
ThreeWorkers == {w1, w2, w3}
=============================================================================
