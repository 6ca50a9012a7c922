-------------------------- MODULE MCBatchImageJobs --------------------------
EXTENDS BatchImageJobs, TLC
CONSTANTS w1, w2
OneWorker == {w1}
TwoWorkers == {w1, w2}
=============================================================================
