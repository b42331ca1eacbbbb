--------------------------- MODULE MCWorkerLaunch ---------------------------
(* Model values for the construction of a runtime.                         *)
EXTENDS WorkerLaunch
=============================================================================
