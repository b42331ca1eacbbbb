--------------------------- MODULE MCBlockingPool ---------------------------
(* Instance of BlockingPool for TLC.                                       *)
EXTENDS BlockingPool
=============================================================================
