------------------------------- MODULE MCMpsc -------------------------------
(* The channel with the model values and bounds of the .cfg files.         *)
EXTENDS Mpsc
=============================================================================
