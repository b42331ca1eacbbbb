----------------------------- MODULE MCBranches -----------------------------
(* Instance of Branches for TLC.                                           *)
EXTENDS Branches
=============================================================================
