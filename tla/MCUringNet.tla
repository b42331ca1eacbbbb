----------------------------- MODULE MCUringNet -----------------------------
(* Instance of UringNet for TLC.                                           *)
EXTENDS UringNet
=============================================================================
