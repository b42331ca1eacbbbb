------------------------------ MODULE MCOneshot -----------------------------
(* The oneshot channel with the bounds of the .cfg files.                  *)
EXTENDS Oneshot
=============================================================================
