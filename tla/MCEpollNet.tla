----------------------------- MODULE MCEpollNet -----------------------------
(* Instances of EpollNet for TLC.  Threads, objects and descriptors are    *)
(* interchangeable; the symmetry is used for safety only.                  *)
EXTENDS EpollNet, TLC

Symmetry == Permutations(Thread) \cup Permutations(Socket) \cup Permutations(Fd)
=============================================================================
