--------------------------- MODULE EventRegistry ----------------------------
(***************************************************************************)
(* What the scheduler expects of a registry (include/xyco/runtime/         *)
(* registry.ccm): an event that is registered is handed out by select once *)
(* and only after what it stands for has happened, or it is withdrawn.     *)
(* The registries of the blocking pool, of timers, of epoll and of         *)
(* io_uring are shown to implement this module.                            *)
(***************************************************************************)
CONSTANT Event

VARIABLES
  held,      \* the registered events
  happened,  \* registered events whose operation is complete or ready
  reported   \* events handed out by select, whose future is not polled yet

vars == <<held, happened, reported>>

Init == held = {} /\ happened = {} /\ reported = {}

(* What the event stands for may have happened already.                    *)
Register(e) ==
  /\ e \notin held \cup reported
  /\ held' = held \cup {e}
  /\ happened' \in {happened, happened \cup {e}}
  /\ UNCHANGED reported

Happen(S) ==
  /\ S \subseteq held \ happened
  /\ happened' = happened \cup S
  /\ UNCHANGED <<held, reported>>

Select(S) ==
  /\ S \subseteq happened
  /\ held' = held \ S
  /\ happened' = happened \ S
  /\ reported' = reported \cup S

Poll(e) ==
  /\ e \in reported
  /\ reported' = reported \ {e}
  /\ UNCHANGED <<held, happened>>

(* deregister, or a registration that failed.                              *)
Withdraw(e) ==
  /\ e \in held \ happened
  /\ held' = held \ {e}
  /\ UNCHANGED <<happened, reported>>

Next ==
  \/ \E e \in Event : Register(e) \/ Poll(e) \/ Withdraw(e)
  \/ \E S \in SUBSET Event : Happen(S) \/ Select(S)

Spec == Init /\ [][Next]_vars
=============================================================================
