------------------------------ MODULE Executor ------------------------------
(***************************************************************************)
(* What the xyco runtime promises about a spawned coroutine, whatever      *)
(* number of worker threads carries it: a coroutine becomes runnable when  *)
(* it is spawned or woken, a runnable coroutine is taken by one thread, a  *)
(* running one either suspends on a future or finishes, and it is woken    *)
(* only from a suspension.  Nothing is ever resumed twice for one wake,    *)
(* resumed while it runs, or resumed after it finished.                    *)
(***************************************************************************)
CONSTANT Task

VARIABLE status

Status == {"unborn", "runnable", "running", "waiting", "done"}

Move(t, from, to) ==
  /\ status[t] = from
  /\ status' = [status EXCEPT ![t] = to]

Init == status = [t \in Task |-> "unborn"]

Spawn(t)    == Move(t, "unborn", "runnable")
Dispatch(t) == Move(t, "runnable", "running")
Suspend(t)  == Move(t, "running", "waiting")
Wake(t)     == Move(t, "waiting", "runnable")
Finish(t)   == Move(t, "running", "done")

Next ==
  \E t \in Task :
    Spawn(t) \/ Dispatch(t) \/ Suspend(t) \/ Wake(t) \/ Finish(t)

Spec == Init /\ [][Next]_status

=============================================================================
