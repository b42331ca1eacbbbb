------------------------------ MODULE Branches ------------------------------
(***************************************************************************)
(* join and select (include/xyco/task/{join,select}.ccm), on which timeout *)
(* (include/xyco/time/timeout.ccm) rests.                                  *)
(*                                                                         *)
(* The first poll of a JoinFuture or SelectFuture spawns one coroutine     *)
(* run_single_branch for each future.  These run on any worker thread,     *)
(* also while the first poll is still spawning.  The one that completes    *)
(* the combination queues the JoinFuture or SelectFuture, which is polled  *)
(* again, on any thread, and destroyed when the awaiting coroutine goes    *)
(* on.  An access to a destroyed object ends a behaviour (dangling).       *)
(***************************************************************************)
EXTENDS Naturals

CONSTANT N  \* number of futures

ASSUME BranchAssumption == N \in Nat \ {0}

Branch == 1..N
Output == {"value", "exception"}

VARIABLES
  which,       \* "join" or "select"
  spawned,     \* branches the first poll has spawned
  branch,      \* where each run_single_branch is
  outcome,     \* what its future has returned or thrown
  result,      \* the optional of the branch
  cancelled_,  \* branches whose future is cancelled
  registered_,
  queued,      \* how often the future is in handles_
  awaiter,     \* the coroutine that awaits the future: "suspended" or what it got
  dangling     \* an access to a destroyed JoinFuture or SelectFuture

branchVars == <<branch, outcome, result, cancelled_>>
vars == <<which, spawned, branchVars, registered_, queued, awaiter, dangling>>

Init ==
  /\ which \in {"join", "select"}
  /\ spawned = 0
  /\ branch = [b \in Branch |-> "none"]
  /\ outcome = [b \in Branch |-> "none"]
  /\ result = [b \in Branch |-> "none"]
  /\ cancelled_ = {}
  /\ registered_ = FALSE /\ queued = 0
  /\ awaiter = "suspended"
  /\ dangling = "none"

Alive == awaiter = "suspended"
Locked == \E b \in Branch : branch[b] \in {"locked", "unlock"}
Goto(b, place) == branch' = [branch EXCEPT ![b] = place]
Completed == {b \in Branch : result[b] # "none"}

(* A step that touches a member of the future.                             *)
Touch(how, step) ==
  IF Alive THEN step /\ UNCHANGED dangling
  ELSE dangling' = how /\ UNCHANGED <<spawned, branchVars, registered_, queued>>

-----------------------------------------------------------------------------
(* The first poll: spawn_impl for one branch after the other.              *)
Spawn ==
  /\ spawned < N
  /\ Touch("spawn", /\ spawned' = spawned + 1
                    /\ Goto(spawned + 1, "run")
                    /\ UNCHANGED <<outcome, result, cancelled_, registered_, queued>>)
  /\ UNCHANGED <<which, awaiter>>

(* co_await of the branch's future ends with a value or an exception; once *)
(* cancelled with a CancelException in place of the value (await_resume).  *)
Finish(b, out) ==
  /\ branch[b] = "run" /\ (b \in cancelled_ => out = "exception")
  /\ outcome' = [outcome EXCEPT ![b] = out]
  /\ Goto(b, IF which = "join" THEN "store" ELSE "lock")
  /\ UNCHANGED <<which, spawned, result, cancelled_, registered_, queued, awaiter, dangling>>

Cancelled(b) ==
  /\ branch[b] = "run" /\ b \in cancelled_
  /\ Goto(b, "end")
  /\ UNCHANGED <<which, spawned, outcome, result, cancelled_, registered_, queued, awaiter,
                 dangling>>

-----------------------------------------------------------------------------
(* JoinFuture::run_single_branch: the result is stored without the lock.   *)
Store(b) ==
  /\ branch[b] = "store"
  /\ Touch("store", /\ result' = [result EXCEPT ![b] = outcome[b]]
                    /\ Goto(b, "lock")
                    /\ UNCHANGED <<spawned, outcome, cancelled_, registered_, queued>>)
  /\ UNCHANGED <<which, awaiter>>

JoinLock(b) ==
  /\ which = "join" /\ branch[b] = "lock"
  /\ Alive => ~Locked
  /\ Touch("lock", /\ Goto(b, "locked")
                   /\ UNCHANGED <<spawned, outcome, result, cancelled_, registered_, queued>>)
  /\ UNCHANGED <<which, awaiter>>

(* Mutant: one result is enough.                                           *)
JoinCheckAny(b) ==
  /\ which = "join" /\ branch[b] = "locked"
  /\ Touch("check", /\ IF ~registered_ /\ Completed # {}
                       THEN registered_' = TRUE /\ queued' = queued + 1
                       ELSE UNCHANGED <<registered_, queued>>
                    /\ Goto(b, "unlock")
                    /\ UNCHANGED <<spawned, outcome, result, cancelled_>>)
  /\ UNCHANGED <<which, awaiter>>

JoinCheck(b) ==
  /\ which = "join" /\ branch[b] = "locked"
  /\ Touch("check", /\ IF ~registered_ /\ Completed = Branch
                       THEN registered_' = TRUE /\ queued' = queued + 1
                       ELSE UNCHANGED <<registered_, queued>>
                    /\ Goto(b, "unlock")
                    /\ UNCHANGED <<spawned, outcome, result, cancelled_>>)
  /\ UNCHANGED <<which, awaiter>>

JoinUnlock(b) ==
  /\ which = "join" /\ branch[b] = "unlock"
  /\ Touch("unlock", /\ Goto(b, "end")
                     /\ UNCHANGED <<spawned, outcome, result, cancelled_, registered_, queued>>)
  /\ UNCHANGED <<which, awaiter>>

(* The second poll: all values, or one of the exceptions.  The JoinFuture  *)
(* is gone when the awaiting coroutine goes on.                            *)
JoinPoll ==
  /\ which = "join" /\ queued > 0 /\ Alive
  /\ queued' = queued - 1
  /\ awaiter' = IF \E b \in Branch : result[b] = "exception" THEN "exception" ELSE "value"
  /\ UNCHANGED <<which, spawned, branchVars, registered_, dangling>>

-----------------------------------------------------------------------------
(* SelectFuture::run_single_branch: the lock is in BranchShared, which     *)
(* every branch keeps alive.                                               *)
SelectLock(b) ==
  /\ which = "select" /\ branch[b] = "lock" /\ ~Locked
  /\ result' = [result EXCEPT ![b] = outcome[b]]
  /\ Goto(b, "locked")
  /\ UNCHANGED <<which, spawned, outcome, cancelled_, registered_, queued, awaiter, dangling>>

(* Mutant: a branch that throws does not count.                            *)
SelectCheckValue(b) ==
  /\ which = "select" /\ branch[b] = "locked"
  /\ IF ~registered_ /\ Alive /\ result[b] = "value"
     THEN registered_' = TRUE /\ queued' = queued + 1
     ELSE UNCHANGED <<registered_, queued>>
  /\ Goto(b, "unlock")
  /\ UNCHANGED <<which, spawned, outcome, result, cancelled_, awaiter, dangling>>

(* self_ is reset by ~SelectFuture.                                        *)
SelectCheck(b) ==
  /\ which = "select" /\ branch[b] = "locked"
  /\ IF ~registered_ /\ Alive
     THEN registered_' = TRUE /\ queued' = queued + 1
     ELSE UNCHANGED <<registered_, queued>>
  /\ Goto(b, "unlock")
  /\ UNCHANGED <<which, spawned, outcome, result, cancelled_, awaiter, dangling>>

(* Mutant: the lock is a member of the SelectFuture.                       *)
SelectUnlockMember(b) ==
  /\ which = "select" /\ branch[b] = "unlock"
  /\ Touch("unlock", /\ Goto(b, "end")
                     /\ UNCHANGED <<spawned, outcome, result, cancelled_, registered_, queued>>)
  /\ UNCHANGED <<which, awaiter>>

SelectUnlock(b) ==
  /\ which = "select" /\ branch[b] = "unlock"
  /\ Goto(b, "end")
  /\ UNCHANGED <<which, spawned, outcome, result, cancelled_, registered_, queued, awaiter,
                 dangling>>

(* The second poll, under the shared lock, goes through the branches in an *)
(* order that C++ leaves open, cancels those without a result, and stops   *)
(* at one that has thrown: any of them may not be reached then.            *)
SelectPoll ==
  LET pending == Branch \ Completed
      threw == \E b \in Branch : result[b] = "exception"
  IN
  /\ which = "select" /\ queued > 0 /\ Alive /\ ~Locked
  /\ queued' = queued - 1
  /\ \E reached \in SUBSET pending : /\ ~threw => reached = pending
                                     /\ cancelled_' = cancelled_ \cup reached
  /\ awaiter' = IF threw THEN "exception" ELSE "value"
  /\ UNCHANGED <<which, spawned, branch, outcome, result, registered_, dangling>>

-----------------------------------------------------------------------------
Run(b) ==
  \/ (\E out \in Output : Finish(b, out)) \/ Cancelled(b)
  \/ Store(b) \/ JoinLock(b) \/ JoinCheck(b) \/ JoinUnlock(b)
  \/ SelectLock(b) \/ SelectCheck(b) \/ SelectUnlock(b)

Poll == JoinPoll \/ SelectPoll

Sound(step) == dangling = "none" /\ step

Next == Sound(Spawn) \/ Sound(Poll) \/ \E b \in Branch : Sound(Run(b))

(* Workers run what is in handles_; the futures of the branches end.       *)
Fairness ==
  /\ WF_vars(Sound(Spawn)) /\ WF_vars(Sound(Poll))
  /\ \A b \in Branch : SF_vars(Sound(Run(b)))

Spec == Init /\ [][Next]_vars /\ Fairness

-----------------------------------------------------------------------------
TypeOK ==
  /\ which \in {"join", "select"} /\ spawned \in 0..N
  /\ branch \in [Branch -> {"none", "run", "store", "lock", "locked", "unlock", "end"}]
  /\ outcome \in [Branch -> Output \cup {"none"}]
  /\ result \in [Branch -> Output \cup {"none"}]
  /\ cancelled_ \subseteq Branch
  /\ registered_ \in BOOLEAN /\ queued \in 0..N
  /\ awaiter \in {"suspended"} \cup Output
  /\ dangling \in {"none", "spawn", "store", "lock", "check", "unlock"}

(* What the second poll takes out of the branches is there: all results    *)
(* for join, one of a select ("At least one of these `std::optional` has a *)
(* value"), also for the timeout that takes the value of the future when   *)
(* its sleep has none.                                                     *)
Ready == IF which = "join" THEN Completed = Branch ELSE Completed # {}

(* A branch that has stored its result is about to look at registered_.    *)
Checking ==
  \E b \in Branch : branch[b] \in IF which = "join" THEN {"lock", "locked"} ELSE {"locked"}

(* The awaiting coroutine is resumed once: the future is in handles_ at    *)
(* most once, only when it is ready, and not any more when it has been     *)
(* destroyed; and as soon as it is ready it has been put there or will be, *)
(* although join stores the results without the lock.                      *)
ResumedOnce ==
  /\ TypeOK
  /\ queued <= (IF Alive THEN 1 ELSE 0)
  /\ queued > 0 \/ ~Alive => Ready
  /\ Ready => registered_ \/ Checking

(* Who may touch a destroyed future.  For select only its own first poll,  *)
(* still spawning when a branch has completed already; no branch does, as  *)
(* the shared state says.  For join a branch that has stored its result    *)
(* when another one found all results there, before it has left the lock.  *)
DanglingWindow ==
  CASE dangling = "none" -> TRUE
    [] dangling = "spawn" -> which = "select" /\ Completed # {} /\ spawned < N
    [] dangling \in {"lock", "check", "unlock"} -> which = "join" /\ Completed = Branch
    [] OTHER -> FALSE

(* The awaiting coroutine goes on, and every branch ends, so that the      *)
(* state they share is freed, whoever throws or is cancelled.              *)
AllEnd ==
  <>(\/ dangling # "none"
     \/ ~Alive /\ \A b \in Branch : branch[b] = "end")
=============================================================================
