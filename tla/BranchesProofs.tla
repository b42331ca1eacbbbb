--------------------------- MODULE BranchesProofs ---------------------------
(***************************************************************************)
(* Proofs about join and select, for any number of futures.                *)
(***************************************************************************)
EXTENDS Branches, TLAPS

(***************************************************************************)
(* The inductive invariant.  BranchInv: where a branch is decides whether  *)
(* it has an outcome and has stored its result; only join stores before    *)
(* the lock.  OnceInv: registered_ is set when the future is queued, and   *)
(* the queued future is polled once.  ReadyInv: it was queued because the  *)
(* combination was complete.  SeenInv: the branch that completes it sees   *)
(* that it is complete.                                                    *)
(***************************************************************************)
BranchInv ==
  \A b \in Branch :
    /\ branch[b] = "none" <=> spawned < b
    /\ branch[b] \in {"store", "lock"} => outcome[b] # "none"
    /\ branch[b] \in {"locked", "unlock"} => result[b] # "none"
    /\ which = "join" =>
         /\ b \notin cancelled_
         /\ result[b] # "none" <=> branch[b] \in {"lock", "locked", "unlock", "end"}
    /\ which = "select" => branch[b] # "store"

OnceInv ==
  /\ ~registered_ => queued = 0 /\ Alive
  /\ registered_ => queued = (IF Alive THEN 1 ELSE 0)

ReadyInv == registered_ => Ready
SeenInv == Ready => registered_ \/ Checking

IInv == TypeOK /\ BranchInv /\ OnceInv /\ ReadyInv /\ SeenInv /\ DanglingWindow

-----------------------------------------------------------------------------
(* The future before its first poll satisfies the invariant.               *)
LEMMA InitIInv == Init => IInv
<1> SUFFICES ASSUME Init PROVE IInv OBVIOUS
<1> USE BranchAssumption DEF Init
<1>0. queued \in 0..N /\ spawned \in 0..N OBVIOUS
<1>b. registered_ \in BOOLEAN BY Zenon
<1>1. TypeOK BY <1>0, <1>b DEF TypeOK
<1>2. BranchInv BY DEF BranchInv, Branch
<1>3. OnceInv /\ ReadyInv /\ DanglingWindow
  BY DEF OnceInv, ReadyInv, DanglingWindow, Alive
<1>4. SeenInv BY DEF SeenInv, Ready, Completed, Branch
<1> QED BY <1>1, <1>2, <1>3, <1>4 DEF IInv

(* Every step preserves the invariant.                                     *)
LEMMA NextIInv == IInv /\ [Next]_vars => IInv'
<1> SUFFICES ASSUME IInv, [Next]_vars PROVE IInv' OBVIOUS
<1> USE BranchAssumption
<1>i. TypeOK /\ BranchInv /\ OnceInv /\ ReadyInv /\ SeenInv /\ DanglingWindow
  BY DEF IInv
<1>1. CASE Sound(Spawn)
  <2> USE <1>1 DEF Sound, Spawn, Touch, Goto, branchVars
  <2>0. spawned' \in 0..N /\ queued' \in 0..N BY <1>i DEF TypeOK
  <2>1. TypeOK' BY <1>i, <2>0 DEF TypeOK, Branch
  <2>2. BranchInv' BY <1>i DEF TypeOK, BranchInv, Branch
  <2>3. OnceInv' BY <1>i DEF TypeOK, OnceInv, Alive
  <2>4. ReadyInv'
    <3>1. Completed' = Completed /\ UNCHANGED <<which, registered_>>
      BY DEF Completed
    <3> QED BY <1>i, <3>1 DEF ReadyInv, Ready
  <2>5. DanglingWindow'
    BY <1>i DEF TypeOK, BranchInv, OnceInv, ReadyInv, Ready, DanglingWindow,
                Completed, Alive, Branch
  <2>6. SeenInv'
    BY <1>i DEF TypeOK, BranchInv, OnceInv, SeenInv, Ready, Checking, Completed, Alive, Branch
  <2> QED BY <2>1, <2>2, <2>3, <2>4, <2>5, <2>6 DEF IInv
<1>2. CASE Sound(JoinPoll)
  <2> USE <1>2 DEF Sound, JoinPoll, branchVars
  <2>0. queued' \in 0..N BY <1>i DEF TypeOK
  <2>1. TypeOK' BY <1>i, <2>0 DEF TypeOK, Output
  <2>2. BranchInv' BY <1>i DEF TypeOK, BranchInv, Branch
  <2>3. OnceInv' BY <1>i DEF TypeOK, OnceInv, Alive
  <2>4. ReadyInv' BY <1>i DEF TypeOK, BranchInv, OnceInv, ReadyInv, Ready, Completed, Alive
  <2>5. DanglingWindow'
    BY <1>i DEF TypeOK, BranchInv, OnceInv, ReadyInv, Ready, DanglingWindow,
                Completed, Alive, Branch
  <2>6. SeenInv'
    BY <1>i DEF TypeOK, BranchInv, OnceInv, SeenInv, Ready, Checking, Completed, Alive, Branch
  <2> QED BY <2>1, <2>2, <2>3, <2>4, <2>5, <2>6 DEF IInv
<1>3. CASE Sound(SelectPoll)
  <2> USE <1>3 DEF Sound, SelectPoll
  <2>0. queued' \in 0..N BY <1>i DEF TypeOK
  <2>1. TypeOK' BY <1>i, <2>0 DEF TypeOK, Output
  <2>2. BranchInv' BY <1>i DEF TypeOK, BranchInv, Branch
  <2>3. OnceInv' BY <1>i DEF TypeOK, OnceInv, Alive
  <2>4. ReadyInv' BY <1>i DEF TypeOK, BranchInv, OnceInv, ReadyInv, Ready, Completed, Alive
  <2>5. DanglingWindow'
    BY <1>i DEF TypeOK, BranchInv, OnceInv, ReadyInv, Ready, DanglingWindow,
                Completed, Alive, Branch
  <2>6. SeenInv'
    BY <1>i DEF TypeOK, BranchInv, OnceInv, SeenInv, Ready, Checking, Completed, Alive, Branch
  <2> QED BY <2>1, <2>2, <2>3, <2>4, <2>5, <2>6 DEF IInv
<1>4. ASSUME NEW b \in Branch, NEW out \in Output, Sound(Finish(b, out)) PROVE IInv'
  <2> USE <1>4 DEF Sound, Finish, Goto, Output
  <2>1. TypeOK' BY <1>i DEF TypeOK, Branch, OnceInv, Alive
  <2>2. BranchInv' BY <1>i DEF TypeOK, BranchInv, Branch
  <2>3. OnceInv' BY <1>i DEF TypeOK, OnceInv, Alive
  <2>4. ReadyInv' BY <1>i DEF TypeOK, BranchInv, OnceInv, ReadyInv, Ready, Completed, Alive
  <2>5. DanglingWindow'
    BY <1>i DEF TypeOK, BranchInv, OnceInv, ReadyInv, Ready, DanglingWindow,
                Completed, Alive, Branch
  <2>6. SeenInv'
    BY <1>i DEF TypeOK, BranchInv, OnceInv, SeenInv, Ready, Checking, Completed, Alive, Branch
  <2> QED BY <2>1, <2>2, <2>3, <2>4, <2>5, <2>6 DEF IInv
<1>5. ASSUME NEW b \in Branch, Sound(Cancelled(b)) PROVE IInv'
  <2> USE <1>5 DEF Sound, Cancelled, Goto
  <2>1. TypeOK' BY <1>i DEF TypeOK, Branch, OnceInv, Alive
  <2>2. BranchInv' BY <1>i DEF TypeOK, BranchInv, Branch
  <2>3. OnceInv' BY <1>i DEF TypeOK, OnceInv, Alive
  <2>4. ReadyInv' BY <1>i DEF TypeOK, BranchInv, OnceInv, ReadyInv, Ready, Completed, Alive
  <2>5. DanglingWindow'
    BY <1>i DEF TypeOK, BranchInv, OnceInv, ReadyInv, Ready, DanglingWindow,
                Completed, Alive, Branch
  <2>6. SeenInv'
    BY <1>i DEF TypeOK, BranchInv, OnceInv, SeenInv, Ready, Checking, Completed, Alive, Branch
  <2> QED BY <2>1, <2>2, <2>3, <2>4, <2>5, <2>6 DEF IInv
<1>6. ASSUME NEW b \in Branch, Sound(Store(b)) PROVE IInv'
  <2> USE <1>6 DEF Sound, Store, Goto, Touch, branchVars
  <2>1. TypeOK' BY <1>i DEF TypeOK, Branch, OnceInv, Alive
  <2>2. BranchInv' BY <1>i DEF TypeOK, BranchInv, Branch
  <2>3. OnceInv' BY <1>i DEF TypeOK, OnceInv, Alive
  <2>4. ReadyInv' BY <1>i DEF TypeOK, BranchInv, OnceInv, ReadyInv, Ready, Completed, Alive
  <2>5. DanglingWindow'
    BY <1>i DEF TypeOK, BranchInv, OnceInv, ReadyInv, Ready, DanglingWindow,
                Completed, Alive, Branch
  <2>6. SeenInv'
    BY <1>i DEF TypeOK, BranchInv, OnceInv, SeenInv, Ready, Checking, Completed, Alive, Branch
  <2> QED BY <2>1, <2>2, <2>3, <2>4, <2>5, <2>6 DEF IInv
<1>7. ASSUME NEW b \in Branch, Sound(JoinLock(b)) PROVE IInv'
  <2> USE <1>7 DEF Sound, JoinLock, Goto, Touch, branchVars
  <2>1. TypeOK' BY <1>i DEF TypeOK, Branch, OnceInv, Alive
  <2>2. BranchInv' BY <1>i DEF TypeOK, BranchInv, Branch
  <2>3. OnceInv' BY <1>i DEF TypeOK, OnceInv, Alive
  <2>4. ReadyInv' BY <1>i DEF TypeOK, BranchInv, OnceInv, ReadyInv, Ready, Completed, Alive
  <2>5. DanglingWindow'
    BY <1>i DEF TypeOK, BranchInv, OnceInv, ReadyInv, Ready, DanglingWindow,
                Completed, Alive, Branch
  <2>6. SeenInv'
    BY <1>i DEF TypeOK, BranchInv, OnceInv, SeenInv, Ready, Checking, Completed, Alive, Branch
  <2> QED BY <2>1, <2>2, <2>3, <2>4, <2>5, <2>6 DEF IInv
<1>8. ASSUME NEW b \in Branch, Sound(JoinCheck(b)) PROVE IInv'
  <2> USE <1>8 DEF Sound, JoinCheck, Goto, Touch, branchVars
  <2>0. queued' \in 0..N BY <1>i DEF TypeOK, OnceInv, Alive
  <2>b. registered_' \in BOOLEAN BY <1>i, Zenon DEF TypeOK
  <2>1. TypeOK' BY <1>i, <2>0, <2>b DEF TypeOK
  <2>2. BranchInv' BY <1>i DEF TypeOK, BranchInv, Branch
  <2>3. OnceInv' BY <1>i DEF TypeOK, OnceInv, Alive
  <2>4. ReadyInv' BY <1>i DEF TypeOK, BranchInv, OnceInv, ReadyInv, Ready, Completed, Alive
  <2>5. DanglingWindow'
    BY <1>i DEF TypeOK, BranchInv, OnceInv, ReadyInv, Ready, DanglingWindow,
                Completed, Alive, Branch
  <2>6. SeenInv'
    BY <1>i DEF TypeOK, BranchInv, OnceInv, SeenInv, Ready, Checking, Completed, Alive, Branch
  <2> QED BY <2>1, <2>2, <2>3, <2>4, <2>5, <2>6 DEF IInv
<1>9. ASSUME NEW b \in Branch, Sound(JoinUnlock(b)) PROVE IInv'
  <2> USE <1>9 DEF Sound, JoinUnlock, Goto, Touch, branchVars
  <2>1. TypeOK' BY <1>i DEF TypeOK, Branch, OnceInv, Alive
  <2>2. BranchInv' BY <1>i DEF TypeOK, BranchInv, Branch
  <2>3. OnceInv' BY <1>i DEF TypeOK, OnceInv, Alive
  <2>4. ReadyInv' BY <1>i DEF TypeOK, BranchInv, OnceInv, ReadyInv, Ready, Completed, Alive
  <2>5. DanglingWindow'
    BY <1>i DEF TypeOK, BranchInv, OnceInv, ReadyInv, Ready, DanglingWindow,
                Completed, Alive, Branch
  <2>6. SeenInv'
    BY <1>i DEF TypeOK, BranchInv, OnceInv, SeenInv, Ready, Checking, Completed, Alive, Branch
  <2> QED BY <2>1, <2>2, <2>3, <2>4, <2>5, <2>6 DEF IInv
<1>10. ASSUME NEW b \in Branch, Sound(SelectLock(b)) PROVE IInv'
  <2> USE <1>10 DEF Sound, SelectLock, Goto
  <2>1. TypeOK' BY <1>i DEF TypeOK, Branch, OnceInv, Alive
  <2>2. BranchInv' BY <1>i DEF TypeOK, BranchInv, Branch
  <2>3. OnceInv' BY <1>i DEF TypeOK, OnceInv, Alive
  <2>4. ReadyInv' BY <1>i DEF TypeOK, BranchInv, OnceInv, ReadyInv, Ready, Completed, Alive
  <2>5. DanglingWindow'
    BY <1>i DEF TypeOK, BranchInv, OnceInv, ReadyInv, Ready, DanglingWindow,
                Completed, Alive, Branch
  <2>6. SeenInv'
    BY <1>i DEF TypeOK, BranchInv, OnceInv, SeenInv, Ready, Checking, Completed, Alive, Branch
  <2> QED BY <2>1, <2>2, <2>3, <2>4, <2>5, <2>6 DEF IInv
<1>11. ASSUME NEW b \in Branch, Sound(SelectCheck(b)) PROVE IInv'
  <2> USE <1>11 DEF Sound, SelectCheck, Goto
  <2>0. queued' \in 0..N BY <1>i DEF TypeOK, OnceInv, Alive
  <2>b. registered_' \in BOOLEAN BY <1>i, Zenon DEF TypeOK
  <2>1. TypeOK' BY <1>i, <2>0, <2>b DEF TypeOK
  <2>2. BranchInv' BY <1>i DEF TypeOK, BranchInv, Branch
  <2>3. OnceInv' BY <1>i DEF TypeOK, OnceInv, Alive
  <2>4. ReadyInv' BY <1>i DEF TypeOK, BranchInv, OnceInv, ReadyInv, Ready, Completed, Alive
  <2>5. DanglingWindow'
    BY <1>i DEF TypeOK, BranchInv, OnceInv, ReadyInv, Ready, DanglingWindow,
                Completed, Alive, Branch
  <2>6. SeenInv'
    BY <1>i DEF TypeOK, BranchInv, OnceInv, SeenInv, Ready, Checking, Completed, Alive, Branch
  <2> QED BY <2>1, <2>2, <2>3, <2>4, <2>5, <2>6 DEF IInv
<1>12. ASSUME NEW b \in Branch, Sound(SelectUnlock(b)) PROVE IInv'
  <2> USE <1>12 DEF Sound, SelectUnlock, Goto
  <2>1. TypeOK' BY <1>i DEF TypeOK, Branch, OnceInv, Alive
  <2>2. BranchInv' BY <1>i DEF TypeOK, BranchInv, Branch
  <2>3. OnceInv' BY <1>i DEF TypeOK, OnceInv, Alive
  <2>4. ReadyInv' BY <1>i DEF TypeOK, BranchInv, OnceInv, ReadyInv, Ready, Completed, Alive
  <2>5. DanglingWindow'
    BY <1>i DEF TypeOK, BranchInv, OnceInv, ReadyInv, Ready, DanglingWindow,
                Completed, Alive, Branch
  <2>6. SeenInv'
    BY <1>i DEF TypeOK, BranchInv, OnceInv, SeenInv, Ready, Checking, Completed, Alive, Branch
  <2> QED BY <2>1, <2>2, <2>3, <2>4, <2>5, <2>6 DEF IInv
<1>13. CASE UNCHANGED vars
  <2> USE <1>13 DEF vars, branchVars
  <2>1. TypeOK' BY <1>i DEF TypeOK, Branch, OnceInv, Alive
  <2>2. BranchInv' BY <1>i DEF TypeOK, BranchInv, Branch
  <2>3. OnceInv' BY <1>i DEF TypeOK, OnceInv, Alive
  <2>4. ReadyInv' BY <1>i DEF TypeOK, BranchInv, OnceInv, ReadyInv, Ready, Completed, Alive
  <2>5. DanglingWindow'
    BY <1>i DEF TypeOK, BranchInv, OnceInv, ReadyInv, Ready, DanglingWindow,
                Completed, Alive, Branch
  <2>6. SeenInv'
    BY <1>i DEF TypeOK, BranchInv, OnceInv, SeenInv, Ready, Checking, Completed, Alive, Branch
  <2> QED BY <2>1, <2>2, <2>3, <2>4, <2>5, <2>6 DEF IInv
<1> QED
  BY <1>1, <1>2, <1>3, <1>4, <1>5, <1>6, <1>7, <1>8, <1>9, <1>10, <1>11, <1>12, <1>13
  DEF Next, Run, Poll, Sound

(* The invariant holds in every reachable state.                           *)
LEMMA Invariance == Spec => []IInv
  BY InitIInv, NextIInv, PTL DEF Spec

-----------------------------------------------------------------------------
(* However the branches interleave, throw or are cancelled, the awaiting   *)
(* coroutine is resumed once, by a future that has what its second poll    *)
(* takes out of the branches, and it is not forgotten: no branch completes *)
(* the combination without a look at registered_ to come.                  *)
THEOREM ResumesOnce == Spec => []ResumedOnce
<1>1. IInv => ResumedOnce
  BY DEF IInv, ResumedOnce, OnceInv, ReadyInv, SeenInv, TypeOK
<1> QED BY <1>1, Invariance, PTL

(* A destroyed future is touched in no other way than these: the first     *)
(* poll of a select that still spawns, and a branch of a join on its way   *)
(* through the lock when all results are there.                            *)
THEOREM TouchesOnlyInWindow == Spec => []DanglingWindow
<1>1. IInv => DanglingWindow BY DEF IInv
<1> QED BY <1>1, Invariance, PTL

=============================================================================
