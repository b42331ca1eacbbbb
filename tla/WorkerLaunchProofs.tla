------------------------- MODULE WorkerLaunchProofs -------------------------
(***************************************************************************)
(* Proofs about the construction of a runtime, for any number of workers   *)
(* and any set of them that may wake up spuriously.                        *)
(***************************************************************************)
EXTENDS WorkerLaunch, FiniteSetTheorems, TLAPS

(***************************************************************************)
(* The inductive invariant.  Workers initialize under the barrier's mutex, *)
(* the creator before any worker exists (MutexInv, MainInv): so a thread   *)
(* is alone between GlobalRegistry's check and its creation (SharedInv).   *)
(* The workers past their initialization are counted (CountInv), and one   *)
(* of them goes on without a spurious wakeup only when all are counted     *)
(* (BarrierInv).                                                           *)
(***************************************************************************)
Initializing == {"add", "lookup", "create", "added"}
Past == {"wait", "notify", "relock", "run", "read"}
Arrived == {w \in Worker : pc[w] \in Past}

MutexInv ==
  \A w \in Worker : pc[w] \in Initializing <=> worker_launch_mutex_ = w

MainInv ==
  /\ pc[Main] \in Initializing \cup {"start", "run", "read"}
  /\ pc[Main] \in Initializing => \A w \in Worker : pc[w] = "unborn"
  /\ \A w \in Worker : pc[w] # "start"

SharedInv ==
  /\ \A w \in Thread : local_registries_[w] \in {None, per_runtime_registry_}
  /\ per_runtime_registry_ = None <=> pc[Main] \in {"add", "lookup", "create"}
  /\ \A w \in Worker : pc[w] # "create"

CountInv == init_worker_num_ = Cardinality(Arrived)

Released(w) ==
  \/ pc[w] = "notify"
  \/ w \notin Spurious /\ pc[w] \in {"relock", "run", "read"}

BarrierInv == \A w \in Worker : Released(w) => Arrived = Worker

IInv == TypeOK /\ MutexInv /\ MainInv /\ SharedInv /\ CountInv /\ BarrierInv

-----------------------------------------------------------------------------
(* A set of workers is finite, and it is all of them when it is as large.  *)
LEMMA WorkerSubset ==
  ASSUME NEW S \in SUBSET Worker
  PROVE  /\ IsFiniteSet(S)
         /\ Cardinality(S) \in Nat /\ Cardinality(Worker) \in Nat
         /\ Cardinality(S) <= Cardinality(Worker)
         /\ Cardinality(S) = Cardinality(Worker) => S = Worker
  BY LaunchAssumption, FS_Subset, FS_CardinalityType

(* One more worker is one more in the count.                               *)
LEMMA OneMore ==
  ASSUME NEW S \in SUBSET Worker, NEW w \in Worker, w \notin S
  PROVE  Cardinality(S \cup {w}) = Cardinality(S) + 1
  BY WorkerSubset, FS_AddElement

(* The creator is none of the workers, and None is no thread.              *)
LEMMA Distinct ==
  /\ Main \in Thread /\ Main \notin Worker /\ Worker \subseteq Thread
  /\ None \notin Thread /\ Spurious \subseteq Worker
  BY LaunchAssumption DEF Thread

(* The state before the creator adds itself satisfies the invariant.       *)
LEMMA InitIInv == Init => IInv
<1> SUFFICES ASSUME Init PROVE IInv OBVIOUS
<1> USE Distinct
<1>1. Arrived = {} BY DEF Init, Arrived, Past, Thread
<1>2. Cardinality(Arrived) = 0 BY <1>1, FS_EmptySet
<1>3. TypeOK BY WorkerSubset DEF Init, TypeOK, Place
<1>4. MutexInv /\ MainInv /\ SharedInv
  BY DEF Init, MutexInv, MainInv, SharedInv, Initializing
<1>5. CountInv BY <1>2 DEF Init, CountInv
<1>6. BarrierInv BY DEF Init, BarrierInv, Released
<1> QED BY <1>3, <1>4, <1>5, <1>6 DEF IInv

(* A step of one thread w that does not arrive at the barrier leaves the   *)
(* count alone, and lets nobody go on who might not have gone on before.   *)
LEMMA QuietStep ==
  ASSUME IInv, UNCHANGED init_worker_num_, Arrived' = Arrived,
         \A w \in Worker : Released(w)' => \E v \in Worker : Released(v)
  PROVE  CountInv' /\ BarrierInv'
<1>1. CountInv' BY DEF IInv, CountInv
<1>2. BarrierInv' BY DEF IInv, BarrierInv
<1> QED BY <1>1, <1>2

-----------------------------------------------------------------------------
(* Every step preserves the invariant.                                     *)
LEMMA NextIInv == IInv /\ [Next]_vars => IInv'
<1> SUFFICES ASSUME IInv, [Next]_vars PROVE IInv' OBVIOUS
<1> USE Distinct
<1>t. TypeOK /\ MutexInv /\ MainInv /\ SharedInv /\ CountInv /\ BarrierInv
  BY DEF IInv
<1>1. ASSUME NEW w \in Worker, Start(w) PROVE IInv'
  <2> USE <1>1 DEF Start, Goto
  <2>1. TypeOK' BY <1>t DEF TypeOK, Place
  <2>2. MutexInv' /\ MainInv' /\ SharedInv'
    BY <1>t DEF TypeOK, MutexInv, MainInv, SharedInv, Initializing
  <2>3. Arrived' = Arrived BY <1>t DEF TypeOK, Arrived, Past
  <2>4. \A u \in Worker : Released(u)' => Released(u) BY <1>t DEF TypeOK, Released
  <2> QED BY <2>1, <2>2, <2>3, <2>4, QuietStep DEF IInv
<1>2. ASSUME NEW w \in Worker, SpuriousWake(w) PROVE IInv'
  <2> USE <1>2 DEF SpuriousWake, Goto
  <2>1. TypeOK' BY <1>t DEF TypeOK, Place
  <2>2. MutexInv' /\ MainInv' /\ SharedInv'
    BY <1>t DEF TypeOK, MutexInv, MainInv, SharedInv, Initializing
  <2>3. Arrived' = Arrived BY <1>t DEF TypeOK, Arrived, Past
  <2>4. \A u \in Worker : Released(u)' => Released(u) BY <1>t DEF TypeOK, Released
  <2> QED BY <2>1, <2>2, <2>3, <2>4, QuietStep DEF IInv
<1>3. CASE Constructed
  <2> USE <1>3 DEF Constructed, Goto
  <2>1. TypeOK' BY <1>t DEF TypeOK, Place
  <2>2. MutexInv' /\ MainInv' /\ SharedInv'
    BY <1>t DEF TypeOK, MutexInv, MainInv, SharedInv, Initializing
  <2>3. Arrived' = Arrived BY <1>t DEF TypeOK, Arrived, Past
  <2>4. \A u \in Worker : Released(u)' => Released(u) BY <1>t DEF TypeOK, Released
  <2> QED BY <2>1, <2>2, <2>3, <2>4, QuietStep DEF IInv
<1>4. CASE InPlaceAdded
  <2> USE <1>4 DEF InPlaceAdded, Goto
  <2>1. TypeOK' BY <1>t DEF TypeOK, Place
  <2>2. MutexInv' /\ MainInv' /\ SharedInv'
    BY <1>t DEF TypeOK, MutexInv, MainInv, SharedInv, Initializing
  <2>3. Arrived' = Arrived BY <1>t DEF TypeOK, Arrived, Past
  <2>4. \A u \in Worker : Released(u)' => Released(u) BY <1>t DEF TypeOK, Released
  <2> QED BY <2>1, <2>2, <2>3, <2>4, QuietStep DEF IInv
<1>5. ASSUME NEW w \in Thread, Launch(w) PROVE IInv'
  <2> USE <1>5 DEF Launch, Goto
  <2>1. TypeOK' BY <1>t DEF TypeOK, Place, MainInv, Initializing, Thread
  <2>2. MutexInv' /\ MainInv' /\ SharedInv'
    BY <1>t DEF TypeOK, MutexInv, MainInv, SharedInv, Initializing, Thread
  <2>3. Arrived' = Arrived BY <1>t DEF TypeOK, Arrived, Past, MainInv, Initializing
  <2>4. \A u \in Worker : Released(u)' => Released(u)
    BY <1>t DEF TypeOK, Released, MainInv, Initializing
  <2> QED BY <2>1, <2>2, <2>3, <2>4, QuietStep DEF IInv
<1>6. ASSUME NEW w \in Thread, AddThread(w) PROVE IInv'
  <2> USE <1>6 DEF AddThread, Goto
  <2>1. TypeOK' BY <1>t DEF TypeOK, Place
  <2>2. MutexInv' /\ MainInv' /\ SharedInv'
    BY <1>t DEF TypeOK, MutexInv, MainInv, SharedInv, Initializing, Thread
  <2>3. Arrived' = Arrived BY <1>t DEF TypeOK, Arrived, Past, MainInv, Initializing
  <2>4. \A u \in Worker : Released(u)' => Released(u)
    BY <1>t DEF TypeOK, Released, MainInv, Initializing
  <2> QED BY <2>1, <2>2, <2>3, <2>4, QuietStep DEF IInv
<1>7. ASSUME NEW w \in Thread, Lookup(w) PROVE IInv'
  <2> USE <1>7 DEF Lookup, Goto
  <2>1. TypeOK' BY <1>t DEF TypeOK, Place
  <2>2. MutexInv' /\ MainInv' /\ SharedInv'
    BY <1>t DEF TypeOK, MutexInv, MainInv, SharedInv, Initializing, Thread
  <2>3. Arrived' = Arrived BY <1>t DEF TypeOK, Arrived, Past, MainInv, Initializing
  <2>4. \A u \in Worker : Released(u)' => Released(u)
    BY <1>t DEF TypeOK, Released, MainInv, Initializing
  <2> QED BY <2>1, <2>2, <2>3, <2>4, QuietStep DEF IInv
<1>8. ASSUME NEW w \in Thread, Create(w) PROVE IInv'
  <2> USE <1>8 DEF Create, Goto
  <2>1. TypeOK' BY <1>t DEF TypeOK, Place
  <2>2. MutexInv' /\ MainInv' /\ SharedInv'
    BY <1>t DEF TypeOK, MutexInv, MainInv, SharedInv, Initializing, Thread
  <2>3. Arrived' = Arrived BY <1>t DEF TypeOK, Arrived, Past, MainInv, Initializing
  <2>4. \A u \in Worker : Released(u)' => Released(u)
    BY <1>t DEF TypeOK, Released, MainInv, Initializing
  <2> QED BY <2>1, <2>2, <2>3, <2>4, QuietStep DEF IInv
<1>9. ASSUME NEW w \in Thread, BeginRead(w) PROVE IInv'
  <2> USE <1>9 DEF BeginRead, Goto
  <2>1. TypeOK' BY <1>t DEF TypeOK, Place
  <2>2. MutexInv' /\ MainInv' /\ SharedInv'
    BY <1>t DEF TypeOK, MutexInv, MainInv, SharedInv, Initializing, Thread
  <2>3. Arrived' = Arrived BY <1>t DEF TypeOK, Arrived, Past, MainInv, Initializing
  <2>4. \A u \in Worker : Released(u)' => Released(u)
    BY <1>t DEF TypeOK, Released, MainInv, Initializing
  <2> QED BY <2>1, <2>2, <2>3, <2>4, QuietStep DEF IInv
<1>10. ASSUME NEW w \in Thread, EndRead(w) PROVE IInv'
  <2> USE <1>10 DEF EndRead, Goto
  <2>1. TypeOK' BY <1>t DEF TypeOK, Place
  <2>2. MutexInv' /\ MainInv' /\ SharedInv'
    BY <1>t DEF TypeOK, MutexInv, MainInv, SharedInv, Initializing, Thread
  <2>3. Arrived' = Arrived BY <1>t DEF TypeOK, Arrived, Past, MainInv, Initializing
  <2>4. \A u \in Worker : Released(u)' => Released(u)
    BY <1>t DEF TypeOK, Released, MainInv, Initializing
  <2> QED BY <2>1, <2>2, <2>3, <2>4, QuietStep DEF IInv
<1>11. ASSUME NEW w \in Thread, Arrive(w) PROVE IInv'
  <2> USE <1>11 DEF Arrive, Goto
  <2>1. w \in Worker /\ w \notin Arrived /\ Arrived \in SUBSET Worker
    BY DEF Arrived, Past
  <2>2. Arrived' = Arrived \cup {w} BY <1>t DEF TypeOK, Arrived, Past
  <2>3. CountInv' BY <1>t, <2>1, <2>2, OneMore DEF CountInv
  <2>4. /\ init_worker_num_' \in 0 .. Cardinality(Worker)
        /\ init_worker_num_' = Cardinality(Worker) => Arrived' = Worker
    BY <2>1, <2>2, <2>3, WorkerSubset DEF CountInv
  <2>5. TypeOK' BY <1>t, <2>4 DEF TypeOK, Place
  <2>6. MutexInv' /\ MainInv' /\ SharedInv'
    BY <1>t DEF TypeOK, MutexInv, MainInv, SharedInv, Initializing
  <2>7. ASSUME NEW u \in Worker, Released(u)' PROVE Arrived' = Worker
    <3>1. CASE u = w BY <1>t, <2>4, <2>7, <3>1 DEF TypeOK, Released
    <3>2. CASE u # w
      <4>1. Released(u) BY <1>t, <2>7, <3>2 DEF TypeOK, Released
      <4> QED BY <1>t, <2>1, <2>2, <4>1 DEF BarrierInv
    <3> QED BY <3>1, <3>2
  <2>8. BarrierInv' BY <2>7 DEF BarrierInv
  <2> QED BY <2>3, <2>5, <2>6, <2>8 DEF IInv
<1>12. ASSUME NEW w \in Thread, NotifyAll(w) PROVE IInv'
  <2> USE <1>12 DEF NotifyAll
  <2>0. w \in Worker /\ Released(w)
    BY <1>t DEF MainInv, Initializing, Released, Thread
  <2>1. TypeOK' BY <1>t DEF TypeOK, Place
  <2>2. MutexInv' /\ MainInv' /\ SharedInv'
    BY <1>t, <2>0 DEF TypeOK, MutexInv, MainInv, SharedInv, Initializing
  <2>3. Arrived' = Arrived BY <1>t DEF TypeOK, Arrived, Past
  <2> QED BY <2>0, <2>1, <2>2, <2>3, QuietStep DEF IInv
<1>13. ASSUME NEW w \in Thread, Relock(w) PROVE IInv'
  <2> USE <1>13 DEF Relock, Goto
  <2>1. TypeOK' BY <1>t DEF TypeOK, Place
  <2>2. MutexInv' /\ MainInv' /\ SharedInv'
    BY <1>t DEF TypeOK, MutexInv, MainInv, SharedInv, Initializing, Thread
  <2>3. Arrived' = Arrived BY <1>t DEF TypeOK, Arrived, Past, MainInv, Initializing
  <2>4. \A u \in Worker : Released(u)' => Released(u)
    BY <1>t DEF TypeOK, Released, MainInv, Initializing
  <2> QED BY <2>1, <2>2, <2>3, <2>4, QuietStep DEF IInv
<1>14. CASE UNCHANGED vars
  <2>1. TypeOK' /\ MutexInv' /\ MainInv' /\ SharedInv'
    BY <1>t, <1>14 DEF vars, TypeOK, MutexInv, MainInv, SharedInv
  <2>2. Arrived' = Arrived /\ \A u \in Worker : Released(u)' => Released(u)
    BY <1>14 DEF vars, Arrived, Released
  <2> QED BY <1>14, <2>1, <2>2, QuietStep DEF IInv, vars
<1> QED
  BY <1>1, <1>2, <1>3, <1>4, <1>5, <1>6, <1>7, <1>8, <1>9, <1>10, <1>11, <1>12,
     <1>13, <1>14 DEF Next, InitStep

(* The invariant holds in every reachable state.                           *)
LEMMA Invariance == Spec => []IInv
  BY InitIInv, NextIInv, PTL DEF Spec

-----------------------------------------------------------------------------
(* A worker that waits will be notified: the count is not complete yet, or *)
(* the worker that completed it has still to call notify_all.              *)
NoLostNotify ==
  \A w \in Worker : pc[w] = "wait" =>
    init_worker_num_ < Cardinality(Worker) \/ \E v \in Worker : pc[v] = "notify"

(* Only the last one to be counted does not wait, and nobody begins to     *)
(* wait after it has notified.                                             *)
LEMMA NextNotify ==
  ASSUME IInv, IInv', NoLostNotify, [Next]_vars
  PROVE  NoLostNotify'
<1> USE Distinct
<1>t. TypeOK /\ TypeOK' BY DEF IInv
<1>1. ASSUME NEW w \in Thread, Arrive(w) PROVE NoLostNotify'
  <2>1. CASE init_worker_num_' = Cardinality(Worker)
    <3>1. w \in Worker /\ pc'[w] = "notify" BY <1>t, <1>1, <2>1 DEF Arrive, Goto, TypeOK
    <3> QED BY <3>1 DEF NoLostNotify
  <2>2. CASE init_worker_num_' # Cardinality(Worker)
    <3>1. init_worker_num_' < Cardinality(Worker) BY <1>t, <2>2, WorkerSubset DEF TypeOK
    <3> QED BY <3>1 DEF NoLostNotify
  <2> QED BY <2>1, <2>2
<1>2. ASSUME NEW w \in Thread, NotifyAll(w) PROVE NoLostNotify'
  BY <1>2 DEF NotifyAll, NoLostNotify
<1>3. ASSUME UNCHANGED init_worker_num_,
             \A u \in Worker : /\ pc'[u] = "wait" => pc[u] = "wait"
                               /\ pc[u] = "notify" => pc'[u] = "notify"
      PROVE  NoLostNotify'
  BY <1>3 DEF NoLostNotify
<1>4. ASSUME NEW w \in Worker, Start(w) \/ SpuriousWake(w) PROVE NoLostNotify'
  BY <1>t, <1>3, <1>4 DEF Start, SpuriousWake, Goto, TypeOK
<1>5. CASE Constructed \/ InPlaceAdded
  BY <1>t, <1>3, <1>5 DEF Constructed, InPlaceAdded, Goto, TypeOK
<1>6. ASSUME NEW w \in Thread,
             \/ Launch(w) \/ AddThread(w) \/ Lookup(w) \/ Create(w) \/ Relock(w)
             \/ BeginRead(w) \/ EndRead(w)
      PROVE  NoLostNotify'
  BY <1>t, <1>3, <1>6
     DEF Launch, AddThread, Lookup, Create, Relock, BeginRead, EndRead, Goto, TypeOK
<1>7. CASE UNCHANGED vars BY <1>3, <1>7 DEF vars
<1> QED BY <1>1, <1>2, <1>4, <1>5, <1>6, <1>7 DEF Next, InitStep

(* No notify_all is lost at the barrier, which has no predicate to test    *)
(* again: whoever waits there waits for one that is to come, for any       *)
(* number of workers in any order.                                         *)
THEOREM WaitersNotified == Spec => []NoLostNotify
<1>1. Init => NoLostNotify BY Distinct DEF Init, NoLostNotify
<1> QED BY <1>1, NextNotify, Invariance, PTL DEF Spec

(* Every variable has its type; the workers, and only they, are counted.   *)
THEOREM TypeCorrect == Spec => []TypeOK
<1>1. IInv => TypeOK BY DEF IInv
<1> QED BY <1>1, Invariance, PTL

(* All threads of a runtime share the instance that                        *)
(* GlobalRegistry::get_instance made first, whoever calls it and when.     *)
THEOREM SharesInstance == Spec => []OneInstance
<1>1. IInv => OneInstance BY DEF IInv, SharedInv, OneInstance
<1> QED BY <1>1, Invariance, PTL

(* While a thread inserts into Driver's map of registries, no other thread *)
(* inserts and no worker that passed the barrier looks up.                 *)
THEOREM InsertsAlone == Spec => []InsertAlone
<1>1. ASSUME IInv, NEW w \in Thread, NEW v \in Thread, w # v, pc[w] = "add"
      PROVE  pc[v] # "add" /\ (v \in Worker \ Spurious => pc[v] # "read")
  <2> USE Distinct
  <2>1. CASE w = Main
    <3>1. v \in Worker BY <1>1, <2>1 DEF Thread
    <3> QED BY <1>1, <2>1, <3>1 DEF IInv, MainInv, Initializing
  <2>2. CASE w \in Worker
    <3>1. worker_launch_mutex_ = w /\ pc[Main] # "add"
      BY <1>1, <2>2 DEF IInv, MutexInv, MainInv, Initializing
    <3>2. pc[v] # "add" BY <1>1, <3>1 DEF IInv, MutexInv, Initializing, Thread
    <3>3. w \notin Arrived BY <1>1 DEF Arrived, Past
    <3>4. ASSUME v \in Worker \ Spurious PROVE pc[v] # "read"
      BY <1>1, <2>2, <3>3, <3>4 DEF IInv, BarrierInv, Released
    <3> QED BY <3>2, <3>4
  <2> QED BY <2>1, <2>2 DEF Thread
<1>2. IInv => InsertAlone BY <1>1 DEF InsertAlone, IInv
<1> QED BY <1>2, Invariance, PTL
=============================================================================
