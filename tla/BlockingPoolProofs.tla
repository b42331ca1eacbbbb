------------------------- MODULE BlockingPoolProofs -------------------------
(***************************************************************************)
(* Proofs about the pool for blocking calls, for any number of runtime     *)
(* threads, pool threads and events.                                       *)
(***************************************************************************)
EXTENDS BlockingPool, SequenceTheorems, FiniteSetTheorems, TLAPS

(* Most leaves are first-order reasoning without arithmetic.               *)
USE ZenonT(30)

(***************************************************************************)
(* The inductive invariant.  An event is in at most one of events_ and     *)
(* reported, and only these have results (ResultInv): an event that is     *)
(* used again starts without one.  Pending are the events whose task has   *)
(* not run.  The task of one is with the thread that registers it, in a    *)
(* queue, or with the pool thread that runs it: every task in these places *)
(* belongs to a pending event (HolderInv), no two of them to the same      *)
(* (AloneInv), and no pending event is without (PresentInv).               *)
(***************************************************************************)
Pending == events_ \ after_extra_
Spawning(t) == spawner[t].at \in {"choose", "push"}
Slot(w) == 1 .. Len(tasks_[w])

ResultInv ==
  /\ events_ \cap reported = {}
  /\ after_extra_ \subseteq events_ \cup reported

HolderInv ==
  /\ \A t \in Thread : Spawning(t) => spawner[t].event \in Pending
  /\ \A w \in Worker : \A i \in Slot(w) : tasks_[w][i] \in Pending
  /\ \A w \in Worker : IF worker[w] = "run" THEN task[w] \in Pending
                                            ELSE task[w] = None

AloneInv ==
  /\ \A t, u \in Thread : 
       Spawning(t) /\ Spawning(u) /\ spawner[t].event = spawner[u].event => t = u
  /\ \A t \in Thread, w \in Worker : Spawning(t) =>
       /\ spawner[t].event # task[w]
       /\ \A i \in Slot(w) : spawner[t].event # tasks_[w][i]
  /\ \A w, v \in Worker : task[w] # None /\ task[w] = task[v] => w = v
  /\ \A w, v \in Worker : \A i \in Slot(w) :
       /\ tasks_[w][i] # task[v]
       /\ \A j \in Slot(v) : tasks_[w][i] = tasks_[v][j] => w = v /\ i = j

Present(e) ==
  \/ \E t \in Thread : Spawning(t) /\ spawner[t].event = e
  \/ \E w \in Worker : \E i \in Slot(w) : tasks_[w][i] = e
  \/ \E w \in Worker : task[w] = e

PresentInv == \A e \in Pending : Present(e)

IInv == TypeOK /\ ResultInv /\ HolderInv /\ AloneInv /\ PresentInv

-----------------------------------------------------------------------------
(* Before anything is registered.                                          *)
LEMMA InitIInv == Init => IInv
<1> SUFFICES ASSUME Init PROVE IInv OBVIOUS
<1> USE PoolAssumption DEF Init
<1>1. TypeOK
  <2>1. 1 \in Worker BY SMT DEF Worker
  <2>2. tasks_ \in [Worker -> Seq(Event)] BY EmptySeq
  <2>3. dtor \in [at : {"no", "end", "notify", "join", "done"}, worker : Worker]
    BY <2>1
  <2> QED BY <2>1, <2>2, <2>3 DEF TypeOK, Idle, Registration
<1>2. ResultInv BY DEF ResultInv
<1>3. \A w \in Worker : Slot(w) = {} BY EmptySeq, SMT DEF Slot
<1>4. HolderInv /\ AloneInv
  BY <1>3 DEF HolderInv, AloneInv, Spawning, Idle
<1>5. PresentInv BY DEF PresentInv, Pending
<1> QED BY <1>1, <1>2, <1>4, <1>5 DEF IInv

(* A registration goes on.                                                 *)
LEMMA RegistrationStep ==
  ASSUME NEW r \in Registration, NEW w \in Worker
  PROVE  /\ [r EXCEPT !.at = "notify"] \in Registration
         /\ [r EXCEPT !.at = "push", !.worker = w] \in Registration
  BY DEF Registration

(* The event of a thread that registers, or of a task that runs, is one.   *)
LEMMA HeldEvents ==
  ASSUME IInv
  PROVE  /\ Pending \subseteq Event
         /\ \A t \in Thread : Spawning(t) => spawner[t].event \in Event
         /\ \A w \in Worker : worker[w] = "run" => task[w] \in Event
  BY DEF IInv, TypeOK, HolderInv, Pending

(* A step that moves no task preserves the invariant.                      *)
LEMMA NoMove ==
  ASSUME IInv, TypeOK', ResultInv', Pending' = Pending, UNCHANGED <<tasks_, task>>,
         \A t \in Thread : /\ Spawning(t)' <=> Spawning(t)
                           /\ Spawning(t) => spawner'[t].event = spawner[t].event,
         \A w \in Worker : worker'[w] = "run" <=> worker[w] = "run"
  PROVE  IInv'
<1>1. HolderInv' BY DEF IInv, HolderInv, Slot
<1>2. AloneInv' BY SMT DEF IInv, AloneInv, Slot
<1>3. PresentInv' BY DEF IInv, PresentInv, Present, Slot
<1> QED BY <1>1, <1>2, <1>3 DEF IInv

(* Register: the task of a new event is with the registering thread.       *)
LEMMA RegisterIInv ==
  ASSUME IInv, NEW t \in Thread, NEW e \in Event, Register(t, e)
  PROVE  IInv'
<1> USE DEF Register, poolVars, dtorVars
<1>1. TypeOK'
  <2>1. 1 \in Worker BY PoolAssumption, SMT DEF Worker
  <2> QED BY <2>1 DEF IInv, TypeOK, Registration
<1>2. ResultInv' BY DEF IInv, ResultInv
<1>3. e \notin Pending /\ Pending' = Pending \cup {e}
  BY DEF IInv, ResultInv, Pending
<1>4. /\ ~Spawning(t) /\ Spawning(t)' /\ spawner'[t].event = e
      /\ \A u \in Thread : u # t => spawner'[u] = spawner[u]
  BY SMT DEF IInv, TypeOK, Spawning, Idle, Registration
<1>5. HolderInv'
  BY <1>3, <1>4 DEF IInv, TypeOK, HolderInv, Spawning, Slot
<1>6. AloneInv'
  <2>1. \A w \in Worker : task[w] # e /\ \A i \in Slot(w) : tasks_[w][i] # e
    BY <1>3, PoolAssumption DEF IInv, HolderInv
  <2>2. \A u \in Thread : Spawning(u) => spawner[u].event # e
    BY <1>3 DEF IInv, HolderInv
  <2> QED BY <1>4, <2>1, <2>2, SMT DEF IInv, AloneInv, Spawning, Slot
<1>7. PresentInv'
  BY <1>3, <1>4, SMT DEF IInv, PresentInv, Present, Spawning, Slot
<1> QED BY <1>1, <1>2, <1>5, <1>6, <1>7 DEF IInv

(* Push: the task goes from the registering thread to the end of a queue.  *)
LEMMA PushIInv ==
  ASSUME IInv, NEW t \in Thread, Push(t)
  PROVE  IInv'
<1>1. /\ Spawning(t) /\ ~Spawning(t)'
      /\ \A u \in Thread : u # t => spawner'[u] = spawner[u]
  BY DEF Push, IInv, TypeOK, Spawning, Registration
<1>2. PICK w \in Worker, e \in Pending :
        w = spawner[t].worker /\ e = spawner[t].event
  BY <1>1 DEF IInv, TypeOK, HolderInv, Registration
<1>3. PICK n \in Nat : n = Len(tasks_[w]) + 1 BY SMT DEF IInv, TypeOK
<1>4. e \in Event /\ tasks_[w] \in Seq(Event) BY HeldEvents DEF IInv, TypeOK
<1>5. /\ tasks_' = [tasks_ EXCEPT ![w] = Append(tasks_[w], e)]
      /\ spawner' = [spawner EXCEPT ![t].at = "notify"]
      /\ UNCHANGED <<registryVars, worker, task, end_, dtorVars>>
  BY <1>2 DEF Push
<1>6. TypeOK'
  <2>1. tasks_' \in [Worker -> Seq(Event)]
    BY <1>4, <1>5, AppendProperties DEF IInv, TypeOK
  <2>2. spawner' \in [Thread -> Registration]
    <3>1. [spawner[t] EXCEPT !.at = "notify"] \in Registration
      BY RegistrationStep DEF IInv, TypeOK
    <3>2. spawner' = [spawner EXCEPT ![t] = [spawner[t] EXCEPT !.at = "notify"]] BY <1>5
    <3> QED BY <3>1, <3>2 DEF IInv, TypeOK
  <2>3. UNCHANGED <<events_, after_extra_, reported, worker, task, end_, dtor, missed>>
    BY <1>5 DEF registryVars, dtorVars
  <2> QED BY <2>1, <2>2, <2>3 DEF IInv, TypeOK
<1>7. ResultInv' /\ Pending' = Pending /\ UNCHANGED <<worker, task>>
  BY <1>5 DEF IInv, ResultInv, Pending, registryVars
<1>q. /\ n \in Slot(w)' /\ tasks_'[w][n] = e
      /\ \A v \in Worker : \A i \in Slot(v) :
           i \in Slot(v)' /\ tasks_'[v][i] = tasks_[v][i]
      /\ \A v \in Worker : \A i \in Slot(v)' :
           (v = w /\ i = n) \/ i \in Slot(v)
  <2>1. /\ tasks_'[w] = Append(tasks_[w], e)
        /\ \A v \in Worker : v # w => tasks_'[v] = tasks_[v]
    BY <1>5 DEF IInv, TypeOK
  <2>2. /\ Len(tasks_'[w]) = n /\ tasks_'[w][n] = e /\ Len(tasks_[w]) \in Nat
        /\ \A i \in 1 .. Len(tasks_[w]) : tasks_'[w][i] = tasks_[w][i]
    BY <1>3, <1>4, <2>1, AppendProperties, SMT
  <2> QED BY <1>3, <2>1, <2>2, SMTT(30) DEF Slot
<1>8. HolderInv'
  <2>1. \A v \in Worker : \A i \in Slot(v)' : tasks_'[v][i] \in Pending
    BY <1>q DEF IInv, HolderInv
  <2> QED BY <1>1, <1>7, <2>1 DEF IInv, HolderInv, Spawning
<1>9. AloneInv'
  <2>1. /\ \A v \in Worker : task[v] # e /\ \A i \in Slot(v) : tasks_[v][i] # e
        /\ \A u \in Thread : u # t /\ Spawning(u) => spawner[u].event # e
    BY <1>1, <1>2, SMT DEF IInv, AloneInv
  <2>2. \A u \in Thread : Spawning(u)' => u # t /\ Spawning(u)
    BY <1>1 DEF Spawning
  <2>3. \A v \in Worker : \A i \in Slot(v)' :
          \/ v = w /\ i = n /\ tasks_'[v][i] = e
          \/ i \in Slot(v) /\ tasks_'[v][i] = tasks_[v][i]
    BY <1>q
  <2>4. \A u, x \in Thread :
          Spawning(u)' /\ Spawning(x)' /\ spawner'[u].event = spawner'[x].event => u = x
    BY <1>1, <2>2, SMT DEF IInv, AloneInv
  <2>5. \A u \in Thread, v \in Worker : Spawning(u)' =>
          /\ spawner'[u].event # task[v]
          /\ \A i \in Slot(v)' : spawner'[u].event # tasks_'[v][i]
    BY <1>1, <2>1, <2>2, <2>3, SMT DEF IInv, AloneInv
  <2>6. \A v, x \in Worker : \A i \in Slot(v)' :
          /\ tasks_'[v][i] # task[x]
          /\ \A j \in Slot(x)' : tasks_'[v][i] = tasks_'[x][j] => v = x /\ i = j
    BY <2>1, <2>3, SMT DEF IInv, AloneInv
  <2> QED BY <1>7, <2>4, <2>5, <2>6, SMT DEF IInv, AloneInv
<1>10. PresentInv'
  <2> SUFFICES ASSUME NEW f \in Pending PROVE Present(f)' BY <1>7 DEF PresentInv
  <2>1. Present(f) BY DEF IInv, PresentInv
  <2>2. CASE f = e BY <1>q, <2>2 DEF Present
  <2>3. CASE f # e
    <3>1. ASSUME NEW u \in Thread, Spawning(u), spawner[u].event = f PROVE Present(f)'
      BY <1>1, <1>2, <2>3, <3>1 DEF Present, Spawning
    <3>2. ASSUME NEW v \in Worker, NEW i \in Slot(v), tasks_[v][i] = f PROVE Present(f)'
      BY <1>q, <3>2 DEF Present
    <3> QED BY <1>7, <2>1, <3>1, <3>2 DEF Present
  <2> QED BY <2>2, <2>3
<1> QED BY <1>6, <1>7, <1>8, <1>9, <1>10 DEF IInv

(* Take: the task goes from the front of a queue to the pool thread.       *)
LEMMA TakeIInv ==
  ASSUME IInv, NEW w \in Worker, Take(w)
  PROVE  IInv'
<1>1. tasks_[w] \in Seq(Event) /\ tasks_[w] # <<>> /\ worker[w] = "loop"
  BY DEF IInv, TypeOK, Take
<1>2. PICK e \in Event : e = Head(tasks_[w]) BY <1>1, HeadTailProperties
<1>3. /\ tasks_' = [tasks_ EXCEPT ![w] = Tail(tasks_[w])]
      /\ task' = [task EXCEPT ![w] = e]
      /\ worker' = [worker EXCEPT ![w] = "run"]
      /\ UNCHANGED <<registryVars, end_, spawner, dtorVars>>
  BY <1>2 DEF Take, Goto
<1>4. TypeOK'
  <2>1. tasks_' \in [Worker -> Seq(Event)]
    BY <1>1, <1>3, HeadTailProperties DEF IInv, TypeOK
  <2> QED BY <1>3, <2>1 DEF IInv, TypeOK, registryVars, dtorVars
<1>5. ResultInv' /\ Pending' = Pending /\ UNCHANGED spawner
  BY <1>3 DEF IInv, ResultInv, Pending, registryVars
<1>6. /\ task[w] = None /\ task'[w] = e
      /\ \A v \in Worker : v # w => task'[v] = task[v] /\ worker'[v] = worker[v]
  BY <1>1, <1>3 DEF IInv, TypeOK, HolderInv
<1>7. /\ 1 \in Slot(w) /\ tasks_[w][1] = e
      /\ \A i \in Slot(w)' :
           i + 1 \in Slot(w) /\ i + 1 # 1 /\ tasks_'[w][i] = tasks_[w][i + 1]
      /\ \A i \in Slot(w) : i # 1 => i - 1 \in Slot(w)' /\ tasks_'[w][i - 1] = tasks_[w][i]
  <2>1. /\ tasks_'[w] = Tail(tasks_[w]) /\ Len(tasks_[w]) \in Nat \ {0}
        /\ tasks_[w][1] = e
    BY <1>1, <1>2, <1>3, HeadTailProperties, EmptySeq, SMT DEF IInv, TypeOK
  <2>2. /\ Len(tasks_'[w]) = Len(tasks_[w]) - 1
        /\ \A i \in 1 .. Len(tasks_[w]) - 1 : tasks_'[w][i] = tasks_[w][i + 1]
    BY <1>1, <2>1, HeadTailProperties
  <2> QED BY <2>1, <2>2, SMT DEF Slot
<1>8. \A v \in Worker : v # w => Slot(v)' = Slot(v) /\ tasks_'[v] = tasks_[v]
  BY <1>3 DEF IInv, TypeOK, Slot
<1>o. \A v \in Worker : \A i \in Slot(v)' : \E k \in Slot(v) :
        /\ tasks_'[v][i] = tasks_[v][k]
        /\ v # w \/ k # 1
        /\ k = IF v = w THEN i + 1 ELSE i
  BY <1>7, <1>8
<1>9. e \in Pending /\ e # None BY <1>7, PoolAssumption DEF IInv, HolderInv
<1>10. HolderInv'
  <2>1. \A v \in Worker : \A i \in Slot(v)' : tasks_'[v][i] \in Pending
    BY <1>o, SMT DEF IInv, HolderInv
  <2>2. \A v \in Worker : IF worker'[v] = "run" THEN task'[v] \in Pending
                                               ELSE task'[v] = None
    BY <1>3, <1>6, <1>9 DEF IInv, TypeOK, HolderInv
  <2> QED BY <1>5, <2>1, <2>2 DEF IInv, HolderInv, Spawning
<1>11. AloneInv'
  <2>1. \A v \in Worker : \A i \in Slot(v)' : tasks_'[v][i] # e
    BY <1>7, <1>o, SMT DEF IInv, AloneInv
  <2>2. \A t \in Thread, v \in Worker : Spawning(t) =>
          /\ spawner[t].event # task'[v]
          /\ \A i \in Slot(v)' : spawner[t].event # tasks_'[v][i]
    BY <1>6, <1>7, <1>o, SMTT(30) DEF IInv, AloneInv
  <2>3. \A v, x \in Worker : task'[v] # None /\ task'[v] = task'[x] => v = x
    BY <1>6, <1>7, SMT DEF IInv, AloneInv
  <2>4. \A v, x \in Worker : \A i \in Slot(v)' : tasks_'[v][i] # task'[x]
    BY <1>6, <1>o, <2>1, SMT DEF IInv, AloneInv
  <2>5. ASSUME NEW v \in Worker, NEW x \in Worker, NEW i \in Slot(v)', NEW j \in Slot(x)',
               tasks_'[v][i] = tasks_'[x][j]
        PROVE  v = x /\ i = j
    <3>1. PICK k \in Slot(v) : /\ tasks_'[v][i] = tasks_[v][k]
                               /\ k = IF v = w THEN i + 1 ELSE i
      BY <1>o
    <3>2. PICK l \in Slot(x) : /\ tasks_'[x][j] = tasks_[x][l]
                               /\ l = IF x = w THEN j + 1 ELSE j
      BY <1>o
    <3>3. tasks_[v][k] = tasks_[x][l] BY <2>5, <3>1, <3>2
    <3>4. v = x /\ k = l BY <3>3 DEF IInv, AloneInv
    <3> QED BY <3>1, <3>2, <3>4, <1>4, SMT DEF TypeOK, Slot
  <2> QED BY <1>5, <2>2, <2>3, <2>4, <2>5, SMTT(30) DEF IInv, AloneInv, Spawning
<1>12. PresentInv'
  <2> SUFFICES ASSUME NEW f \in Pending PROVE Present(f)' BY <1>5 DEF PresentInv
  <2>1. Present(f) BY DEF IInv, PresentInv
  <2>2. ASSUME NEW v \in Worker, NEW i \in Slot(v), tasks_[v][i] = f PROVE Present(f)'
    <3>1. CASE v = w /\ i = 1 BY <1>6, <1>7, <2>2, <3>1 DEF Present
    <3>2. CASE v = w /\ i # 1 BY <1>7, <2>2, <3>2 DEF Present
    <3>3. CASE v # w BY <1>8, <2>2, <3>3 DEF Present
    <3> QED BY <3>1, <3>2, <3>3
  <2>3. ASSUME NEW v \in Worker, task[v] = f PROVE Present(f)'
    <3>1. v # w BY <1>6, <2>3, HeldEvents, PoolAssumption
    <3> QED BY <1>6, <2>3, <3>1 DEF Present
  <2> QED BY <1>5, <2>1, <2>2, <2>3 DEF Present, Spawning
<1> QED BY <1>4, <1>5, <1>10, <1>11, <1>12 DEF IInv

(* RunTask: the event has its result, and its task is in no place.         *)
LEMMA RunTaskIInv ==
  ASSUME IInv, NEW w \in Worker, RunTask(w)
  PROVE  IInv'
<1> USE DEF RunTask, Goto, dtorVars
<1>1. PICK e \in Pending : e = task[w] BY DEF IInv, HolderInv
<1>2. e \in Event /\ e # None BY HeldEvents, PoolAssumption
<1>3. TypeOK' BY <1>1, <1>2 DEF IInv, TypeOK
<1>4. ResultInv' BY <1>1 DEF IInv, ResultInv, Pending
<1>5. Pending' = Pending \ {e} BY <1>1 DEF Pending
<1>6. /\ task'[w] = None /\ worker'[w] = "relock"
      /\ \A v \in Worker : v # w => task'[v] = task[v] /\ worker'[v] = worker[v]
      /\ UNCHANGED <<spawner, tasks_>>
  BY DEF IInv, TypeOK
<1> HIDE DEF RunTask
<1>7. /\ \A t \in Thread : Spawning(t) => spawner[t].event # e
      /\ \A v \in Worker : v # w => task[v] # e
      /\ \A v \in Worker : \A i \in Slot(v) : tasks_[v][i] # e
  BY <1>1, <1>2 DEF IInv, AloneInv
<1>8. HolderInv' BY <1>5, <1>6, <1>7 DEF IInv, HolderInv, Spawning, Slot
<1>9. AloneInv'
  <2>1. \A t \in Thread : Spawning(t) => spawner[t].event # None
    BY HeldEvents, PoolAssumption
  <2>2. \A v \in Worker : \A i \in Slot(v) : tasks_[v][i] # None
    BY HeldEvents, PoolAssumption DEF IInv, HolderInv
  <2> QED BY <1>6, <2>1, <2>2, SMT DEF IInv, AloneInv, Spawning, Slot
<1>10. PresentInv'
  BY <1>1, <1>5, <1>6, SMT DEF IInv, PresentInv, Present, Spawning, Slot
<1> QED BY <1>3, <1>4, <1>8, <1>9, <1>10 DEF IInv

(* Every step preserves the invariant.                                     *)
LEMMA NextIInv == IInv /\ [Next]_vars => IInv'
<1> SUFFICES ASSUME IInv, [Next]_vars PROVE IInv' OBVIOUS
<1>i. IInv /\ TypeOK /\ ResultInv BY DEF IInv
<1> USE DEF registryVars, poolVars, dtorVars
<1>1. ASSUME NEW t \in Thread, NEW w \in Worker, Choose(t, w) PROVE IInv'
  <2> USE <1>1 DEF Choose
  <2>0. spawner' \in [Thread -> Registration]
    <3>1. spawner' =
            [spawner EXCEPT ![t] = [spawner[t] EXCEPT !.at = "push", !.worker = w]]
      OBVIOUS
    <3> HIDE <1>1 DEF Choose
    <3>2. [spawner[t] EXCEPT !.at = "push", !.worker = w] \in Registration
      BY <1>i, RegistrationStep DEF TypeOK
    <3> QED BY <1>i, <3>1, <3>2 DEF TypeOK
  <2>1. TypeOK' BY <1>i, <2>0 DEF TypeOK
  <2>2. ResultInv' /\ Pending' = Pending BY <1>i DEF ResultInv, Pending
  <2> QED BY <1>i, <2>1, <2>2, NoMove, SMT DEF TypeOK, Spawning
<1>2. ASSUME NEW t \in Thread, Notify(t) PROVE IInv'
  <2> USE <1>2 DEF Notify, notify_one
  <2>0. Idle \in Registration BY PoolAssumption, SMT DEF Idle, Registration, Worker
  <2>1. TypeOK' BY <1>i, <2>0 DEF TypeOK
  <2>2. ResultInv' /\ Pending' = Pending BY <1>i DEF ResultInv, Pending
  <2> QED BY <1>i, <2>1, <2>2, NoMove DEF TypeOK, Spawning, Idle
<1>3. ASSUME NEW t \in Thread, Select(t) PROVE IInv'
  <2> USE <1>3 DEF Select
  <2>1. TypeOK' BY <1>i DEF TypeOK
  <2>2. ResultInv' /\ Pending' = Pending BY <1>i DEF ResultInv, Pending
  <2> QED BY <1>i, <2>1, <2>2, NoMove DEF TypeOK, Spawning
<1>4. ASSUME NEW e \in Event, Poll(e) PROVE IInv'
  <2> USE <1>4 DEF Poll
  <2>1. TypeOK' BY <1>i DEF TypeOK
  <2>2. ResultInv' /\ Pending' = Pending BY <1>i DEF ResultInv, Pending
  <2> QED BY <1>i, <2>1, <2>2, NoMove DEF TypeOK, Spawning
<1>5. ASSUME NEW w \in Worker, Test_end(w) PROVE IInv'
  <2> USE <1>5 DEF Test_end, Goto
  <2>1. TypeOK' BY <1>i DEF TypeOK
  <2>2. ResultInv' /\ Pending' = Pending BY <1>i DEF ResultInv, Pending
  <2> QED BY <1>i, <2>1, <2>2, NoMove DEF TypeOK, Spawning
<1>6. ASSUME NEW w \in Worker, Lock(w) PROVE IInv'
  <2> USE <1>6 DEF Lock, Goto
  <2>1. TypeOK' BY <1>i DEF TypeOK
  <2>2. ResultInv' /\ Pending' = Pending BY <1>i DEF ResultInv, Pending
  <2> QED BY <1>i, <2>1, <2>2, NoMove DEF TypeOK, Spawning
<1>7. ASSUME NEW w \in Worker, LockRegistry(w) PROVE IInv'
  <2> USE <1>7 DEF LockRegistry, Goto
  <2>1. TypeOK' BY <1>i DEF TypeOK
  <2>2. ResultInv' /\ Pending' = Pending BY <1>i DEF ResultInv, Pending
  <2> QED BY <1>i, <2>1, <2>2, NoMove DEF TypeOK, Spawning
<1>8. ASSUME NEW w \in Worker, Relock(w) PROVE IInv'
  <2> USE <1>8 DEF Relock, Goto
  <2>1. TypeOK' BY <1>i DEF TypeOK
  <2>2. ResultInv' /\ Pending' = Pending BY <1>i DEF ResultInv, Pending
  <2> QED BY <1>i, <2>1, <2>2, NoMove DEF TypeOK, Spawning
<1>9. ASSUME NEW w \in Worker, NoTask(w) PROVE IInv'
  <2> USE <1>9 DEF NoTask, Goto
  <2>1. TypeOK' BY <1>i DEF TypeOK
  <2>2. ResultInv' /\ Pending' = Pending BY <1>i DEF ResultInv, Pending
  <2> QED BY <1>i, <2>1, <2>2, NoMove DEF TypeOK, Spawning
<1>10. ASSUME NEW w \in Worker, TestPredicate(w) PROVE IInv'
  <2> USE <1>10 DEF TestPredicate, Goto
  <2>1. TypeOK' BY <1>i DEF TypeOK
  <2>2. ResultInv' /\ Pending' = Pending BY <1>i DEF ResultInv, Pending
  <2> QED BY <1>i, <2>1, <2>2, NoMove DEF TypeOK, Spawning
<1>11. ASSUME NEW w \in Worker, Block(w) PROVE IInv'
  <2> USE <1>11 DEF Block, Goto
  <2>1. TypeOK' BY <1>i DEF TypeOK
  <2>2. ResultInv' /\ Pending' = Pending BY <1>i DEF ResultInv, Pending
  <2> QED BY <1>i, <2>1, <2>2, NoMove DEF TypeOK, Spawning
<1>12. ASSUME NEW w \in Worker, Wakeup(w) PROVE IInv'
  <2> USE <1>12 DEF Wakeup, Goto
  <2>1. TypeOK' BY <1>i DEF TypeOK
  <2>2. ResultInv' /\ Pending' = Pending BY <1>i DEF ResultInv, Pending
  <2> QED BY <1>i, <2>1, <2>2, NoMove DEF TypeOK, Spawning
<1>13. CASE Exit
  <2> USE <1>13 DEF Exit
  <2>0. dtor' \in [at : {"no", "end", "notify", "join", "done"}, worker : Worker]
    BY <1>i, PoolAssumption, SMT DEF TypeOK, Worker
  <2>1. TypeOK' BY <1>i, <2>0 DEF TypeOK
  <2>2. ResultInv' /\ Pending' = Pending BY <1>i DEF ResultInv, Pending
  <2> QED BY <1>i, <2>1, <2>2, NoMove DEF TypeOK, Spawning
<1>14. CASE SetEnd
  <2> USE <1>14 DEF SetEnd
  <2>1. TypeOK' BY <1>i DEF TypeOK
  <2>2. ResultInv' /\ Pending' = Pending BY <1>i DEF ResultInv, Pending
  <2> QED BY <1>i, <2>1, <2>2, NoMove DEF TypeOK, Spawning
<1>15. CASE NotifyEnd
  <2> USE <1>15 DEF NotifyEnd, notify_one
  <2>0. dtor' \in [at : {"no", "end", "notify", "join", "done"}, worker : Worker]
    BY <1>i, PoolAssumption, SMT DEF TypeOK, Worker
  <2>1. TypeOK' BY <1>i, <2>0 DEF TypeOK
  <2>2. ResultInv' /\ Pending' = Pending BY <1>i DEF ResultInv, Pending
  <2> QED BY <1>i, <2>1, <2>2, NoMove DEF TypeOK, Spawning
<1>16. CASE Join
  <2> USE <1>16 DEF Join
  <2>0. dtor' \in [at : {"no", "end", "notify", "join", "done"}, worker : Worker]
    BY <1>i, PoolAssumption, SMT DEF TypeOK, Worker
  <2>1. TypeOK' BY <1>i, <2>0 DEF TypeOK
  <2>2. ResultInv' /\ Pending' = Pending BY <1>i DEF ResultInv, Pending
  <2> QED BY <1>i, <2>1, <2>2, NoMove DEF TypeOK, Spawning
<1>17. CASE UNCHANGED vars
  <2> USE <1>17 DEF vars
  <2>1. TypeOK' BY <1>i DEF TypeOK
  <2>2. ResultInv' /\ Pending' = Pending BY <1>i DEF ResultInv, Pending
  <2> QED BY <1>i, <2>1, <2>2, NoMove DEF TypeOK, Spawning
<1> QED
  BY RegisterIInv, PushIInv, TakeIInv, RunTaskIInv,
     <1>1, <1>2, <1>3, <1>4, <1>5, <1>6, <1>7, <1>8, <1>9, <1>10, <1>11, <1>12, <1>13, <1>14, <1>15, <1>16, <1>17
  DEF Next, Spawn, run, Destroy

(* The invariant holds in every reachable state.                           *)
LEMMA Invariance == Spec => []IInv
  BY InitIInv, NextIInv, PTL DEF Spec

-----------------------------------------------------------------------------
(* A thread that goes to sleep has seen an empty queue and an unset end_,  *)
(* with its mutex held.  A task comes into the queue under that mutex, so  *)
(* that its notification finds the thread asleep (SleepInv).  end_ is set  *)
(* without the mutex: the thread may have tested it before and fall asleep *)
(* after the notification, and that is the only way to miss it (EndInv).   *)
SleepInv ==
  \A w \in Worker :
    /\ worker[w] = "block" => tasks_[w] = <<>>
    /\ worker[w] = "wait" /\ tasks_[w] # <<>> =>
         \E t \in Thread : spawner[t].at = "notify" /\ spawner[t].worker = w

EndInv ==
  \A w \in end_ : worker[w] \in {"block", "wait"} =>
    w \in missed \/ (dtor.at = "notify" /\ dtor.worker = w)

(* A step that leaves the queues alone, notifies everybody it has to, and  *)
(* sends nobody to sleep, or only one with an empty queue.                 *)
LEMMA NoNewTask ==
  ASSUME SleepInv, UNCHANGED tasks_,
         \A t \in Thread : spawner[t].at = "notify" => spawner'[t] = spawner[t],
         \A w \in Worker :
           /\ worker'[w] = "block" => worker[w] = "block" \/ tasks_[w] = <<>>
           /\ worker'[w] = "wait" => worker[w] \in {"block", "wait"}
  PROVE  SleepInv'
  BY DEF SleepInv

(* Every step of the pool preserves SleepInv.                              *)
LEMMA NextSleep == ASSUME IInv, SleepInv, [Next]_vars PROVE SleepInv'
<1> USE DEF registryVars, poolVars, dtorVars
<1>t. TypeOK BY DEF IInv
<1>1. ASSUME NEW t \in Thread, NEW e \in Event, Register(t, e) PROVE SleepInv'
  BY <1>t, <1>1, NoNewTask, SMT DEF Register, TypeOK, Idle
<1>2. ASSUME NEW t \in Thread, NEW w \in Worker, Choose(t, w) PROVE SleepInv'
  BY <1>t, <1>2, NoNewTask DEF Choose, TypeOK
<1>3. ASSUME NEW t \in Thread, Push(t) PROVE SleepInv'
  <2>1. PICK w \in Worker : w = spawner[t].worker BY <1>t DEF TypeOK, Registration
  <2>2. /\ spawner[t].at = "push" /\ spawner'[t].at = "notify" /\ spawner'[t].worker = w
        /\ \A u \in Thread : u # t => spawner'[u] = spawner[u]
        /\ worker[w] # "block" /\ UNCHANGED worker
        /\ \A v \in Worker : v # w => tasks_'[v] = tasks_[v]
    BY <1>t, <1>3, <2>1 DEF Push, WorkerLocked, TypeOK, Registration
  <2> QED BY <2>1, <2>2 DEF SleepInv
<1>4. ASSUME NEW t \in Thread, Notify(t) PROVE SleepInv'
  <2>1. PICK w \in Worker : w = spawner[t].worker BY <1>t DEF TypeOK, Registration
  <2>2. /\ UNCHANGED tasks_ /\ worker'[w] # "wait"
        /\ \A v \in Worker : v # w => worker'[v] = worker[v]
        /\ worker'[w] = "block" => worker[w] = "block"
        /\ \A u \in Thread : u # t => spawner'[u] = spawner[u]
    BY <1>t, <1>4, <2>1 DEF Notify, notify_one, TypeOK
  <2> QED BY <2>1, <2>2 DEF SleepInv
<1>5. ASSUME NEW w \in Worker, Take(w) PROVE SleepInv'
  <2>1. /\ UNCHANGED spawner /\ worker'[w] = "run"
        /\ \A v \in Worker : v # w => worker'[v] = worker[v] /\ tasks_'[v] = tasks_[v]
    BY <1>t, <1>5 DEF Take, Goto, TypeOK
  <2> QED BY <2>1 DEF SleepInv
<1>6. ASSUME NEW w \in Worker, run(w), ~Take(w) PROVE SleepInv'
  <2>1. /\ UNCHANGED <<tasks_, spawner>>
        /\ \A v \in Worker : v # w => worker'[v] = worker[v]
        /\ worker'[w] = "block" => tasks_[w] = <<>>
        /\ worker'[w] = "wait" => worker[w] = "block"
    BY <1>t, <1>6 DEF run, Test_end, Lock, LockRegistry, RunTask, Relock, NoTask,
                      TestPredicate, Block, Wakeup, Goto, TypeOK
  <2> QED BY <2>1, NoNewTask
<1>7. CASE NotifyEnd
  BY <1>t, <1>7, NoNewTask DEF NotifyEnd, notify_one, TypeOK
<1>8. ASSUME UNCHANGED <<tasks_, worker, spawner>> PROVE SleepInv'
  BY <1>8 DEF SleepInv
<1>9. (\E t \in Thread : Select(t)) \/ (\E e \in Event : Poll(e)) => SleepInv'
  BY <1>8 DEF Select, Poll
<1>10. Exit \/ SetEnd \/ Join \/ UNCHANGED vars => SleepInv'
  BY <1>8 DEF Exit, SetEnd, Join, vars
<1> QED
  BY <1>1, <1>2, <1>3, <1>4, <1>5, <1>6, <1>7, <1>9, <1>10 DEF Next, Spawn, Destroy

(* Every step of the pool and of its destructor preserves EndInv.          *)
LEMMA NextEnd == ASSUME IInv, EndInv, [Next]_vars PROVE EndInv'
<1> USE DEF registryVars, poolVars, dtorVars
<1>t. TypeOK BY DEF IInv
<1>w. end_ \subseteq Worker BY <1>t DEF TypeOK
<1>1. ASSUME UNCHANGED <<end_, dtor, missed>>,
             \A w \in end_ :
               worker'[w] \in {"block", "wait"} => worker[w] \in {"block", "wait"}
      PROVE  EndInv'
  BY <1>1 DEF EndInv
<1>2. ASSUME NEW w \in Worker, run(w) PROVE EndInv'
  BY <1>t, <1>w, <1>1, <1>2
     DEF run, Test_end, Lock, LockRegistry, Take, RunTask, Relock, NoTask, TestPredicate,
         Block, Wakeup, Goto, TypeOK
<1>3. ASSUME NEW t \in Thread, Notify(t) PROVE EndInv'
  BY <1>t, <1>w, <1>1, <1>3 DEF Notify, notify_one, TypeOK, Registration
<1>4. ASSUME NEW t \in Thread,
             \/ \E e \in Event : Register(t, e)
             \/ \E w \in Worker : Choose(t, w)
             \/ Push(t) \/ Select(t)
      PROVE  EndInv'
  BY <1>1, <1>4 DEF Register, Choose, Push, Select
<1>5. (\E e \in Event : Poll(e)) \/ UNCHANGED vars => EndInv'
  BY <1>1 DEF Poll, vars
<1>6. Exit \/ Join => EndInv' BY DEF Exit, Running, Join, EndInv
<1>7. CASE SetEnd
  <2>1. /\ end_' = end_ \cup {dtor.worker} /\ UNCHANGED <<worker, missed>>
        /\ dtor.at = "end" /\ dtor'.at = "notify" /\ dtor'.worker = dtor.worker
    BY <1>t, <1>7 DEF SetEnd, TypeOK
  <2> QED BY <2>1 DEF EndInv
<1>8. CASE NotifyEnd
  <2>1. PICK v \in Worker : v = dtor.worker BY <1>t DEF TypeOK
  <2>2. /\ UNCHANGED end_ /\ missed \subseteq missed'
        /\ worker[v] = "block" => v \in missed'
        /\ worker'[v] = IF worker[v] = "wait" THEN "woken" ELSE worker[v]
        /\ \A w \in Worker : w # v => worker'[w] = worker[w]
    BY <1>t, <1>8, <2>1 DEF NotifyEnd, notify_one, TypeOK
  <2> QED BY <1>w, <2>1, <2>2 DEF EndInv
<1> QED
  BY <1>2, <1>3, <1>4, <1>5, <1>6, <1>7, <1>8 DEF Next, Spawn, Destroy

(* Nobody sleeps on a task, from the start on.                             *)
LEMMA NobodySleepsOnTask == Spec => []SleepInv
<1>1. Init => SleepInv BY DEF Init, SleepInv
<1> QED BY <1>1, NextSleep, Invariance, PTL DEF Spec

(* ~BlockingPool waits in vain only for a thread that was between its test *)
(* of end_ and its sleep when it was notified: every other thread that has *)
(* been told to end is awake, or is about to be notified.                  *)
THEOREM MissedOnlyInWindow == Spec => []EndInv
<1>1. Init => EndInv BY DEF Init, EndInv
<1> QED BY <1>1, NextEnd, Invariance, PTL DEF Spec

-----------------------------------------------------------------------------
(* Where the task of an event can be: the cases of Places.                 *)
LEMMA InPlaces ==
  ASSUME NEW e
  PROVE  /\ \A t \in Thread : Spawning(t) /\ spawner[t].event = e =>
              <<"spawner", t>> \in Places(e)
         /\ \A w \in Worker : \A i \in Slot(w) : tasks_[w][i] = e =>
              <<"queue", w, i>> \in Places(e)
         /\ \A w \in Worker : task[w] = e => <<"running", w>> \in Places(e)
         /\ \A p \in Places(e) :
              \/ \E t \in Thread : p = <<"spawner", t>> /\ Spawning(t) /\ spawner[t].event = e
              \/ \E w \in Worker : \E i \in Slot(w) :
                   p = <<"queue", w, i>> /\ tasks_[w][i] = e
              \/ \E w \in Worker : p = <<"running", w>> /\ task[w] = e
<1> DEFINE A == {<<"spawner", t>> : t \in {u \in Thread : spawner[u].event = e
                                              /\ spawner[u].at \in {"choose", "push"}}}
           Q(w) == {<<"queue", w, i>> : i \in {j \in 1..Len(tasks_[w]) : tasks_[w][j] = e}}
           B == UNION {Q(w) : w \in Worker}
           C == {<<"running", w>> : w \in {v \in Worker : task[v] = e}}
<1>1. Places(e) = A \cup C \cup B BY DEF Places
<1>2. \A p : p \in A <=>
        \E t \in Thread : p = <<"spawner", t>> /\ Spawning(t) /\ spawner[t].event = e
  BY Zenon DEF Spawning
<1>3. \A p : p \in C <=> \E w \in Worker : p = <<"running", w>> /\ task[w] = e
  BY Zenon
<1>4. \A p : p \in B <=> \E w \in Worker : p \in Q(w)
  BY Zenon
<1>5. \A p, w : p \in Q(w) <=> \E i \in Slot(w) : p = <<"queue", w, i>> /\ tasks_[w][i] = e
  BY Zenon DEF Slot
<1> HIDE DEF A, B, C, Q
<1>6. \A p : p \in B <=> \E w \in Worker : \E i \in Slot(w) :
        p = <<"queue", w, i>> /\ tasks_[w][i] = e
  BY <1>4, <1>5
<1> QED BY <1>1, <1>2, <1>3, <1>6, Zenon

(* Every event the registry knows has its result, or its task is in        *)
(* exactly one place; no other event has a task anywhere.  So no task runs *)
(* twice, is lost, or runs after its BlockingTask has been destroyed.  And *)
(* no pool thread sleeps while it has tasks, but for one that is about to  *)
(* be notified.                                                            *)
THEOREM RunsOnce == Spec => []TaskOnce
<1>1. ASSUME IInv, NEW e \in Event
      PROVE  Cardinality(Places(e)) = IF e \in Pending THEN 1 ELSE 0
  <2>1. CASE e \notin Pending
    <3>1. Places(e) = {}
      BY <1>1, <2>1, InPlaces, PoolAssumption, SMT DEF IInv, HolderInv
    <3> QED BY <2>1, <3>1, FS_EmptySet
  <2>2. CASE e \in Pending
    <3>1. PICK p : p \in Places(e)
      BY <1>1, <2>2, InPlaces DEF IInv, PresentInv, Present
    <3>2. \A q \in Places(e) : q = p
      BY <1>1, <3>1, InPlaces, PoolAssumption, SMT DEF IInv, AloneInv
    <3>3. Places(e) = {p} BY <3>1, <3>2
    <3> QED BY <2>2, <3>3, FS_Singleton
  <2> QED BY <2>1, <2>2
<1>2. IInv /\ SleepInv => TaskOnce BY <1>1 DEF IInv, SleepInv, TaskOnce, Pending
<1> QED BY <1>2, Invariance, NobodySleepsOnTask, PTL

(* The pool is a registry as the scheduler expects it: select hands out    *)
(* every registered event once, after its task has run.                    *)
THEOREM ImplementsEventRegistry == Spec => ImplementsRegistry
<1> DEFINE happened == events_ \cap after_extra_
<1>1. Init => Contract!Init BY DEF Init, Contract!Init
<1>2. IInv /\ [Next]_vars => [Contract!Next]_Contract!vars
  <2> SUFFICES ASSUME IInv, [Next]_vars PROVE [Contract!Next]_Contract!vars OBVIOUS
  <2> USE DEF Contract!Next, Contract!vars
  <2>q. ASSUME UNCHANGED registryVars PROVE [Contract!Next]_Contract!vars
    BY <2>q DEF registryVars
  <2>1. ASSUME NEW t \in Thread, NEW e \in Event, Register(t, e)
        PROVE  Contract!Register(e)
    BY <2>1 DEF Register, Contract!Register
  <2>2. ASSUME NEW t \in Thread, Select(t) PROVE Contract!Select(happened)
    BY <2>2 DEF Select, Contract!Select
  <2>3. ASSUME NEW e \in Event, Poll(e) PROVE Contract!Poll(e)
    BY <2>3 DEF Poll, Contract!Poll, IInv, ResultInv
  <2>4. ASSUME NEW w \in Worker, RunTask(w) PROVE Contract!Happen({task[w]})
    BY <2>4 DEF RunTask, Contract!Happen, IInv, HolderInv, Pending
  <2>5. happened \in SUBSET Event /\ \A w \in Worker : worker[w] = "run" => task[w] \in Event
    BY HeldEvents DEF IInv, TypeOK
  <2>6. ASSUME NEW w \in Worker, run(w), ~RunTask(w) PROVE UNCHANGED registryVars
    BY <2>6 DEF run, Test_end, Lock, LockRegistry, Take, Relock, NoTask, TestPredicate,
                Block, Wakeup
  <2>7. ASSUME NEW t \in Thread, Spawn(t) PROVE UNCHANGED registryVars
    BY <2>7 DEF Spawn, Choose, Push, Notify
  <2>8. Exit \/ Destroy \/ UNCHANGED vars => UNCHANGED registryVars
    BY DEF Exit, Destroy, SetEnd, NotifyEnd, Join, vars
  <2> QED
    BY <2>q, <2>1, <2>2, <2>3, <2>4, <2>5, <2>6, <2>7, <2>8 DEF Next, RunTask
<1> QED BY <1>1, <1>2, Invariance, PTL DEF Spec, ImplementsRegistry, Contract!Spec

=============================================================================
