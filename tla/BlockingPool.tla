---------------------------- MODULE BlockingPool ----------------------------
(***************************************************************************)
(* The pool of threads for blocking calls (src/task/registry.cc) and the   *)
(* futures that use it (include/xyco/task/blocking_task.ccm).              *)
(*                                                                         *)
(* Runtime threads register the event of a BlockingTask and select the     *)
(* finished ones; pool threads run the tasks.  Two kinds of mutex are in   *)
(* play, BlockingRegistryImpl::mutex_ and one BlockingWorker::mutex_ for   *)
(* each pool thread.  Who holds them follows from where the pool threads   *)
(* are; all other critical sections are single steps.  When the runtime    *)
(* threads have stopped, ~BlockingPool may run, tasks left over or not.    *)
(***************************************************************************)
EXTENDS Naturals, Sequences, FiniteSets

CONSTANTS
  Thread,    \* the worker threads of the runtime
  woker_num, \* number of pool threads
  Event,     \* events of BlockingTasks; used again when the task is gone
  None

ASSUME PoolAssumption ==
  /\ woker_num \in Nat \ {0}
  /\ None \notin Event

Worker == 1..woker_num

VARIABLES
  events_,      \* events the registry knows
  after_extra_, \* events whose result is there
  reported,     \* events handed out by select, whose future is not polled yet
  tasks_,       \* queue of each pool thread
  worker,       \* where each pool thread is in BlockingWorker::run
  task,         \* the task it runs
  spawner,      \* what each runtime thread is doing in Register
  end_,         \* pool threads that are told to end
  dtor,         \* where ~BlockingPool is
  missed        \* history: threads that ~BlockingPool notified just before they slept

registryVars == <<events_, after_extra_, reported>>
poolVars == <<tasks_, worker, task, end_>>
dtorVars == <<dtor, missed>>
vars == <<registryVars, poolVars, spawner, dtorVars>>

Idle == [at |-> "idle", event |-> None, worker |-> 1]

Init ==
  /\ events_ = {} /\ after_extra_ = {} /\ reported = {}
  /\ tasks_ = [w \in Worker |-> <<>>]
  /\ worker = [w \in Worker |-> "head"]
  /\ task = [w \in Worker |-> None]
  /\ spawner = [t \in Thread |-> Idle]
  /\ end_ = {}
  /\ dtor = [at |-> "no", worker |-> 1] /\ missed = {}

RegistryLocked == \E w \in Worker : worker[w] \in {"loop", "run", "relock"}
WorkerLocked(w) == worker[w] \in {"registry", "loop", "test", "block"}
Running == dtor.at = "no"

-----------------------------------------------------------------------------
(* Register, called by the first poll of a BlockingTask.                   *)

Register(t, e) ==
  /\ Running /\ spawner[t] = Idle
  /\ e \notin events_ \cup reported
  /\ ~RegistryLocked
  /\ events_' = events_ \cup {e}
  /\ spawner' = [spawner EXCEPT ![t] = [at |-> "choose", event |-> e, worker |-> 1]]
  /\ UNCHANGED <<after_extra_, reported, poolVars, dtorVars>>

(* The sizes of the queues are read without a lock: when another thread is *)
(* about to push or to pop, the minimum found may be any worker.           *)
Racing(t) ==
  \/ \E u \in Thread \ {t} : spawner[u].at = "push"
  \/ \E w \in Worker : worker[w] = "loop" /\ tasks_[w] # <<>>

Shortest(w) ==
  /\ \A v \in Worker : Len(tasks_[w]) <= Len(tasks_[v])
  /\ \A v \in 1..(w - 1) : Len(tasks_[w]) < Len(tasks_[v])

Choose(t, w) ==
  /\ spawner[t].at = "choose"
  /\ Shortest(w) \/ Racing(t)
  /\ spawner' = [spawner EXCEPT ![t].at = "push", ![t].worker = w]
  /\ UNCHANGED <<registryVars, poolVars, dtorVars>>

(* Mutant: the pool thread is not notified.                                *)
PushSilently(t) ==
  LET w == spawner[t].worker IN
  /\ spawner[t].at = "push" /\ ~WorkerLocked(w)
  /\ tasks_' = [tasks_ EXCEPT ![w] = Append(@, spawner[t].event)]
  /\ spawner' = [spawner EXCEPT ![t] = Idle]
  /\ UNCHANGED <<registryVars, worker, task, end_, dtorVars>>

Push(t) ==
  LET w == spawner[t].worker IN
  /\ spawner[t].at = "push" /\ ~WorkerLocked(w)
  /\ tasks_' = [tasks_ EXCEPT ![w] = Append(@, spawner[t].event)]
  /\ spawner' = [spawner EXCEPT ![t].at = "notify"]
  /\ UNCHANGED <<registryVars, worker, task, end_, dtorVars>>

notify_one(w) ==
  worker' = IF worker[w] = "wait" THEN [worker EXCEPT ![w] = "woken"] ELSE worker

Notify(t) ==
  /\ spawner[t].at = "notify"
  /\ notify_one(spawner[t].worker)
  /\ spawner' = [spawner EXCEPT ![t] = Idle]
  /\ UNCHANGED <<registryVars, tasks_, task, end_, dtorVars>>

Spawn(t) == (\E w \in Worker : Choose(t, w)) \/ Push(t) \/ Notify(t)

(* Mutant: events without a result are forgotten.                          *)
SelectAll(t) ==
  /\ Running /\ spawner[t] = Idle /\ ~RegistryLocked
  /\ events_ \cap after_extra_ # {}
  /\ reported' = reported \cup (events_ \cap after_extra_)
  /\ events_' = {}
  /\ UNCHANGED <<after_extra_, poolVars, spawner, dtorVars>>

(* select with something to report, and the wake that follows.             *)
Select(t) ==
  /\ Running /\ spawner[t] = Idle /\ ~RegistryLocked
  /\ events_ \cap after_extra_ # {}
  /\ reported' = reported \cup (events_ \cap after_extra_)
  /\ events_' = events_ \ after_extra_
  /\ UNCHANGED <<after_extra_, poolVars, spawner, dtorVars>>

(* The second poll takes the result.  The event ends with the task.        *)
Poll(e) ==
  /\ Running /\ e \in reported
  /\ reported' = reported \ {e}
  /\ after_extra_' = after_extra_ \ {e}
  /\ UNCHANGED <<events_, poolVars, spawner, dtorVars>>

-----------------------------------------------------------------------------
(* BlockingWorker::run.                                                    *)

Goto(w, place) == worker' = [worker EXCEPT ![w] = place]

Test_end(w) ==
  /\ worker[w] = "head"
  /\ Goto(w, IF w \in end_ THEN "exit" ELSE "lock")
  /\ UNCHANGED <<registryVars, tasks_, task, end_, spawner, dtorVars>>

Lock(w) ==
  /\ worker[w] = "lock"
  /\ Goto(w, "registry")
  /\ UNCHANGED <<registryVars, tasks_, task, end_, spawner, dtorVars>>

LockRegistry(w) ==
  /\ worker[w] = "registry" /\ ~RegistryLocked
  /\ Goto(w, "loop")
  /\ UNCHANGED <<registryVars, tasks_, task, end_, spawner, dtorVars>>

(* Mutant: the task stays in the queue.                                    *)
TakeFront(w) ==
  /\ worker[w] = "loop" /\ tasks_[w] # <<>>
  /\ task' = [task EXCEPT ![w] = Head(tasks_[w])]
  /\ Goto(w, "run")
  /\ UNCHANGED <<registryVars, tasks_, end_, spawner, dtorVars>>

Take(w) ==
  /\ worker[w] = "loop" /\ tasks_[w] # <<>>
  /\ task' = [task EXCEPT ![w] = Head(tasks_[w])]
  /\ tasks_' = [tasks_ EXCEPT ![w] = Tail(@)]
  /\ Goto(w, "run")
  /\ UNCHANGED <<registryVars, end_, spawner, dtorVars>>

(* task() sets after_extra_ of its event.                                  *)
RunTask(w) ==
  /\ worker[w] = "run"
  /\ after_extra_' = after_extra_ \cup {task[w]}
  /\ task' = [task EXCEPT ![w] = None]
  /\ Goto(w, "relock")
  /\ UNCHANGED <<events_, reported, tasks_, end_, spawner, dtorVars>>

Relock(w) ==
  /\ worker[w] = "relock"
  /\ Goto(w, "loop")
  /\ UNCHANGED <<registryVars, tasks_, task, end_, spawner, dtorVars>>

NoTask(w) ==
  /\ worker[w] = "loop" /\ tasks_[w] = <<>>
  /\ Goto(w, "test")
  /\ UNCHANGED <<registryVars, tasks_, task, end_, spawner, dtorVars>>

(* Mutant: the predicate of cv_.wait does not mention end_.                *)
WaitForTask(w) ==
  /\ worker[w] = "test"
  /\ Goto(w, IF tasks_[w] # <<>> THEN "head" ELSE "block")
  /\ UNCHANGED <<registryVars, tasks_, task, end_, spawner, dtorVars>>

(* cv_.wait: the predicate is tested; the thread falls asleep and gives up *)
(* the mutex in one step; once notified it takes the mutex to test again.  *)
TestPredicate(w) ==
  /\ worker[w] = "test"
  /\ Goto(w, IF tasks_[w] # <<>> \/ w \in end_ THEN "head" ELSE "block")
  /\ UNCHANGED <<registryVars, tasks_, task, end_, spawner, dtorVars>>

Block(w) ==
  /\ worker[w] = "block"
  /\ Goto(w, "wait")
  /\ UNCHANGED <<registryVars, tasks_, task, end_, spawner, dtorVars>>

Wakeup(w) ==
  /\ worker[w] = "woken"
  /\ Goto(w, "test")
  /\ UNCHANGED <<registryVars, tasks_, task, end_, spawner, dtorVars>>

run(w) ==
  \/ Test_end(w) \/ Lock(w) \/ LockRegistry(w) \/ Take(w) \/ RunTask(w) \/ Relock(w)
  \/ NoTask(w) \/ TestPredicate(w) \/ Block(w) \/ Wakeup(w)

-----------------------------------------------------------------------------
(* ~BlockingPool, run when the registries are destroyed at exit: the       *)
(* runtime threads have been joined, their coroutines are never resumed.   *)

Exit ==
  /\ Running /\ \A t \in Thread : spawner[t] = Idle
  /\ dtor' = [at |-> "end", worker |-> 1]
  /\ UNCHANGED <<registryVars, poolVars, spawner, missed>>

SetEnd ==
  /\ dtor.at = "end"
  /\ end_' = end_ \cup {dtor.worker}
  /\ dtor' = [dtor EXCEPT !.at = "notify"]
  /\ UNCHANGED <<registryVars, tasks_, worker, task, spawner, missed>>

NotifyEnd ==
  /\ dtor.at = "notify"
  /\ notify_one(dtor.worker)
  /\ missed' = IF worker[dtor.worker] = "block" THEN missed \cup {dtor.worker} ELSE missed
  /\ dtor' = IF dtor.worker < woker_num
             THEN [at |-> "end", worker |-> dtor.worker + 1]
             ELSE [at |-> "join", worker |-> 1]
  /\ UNCHANGED <<registryVars, tasks_, task, end_, spawner>>

Join ==
  /\ dtor.at = "join" /\ worker[dtor.worker] = "exit"
  /\ dtor' = IF dtor.worker < woker_num THEN [dtor EXCEPT !.worker = @ + 1]
                                        ELSE [dtor EXCEPT !.at = "done"]
  /\ UNCHANGED <<registryVars, poolVars, spawner, missed>>

Destroy == SetEnd \/ NotifyEnd \/ Join

Next ==
  \/ \E t \in Thread, e \in Event : Register(t, e)
  \/ \E t \in Thread : Spawn(t) \/ Select(t)
  \/ \E e \in Event : Poll(e)
  \/ \E w \in Worker : run(w)
  \/ Exit \/ Destroy

(* Tasks return, threads run, and a mutex starves nobody.                  *)
Fairness ==
  /\ \A t \in Thread : WF_vars(Spawn(t)) /\ SF_vars(Push(t)) /\ SF_vars(Select(t))
  /\ \A w \in Worker : WF_vars(run(w)) /\ SF_vars(LockRegistry(w))
  /\ WF_vars(Destroy)

Spec == Init /\ [][Next]_vars /\ Fairness

-----------------------------------------------------------------------------
Registration ==
  [at : {"idle", "choose", "push", "notify"}, event : Event \cup {None}, worker : Worker]

TypeOK ==
  /\ events_ \cup after_extra_ \cup reported \subseteq Event
  /\ tasks_ \in [Worker -> Seq(Event)]
  /\ worker \in [Worker -> {"head", "lock", "registry", "loop", "run", "relock", "test",
                            "block", "wait", "woken", "exit"}]
  /\ task \in [Worker -> Event \cup {None}]
  /\ spawner \in [Thread -> Registration]
  /\ end_ \cup missed \subseteq Worker
  /\ dtor \in [at : {"no", "end", "notify", "join", "done"}, worker : Worker]

(* Where the task of an event is before it has run.                        *)
Places(e) ==
  {<<"spawner", t>> : t \in {u \in Thread : spawner[u].event = e
                                            /\ spawner[u].at \in {"choose", "push"}}}
  \cup {<<"running", w>> : w \in {v \in Worker : task[v] = e}}
  \cup UNION {{<<"queue", w, i>> : i \in {j \in 1..Len(tasks_[w]) : tasks_[w][j] = e}} :
                w \in Worker}

(* Every event the registry knows has its result or its task is in exactly *)
(* one place; a task is in no place once it has run, so that no task runs  *)
(* twice or after its BlockingTask has been destroyed.  No pool thread     *)
(* sleeps while it has tasks, or goes to sleep, but for one that is about  *)
(* to be notified.                                                         *)
TaskOnce ==
  /\ TypeOK
  /\ \A e \in Event :
       Cardinality(Places(e)) = IF e \in events_ \ after_extra_ THEN 1 ELSE 0
  /\ \A w \in Worker : tasks_[w] # <<>> /\ worker[w] \in {"block", "wait"} =>
       \E t \in Thread : spawner[t].at = "notify" /\ spawner[t].worker = w

(* Select hands out every registered event once, after its task has run.   *)
Contract == INSTANCE EventRegistry WITH
  held <- events_,
  happened <- events_ \cap after_extra_
ImplementsRegistry == Contract!Spec

(* Every blocking task of a running program gets its answer, although all  *)
(* tasks run under the mutex that Register and select need.                *)
Answered == \A e \in Event : e \in events_ ~> e \in reported \/ ~Running

(* ~BlockingPool joins its threads, or it hangs for one reason: it set     *)
(* end_ and notified a thread which had just tested the predicate.         *)
DestructorReturns == ~Running ~> dtor.at = "done" \/ missed # {}
=============================================================================
