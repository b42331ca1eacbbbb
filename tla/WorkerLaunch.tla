---------------------------- MODULE WorkerLaunch ----------------------------
(***************************************************************************)
(* The construction of a RuntimeCore: the in-place worker and every worker *)
(* thread add themselves to the Driver's map of registries, and the worker *)
(* threads wait for each other at a barrier (src/runtime/core.cc,          *)
(* src/runtime/driver.cc, include/xyco/runtime/{driver,global_registry}.ccm). *)
(* The map has no lock of its own: Driver::poll and Driver::Register look  *)
(* up the calling thread in it while others may still be inserting.        *)
(***************************************************************************)
EXTENDS Naturals, FiniteSets

CONSTANTS
  Worker,    \* the worker threads
  Main,      \* the thread that creates the runtime
  Spurious,  \* the workers whose wait may return without a notification
  None

ASSUME LaunchAssumption ==
  /\ IsFiniteSet(Worker)
  /\ Main \notin Worker
  /\ None \notin Worker \cup {Main}
  /\ Spurious \subseteq Worker

Thread == Worker \cup {Main}

VARIABLES
  pc,
  worker_launch_mutex_,   \* the worker that holds it
  init_worker_num_,
  local_registries_,      \* Driver: thread -> the registry instance it was given
  per_runtime_registry_   \* GlobalRegistry: the instance of this runtime

vars == <<pc, worker_launch_mutex_, init_worker_num_, local_registries_,
          per_runtime_registry_>>

(* "add": inserting into local_registries_; "read": looking up in it.      *)
Place == {"unborn", "lock", "add", "lookup", "create", "added", "wait",
          "notify", "relock", "start", "run", "read"}

Goto(w, p) == pc' = [pc EXCEPT ![w] = p]

Init ==
  /\ pc = [w \in Thread |-> IF w = Main THEN "add" ELSE "unborn"]
  /\ worker_launch_mutex_ = None
  /\ init_worker_num_ = 0
  /\ local_registries_ = [w \in Thread |-> None]
  /\ per_runtime_registry_ = None

(* The loop of the constructor starts one thread after the other.          *)
Start(w) ==
  /\ pc[Main] = "start"
  /\ pc[w] = "unborn"
  /\ Goto(w, "lock")
  /\ UNCHANGED <<worker_launch_mutex_, init_worker_num_, local_registries_,
                 per_runtime_registry_>>

Constructed ==
  /\ pc[Main] = "start"
  /\ \A w \in Worker : pc[w] # "unborn"
  /\ Goto(Main, "run")
  /\ UNCHANGED <<worker_launch_mutex_, init_worker_num_, local_registries_,
                 per_runtime_registry_>>

(* Mutant: the barrier's mutex is not taken.                               *)
LaunchUnlocked(w) ==
  /\ pc[w] = "lock"
  /\ worker_launch_mutex_' = w
  /\ Goto(w, "add")
  /\ UNCHANGED <<init_worker_num_, local_registries_, per_runtime_registry_>>

Launch(w) ==
  /\ pc[w] = "lock"
  /\ worker_launch_mutex_ = None
  /\ worker_launch_mutex_' = w
  /\ Goto(w, "add")
  /\ UNCHANGED <<init_worker_num_, local_registries_, per_runtime_registry_>>

(* Driver::add_thread: a new entry, then the initializers of the registries. *)
AddThread(w) ==
  /\ pc[w] = "add"
  /\ local_registries_' = [local_registries_ EXCEPT ![w] = None]
  /\ Goto(w, "lookup")
  /\ UNCHANGED <<worker_launch_mutex_, init_worker_num_, per_runtime_registry_>>

(* GlobalRegistry::get_instance under the shared lock.                     *)
Lookup(w) ==
  /\ pc[w] = "lookup"
  /\ IF per_runtime_registry_ # None
       THEN /\ local_registries_' =
                 [local_registries_ EXCEPT ![w] = per_runtime_registry_]
            /\ Goto(w, "added")
       ELSE /\ Goto(w, "create")
            /\ UNCHANGED local_registries_
  /\ UNCHANGED <<worker_launch_mutex_, init_worker_num_, per_runtime_registry_>>

(* Mutant: the new instance is not stored for the threads to come.         *)
CreateForgetting(w) ==
  /\ pc[w] = "create"
  /\ local_registries_' = [local_registries_ EXCEPT ![w] = w]
  /\ Goto(w, "added")
  /\ UNCHANGED <<worker_launch_mutex_, init_worker_num_, per_runtime_registry_>>

(* An instance is named after the thread that made it.                     *)
Create(w) ==
  /\ pc[w] = "create"
  /\ per_runtime_registry_' = w
  /\ local_registries_' = [local_registries_ EXCEPT ![w] = w]
  /\ Goto(w, "added")
  /\ UNCHANGED <<worker_launch_mutex_, init_worker_num_>>

InPlaceAdded ==
  /\ pc[Main] = "added"
  /\ Goto(Main, "start")
  /\ UNCHANGED <<worker_launch_mutex_, init_worker_num_, local_registries_,
                 per_runtime_registry_>>

(* Mutant: the last worker waits like the others.                          *)
ArriveOffByOne(w) ==
  /\ pc[w] = "added"
  /\ w \in Worker
  /\ init_worker_num_' = init_worker_num_ + 1
  /\ worker_launch_mutex_' = None
  /\ Goto(w, IF init_worker_num_' > Cardinality(Worker) THEN "notify" ELSE "wait")
  /\ UNCHANGED <<local_registries_, per_runtime_registry_>>

(* ++init_worker_num_; the last worker unlocks, the others wait.           *)
Arrive(w) ==
  /\ pc[w] = "added"
  /\ w \in Worker
  /\ init_worker_num_' = init_worker_num_ + 1
  /\ worker_launch_mutex_' = None
  /\ Goto(w, IF init_worker_num_' = Cardinality(Worker) THEN "notify" ELSE "wait")
  /\ UNCHANGED <<local_registries_, per_runtime_registry_>>

NotifyAll(w) ==
  /\ pc[w] = "notify"
  /\ pc' = [v \in Thread |-> CASE v = w -> "run"
                               [] v # w /\ pc[v] = "wait" -> "relock"
                               [] OTHER -> pc[v]]
  /\ UNCHANGED <<worker_launch_mutex_, init_worker_num_, local_registries_,
                 per_runtime_registry_>>

(* worker_launch_cv_.wait has no predicate.                                *)
SpuriousWake(w) ==
  /\ w \in Spurious
  /\ pc[w] = "wait"
  /\ Goto(w, "relock")
  /\ UNCHANGED <<worker_launch_mutex_, init_worker_num_, local_registries_,
                 per_runtime_registry_>>

(* wait takes the mutex again, and the guard releases it.                  *)
Relock(w) ==
  /\ pc[w] = "relock"
  /\ worker_launch_mutex_ = None
  /\ Goto(w, "run")
  /\ UNCHANGED <<worker_launch_mutex_, init_worker_num_, local_registries_,
                 per_runtime_registry_>>

(* run_loop_once and the polls of futures look up the registries of the    *)
(* thread, from block_on too.                                              *)
BeginRead(w) ==
  /\ pc[w] = "run"
  /\ Goto(w, "read")
  /\ UNCHANGED <<worker_launch_mutex_, init_worker_num_, local_registries_,
                 per_runtime_registry_>>

EndRead(w) ==
  /\ pc[w] = "read"
  /\ Goto(w, "run")
  /\ UNCHANGED <<worker_launch_mutex_, init_worker_num_, local_registries_,
                 per_runtime_registry_>>

InitStep(w) ==
  \/ Launch(w)
  \/ AddThread(w)
  \/ Lookup(w)
  \/ Create(w)
  \/ Arrive(w)
  \/ NotifyAll(w)
  \/ Relock(w)

Next ==
  \/ \E w \in Worker : Start(w) \/ SpuriousWake(w)
  \/ Constructed
  \/ InPlaceAdded
  \/ \E w \in Thread : InitStep(w) \/ BeginRead(w) \/ EndRead(w)

Spec == Init /\ [][Next]_vars

(* Every thread, the creator too, goes on with its initialization; a       *)
(* waiter gets the mutex if it is free again and again.                    *)
Fairness ==
  /\ \A w \in Thread : SF_vars(InitStep(w))
  /\ \A w \in Worker : WF_vars(Start(w))
  /\ WF_vars(InPlaceAdded)
FairSpec == Spec /\ Fairness

-----------------------------------------------------------------------------
(* Every variable has its type; the workers, and only they, are counted.   *)
TypeOK ==
  /\ pc \in [Thread -> Place]
  /\ worker_launch_mutex_ \in Worker \cup {None}
  /\ init_worker_num_ \in 0 .. Cardinality(Worker)
  /\ local_registries_ \in [Thread -> Thread \cup {None}]
  /\ per_runtime_registry_ \in Thread \cup {None}

(* GlobalRegistry::get_instance checks and creates under two different     *)
(* locks, yet all threads of a runtime share one instance: an event that   *)
(* one thread registers is selected by any other.                          *)
OneInstance ==
  \A w, v \in Thread :
    local_registries_[w] # None /\ local_registries_[v] # None =>
      local_registries_[w] = local_registries_[v]

(* local_registries_ has no lock of its own: while a thread inserts, no    *)
(* other one inserts, and no worker is past the barrier ("wait until all   *)
(* workers complete initializing") by the doing of another worker.  (A     *)
(* spurious wakeup lets a worker pass; the creator of the runtime never    *)
(* waits.)                                                                 *)
InsertAlone ==
  /\ TypeOK
  /\ \A w, v \in Thread : w # v /\ pc[w] = "add" =>
       pc[v] # "add" /\ (v \in Worker \ Spurious => pc[v] # "read")

(* Every worker thread passes the barrier.                                 *)
AllLaunch == \A w \in Worker : <>(pc[w] = "run")
=============================================================================
