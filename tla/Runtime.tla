------------------------------- MODULE Runtime -------------------------------
(***************************************************************************)
(* The scheduler of xyco: RuntimeCore, its Workers and Runtime::block_on   *)
(* (src/runtime/core.cc, include/xyco/runtime/{core,runtime}.ccm,          *)
(* src/runtime/driver.cc).                                                 *)
(*                                                                         *)
(* Every worker thread, and the thread that created the runtime while it   *)
(* is inside block_on (the in-place worker), runs the same loop: take the  *)
(* pairs (handle, future) of the shared queue one by one, poll the future  *)
(* and resume the coroutine, then ask every registry for completed events  *)
(* and put their futures back into the queue.  A step of this model is one *)
(* stretch of code between two accesses to shared state: acquiring the     *)
(* mutex, the critical section, an atomic flag, the body of a coroutine    *)
(* between two suspension points.                                          *)
(*                                                                         *)
(* A task is a root coroutine with all that it awaits.  It waits for one   *)
(* event at a time; the registries are abstract (Register, completion,     *)
(* select) and have modules of their own.  What this module keeps of them  *)
(* is which instance an event is in: a GlobalRegistry is shared by the     *)
(* threads, a ThreadLocalRegistry (the rings of io_uring) has an instance  *)
(* for each thread, and Driver selects and registers only in the instances *)
(* of the calling thread.                                                  *)
(***************************************************************************)
EXTENDS Naturals, Sequences

CONSTANTS
  Worker,    \* the threads of workers_ (worker_num_ of them)
  Main,      \* the thread that created the runtime: runs in_place_worker_
  Task,      \* the root coroutines that may be spawned
  Registry,  \* the registries added to the Driver
  Local,     \* those of them that are a ThreadLocalRegistry
  Outcome,   \* how a root coroutine may end, a subset of Endings
  None       \* nullptr

Endings == {"return", "cancel", "throw"}
Thread == Worker \cup {Main}

(* get_instance on thread w: the instance of r in w's local_registries_,   *)
(* its own one or the one of the runtime.                                  *)
InstanceOf(w, r) == <<r, IF r \in Local THEN w ELSE None>>
Instance == Registry \X (Thread \cup {None})

(* The pairs of the queue: the handle of a coroutine with nullptr (resume  *)
(* it), or with the future it awaits (poll that first).                    *)
Handle == [task : Task, future : BOOLEAN]
Started(t) == [task |-> t, future |-> FALSE]
Awaiting(t) == [task |-> t, future |-> TRUE]

ASSUME ConstantAssumption ==
  /\ Main \notin Worker
  /\ None \notin Thread
  /\ None \notin Handle
  /\ None \notin Instance
  /\ Local \subseteq Registry
  /\ None \notin Task
  /\ Outcome \subseteq Endings

VARIABLES
  handles_,       \* RuntimeCore::handles_; emplaced at begin(), taken from back()
  handle_mutex_,  \* the thread that holds RuntimeCore::handle_mutex_
  suspend_flag_,  \* Worker::suspend_flag_ of every thread
  pc,             \* where the thread is, see Place
  cur,            \* the pair the thread took from the queue and is running
  arg,            \* the pair the thread is about to put into the queue
  wrapper,        \* the task whose future_wrapper in spawn_impl the thread owns
  todo,           \* registries still to be selected in this Driver::poll
  events,         \* the local Events of Driver::poll
  registered,     \* the instance of a registry that holds the task's event
  fired,          \* tasks whose registered event has completed
  future_,        \* Event::future_ of the task's event is not nullptr
  co,             \* the life cycle of the coroutine (history variable)
  roots,          \* tasks that are the blocking_future of a block_on
  awaited,        \* the blocking_future of the latest block_on
  left,           \* how the latest block_on was left
  terminated      \* std::terminate was called

queueVars == <<handles_, handle_mutex_>>
eventVars == <<todo, events, registered, fired, future_>>
blockVars == <<roots, awaited, left>>
pushVars == <<arg, wrapper>>
vars == <<queueVars, suspend_flag_, pc, cur, pushVars, eventVars, co, blockVars,
          terminated>>

(***************************************************************************)
(* "outside", "block_on", "join", "destroyed" are places of Main only;     *)
(* "exit" is the end of a worker thread, or of every thread when the       *)
(* process is terminated.                                                  *)
(***************************************************************************)
Place == {"loop", "local", "try", "resume", "run", "spawn", "drop", "check",
          "select", "wake", "push", "exit", "outside", "block_on", "join", "destroyed"}

Life == {"unborn", "pushing", "queued", "running", "waiting", "selected",
         "done"}

Goto(w, p) == pc' = [pc EXCEPT ![w] = p]
Become(t, s) == co' = [co EXCEPT ![t] = s]

Init ==
  /\ handles_ = <<>>
  /\ handle_mutex_ = None
  /\ suspend_flag_ = [w \in Thread |-> FALSE]
  /\ pc = [w \in Thread |-> IF w = Main THEN "outside" ELSE "loop"]
  /\ cur = [w \in Thread |-> None]
  /\ arg = [w \in Thread |-> None]
  /\ wrapper = [w \in Thread |-> None]
  /\ todo = [w \in Thread |-> {}]
  /\ events = [w \in Thread |-> {}]
  /\ registered = [t \in Task |-> None]
  /\ fired = {}
  /\ future_ = [t \in Task |-> FALSE]
  /\ co = [t \in Task |-> "unborn"]
  /\ roots = {}
  /\ awaited = None
  /\ left = "never"
  /\ terminated = FALSE

-----------------------------------------------------------------------------
(* The shared queue.                                                       *)

(* A blocking lock of handle_mutex_: at the end of an iteration of the     *)
(* resume loop, and in spawn_impl and wake.                                *)
Lock(w) ==
  /\ pc[w] \in {"resume", "spawn", "push", "block_on"}
  /\ handle_mutex_ = None
  /\ handle_mutex_' = w
  /\ UNCHANGED <<handles_, suspend_flag_, pc, cur, pushVars, eventVars, co,
                 blockVars, terminated>>

AfterPush(w) == IF pc[w] = "push" THEN "wake" ELSE "drop"

(* The critical section of spawn_impl and of wake.                         *)
Push(w) ==
  /\ pc[w] \in {"spawn", "push", "block_on"}
  /\ handle_mutex_ = w
  /\ handles_' = Append(handles_, arg[w])
  /\ handle_mutex_' = None
  /\ Become(arg[w].task, "queued")
  /\ arg' = [arg EXCEPT ![w] = None]
  /\ Goto(w, AfterPush(w))
  /\ UNCHANGED <<suspend_flag_, cur, wrapper, eventVars, blockVars, terminated>>

(* spawn_impl returns and drops future_wrapper: the promise loses its      *)
(* future.  The mutex is free by then, and the coroutine in the queue.     *)
Drop(w) ==
  /\ pc[w] = "drop"
  /\ wrapper' = [wrapper EXCEPT ![w] = None]
  /\ Goto(w, CASE cur[w] # None -> "run"
               [] cur[w] = None /\ left = "inside" -> "loop"
               [] OTHER -> "outside")
  /\ UNCHANGED <<queueVars, suspend_flag_, cur, arg, eventVars, co, blockVars,
                 terminated>>

-----------------------------------------------------------------------------
(* Worker::run_in_place and Worker::run_loop_once.                         *)

(* Mutant: the flag is not reset when the loop is left.                    *)
LoopTestKeepingFlag(w) ==
  /\ pc[w] = "loop"
  /\ IF suspend_flag_[w]
       THEN /\ Goto(w, IF w = Main THEN "outside" ELSE "exit")
            /\ left' = IF w = Main THEN "returned" ELSE left
       ELSE /\ Goto(w, "local")
            /\ UNCHANGED left
  /\ UNCHANGED <<queueVars, suspend_flag_, cur, pushVars, eventVars, co, roots,
                 awaited, terminated>>

(* The test of the while loop of run_in_place; leaving the loop resets the *)
(* flag and ends the worker thread, or returns from block_on.              *)
LoopTest(w) ==
  /\ pc[w] = "loop"
  /\ IF suspend_flag_[w]
       THEN /\ suspend_flag_' = [suspend_flag_ EXCEPT ![w] = FALSE]
            /\ Goto(w, IF w = Main THEN "outside" ELSE "exit")
            /\ left' = IF w = Main THEN "returned" ELSE left
       ELSE /\ Goto(w, "local")
            /\ UNCHANGED <<suspend_flag_, left>>
  /\ UNCHANGED <<queueVars, cur, pushVars, eventVars, co, roots, awaited, terminated>>

(* The queue of the Worker itself is empty: nothing calls wake_local.      *)
ResumeLocal(w) ==
  /\ pc[w] = "local"
  /\ Goto(w, IF suspend_flag_[w] THEN "loop" ELSE "try")
  /\ UNCHANGED <<queueVars, suspend_flag_, cur, pushVars, eventVars, co,
                 blockVars, terminated>>

(* std::try_to_lock: a thread that finds the mutex held skips the queue.   *)
TryLock(w) ==
  /\ pc[w] = "try"
  /\ IF handle_mutex_ = None
       THEN /\ handle_mutex_' = w
            /\ Goto(w, "resume")
       ELSE /\ Goto(w, "check")
            /\ UNCHANGED handle_mutex_
  /\ UNCHANGED <<handles_, suspend_flag_, cur, pushVars, eventVars, co, blockVars,
                 terminated>>

(* Mutant: back() without pop_back().                                      *)
PopPeeking(w) ==
  /\ pc[w] = "resume"
  /\ handle_mutex_ = w
  /\ ~suspend_flag_[w]
  /\ handles_ # <<>>
  /\ cur' = [cur EXCEPT ![w] = Head(handles_)]
  /\ handle_mutex_' = None
  /\ Become(Head(handles_).task, "running")
  /\ Goto(w, "run")
  /\ UNCHANGED <<handles_, suspend_flag_, pushVars, eventVars, blockVars, terminated>>


Pop(w) ==
  /\ pc[w] = "resume"
  /\ handle_mutex_ = w
  /\ ~suspend_flag_[w]
  /\ handles_ # <<>>
  /\ cur' = [cur EXCEPT ![w] = Head(handles_)]
  /\ handles_' = Tail(handles_)
  /\ handle_mutex_' = None
  /\ Become(Head(handles_).task, "running")
  /\ Goto(w, "run")
  /\ UNCHANGED <<suspend_flag_, pushVars, eventVars, blockVars, terminated>>

EndResume(w) ==
  /\ pc[w] = "resume"
  /\ handle_mutex_ = w
  /\ suspend_flag_[w] \/ handles_ = <<>>
  /\ handle_mutex_' = None
  /\ Goto(w, "check")
  /\ UNCHANGED <<handles_, suspend_flag_, cur, pushVars, eventVars, co, blockVars,
                 terminated>>

Check(w) ==
  /\ pc[w] = "check"
  /\ IF suspend_flag_[w]
       THEN /\ Goto(w, "loop")
            /\ UNCHANGED todo
       ELSE /\ Goto(w, "select")
            /\ todo' = [todo EXCEPT ![w] = Registry]
  /\ UNCHANGED <<queueVars, suspend_flag_, cur, pushVars, events, registered, fired,
                 future_, co, blockVars, terminated>>

-----------------------------------------------------------------------------
(* What a coroutine does between two suspension points, on the thread that *)
(* took it from the queue.                                                 *)

Running(w) == pc[w] = "run" /\ cur[w] # None
Resumed(w) == Running(w) /\ ~cur[w].future

(* future_ of the task's promise is not nullptr.                           *)
Attached(t) == \E w \in Thread : wrapper[w] = t

(* poll_wrapper returned true: the coroutine is resumed.                   *)
PollReady(w) ==
  /\ Running(w)
  /\ cur[w].future
  /\ cur' = [cur EXCEPT ![w] = Started(@.task)]
  /\ UNCHANGED <<queueVars, suspend_flag_, pc, pushVars, eventVars, co, blockVars,
                 terminated>>

(* Mutant: only the first poll binds the future to the event.              *)
PendBindingOnce(w) ==
  /\ Running(w)
  /\ LET t == cur[w].task IN
       /\ \E r \in Registry : registered' = [registered EXCEPT ![t] = InstanceOf(w, r)]
       /\ future_' = [future_ EXCEPT ![t] = @ \/ ~cur[w].future]
       /\ Become(t, "waiting")
  /\ cur' = [cur EXCEPT ![w] = None]
  /\ Goto(w, "resume")
  /\ UNCHANGED <<queueVars, suspend_flag_, pushVars, todo, events, fired, blockVars,
                 terminated>>

(* A poll that returns Pending, from poll_wrapper or from await_suspend:   *)
(* the future binds itself to its event and registers it in this thread's  *)
(* instance of a registry.  From here on another thread may wake and       *)
(* resume the coroutine, so the thread has nothing more to do with it.     *)
Pend(w) ==
  /\ Running(w)
  /\ LET t == cur[w].task IN
       /\ \E r \in Registry : registered' = [registered EXCEPT ![t] = InstanceOf(w, r)]
       /\ future_' = [future_ EXCEPT ![t] = TRUE]
       /\ Become(t, "waiting")
  /\ cur' = [cur EXCEPT ![w] = None]
  /\ Goto(w, "resume")
  /\ UNCHANGED <<queueVars, suspend_flag_, pushVars, todo, events, fired, blockVars,
                 terminated>>

(* Runtime::spawn, by a coroutine or by the creator outside of block_on.   *)
Spawn(w, t) ==
  /\ Resumed(w) \/ (w = Main /\ pc[w] = "outside")
  /\ co[t] = "unborn"
  /\ Become(t, "pushing")
  /\ arg' = [arg EXCEPT ![w] = Started(t)]
  /\ wrapper' = [wrapper EXCEPT ![w] = t]
  /\ Goto(w, "spawn")
  /\ UNCHANGED <<queueVars, suspend_flag_, cur, eventVars, blockVars, terminated>>

(* Mutant: the worker that ran the future is suspended, not in_place_worker. *)
CompleteSuspendingSelf(w, o) ==
  /\ Resumed(w)
  /\ o = "throw" => Attached(cur[w].task)
  /\ Become(cur[w].task, "done")
  /\ cur' = [cur EXCEPT ![w] = None]
  /\ suspend_flag_' = IF o = "return" /\ cur[w].task \in roots
                        THEN [suspend_flag_ EXCEPT ![w] = TRUE]
                        ELSE suspend_flag_
  /\ Goto(w, "resume")
  /\ UNCHANGED <<queueVars, pushVars, eventVars, blockVars, terminated>>

(* The root coroutine ends.  blocking_future calls suspend() when the      *)
(* future given to block_on returned; a CancelException is swallowed by    *)
(* spawn_with_exception_handling before it comes to that, and any other    *)
(* exception ends up in the future that spawn_impl is about to drop, if it *)
(* has not done so yet.                                                    *)
Complete(w, o) ==
  /\ Resumed(w)
  /\ o = "throw" => Attached(cur[w].task)
  /\ Become(cur[w].task, "done")
  /\ cur' = [cur EXCEPT ![w] = None]
  /\ suspend_flag_' = IF o = "return" /\ cur[w].task \in roots
                        THEN [suspend_flag_ EXCEPT ![Main] = TRUE]
                        ELSE suspend_flag_
  /\ Goto(w, "resume")
  /\ UNCHANGED <<queueVars, pushVars, eventVars, blockVars, terminated>>

(* Otherwise the exception leaves handle.resume() and unwinds the thread: out  *)
(* of block_on, whichever coroutine threw it, ...                          *)
ThrowOut ==
  /\ "throw" \in Outcome
  /\ Resumed(Main)
  /\ ~Attached(cur[Main].task)
  /\ Become(cur[Main].task, "done")
  /\ cur' = [cur EXCEPT ![Main] = None]
  /\ Goto(Main, "outside")
  /\ left' = "threw"
  /\ UNCHANGED <<queueVars, suspend_flag_, pushVars, eventVars, roots, awaited,
                 terminated>>

(* ... or out of the function of a worker thread: std::terminate, the end  *)
(* of every thread.                                                        *)
Terminate(w) ==
  /\ "throw" \in Outcome
  /\ w # Main
  /\ Resumed(w)
  /\ ~Attached(cur[w].task)
  /\ Become(cur[w].task, "done")
  /\ cur' = [cur EXCEPT ![w] = None]
  /\ pc' = [v \in Thread |-> "exit"]
  /\ terminated' = TRUE
  /\ UNCHANGED <<queueVars, suspend_flag_, pushVars, eventVars, blockVars>>

-----------------------------------------------------------------------------
(* Driver::poll and RuntimeCore::wake.                                     *)

(* The awaited operation completes: the timer expires, the pool ran the    *)
(* function, the kernel reports the descriptor.                            *)
Fire(t) ==
  /\ registered[t] # None
  /\ t \notin fired
  /\ fired' = fired \cup {t}
  /\ UNCHANGED <<queueVars, suspend_flag_, pc, cur, pushVars, todo, events,
                 registered, future_, co, blockVars, terminated>>

Selected(w, r) == {t \in fired : registered[t] = InstanceOf(w, r)}

(* Mutant: the registry reports a completed event without forgetting it.   *)
SelectLevelTriggered(w, r) ==
  /\ pc[w] = "select"
  /\ r \in todo[w]
  /\ todo' = [todo EXCEPT ![w] = @ \ {r}]
  /\ events' = [events EXCEPT ![w] = Selected(w, r)]
  /\ co' = [t \in Task |-> IF t \in Selected(w, r) THEN "selected" ELSE co[t]]
  /\ Goto(w, "wake")
  /\ UNCHANGED <<queueVars, suspend_flag_, cur, pushVars, registered, fired, future_,
                 blockVars, terminated>>

Select(w, r) ==
  /\ pc[w] = "select"
  /\ r \in todo[w]
  /\ todo' = [todo EXCEPT ![w] = @ \ {r}]
  /\ events' = [events EXCEPT ![w] = Selected(w, r)]
  /\ fired' = fired \ Selected(w, r)
  /\ registered' = [t \in Task |-> IF t \in Selected(w, r) THEN None
                                                           ELSE registered[t]]
  /\ co' = [t \in Task |-> IF t \in Selected(w, r) THEN "selected" ELSE co[t]]
  /\ Goto(w, "wake")
  /\ UNCHANGED <<queueVars, suspend_flag_, cur, pushVars, future_, blockVars,
                 terminated>>

EndPoll(w) ==
  /\ pc[w] = "select"
  /\ todo[w] = {}
  /\ Goto(w, "loop")
  /\ UNCHANGED <<queueVars, suspend_flag_, cur, pushVars, eventVars, co, blockVars,
                 terminated>>

(* One iteration of wake, up to the lock: read the future, unbind it.      *)
Wake(w, t) ==
  /\ pc[w] = "wake"
  /\ t \in events[w]
  /\ events' = [events EXCEPT ![w] = @ \ {t}]
  /\ future_' = [future_ EXCEPT ![t] = FALSE]
  /\ arg' = [arg EXCEPT ![w] = Awaiting(t)]
  /\ Become(t, "pushing")
  /\ Goto(w, "push")
  /\ UNCHANGED <<queueVars, suspend_flag_, cur, wrapper, todo, registered,
                 fired, blockVars, terminated>>

(* Mutant: a suspended thread drops the events it has selected.            *)
EndWakeDropping(w) ==
  /\ pc[w] = "wake"
  /\ events[w] = {} \/ suspend_flag_[w]
  /\ events' = [events EXCEPT ![w] = {}]
  /\ Goto(w, "select")
  /\ UNCHANGED <<queueVars, suspend_flag_, cur, pushVars, todo, registered, fired,
                 future_, co, blockVars, terminated>>

EndWake(w) ==
  /\ pc[w] = "wake"
  /\ events[w] = {}
  /\ Goto(w, "select")
  /\ UNCHANGED <<queueVars, suspend_flag_, cur, pushVars, eventVars, co, blockVars,
                 terminated>>

-----------------------------------------------------------------------------
(* Runtime::block_on and the destructor, on the creator's thread.          *)

BlockOn(t) ==
  /\ pc[Main] = "outside"
  /\ co[t] = "unborn"
  /\ Become(t, "pushing")
  /\ arg' = [arg EXCEPT ![Main] = Started(t)]
  /\ wrapper' = [wrapper EXCEPT ![Main] = t]
  /\ roots' = roots \cup {t}
  /\ awaited' = t
  /\ left' = "inside"
  /\ Goto(Main, "block_on")
  /\ UNCHANGED <<queueVars, suspend_flag_, cur, eventVars, terminated>>

(* Mutant: only the in-place worker is suspended.                          *)
DestroyInPlaceOnly ==
  /\ pc[Main] = "outside"
  /\ suspend_flag_' = [suspend_flag_ EXCEPT ![Main] = TRUE]
  /\ Goto(Main, "join")
  /\ UNCHANGED <<queueVars, cur, pushVars, eventVars, co, blockVars, terminated>>

(* ~RuntimeCore suspends every worker; then ~Worker joins its thread.      *)
Destroy ==
  /\ pc[Main] = "outside"
  /\ suspend_flag_' = [w \in Thread |-> w \in Worker \/ suspend_flag_[w]]
  /\ Goto(Main, "join")
  /\ UNCHANGED <<queueVars, cur, pushVars, eventVars, co, blockVars, terminated>>

(* Mutant: the threads are detached instead of joined.                     *)
JoinDetaching ==
  /\ pc[Main] = "join"
  /\ Goto(Main, "destroyed")
  /\ UNCHANGED <<queueVars, suspend_flag_, cur, pushVars, eventVars, co, blockVars,
                 terminated>>

Join ==
  /\ pc[Main] = "join"
  /\ \A w \in Worker : pc[w] = "exit"
  /\ Goto(Main, "destroyed")
  /\ UNCHANGED <<queueVars, suspend_flag_, cur, pushVars, eventVars, co, blockVars,
                 terminated>>

Stopped ==
  /\ pc[Main] = "destroyed" \/ terminated
  /\ UNCHANGED vars

-----------------------------------------------------------------------------
Body(w) ==
  \/ PollReady(w)
  \/ Pend(w)
  \/ \E t \in Task : Spawn(w, t)
  \/ \E o \in Outcome : Complete(w, o)
  \/ Terminate(w)

Step(w) ==
  \/ Push(w)
  \/ Drop(w)
  \/ LoopTest(w)
  \/ ResumeLocal(w)
  \/ TryLock(w)
  \/ Pop(w)
  \/ EndResume(w)
  \/ Check(w)
  \/ \E r \in Registry : Select(w, r)
  \/ EndPoll(w)
  \/ \E t \in Task : Wake(w, t)
  \/ EndWake(w)

Next ==
  \/ \E w \in Thread : Lock(w) \/ Step(w) \/ Body(w)
  \/ \E t \in Task : Fire(t) \/ BlockOn(t)
  \/ ThrowOut
  \/ Destroy
  \/ Join
  \/ Stopped

Spec == Init /\ [][Next]_vars

(***************************************************************************)
(* Every thread goes on with its loop; a coroutine that runs reaches its   *)
(* next suspension point or its end; a thread that waits for the mutex     *)
(* gets it if it is free again and again (the critical sections are a few  *)
(* instructions long, and the futex wakes a waiter whenever it is          *)
(* released).  The program need not call block_on, spawn or destroy the    *)
(* runtime, and no event has to complete.                                  *)
(***************************************************************************)
Fairness ==
  /\ \A w \in Thread :
       /\ SF_vars(Lock(w))
       /\ WF_vars(Step(w))
       /\ WF_vars(Running(w) /\ Body(w))
  /\ WF_vars(Join)

FairSpec == Spec /\ Fairness

-----------------------------------------------------------------------------
(* Properties.                                                             *)

(* Every variable has its type, and a thread holds a pair to run or to     *)
(* push exactly where the code has one in its hands.                       *)
TypeOK ==
  /\ handles_ \in Seq(Handle)
  /\ handle_mutex_ \in Thread \cup {None}
  /\ suspend_flag_ \in [Thread -> BOOLEAN]
  /\ pc \in [Thread -> Place]
  /\ cur \in [Thread -> Handle \cup {None}]
  /\ arg \in [Thread -> Handle \cup {None}]
  /\ wrapper \in [Thread -> Task \cup {None}]
  /\ todo \in [Thread -> SUBSET Registry]
  /\ events \in [Thread -> SUBSET Task]
  /\ registered \in [Task -> Instance \cup {None}]
  /\ fired \in SUBSET Task
  /\ future_ \in [Task -> BOOLEAN]
  /\ co \in [Task -> Life]
  /\ roots \in SUBSET Task
  /\ awaited \in Task \cup {None}
  /\ left \in {"never", "inside", "returned", "threw"}
  /\ terminated \in BOOLEAN

Holds(w, t) == cur[w] # None /\ cur[w].task = t
Pushes(w, t) == arg[w] # None /\ arg[w].task = t
InQueue(t) == \E i \in DOMAIN handles_ : handles_[i].task = t

(* One wake, one resume: run_loop_once resumes what it finds in the queue  *)
(* without asking whether the coroutine may be resumed.  So a coroutine is *)
(* at most once in the queue, and while it is there nobody runs it, is     *)
(* about to queue it again, or waits for its event; no two threads run it; *)
(* and it has not finished (its frame would be gone).                      *)
ResumeOnce ==
  /\ TypeOK
  /\ \A i, j \in DOMAIN handles_ : handles_[i].task = handles_[j].task => i = j
  /\ \A t \in Task : InQueue(t) =>
       /\ registered[t] = None
       /\ co[t] \notin {"unborn", "done"}
       /\ \A w \in Thread : ~Holds(w, t) /\ ~Pushes(w, t) /\ t \notin events[w]
  /\ \A t \in Task : \A w, v \in Thread :
       Holds(w, t) => /\ ~Pushes(v, t) /\ t \notin events[v]
                      /\ registered[t] = None
                      /\ Holds(v, t) => v = w

(* No coroutine is forgotten: from the moment it is spawned until it ends  *)
(* it is in the queue, in the hands of a thread, or its event is in a      *)
(* registry.  In particular a thread that leaves its loop because of       *)
(* suspend() leaves nothing behind.                                        *)
NoLostCoroutine ==
  \A t \in Task : co[t] \notin {"unborn", "done"} =>
    \/ InQueue(t)
    \/ registered[t] # None
    \/ \E w \in Thread : Holds(w, t) \/ Pushes(w, t) \/ t \in events[w]

(* wake dereferences Event::future_ of every event it is given.            *)
WakeHasFuture == \A w \in Thread : \A t \in events[w] : future_[t]

(* block_on dereferences its result when run_in_place returns: the future  *)
(* it was given must have completed, and not the one of an earlier call.   *)
BlockOnResult == left = "returned" => co[awaited] = "done"

(* Once ~Runtime is over no worker thread runs a coroutine, holds the      *)
(* mutex or is still inside the loop: the members it would use are gone.   *)
DestroyedQuiet ==
  pc[Main] = "destroyed" =>
    \A w \in Worker : pc[w] = "exit" /\ cur[w] = None /\ handle_mutex_ # w

(* The scheduler implements Executor, reading a coroutine's status off the *)
(* queue, the threads and the registries.                                  *)
StatusOf(t) ==
  CASE co[t] \in {"unborn", "done"} -> co[t]
    [] \E w \in Thread : Holds(w, t) -> "running"
    [] registered[t] # None \/ (\E w \in Thread : t \in events[w]) -> "waiting"
    [] OTHER -> "runnable"

Abstract == INSTANCE Executor WITH status <- [t \in Task |-> StatusOf(t)]
ImplementsExecutor == Abstract!Spec

Ending == pc[Main] \in {"join", "destroyed"}

Taken(t) == \E w \in Thread : Holds(w, t)

(* The task's event has completed in the instance of a registry.           *)
FiredIn(t, i) == t \in fired /\ registered[t] = i


(* block_on returns once the future it was given has completed, on         *)
(* whichever thread that happened.                                         *)
BlockOnReturns ==
  \A t \in Task : (awaited = t /\ co[t] = "done") ~> left # "inside"

(* The destructor terminates: every worker thread notices its flag.        *)
DestroyTerminates == pc[Main] = "join" ~> pc[Main] = "destroyed"
=============================================================================
