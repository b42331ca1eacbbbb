------------------------------ MODULE UringNet ------------------------------
(***************************************************************************)
(* TCP sockets on io_uring: the registry (src/io/io_uring/registry.cc) and *)
(* its users (src/net/io_uring/listener.cc and the read and write of       *)
(* include/xyco/net/io_uring/listener.ccm).                                *)
(*                                                                         *)
(* Every thread has a ring and a list of registered events of its own      *)
(* (ThreadLocalRegistry), so Register and select are single steps.  An     *)
(* operation completes on the ring of the thread that polled it first, and *)
(* only this thread takes it off; the future it wakes may then be polled   *)
(* by any thread.  Every object is used by one coroutine at *)
(* a time, as in EpollNet.  No code calls the registry's deregister.       *)
(***************************************************************************)
EXTENDS Naturals, FiniteSets

CONSTANTS
  Thread,
  Socket,      \* TcpSocket, TcpStream and TcpListener objects
  entries,     \* size of the submission queue of a ring
  MaxFailure   \* bound: calls of io_uring_submit that fail

ASSUME UringAssumption == entries \in Nat \ {0} /\ MaxFailure \in Nat

Event == Socket \X {"connect", "io"}
Op == {"none", "connect", "accept", "read", "write", "shutdown"}
Result == {"ok", "error"}  \* sign of cqe->res

VARIABLES
  registered_events_, \* of each thread
  Registered,         \* events with State::Registered
  Completed,          \* events with State::Completed
  return_,            \* IoExtra::return_ with the operation it is the result of
  future_,            \* events whose future_ is not nullptr
  sq, cq,             \* queues of each ring
  inflight,           \* operations of each ring the kernel works on
  failures,
  events,             \* the Events of Driver::poll of each thread
  woken,              \* events whose future is in handles_
  kind, op, pc        \* of each object

ringVars == <<registered_events_, sq, inflight, failures>>
extraVars == <<Registered, Completed, return_, future_>>
netVars == <<kind, op, pc>>
vars == <<ringVars, extraVars, cq, events, woken, netVars>>

Nothing == [op |-> "none", res |-> "ok"]

Init ==
  /\ registered_events_ = [w \in Thread |-> {}]
  /\ Registered = {} /\ Completed = {} /\ future_ = {}
  /\ return_ = [e \in Event |-> Nothing]
  /\ sq = [w \in Thread |-> {}] /\ cq = [w \in Thread |-> {}]
  /\ inflight = [w \in Thread |-> {}]
  /\ failures = 0
  /\ events = [w \in Thread |-> {}] /\ woken = {}
  /\ kind = [o \in Socket |-> "unborn"]
  /\ op = [o \in Socket |-> "none"]
  /\ pc = [o \in Socket |-> "none"]

Current(o) == <<o, IF op[o] = "connect" THEN "connect" ELSE "io">>
Idle(o) == op[o] = "none"

-----------------------------------------------------------------------------
(* The registry.  An entry of a queue is the event and its operation.      *)

(* Mutant: the entry is not submitted.                                     *)
SubmitLater(w, queue) ==
  /\ sq' = [sq EXCEPT ![w] = queue]
  /\ inflight' = [inflight EXCEPT ![w] = @ \cup sq[w]]
  /\ UNCHANGED failures

(* io_uring_submit hands over every entry of the queue; when it fails it   *)
(* stops before the newest one, having handed over none or some of those   *)
(* left by earlier failures.  The newest one is in the queue because there *)
(* was room, or because a first call of io_uring_submit made room for it.  *)
Submit(w, queue) ==
  \/ /\ sq' = [sq EXCEPT ![w] = {}]
     /\ inflight' = [inflight EXCEPT ![w] = @ \cup sq[w] \cup queue]
     /\ UNCHANGED failures
  \/ \E sent \in SUBSET sq[w] :
       /\ failures < MaxFailure /\ failures' = failures + 1
       /\ Cardinality((sq[w] \ sent) \cup queue) <= entries
       /\ sq' = [sq EXCEPT ![w] = (@ \ sent) \cup queue]
       /\ inflight' = [inflight EXCEPT ![w] = @ \cup sent]

(* Register for the operation with its arguments in args_; the future of a *)
(* call that cannot be registered is Pending all the same.                 *)
Register(w, o) ==
  LET e == Current(o) IN
  \/ /\ Submit(w, {[ptr |-> e, op |-> op[o]]})
     /\ registered_events_' = IF e \in Registered THEN registered_events_
                              ELSE [registered_events_ EXCEPT ![w] = @ \cup {e}]
     /\ Registered' = Registered \cup {e}
     /\ pc' = [pc EXCEPT ![o] = "wait"]
  \/ /\ Cardinality(sq[w]) = entries
     /\ failures < MaxFailure /\ failures' = failures + 1
     /\ pc' = [pc EXCEPT ![o] = "stuck"]
     /\ UNCHANGED <<registered_events_, Registered, sq, inflight>>

(* Mutant: the event stays in the list.                                    *)
SelectKeeps(w) ==
  /\ cq[w] # {} /\ events[w] = {}
  /\ return_' = [e \in Event |->
                   IF \E c \in cq[w] : c.ptr = e
                   THEN LET c == CHOOSE d \in cq[w] : d.ptr = e
                        IN  [op |-> c.op, res |-> c.res]
                   ELSE return_[e]]
  /\ events' = [events EXCEPT ![w] = {c.ptr : c \in cq[w]}]
  /\ Completed' = Completed \cup {c.ptr : c \in cq[w]}
  /\ Registered' = Registered \ {c.ptr : c \in cq[w]}
  /\ cq' = [cq EXCEPT ![w] = {}]
  /\ UNCHANGED <<registered_events_, future_, sq, inflight, failures, woken, netVars>>

(* select with completions: each one is looked up in registered_events_    *)
(* without a test that it was found (see the last conjunct of WaitsOnce).  *)
Select(w) ==
  /\ cq[w] # {} /\ events[w] = {}
  /\ return_' = [e \in Event |->
                   IF \E c \in cq[w] : c.ptr = e
                   THEN LET c == CHOOSE d \in cq[w] : d.ptr = e
                        IN  [op |-> c.op, res |-> c.res]
                   ELSE return_[e]]
  /\ events' = [events EXCEPT ![w] = {c.ptr : c \in cq[w]}]
  /\ Completed' = Completed \cup {c.ptr : c \in cq[w]}
  /\ registered_events_' = [registered_events_ EXCEPT ![w] = @ \ {c.ptr : c \in cq[w]}]
  /\ Registered' = Registered \ {c.ptr : c \in cq[w]}
  /\ cq' = [cq EXCEPT ![w] = {}]
  /\ UNCHANGED <<future_, sq, inflight, failures, woken, netVars>>

(* Mutant: the event is not cleared.                                       *)
WakeKeeps(w, e) ==
  /\ e \in events[w] /\ e \in future_
  /\ future_' = future_ \ {e}
  /\ woken' = woken \cup {e}
  /\ UNCHANGED <<ringVars, Registered, Completed, return_, cq, events, netVars>>

(* Mutant: the future is not queued.                                       *)
WakeDrops(w, e) ==
  /\ e \in events[w] /\ e \in future_
  /\ future_' = future_ \ {e}
  /\ events' = [events EXCEPT ![w] = @ \ {e}]
  /\ UNCHANGED <<ringVars, Registered, Completed, return_, cq, woken, netVars>>

(* RuntimeCore::wake.                                                      *)
Wake(w, e) ==
  /\ e \in events[w] /\ e \in future_
  /\ future_' = future_ \ {e}
  /\ events' = [events EXCEPT ![w] = @ \ {e}]
  /\ woken' = woken \cup {e}
  /\ UNCHANGED <<ringVars, Registered, Completed, return_, cq, netVars>>

(* External: the kernel completes an operation.                            *)
Complete(w, q, res) ==
  /\ q \in inflight[w]
  /\ inflight' = [inflight EXCEPT ![w] = @ \ {q}]
  /\ cq' = [cq EXCEPT ![w] = @ \cup {[ptr |-> q.ptr, op |-> q.op, res |-> res]}]
  /\ UNCHANGED <<registered_events_, sq, failures, extraVars, events, woken, netVars>>

-----------------------------------------------------------------------------
(* Calls that do not wait for the registry.                                *)

(* new_v4, new_v6.                                                         *)
NewSocket(o) ==
  /\ kind[o] = "unborn"
  /\ kind' = [kind EXCEPT ![o] = "socket"]
  /\ UNCHANGED <<ringVars, extraVars, cq, events, woken, op, pc>>

(* bind and listen on the blocking pool; a failure changes nothing.        *)
Bind(o) ==
  /\ kind[o] = "socket" /\ Idle(o)
  /\ kind' = [kind EXCEPT ![o] = "bound"]
  /\ UNCHANGED <<ringVars, extraVars, cq, events, woken, op, pc>>

Listen(o) ==
  /\ kind[o] \in {"socket", "bound"} /\ Idle(o)
  /\ kind' = [kind EXCEPT ![o] = "listener"]
  /\ UNCHANGED <<ringVars, extraVars, cq, events, woken, op, pc>>

(* Calls that do.  Their future is polled at once.                         *)
Allowed(o) ==
  CASE kind[o] \in {"socket", "bound"} -> {"connect"}
    [] kind[o] = "listener" -> {"accept"}
    [] kind[o] = "stream" -> {"read", "write", "shutdown"}
    [] OTHER -> {}

Call(o, call) ==
  /\ Idle(o) /\ call \in Allowed(o)
  /\ op' = [op EXCEPT ![o] = call]
  /\ pc' = [pc EXCEPT ![o] = "poll"]
  /\ UNCHANGED <<ringVars, extraVars, cq, events, woken, kind>>

(* The destructors only close the descriptor; the event goes with the      *)
(* object.                                                                 *)
Destroy(o) ==
  /\ kind[o] \notin {"unborn", "gone"} /\ Idle(o)
  /\ kind' = [kind EXCEPT ![o] = "gone"]
  /\ Completed' = Completed \ {<<o, "io">>}
  /\ return_' = [return_ EXCEPT ![<<o, "io">>] = Nothing]
  /\ UNCHANGED <<ringVars, Registered, future_, cq, events, woken, op, pc>>

-----------------------------------------------------------------------------
(* The polls.                                                              *)

Polls(o, call) == pc[o] = "poll" /\ op[o] = call

Submits(w, o) ==
  /\ Current(o) \notin Completed
  /\ future_' = future_ \cup {Current(o)}
  /\ Register(w, o)
  /\ UNCHANGED <<Completed, return_, cq, events, woken, kind, op>>

(* Mutant: Completed stays set.                                            *)
TakesStale(o) ==
  /\ Current(o) \in Completed
  /\ future_' = future_ \ {Current(o)}
  /\ op' = [op EXCEPT ![o] = "none"]
  /\ pc' = [pc EXCEPT ![o] = "none"]
  /\ UNCHANGED <<ringVars, Registered, Completed, return_, cq, events, woken>>

(* The result is taken; the event is unbound when the future ends.         *)
Takes(o) ==
  /\ Current(o) \in Completed
  /\ Completed' = Completed \ {Current(o)}
  /\ future_' = future_ \ {Current(o)}
  /\ op' = [op EXCEPT ![o] = "none"]
  /\ pc' = [pc EXCEPT ![o] = "none"]
  /\ UNCHANGED <<ringVars, Registered, return_, cq, events, woken>>

Succeeded(o) == return_[Current(o)].res = "ok"

(* A successful connect moves the descriptor into a TcpStream.             *)
PollConnect(w, o) ==
  /\ Polls(o, "connect")
  /\ \/ Submits(w, o)
     \/ /\ Takes(o)
        /\ kind' = IF Succeeded(o) THEN [kind EXCEPT ![o] = "stream"] ELSE kind

(* A successful accept makes a TcpStream.                                  *)
PollAccept(w, o) ==
  /\ Polls(o, "accept")
  /\ \/ Submits(w, o)
     \/ /\ Takes(o)
        /\ \/ ~Succeeded(o) /\ UNCHANGED kind
           \/ Succeeded(o) /\ \E n \in Socket : /\ kind[n] = "unborn"
                                                /\ kind' = [kind EXCEPT ![n] = "stream"]

PollRead(w, o) ==
  /\ Polls(o, "read")
  /\ Submits(w, o) \/ (Takes(o) /\ UNCHANGED kind)

PollWrite(w, o) ==
  /\ Polls(o, "write")
  /\ Submits(w, o) \/ (Takes(o) /\ UNCHANGED kind)

PollShutdown(w, o) ==
  /\ Polls(o, "shutdown")
  /\ Submits(w, o) \/ (Takes(o) /\ UNCHANGED kind)

Poll(w, o) ==
  PollConnect(w, o) \/ PollAccept(w, o) \/ PollRead(w, o) \/ PollWrite(w, o)
  \/ PollShutdown(w, o)

(* A worker takes the woken future out of handles_ to poll it.             *)
Resume(o) ==
  /\ pc[o] = "wait" /\ Current(o) \in woken
  /\ woken' = woken \ {Current(o)}
  /\ pc' = [pc EXCEPT ![o] = "poll"]
  /\ UNCHANGED <<ringVars, extraVars, cq, events, kind, op>>

-----------------------------------------------------------------------------
Drive(w) == Select(w) \/ \E e \in events[w] : Wake(w, e)
Advance(o) == Resume(o) \/ \E w \in Thread : Poll(w, o)

Next ==
  \/ \E o \in Socket : NewSocket(o) \/ Bind(o) \/ Listen(o) \/ Destroy(o) \/ Advance(o)
  \/ \E o \in Socket, call \in Op : Call(o, call)
  \/ \E w \in Thread : Drive(w)
  \/ \E w \in Thread : \E q \in inflight[w], res \in Result : Complete(w, q, res)

(* Some thread runs what is in handles_ (QueuedRuns of Runtime).  Nothing  *)
(* makes a given thread select its ring: the creator of the runtime does   *)
(* so only inside block_on, a worker only when it has found the queue      *)
(* empty.                                                                  *)
Fairness == \A o \in Socket : WF_vars(Advance(o))

Spec == Init /\ [][Next]_vars
FairSpec == Spec /\ Fairness

-----------------------------------------------------------------------------
Entry == [ptr : Event, op : Op]

TypeOK ==
  /\ registered_events_ \in [Thread -> SUBSET Event]
  /\ Registered \cup Completed \cup future_ \cup woken \subseteq Event
  /\ return_ \in [Event -> [op : Op, res : Result]]
  /\ sq \in [Thread -> SUBSET Entry] /\ inflight \in [Thread -> SUBSET Entry]
  /\ \A w \in Thread : Cardinality(sq[w]) <= entries
  /\ cq \in [Thread -> SUBSET [ptr : Event, op : Op, res : Result]]
  /\ events \in [Thread -> SUBSET Event]
  /\ failures \in 0..MaxFailure
  /\ kind \in [Socket -> {"unborn", "socket", "bound", "listener", "stream", "gone"}]
  /\ op \in [Socket -> Op]
  /\ pc \in [Socket -> {"none", "poll", "wait", "stuck"}]

On(w, e) ==
  {q \in sq[w] \cup inflight[w] : q.ptr = e} \cup {c \in cq[w] : c.ptr = e}

Places(e) ==
  {<<"events", w>> : w \in {v \in Thread : e \in events[v]}}
  \cup {<<"woken", x>> : x \in woken \cap {e}}
  \cup UNION {{<<w, q>> : q \in On(w, e)} : w \in Thread}

(* No lost and no double completion: the event of a call that waits is in  *)
(* exactly one place between the submission queue and handles_, whichever  *)
(* thread polled it; all other events are nowhere, so that the kernel and  *)
(* select never hold the address of an event that is gone.                 *)
(* The list of a thread holds exactly the events on its own ring, where    *)
(* select dereferences the result of its search.                           *)
WaitsOnce ==
  /\ TypeOK
  /\ \A o \in Socket, e \in Event :
       e[1] = o => Cardinality(Places(e)) = IF pc[o] = "wait" /\ e = Current(o) THEN 1 ELSE 0
  /\ \A w \in Thread, e \in Event : e \in registered_events_[w] <=> On(w, e) # {}

(* The result a call returns is the result of the operation it submitted,  *)
(* not one left over by an earlier call on the same object.                *)
OwnResult ==
  \A o \in Socket :
    pc[o] = "poll" /\ Current(o) \in Completed => return_[Current(o)].op = op[o]

(* A call waits in vain, never handed to the kernel, only after a call of  *)
(* io_uring_submit has failed.                                             *)
StrandedByFailure ==
  (\E o \in Socket : pc[o] = "stuck") \/ (\E w \in Thread : sq[w] # {}) => failures > 0

(* A registered event is handed out once, after its operation completed.   *)
Contract == INSTANCE EventRegistry WITH
  held <- UNION {registered_events_[w] : w \in Thread},
  happened <- UNION {{c.ptr : c \in cq[w]} : w \in Thread},
  reported <- woken \cup UNION {events[w] : w \in Thread}
ImplementsRegistry == Contract!Spec

(* A call whose operation has completed on a ring is answered if the       *)
(* thread of this ring keeps coming to Driver::poll, whatever the other    *)
(* threads do.  Without that the call may wait forever: no other thread    *)
(* selects the ring, for instance the creator's one once block_on has      *)
(* returned.                                                               *)
CompletionAnswered ==
  \A w \in Thread : WF_vars(Drive(w)) =>
    \A o \in Socket : (\E c \in cq[w] : c.ptr = Current(o)) ~> pc[o] # "wait"
=============================================================================
