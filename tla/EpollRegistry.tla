--------------------------- MODULE EpollRegistry ----------------------------
(***************************************************************************)
(* The registry of socket events on epoll (src/io/epoll/registry.cc).      *)
(*                                                                         *)
(* The registry is shared by all threads.  Register, reregister and        *)
(* deregister are called from the poll of a future and from destructors    *)
(* (module EpollNet), select from the loop of every worker thread.  The    *)
(* list registered_events_ and the interest list of the kernel are two     *)
(* pieces of state that no lock covers together: every epoll_ctl,          *)
(* epoll_wait and critical section of events_mutex_ is a step of its own.  *)
(***************************************************************************)
EXTENDS Naturals, FiniteSets

CONSTANTS
  Thread,      \* the worker threads
  Socket,      \* objects that own a descriptor: TcpSocket, TcpStream, TcpListener
  Fd,          \* descriptor numbers; a closed one is used again
  MAX_EVENTS,  \* room in the array given to epoll_wait
  MaxFailure,  \* bound: epoll_ctl calls that fail for want of kernel memory
  None         \* nullptr, -1

ASSUME EpollAssumption ==
  /\ MAX_EVENTS \in Nat \ {0}
  /\ MaxFailure \in Nat
  /\ None \notin Thread \cup Fd

(* A connect has an event of its own, apart from that of the TcpStream or  *)
(* TcpListener which takes over the descriptor.                            *)
Event == Socket \X {"connect", "io"}

VARIABLES
  registered_events_,  \* how many times the vector contains the event
  state_,              \* IoExtra::state_ of the event
  interest_,           \* IoExtra::interest_ of the event
  future_,             \* Event::future_ is not nullptr
  interests,           \* interest list of epfd_: event pointer and mask by descriptor
  ready,               \* what the kernel has to report about the descriptor
  failures,            \* number of epoll_ctl calls that failed for want of memory
  select_mutex_,       \* the thread inside select
  epoll_events,        \* filled by epoll_wait, not yet processed by select
  events,              \* the Events of Driver::poll of the thread
  woken                \* events whose future has been put into handles_

eventVars == <<registered_events_, state_, interest_, future_>>
kernelVars == <<interests, ready, failures>>
selectVars == <<select_mutex_, epoll_events, events, woken>>
registryVars == <<eventVars, kernelVars, selectVars>>

Flag == {"Registered", "Pending", "Readable", "Writable", "Error"}
Bit == {"in", "out", "err"}  \* "err": EPOLLERR, EPOLLHUP or EPOLLRDHUP
Absent == [ptr |-> None, mask |-> {}]

RegistryInit ==
  /\ registered_events_ = [e \in Event |-> 0]
  /\ state_ = [e \in Event |-> {}]
  /\ interest_ = [e \in Event |-> IF e[2] = "connect" THEN "Write" ELSE "All"]
  /\ future_ = [e \in Event |-> FALSE]
  /\ interests = [f \in Fd |-> Absent]
  /\ ready = [f \in Fd |-> {}]
  /\ failures = 0
  /\ select_mutex_ = None
  /\ epoll_events = {}
  /\ events = [w \in Thread |-> {}]
  /\ woken = {}

-----------------------------------------------------------------------------
(* Conversions.  A descriptor is registered for one report (EPOLLONESHOT). *)

to_sys(interest) ==
  CASE interest = "Read" -> {"in", "err"}
    [] interest = "Write" -> {"out", "err"}
    [] interest = "All" -> {"in", "out", "err"}

to_state(bits) ==
  {"Registered"} \cup
  IF "err" \in bits THEN {"Error"}
  ELSE (IF "in" \in bits THEN {"Readable"} ELSE {})
       \cup (IF "out" \in bits THEN {"Writable"} ELSE {})
       \cup (IF bits \cap {"in", "out"} = {} THEN {"Pending"} ELSE {})

-----------------------------------------------------------------------------
(* Register and reregister put the event into the vector, then call        *)
(* epoll_ctl, and take the event out again if that fails.                  *)

PushBack(e) == registered_events_' = [registered_events_ EXCEPT ![e] = @ + 1]
Erase(e) == registered_events_' = [registered_events_ EXCEPT ![e] = @ - 1]

Arm(e, f) ==
  interests' = [interests EXCEPT ![f] = [ptr |-> e, mask |-> to_sys(interest_[e])]]

(* EEXIST, ENOENT.                                                         *)
CtlRefused(call, f) == (call = "add") = (interests[f] # Absent)

CtlSucceeds(call, e, f) ==
  /\ ~CtlRefused(call, f)
  /\ Arm(e, f)
  /\ UNCHANGED failures

CtlFails(call, f) ==
  /\ \/ CtlRefused(call, f) /\ UNCHANGED failures
     \/ failures < MaxFailure /\ failures' = failures + 1
  /\ UNCHANGED interests

(* deregister: EPOLL_CTL_DEL, then the critical section.                   *)
CtlDel(f) == interests' = [interests EXCEPT ![f] = Absent]

Forget(e) ==
  IF registered_events_[e] > 0 THEN Erase(e) ELSE UNCHANGED registered_events_

-----------------------------------------------------------------------------
(* select, and the wake that Driver::poll calls with its result.           *)

Reports(f) == ready[f] \cap interests[f].mask
Reportable == {f \in Fd : Reports(f) # {}}

(* As many ready descriptors as there is room for; they are disarmed.      *)
EpollWait(w, R) ==
  /\ select_mutex_ = None /\ events[w] = {}
  /\ R # {} /\ R \subseteq Reportable
  /\ Cardinality(R) <= MAX_EVENTS
  /\ R = Reportable \/ Cardinality(R) = MAX_EVENTS
  /\ select_mutex_' = w
  /\ epoll_events' = {[ptr |-> interests[f].ptr, bits |-> Reports(f)] : f \in R}
  /\ interests' = [f \in Fd |-> IF f \in R THEN [interests[f] EXCEPT !.mask = {}]
                                           ELSE interests[f]]
  /\ UNCHANGED <<eventVars, ready, failures, events, woken>>

(* Mutant: the event stays in the vector when it has been handed out.      *)
CollectKeeps(w, r) ==
  /\ select_mutex_ = w /\ r \in epoll_events
  /\ registered_events_[r.ptr] > 0
  /\ state_' = [state_ EXCEPT ![r.ptr] = to_state(r.bits)]
  /\ events' = [events EXCEPT ![w] = @ \cup {r.ptr}]
  /\ epoll_events' = epoll_events \ {r}
  /\ select_mutex_' = IF epoll_events = {r} THEN None ELSE w
  /\ UNCHANGED <<registered_events_, interest_, future_, kernelVars, woken>>

(* One iteration of the loop under events_mutex_.  The event is looked up  *)
(* in registered_events_ without a test that it was found (ListExact of    *)
(* EpollNet says that it is there).                                        *)
Collect(w, r) ==
  /\ select_mutex_ = w /\ r \in epoll_events
  /\ registered_events_[r.ptr] > 0
  /\ state_' = [state_ EXCEPT ![r.ptr] = to_state(r.bits)]
  /\ events' = [events EXCEPT ![w] = @ \cup {r.ptr}]
  /\ Erase(r.ptr)
  /\ epoll_events' = epoll_events \ {r}
  /\ select_mutex_' = IF epoll_events = {r} THEN None ELSE w
  /\ UNCHANGED <<interest_, future_, kernelVars, woken>>

(* RuntimeCore::wake takes the future off the event and queues it.         *)
Wake(w, e) ==
  /\ select_mutex_ # w /\ e \in events[w]
  /\ future_[e]
  /\ future_' = [future_ EXCEPT ![e] = FALSE]
  /\ events' = [events EXCEPT ![w] = @ \ {e}]
  /\ woken' = woken \cup {e}
  /\ UNCHANGED <<registered_events_, state_, interest_, kernelVars, select_mutex_,
                 epoll_events>>

RegistryTypeOK ==
  /\ registered_events_ \in [Event -> 0..2]
  /\ state_ \in [Event -> SUBSET Flag]
  /\ interest_ \in [Event -> {"Read", "Write", "All"}]
  /\ future_ \in [Event -> BOOLEAN]
  /\ interests \in [Fd -> [ptr : Event \cup {None}, mask : SUBSET Bit]]
  /\ ready \in [Fd -> SUBSET Bit]
  /\ failures \in 0..MaxFailure
  /\ select_mutex_ \in Thread \cup {None}
  /\ epoll_events \subseteq [ptr : Event, bits : SUBSET Bit]
  /\ events \in [Thread -> SUBSET Event]
  /\ woken \subseteq Event
=============================================================================
