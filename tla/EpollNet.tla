------------------------------ MODULE EpollNet ------------------------------
(***************************************************************************)
(* TCP sockets on the epoll registry (src/net/epoll/listener.cc and        *)
(* include/xyco/net/epoll/listener.ccm) composed with EpollRegistry.       *)
(*                                                                         *)
(* Every object is used by one coroutine at a time, which calls bind,      *)
(* listen, connect, accept, read, write or shutdown and destroys the       *)
(* object when no call is in progress.  The poll of a future may be run by *)
(* any worker thread: its steps interleave with the select of the others.  *)
(* Calls made on the blocking pool have the effect of their system call.   *)
(***************************************************************************)
EXTENDS EpollRegistry

VARIABLES
  kind,  \* what the object is
  fd,    \* the descriptor it owns
  op,    \* the call in progress
  pc     \* where this call is, see Place

netVars == <<kind, fd, op, pc>>
vars == <<registryVars, netVars>>

Kind == {"unborn", "socket", "bound", "stream", "listener", "gone"}
Op == {"none", "connect", "connected", "accept", "read", "write", "destroy"}
Place == {"none", "poll", "add", "mod", "undo", "wait", "stuck", "del", "close"}

IoEvent(o) == <<o, "io">>
Current(o) == <<o, IF op[o] \in {"connect", "connected"} THEN "connect" ELSE "io">>

Init ==
  /\ RegistryInit
  /\ kind = [o \in Socket |-> "unborn"]
  /\ fd = [o \in Socket |-> None]
  /\ op = [o \in Socket |-> "none"]
  /\ pc = [o \in Socket |-> "none"]

FreeFd == Fd \ {fd[o] : o \in Socket}
Goto(o, p) == pc' = [pc EXCEPT ![o] = p]
Idle(o) == op[o] = "none"

(* A call completes; ~Future of accept, read and write unbinds the event.  *)
Done(o) == op' = [op EXCEPT ![o] = "none"] /\ Goto(o, "none")

-----------------------------------------------------------------------------
(* Calls that do not wait for the registry.                                *)

(* new_v4, new_v6.                                                         *)
NewSocket(o, f) ==
  /\ kind[o] = "unborn" /\ f \in FreeFd
  /\ kind' = [kind EXCEPT ![o] = "socket"]
  /\ fd' = [fd EXCEPT ![o] = f]
  /\ UNCHANGED <<op, pc, registryVars>>

(* A failed bind leaves the socket as it is.                               *)
Bind(o) ==
  /\ kind[o] = "socket" /\ Idle(o)
  /\ kind' = [kind EXCEPT ![o] = "bound"]
  /\ UNCHANGED <<fd, op, pc, registryVars>>

(* The TcpListener takes over the descriptor, with a fresh event.          *)
Listen(o) ==
  /\ kind[o] \in {"socket", "bound"} /\ Idle(o)
  /\ kind' = [kind EXCEPT ![o] = "listener"]
  /\ interest_' = [interest_ EXCEPT ![IoEvent(o)] = "Read"]
  /\ UNCHANGED <<fd, op, pc, registered_events_, state_, future_, kernelVars,
                 selectVars>>

(* connect(2) succeeds at once, or is in progress; when it fails the       *)
(* socket stays as it is.                                                  *)
ConnectAtOnce(o) ==
  /\ kind[o] \in {"socket", "bound"} /\ Idle(o)
  /\ kind' = [kind EXCEPT ![o] = "stream"]
  /\ state_' = [state_ EXCEPT ![IoEvent(o)] = {"Writable"}]
  /\ UNCHANGED <<fd, op, pc, registered_events_, interest_, future_, kernelVars,
                 selectVars>>

Connect(o) ==
  /\ kind[o] \in {"socket", "bound"} /\ Idle(o)
  /\ op' = [op EXCEPT ![o] = "connect"]
  /\ Goto(o, "poll")
  /\ future_' = [future_ EXCEPT ![<<o, "connect">>] = TRUE]
  /\ UNCHANGED <<kind, fd, registered_events_, state_, interest_, kernelVars, selectVars>>

Call(o, c) ==
  /\ Idle(o)
  /\ \/ c = "accept" /\ kind[o] = "listener"
     \/ c \in {"read", "write"} /\ kind[o] = "stream"
  /\ op' = [op EXCEPT ![o] = c]
  /\ Goto(o, "poll")
  /\ UNCHANGED <<kind, fd, registryVars>>

(* shutdown of either direction or both: the kernel reports a hangup.      *)
Shutdown(o) ==
  /\ Idle(o) /\ kind[o] = "stream"
  /\ ready' = [ready EXCEPT ![fd[o]] = @ \cup {"err"}]
  /\ UNCHANGED <<netVars, eventVars, interests, failures, selectVars>>

-----------------------------------------------------------------------------
(* The poll of the futures.                                                *)

(* Register: publish the event, then EPOLL_CTL_ADD.                        *)
RegisterFor(o, interest) ==
  /\ future_' = [future_ EXCEPT ![Current(o)] = TRUE]
  /\ interest_' = [interest_ EXCEPT ![Current(o)] = interest]
  /\ PushBack(Current(o))
  /\ state_' = [state_ EXCEPT ![Current(o)] = @ \cup {"Registered"}]
  /\ Goto(o, "add")
  /\ UNCHANGED <<kind, fd, op, kernelVars, selectVars>>

(* reregister: the same with EPOLL_CTL_MOD.                                *)
ReregisterFor(o, interest) ==
  /\ future_' = [future_ EXCEPT ![Current(o)] = TRUE]
  /\ interest_' = [interest_ EXCEPT ![Current(o)] = interest]
  /\ PushBack(Current(o))
  /\ Goto(o, "mod")
  /\ UNCHANGED <<kind, fd, op, state_, kernelVars, selectVars>>

Unregistered(o) == "Registered" \notin state_[Current(o)]
Has(o, flags) == state_[Current(o)] \cap flags # {}
Polls(o, c) == op[o] = c /\ pc[o] = "poll"

(* Mutant: the event of a completed connect stays registered.              *)
PollConnectKeeps(o) ==
  /\ Polls(o, "connect")
  /\ IF ~Has(o, {"Error", "Writable"}) THEN RegisterFor(o, "Write") ELSE
     /\ op' = [op EXCEPT ![o] = "connected"]
     /\ Goto(o, "del")
     /\ UNCHANGED <<kind, fd, registryVars>>

(* Neither Error nor Writable: wait.  Otherwise deregister the event; with *)
(* SO_ERROR set connect fails, else the stream takes over the descriptor.  *)
PollConnect(o) ==
  /\ Polls(o, "connect")
  /\ IF ~Has(o, {"Error", "Writable"}) THEN RegisterFor(o, "Write") ELSE
     /\ \/ op' = [op EXCEPT ![o] = "connected"]
        \/ "err" \in ready[fd[o]] /\ UNCHANGED op
     /\ CtlDel(fd[o])
     /\ Goto(o, "del")
     /\ UNCHANGED <<kind, fd, eventVars, ready, failures, selectVars>>

(* The listener is readable for good once it was: accept4 is called until  *)
(* it has nothing to give, and then the event is armed again.  n, f: the   *)
(* new stream; more: further connections are waiting.                      *)
PollAccept(o) ==
  /\ Polls(o, "accept")
  /\ IF Unregistered(o) THEN RegisterFor(o, "Read") ELSE
     IF Has(o, {"Error"}) THEN Done(o) /\ UNCHANGED <<kind, fd, registryVars>> ELSE
     IF Has(o, {"Readable"}) THEN
       \/ "in" \notin ready[fd[o]] /\ ReregisterFor(o, interest_[Current(o)])
       \/ Done(o) /\ UNCHANGED <<kind, fd, registryVars>>
       \/ /\ "in" \in ready[fd[o]]
          /\ \E n \in Socket, f \in FreeFd, more \in BOOLEAN :
               /\ kind[n] = "unborn"
               /\ kind' = [kind EXCEPT ![n] = "stream"]
               /\ fd' = [fd EXCEPT ![n] = f]
               /\ ready' = IF more THEN ready ELSE [ready EXCEPT ![fd[o]] = @ \ {"in"}]
          /\ Done(o)
          /\ UNCHANGED <<eventVars, interests, failures, selectVars>>
     ELSE Goto(o, "wait") /\ UNCHANGED <<kind, fd, op, registryVars>>

(* Mutant: a read that would block returns to the queue without arming.    *)
PollReadBare(o) ==
  /\ Polls(o, "read")
  /\ IF Unregistered(o) THEN RegisterFor(o, "Read") ELSE
     Goto(o, "wait") /\ UNCHANGED <<kind, fd, op, registryVars>>

(* A read that gets something, or the end of the stream, clears Readable;  *)
(* one that fails does not; one that would block arms the event again.     *)
PollRead(o) ==
  /\ Polls(o, "read")
  /\ IF Unregistered(o) THEN RegisterFor(o, "Read") ELSE
     IF Has(o, {"Error", "Readable"}) /\ ready[fd[o]] \cap {"in", "err"} # {} THEN
       /\ \/ /\ state_' = [state_ EXCEPT ![IoEvent(o)] = @ \ {"Readable"}]
             /\ \E more \in BOOLEAN :
                  ready' = IF more THEN ready ELSE [ready EXCEPT ![fd[o]] = @ \ {"in"}]
          \/ "err" \in ready[fd[o]] /\ UNCHANGED <<state_, ready>>
       /\ Done(o)
       /\ UNCHANGED <<kind, fd, registered_events_, interest_, future_, interests,
                      failures, selectVars>>
     ELSE ReregisterFor(o, "Read")

(* A stream that was writable is written without asking the kernel again:  *)
(* the result, EAGAIN included, goes to the caller.                        *)
PollWrite(o) ==
  /\ Polls(o, "write")
  /\ IF Unregistered(o) THEN RegisterFor(o, "Write") ELSE
     IF Has(o, {"Error", "Writable"}) THEN
       /\ \E more \in BOOLEAN :
            ready' = IF more THEN ready ELSE [ready EXCEPT ![fd[o]] = @ \ {"out"}]
       /\ Done(o)
       /\ UNCHANGED <<kind, fd, eventVars, interests, failures, selectVars>>
     ELSE ReregisterFor(o, "Write")

(* epoll_ctl of Register ("add") or reregister ("mod").  The future may be *)
(* woken by another thread as soon as it succeeds.                         *)
EpollCtl(o) ==
  /\ pc[o] \in {"add", "mod"}
  /\ \/ CtlSucceeds(pc[o], Current(o), fd[o]) /\ Goto(o, "wait")
     \/ CtlFails(pc[o], fd[o]) /\ Goto(o, "undo")
  /\ UNCHANGED <<kind, fd, op, eventVars, ready, selectVars>>

(* Mutant: the event stays in the vector.                                  *)
UndoNothing(o) ==
  /\ pc[o] = "undo"
  /\ Goto(o, "stuck")
  /\ UNCHANGED <<kind, fd, op, registryVars>>

(* The error of epoll_ctl is dropped by Driver: the call stays pending.    *)
Undo(o) ==
  /\ pc[o] = "undo"
  /\ Erase(Current(o))
  /\ Goto(o, "stuck")
  /\ UNCHANGED <<kind, fd, op, state_, interest_, future_, kernelVars, selectVars>>

(* A worker takes the woken future from handles_ and polls it.             *)
Resume(o) ==
  /\ pc[o] = "wait" /\ Current(o) \in woken
  /\ woken' = woken \ {Current(o)}
  /\ Goto(o, "poll")
  /\ UNCHANGED <<kind, fd, op, eventVars, kernelVars, select_mutex_, epoll_events,
                 events>>

-----------------------------------------------------------------------------
(* The end of deregister, and destruction.                                 *)

(* What follows: the outcome of connect, whose event goes with its future, *)
(* or the destruction of the object.                                       *)
Deregistered(o) ==
  /\ pc[o] = "del"
  /\ IF op[o] = "destroy" THEN Goto(o, "close") /\ UNCHANGED <<kind, op>> ELSE
     /\ Done(o)
     /\ kind' = IF op[o] = "connected" THEN [kind EXCEPT ![o] = "stream"] ELSE kind
  /\ Forget(Current(o))
  /\ state_' = [e \in Event |->
       IF e = Current(o)
       THEN IF op[o] = "destroy" THEN state_[e] \ {"Registered"} ELSE {} ELSE
       IF e = IoEvent(o) /\ op[o] = "connected"
       THEN state_[Current(o)] \cap {"Writable", "Readable"} ELSE state_[e]]
  /\ UNCHANGED <<fd, interest_, future_, kernelVars, selectVars>>

(* ~TcpStream and ~TcpListener deregister an event that is registered,     *)
(* then the member socket_ closes the descriptor.                          *)
Destroy(o) ==
  /\ kind[o] \in {"socket", "bound", "stream", "listener"} /\ Idle(o)
  /\ op' = [op EXCEPT ![o] = "destroy"]
  /\ IF "Registered" \in state_[IoEvent(o)]
     THEN CtlDel(fd[o]) /\ Goto(o, "del")
     ELSE UNCHANGED interests /\ Goto(o, "close")
  /\ UNCHANGED <<kind, fd, eventVars, ready, failures, selectVars>>

(* close(2) also removes the descriptor from the interest list.  The event *)
(* goes with the object.                                                   *)
Close(o) ==
  /\ pc[o] = "close"
  /\ kind' = [kind EXCEPT ![o] = "gone"]
  /\ fd' = [fd EXCEPT ![o] = None]
  /\ interests' = [interests EXCEPT ![fd[o]] = Absent]
  /\ ready' = [ready EXCEPT ![fd[o]] = {}]
  /\ state_' = [state_ EXCEPT ![IoEvent(o)] = {}]
  /\ interest_' = [interest_ EXCEPT ![IoEvent(o)] = "All"]
  /\ Done(o)
  /\ UNCHANGED <<registered_events_, future_, failures, selectVars>>

-----------------------------------------------------------------------------
(* The other end of the connections.                                       *)

Arrive(o, bit) ==
  /\ \/ kind[o] = "stream"
     \/ kind[o] = "listener" /\ bit # "out"
     \/ op[o] = "connect" /\ bit # "in"
  /\ ready' = [ready EXCEPT ![fd[o]] = @ \cup {bit}]
  /\ UNCHANGED <<netVars, eventVars, interests, failures, selectVars>>

(* A connection is reset before it is accepted.                            *)
Abort(o) ==
  /\ kind[o] = "listener"
  /\ ready' = [ready EXCEPT ![fd[o]] = @ \ {"in"}]
  /\ UNCHANGED <<netVars, eventVars, interests, failures, selectVars>>

User(o) ==
  \/ \E f \in Fd : NewSocket(o, f)
  \/ Bind(o) \/ Listen(o) \/ ConnectAtOnce(o) \/ Connect(o) \/ Shutdown(o) \/ Destroy(o)
  \/ \E c \in Op : Call(o, c)

Step(o) ==
  \/ PollConnect(o) \/ PollAccept(o) \/ PollRead(o) \/ PollWrite(o)
  \/ EpollCtl(o) \/ Undo(o) \/ Resume(o) \/ Deregistered(o) \/ Close(o)

Select(w) ==
  /\ \/ \E R \in SUBSET Fd : EpollWait(w, R)
     \/ \E r \in epoll_events : Collect(w, r)
     \/ \E e \in events[w] : Wake(w, e)
  /\ UNCHANGED netVars

Next ==
  \/ \E o \in Socket : User(o) \/ Step(o) \/ Abort(o) \/ \E bit \in Bit : Arrive(o, bit)
  \/ \E w \in Thread : Select(w)

(* The worker threads run their loop and the queued futures (Runtime); the *)
(* kernel reports ready descriptors in turn.                               *)
Fairness ==
  /\ \A o \in Socket : WF_vars(Step(o))
  /\ \A w \in Thread : WF_vars((events[w] # {} \/ select_mutex_ = w) /\ Select(w))
  /\ \A f \in Fd : SF_vars(/\ \E w \in Thread, R \in SUBSET Fd : f \in R /\ EpollWait(w, R)
                           /\ UNCHANGED netVars)

Spec == Init /\ [][Next]_vars
FairSpec == Spec /\ Fairness

-----------------------------------------------------------------------------
(* Properties.                                                             *)

TypeOK ==
  /\ RegistryTypeOK
  /\ kind \in [Socket -> Kind]
  /\ fd \in [Socket -> Fd \cup {None}]
  /\ op \in [Socket -> Op]
  /\ pc \in [Socket -> Place]

(* Where a report for the event can come from.                             *)
Armed(e) == {<<"kernel", f>> : f \in {g \in Fd : interests[g].ptr = e /\ interests[g].mask # {}}}
Taken(e) == {<<"array", r.bits>> : r \in {q \in epoll_events : q.ptr = e}}
Reported(e) == {<<"events", w>> : w \in {v \in Thread : e \in events[v]}}
               \cup {<<"woken", x>> : x \in woken \cap {e}}
Reporting(e) == Armed(e) \cup Taken(e) \cup Reported(e)

(* No lost and no double wakeup: a call that waits has its event in        *)
(* exactly one place on the way from the kernel to the queue of the        *)
(* scheduler, and an object that does not wait has none anywhere.          *)
WaitsOnce ==
  /\ TypeOK
  /\ \A o \in Socket, e \in Event :
       e[1] = o => Cardinality(Reporting(e)) = IF pc[o] = "wait" /\ e = Current(o) THEN 1 ELSE 0

(* registered_events_ keeps no event alive that nobody waits for, and none *)
(* twice, also after failures of epoll_ctl; and it has every event of      *)
(* which a report is on its way (select dereferences the result of its     *)
(* search), whichever thread is between the halves of a registration.      *)
ListExact ==
  \A o \in Socket, e \in Event :
    e[1] = o =>
      registered_events_[e] =
        IF /\ e = Current(o)
           /\ \/ pc[o] \in {"add", "mod", "undo"}
              \/ pc[o] = "wait" /\ Armed(e) \cup Taken(e) # {}
        THEN 1 ELSE 0

(* An entry of the kernel's interest list is for the object that owns the  *)
(* descriptor, and for the event of what that object is now: the pointer   *)
(* it holds is valid although descriptors are used again.                  *)
OwnDescriptor ==
  \A f \in Fd : interests[f] # Absent =>
    \E o \in Socket :
      /\ fd[o] = f
      /\ interests[f].ptr = <<o, IF kind[o] \in {"stream", "listener"} THEN "io" ELSE "connect">>

(* No call waits forever while its descriptor has what it waits for, or    *)
(* its event has left the kernel.                                          *)
ReadyAnswered ==
  \A o \in Socket :
    []<>~(/\ pc[o] = "wait"
          /\ \/ ready[fd[o]] \cap to_sys(interest_[Current(o)]) # {}
             \/ Taken(Current(o)) \cup Reported(Current(o)) # {})

(* The registry hands out every registered event once, after epoll_wait    *)
(* reported it.                                                            *)
Contract == INSTANCE EventRegistry WITH
  held <- {e \in Event : registered_events_[e] > 0},
  happened <- {r.ptr : r \in epoll_events},
  reported <- woken \cup UNION {events[w] : w \in Thread}
ImplementsRegistry == Contract!Spec
=============================================================================
