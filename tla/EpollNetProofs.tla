--------------------------- MODULE EpollNetProofs ---------------------------
(***************************************************************************)
(* Proofs about EpollNet, for any sets of threads, objects and             *)
(* descriptors, any number of failing epoll_ctl calls and any size of the  *)
(* array given to epoll_wait.                                              *)
(***************************************************************************)
EXTENDS EpollNet, FiniteSetTheorems, TLAPS

(* Most leaves are first-order reasoning without arithmetic.               *)
USE ZenonT(30)

(* The places of an event on its way to the queue of the scheduler.        *)
ArmedAt(f, e) == interests[f].ptr = e /\ interests[f].mask # {}
InKernel(e) == \E f \in Fd : ArmedAt(f, e)
InArray(e) == \E r \in epoll_events : r.ptr = e
InEvents(e) == \E w \in Thread : e \in events[w]

Waits(e) == pc[e[1]] = "wait" /\ e = Current(e[1])
Registers(e) == pc[e[1]] \in {"add", "mod", "undo"} /\ e = Current(e[1])

Waiting == {"poll", "add", "undo", "wait", "stuck"}

(* What an object is while a call is in progress, and where the call is.   *)
StageInv ==
  \A o \in Socket :
    /\ op[o] = "none" <=> pc[o] = "none"
    /\ op[o] = "connect" => kind[o] \in {"socket", "bound"} /\ pc[o] \in Waiting \cup {"del"}
    /\ op[o] = "connected" => kind[o] \in {"socket", "bound"} /\ pc[o] = "del"
    /\ op[o] = "accept" => kind[o] = "listener" /\ pc[o] \in Waiting \cup {"mod"}
    /\ op[o] \in {"read", "write"} => kind[o] = "stream" /\ pc[o] \in Waiting \cup {"mod"}
    /\ op[o] = "destroy" => kind[o] \notin {"unborn", "gone"} /\ pc[o] \in {"del", "close"}

(* A live object owns a descriptor, and no other object owns it.           *)
FdInv ==
  /\ \A o \in Socket : fd[o] \in Fd <=> kind[o] \notin {"unborn", "gone"}
  /\ \A o, n \in Socket : fd[o] \in Fd /\ fd[o] = fd[n] => o = n

(* The event of a connect has left the interest list when the object turns *)
(* into a stream or a listener.                                            *)
AbsentInv ==
  \A o \in Socket :
    /\ fd[o] \in Fd
    /\ pc[o] = "del" \/ (kind[o] \in {"socket", "bound"} /\ op[o] # "connect")
    => interests[fd[o]] = Absent

(* epoll_events belongs to the thread inside select.                       *)
MutexInv == select_mutex_ = None <=> epoll_events = {}

(* A call waits exactly when its event is on its way, ...                  *)
HolderOK(e) == Waits(e) <=> InKernel(e) \/ InArray(e) \/ InEvents(e) \/ e \in woken

(* ... in one place only.                                                  *)
AloneOK(e) ==
  /\ InKernel(e) => ~InArray(e) /\ ~InEvents(e) /\ e \notin woken
  /\ InArray(e) => ~InEvents(e) /\ e \notin woken
  /\ InEvents(e) => e \notin woken
  /\ \A v, w \in Thread : e \in events[v] /\ e \in events[w] => v = w
  /\ \A q, r \in epoll_events : q.ptr = e /\ r.ptr = e => q = r

(* The vector has the events that are being registered, are with the       *)
(* kernel or wait in the array for select to find them.                    *)
ListOK(e) ==
  registered_events_[e] = IF Registers(e) \/ InKernel(e) \/ InArray(e) THEN 1 ELSE 0

WayOK(e) == HolderOK(e) /\ AloneOK(e) /\ ListOK(e)

(* A listener is armed for reading only, so a report leaves it readable or *)
(* failed: accept never finds it in a state where it waits unarmed.        *)
AcceptOK(o) ==
  LET e == IoEvent(o) IN
  /\ kind[o] \in {"unborn", "socket", "bound"} => "Registered" \notin state_[e]
  /\ kind[o] = "listener" =>
       /\ interest_[e] = "Read"
       /\ \A f \in Fd : ArmedAt(f, e) => interests[f].mask \subseteq {"in", "err"}
       /\ \A r \in epoll_events : r.ptr = e => r.bits # {} /\ r.bits \subseteq {"in", "err"}
       /\ \/ "Registered" \notin state_[e]
          \/ state_[e] \cap {"Error", "Readable"} # {}
          \/ pc[o] \notin {"none", "poll"} /\ ~InEvents(e) /\ e \notin woken
AcceptInv == \A o \in Socket : AcceptOK(o)

Structure == TypeOK /\ StageInv /\ FdInv /\ OwnDescriptor /\ AbsentInv
OnWay == MutexInv /\ \A e \in Event : WayOK(e)
IInv == Structure /\ OnWay /\ AcceptInv

-----------------------------------------------------------------------------
(* Every object has two events, the one of connect and the one of its IO   *)
(* operations; which of them a future uses follows from the operation.     *)
LEMMA EventFacts ==
  /\ \A e \in Event : /\ e = <<e[1], e[2]>> /\ e[1] \in Socket
                      /\ e[2] \in {"connect", "io"}
  /\ \A o \in Socket : /\ IoEvent(o) \in Event /\ IoEvent(o)[1] = o
                       /\ Current(o) \in Event /\ Current(o)[1] = o
                       /\ op[o] \in {"connect", "connected"} => Current(o) = <<o, "connect">>
                       /\ op[o] \notin {"connect", "connected"} => Current(o) = IoEvent(o)
BY SMT DEF Event, IoEvent, Current

(* What is armed belongs to the object that owns the descriptor, which     *)
(* waits.                                                                  *)
LEMMA ArmedFacts ==
  ASSUME IInv, NEW f \in Fd, interests[f].mask # {}
  PROVE  \E o \in Socket : /\ fd[o] = f /\ pc[o] = "wait"
                           /\ interests[f].ptr = Current(o)
                           /\ ArmedAt(f, Current(o))
<1>1. interests[f] # Absent BY SMT DEF Absent
<1>2. PICK o \in Socket :
        /\ fd[o] = f
        /\ interests[f].ptr = <<o, IF kind[o] \in {"stream", "listener"} THEN "io" ELSE "connect">>
  BY <1>1 DEF IInv, Structure, OwnDescriptor
<1>3. PICK e \in Event : e = interests[f].ptr /\ e[1] = o BY <1>2, SMT DEF Event
<1>4. InKernel(e) BY <1>3 DEF InKernel, ArmedAt
<1>5. Waits(e) BY <1>4 DEF IInv, OnWay, WayOK, HolderOK
<1> QED BY <1>2, <1>3, <1>5 DEF Waits, ArmedAt

(* Nothing is armed on the descriptor of an object that does not wait.     *)
LEMMA UnarmedFacts ==
  ASSUME IInv, NEW o \in Socket, fd[o] \in Fd, pc[o] # "wait"
  PROVE  /\ interests[fd[o]].mask = {}
         /\ \A e \in Event : ~ArmedAt(fd[o], e)
<1>1. interests[fd[o]].mask = {}
  <2>1. SUFFICES ASSUME interests[fd[o]].mask # {} PROVE FALSE OBVIOUS
  <2>2. PICK n \in Socket : fd[n] = fd[o] /\ pc[n] = "wait" BY <2>1, ArmedFacts
  <2> QED BY <2>2 DEF IInv, Structure, FdInv
<1> QED BY <1>1 DEF ArmedAt

(* An event that does not wait is nowhere.                                 *)
LEMMA NowhereFacts ==
  ASSUME IInv, NEW o \in Socket, pc[o] # "wait", NEW e \in Event, e[1] = o
  PROVE  /\ ~InKernel(e) /\ ~InArray(e) /\ ~InEvents(e) /\ e \notin woken
         /\ ~Registers(e) => registered_events_[e] = 0
         /\ Registers(e) => registered_events_[e] = 1
<1>1. ~Waits(e) BY DEF Waits
<1> QED BY <1>1 DEF IInv, OnWay, WayOK, HolderOK, ListOK

(* A step that neither arms an event nor creates or turns an object.       *)
NeedsAbsent(o) == pc[o] = "del" \/ (kind[o] \in {"socket", "bound"} /\ op[o] # "connect")
(* The structure of sockets and descriptors stays, whatever such a step    *)
(* does to the interest list, as long as it keeps the pointers in it.      *)
LEMMA SameStructure ==
  ASSUME IInv, TypeOK', StageInv', UNCHANGED <<kind, fd>>,
         \A f \in Fd : \/ interests'[f] = interests[f] \/ interests'[f] = Absent
                       \/ interests[f] # Absent /\ interests'[f].ptr = interests[f].ptr,
         \A o \in Socket : /\ fd[o] \in Fd
                           /\ NeedsAbsent(o)'
                           => NeedsAbsent(o) \/ interests'[fd[o]] = Absent
  PROVE  Structure'
<1>1. FdInv' BY DEF IInv, Structure, FdInv
<1>2. OwnDescriptor'
  <2> SUFFICES ASSUME NEW f \in Fd, interests'[f] # Absent
               PROVE  \E o \in Socket :
                        /\ fd'[o] = f
                        /\ interests'[f].ptr =
                             <<o, IF kind'[o] \in {"stream", "listener"} THEN "io" ELSE "connect">>
    BY DEF OwnDescriptor, Absent
  <2>1. interests[f] # Absent /\ interests'[f].ptr = interests[f].ptr OBVIOUS
  <2> QED BY <2>1, SMT DEF IInv, Structure, OwnDescriptor
<1>3. AbsentInv' BY DEF IInv, Structure, AbsentInv, NeedsAbsent
<1> QED BY <1>1, <1>2, <1>3 DEF Structure

(* A step that does not move the event.                                    *)
LEMMA SameWay ==
  ASSUME IInv, NEW e \in Event, Waits(e)' <=> Waits(e), Registers(e)' <=> Registers(e),
         registered_events_'[e] = registered_events_[e],
         \A f \in Fd : ArmedAt(f, e)' <=> ArmedAt(f, e),
         \A r : r.ptr = e => (r \in epoll_events' <=> r \in epoll_events),
         \A w \in Thread : e \in events'[w] <=> e \in events[w],
         e \in woken' <=> e \in woken
  PROVE  WayOK(e)'
<1>1. WayOK(e) BY DEF IInv, OnWay
<1>2. /\ InKernel(e)' <=> InKernel(e)
      /\ InArray(e)' <=> InArray(e)
      /\ InEvents(e)' <=> InEvents(e)
  BY DEF InKernel, InArray, InEvents
<1>3. HolderOK(e)' BY <1>1, <1>2 DEF WayOK, HolderOK
<1>4. AloneOK(e)' BY <1>1, <1>2 DEF WayOK, AloneOK
<1>5. ListOK(e)' BY <1>1, <1>2 DEF WayOK, ListOK
<1> QED BY <1>3, <1>4, <1>5 DEF WayOK

(* A step that moves no event.                                             *)
LEMMA SameOnWay ==
  ASSUME IInv, UNCHANGED <<select_mutex_, epoll_events, events, woken, registered_events_>>,
         \A f \in Fd, e \in Event : ArmedAt(f, e)' <=> ArmedAt(f, e),
         \A e \in Event : (Waits(e)' <=> Waits(e)) /\ (Registers(e)' <=> Registers(e))
  PROVE  OnWay'
<1>1. MutexInv' BY DEF IInv, OnWay, MutexInv
<1>2. \A e \in Event : WayOK(e)' BY SameWay
<1> QED BY <1>1, <1>2 DEF OnWay

(* A step that does not concern a listener.                                *)
LEMMA SameAccept ==
  ASSUME IInv, NEW o \in Socket, NEW e, e = IoEvent(o),
         kind'[o] = kind[o], state_'[e] = state_[e], interest_'[e] = interest_[e],
         \A f \in Fd : ArmedAt(f, e)' => interests'[f] = interests[f],
         \A r \in epoll_events' : r.ptr = e => r \in epoll_events,
         InEvents(e)' \/ e \in woken' => InEvents(e) \/ e \in woken,
         pc'[o] \in {"none", "poll"} =>
           pc[o] \in {"none", "poll"} \/ InEvents(e) \/ e \in woken
  PROVE  AcceptOK(o)'
<1>1. AcceptOK(o) BY DEF IInv, AcceptInv
<1>2. \A f \in Fd : ArmedAt(f, e)' => ArmedAt(f, e) BY DEF ArmedAt
<1> QED BY <1>1, <1>2 DEF AcceptOK, IoEvent

(* A call begins or returns, or the kernel has something new to report.    *)
LEMMA QuietStep ==
  ASSUME IInv, TypeOK', StageInv', NEW o \in Socket,
         UNCHANGED <<kind, fd, interest_, interests, registered_events_, selectVars>>,
         \A n \in Socket : n # o => /\ op'[n] = op[n] /\ pc'[n] = pc[n]
                                    /\ state_'[IoEvent(n)] = state_[IoEvent(n)],
         (op'[o] = op[o] /\ pc'[o] = pc[o]) \/ {pc[o], pc'[o]} \subseteq {"none", "poll"},
         op[o] = "connect" => op'[o] = "connect",
         state_'[IoEvent(o)] = state_[IoEvent(o)] \/ kind[o] = "stream"
  PROVE  IInv'
<1>1. Structure'
  <2>1. \A n \in Socket : NeedsAbsent(n)' => NeedsAbsent(n) BY DEF NeedsAbsent
  <2> QED BY <2>1, SameStructure
<1>2. OnWay'
  <2>1. \A f \in Fd, e \in Event : ArmedAt(f, e)' <=> ArmedAt(f, e) BY DEF ArmedAt
  <2>2. \A e \in Event : (Waits(e)' <=> Waits(e)) /\ (Registers(e)' <=> Registers(e))
    BY EventFacts, SMT DEF Waits, Registers, Current
  <2> QED BY <2>1, <2>2, SameOnWay DEF selectVars
<1>3. AcceptInv'
  <2> SUFFICES ASSUME NEW n \in Socket PROVE AcceptOK(n)' BY DEF AcceptInv
  <2>1. PICK e \in Event : e = IoEvent(n) BY EventFacts
  <2>2. CASE state_'[e] = state_[e]
    <3>1. \A f \in Fd : ArmedAt(f, e)' => interests'[f] = interests[f] OBVIOUS
    <3>2. InEvents(e)' \/ e \in woken' => InEvents(e) \/ e \in woken
      BY DEF InEvents, selectVars
    <3>3. UNCHANGED epoll_events BY DEF selectVars
    <3> QED BY <2>1, <2>2, <3>1, <3>2, <3>3, SameAccept
  <2>3. CASE kind[n] = "stream" BY <2>3 DEF AcceptOK
  <2> QED BY <2>1, <2>2, <2>3
<1> QED BY <1>1, <1>2, <1>3 DEF IInv

(* Beginnings of calls.                                                    *)
LEMMA CallIInv ==
  ASSUME IInv, NEW o \in Socket, Connect(o) \/ \E c \in Op : Call(o, c) PROVE IInv'
<1>t. TypeOK /\ StageInv BY DEF IInv, Structure
<1>1. CASE Connect(o)
  <2>1. TypeOK' BY <1>t, <1>1, EventFacts
                DEF Connect, Goto, TypeOK, RegistryTypeOK, Op, Place, kernelVars, selectVars
  <2>2. StageInv' BY <1>t, <1>1, SMT DEF Connect, Goto, Idle, StageInv, TypeOK, Waiting
  <2> QED BY <1>1, <1>t, <2>1, <2>2, QuietStep, SMT
          DEF Connect, Goto, Idle, TypeOK, StageInv, kernelVars
<1>2. ASSUME NEW c \in Op, Call(o, c) PROVE IInv'
  <2>1. TypeOK' BY <1>t, <1>2
                DEF Call, Goto, TypeOK, RegistryTypeOK, Place, registryVars, eventVars,
                    kernelVars, selectVars
  <2>2. StageInv' BY <1>t, <1>2, SMT DEF Call, Goto, Idle, StageInv, TypeOK, Waiting
  <2> QED BY <1>2, <1>t, <2>1, <2>2, QuietStep, SMT
          DEF Call, Goto, Idle, TypeOK, StageInv, registryVars, eventVars, kernelVars
<1> QED BY <1>1, <1>2

(* What comes from the other end, and shutdown.                            *)
LEMMA KernelIInv ==
  ASSUME IInv, NEW o \in Socket, Shutdown(o) \/ Abort(o) \/ \E bit \in Bit : Arrive(o, bit)
  PROVE  IInv'
<1>t. TypeOK /\ StageInv BY DEF IInv, Structure
<1>1. ready' \in [Fd -> SUBSET Bit]
  BY <1>t, SMT DEF Shutdown, Abort, Arrive, TypeOK, RegistryTypeOK, Bit
<1>2. UNCHANGED <<netVars, eventVars, interests, failures, selectVars>>
  BY DEF Shutdown, Abort, Arrive
<1>3. TypeOK' BY <1>t, <1>1, <1>2
              DEF TypeOK, RegistryTypeOK, netVars, eventVars, selectVars
<1>4. StageInv' BY <1>t, <1>2 DEF StageInv, netVars
<1> QED BY <1>2, <1>3, <1>4, QuietStep DEF netVars, eventVars

(* Accept, read and write return.                                          *)
Returns(o) ==
  /\ op[o] \in {"accept", "read", "write"} /\ pc[o] = "poll"
  /\ Done(o)
  /\ \/ UNCHANGED state_
     \/ /\ op[o] = "read"
        /\ state_' = [state_ EXCEPT ![IoEvent(o)] = @ \ {"Readable"}]
  /\ ready' \in [Fd -> SUBSET Bit]
  /\ UNCHANGED <<registered_events_, interest_, future_, interests, failures, selectVars>>

(* A call that returns leaves the list, the kernel and the events alone;   *)
(* only read may clear Readable, in the state of its own event.            *)
LEMMA ReturnIInv ==
  ASSUME IInv, NEW o \in Socket, Returns(o), UNCHANGED <<kind, fd>> PROVE IInv'
<1>t. TypeOK /\ StageInv BY DEF IInv, Structure
<1>1. /\ state_' \in [Event -> SUBSET Flag]
      /\ \A n \in Socket : n # o => state_'[IoEvent(n)] = state_[IoEvent(n)]
      /\ state_'[IoEvent(o)] = state_[IoEvent(o)] \/ kind[o] = "stream"
  <2>1. state_ \in [Event -> SUBSET Flag] BY <1>t DEF TypeOK, RegistryTypeOK
  <2>2. CASE UNCHANGED state_ BY <2>1, <2>2
  <2>3. CASE /\ op[o] = "read"
             /\ state_' = [state_ EXCEPT ![IoEvent(o)] = @ \ {"Readable"}]
    <3>1. \A n \in Socket : n # o => IoEvent(n) # IoEvent(o) BY EventFacts
    <3> QED BY <1>t, <2>1, <2>3, <3>1, EventFacts, SMT DEF StageInv
  <2> QED BY <2>2, <2>3 DEF Returns
<1>2. TypeOK'
  BY <1>t, <1>1 DEF Returns, Done, Goto, TypeOK, RegistryTypeOK, Op, Place, selectVars
<1>3. StageInv' BY <1>t DEF Returns, Done, Goto, StageInv, TypeOK
<1> QED BY <1>t, <1>1, <1>2, <1>3, QuietStep DEF Returns, Done, Goto, TypeOK

-----------------------------------------------------------------------------
(* An object is created, turned into another kind or closed: no entry of   *)
(* the interest list is left on the descriptors it had and has.            *)
LEMMA TurnStructure ==
  ASSUME IInv, TypeOK', StageInv', NEW o \in Socket,
         \A n \in Socket : n # o => /\ kind'[n] = kind[n] /\ fd'[n] = fd[n]
                                    /\ NeedsAbsent(n)' => NeedsAbsent(n),
         fd'[o] \in Fd <=> kind'[o] \notin {"unborn", "gone"},
         fd'[o] \in {fd[o], None} \cup FreeFd,
         \A f \in Fd : IF f \in {fd[o], fd'[o]} THEN interests'[f] = Absent
                                                ELSE interests'[f] = interests[f]
  PROVE  Structure'
<1>t. TypeOK /\ FdInv BY DEF IInv, Structure
<1>n. None \notin Fd BY EpollAssumption
<1>1. FdInv'
  <2>1. \A n \in Socket : fd'[n] \in Fd <=> kind'[n] \notin {"unborn", "gone"}
    BY <1>t DEF FdInv
  <2>2. \A n \in Socket : n # o /\ fd'[n] \in Fd => fd'[n] # fd'[o]
    BY <1>t, <1>n, SMT DEF FdInv, FreeFd
  <2>3. \A m, n \in Socket : fd'[m] \in Fd /\ fd'[m] = fd'[n] => m = n
    BY <1>t, <2>2 DEF FdInv
  <2> QED BY <2>1, <2>3 DEF FdInv
<1>2. OwnDescriptor'
  <2> SUFFICES ASSUME NEW f \in Fd, interests'[f] # Absent
               PROVE  \E n \in Socket :
                        /\ fd'[n] = f
                        /\ interests'[f].ptr =
                             <<n, IF kind'[n] \in {"stream", "listener"} THEN "io" ELSE "connect">>
    BY DEF OwnDescriptor, Absent
  <2>1. f \notin {fd[o], fd'[o]} /\ interests'[f] = interests[f] OBVIOUS
  <2>2. PICK n \in Socket :
          /\ fd[n] = f
          /\ interests[f].ptr =
               <<n, IF kind[n] \in {"stream", "listener"} THEN "io" ELSE "connect">>
    BY <2>1 DEF IInv, Structure, OwnDescriptor
  <2>3. n # o /\ kind'[n] = kind[n] /\ fd'[n] = fd[n] BY <2>1, <2>2
  <2> QED BY <2>1, <2>2, <2>3
<1>3. AbsentInv'
  <2> SUFFICES ASSUME NEW n \in Socket, fd'[n] \in Fd, NeedsAbsent(n)'
               PROVE  interests'[fd'[n]] = Absent
    BY DEF AbsentInv, NeedsAbsent, Absent
  <2>1. CASE n = o BY <2>1
  <2>2. CASE n # o
    <3>1. fd'[n] = fd[n] /\ NeedsAbsent(n) BY <2>2
    <3>2. interests[fd[n]] = Absent
      BY <3>1 DEF IInv, Structure, AbsentInv, NeedsAbsent
    <3> QED BY <3>1, <3>2
  <2> QED BY <2>1, <2>2
<1> QED BY <1>1, <1>2, <1>3 DEF Structure

(* The way of the events and the listeners, for such a step and for one    *)
(* that takes a descriptor off the interest list.                          *)
Moving == {"add", "mod", "undo", "wait"}
(* Such a step of object o leaves every event on its way: o has none under *)
(* way, and the entry of its descriptor is not armed.                      *)
LEMMA OffStep ==
  ASSUME IInv, Structure', NEW o \in Socket, pc[o] \notin Moving, pc'[o] \notin Moving,
         UNCHANGED <<registered_events_, selectVars>>,
         \A f \in Fd : \/ interests'[f] = interests[f]
                       \/ f = fd[o] /\ interests'[f] = Absent,
         \A n \in Socket : n # o =>
           /\ \/ op'[n] = op[n] /\ pc'[n] = pc[n]
              \/ {pc[n], pc'[n]} \subseteq {"none", "poll"}
           /\ kind'[n] = kind[n] /\ state_'[IoEvent(n)] = state_[IoEvent(n)]
           /\ interest_'[IoEvent(n)] = interest_[IoEvent(n)],
         kind'[o] \in {"unborn", "socket", "bound"} => "Registered" \notin state_'[IoEvent(o)],
         kind'[o] = "listener" =>
           /\ interest_'[IoEvent(o)] = "Read"
           /\ \/ "Registered" \notin state_'[IoEvent(o)]
              \/ state_'[IoEvent(o)] \cap {"Error", "Readable"} # {}
              \/ pc'[o] \notin {"none", "poll"}
  PROVE  IInv'
<1>a. \A f \in Fd, e \in Event : ArmedAt(f, e)' <=> ArmedAt(f, e)
  <2> SUFFICES ASSUME NEW f \in Fd, NEW e \in Event PROVE ArmedAt(f, e)' <=> ArmedAt(f, e)
    OBVIOUS
  <2>1. CASE interests'[f] = interests[f] BY <2>1 DEF ArmedAt
  <2>2. CASE f = fd[o] /\ interests'[f] = Absent
    <3>1. ~ArmedAt(f, e) BY <2>2, UnarmedFacts DEF Moving
    <3> QED BY <2>2, <3>1, SMT DEF ArmedAt, Absent
  <2> QED BY <2>1, <2>2
<1>b. \A f \in Fd, e \in Event : ArmedAt(f, e)' => interests'[f] = interests[f]
  BY SMT DEF ArmedAt, Absent
<1>1. OnWay'
  <2>1. \A e \in Event : (Waits(e)' <=> Waits(e)) /\ (Registers(e)' <=> Registers(e))
    BY EventFacts, SMT DEF Waits, Registers, Current, Moving
  <2> QED BY <1>a, <2>1, SameOnWay DEF selectVars
<1>2. ASSUME NEW n \in Socket, n # o PROVE AcceptOK(n)'
  <2>1. PICK e \in Event : e = IoEvent(n) BY EventFacts
  <2>2. InEvents(e)' \/ e \in woken' => InEvents(e) \/ e \in woken
    BY DEF InEvents, selectVars
  <2>3. UNCHANGED epoll_events BY DEF selectVars
  <2> QED BY <1>2, <1>b, <2>1, <2>2, <2>3, SameAccept
<1>3. AcceptOK(o)'
  <2>1. PICK e \in Event : e = IoEvent(o) /\ e[1] = o BY EventFacts
  <2>2. ~InKernel(e) /\ ~InArray(e) /\ ~InEvents(e) /\ e \notin woken
    BY <2>1, NowhereFacts DEF Moving
  <2>3. /\ \A f \in Fd : ~ArmedAt(f, e)'
        /\ \A r \in epoll_events' : r.ptr # e
        /\ ~InEvents(e)' /\ e \notin woken'
    BY <1>a, <2>2 DEF InKernel, InArray, InEvents, selectVars
  <2> QED BY <2>1, <2>3 DEF AcceptOK, IoEvent
<1> QED BY <1>1, <1>2, <1>3 DEF IInv, AcceptInv

(* An idle object becomes something else.                                  *)
LEMMA TurnIInv ==
  ASSUME IInv, NEW o \in Socket,
         (\E f \in Fd : NewSocket(o, f)) \/ Bind(o) \/ Listen(o) \/ ConnectAtOnce(o)
  PROVE  IInv'
<1>t. TypeOK /\ StageInv /\ FdInv /\ AbsentInv /\ OwnDescriptor BY DEF IInv, Structure
<1>o. AcceptOK(o) BY DEF IInv, AcceptInv
<1>n. None \notin Fd BY EpollAssumption
<1>i. IoEvent(o) \in Event /\ \A n \in Socket : n # o => IoEvent(n) # IoEvent(o)
  BY EventFacts
<1>1. ASSUME NEW f \in Fd, NewSocket(o, f) PROVE IInv'
  <2>1. TypeOK' BY <1>t, <1>1
                DEF NewSocket, TypeOK, RegistryTypeOK, Kind, registryVars, eventVars,
                    kernelVars, selectVars
  <2>2. op[o] = "none" /\ pc[o] = "none" BY <1>t, <1>1 DEF NewSocket, StageInv, TypeOK, Op
  <2>3. StageInv' BY <1>t, <1>1, <2>2 DEF NewSocket, StageInv, TypeOK
  <2>4. /\ kind'[o] = "socket" /\ fd'[o] = f
        /\ \A n \in Socket : n # o => kind'[n] = kind[n] /\ fd'[n] = fd[n]
        /\ UNCHANGED <<op, pc, registryVars>>
    BY <1>t, <1>1 DEF NewSocket, TypeOK
  <2>5. fd[o] = None /\ f \in FreeFd BY <1>t, <1>1 DEF NewSocket, FdInv, TypeOK
  <2>6. interests[f] = Absent BY <1>t, <2>5 DEF OwnDescriptor, FreeFd
  <2>7. \A n \in Socket : n # o => (NeedsAbsent(n)' => NeedsAbsent(n))
    BY <2>4 DEF NeedsAbsent
  <2>8. \A g \in Fd : IF g \in {fd[o], fd'[o]} THEN interests'[g] = Absent
                                               ELSE interests'[g] = interests[g]
    BY <1>n, <2>4, <2>5, <2>6 DEF registryVars, kernelVars
  <2>9. Structure' BY <2>1, <2>3, <2>4, <2>5, <2>7, <2>8, TurnStructure
  <2>10. "Registered" \notin state_'[IoEvent(o)]
    BY <1>1, <1>o, <2>4 DEF NewSocket, AcceptOK, registryVars, eventVars
  <2>11. pc'[o] = "none" BY <2>2, <2>4
  <2> QED BY <2>2, <2>4, <2>9, <2>10, <2>11, OffStep
          DEF Moving, registryVars, eventVars, kernelVars
<1>2. CASE Bind(o) \/ Listen(o) \/ ConnectAtOnce(o)
  <2>1. kind[o] \in {"socket", "bound"} /\ op[o] = "none" /\ pc[o] = "none"
    BY <1>t, <1>2 DEF Bind, Listen, ConnectAtOnce, Idle, StageInv
  <2>2. /\ kind'[o] \in {"bound", "listener", "stream"}
        /\ kind' \in [Socket -> Kind]
        /\ \A n \in Socket : n # o => kind'[n] = kind[n]
        /\ UNCHANGED <<fd, op, pc, registered_events_, future_, kernelVars, selectVars>>
    BY <1>t, <1>2 DEF Bind, Listen, ConnectAtOnce, TypeOK, Kind, registryVars, eventVars
  <2>3. /\ state_' \in [Event -> SUBSET Flag]
        /\ interest_' \in [Event -> {"Read", "Write", "All"}]
    BY <1>t, <1>2, <1>i, SMT DEF Bind, Listen, ConnectAtOnce, TypeOK, RegistryTypeOK, Flag,
                            registryVars, eventVars
  <2>4. \A n \in Socket : n # o => /\ state_'[IoEvent(n)] = state_[IoEvent(n)]
                                   /\ interest_'[IoEvent(n)] = interest_[IoEvent(n)]
    BY <1>t, <1>2, <1>i, EventFacts
       DEF Bind, Listen, ConnectAtOnce, TypeOK, RegistryTypeOK, registryVars, eventVars
  <2>5. TypeOK' BY <1>t, <2>2, <2>3 DEF TypeOK, RegistryTypeOK, kernelVars, selectVars
  <2>6. StageInv' BY <1>t, <2>1, <2>2 DEF StageInv
  <2>7. fd[o] \in Fd /\ interests[fd[o]] = Absent
    BY <1>t, <2>1 DEF FdInv, AbsentInv
  <2>8. \A n \in Socket : n # o => (NeedsAbsent(n)' => NeedsAbsent(n))
    BY <2>2 DEF NeedsAbsent
  <2>9. \A g \in Fd : IF g \in {fd[o], fd'[o]} THEN interests'[g] = Absent
                                               ELSE interests'[g] = interests[g]
    BY <2>2, <2>7 DEF kernelVars
  <2>10. Structure'
    <3>1. fd'[o] = fd[o] BY <2>2
    <3> QED BY <2>2, <2>5, <2>6, <2>7, <2>8, <2>9, <3>1, TurnStructure
  <2>11. /\ kind'[o] \in {"unborn", "socket", "bound"} => "Registered" \notin state_'[IoEvent(o)]
         /\ kind'[o] = "listener" => /\ interest_'[IoEvent(o)] = "Read"
                                     /\ "Registered" \notin state_'[IoEvent(o)]
    BY <1>t, <1>2, <1>o, <1>i, <2>1
       DEF Bind, Listen, ConnectAtOnce, AcceptOK, TypeOK, RegistryTypeOK, registryVars, eventVars
  <2>12. pc'[o] = "none" BY <2>1, <2>2
  <2> QED BY <2>1, <2>2, <2>4, <2>10, <2>11, <2>12, OffStep DEF Moving, kernelVars
<1> QED BY <1>1, <1>2

(* accept4 returned a connection: the stream is born.                      *)
AcceptNew(o, n, f) ==
  /\ Polls(o, "accept") /\ Done(o)
  /\ kind[n] = "unborn"
  /\ kind' = [kind EXCEPT ![n] = "stream"]
  /\ fd' = [fd EXCEPT ![n] = f]
  /\ ready' \in [Fd -> SUBSET Bit]
  /\ UNCHANGED <<eventVars, interests, failures, selectVars>>

(* The stream takes a free descriptor, about which the kernel has nothing  *)
(* on its interest list.                                                   *)
LEMMA AcceptIInv ==
  ASSUME IInv, NEW o \in Socket, NEW n \in Socket, NEW f \in FreeFd, AcceptNew(o, n, f)
  PROVE  IInv'
<1>t. TypeOK /\ StageInv /\ FdInv /\ OwnDescriptor BY DEF IInv, Structure
<1>n. None \notin Fd /\ f \in Fd BY EpollAssumption DEF FreeFd
<1>1. op[o] = "accept" /\ pc[o] = "poll" /\ kind[o] = "listener"
  BY <1>t DEF AcceptNew, Polls, StageInv
<1>2. n # o /\ op[n] = "none" /\ pc[n] = "none" /\ fd[n] = None
  BY <1>t, <1>1 DEF AcceptNew, StageInv, FdInv, TypeOK, Op
<1>3. TypeOK'
  BY <1>t, <1>n DEF AcceptNew, Done, Goto, TypeOK, RegistryTypeOK, Kind, Op, Place, eventVars,
                    selectVars
<1>4. /\ kind'[n] = "stream" /\ fd'[n] = f /\ op'[o] = "none" /\ pc'[o] = "none"
      /\ \A m \in Socket : m # n => kind'[m] = kind[m] /\ fd'[m] = fd[m]
      /\ \A m \in Socket : m # o => op'[m] = op[m] /\ pc'[m] = pc[m]
      /\ UNCHANGED <<eventVars, interests, selectVars>>
  BY <1>t DEF AcceptNew, Done, Goto, TypeOK
<1>5. StageInv' BY <1>t, <1>1, <1>2, <1>4, SMT DEF StageInv
<1>6. interests[f] = Absent BY <1>t, <1>n DEF OwnDescriptor, FreeFd
<1>7. \A m \in Socket : m # n => (NeedsAbsent(m)' => NeedsAbsent(m))
  BY <1>1, <1>4 DEF NeedsAbsent
<1>8. \A g \in Fd : IF g \in {fd[n], fd'[n]} THEN interests'[g] = Absent
                                             ELSE interests'[g] = interests[g]
  BY <1>n, <1>2, <1>4, <1>6
<1>9. Structure' BY <1>n, <1>3, <1>4, <1>5, <1>7, <1>8, TurnStructure
<1>10. pc'[n] = "none" BY <1>2, <1>4
<1> QED BY <1>1, <1>2, <1>4, <1>9, <1>10, OffStep, SMT DEF Moving, eventVars

(* deregister takes the descriptor off the interest list: of a connect     *)
(* that was answered, or of an object that is destroyed.                   *)
ConnectEnds(o) ==
  /\ Polls(o, "connect")
  /\ op' = [op EXCEPT ![o] = "connected"] \/ UNCHANGED op
  /\ CtlDel(fd[o])
  /\ Goto(o, "del")
  /\ UNCHANGED <<kind, fd, eventVars, ready, failures, selectVars>>

(* EPOLL_CTL_DEL of a descriptor whose event does not wait loses nothing.  *)
LEMMA DelIInv ==
  ASSUME IInv, NEW o \in Socket, ConnectEnds(o) \/ Destroy(o) PROVE IInv'
<1>t. TypeOK /\ StageInv /\ FdInv BY DEF IInv, Structure
<1>o. AcceptOK(o) BY DEF IInv, AcceptInv
<1>1. \/ op[o] = "connect" /\ pc[o] = "poll" /\ ConnectEnds(o)
      \/ op[o] = "none" /\ pc[o] = "none" /\ Destroy(o)
  BY <1>t DEF ConnectEnds, Polls, Destroy, Idle, StageInv
<1>2. fd[o] \in Fd
  BY <1>t, <1>1 DEF ConnectEnds, Polls, Destroy, StageInv, FdInv
<1>3. /\ \A n \in Socket : n # o => op'[n] = op[n] /\ pc'[n] = pc[n]
      /\ op' \in [Socket -> Op] /\ pc' \in [Socket -> Place]
      /\ UNCHANGED <<kind, fd, eventVars, ready, failures, selectVars>>
  BY <1>t DEF ConnectEnds, Destroy, Goto, TypeOK, Op, Place
<1>4. \/ op'[o] \in {"connect", "connected"} /\ op[o] = "connect" /\ pc'[o] = "del"
      \/ op'[o] = "destroy" /\ op[o] = "none" /\ pc'[o] \in {"del", "close"}
  BY <1>t, <1>1 DEF ConnectEnds, Destroy, Goto, TypeOK
<1>5. /\ interests' \in [Fd -> [ptr : Event \cup {None}, mask : SUBSET Bit]]
      /\ \A f \in Fd : \/ interests'[f] = interests[f]
                       \/ f = fd[o] /\ interests'[f] = Absent
      /\ pc'[o] = "del" => interests'[fd[o]] = Absent
  <2>1. interests \in [Fd -> [ptr : Event \cup {None}, mask : SUBSET Bit]]
    BY <1>t DEF TypeOK, RegistryTypeOK
  <2>2. \/ interests' = [interests EXCEPT ![fd[o]] = Absent]
        \/ interests' = interests /\ pc'[o] = "close"
    BY <1>t, <1>1 DEF ConnectEnds, Destroy, CtlDel, Goto, TypeOK
  <2>3. Absent \in [ptr : Event \cup {None}, mask : SUBSET Bit] BY DEF Absent
  <2> QED BY <1>2, <2>1, <2>2, <2>3
<1>6. TypeOK' BY <1>t, <1>3, <1>5 DEF TypeOK, RegistryTypeOK, eventVars, selectVars
<1>7. kind[o] \notin {"unborn", "gone"} /\ (op[o] = "connect" => kind[o] \in {"socket", "bound"})
  BY <1>t, <1>2 DEF StageInv, FdInv
<1>8. StageInv' BY <1>t, <1>3, <1>4, <1>7, SMT DEF StageInv, Waiting
<1>9. \A n \in Socket : NeedsAbsent(n)' => NeedsAbsent(n) \/ interests'[fd[n]] = Absent
  BY <1>3, <1>4, <1>5 DEF NeedsAbsent
<1>10. Structure' BY <1>3, <1>5, <1>6, <1>8, <1>9, SameStructure
<1>11. pc[o] \notin Moving /\ pc'[o] \notin Moving BY <1>1, <1>4 DEF Moving
<1>12. /\ kind[o] \in {"unborn", "socket", "bound"} => "Registered" \notin state_[IoEvent(o)]
       /\ kind[o] = "listener" => interest_[IoEvent(o)] = "Read"
       /\ pc'[o] \notin {"none", "poll"}
  BY <1>o, <1>4 DEF AcceptOK
<1>13. \A n \in Socket : n # o =>
         /\ op'[n] = op[n] /\ pc'[n] = pc[n] /\ kind'[n] = kind[n]
         /\ state_'[IoEvent(n)] = state_[IoEvent(n)]
         /\ interest_'[IoEvent(n)] = interest_[IoEvent(n)]
  BY <1>3 DEF eventVars
<1> QED BY <1>3, <1>5, <1>10, <1>11, <1>12, <1>13, OffStep DEF eventVars

(* The end of deregister finds the event out of the vector already.        *)
LEMMA DeregisteredFacts ==
  ASSUME IInv, NEW o \in Socket, Deregistered(o)
  PROVE  UNCHANGED <<registered_events_, selectVars, interests>>
<1>1. PICK e \in Event : e = Current(o) /\ e[1] = o BY EventFacts
<1>2. pc[o] = "del" BY DEF Deregistered
<1>3. ~Registers(e) BY <1>1, <1>2 DEF Registers
<1>4. registered_events_[e] = 0 BY <1>1, <1>2, <1>3, NowhereFacts
<1> QED BY <1>1, <1>4, SMT DEF Deregistered, Forget, kernelVars

(* So the end of deregister finishes the connect, or lets the object be    *)
(* closed, and changes nothing else.                                       *)
LEMMA DeregisteredIInv ==
  ASSUME IInv, NEW o \in Socket, Deregistered(o) PROVE IInv'
<1>t. TypeOK /\ StageInv /\ FdInv /\ AbsentInv BY DEF IInv, Structure
<1>o. AcceptOK(o) BY DEF IInv, AcceptInv
<1>d. UNCHANGED <<registered_events_, selectVars, interests>> BY DeregisteredFacts
<1>1. pc[o] = "del" /\ op[o] \in {"connect", "connected", "destroy"}
  BY <1>t DEF Deregistered, StageInv, TypeOK, Op, Waiting
<1>2. fd[o] \in Fd /\ interests[fd[o]] = Absent
  BY <1>t, <1>1 DEF StageInv, FdInv, AbsentInv
<1>3. /\ kind' = IF op[o] = "connected" THEN [kind EXCEPT ![o] = "stream"] ELSE kind
      /\ op' = IF op[o] = "destroy" THEN op ELSE [op EXCEPT ![o] = "none"]
      /\ pc' = [pc EXCEPT ![o] = IF op[o] = "destroy" THEN "close" ELSE "none"]
      /\ UNCHANGED <<fd, interest_, future_, kernelVars>>
  BY DEF Deregistered, Done, Goto
<1>4. /\ kind' \in [Socket -> Kind] /\ op' \in [Socket -> Op] /\ pc' \in [Socket -> Place]
      /\ \A n \in Socket : n # o => kind'[n] = kind[n] /\ op'[n] = op[n] /\ pc'[n] = pc[n]
      /\ kind'[o] = IF op[o] = "connected" THEN "stream" ELSE kind[o]
      /\ op'[o] = IF op[o] = "destroy" THEN "destroy" ELSE "none"
      /\ pc'[o] = IF op[o] = "destroy" THEN "close" ELSE "none"
  BY <1>t, <1>3 DEF TypeOK, Kind, Op, Place
<1>5. PICK c \in Event : c = Current(o) /\ c[1] = o BY EventFacts
<1>6. state_' = [e \in Event |->
        IF e = c THEN IF op[o] = "destroy" THEN state_[e] \ {"Registered"} ELSE {} ELSE
        IF e = IoEvent(o) /\ op[o] = "connected"
        THEN state_[c] \cap {"Writable", "Readable"} ELSE state_[e]]
  BY <1>5 DEF Deregistered
<1>7. state_' \in [Event -> SUBSET Flag]
  BY <1>t, <1>6 DEF TypeOK, RegistryTypeOK
<1>8. \A n \in Socket : n # o => state_'[IoEvent(n)] = state_[IoEvent(n)]
  <2>1. \A n \in Socket : n # o => IoEvent(n) # c /\ IoEvent(n) # IoEvent(o)
    BY <1>5, EventFacts
  <2> QED BY <1>6, <2>1, EventFacts
<1>9. TypeOK'
  BY <1>t, <1>d, <1>3, <1>4, <1>7 DEF TypeOK, RegistryTypeOK, kernelVars, selectVars
<1>10. StageInv'
  <2>1. op[o] = "destroy" => kind[o] \notin {"unborn", "gone"} BY <1>t DEF StageInv
  <2> QED BY <1>t, <1>1, <1>4, <2>1, SMT DEF StageInv
<1>11. Structure'
  <2>1. \A n \in Socket : n # o => (NeedsAbsent(n)' => NeedsAbsent(n))
    BY <1>4 DEF NeedsAbsent
  <2>2. \A f \in Fd : IF f \in {fd[o], fd'[o]} THEN interests'[f] = Absent
                                               ELSE interests'[f] = interests[f]
    BY <1>d, <1>2, <1>3
  <2>3. kind'[o] \notin {"unborn", "gone"} BY <1>t, <1>2, <1>4 DEF FdInv
  <2> QED BY <1>2, <1>3, <1>4, <1>9, <1>10, <2>1, <2>2, <2>3, TurnStructure
<1>12. pc[o] \notin Moving /\ pc'[o] \notin Moving BY <1>1, <1>4 DEF Moving
<1>13. kind'[o] \in {"unborn", "socket", "bound"} => "Registered" \notin state_'[IoEvent(o)]
  BY <1>o, <1>1, <1>4, <1>5, <1>6, EventFacts DEF AcceptOK
<1>14. kind'[o] = "listener" => /\ interest_'[IoEvent(o)] = "Read"
                                /\ "Registered" \notin state_'[IoEvent(o)]
  <2> SUFFICES ASSUME kind'[o] = "listener"
               PROVE  /\ interest_'[IoEvent(o)] = "Read"
                      /\ "Registered" \notin state_'[IoEvent(o)]
    OBVIOUS
  <2>1. op[o] = "destroy" /\ kind[o] = "listener" BY <1>t, <1>1, <1>4 DEF StageInv
  <2>2. c = IoEvent(o) BY <1>5, <2>1, EventFacts
  <2> QED BY <1>o, <1>3, <1>6, <2>1, <2>2 DEF AcceptOK
<1> QED BY <1>d, <1>3, <1>4, <1>8, <1>11, <1>12, <1>13, <1>14, OffStep, SMT

(* close(2).                                                               *)
LEMMA CloseIInv ==
  ASSUME IInv, NEW o \in Socket, Close(o) PROVE IInv'
<1>t. TypeOK /\ StageInv /\ FdInv BY DEF IInv, Structure
<1>n. None \notin Fd BY EpollAssumption
<1>i. IoEvent(o) \in Event /\ \A n \in Socket : n # o => IoEvent(n) # IoEvent(o)
  BY EventFacts
<1>1. pc[o] = "close" /\ op[o] = "destroy" /\ fd[o] \in Fd
  BY <1>t DEF Close, StageInv, FdInv, TypeOK, Op, Waiting
<1>2. TypeOK'
  <2>1. /\ interests' \in [Fd -> [ptr : Event \cup {None}, mask : SUBSET Bit]]
        /\ ready' \in [Fd -> SUBSET Bit]
    BY <1>t DEF Close, TypeOK, RegistryTypeOK, Absent
  <2>2. state_' \in [Event -> SUBSET Flag] /\ interest_' \in [Event -> {"Read", "Write", "All"}]
    BY <1>t DEF Close, TypeOK, RegistryTypeOK
  <2>3. /\ kind' \in [Socket -> Kind] /\ fd' \in [Socket -> Fd \cup {None}]
        /\ op' \in [Socket -> Op] /\ pc' \in [Socket -> Place]
    BY <1>t DEF Close, Done, Goto, TypeOK, Kind, Op, Place
  <2> QED BY <1>t, <2>1, <2>2, <2>3 DEF Close, TypeOK, RegistryTypeOK, selectVars
<1>3. /\ kind'[o] = "gone" /\ fd'[o] = None /\ op'[o] = "none" /\ pc'[o] = "none"
      /\ \A n \in Socket : n # o => /\ kind'[n] = kind[n] /\ fd'[n] = fd[n]
                                    /\ op'[n] = op[n] /\ pc'[n] = pc[n]
      /\ \A f \in Fd : interests'[f] = IF f = fd[o] THEN Absent ELSE interests[f]
      /\ UNCHANGED <<registered_events_, selectVars>>
  BY <1>t DEF Close, Done, Goto, TypeOK, RegistryTypeOK
<1>4. \A n \in Socket : n # o => /\ state_'[IoEvent(n)] = state_[IoEvent(n)]
                                 /\ interest_'[IoEvent(n)] = interest_[IoEvent(n)]
  BY <1>t, <1>i, EventFacts DEF Close, TypeOK, RegistryTypeOK
<1>5. StageInv' BY <1>t, <1>3, SMT DEF StageInv
<1>6. \A n \in Socket : n # o => (NeedsAbsent(n)' => NeedsAbsent(n))
  BY <1>3 DEF NeedsAbsent
<1>7. \A f \in Fd : IF f \in {fd[o], fd'[o]} THEN interests'[f] = Absent
                                             ELSE interests'[f] = interests[f]
  BY <1>n, <1>3
<1>8. Structure' BY <1>n, <1>2, <1>3, <1>5, <1>6, <1>7, TurnStructure
<1> QED BY <1>1, <1>3, <1>4, <1>8, OffStep DEF Moving

-----------------------------------------------------------------------------
(* A future registers its event: it is published in the vector, and        *)
(* epoll_ctl comes next.                                                   *)
Enters(o, place, interest) ==
  /\ pc[o] = "poll" /\ op[o] \in {"connect", "accept", "read", "write"}
  /\ place = "add" \/ (place = "mod" /\ op[o] # "connect")
  /\ interest \in {"Read", "Write", "All"} /\ (op[o] = "accept" => interest = "Read")
  /\ future_' = [future_ EXCEPT ![Current(o)] = TRUE]
  /\ interest_' = [interest_ EXCEPT ![Current(o)] = interest]
  /\ PushBack(Current(o))
  /\ \/ UNCHANGED state_
     \/ state_' = [state_ EXCEPT ![Current(o)] = @ \cup {"Registered"}]
  /\ Goto(o, place)
  /\ UNCHANGED <<kind, fd, op, kernelVars, selectVars>>

(* An event is published in registered_events_ before epoll_ctl arms it,   *)
(* so select finds it whenever the kernel reports it.                      *)
LEMMA EnterIInv ==
  ASSUME IInv, NEW o \in Socket, NEW place, NEW interest, Enters(o, place, interest)
  PROVE  IInv'
<1>t. TypeOK /\ StageInv BY DEF IInv, Structure
<1>o. AcceptOK(o) BY DEF IInv, AcceptInv
<1>e. PICK e \in Event : e = Current(o) /\ e[1] = o BY EventFacts
<1>1. /\ pc[o] = "poll" /\ place \in {"add", "mod"}
      /\ pc' = [pc EXCEPT ![o] = place]
      /\ UNCHANGED <<kind, fd, op, kernelVars, selectVars>>
      /\ registered_events_' = [registered_events_ EXCEPT ![e] = @ + 1]
      /\ interest_' = [interest_ EXCEPT ![e] = interest]
      /\ future_' = [future_ EXCEPT ![e] = TRUE]
      /\ state_' = state_ \/ state_' = [state_ EXCEPT ![e] = @ \cup {"Registered"}]
  BY <1>e DEF Enters, PushBack, Goto
<1>2. /\ registered_events_[e] = 0 /\ ~Registers(e)
      /\ ~InKernel(e) /\ ~InArray(e) /\ ~InEvents(e) /\ e \notin woken
  BY <1>e, <1>1, NowhereFacts DEF Registers
<1>3. /\ pc'[o] = place /\ \A n \in Socket : n # o => pc'[n] = pc[n]
      /\ pc' \in [Socket -> Place]
      /\ registered_events_'[e] = 1 /\ registered_events_' \in [Event -> 0..2]
      /\ \A d \in Event : d # e => registered_events_'[d] = registered_events_[d]
  BY <1>t, <1>1, <1>2, SMT DEF TypeOK, RegistryTypeOK, Place
<1>4. /\ interest_' \in [Event -> {"Read", "Write", "All"}]
      /\ state_' \in [Event -> SUBSET Flag]
      /\ interest_'[e] = interest
      /\ \A d \in Event : d # e => state_'[d] = state_[d] /\ interest_'[d] = interest_[d]
  <2>1. /\ interest_' \in [Event -> {"Read", "Write", "All"}]
        /\ interest_'[e] = interest
        /\ \A d \in Event : d # e => interest_'[d] = interest_[d]
    <3>1. interest \in {"Read", "Write", "All"} BY DEF Enters
    <3>2. interest_ \in [Event -> {"Read", "Write", "All"}]
      BY <1>t DEF TypeOK, RegistryTypeOK
    <3> QED BY <1>1, <3>1, <3>2
  <2>2. state_ \in [Event -> SUBSET Flag] BY <1>t DEF TypeOK, RegistryTypeOK
  <2>3. CASE state_' = state_ BY <2>1, <2>2, <2>3
  <2>4. CASE state_' = [state_ EXCEPT ![e] = @ \cup {"Registered"}]
    <3>1. state_[e] \cup {"Registered"} \in SUBSET Flag BY <2>2 DEF Flag
    <3> QED BY <2>1, <2>2, <2>4, <3>1
  <2> QED BY <1>1, <2>3, <2>4
<1>5. future_' \in [Event -> BOOLEAN] BY <1>t, <1>1 DEF TypeOK, RegistryTypeOK
<1>6. TypeOK'
  BY <1>t, <1>1, <1>3, <1>4, <1>5 DEF TypeOK, RegistryTypeOK, kernelVars, selectVars
<1>7. StageInv' BY <1>t, <1>1, <1>3, SMT DEF StageInv, Enters, Waiting
<1>8. Structure'
  <2>1. \A n \in Socket : NeedsAbsent(n)' => NeedsAbsent(n) BY <1>1, <1>3 DEF NeedsAbsent
  <2> QED BY <1>1, <1>6, <1>7, <2>1, SameStructure DEF kernelVars
<1>9. OnWay'
  <2>1. \A f \in Fd, d \in Event : ArmedAt(f, d)' <=> ArmedAt(f, d)
    BY <1>1 DEF ArmedAt, kernelVars
  <2>2. MutexInv' BY <1>1 DEF IInv, OnWay, MutexInv, selectVars
  <2>3. \A d \in Event : d # e => /\ Waits(d)' <=> Waits(d)
                                  /\ Registers(d)' <=> Registers(d)
    BY <1>e, <1>1, <1>3, EventFacts, SMT DEF Waits, Registers, Current
  <2>4. \A d \in Event : d # e => WayOK(d)'
    BY <1>1, <1>3, <2>1, <2>3, SameWay DEF selectVars
  <2>5. ~InKernel(e)' /\ ~InArray(e)' /\ ~InEvents(e)' /\ e \notin woken'
    BY <1>1, <1>2, <2>1 DEF InKernel, InArray, InEvents, selectVars
  <2>6. ~Waits(e)' /\ Registers(e)'
    BY <1>e, <1>1, <1>3 DEF Waits, Registers, Current
  <2>7. HolderOK(e)' BY <2>5, <2>6 DEF HolderOK
  <2>8. AloneOK(e)' BY <2>5 DEF AloneOK, InEvents, InArray
  <2>9. ListOK(e)' BY <1>3, <2>6 DEF ListOK
  <2> QED BY <2>2, <2>4, <2>7, <2>8, <2>9 DEF OnWay, WayOK
<1>10. ASSUME NEW n \in Socket PROVE AcceptOK(n)'
  <2>1. PICK d \in Event : d = IoEvent(n) /\ d[1] = n BY EventFacts
  <2>2. /\ \A f \in Fd : ArmedAt(f, d)' => interests'[f] = interests[f]
        /\ \A r \in epoll_events' : r.ptr = d => r \in epoll_events
        /\ InEvents(d)' \/ d \in woken' => InEvents(d) \/ d \in woken
        /\ kind'[n] = kind[n]
        /\ pc'[n] \in {"none", "poll"} => pc[n] \in {"none", "poll"}
    BY <1>1, <1>3 DEF InEvents, kernelVars, selectVars
  <2>3. CASE d # e BY <1>4, <2>1, <2>2, <2>3, SameAccept, SMT
  <2>4. CASE d = e
    <3>1. n = o /\ op[o] \in {"accept", "read", "write"}
      BY <1>e, <2>1, <2>4, EventFacts, SMT DEF Enters, IoEvent, Current
    <3>2. kind[o] \in {"listener", "stream"} /\ (kind[o] = "listener" => interest = "Read")
      BY <1>t, <3>1 DEF StageInv, Enters
    <3>3. /\ \A f \in Fd : ~ArmedAt(f, e)'
          /\ \A r \in epoll_events' : r.ptr # e
          /\ ~InEvents(e)' /\ e \notin woken'
      BY <1>1, <1>2 DEF ArmedAt, InKernel, InArray, InEvents, kernelVars, selectVars
    <3> QED BY <1>1, <1>3, <1>4, <2>1, <2>4, <3>1, <3>2, <3>3, SMT DEF AcceptOK, IoEvent
  <2> QED BY <2>3, <2>4
<1> QED BY <1>8, <1>9, <1>10 DEF IInv, AcceptInv

(* epoll_ctl succeeds: the event is with the kernel, its call waits.       *)
LEMMA ArmIInv ==
  ASSUME IInv, NEW o \in Socket, EpollCtl(o), CtlSucceeds(pc[o], Current(o), fd[o]),
         Goto(o, "wait")
  PROVE  IInv'
<1>t. TypeOK /\ StageInv /\ FdInv /\ OwnDescriptor /\ AbsentInv BY DEF IInv, Structure
<1>o. AcceptOK(o) BY DEF IInv, AcceptInv
<1>e. PICK e \in Event : e = Current(o) /\ e[1] = o BY EventFacts
<1>1. /\ pc[o] \in {"add", "mod"} /\ UNCHANGED <<kind, fd, op, eventVars, ready, selectVars>>
      /\ pc' = [pc EXCEPT ![o] = "wait"] /\ UNCHANGED failures
  BY DEF EpollCtl, CtlSucceeds, Goto
<1>2. /\ op[o] \in {"connect", "accept", "read", "write"}
      /\ op[o] = "connect" <=> kind[o] \in {"socket", "bound"}
      /\ op[o] # "connect" <=> kind[o] \in {"stream", "listener"}
      /\ kind[o] \notin {"unborn", "gone"}
  BY <1>t, <1>1 DEF StageInv, TypeOK, Op, Waiting
<1>3. PICK f \in Fd : f = fd[o] BY <1>t, <1>2 DEF FdInv
<1>4. PICK mask : mask = to_sys(interest_[e]) OBVIOUS
<1>5. mask \in SUBSET Bit /\ mask # {} /\ (interest_[e] = "Read" => mask = {"in", "err"})
  BY <1>t, <1>4 DEF TypeOK, RegistryTypeOK, to_sys, Bit
<1>6. interests' = [interests EXCEPT ![f] = [ptr |-> e, mask |-> mask]]
  BY <1>e, <1>3, <1>4 DEF CtlSucceeds, Arm
<1>7. /\ interests' \in [Fd -> [ptr : Event \cup {None}, mask : SUBSET Bit]]
      /\ interests'[f].ptr = e /\ interests'[f].mask = mask
      /\ \A g \in Fd : g # f => interests'[g] = interests[g]
  <2>1. [ptr |-> e, mask |-> mask] \in [ptr : Event \cup {None}, mask : SUBSET Bit]
    BY <1>5
  <2> QED BY <1>t, <1>6, <2>1 DEF TypeOK, RegistryTypeOK
<1>8. /\ pc'[o] = "wait" /\ \A n \in Socket : n # o => pc'[n] = pc[n]
      /\ pc' \in [Socket -> Place]
  BY <1>t, <1>1 DEF TypeOK, Place
<1>9. TypeOK'
  BY <1>t, <1>1, <1>7, <1>8 DEF TypeOK, RegistryTypeOK, eventVars, selectVars
<1>10. StageInv' BY <1>t, <1>1, <1>2, <1>8 DEF StageInv, Waiting
<1>11. FdInv' BY <1>t, <1>1 DEF FdInv
<1>12. OwnDescriptor'
  <2> SUFFICES ASSUME NEW g \in Fd, interests'[g] # Absent
               PROVE  \E n \in Socket :
                        /\ fd'[n] = g
                        /\ interests'[g].ptr =
                             <<n, IF kind'[n] \in {"stream", "listener"} THEN "io" ELSE "connect">>
    BY DEF OwnDescriptor, Absent
  <2>1. CASE g = f
    <3>1. e = <<o, IF kind[o] \in {"stream", "listener"} THEN "io" ELSE "connect">>
      BY <1>e, <1>2, EventFacts DEF IoEvent
    <3> QED BY <1>1, <1>3, <1>7, <2>1, <3>1
  <2>2. CASE g # f BY <1>t, <1>1, <1>7, <2>2, SMT DEF OwnDescriptor
  <2> QED BY <2>1, <2>2
<1>13. AbsentInv'
  <2> SUFFICES ASSUME NEW n \in Socket, fd'[n] \in Fd, NeedsAbsent(n)'
               PROVE  interests'[fd'[n]] = Absent
    BY DEF AbsentInv, NeedsAbsent, Absent
  <2>1. n # o BY <1>1, <1>2, <1>8 DEF NeedsAbsent
  <2>2. fd[n] \in Fd /\ fd[n] # f BY <1>t, <1>1, <1>3, <2>1 DEF FdInv
  <2>3. NeedsAbsent(n) BY <1>1, <1>8, <2>1 DEF NeedsAbsent
  <2>4. interests[fd[n]] = Absent BY <1>t, <2>2, <2>3 DEF AbsentInv, NeedsAbsent
  <2> QED BY <1>1, <1>7, <2>2, <2>4
<1>14. /\ ~InKernel(e) /\ ~InArray(e) /\ ~InEvents(e) /\ e \notin woken
       /\ registered_events_[e] = 1
       /\ \A d \in Event : ~ArmedAt(f, d)
  <2>1. Registers(e) BY <1>e, <1>1 DEF Registers
  <2> QED BY <1>e, <1>1, <1>3, <2>1, NowhereFacts, UnarmedFacts
<1>15. /\ \A g \in Fd : ArmedAt(g, e)' <=> g = f
       /\ \A d \in Event : d # e => \A g \in Fd : ArmedAt(g, d)' <=> ArmedAt(g, d)
  BY <1>5, <1>7, <1>14 DEF ArmedAt, InKernel
<1>16. OnWay'
  <2>1. MutexInv' BY <1>1 DEF IInv, OnWay, MutexInv, selectVars
  <2>2. \A d \in Event : d # e => (Waits(d)' <=> Waits(d)) /\ (Registers(d)' <=> Registers(d))
    BY <1>e, <1>1, <1>8, EventFacts, SMT DEF Waits, Registers, Current
  <2>3. \A d \in Event : d # e => WayOK(d)'
    BY <1>1, <1>15, <2>2, SameWay DEF eventVars, selectVars
  <2>4. InKernel(e)' /\ ~InArray(e)' /\ ~InEvents(e)' /\ e \notin woken'
    BY <1>1, <1>14, <1>15 DEF InKernel, InArray, InEvents, selectVars
  <2>5. Waits(e)' BY <1>e, <1>1, <1>8 DEF Waits, Current
  <2>6. HolderOK(e)' BY <2>4, <2>5 DEF HolderOK
  <2>7. AloneOK(e)' BY <2>4 DEF AloneOK, InEvents, InArray
  <2>8. ListOK(e)' BY <1>1, <1>14, <2>4 DEF ListOK, eventVars
  <2> QED BY <2>1, <2>3, <2>6, <2>7, <2>8 DEF OnWay, WayOK
<1>17. ASSUME NEW n \in Socket PROVE AcceptOK(n)'
  <2>1. PICK d \in Event : d = IoEvent(n) /\ d[1] = n BY EventFacts
  <2>2. CASE d # e
    <3>1. \A g \in Fd : ArmedAt(g, d)' => interests'[g] = interests[g]
      BY <1>7, <2>2 DEF ArmedAt
    <3>2. /\ kind'[n] = kind[n] /\ state_'[d] = state_[d] /\ interest_'[d] = interest_[d]
          /\ \A r \in epoll_events' : r.ptr = d => r \in epoll_events
          /\ InEvents(d)' \/ d \in woken' => InEvents(d) \/ d \in woken
          /\ pc'[n] \in {"none", "poll"} => pc[n] \in {"none", "poll"}
      BY <1>1, <1>8 DEF InEvents, eventVars, selectVars
    <3> QED BY <2>1, <3>1, <3>2, SameAccept
  <2>3. CASE d = e
    <3>1. n = o /\ kind'[o] \in {"stream", "listener"} /\ kind'[o] = kind[o]
      BY <1>e, <1>1, <1>2, <2>1, <2>3, EventFacts, SMT DEF IoEvent, Current
    <3>2. kind[o] = "listener" => interest_[e] = "Read" /\ interest_'[e] = "Read"
      BY <1>o, <1>1, <2>1, <2>3, <3>1 DEF AcceptOK, eventVars
    <3>3. \A r \in epoll_events' : r.ptr # e
      BY <1>1, <1>14 DEF InArray, selectVars
    <3>4. ~InEvents(e)' /\ e \notin woken'
      BY <1>1, <1>14 DEF InEvents, selectVars
    <3>5. kind[o] = "listener" =>
            \A g \in Fd : ArmedAt(g, e)' => interests'[g].mask \subseteq {"in", "err"}
      BY <1>5, <1>7, <1>15, <3>2
    <3> QED BY <1>8, <2>1, <2>3, <3>1, <3>2, <3>3, <3>4, <3>5 DEF AcceptOK, IoEvent
  <2> QED BY <2>2, <2>3
<1> QED BY <1>9, <1>10, <1>11, <1>12, <1>13, <1>16, <1>17 DEF IInv, Structure, AcceptInv

(* epoll_ctl fails.                                                        *)
LEMMA FailIInv ==
  ASSUME IInv, NEW o \in Socket, EpollCtl(o), CtlFails(pc[o], fd[o]), Goto(o, "undo")
  PROVE  IInv'
<1>t. TypeOK /\ StageInv BY DEF IInv, Structure
<1>1. /\ pc[o] \in {"add", "mod"} /\ UNCHANGED <<kind, fd, op, eventVars, ready, selectVars>>
      /\ pc' = [pc EXCEPT ![o] = "undo"] /\ UNCHANGED interests
  BY DEF EpollCtl, CtlFails, Goto
<1>2. failures' \in 0..MaxFailure
  BY <1>t, EpollAssumption, SMT DEF CtlFails, TypeOK, RegistryTypeOK
<1>3. /\ pc'[o] = "undo" /\ \A n \in Socket : n # o => pc'[n] = pc[n]
      /\ pc' \in [Socket -> Place]
  BY <1>t, <1>1 DEF TypeOK, Place
<1>4. TypeOK'
  BY <1>t, <1>1, <1>2, <1>3 DEF TypeOK, RegistryTypeOK, eventVars, selectVars
<1>5. StageInv' BY <1>t, <1>1, <1>3 DEF StageInv, Waiting
<1>6. \A n \in Socket : NeedsAbsent(n)' => NeedsAbsent(n) BY <1>1, <1>3 DEF NeedsAbsent
<1>7. Structure' BY <1>1, <1>4, <1>5, <1>6, SameStructure
<1>8. OnWay'
  <2>1. \A f \in Fd, d \in Event : ArmedAt(f, d)' <=> ArmedAt(f, d) BY <1>1 DEF ArmedAt
  <2>2. \A d \in Event : (Waits(d)' <=> Waits(d)) /\ (Registers(d)' <=> Registers(d))
    BY <1>1, <1>3, EventFacts, SMT DEF Waits, Registers, Current
  <2> QED BY <1>1, <2>1, <2>2, SameOnWay DEF eventVars, selectVars
<1>9. \A n \in Socket : AcceptOK(n)'
  BY <1>1, <1>3, SameAccept DEF ArmedAt, InEvents, eventVars, selectVars
<1> QED BY <1>7, <1>8, <1>9 DEF IInv, AcceptInv

(* ... and the event is taken out of the vector again.                     *)
LEMMA UndoIInv ==
  ASSUME IInv, NEW o \in Socket, Undo(o) PROVE IInv'
<1>t. TypeOK /\ StageInv BY DEF IInv, Structure
<1>e. PICK e \in Event : e = Current(o) /\ e[1] = o BY EventFacts
<1>1. /\ pc[o] = "undo" /\ pc' = [pc EXCEPT ![o] = "stuck"]
      /\ registered_events_' = [registered_events_ EXCEPT ![e] = @ - 1]
      /\ UNCHANGED <<kind, fd, op, state_, interest_, future_, kernelVars, selectVars>>
  BY <1>e DEF Undo, Erase, Goto
<1>2. /\ registered_events_[e] = 1
      /\ ~InKernel(e) /\ ~InArray(e) /\ ~InEvents(e) /\ e \notin woken
  BY <1>e, <1>1, NowhereFacts DEF Registers
<1>3. /\ pc'[o] = "stuck" /\ \A n \in Socket : n # o => pc'[n] = pc[n]
      /\ pc' \in [Socket -> Place]
      /\ registered_events_'[e] = 0 /\ registered_events_' \in [Event -> 0..2]
      /\ \A d \in Event : d # e => registered_events_'[d] = registered_events_[d]
  BY <1>t, <1>1, <1>2, SMT DEF TypeOK, RegistryTypeOK, Place
<1>4. TypeOK' BY <1>t, <1>1, <1>3 DEF TypeOK, RegistryTypeOK, kernelVars, selectVars
<1>5. StageInv' BY <1>t, <1>1, <1>3 DEF StageInv, Waiting
<1>6. \A n \in Socket : NeedsAbsent(n)' => NeedsAbsent(n) BY <1>1, <1>3 DEF NeedsAbsent
<1>7. Structure' BY <1>1, <1>4, <1>5, <1>6, SameStructure DEF kernelVars
<1>8. OnWay'
  <2>1. \A f \in Fd, d \in Event : ArmedAt(f, d)' <=> ArmedAt(f, d)
    BY <1>1 DEF ArmedAt, kernelVars
  <2>2. MutexInv' BY <1>1 DEF IInv, OnWay, MutexInv, selectVars
  <2>3. \A d \in Event : d # e => (Waits(d)' <=> Waits(d)) /\ (Registers(d)' <=> Registers(d))
    BY <1>e, <1>1, <1>3, EventFacts, SMT DEF Waits, Registers, Current
  <2>4. \A d \in Event : d # e => WayOK(d)'
    BY <1>1, <1>3, <2>1, <2>3, SameWay DEF selectVars
  <2>5. ~InKernel(e)' /\ ~InArray(e)' /\ ~InEvents(e)' /\ e \notin woken'
    BY <1>1, <1>2, <2>1 DEF InKernel, InArray, InEvents, selectVars
  <2>6. ~Waits(e)' /\ ~Registers(e)' BY <1>e, <1>3 DEF Waits, Registers
  <2>7. HolderOK(e)' BY <2>5, <2>6 DEF HolderOK
  <2>8. AloneOK(e)' BY <2>5 DEF AloneOK, InEvents, InArray
  <2>9. ListOK(e)' BY <1>3, <2>5, <2>6 DEF ListOK
  <2> QED BY <2>2, <2>4, <2>7, <2>8, <2>9 DEF OnWay, WayOK
<1>9. \A n \in Socket : AcceptOK(n)'
  BY <1>1, <1>3, SameAccept DEF ArmedAt, InEvents, kernelVars, selectVars
<1> QED BY <1>7, <1>8, <1>9 DEF IInv, AcceptInv

(* A worker polls the woken future.                                        *)
LEMMA ResumeIInv ==
  ASSUME IInv, NEW o \in Socket, Resume(o) PROVE IInv'
<1>t. TypeOK /\ StageInv BY DEF IInv, Structure
<1>e. PICK e \in Event : e = Current(o) /\ e[1] = o BY EventFacts
<1>1. /\ pc[o] = "wait" /\ pc' = [pc EXCEPT ![o] = "poll"]
      /\ e \in woken /\ woken' = woken \ {e}
      /\ UNCHANGED <<kind, fd, op, eventVars, kernelVars, select_mutex_, epoll_events, events>>
  BY <1>e DEF Resume, Goto
<1>2. ~InKernel(e) /\ ~InArray(e) /\ ~InEvents(e) /\ registered_events_[e] = 0
  <2>1. AloneOK(e) /\ ListOK(e) BY DEF IInv, OnWay, WayOK
  <2>2. ~Registers(e) BY <1>e, <1>1 DEF Registers
  <2> QED BY <1>1, <2>1, <2>2 DEF AloneOK, ListOK
<1>3. /\ pc'[o] = "poll" /\ \A n \in Socket : n # o => pc'[n] = pc[n]
      /\ pc' \in [Socket -> Place]
  BY <1>t, <1>1 DEF TypeOK, Place
<1>4. TypeOK' BY <1>t, <1>1, <1>3 DEF TypeOK, RegistryTypeOK, eventVars, kernelVars
<1>5. StageInv' BY <1>t, <1>1, <1>3 DEF StageInv, Waiting
<1>6. \A n \in Socket : NeedsAbsent(n)' => NeedsAbsent(n) BY <1>1, <1>3 DEF NeedsAbsent
<1>7. Structure' BY <1>1, <1>4, <1>5, <1>6, SameStructure DEF kernelVars
<1>8. OnWay'
  <2>1. \A f \in Fd, d \in Event : ArmedAt(f, d)' <=> ArmedAt(f, d)
    BY <1>1 DEF ArmedAt, kernelVars
  <2>2. MutexInv' BY <1>1 DEF IInv, OnWay, MutexInv
  <2>3. \A d \in Event : d # e => (Waits(d)' <=> Waits(d)) /\ (Registers(d)' <=> Registers(d))
    BY <1>e, <1>1, <1>3, EventFacts, SMT DEF Waits, Registers, Current
  <2>4. \A d \in Event : d # e => WayOK(d)'
    BY <1>1, <2>1, <2>3, SameWay DEF eventVars
  <2>5. ~InKernel(e)' /\ ~InArray(e)' /\ ~InEvents(e)' /\ e \notin woken'
    BY <1>1, <1>2, <2>1 DEF InKernel, InArray, InEvents
  <2>6. ~Waits(e)' /\ ~Registers(e)' BY <1>e, <1>3 DEF Waits, Registers
  <2>7. HolderOK(e)' BY <2>5, <2>6 DEF HolderOK
  <2>8. AloneOK(e)' BY <2>5 DEF AloneOK, InEvents, InArray
  <2>9. ListOK(e)' BY <1>1, <1>2, <2>5, <2>6 DEF ListOK, eventVars
  <2> QED BY <2>2, <2>4, <2>7, <2>8, <2>9 DEF OnWay, WayOK
<1>9. ASSUME NEW n \in Socket PROVE AcceptOK(n)'
  <2>1. PICK d \in Event : d = IoEvent(n) /\ d[1] = n BY EventFacts
  <2>2. /\ kind'[n] = kind[n] /\ state_'[d] = state_[d] /\ interest_'[d] = interest_[d]
        /\ \A f \in Fd : ArmedAt(f, d)' => interests'[f] = interests[f]
        /\ \A r \in epoll_events' : r.ptr = d => r \in epoll_events
        /\ InEvents(d)' \/ d \in woken' => InEvents(d) \/ d \in woken
    BY <1>1 DEF InEvents, eventVars, kernelVars
  <2>3. CASE n # o \/ d = e
    <3>1. pc'[n] \in {"none", "poll"} =>
            pc[n] \in {"none", "poll"} \/ InEvents(d) \/ d \in woken
      BY <1>1, <1>3, <2>3
    <3> QED BY <2>1, <2>2, <3>1, SameAccept
  <2>4. CASE n = o /\ d # e
    <3>1. op[o] \in {"connect", "connected"} BY <1>e, <2>1, <2>4, EventFacts
    <3>2. kind[o] \in {"socket", "bound"} BY <1>t, <3>1 DEF StageInv
    <3>3. AcceptOK(o) BY DEF IInv, AcceptInv
    <3> QED BY <2>1, <2>2, <2>4, <3>2, <3>3 DEF AcceptOK, IoEvent
  <2> QED BY <2>3, <2>4
<1> QED BY <1>7, <1>8, <1>9 DEF IInv, AcceptInv

-----------------------------------------------------------------------------
(* epoll_wait fills the array and disarms what it reports.                 *)
LEMMA WaitIInv ==
  ASSUME IInv, NEW w \in Thread, NEW R \in SUBSET Fd, EpollWait(w, R), UNCHANGED netVars
  PROVE  IInv'
<1>t. TypeOK /\ StageInv BY DEF IInv, Structure
<1>1. /\ select_mutex_ = None /\ select_mutex_' = w /\ w # None /\ R # {}
      /\ \A f \in R : f \in Fd /\ Reports(f) # {}
      /\ epoll_events' = {[ptr |-> interests[f].ptr, bits |-> Reports(f)] : f \in R}
      /\ interests' = [f \in Fd |-> IF f \in R THEN [interests[f] EXCEPT !.mask = {}]
                                               ELSE interests[f]]
      /\ UNCHANGED <<eventVars, ready, failures, events, woken, kind, fd, op, pc>>
  BY EpollAssumption DEF EpollWait, Reportable, netVars
<1>2. epoll_events = {} BY <1>1 DEF IInv, OnWay, MutexInv
<1>3. \A f \in R : /\ interests[f].mask # {} /\ interests[f].mask \in SUBSET Bit
                   /\ Reports(f) \in SUBSET interests[f].mask
  BY <1>t, <1>1 DEF Reports, TypeOK, RegistryTypeOK
<1>4. \A f \in R : interests[f].ptr \in Event
                   /\ fd[interests[f].ptr[1]] = f
                   /\ ArmedAt(f, interests[f].ptr)
  BY <1>1, <1>3, ArmedFacts, EventFacts, SMT
<1>5. /\ \A f \in Fd : f \notin R => interests'[f] = interests[f]
      /\ \A f \in R : interests'[f].ptr = interests[f].ptr /\ interests'[f].mask = {}
      /\ interests' \in [Fd -> [ptr : Event \cup {None}, mask : SUBSET Bit]]
  <2>1. interests \in [Fd -> [ptr : Event \cup {None}, mask : SUBSET Bit]]
    BY <1>t DEF TypeOK, RegistryTypeOK
  <2>2. ASSUME NEW f \in Fd
        PROVE  /\ [interests[f] EXCEPT !.mask = {}]
                    \in [ptr : Event \cup {None}, mask : SUBSET Bit]
               /\ [interests[f] EXCEPT !.mask = {}].ptr = interests[f].ptr
               /\ [interests[f] EXCEPT !.mask = {}].mask = {}
    BY <2>1
  <2> QED BY <1>1, <2>1, <2>2
<1>6. \A r \in epoll_events' : \E f \in R : /\ r.ptr = interests[f].ptr /\ r.bits = Reports(f)
                                            /\ r = [ptr |-> interests[f].ptr, bits |-> Reports(f)]
  BY <1>1, SMT
<1>7. ASSUME NEW f \in R PROVE \E r \in epoll_events' : r.ptr = interests[f].ptr
  <2>1. [ptr |-> interests[f].ptr, bits |-> Reports(f)] \in epoll_events' BY <1>1
  <2> QED BY <2>1
<1>8. epoll_events' \subseteq [ptr : Event, bits : SUBSET Bit]
  <2>1. \A f \in R : Reports(f) \in SUBSET Bit BY <1>3
  <2> QED BY <1>1, <1>4, <2>1, SMT
<1>9. TypeOK' BY <1>t, <1>1, <1>5, <1>8 DEF TypeOK, RegistryTypeOK, eventVars
<1>10. StageInv' BY <1>t, <1>1 DEF StageInv
<1>11. Structure'
  <2>1. \A f \in Fd : \/ interests'[f] = interests[f]
                      \/ interests[f] # Absent /\ interests'[f].ptr = interests[f].ptr
    BY <1>3, <1>5, SMT DEF Absent
  <2>2. \A n \in Socket : NeedsAbsent(n)' => NeedsAbsent(n) BY <1>1 DEF NeedsAbsent
  <2> QED BY <1>1, <1>9, <1>10, <2>1, <2>2, SameStructure
<1>12. \A f \in Fd, d \in Event : ArmedAt(f, d)' <=> ArmedAt(f, d) /\ f \notin R
  BY <1>5 DEF ArmedAt
<1>13. MutexInv'
  <2>1. epoll_events' # {} BY <1>1
  <2> QED BY <1>1, <2>1 DEF MutexInv
<1>14. ASSUME NEW d \in Event PROVE WayOK(d)'
  <2>w. (Waits(d)' <=> Waits(d)) /\ (Registers(d)' <=> Registers(d))
    BY <1>1 DEF Waits, Registers, Current
  <2>1. CASE \A f \in R : interests[f].ptr # d
    <3>1. \A f \in Fd : ArmedAt(f, d)' <=> ArmedAt(f, d) BY <1>12, <2>1 DEF ArmedAt
    <3>2. \A r : r.ptr = d => (r \in epoll_events' <=> r \in epoll_events)
      BY <1>2, <1>6, <2>1, SMT
    <3> QED BY <1>1, <2>w, <3>1, <3>2, SameWay DEF eventVars
  <2>2. ASSUME NEW f \in R, interests[f].ptr = d PROVE WayOK(d)'
    <3>1. ArmedAt(f, d) /\ \A g \in Fd : ArmedAt(g, d) => g = f
      <4>1. ArmedAt(f, d) /\ fd[d[1]] = f BY <1>4, <2>2
      <4>2. \A g \in Fd : ArmedAt(g, d) => fd[d[1]] = g
        BY ArmedFacts, EventFacts, SMT DEF ArmedAt
      <4> QED BY <4>1, <4>2
    <3>2. InKernel(d) BY <1>1, <3>1 DEF InKernel
    <3>3. ~InArray(d) /\ ~InEvents(d) /\ d \notin woken /\ Waits(d) /\ registered_events_[d] = 1
      BY <3>2 DEF IInv, OnWay, WayOK, HolderOK, AloneOK, ListOK
    <3>4. ~InKernel(d)' BY <1>12, <2>2, <3>1 DEF InKernel
    <3>5. InArray(d)' BY <1>7, <2>2 DEF InArray
    <3>6. ~InEvents(d)' /\ d \notin woken' BY <1>1, <3>3 DEF InEvents
    <3>7. \A q, r \in epoll_events' : q.ptr = d /\ r.ptr = d => q = r
      <4>1. \A g \in R : interests[g].ptr = d => g = f BY <1>4, <3>1
      <4> QED BY <1>6, <4>1, SMT
    <3>8. HolderOK(d)' BY <2>w, <3>3, <3>5 DEF HolderOK
    <3>9. AloneOK(d)' BY <3>4, <3>6, <3>7 DEF AloneOK, InEvents
    <3>10. ListOK(d)' BY <1>1, <3>3, <3>5 DEF ListOK, eventVars
    <3> QED BY <3>8, <3>9, <3>10 DEF WayOK
  <2> QED BY <2>1, <2>2
<1>15. ASSUME NEW n \in Socket PROVE AcceptOK(n)'
  <2>1. PICK d \in Event : d = IoEvent(n) /\ d[1] = n BY EventFacts
  <2>2. AcceptOK(n) BY DEF IInv, AcceptInv
  <2>3. /\ \A f \in Fd : ArmedAt(f, d)' => interests'[f] = interests[f] /\ ArmedAt(f, d)
        /\ InEvents(d)' <=> InEvents(d)
        /\ UNCHANGED <<woken, state_, interest_, kind, pc>>
    BY <1>1, <1>5, <1>12 DEF InEvents, eventVars
  <2>4. ASSUME kind[n] = "listener", NEW r \in epoll_events', r.ptr = d
        PROVE  r.bits # {} /\ r.bits \subseteq {"in", "err"}
    <3>1. PICK f \in R : r.ptr = interests[f].ptr /\ r.bits = Reports(f) BY <1>6
    <3>2. ArmedAt(f, d) BY <1>4, <2>4, <3>1
    <3>3. interests[f].mask \subseteq {"in", "err"}
      BY <1>1, <2>1, <2>2, <2>4, <3>2 DEF AcceptOK
    <3> QED BY <1>1, <1>3, <3>1, <3>3
  <2> QED BY <2>1, <2>2, <2>3, <2>4 DEF AcceptOK, IoEvent
<1> QED BY <1>11, <1>13, <1>14, <1>15 DEF IInv, OnWay, AcceptInv

(* select finds the event of a report in the vector and hands it out.      *)
LEMMA CollectIInv ==
  ASSUME IInv, NEW w \in Thread, NEW r \in epoll_events, Collect(w, r), UNCHANGED netVars
  PROVE  IInv'
<1>t. TypeOK /\ StageInv BY DEF IInv, Structure
<1>e. PICK e \in Event : e = r.ptr BY <1>t DEF TypeOK, RegistryTypeOK
<1>1. /\ select_mutex_ = w /\ w # None
      /\ state_' = [state_ EXCEPT ![e] = to_state(r.bits)]
      /\ events' = [events EXCEPT ![w] = @ \cup {e}]
      /\ registered_events_' = [registered_events_ EXCEPT ![e] = @ - 1]
      /\ epoll_events' = epoll_events \ {r}
      /\ select_mutex_' = IF epoll_events = {r} THEN None ELSE w
      /\ UNCHANGED <<interest_, future_, kernelVars, woken, kind, fd, op, pc>>
  BY <1>e, EpollAssumption DEF Collect, Erase, netVars
<1>2. InArray(e) BY <1>e DEF InArray
<1>3. /\ ~InKernel(e) /\ ~InEvents(e) /\ e \notin woken /\ Waits(e) /\ registered_events_[e] = 1
      /\ \A q \in epoll_events : q.ptr = e => q = r
  BY <1>e, <1>2 DEF IInv, OnWay, WayOK, HolderOK, AloneOK, ListOK
<1>4. /\ \A v \in Thread : v # w => events'[v] = events[v]
      /\ events'[w] = events[w] \cup {e} /\ events' \in [Thread -> SUBSET Event]
      /\ registered_events_'[e] = 0 /\ registered_events_' \in [Event -> 0..2]
      /\ \A d \in Event : d # e => registered_events_'[d] = registered_events_[d]
  BY <1>t, <1>1, <1>3, SMT DEF TypeOK, RegistryTypeOK
<1>5. /\ state_'[e] = to_state(r.bits) /\ state_' \in [Event -> SUBSET Flag]
      /\ \A d \in Event : d # e => state_'[d] = state_[d]
  <2>1. to_state(r.bits) \in SUBSET Flag BY DEF to_state, Flag
  <2> QED BY <1>t, <1>1, <2>1 DEF TypeOK, RegistryTypeOK
<1>6. TypeOK'
  <2>1. epoll_events' \subseteq [ptr : Event, bits : SUBSET Bit] /\ select_mutex_' \in Thread \cup {None}
    BY <1>t, <1>1 DEF TypeOK, RegistryTypeOK
  <2> QED BY <1>t, <1>1, <1>4, <1>5, <2>1 DEF TypeOK, RegistryTypeOK, kernelVars
<1>7. StageInv' BY <1>t, <1>1 DEF StageInv
<1>8. Structure'
  <2>1. \A n \in Socket : NeedsAbsent(n)' => NeedsAbsent(n) BY <1>1 DEF NeedsAbsent
  <2> QED BY <1>1, <1>6, <1>7, <2>1, SameStructure DEF kernelVars
<1>9. MutexInv' BY <1>1 DEF MutexInv
<1>10. \A f \in Fd, d \in Event : ArmedAt(f, d)' <=> ArmedAt(f, d)
  BY <1>1 DEF ArmedAt, kernelVars
<1>11. \A d \in Event : (Waits(d)' <=> Waits(d)) /\ (Registers(d)' <=> Registers(d))
  BY <1>1 DEF Waits, Registers, Current
<1>12. ASSUME NEW d \in Event, d # e PROVE WayOK(d)'
  <2>1. \A q : q.ptr = d => (q \in epoll_events' <=> q \in epoll_events)
    BY <1>e, <1>1, <1>12
  <2>2. \A v \in Thread : d \in events'[v] <=> d \in events[v] BY <1>4, <1>12
  <2> QED BY <1>1, <1>4, <1>10, <1>11, <1>12, <2>1, <2>2, SameWay
<1>13. WayOK(e)'
  <2>1. ~InKernel(e)' /\ ~InArray(e)' /\ InEvents(e)' /\ e \notin woken'
    BY <1>1, <1>3, <1>4, <1>10 DEF InKernel, InArray, InEvents
  <2>2. Waits(e)' /\ ~Registers(e)' BY <1>3, <1>11 DEF Waits, Registers
  <2>3. \A u, v \in Thread : e \in events'[u] /\ e \in events'[v] => u = v
    BY <1>3, <1>4, SMT DEF InEvents
  <2>4. HolderOK(e)' BY <2>1, <2>2 DEF HolderOK
  <2>5. AloneOK(e)' BY <2>1, <2>3 DEF AloneOK, InArray
  <2>6. ListOK(e)' BY <1>4, <2>1, <2>2 DEF ListOK
  <2> QED BY <2>4, <2>5, <2>6 DEF WayOK
<1>14. ASSUME NEW n \in Socket PROVE AcceptOK(n)'
  <2>1. PICK d \in Event : d = IoEvent(n) /\ d[1] = n BY EventFacts
  <2>2. AcceptOK(n) BY DEF IInv, AcceptInv
  <2>3. CASE d # e
    <3>1. /\ InEvents(d)' \/ d \in woken' => InEvents(d) \/ d \in woken
          /\ \A q \in epoll_events' : q.ptr = d => q \in epoll_events
          /\ \A f \in Fd : ArmedAt(f, d)' => interests'[f] = interests[f]
      BY <1>1, <1>4, <2>3 DEF InEvents, kernelVars
    <3> QED BY <1>1, <1>5, <2>1, <2>3, <3>1, SameAccept
  <2>4. CASE d = e
    <3>1. kind[n] \in {"stream", "listener"}
      <4>1. pc[n] = "wait" /\ d = Current(n) BY <1>3, <2>1, <2>4 DEF Waits
      <4>2. op[n] \notin {"connect", "connected"} BY <2>1, <4>1, EventFacts, SMT DEF IoEvent
      <4> QED BY <1>t, <4>1, <4>2 DEF StageInv, TypeOK, Op
    <3>2. kind[n] = "listener" => to_state(r.bits) \cap {"Error", "Readable"} # {}
      BY <1>e, <2>1, <2>2, <2>4 DEF AcceptOK, to_state
    <3>3. kind[n] = "listener" => /\ \A q \in epoll_events' : q.ptr # e
                                  /\ \A f \in Fd : ~ArmedAt(f, e)'
                                  /\ interest_'[e] = "Read"
      BY <1>1, <1>3, <1>10, <2>1, <2>2, <2>4 DEF AcceptOK, InKernel
    <3> QED BY <1>1, <1>5, <2>1, <2>4, <3>1, <3>2, <3>3 DEF AcceptOK, IoEvent
  <2> QED BY <2>3, <2>4
<1> QED BY <1>8, <1>9, <1>12, <1>13, <1>14 DEF IInv, OnWay, AcceptInv

(* The thread that was handed the event wakes its future.                  *)
LEMMA WakeIInv ==
  ASSUME IInv, NEW w \in Thread, NEW e \in events[w], Wake(w, e), UNCHANGED netVars
  PROVE  IInv'
<1>t. TypeOK /\ StageInv BY DEF IInv, Structure
<1>e. e \in Event BY <1>t DEF TypeOK, RegistryTypeOK
<1>1. /\ future_' = [future_ EXCEPT ![e] = FALSE]
      /\ events' = [events EXCEPT ![w] = @ \ {e}]
      /\ woken' = woken \cup {e}
      /\ UNCHANGED <<registered_events_, state_, interest_, kernelVars, select_mutex_,
                     epoll_events, kind, fd, op, pc>>
  BY DEF Wake, netVars
<1>2. InEvents(e) BY DEF InEvents
<1>3. /\ ~InKernel(e) /\ ~InArray(e) /\ Waits(e) /\ registered_events_[e] = 0
      /\ \A v \in Thread : e \in events[v] => v = w
  <2>1. HolderOK(e) /\ AloneOK(e) /\ ListOK(e) BY <1>e DEF IInv, OnWay, WayOK
  <2>2. ~InKernel(e) /\ ~InArray(e) /\ Waits(e) BY <1>2, <2>1 DEF HolderOK, AloneOK
  <2>3. ~Registers(e) BY <2>2 DEF Waits, Registers
  <2>4. registered_events_[e] = 0 BY <2>1, <2>2, <2>3 DEF ListOK
  <2>5. \A v \in Thread : e \in events[v] => v = w BY <2>1 DEF AloneOK
  <2> QED BY <2>2, <2>4, <2>5
<1>4. /\ \A v \in Thread : v # w => events'[v] = events[v]
      /\ events'[w] = events[w] \ {e} /\ events' \in [Thread -> SUBSET Event]
  BY <1>t, <1>1 DEF TypeOK, RegistryTypeOK
<1>5. TypeOK'
  <2>1. future_' \in [Event -> BOOLEAN] BY <1>t, <1>1 DEF TypeOK, RegistryTypeOK
  <2> QED BY <1>t, <1>e, <1>1, <1>4, <2>1 DEF TypeOK, RegistryTypeOK, kernelVars
<1>6. StageInv' BY <1>t, <1>1 DEF StageInv
<1>7. Structure'
  <2>1. \A n \in Socket : NeedsAbsent(n)' => NeedsAbsent(n) BY <1>1 DEF NeedsAbsent
  <2> QED BY <1>1, <1>5, <1>6, <2>1, SameStructure DEF kernelVars
<1>8. MutexInv' BY <1>1 DEF IInv, OnWay, MutexInv
<1>9. \A f \in Fd, d \in Event : ArmedAt(f, d)' <=> ArmedAt(f, d)
  BY <1>1 DEF ArmedAt, kernelVars
<1>10. \A d \in Event : (Waits(d)' <=> Waits(d)) /\ (Registers(d)' <=> Registers(d))
  BY <1>1 DEF Waits, Registers, Current
<1>11. ASSUME NEW d \in Event, d # e PROVE WayOK(d)'
  <2>1. \A v \in Thread : d \in events'[v] <=> d \in events[v] BY <1>4, <1>11
  <2> QED BY <1>1, <1>9, <1>10, <1>11, <2>1, SameWay
<1>12. WayOK(e)'
  <2>1. ~InKernel(e)' /\ ~InArray(e)' /\ ~InEvents(e)' /\ e \in woken'
    BY <1>e, <1>1, <1>3, <1>4, <1>9 DEF InKernel, InArray, InEvents
  <2>2. Waits(e)' /\ ~Registers(e)' BY <1>e, <1>3, <1>10 DEF Waits, Registers
  <2>3. HolderOK(e)' BY <2>1, <2>2 DEF HolderOK
  <2>4. AloneOK(e)' BY <2>1 DEF AloneOK, InArray, InEvents
  <2>5. ListOK(e)' BY <1>1, <1>3, <2>1, <2>2 DEF ListOK
  <2> QED BY <2>3, <2>4, <2>5 DEF WayOK
<1>13. ASSUME NEW n \in Socket PROVE AcceptOK(n)'
  <2>1. PICK d \in Event : d = IoEvent(n) BY EventFacts
  <2>2. InEvents(d)' \/ d \in woken' => InEvents(d) \/ d \in woken
    BY <1>1, <1>2, <1>4 DEF InEvents
  <2> QED BY <1>1, <2>1, <2>2, SameAccept DEF kernelVars
<1> QED BY <1>e, <1>7, <1>8, <1>11, <1>12, <1>13 DEF IInv, OnWay, AcceptInv

-----------------------------------------------------------------------------
(* Before the first call no object exists and the kernel knows nothing.    *)
LEMMA InitIInv == Init => IInv
<1> SUFFICES ASSUME Init PROVE IInv OBVIOUS
<1> USE EpollAssumption DEF Init, RegistryInit
<1>1. TypeOK
  <2>1. /\ interests \in [Fd -> [ptr : Event \cup {None}, mask : SUBSET Bit]]
        /\ ready \in [Fd -> SUBSET Bit]
    BY DEF Absent
  <2>2. interest_ \in [Event -> {"Read", "Write", "All"}] OBVIOUS
  <2> QED BY <2>1, <2>2, SMT DEF TypeOK, RegistryTypeOK, Kind, Op, Place
<1>2. StageInv /\ FdInv BY DEF StageInv, FdInv
<1>3. OwnDescriptor /\ AbsentInv BY DEF OwnDescriptor, AbsentInv
<1>4. \A f \in Fd : interests[f].mask = {} BY DEF Absent
<1>5. \A e \in Event : ~InKernel(e) /\ ~InArray(e) /\ ~InEvents(e) /\ e \notin woken
  BY <1>4 DEF InKernel, ArmedAt, InArray, InEvents
<1>6. \A e \in Event : ~Waits(e) /\ ~Registers(e) BY EventFacts DEF Waits, Registers
<1>7. OnWay
  <2>1. MutexInv BY DEF MutexInv
  <2>2. ASSUME NEW e \in Event PROVE WayOK(e)
    <3>1. HolderOK(e) BY <1>5, <1>6 DEF HolderOK
    <3>2. AloneOK(e) BY <1>5 DEF AloneOK
    <3>3. ListOK(e) BY <1>5, <1>6 DEF ListOK
    <3> QED BY <3>1, <3>2, <3>3 DEF WayOK
  <2> QED BY <2>1, <2>2 DEF OnWay
<1>8. AcceptInv
  <2>1. \A o \in Socket : state_[IoEvent(o)] = {} /\ kind[o] = "unborn" BY EventFacts
  <2> QED BY <2>1 DEF AcceptInv, AcceptOK
<1> QED BY <1>1, <1>2, <1>3, <1>7, <1>8 DEF IInv, Structure

(* What the poll of a future does: it registers, returns, accepts or ends  *)
(* a connect.  It never waits without having registered.                   *)
Poll(o) == PollConnect(o) \/ PollAccept(o) \/ PollRead(o) \/ PollWrite(o)
(* The poll of every future is one of the steps above; in particular the   *)
(* last branch of the poll in accept is never taken.                       *)
LEMMA PollCases ==
  ASSUME IInv, NEW o \in Socket, Poll(o)
  PROVE  \/ \E place, interest : Enters(o, place, interest)
         \/ Returns(o) /\ UNCHANGED <<kind, fd>>
         \/ ConnectEnds(o)
         \/ \E n \in Socket : \E f \in FreeFd : AcceptNew(o, n, f)
<1>t. TypeOK /\ StageInv BY DEF IInv, Structure
<1>r. ready \in [Fd -> SUBSET Bit] BY <1>t DEF TypeOK, RegistryTypeOK
<1>b. \A bit : [ready EXCEPT ![fd[o]] = @ \ {bit}] \in [Fd -> SUBSET Bit] BY <1>r
<1>1. ASSUME NEW interest \in {"Read", "Write"}, RegisterFor(o, interest), pc[o] = "poll",
             op[o] \in {"connect", "accept", "read", "write"},
             op[o] = "accept" => interest = "Read"
      PROVE  Enters(o, "add", interest)
  BY <1>1 DEF RegisterFor, Enters
<1>2. ASSUME NEW interest \in {"Read", "Write"}, ReregisterFor(o, interest), pc[o] = "poll",
             op[o] \in {"accept", "read", "write"}, op[o] = "accept" => interest = "Read"
      PROVE  Enters(o, "mod", interest)
  BY <1>2 DEF ReregisterFor, Enters
<1>3. CASE PollConnect(o)
  <2>1. pc[o] = "poll" /\ op[o] = "connect" BY <1>3 DEF PollConnect, Polls
  <2>2. CASE RegisterFor(o, "Write") BY <1>1, <2>1, <2>2
  <2>3. CASE ~RegisterFor(o, "Write") BY <1>3, <2>3 DEF PollConnect, ConnectEnds
  <2> QED BY <2>2, <2>3
<1>4. CASE PollRead(o)
  <2>1. pc[o] = "poll" /\ op[o] = "read" BY <1>4 DEF PollRead, Polls
  <2>2. CASE RegisterFor(o, "Read") BY <1>1, <2>1, <2>2
  <2>3. CASE ReregisterFor(o, "Read") BY <1>2, <2>1, <2>3
  <2>4. CASE ~RegisterFor(o, "Read") /\ ~ReregisterFor(o, "Read")
    <3>1. /\ Done(o) /\ ready' \in [Fd -> SUBSET Bit]
          /\ \/ UNCHANGED state_
             \/ state_' = [state_ EXCEPT ![IoEvent(o)] = @ \ {"Readable"}]
          /\ UNCHANGED <<kind, fd, registered_events_, interest_, future_, interests,
                         failures, selectVars>>
      BY <1>4, <1>r, <1>b, <2>4 DEF PollRead
    <3> QED BY <2>1, <3>1 DEF Returns
  <2> QED BY <2>2, <2>3, <2>4
<1>5. CASE PollWrite(o)
  <2>1. pc[o] = "poll" /\ op[o] = "write" BY <1>5 DEF PollWrite, Polls
  <2>2. CASE RegisterFor(o, "Write") BY <1>1, <2>1, <2>2
  <2>3. CASE ReregisterFor(o, "Write") BY <1>2, <2>1, <2>3
  <2>4. CASE ~RegisterFor(o, "Write") /\ ~ReregisterFor(o, "Write")
    <3>1. /\ Done(o) /\ ready' \in [Fd -> SUBSET Bit]
          /\ UNCHANGED <<kind, fd, eventVars, interests, failures, selectVars>>
      BY <1>5, <1>r, <1>b, <2>4 DEF PollWrite
    <3> QED BY <2>1, <3>1 DEF Returns, eventVars
  <2> QED BY <2>2, <2>3, <2>4
<1>6. CASE PollAccept(o)
  <2>1. pc[o] = "poll" /\ op[o] = "accept" /\ kind[o] = "listener"
    BY <1>t, <1>6 DEF PollAccept, Polls, StageInv
  <2>2. Current(o) = IoEvent(o) BY <2>1, EventFacts
  <2>3. interest_[Current(o)] = "Read" /\ (Unregistered(o) \/ Has(o, {"Error", "Readable"}))
    BY <2>1, <2>2 DEF IInv, AcceptInv, AcceptOK, Unregistered, Has
  <2>4. Has(o, {"Error", "Readable"}) => Has(o, {"Error"}) \/ Has(o, {"Readable"}) BY DEF Has
  <2>5. \/ RegisterFor(o, "Read")
        \/ Done(o) /\ UNCHANGED <<kind, fd, registryVars>>
        \/ ReregisterFor(o, interest_[Current(o)])
        \/ /\ \E n \in Socket, f \in FreeFd, more \in BOOLEAN :
                /\ kind[n] = "unborn"
                /\ kind' = [kind EXCEPT ![n] = "stream"]
                /\ fd' = [fd EXCEPT ![n] = f]
                /\ ready' = IF more THEN ready ELSE [ready EXCEPT ![fd[o]] = @ \ {"in"}]
           /\ Done(o)
           /\ UNCHANGED <<eventVars, interests, failures, selectVars>>
    BY <1>6, <2>3, <2>4 DEF PollAccept
  <2>6. CASE RegisterFor(o, "Read") BY <1>1, <2>1, <2>6
  <2>7. CASE ReregisterFor(o, interest_[Current(o)])
    BY <1>2, <2>1, <2>3, <2>7
  <2>8. CASE Done(o) /\ UNCHANGED <<kind, fd, registryVars>>
    BY <1>r, <2>1, <2>8 DEF Returns, registryVars, eventVars, kernelVars
  <2>9. ASSUME NEW n \in Socket, NEW f \in FreeFd, NEW more \in BOOLEAN,
               kind[n] = "unborn", kind' = [kind EXCEPT ![n] = "stream"],
               fd' = [fd EXCEPT ![n] = f],
               ready' = IF more THEN ready ELSE [ready EXCEPT ![fd[o]] = @ \ {"in"}],
               Done(o), UNCHANGED <<eventVars, interests, failures, selectVars>>
        PROVE  AcceptNew(o, n, f)
    <3>1. ready' \in [Fd -> SUBSET Bit] BY <1>r, <1>b, <2>9
    <3> QED BY <2>1, <2>9, <3>1 DEF AcceptNew, Polls
  <2> QED BY <2>5, <2>6, <2>7, <2>8, <2>9
<1> QED BY <1>3, <1>4, <1>5, <1>6 DEF Poll

(* Every call of the program, every step of a future, of the driver and of *)
(* the kernel keeps the invariant.                                         *)
LEMMA NextIInv == IInv /\ [Next]_vars => IInv'
<1> SUFFICES ASSUME IInv, [Next]_vars PROVE IInv' OBVIOUS
<1>1. ASSUME NEW o \in Socket, User(o) PROVE IInv'
  BY <1>1, TurnIInv, CallIInv, KernelIInv, DelIInv DEF User
<1>2. ASSUME NEW o \in Socket, Poll(o) PROVE IInv'
  BY <1>2, PollCases, EnterIInv, ReturnIInv, DelIInv, AcceptIInv
<1>3. ASSUME NEW o \in Socket, EpollCtl(o) PROVE IInv'
  <2>1. \/ CtlSucceeds(pc[o], Current(o), fd[o]) /\ Goto(o, "wait")
        \/ CtlFails(pc[o], fd[o]) /\ Goto(o, "undo")
    BY <1>3 DEF EpollCtl
  <2> QED BY <1>3, <2>1, ArmIInv, FailIInv
<1>4. ASSUME NEW o \in Socket, Step(o) PROVE IInv'
  BY <1>2, <1>3, <1>4, UndoIInv, ResumeIInv, DeregisteredIInv, CloseIInv DEF Step, Poll
<1>5. ASSUME NEW o \in Socket, Abort(o) \/ \E bit \in Bit : Arrive(o, bit) PROVE IInv'
  BY <1>5, KernelIInv
<1>6. ASSUME NEW w \in Thread, Select(w) PROVE IInv'
  BY <1>6, WaitIInv, CollectIInv, WakeIInv DEF Select
<1>7. CASE UNCHANGED vars
  <2> USE <1>7 DEF vars, registryVars, eventVars, kernelVars, selectVars, netVars
  <2>1. \A f, e : ArmedAt(f, e)' <=> ArmedAt(f, e) BY DEF ArmedAt
  <2>2. \A e : InEvents(e)' <=> InEvents(e) BY DEF InEvents
  <2>3. TypeOK' /\ StageInv' BY DEF IInv, Structure, TypeOK, RegistryTypeOK, StageInv
  <2>4. \A o \in Socket : NeedsAbsent(o)' <=> NeedsAbsent(o) BY DEF NeedsAbsent
  <2>5. Structure' BY <2>3, <2>4, SameStructure
  <2>6. \A e : (Waits(e)' <=> Waits(e)) /\ (Registers(e)' <=> Registers(e))
    BY DEF Waits, Registers, Current
  <2>7. OnWay' BY <2>1, <2>6, SameOnWay
  <2>8. \A o \in Socket : AcceptOK(o)' BY <2>1, <2>2, SameAccept
  <2> QED BY <2>5, <2>7, <2>8 DEF IInv, AcceptInv
<1> QED BY <1>1, <1>4, <1>5, <1>6, <1>7 DEF Next

(* The interest list of epoll, the vector registered_events_ and the       *)
(* futures that wait agree at every moment, for any number of objects,     *)
(* descriptors and failing calls.                                          *)
THEOREM Invariance == Spec => []IInv
BY InitIInv, NextIInv, PTL DEF Spec

(* An entry of the kernel's interest list points to the event of the       *)
(* object that owns the descriptor now: no pointer outlives a close, a     *)
(* listen or a completed connect, however often descriptors are used again.*)
THEOREM OwnsDescriptor == Spec => []OwnDescriptor
<1>1. IInv => OwnDescriptor BY DEF IInv, Structure
<1> QED BY <1>1, Invariance, PTL

(* The sets that the properties count, in terms of the places.             *)
LEMMA PlaceFacts ==
  ASSUME NEW e
  PROVE  /\ Armed(e) = {} <=> ~InKernel(e)
         /\ Taken(e) = {} <=> ~InArray(e)
         /\ Reported(e) = {} <=> ~InEvents(e) /\ e \notin woken
<1>1. Armed(e) = {} <=> ~InKernel(e) BY DEF Armed, InKernel, ArmedAt
<1>2. Taken(e) = {} <=> ~InArray(e) BY DEF Taken, InArray
<1>3. Reported(e) = {} <=> ~InEvents(e) /\ e \notin woken
  <2> DEFINE E == {<<"events", w>> : w \in {v \in Thread : e \in events[v]}}
             W == {<<"woken", x>> : x \in woken \cap {e}}
  <2>1. E = {} <=> ~InEvents(e) BY DEF InEvents
  <2>2. W = {} <=> e \notin woken OBVIOUS
  <2>3. Reported(e) = E \cup W BY DEF Reported
  <2> HIDE DEF E, W
  <2> QED BY <2>1, <2>2, <2>3
<1> QED BY <1>1, <1>2, <1>3

(* A waiting event has one place.                                          *)
LEMMA OnePlace ==
  ASSUME IInv, NEW e \in Event, Waits(e) PROVE \E x : Reporting(e) = {x}
<1> DEFINE E == {<<"events", w>> : w \in {v \in Thread : e \in events[v]}}
           W == {<<"woken", x>> : x \in woken \cap {e}}
<1>w. HolderOK(e) /\ AloneOK(e) BY DEF IInv, OnWay, WayOK
<1>1. CASE InKernel(e)
  <2>1. PICK f \in Fd : ArmedAt(f, e) BY <1>1 DEF InKernel
  <2>2. \A g \in Fd : ArmedAt(g, e) => fd[e[1]] = g BY ArmedFacts, EventFacts, SMT DEF ArmedAt
  <2>3. \A g \in Fd : ArmedAt(g, e) => g = f BY <2>1, <2>2
  <2>4. Armed(e) = {<<"kernel", f>>} BY <2>1, <2>3 DEF Armed, ArmedAt
  <2>5. Taken(e) = {} /\ Reported(e) = {} BY <1>1, <1>w, PlaceFacts DEF AloneOK
  <2> QED BY <2>4, <2>5 DEF Reporting
<1>2. CASE InArray(e)
  <2>1. PICK r \in epoll_events : r.ptr = e BY <1>2 DEF InArray
  <2>2. \A q \in epoll_events : q.ptr = e => q = r BY <1>w, <2>1 DEF AloneOK
  <2>3. Taken(e) = {<<"array", r.bits>>} BY <2>1, <2>2 DEF Taken
  <2>4. Armed(e) = {} /\ Reported(e) = {} BY <1>2, <1>w, PlaceFacts DEF AloneOK
  <2> QED BY <2>3, <2>4 DEF Reporting
<1>3. CASE InEvents(e)
  <2>1. PICK w \in Thread : e \in events[w] BY <1>3 DEF InEvents
  <2>2. \A v \in Thread : e \in events[v] => v = w BY <1>w, <2>1 DEF AloneOK
  <2>3. E = {<<"events", w>>} BY <2>1, <2>2
  <2>4. W = {} BY <1>3, <1>w DEF AloneOK
  <2>5. Reported(e) = {<<"events", w>>} BY <2>3, <2>4 DEF Reported
  <2>6. Armed(e) = {} /\ Taken(e) = {} BY <1>3, <1>w, PlaceFacts DEF AloneOK
  <2> QED BY <2>5, <2>6 DEF Reporting
<1>4. CASE e \in woken
  <2>1. W = {<<"woken", e>>} BY <1>4
  <2>2. E = {} BY <1>4, <1>w DEF AloneOK, InEvents
  <2>3. Reported(e) = {<<"woken", e>>} BY <2>1, <2>2 DEF Reported
  <2>4. Armed(e) = {} /\ Taken(e) = {} BY <1>4, <1>w, PlaceFacts DEF AloneOK
  <2> QED BY <2>3, <2>4 DEF Reporting
<1> QED BY <1>w, <1>1, <1>2, <1>3, <1>4 DEF HolderOK

(* A call that waits has its event in exactly one place on the way from    *)
(* the kernel to the queue of the scheduler, and what does not wait has    *)
(* none: no wakeup of a socket call is lost or happens twice.              *)
THEOREM EventsWaitOnce == Spec => []WaitsOnce
<1>1. IInv => WaitsOnce
  <2> SUFFICES ASSUME IInv, NEW e \in Event
               PROVE  Cardinality(Reporting(e)) =
                        IF pc[e[1]] = "wait" /\ e = Current(e[1]) THEN 1 ELSE 0
    BY DEF WaitsOnce, IInv, Structure
  <2>1. CASE Waits(e)
    <3>1. PICK x : Reporting(e) = {x} BY <2>1, OnePlace
    <3> QED BY <2>1, <3>1, FS_Singleton DEF Waits
  <2>2. CASE ~Waits(e)
    <3>1. ~InKernel(e) /\ ~InArray(e) /\ ~InEvents(e) /\ e \notin woken
      BY <2>2 DEF IInv, OnWay, WayOK, HolderOK
    <3>2. Reporting(e) = {} BY <3>1, PlaceFacts DEF Reporting
    <3> QED BY <2>2, <3>2, FS_EmptySet DEF Waits
  <2> QED BY <2>1, <2>2
<1> QED BY <1>1, Invariance, PTL

(* registered_events_ has exactly the events that are being registered or  *)
(* are on their way to select, once each: select finds every event it is   *)
(* told of, and no event is kept alive for nothing.                        *)
THEOREM ListIsExact == Spec => []ListExact
<1>1. IInv => ListExact
  <2> SUFFICES ASSUME IInv, NEW e \in Event
               PROVE  registered_events_[e] =
                        IF /\ e = Current(e[1])
                           /\ \/ pc[e[1]] \in {"add", "mod", "undo"}
                              \/ pc[e[1]] = "wait" /\ Armed(e) \cup Taken(e) # {}
                        THEN 1 ELSE 0
    BY DEF ListExact
  <2>1. HolderOK(e) /\ ListOK(e) BY DEF IInv, OnWay, WayOK
  <2>2. Armed(e) \cup Taken(e) # {} <=> InKernel(e) \/ InArray(e) BY PlaceFacts
  <2> QED BY <2>1, <2>2 DEF HolderOK, ListOK, Waits, Registers
<1> QED BY <1>1, Invariance, PTL

(* The vector, the array of epoll_wait and the lists of the threads are    *)
(* together a registry as the scheduler expects it, although no lock       *)
(* covers the vector and the kernel's interest list together.              *)
THEOREM ImplementsEventRegistry == Spec => ImplementsRegistry
<1> DEFINE held == {e \in Event : registered_events_[e] > 0}
           happened == {r.ptr : r \in epoll_events}
           reported == woken \cup UNION {events[w] : w \in Thread}
<1>1. Init => Contract!Init BY SMT DEF Init, RegistryInit, Contract!Init
<1>2. IInv /\ [Next]_vars => [Contract!Next]_Contract!vars
  <2> SUFFICES ASSUME IInv, [Next]_vars PROVE [Contract!Next]_Contract!vars OBVIOUS
  <2>t. TypeOK BY DEF IInv, Structure
  <2>h. /\ \A e \in Event : e \in held <=> registered_events_[e] > 0
        /\ \A e : e \in happened <=> InArray(e)
        /\ \A e : e \in reported <=> e \in woken \/ InEvents(e)
    BY DEF InArray, InEvents
  <2>p. /\ \A e \in Event : e \in held' <=> registered_events_'[e] > 0
        /\ \A e : e \in happened' <=> InArray(e)'
        /\ \A e : e \in reported' <=> e \in woken' \/ InEvents(e)'
    BY DEF InArray, InEvents
  <2>s. held \subseteq Event /\ held' \subseteq Event OBVIOUS
  <2>n. /\ (\E e \in Event : Contract!Register(e) \/ Contract!Poll(e) \/ Contract!Withdraw(e))
             => Contract!Next
        /\ (\E S \in SUBSET Event : Contract!Happen(S) \/ Contract!Select(S)) => Contract!Next
    BY DEF Contract!Next
  <2>q. ASSUME UNCHANGED <<registered_events_, epoll_events, events, woken>>
        PROVE  UNCHANGED Contract!vars
    BY <2>q DEF Contract!vars
  <2>1. ASSUME NEW o \in Socket, NEW place, NEW interest, Enters(o, place, interest)
        PROVE  Contract!Next
    <3>1. PICK e \in Event : e = Current(o) /\ e[1] = o BY EventFacts
    <3>2. /\ registered_events_' = [registered_events_ EXCEPT ![e] = @ + 1]
          /\ UNCHANGED selectVars /\ pc[o] = "poll"
      BY <2>1, <3>1 DEF Enters, PushBack
    <3>3. registered_events_[e] = 0 /\ ~InEvents(e) /\ e \notin woken
      BY <3>1, <3>2, NowhereFacts DEF Registers
    <3>4. held' = held \cup {e} BY <2>t, <3>2, <3>3, SMT DEF TypeOK, RegistryTypeOK
    <3>5. happened' = happened /\ reported' = reported BY <3>2 DEF selectVars
    <3>6. e \notin held \cup reported BY <2>h, <3>3, SMT
    <3>7. Contract!Register(e) BY <3>4, <3>5, <3>6 DEF Contract!Register
    <3> QED BY <2>n, <3>7
  <2>2. ASSUME NEW o \in Socket, Undo(o) PROVE Contract!Next
    <3>1. PICK e \in Event : e = Current(o) /\ e[1] = o BY EventFacts
    <3>2. /\ registered_events_' = [registered_events_ EXCEPT ![e] = @ - 1]
          /\ UNCHANGED selectVars /\ pc[o] = "undo"
      BY <2>2, <3>1 DEF Undo, Erase
    <3>3. registered_events_[e] = 1 /\ ~InArray(e)
      BY <3>1, <3>2, NowhereFacts DEF Registers
    <3>4. held' = held \ {e} BY <2>t, <3>2, <3>3, SMT DEF TypeOK, RegistryTypeOK
    <3>5. happened' = happened /\ reported' = reported BY <3>2 DEF selectVars
    <3>6. e \in held \ happened BY <2>h, <3>3, SMT
    <3>7. Contract!Withdraw(e) BY <3>4, <3>5, <3>6 DEF Contract!Withdraw
    <3> QED BY <2>n, <3>7
  <2>3. ASSUME NEW o \in Socket, Resume(o) PROVE Contract!Next
    <3>1. PICK e \in Event : e = Current(o) BY EventFacts
    <3>2. /\ e \in woken /\ woken' = woken \ {e}
          /\ UNCHANGED <<registered_events_, epoll_events, events>>
      BY <2>3, <3>1 DEF Resume, eventVars
    <3>3. ~InEvents(e) BY <3>2 DEF IInv, OnWay, WayOK, AloneOK
    <3>4. held' = held /\ happened' = happened BY <3>2
    <3>5. \A d : InEvents(d)' <=> InEvents(d) BY <3>2 DEF InEvents
    <3>6. e \in reported /\ reported' = reported \ {e} BY <2>h, <2>p, <3>2, <3>3, <3>5
    <3>7. Contract!Poll(e) BY <3>4, <3>6 DEF Contract!Poll
    <3> QED BY <2>n, <3>7
  <2>4. ASSUME NEW w \in Thread, NEW R \in SUBSET Fd, EpollWait(w, R) PROVE Contract!Next
    <3>1. PICK S : S = {interests[f].ptr : f \in R} OBVIOUS
    <3>2. /\ select_mutex_ = None /\ \A f \in R : f \in Fd /\ Reports(f) # {}
          /\ epoll_events' = {[ptr |-> interests[f].ptr, bits |-> Reports(f)] : f \in R}
          /\ UNCHANGED <<registered_events_, events, woken>>
      BY <2>4 DEF EpollWait, Reportable, eventVars
    <3>3. epoll_events = {} BY <3>2 DEF IInv, OnWay, MutexInv
    <3>4. ASSUME NEW f \in R
          PROVE  interests[f].ptr \in Event /\ registered_events_[interests[f].ptr] = 1
      <4>1. f \in Fd /\ interests[f].mask # {}
        BY <2>t, <3>2 DEF Reports, TypeOK, RegistryTypeOK
      <4>2. PICK e \in Event : e = interests[f].ptr /\ ArmedAt(f, e)
        BY <4>1, ArmedFacts, EventFacts
      <4>3. InKernel(e) BY <4>1, <4>2 DEF InKernel
      <4> QED BY <4>2, <4>3 DEF IInv, OnWay, WayOK, ListOK
    <3>5. S \in SUBSET Event /\ S \subseteq held BY <2>h, <3>1, <3>4, SMT
    <3>6. happened = {} BY <3>3
    <3>7. happened' = S
      <4>1. \A r \in epoll_events' : r.ptr \in S BY <3>1, <3>2, SMT
      <4>2. ASSUME NEW f \in R PROVE \E r \in epoll_events' : r.ptr = interests[f].ptr
        <5>1. [ptr |-> interests[f].ptr, bits |-> Reports(f)] \in epoll_events' BY <3>2
        <5> QED BY <5>1
      <4> QED BY <2>p, <3>1, <4>1, <4>2, SMT DEF InArray
    <3>8. held' = held /\ reported' = reported BY <3>2
    <3>9. Contract!Happen(S) BY <3>5, <3>6, <3>7, <3>8 DEF Contract!Happen
    <3> QED BY <2>n, <3>5, <3>9
  <2>5. ASSUME NEW w \in Thread, NEW r \in epoll_events, Collect(w, r) PROVE Contract!Next
    <3>1. PICK e \in Event : e = r.ptr BY <2>t DEF TypeOK, RegistryTypeOK
    <3>2. /\ events' = [events EXCEPT ![w] = @ \cup {e}]
          /\ registered_events_' = [registered_events_ EXCEPT ![e] = @ - 1]
          /\ epoll_events' = epoll_events \ {r} /\ UNCHANGED woken
      BY <2>5, <3>1 DEF Collect, Erase
    <3>3. InArray(e) BY <3>1 DEF InArray
    <3>4. registered_events_[e] = 1 /\ \A q \in epoll_events : q.ptr = e => q = r
      BY <3>1, <3>3 DEF IInv, OnWay, WayOK, AloneOK, ListOK
    <3>5. held' = held \ {e} BY <2>t, <3>2, <3>4, SMT DEF TypeOK, RegistryTypeOK
    <3>6. happened' = happened \ {e}
      <4>1. \A d : InArray(d)' <=> InArray(d) /\ d # e BY <3>1, <3>2, <3>4 DEF InArray
      <4> QED BY <2>h, <2>p, <4>1
    <3>7. reported' = reported \cup {e}
      <4>1. /\ events'[w] = events[w] \cup {e}
            /\ \A v \in Thread : v # w => events'[v] = events[v]
        BY <2>t, <3>2 DEF TypeOK, RegistryTypeOK
      <4>2. \A d : InEvents(d)' <=> InEvents(d) \/ d = e BY <4>1 DEF InEvents
      <4> QED BY <2>h, <2>p, <3>2, <4>2
    <3>8. {e} \subseteq happened BY <2>h, <3>3
    <3>9. Contract!Select({e}) BY <3>5, <3>6, <3>7, <3>8 DEF Contract!Select
    <3> QED BY <2>n, <3>9
  <2>6. ASSUME NEW w \in Thread, NEW e \in events[w], Wake(w, e)
        PROVE  UNCHANGED Contract!vars
    <3>1. /\ woken' = woken \cup {e} /\ events'[w] = events[w] \ {e}
          /\ \A v \in Thread : v # w => events'[v] = events[v]
          /\ UNCHANGED <<registered_events_, epoll_events>>
      BY <2>t, <2>6 DEF Wake, TypeOK, RegistryTypeOK
    <3>2. held' = held /\ happened' = happened BY <3>1
    <3>3. \A d : d \in woken' \/ InEvents(d)' <=> d \in woken \/ InEvents(d)
      BY <3>1 DEF InEvents
    <3>4. reported' = reported BY <2>h, <2>p, <3>3
    <3> QED BY <3>2, <3>4 DEF Contract!vars
  <2>7. ASSUME NEW w \in Thread, Select(w) PROVE [Contract!Next]_Contract!vars
    BY <2>4, <2>5, <2>6, <2>7 DEF Select
  <2>8. ASSUME NEW o \in Socket, Poll(o) PROVE [Contract!Next]_Contract!vars
    <3>1. CASE \E place, interest : Enters(o, place, interest) BY <2>1, <3>1
    <3>2. CASE Returns(o) \/ ConnectEnds(o)
               \/ \E n \in Socket : \E f \in FreeFd : AcceptNew(o, n, f)
      <4>1. UNCHANGED <<registered_events_, epoll_events, events, woken>>
        BY <3>2 DEF Returns, ConnectEnds, AcceptNew, eventVars, selectVars
      <4> QED BY <2>q, <4>1
    <3> QED BY <2>8, <3>1, <3>2, PollCases
  <2>9. ASSUME NEW o \in Socket, EpollCtl(o) \/ Close(o) PROVE UNCHANGED Contract!vars
    BY <2>9, <2>q DEF EpollCtl, Close, eventVars, selectVars
  <2>10. ASSUME NEW o \in Socket, Deregistered(o) PROVE UNCHANGED Contract!vars
    BY <2>10, <2>q, DeregisteredFacts DEF selectVars
  <2>11. ASSUME NEW o \in Socket, User(o) PROVE UNCHANGED Contract!vars
    <3>1. UNCHANGED <<registered_events_, epoll_events, events, woken>>
      BY <2>11 DEF User, NewSocket, Bind, Listen, ConnectAtOnce, Connect, Shutdown, Destroy,
                   Call, registryVars, eventVars, selectVars
    <3> QED BY <2>q, <3>1
  <2>12. ASSUME NEW o \in Socket, Abort(o) \/ \E bit \in Bit : Arrive(o, bit)
         PROVE  UNCHANGED Contract!vars
    BY <2>12, <2>q DEF Abort, Arrive, eventVars, selectVars
  <2>13. CASE UNCHANGED vars BY <2>13, <2>q DEF vars, registryVars, eventVars, selectVars
  <2> QED
    BY <2>2, <2>3, <2>7, <2>8, <2>9, <2>10, <2>11, <2>12, <2>13 DEF Next, Step, Poll
<1> QED BY <1>1, <1>2, Invariance, PTL DEF Spec, ImplementsRegistry, Contract!Spec
=============================================================================
