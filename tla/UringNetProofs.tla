--------------------------- MODULE UringNetProofs ---------------------------
(***************************************************************************)
(* Proofs about TCP sockets on io_uring, for any number of threads and     *)
(* objects, any size of the queues and any number of failing submissions.  *)
(***************************************************************************)
EXTENDS UringNet, FiniteSetTheorems, TLAPS

(* Most leaves are first-order reasoning without arithmetic.               *)
USE ZenonT(30)

(***************************************************************************)
(* The inductive invariant.  CallInv: an object has a place in a poll      *)
(* exactly when it has a call.  ListInv: the list of a thread holds the    *)
(* events of its own ring, each in one of its three queues, with the       *)
(* operation of the call that waits.  AloneInv: an event is on one ring,   *)
(* in the hands of one thread or in handles_.  HolderInv and PresentInv:   *)
(* these are the events of the calls that wait, and all of them.           *)
(* ResultInv: a result that has not been taken belongs to the call in      *)
(* progress.                                                               *)
(***************************************************************************)
Waiting == {e \in Event : pc[e[1]] = "wait" /\ e = Current(e[1])}
Ptr(queue) == {q.ptr : q \in queue}

CallInv ==
  /\ \A o \in Socket : op[o] = "none" <=> pc[o] = "none"
  /\ \A w \in Thread : IsFiniteSet(sq[w])

ListOK(w) ==
  /\ registered_events_[w] = Ptr(sq[w]) \cup Ptr(inflight[w]) \cup Ptr(cq[w])
  /\ Ptr(sq[w]) \cap Ptr(inflight[w]) = {}
  /\ (Ptr(sq[w]) \cup Ptr(inflight[w])) \cap Ptr(cq[w]) = {}
  /\ \A q \in sq[w] \cup inflight[w] \cup cq[w] : q.op = op[q.ptr[1]]
  /\ \A c, d \in cq[w] : c.ptr = d.ptr => c = d

ListInv == \A w \in Thread : ListOK(w)

AloneInv ==
  \A w, v \in Thread :
    /\ w # v => registered_events_[w] \cap registered_events_[v] = {}
    /\ w # v => events[w] \cap events[v] = {}
    /\ registered_events_[w] \cap events[v] = {}
    /\ (registered_events_[w] \cup events[w]) \cap woken = {}

HolderInv ==
  /\ woken \subseteq Waiting
  /\ \A w \in Thread : registered_events_[w] \cup events[w] \subseteq Waiting
  /\ \A e \in Registered : \E w \in Thread : e \in registered_events_[w]

PresentInv ==
  \A e \in Waiting : e \in woken \/ \E w \in Thread : e \in registered_events_[w] \cup events[w]

ResultInv ==
  \A e \in Completed :
    e = Current(e[1]) /\ pc[e[1]] \in {"wait", "poll"} /\ return_[e].op = op[e[1]]

IInv ==
  /\ TypeOK /\ CallInv /\ ListInv /\ AloneInv /\ HolderInv /\ PresentInv /\ ResultInv
  /\ StrandedByFailure

-----------------------------------------------------------------------------
(* The event of an object's call is one of the two of the object.          *)
LEMMA EventFacts ==
  /\ \A e \in Event : e[1] \in Socket
  /\ \A o \in Socket : Current(o) \in Event /\ Current(o)[1] = o
<1>1. \A e \in Event : e[1] \in Socket BY DEF Event
<1>2. \A o \in Socket : Current(o) \in Event /\ Current(o)[1] = o
  BY DEF Event, Current
<1> QED BY <1>1, <1>2

(* An object waits on one event, its current one.                          *)
LEMMA WaitingFacts ==
  /\ Waiting \subseteq Event
  /\ \A e \in Waiting : e[1] \in Socket /\ pc[e[1]] = "wait" /\ e = Current(e[1])
  /\ \A o \in Socket : pc[o] = "wait" => Current(o) \in Waiting
  BY EventFacts DEF Waiting

(* What Ptr does to the updates of the queues.                             *)
LEMMA PtrFacts ==
  /\ Ptr({}) = {}
  /\ \A A, B : Ptr(A \cup B) = Ptr(A) \cup Ptr(B)
  /\ \A q : Ptr({q}) = {q.ptr}
  /\ \A A : \A q \in A : q.ptr \in Ptr(A)
  /\ \A A : \A e \in Ptr(A) : \E q \in A : q.ptr = e
  BY DEF Ptr

(* Before any object exists.                                               *)
LEMMA InitIInv == Init => IInv
<1> SUFFICES ASSUME Init PROVE IInv OBVIOUS
<1> USE UringAssumption DEF Init
<1>1. TypeOK
  <2>1. \A w \in Thread : Cardinality(sq[w]) <= entries BY FS_EmptySet, SMT
  <2>2. return_ \in [Event -> [op : Op, res : Result]] BY DEF Nothing, Op, Result
  <2>3. op \in [Socket -> Op] BY DEF Op
  <2> QED BY <2>1, <2>2, <2>3, SMT DEF TypeOK
<1>2. CallInv BY FS_EmptySet DEF CallInv
<1>3. ListInv BY PtrFacts DEF ListInv, ListOK
<1>4. AloneInv /\ HolderInv BY DEF AloneInv, HolderInv
<1>5. Waiting = {} BY EventFacts DEF Waiting
<1>6. PresentInv /\ ResultInv BY <1>5 DEF PresentInv, ResultInv
<1>7. StrandedByFailure BY DEF StrandedByFailure
<1> QED BY <1>1, <1>2, <1>3, <1>4, <1>6, <1>7 DEF IInv

(* An object whose call does not wait for the registry has no event        *)
(* anywhere: its call and its place in it may change.                      *)
LEMMA CallStep ==
  ASSUME IInv, NEW o \in Socket, pc[o] # "wait", pc'[o] # "wait",
         \A x \in Socket : x # o => op'[x] = op[x] /\ pc'[x] = pc[x],
         UNCHANGED <<registered_events_, Registered, sq, inflight, cq, events, woken>>,
         TypeOK', op'[o] = "none" <=> pc'[o] = "none", ResultInv', StrandedByFailure'
  PROVE  IInv'
<1>1. \A e \in Waiting : e[1] \in Socket \ {o} BY WaitingFacts
<1>2. \A x \in Socket : x # o => Current(x)' = Current(x) BY DEF Current
<1>3. Waiting' = Waiting BY <1>1, <1>2, EventFacts DEF Waiting
<1>4. CallInv' BY DEF IInv, CallInv
<1>5. \A w \in Thread : \A q \in sq[w] \cup inflight[w] \cup cq[w] : q.ptr \in Waiting
  BY PtrFacts DEF IInv, ListInv, ListOK, HolderInv
<1>6. ListInv' BY <1>1, <1>5 DEF IInv, ListInv, ListOK
<1>7. AloneInv' BY DEF IInv, AloneInv
<1>8. HolderInv' BY <1>3 DEF IInv, HolderInv
<1>9. PresentInv' BY <1>3 DEF IInv, PresentInv
<1> QED BY <1>4, <1>6, <1>7, <1>8, <1>9 DEF IInv

(* Call: a new call on an object.                                          *)
LEMMA CallIInv ==
  ASSUME IInv, NEW o \in Socket, NEW call \in Op, Call(o, call)
  PROVE  IInv'
<1> USE DEF Call, Idle, ringVars, extraVars
<1>1. call # "none" BY DEF Allowed
<1>2. pc[o] = "none" BY DEF IInv, CallInv
<1>3. /\ op'[o] = call /\ pc'[o] = "poll"
      /\ \A x \in Socket : x # o => op'[x] = op[x] /\ pc'[x] = pc[x]
  BY DEF IInv, TypeOK
<1>4. TypeOK' BY DEF IInv, TypeOK
<1>5. ResultInv'
  <2>1. \A e \in Completed : e[1] \in Socket \ {o} BY <1>2, EventFacts DEF IInv, TypeOK, ResultInv
  <2> QED BY <1>3, <2>1 DEF IInv, ResultInv, Current
<1>6. StrandedByFailure' BY <1>3 DEF IInv, StrandedByFailure
<1> QED BY <1>1, <1>2, <1>3, <1>4, <1>5, <1>6, CallStep

(* Takes: the result is taken and the call ends.                           *)
LEMMA TakesIInv ==
  ASSUME IInv, NEW o \in Socket, pc[o] = "poll", Takes(o),
         kind' \in [Socket -> {"unborn", "socket", "bound", "listener", "stream", "gone"}]
  PROVE  IInv'
<1> USE DEF Takes, ringVars
<1>1. /\ op'[o] = "none" /\ pc'[o] = "none"
      /\ \A x \in Socket : x # o => op'[x] = op[x] /\ pc'[x] = pc[x]
  BY DEF IInv, TypeOK
<1>2. TypeOK' BY DEF IInv, TypeOK, Op
<1>3. ResultInv'
  <2>1. \A e \in Completed' : e \in Completed /\ e[1] \in Socket \ {o}
    BY EventFacts DEF IInv, TypeOK, ResultInv
  <2> QED BY <1>1, <2>1, SMT DEF IInv, ResultInv, Current
<1>4. StrandedByFailure' BY <1>1 DEF IInv, StrandedByFailure
<1> QED BY <1>1, <1>2, <1>3, <1>4, CallStep

(* Destroy: the object goes, and a result with it.                         *)
LEMMA DestroyIInv ==
  ASSUME IInv, NEW o \in Socket, Destroy(o)
  PROVE  IInv'
<1> USE DEF Destroy, Idle, ringVars
<1>1. pc[o] = "none" BY DEF IInv, CallInv
<1>2. Nothing \in [op : Op, res : Result] BY DEF Nothing, Op, Result
<1>3. TypeOK' BY <1>2 DEF IInv, TypeOK
<1>4. ResultInv'
  <2>1. \A e \in Completed : e \in Event /\ e[1] \in Socket \ {o}
    BY <1>1, EventFacts DEF IInv, TypeOK, ResultInv
  <2>2. \A e \in Completed : return_'[e] = return_[e]
    BY <2>1, SMT DEF IInv, TypeOK
  <2> QED BY <2>1, <2>2 DEF IInv, ResultInv, Current
<1>5. StrandedByFailure' BY DEF IInv, StrandedByFailure
<1> QED BY <1>1, <1>3, <1>4, <1>5, CallStep DEF IInv, CallInv

(* new_v4 and new_v6, bind and listen.                                     *)
LEMMA KindIInv ==
  ASSUME IInv, NEW o \in Socket, NewSocket(o) \/ Bind(o) \/ Listen(o)
  PROVE  IInv'
<1> USE DEF NewSocket, Bind, Listen, Idle, ringVars, extraVars
<1>1. UNCHANGED <<ringVars, extraVars, cq, events, woken, op, pc>> OBVIOUS
<1>2. TypeOK' BY DEF IInv, TypeOK
<1> HIDE DEF NewSocket, Bind, Listen
<1>3. ResultInv' BY <1>1 DEF IInv, ResultInv, Current
<1>4. CallInv' /\ ListInv' /\ AloneInv' /\ StrandedByFailure'
  BY <1>1 DEF IInv, CallInv, ListInv, ListOK, AloneInv, StrandedByFailure
<1>5. Waiting' = Waiting BY <1>1 DEF Waiting, Current
<1>6. HolderInv' /\ PresentInv' BY <1>1, <1>5 DEF IInv, HolderInv, PresentInv
<1> QED BY <1>2, <1>3, <1>4, <1>6 DEF IInv

(* Resume: the woken future is polled.                                     *)
LEMMA ResumeIInv ==
  ASSUME IInv, NEW o \in Socket, Resume(o)
  PROVE  IInv'
<1> USE DEF Resume, ringVars, extraVars
<1>1. PICK e \in Event : e = Current(o) /\ e[1] = o BY EventFacts
<1>2. /\ pc'[o] = "poll" /\ woken' = woken \ {e} /\ e \in woken
      /\ \A x \in Socket : x # o => pc'[x] = pc[x]
      /\ UNCHANGED <<ringVars, extraVars, cq, events, kind, op>>
  BY <1>1 DEF IInv, TypeOK
<1>3. TypeOK' BY DEF IInv, TypeOK
<1> HIDE DEF Resume
<1>4. Waiting' = Waiting \ {e}
  BY <1>1, <1>2, EventFacts, SMT DEF Waiting, Current
<1>5. op[o] # "none" BY DEF IInv, CallInv, Resume
<1>6. CallInv' BY <1>2, <1>5 DEF IInv, CallInv
<1>7. ListInv' BY <1>2 DEF IInv, ListInv, ListOK
<1>8. AloneInv' BY <1>2 DEF IInv, AloneInv
<1>9. HolderInv'
  <2>1. \A w \in Thread : e \notin registered_events_[w] \cup events[w]
    BY <1>2 DEF IInv, AloneInv
  <2> QED BY <1>2, <1>4, <2>1 DEF IInv, HolderInv
<1>10. PresentInv' BY <1>2, <1>4 DEF IInv, PresentInv
<1>11. ResultInv'
  <2>1. \A f \in Completed : f[1] \in Socket BY EventFacts DEF IInv, TypeOK
  <2> QED BY <1>2, <2>1 DEF IInv, ResultInv, Current
<1>12. StrandedByFailure' BY <1>2 DEF IInv, StrandedByFailure
<1> QED BY <1>3, <1>6, <1>7, <1>8, <1>9, <1>10, <1>11, <1>12 DEF IInv

(* io_uring_submit: the new entry and those left over are on the ring,     *)
(* each in one queue, and none stays behind without a failure.             *)
LEMMA SubmitFacts ==
  ASSUME IInv, NEW w \in Thread, NEW q \in Entry, q.ptr \notin registered_events_[w],
         Submit(w, {q})
  PROVE  /\ sq' \in [Thread -> SUBSET Entry] /\ inflight' \in [Thread -> SUBSET Entry]
         /\ \A v \in Thread : IsFiniteSet(sq'[v]) /\ Cardinality(sq'[v]) <= entries
         /\ failures' \in 0..MaxFailure
         /\ sq'[w] \cup inflight'[w] = sq[w] \cup inflight[w] \cup {q}
         /\ Ptr(sq'[w]) \cap Ptr(inflight'[w]) = {}
         /\ \A v \in Thread : v # w => sq'[v] = sq[v] /\ inflight'[v] = inflight[v]
         /\ failures > 0 \/ (\E v \in Thread : sq'[v] # {}) => failures' > 0
<1>1. /\ sq \in [Thread -> SUBSET Entry] /\ inflight \in [Thread -> SUBSET Entry]
      /\ \A v \in Thread : IsFiniteSet(sq[v]) /\ Cardinality(sq[v]) <= entries
      /\ failures \in 0..MaxFailure /\ entries \in Nat \ {0} /\ MaxFailure \in Nat
  BY UringAssumption DEF IInv, TypeOK, CallInv
<1>2. /\ q.ptr \notin Ptr(sq[w]) /\ q.ptr \notin Ptr(inflight[w])
      /\ Ptr(sq[w]) \cap Ptr(inflight[w]) = {}
  BY DEF IInv, ListInv, ListOK
<1>3. failures = 0 => \A v \in Thread : sq[v] = {}
  BY <1>1, SMT DEF IInv, StrandedByFailure
<1>4. CASE /\ sq' = [sq EXCEPT ![w] = {}]
           /\ inflight' = [inflight EXCEPT ![w] = @ \cup sq[w] \cup {q}]
           /\ UNCHANGED failures
  <2>1. \A v \in Thread : IsFiniteSet(sq'[v]) /\ Cardinality(sq'[v]) <= entries
    BY <1>1, <1>4, FS_EmptySet, SMT
  <2>2. Ptr(sq'[w]) \cap Ptr(inflight'[w]) = {} BY <1>1, <1>4, PtrFacts
  <2>3. /\ sq' \in [Thread -> SUBSET Entry] /\ inflight' \in [Thread -> SUBSET Entry]
        /\ sq'[w] \cup inflight'[w] = sq[w] \cup inflight[w] \cup {q}
        /\ \A v \in Thread : v # w => sq'[v] = sq[v] /\ inflight'[v] = inflight[v]
    BY <1>1, <1>4
  <2>4. failures > 0 \/ (\E v \in Thread : sq'[v] # {}) => failures' > 0
    BY <1>1, <1>3, <1>4, SMT
  <2> QED BY <1>1, <1>4, <2>1, <2>2, <2>3, <2>4
<1>5. CASE \E sent \in SUBSET sq[w] :
             /\ failures < MaxFailure /\ failures' = failures + 1
             /\ Cardinality((sq[w] \ sent) \cup {q}) <= entries
             /\ sq' = [sq EXCEPT ![w] = (@ \ sent) \cup {q}]
             /\ inflight' = [inflight EXCEPT ![w] = @ \cup sent]
  <2>1. PICK sent \in SUBSET sq[w] :
          /\ sq'[w] = (sq[w] \ sent) \cup {q} /\ inflight'[w] = inflight[w] \cup sent
          /\ Cardinality(sq'[w]) <= entries
    BY <1>1, <1>5
  <2>2. IsFiniteSet(sq'[w])
    <3>1. IsFiniteSet(sq[w] \ sent) BY <1>1, FS_Difference
    <3>2. IsFiniteSet((sq[w] \ sent) \cup {q}) BY <3>1, FS_AddElement
    <3> QED BY <2>1, <3>2
  <2>3. /\ sq' \in [Thread -> SUBSET Entry] /\ inflight' \in [Thread -> SUBSET Entry]
        /\ \A v \in Thread : v # w => sq'[v] = sq[v] /\ inflight'[v] = inflight[v]
    BY <1>1, <1>5
  <2>4. sq'[w] \cup inflight'[w] = sq[w] \cup inflight[w] \cup {q} BY <2>1
  <2>5. Ptr(sq'[w]) \cap Ptr(inflight'[w]) = {}
    <3>1. ASSUME NEW x \in sq[w], NEW y \in sq[w], x.ptr = y.ptr PROVE x = y
      <4>1. x \in Entry /\ y \in Entry /\ x.op = y.op
        <5>1. \A z \in sq[w] : z.op = op[z.ptr[1]] BY DEF IInv, ListInv, ListOK
        <5>2. x.op = op[x.ptr[1]] /\ y.op = op[x.ptr[1]] BY <3>1, <5>1
        <5> QED BY <1>1, <5>2
      <4> QED BY <3>1, <4>1, SMT DEF Entry
    <3>2. ASSUME NEW x \in sq'[w], NEW y \in inflight'[w] PROVE x.ptr # y.ptr
      <4>1. \A z \in sq[w] : z.ptr \in Ptr(sq[w]) BY DEF Ptr
      <4>2. \A z \in inflight[w] : z.ptr \in Ptr(inflight[w]) BY DEF Ptr
      <4>3. CASE x = q BY <1>2, <2>1, <3>2, <4>1, <4>2, <4>3
      <4>4. CASE x \in sq[w] \ sent
        <5>1. CASE y \in inflight[w] BY <1>2, <4>1, <4>2, <4>4, <5>1
        <5>2. CASE y \in sent BY <3>1, <4>4, <5>2
        <5> QED BY <2>1, <3>2, <5>1, <5>2
      <4> QED BY <2>1, <3>2, <4>3, <4>4
    <3> QED BY <3>2 DEF Ptr
  <2>6. \A v \in Thread : IsFiniteSet(sq'[v]) /\ Cardinality(sq'[v]) <= entries
    BY <1>1, <2>1, <2>2, <2>3
  <2>7. failures' \in 0..MaxFailure /\ failures' > 0 BY <1>1, <1>5, SMT
  <2> QED BY <2>3, <2>4, <2>5, <2>6, <2>7
<1> QED BY <1>4, <1>5 DEF Submit

(* Submits: the first poll of a call registers its event.                  *)
LEMMA SubmitsIInv ==
  ASSUME IInv, NEW w \in Thread, NEW o \in Socket, pc[o] = "poll", Submits(w, o)
  PROVE  IInv'
<1> DEFINE e == Current(o)
           q == [ptr |-> e, op |-> op[o]]
<1>1. e \in Event /\ e[1] = o /\ q \in Entry /\ q.ptr = e /\ q.op = op[o]
  BY EventFacts DEF IInv, TypeOK, Entry
<1>2. op[o] # "none" BY DEF IInv, CallInv
<1>3. /\ e \notin Waiting /\ e \notin Registered /\ e \notin woken /\ e \notin Completed
      /\ \A v \in Thread : e \notin registered_events_[v] \cup events[v]
  BY <1>1, WaitingFacts DEF IInv, HolderInv, Submits
<1>4. CASE /\ Submit(w, {q})
           /\ registered_events_' = [registered_events_ EXCEPT ![w] = @ \cup {e}]
           /\ Registered' = Registered \cup {e}
           /\ pc' = [pc EXCEPT ![o] = "wait"]
  <2>f. PICK f \in Event, r \in Entry :
          f = e /\ r = q /\ f[1] = o /\ f = Current(o) /\ r.ptr = f /\ r.op = op[o]
    BY <1>1
  <2> HIDE DEF e, q
  <2>1. /\ registered_events_'[w] = registered_events_[w] \cup {f}
        /\ \A v \in Thread : v # w => registered_events_'[v] = registered_events_[v]
        /\ pc'[o] = "wait" /\ \A x \in Socket : x # o => pc'[x] = pc[x]
        /\ Registered' = Registered \cup {f}
        /\ UNCHANGED <<Completed, return_, cq, events, woken, kind, op>>
    BY <1>4, <2>f DEF IInv, TypeOK, Submits
  <2>2. /\ sq' \in [Thread -> SUBSET Entry] /\ inflight' \in [Thread -> SUBSET Entry]
        /\ \A v \in Thread : IsFiniteSet(sq'[v]) /\ Cardinality(sq'[v]) <= entries
        /\ failures' \in 0..MaxFailure
        /\ sq'[w] \cup inflight'[w] = sq[w] \cup inflight[w] \cup {r}
        /\ Ptr(sq'[w]) \cap Ptr(inflight'[w]) = {}
        /\ \A v \in Thread : v # w => sq'[v] = sq[v] /\ inflight'[v] = inflight[v]
        /\ failures > 0 \/ (\E v \in Thread : sq'[v] # {}) => failures' > 0
    BY <1>3, <1>4, <2>f, SubmitFacts
  <2>3. TypeOK'
    <3>1. future_' \subseteq Event BY <1>1 DEF Submits, IInv, TypeOK, e
    <3>2. /\ registered_events_' \in [Thread -> SUBSET Event]
          /\ pc' \in [Socket -> {"none", "poll", "wait", "stuck"}]
      BY <1>1, <1>4 DEF IInv, TypeOK
    <3>3. Registered' \subseteq Event BY <2>1 DEF IInv, TypeOK
    <3> QED BY <2>1, <2>2, <3>1, <3>2, <3>3 DEF IInv, TypeOK
  <2>4. CallInv' BY <1>2, <2>1, <2>2 DEF IInv, CallInv
  <2>5. ListInv'
    <3>1. \A v \in Thread : v # w =>
            UNCHANGED <<registered_events_[v], sq[v], inflight[v], cq[v]>>
      BY <2>1, <2>2
    <3>2. Ptr(sq'[w]) \cup Ptr(inflight'[w]) = Ptr(sq[w]) \cup Ptr(inflight[w]) \cup {f}
      BY <2>2, <2>f, PtrFacts, SMT
    <3>3. \A x \in sq'[w] \cup inflight'[w] \cup cq[w] : x.op = op[x.ptr[1]]
      BY <2>2, <2>f DEF IInv, ListInv, ListOK
    <3>4. f \notin Ptr(cq[w]) BY <1>3, <2>f DEF IInv, ListInv, ListOK
    <3>5. ListOK(w)'
      <4>1. ListOK(w) /\ cq' = cq /\ op' = op BY <2>1 DEF IInv, ListInv
      <4>2. registered_events_'[w] = Ptr(sq'[w]) \cup Ptr(inflight'[w]) \cup Ptr(cq'[w])
        BY <2>1, <3>2, <4>1 DEF ListOK
      <4>3. (Ptr(sq'[w]) \cup Ptr(inflight'[w])) \cap Ptr(cq'[w]) = {}
        BY <3>2, <3>4, <4>1 DEF ListOK
      <4> QED BY <2>2, <3>3, <4>1, <4>2, <4>3 DEF ListOK
    <3>6. \A v \in Thread : v # w => ListOK(v)' BY <2>1, <3>1, SMTT(30) DEF IInv, ListInv, ListOK
    <3> QED BY <3>5, <3>6 DEF ListInv
  <2>6. AloneInv' BY <1>3, <2>1, <2>f, SMT DEF IInv, AloneInv
  <2>7. Waiting' = Waiting \cup {f}
    BY <2>1, <2>f, EventFacts, SMT DEF Waiting, Current
  <2>8. HolderInv' BY <2>1, <2>7 DEF IInv, HolderInv
  <2>9. PresentInv' BY <2>1, <2>7 DEF IInv, PresentInv
  <2>10. ResultInv'
    <3>1. \A g \in Completed : g[1] \in Socket BY EventFacts DEF IInv, TypeOK
    <3> QED BY <2>1, <3>1 DEF IInv, ResultInv, Current
  <2>11. StrandedByFailure'
    <3>1. \A x \in Socket : pc'[x] = "stuck" => pc[x] = "stuck" BY <2>1
    <3> QED BY <2>2, <3>1 DEF IInv, StrandedByFailure
  <2> QED BY <2>3, <2>4, <2>5, <2>6, <2>8, <2>9, <2>10, <2>11 DEF IInv
<1>5. CASE /\ failures < MaxFailure /\ failures' = failures + 1
           /\ pc' = [pc EXCEPT ![o] = "stuck"]
           /\ UNCHANGED <<registered_events_, Registered, sq, inflight>>
  <2>1. /\ pc'[o] = "stuck" /\ \A x \in Socket : x # o => pc'[x] = pc[x]
        /\ UNCHANGED <<Completed, return_, cq, events, woken, kind, op>>
    BY <1>5 DEF IInv, TypeOK, Submits
  <2>2. TypeOK'
    <3>1. future_' \subseteq Event BY <1>1 DEF Submits, IInv, TypeOK
    <3>2. failures' \in 0..MaxFailure BY <1>5, UringAssumption, SMT DEF IInv, TypeOK
    <3> QED BY <1>5, <2>1, <3>1, <3>2 DEF IInv, TypeOK
  <2>3. ResultInv'
    <3>1. \A g \in Completed : g[1] \in Socket \ {o}
      BY <1>1, <1>3, EventFacts, SMT DEF IInv, TypeOK, ResultInv
    <3> QED BY <2>1, <3>1 DEF IInv, ResultInv, Current
  <2>4. StrandedByFailure' BY <1>5, SMT DEF IInv, TypeOK, StrandedByFailure
  <2> QED BY <1>2, <1>5, <2>1, <2>2, <2>3, <2>4, CallStep
<1> QED BY <1>3, <1>4, <1>5 DEF Submits, Register

(* Select: the events of all completions go from the ring to the thread.   *)
LEMMA SelectIInv ==
  ASSUME IInv, NEW w \in Thread, Select(w)
  PROVE  IInv'
<1>1. PICK S : S = Ptr(cq[w]) OBVIOUS
<1>2. /\ events' = [events EXCEPT ![w] = S]
      /\ registered_events_' = [registered_events_ EXCEPT ![w] = @ \ S]
      /\ cq' = [cq EXCEPT ![w] = {}]
      /\ Completed' = Completed \cup S /\ Registered' = Registered \ S
      /\ UNCHANGED <<future_, sq, inflight, failures, woken, kind, op, pc>>
      /\ events[w] = {}
  BY <1>1 DEF Select, Ptr, netVars
<1>3. S \subseteq registered_events_[w] /\ S \subseteq Waiting /\ S \subseteq Event
  BY <1>1, WaitingFacts DEF IInv, ListInv, ListOK, HolderInv
<1>4. /\ return_' \in [Event -> [op : Op, res : Result]]
      /\ \A e \in S : return_'[e].op = op[e[1]]
      /\ \A e \in Event \ S : return_'[e] = return_[e]
  <2> DEFINE d(e) == CHOOSE c \in cq[w] : c.ptr = e
  <2>1. return_' = [e \in Event |-> IF \E c \in cq[w] : c.ptr = e
                                    THEN [op |-> d(e).op, res |-> d(e).res]
                                    ELSE return_[e]]
    BY DEF Select
  <2>2. \A e \in S : \E c \in cq[w] : c.ptr = e BY <1>1, PtrFacts
  <2>3. \A e : (\E c \in cq[w] : c.ptr = e) => e \in S BY <1>1, PtrFacts, SMT
  <2>4. \A e \in S : d(e) \in cq[w] /\ d(e).ptr = e BY <2>2
  <2> HIDE DEF d
  <2>5. \A e \in S : d(e).op \in Op /\ d(e).res \in Result /\ d(e).op = op[e[1]]
    BY <2>4, SMT DEF IInv, TypeOK, ListInv, ListOK
  <2>6. \A e \in Event : return_'[e] = IF e \in S THEN [op |-> d(e).op, res |-> d(e).res]
                                                   ELSE return_[e]
    BY <2>1, <2>2, <2>3
  <2>7. \A e \in Event : return_'[e] \in [op : Op, res : Result]
    <3>1. \A e \in S : [op |-> d(e).op, res |-> d(e).res] \in [op : Op, res : Result]
      BY <2>5
    <3>2. \A e \in Event : return_[e] \in [op : Op, res : Result] BY DEF IInv, TypeOK
    <3> QED BY <2>6, <3>1, <3>2
  <2>8. return_' \in [Event -> [op : Op, res : Result]] BY <2>1, <2>7
  <2>9. ASSUME NEW e \in S PROVE return_'[e].op = op[e[1]]
    <3>1. return_'[e] = [op |-> d(e).op, res |-> d(e).res] BY <1>3, <2>6
    <3> QED BY <2>5, <3>1, SMT
  <2> QED BY <2>6, <2>8, <2>9
<1>5. /\ events'[w] = S /\ registered_events_'[w] = registered_events_[w] \ S /\ cq'[w] = {}
      /\ \A v \in Thread : v # w => /\ events'[v] = events[v] /\ cq'[v] = cq[v]
                                    /\ registered_events_'[v] = registered_events_[v]
  BY <1>2 DEF IInv, TypeOK
<1>6. TypeOK'
  <2>1. /\ events' \in [Thread -> SUBSET Event]
        /\ registered_events_' \in [Thread -> SUBSET Event]
        /\ cq' \in [Thread -> SUBSET [ptr : Event, op : Op, res : Result]]
    BY <1>2, <1>3 DEF IInv, TypeOK
  <2> QED BY <1>2, <1>3, <1>4, <2>1 DEF IInv, TypeOK
<1>7. CallInv' BY <1>2 DEF IInv, CallInv
<1>8. ListInv'
  <2>1. \A v \in Thread : v # w =>
          UNCHANGED <<registered_events_[v], sq[v], inflight[v], cq[v]>>
    BY <1>2, <1>5
  <2>2. registered_events_'[w] = Ptr(sq[w]) \cup Ptr(inflight[w])
    BY <1>1, <1>5 DEF IInv, ListInv, ListOK
  <2>3. ListOK(w)'
    <3>1. cq'[w] = {} /\ Ptr(cq'[w]) = {} BY <1>5, PtrFacts
    <3>2. UNCHANGED <<sq[w], inflight[w], op>> BY <1>2
    <3> QED BY <2>2, <3>1, <3>2 DEF IInv, ListInv, ListOK
  <2>4. \A v \in Thread : v # w => ListOK(v)' BY <1>2, <2>1, SMT DEF IInv, ListInv, ListOK
  <2> QED BY <2>3, <2>4 DEF ListInv
<1>9. AloneInv' BY <1>2, <1>3, <1>5, SMT DEF IInv, AloneInv
<1>10. Waiting' = Waiting BY <1>2 DEF Waiting, Current
<1>11. HolderInv'
  <2>1. \A e \in Registered' : \E v \in Thread : e \in registered_events_'[v]
    BY <1>2, <1>5 DEF IInv, HolderInv
  <2> QED BY <1>2, <1>3, <1>5, <1>10, <2>1 DEF IInv, HolderInv
<1>12. PresentInv' BY <1>2, <1>5, <1>10 DEF IInv, PresentInv
<1>13. ResultInv'
  <2>1. \A e \in S : e = Current(e[1]) /\ pc[e[1]] = "wait" BY <1>3, WaitingFacts
  <2>2. \A e \in Completed \ S : return_'[e] = return_[e] BY <1>4 DEF IInv, TypeOK
  <2> QED BY <1>2, <1>4, <2>1, <2>2, SMT DEF IInv, ResultInv, Current
<1>14. StrandedByFailure' BY <1>2 DEF IInv, StrandedByFailure
<1> QED BY <1>6, <1>7, <1>8, <1>9, <1>11, <1>12, <1>13, <1>14 DEF IInv

(* Wake: an event goes from the thread to handles_.                        *)
LEMMA WakeIInv ==
  ASSUME IInv, NEW w \in Thread, NEW e \in events[w], Wake(w, e)
  PROVE  IInv'
<1> USE DEF ringVars, netVars
<1>1. /\ woken' = woken \cup {e} /\ events'[w] = events[w] \ {e}
      /\ \A v \in Thread : v # w => events'[v] = events[v]
      /\ UNCHANGED <<ringVars, Registered, Completed, return_, cq, netVars>>
  BY DEF Wake, IInv, TypeOK
<1>2. TypeOK' BY DEF Wake, IInv, TypeOK
<1>3. CallInv' /\ ListInv' /\ StrandedByFailure'
  BY <1>1 DEF IInv, CallInv, ListInv, ListOK, StrandedByFailure
<1>4. AloneInv'
  <2>1. AloneInv /\ registered_events_' = registered_events_ BY <1>1 DEF IInv
  <2>2. \A v \in Thread : events'[v] \subseteq events[v] BY <1>1
  <2>3. \A v \in Thread : e \notin registered_events_[v] /\ e \notin events'[v]
    BY <1>1, <2>1 DEF AloneInv
  <2> QED BY <1>1, <2>1, <2>2, <2>3, SMT DEF AloneInv
<1>5. Waiting' = Waiting BY <1>1 DEF Waiting, Current
<1>6. HolderInv' BY <1>1, <1>5 DEF IInv, HolderInv
<1>7. PresentInv' BY <1>1, <1>5 DEF IInv, PresentInv
<1>8. ResultInv' BY <1>1 DEF IInv, ResultInv, Current
<1> QED BY <1>2, <1>3, <1>4, <1>6, <1>7, <1>8 DEF IInv

(* Complete: the kernel moves an operation to the completion queue.        *)
LEMMA CompleteIInv ==
  ASSUME IInv, NEW w \in Thread, NEW q \in inflight[w], NEW res \in Result,
         Complete(w, q, res)
  PROVE  IInv'
<1> USE DEF extraVars, netVars
<1>0. [ptr |-> q.ptr, op |-> q.op, res |-> res] \in [ptr : Event, op : Op, res : Result]
  BY SMT DEF IInv, TypeOK, Entry
<1>1. PICK c \in [ptr : Event, op : Op, res : Result] :
        c = [ptr |-> q.ptr, op |-> q.op, res |-> res] /\ c.ptr = q.ptr /\ c.op = q.op
  BY <1>0
<1>2. /\ inflight' = [inflight EXCEPT ![w] = @ \ {q}]
      /\ cq' = [cq EXCEPT ![w] = @ \cup {c}]
      /\ UNCHANGED <<registered_events_, sq, failures, extraVars, events, woken, netVars>>
  BY <1>1 DEF Complete
<1>3. /\ inflight'[w] = inflight[w] \ {q} /\ cq'[w] = cq[w] \cup {c}
      /\ \A v \in Thread : v # w => inflight'[v] = inflight[v] /\ cq'[v] = cq[v]
  BY <1>2 DEF IInv, TypeOK
<1>4. TypeOK'
  <2>1. /\ inflight' \in [Thread -> SUBSET Entry]
        /\ cq' \in [Thread -> SUBSET [ptr : Event, op : Op, res : Result]]
    BY <1>2 DEF IInv, TypeOK
  <2> QED BY <1>2, <2>1 DEF IInv, TypeOK
<1>5. CallInv' /\ AloneInv' /\ StrandedByFailure'
  BY <1>2 DEF IInv, CallInv, AloneInv, StrandedByFailure
<1>6. ListInv'
  <2>1. Ptr(inflight'[w]) = Ptr(inflight[w]) \ {q.ptr}
    <3>1. \A r \in inflight[w] : r.ptr = q.ptr => r = q BY SMT DEF IInv, TypeOK, Entry, ListInv, ListOK
    <3> QED BY <1>3, <3>1 DEF Ptr
  <2>2. Ptr(cq'[w]) = Ptr(cq[w]) \cup {q.ptr} BY <1>1, <1>3, PtrFacts, SMT
  <2>3. q.ptr \in Ptr(inflight[w]) /\ q.op = op[q.ptr[1]] BY PtrFacts DEF IInv, ListInv, ListOK
  <2>4. \A r \in sq[w] \cup inflight'[w] \cup cq'[w] : r.op = op[r.ptr[1]]
    BY <1>1, <1>3, <2>3 DEF IInv, ListInv, ListOK
  <2>5. \A x, y \in cq'[w] : x.ptr = y.ptr => x = y
    <3>1. c.ptr \notin Ptr(cq[w]) BY <1>1, <2>3 DEF IInv, ListInv, ListOK
    <3>2. \A x \in cq[w] : x.ptr # c.ptr BY <3>1, PtrFacts
    <3> QED BY <1>3, <3>2 DEF IInv, ListInv, ListOK
  <2>6. \A v \in Thread : v # w =>
          UNCHANGED <<registered_events_[v], sq[v], inflight[v], cq[v]>>
    BY <1>2, <1>3
  <2>7. ListOK(w)'
    <3>1. ListOK(w) BY DEF IInv, ListInv
    <3>2. /\ registered_events_[w] = Ptr(sq[w]) \cup Ptr(inflight'[w]) \cup Ptr(cq'[w])
          /\ Ptr(sq[w]) \cap Ptr(inflight'[w]) = {}
          /\ (Ptr(sq[w]) \cup Ptr(inflight'[w])) \cap Ptr(cq'[w]) = {}
      BY <2>1, <2>2, <2>3, <3>1, SMTT(30) DEF ListOK
    <3> QED BY <1>2, <2>4, <2>5, <3>2 DEF ListOK
  <2>8. \A v \in Thread : v # w => ListOK(v)' BY <1>2, <2>6, SMT DEF IInv, ListInv, ListOK
  <2> QED BY <2>7, <2>8 DEF ListInv
<1>7. Waiting' = Waiting BY <1>2 DEF Waiting, Current
<1>8. HolderInv' /\ PresentInv' BY <1>2, <1>7 DEF IInv, HolderInv, PresentInv
<1>9. ResultInv' BY <1>2 DEF IInv, ResultInv, Current
<1> QED BY <1>4, <1>5, <1>6, <1>8, <1>9 DEF IInv

(* A poll submits the operation of the call, or takes its result.          *)
LEMMA PollCases ==
  ASSUME TypeOK, NEW w \in Thread, NEW o \in Socket, Poll(w, o)
  PROVE  /\ pc[o] = "poll"
         /\ \/ Submits(w, o)
            \/ /\ Takes(o)
               /\ kind' \in [Socket -> {"unborn", "socket", "bound", "listener", "stream",
                                        "gone"}]
  BY DEF TypeOK, Poll, Polls, PollConnect, PollAccept, PollRead, PollWrite, PollShutdown

(* Every step preserves the invariant.                                     *)
LEMMA NextIInv == IInv /\ [Next]_vars => IInv'
<1> SUFFICES ASSUME IInv, [Next]_vars PROVE IInv' OBVIOUS
<1>1. ASSUME NEW o \in Socket, NewSocket(o) \/ Bind(o) \/ Listen(o) PROVE IInv'
  BY <1>1, KindIInv
<1>2. ASSUME NEW o \in Socket, Destroy(o) PROVE IInv' BY <1>2, DestroyIInv
<1>3. ASSUME NEW o \in Socket, Advance(o) PROVE IInv'
  <2>1. CASE Resume(o) BY <2>1, ResumeIInv
  <2>2. ASSUME NEW w \in Thread, Poll(w, o) PROVE IInv'
    <3>1. TypeOK BY DEF IInv
    <3> QED BY <2>2, <3>1, PollCases, SubmitsIInv, TakesIInv
  <2> QED BY <1>3, <2>1, <2>2 DEF Advance
<1>4. ASSUME NEW o \in Socket, NEW call \in Op, Call(o, call) PROVE IInv'
  BY <1>4, CallIInv
<1>5. ASSUME NEW w \in Thread, Drive(w) PROVE IInv'
  BY <1>5, SelectIInv, WakeIInv DEF Drive
<1>6. ASSUME NEW w \in Thread, NEW q \in inflight[w], NEW res \in Result,
             Complete(w, q, res)
      PROVE  IInv'
  BY <1>6, CompleteIInv
<1>7. CASE UNCHANGED vars
  <2> USE <1>7 DEF vars, ringVars, extraVars, netVars
  <2>1. TypeOK' BY DEF IInv, TypeOK
  <2>2. CallInv' /\ ListInv' /\ AloneInv' /\ StrandedByFailure'
    BY DEF IInv, CallInv, ListInv, ListOK, AloneInv, StrandedByFailure
  <2>3. Waiting' = Waiting BY DEF Waiting, Current
  <2>4. HolderInv' /\ PresentInv' BY <2>3 DEF IInv, HolderInv, PresentInv
  <2>5. ResultInv' BY DEF IInv, ResultInv, Current
  <2> QED BY <2>1, <2>2, <2>4, <2>5 DEF IInv
<1> QED BY <1>1, <1>2, <1>3, <1>4, <1>5, <1>6, <1>7 DEF Next

(* The invariant holds in every reachable state.                           *)
LEMMA Invariance == Spec => []IInv
  BY InitIInv, NextIInv, PTL DEF Spec

-----------------------------------------------------------------------------
(* An event on a ring is there once: the entry is determined by the event. *)
LEMMA OnRing ==
  ASSUME IInv, NEW w \in Thread, NEW e \in Event
  PROVE  /\ e \in registered_events_[w] <=> On(w, e) # {}
         /\ \A p, q \in On(w, e) : p = q
<1>1. ListOK(w) BY DEF IInv, ListInv
<1>2. \A q : q \in On(w, e) <=> /\ q.ptr = e
                                /\ q \in sq[w] \/ q \in inflight[w] \/ q \in cq[w]
  BY DEF On
<1>p. \A A : e \in Ptr(A) <=> \E q \in A : q.ptr = e BY DEF Ptr
<1>3. e \in registered_events_[w] <=> On(w, e) # {}
  <2>1. e \in registered_events_[w] <=>
          e \in Ptr(sq[w]) \/ e \in Ptr(inflight[w]) \/ e \in Ptr(cq[w])
    BY <1>1 DEF ListOK
  <2>2. On(w, e) # {} <=> \E q : q \in On(w, e) OBVIOUS
  <2> QED BY <1>2, <1>p, <2>1, <2>2
<1>4. ASSUME NEW p \in On(w, e), NEW q \in On(w, e) PROVE p = q
  <2>1. CASE p \in sq[w] \cup inflight[w]
    <3>1. q \in sq[w] \cup inflight[w]
      <4>1. q \notin cq[w]
        <5>1. e \in Ptr(sq[w]) \/ e \in Ptr(inflight[w]) BY <1>2, <1>p, <2>1
        <5>2. e \notin Ptr(cq[w]) BY <1>1, <5>1 DEF ListOK
        <5> QED BY <1>2, <1>p, <5>2
      <4> QED BY <1>2, <4>1
    <3>2. p.op = q.op /\ p.ptr = q.ptr BY <1>1, <1>2, <2>1, <3>1 DEF ListOK
    <3>3. p \in Entry /\ q \in Entry BY <2>1, <3>1 DEF IInv, TypeOK
    <3> QED BY <3>2, <3>3, SMT DEF Entry
  <2>2. CASE p \in cq[w]
    <3>1. q \in cq[w]
      <4>1. e \in Ptr(cq[w]) BY <1>2, <1>p, <2>2
      <4>2. e \notin Ptr(sq[w]) /\ e \notin Ptr(inflight[w]) BY <1>1, <4>1 DEF ListOK
      <4> QED BY <1>2, <1>p, <4>2
    <3> QED BY <1>1, <1>2, <2>2, <3>1 DEF ListOK
  <2> QED BY <1>2, <2>1, <2>2
<1> QED BY <1>3, <1>4

(* Where an event can be: the cases of Places.                             *)
LEMMA InPlaces ==
  ASSUME NEW e
  PROVE  /\ \A w \in Thread : e \in events[w] => <<"events", w>> \in Places(e)
         /\ e \in woken => <<"woken", e>> \in Places(e)
         /\ \A w \in Thread : \A q \in On(w, e) : <<w, q>> \in Places(e)
         /\ \A p \in Places(e) :
              \/ \E w \in Thread : p = <<"events", w>> /\ e \in events[w]
              \/ p = <<"woken", e>> /\ e \in woken
              \/ \E w \in Thread : \E q \in On(w, e) : p = <<w, q>>
<1> DEFINE A == {<<"events", w>> : w \in {v \in Thread : e \in events[v]}}
           B == {<<"woken", x>> : x \in woken \cap {e}}
           R(w) == {<<w, q>> : q \in On(w, e)}
           C == UNION {R(w) : w \in Thread}
<1>1. Places(e) = A \cup B \cup C BY DEF Places
<1>2. \A p : p \in A <=> \E w \in Thread : p = <<"events", w>> /\ e \in events[w] BY Zenon
<1>3. \A p : p \in B <=> p = <<"woken", e>> /\ e \in woken BY Zenon
<1>4. \A p : p \in C <=> \E w \in Thread : p \in R(w) BY Zenon
<1>5. \A p, w : p \in R(w) <=> \E q \in On(w, e) : p = <<w, q>> BY Zenon
<1> HIDE DEF A, B, C, R
<1> QED BY <1>1, <1>2, <1>3, <1>4, <1>5, Zenon

(* The event of a call that waits is in one place, all others in none.     *)
LEMMA OnePlace ==
  ASSUME IInv, NEW e \in Event
  PROVE  Cardinality(Places(e)) = IF e \in Waiting THEN 1 ELSE 0
<1>1. CASE e \notin Waiting
  <2>1. Places(e) = {} BY <1>1, InPlaces, OnRing DEF IInv, HolderInv
  <2> QED BY <1>1, <2>1, FS_EmptySet
<1>2. CASE e \in Waiting
  <2>r. \A w \in Thread : e \in registered_events_[w] <=> \E q : q \in On(w, e) BY OnRing, SMT
  <2>i. \A q \in Places(e) :
          \/ \E w \in Thread : q = <<"events", w>> /\ e \in events[w]
          \/ q = <<"woken", e>> /\ e \in woken
          \/ \E w \in Thread : \E x \in On(w, e) : q = <<w, x>>
    BY InPlaces
  <2>1. PICK p : p \in Places(e)
    <3>1. CASE e \in woken BY <3>1, InPlaces
    <3>2. CASE \E w \in Thread : e \in events[w] BY <3>2, InPlaces
    <3>3. CASE \E w \in Thread : e \in registered_events_[w] BY <2>r, <3>3, InPlaces
    <3> QED BY <1>2, <3>1, <3>2, <3>3 DEF IInv, PresentInv
  <2>2. ASSUME NEW q \in Places(e), NEW r \in Places(e) PROVE q = r
    <3>1. CASE \E w \in Thread : q = <<"events", w>> /\ e \in events[w]
      <4>1. PICK w \in Thread : q = <<"events", w>> /\ e \in events[w] BY <3>1
      <4>2. /\ e \notin woken /\ \A v \in Thread : e \notin registered_events_[v]
            /\ \A v \in Thread : e \in events[v] => v = w
        BY <4>1 DEF IInv, AloneInv
      <4> QED BY <2>i, <2>r, <4>1, <4>2
    <3>2. CASE q = <<"woken", e>> /\ e \in woken
      <4>1. \A v \in Thread : e \notin events[v] /\ e \notin registered_events_[v]
        BY <3>2 DEF IInv, AloneInv
      <4> QED BY <2>i, <2>r, <3>2, <4>1
    <3>3. CASE \E w \in Thread : \E x \in On(w, e) : q = <<w, x>>
      <4>1. PICK w \in Thread : \E x \in On(w, e) : q = <<w, x>> BY <3>3
      <4>2. e \in registered_events_[w] BY <4>1, OnRing
      <4>3. e \notin woken /\ \A v \in Thread : e \notin events[v]
        BY <4>2 DEF IInv, AloneInv
      <4>4. PICK v \in Thread : \E y \in On(v, e) : r = <<v, y>> BY <2>i, <4>3
      <4>5. e \in registered_events_[v] BY <4>4, OnRing
      <4>6. v = w BY <4>2, <4>5 DEF IInv, AloneInv
      <4> QED BY <4>1, <4>4, <4>6, OnRing
    <3> QED BY <2>i, <3>1, <3>2, <3>3
  <2>3. Places(e) = {p} BY <2>1, <2>2
  <2> QED BY <1>2, <2>3, FS_Singleton
<1> QED BY <1>1, <1>2

(* Whichever threads poll, fail to submit, select and wake: the event of a *)
(* call that waits is in exactly one place from the submission queue to    *)
(* handles_, and the list that select searches is the ring's.              *)
THEOREM EventsWaitOnce == Spec => []WaitsOnce
<1>1. ASSUME IInv, NEW o \in Socket, NEW e \in Event, e[1] = o
      PROVE  Cardinality(Places(e)) = IF pc[o] = "wait" /\ e = Current(o) THEN 1 ELSE 0
  BY <1>1, OnePlace DEF Waiting
<1>2. IInv => WaitsOnce
  BY <1>1, OnRing DEF IInv, WaitsOnce
<1> QED BY <1>2, Invariance, PTL

(* A call returns the result of the operation that it submitted.           *)
THEOREM ReturnsOwnResult == Spec => []OwnResult
<1>1. IInv => OwnResult BY EventFacts DEF IInv, ResultInv, OwnResult
<1> QED BY <1>1, Invariance, PTL

(* As long as io_uring_submit does not fail, no call is stranded.          *)
THEOREM StrandsOnlyByFailure == Spec => []StrandedByFailure
<1>1. IInv => StrandedByFailure BY DEF IInv
<1> QED BY <1>1, Invariance, PTL

(* The rings of all threads together are a registry as the scheduler       *)
(* expects it: an event is handed out by select once, after its operation  *)
(* has completed.                                                          *)
THEOREM ImplementsEventRegistry == Spec => ImplementsRegistry
<1> DEFINE held == UNION {registered_events_[w] : w \in Thread}
           happened == UNION {{c.ptr : c \in cq[w]} : w \in Thread}
           reported == woken \cup UNION {events[w] : w \in Thread}
<1>1. Init => Contract!Init BY SMT DEF Init, Contract!Init
<1>2. IInv /\ [Next]_vars => [Contract!Next]_Contract!vars
  <2> SUFFICES ASSUME IInv, [Next]_vars PROVE [Contract!Next]_Contract!vars OBVIOUS
  <2>h. /\ \A e : e \in held <=> \E w \in Thread : e \in registered_events_[w]
        /\ \A e : e \in happened <=> \E w \in Thread : e \in Ptr(cq[w])
        /\ \A e : e \in reported <=> e \in woken \/ \E w \in Thread : e \in events[w]
    BY DEF Ptr
  <2>p. /\ \A e : e \in held' <=> \E w \in Thread : e \in registered_events_'[w]
        /\ \A e : e \in happened' <=> \E w \in Thread : e \in Ptr(cq'[w])
        /\ \A e : e \in reported' <=> e \in woken' \/ \E w \in Thread : e \in events'[w]
    BY DEF Ptr
  <2>n. /\ (\E e \in Event : Contract!Register(e) \/ Contract!Poll(e)) => Contract!Next
        /\ (\E S \in SUBSET Event : Contract!Happen(S) \/ Contract!Select(S)) => Contract!Next
    BY DEF Contract!Next
  <2>q. ASSUME UNCHANGED <<registered_events_, cq, events, woken>>
        PROVE  UNCHANGED Contract!vars
    BY <2>q DEF Contract!vars
  <2>1. ASSUME NEW o \in Socket, NEW w \in Thread, Poll(w, o)
        PROVE  [Contract!Next]_Contract!vars
    <3>1. PICK e \in Event : e = Current(o) /\ e[1] = o BY EventFacts
    <3>2. pc[o] = "poll" /\ (Submits(w, o) \/ Takes(o)) BY <2>1, PollCases DEF IInv
    <3>3. /\ e \notin Registered /\ e \notin woken
          /\ \A v \in Thread : e \notin registered_events_[v] \cup events[v]
      BY <3>1, <3>2, WaitingFacts DEF IInv, HolderInv
    <3>4. CASE Takes(o) BY <2>q, <3>4 DEF Takes, ringVars
    <3>5. CASE /\ registered_events_' = [registered_events_ EXCEPT ![w] = @ \cup {e}]
               /\ UNCHANGED <<cq, events, woken>>
      <4>1. registered_events_'[w] = registered_events_[w] \cup {e}
        BY <3>5 DEF IInv, TypeOK
      <4>2. \A v \in Thread : v # w => registered_events_'[v] = registered_events_[v]
        BY <3>5 DEF IInv, TypeOK
      <4>3. held' = held \cup {e} BY <2>h, <2>p, <4>1, <4>2
      <4>4. happened' = happened /\ reported' = reported BY <3>5
      <4>5. e \notin held \cup reported BY <2>h, <3>3
      <4>6. Contract!Register(e) BY <4>3, <4>4, <4>5 DEF Contract!Register
      <4> QED BY <2>n, <4>6
    <3>6. CASE UNCHANGED <<registered_events_, cq, events, woken>> BY <2>q, <3>6
    <3> QED BY <3>1, <3>2, <3>3, <3>4, <3>5, <3>6 DEF Submits, Register
  <2>2. ASSUME NEW o \in Socket, Resume(o) PROVE [Contract!Next]_Contract!vars
    <3>1. PICK e \in Event : e = Current(o) BY EventFacts
    <3>2. /\ e \in woken /\ woken' = woken \ {e}
          /\ UNCHANGED <<registered_events_, cq, events>>
      BY <2>2, <3>1 DEF Resume, ringVars
    <3>3. \A w \in Thread : e \notin events[w] BY <3>2 DEF IInv, AloneInv
    <3>4. held' = held /\ happened' = happened BY <3>2
    <3>5. e \in reported /\ reported' = reported \ {e} BY <2>h, <2>p, <3>2, <3>3, SMT
    <3>6. Contract!Poll(e) BY <3>4, <3>5 DEF Contract!Poll
    <3> QED BY <2>n, <3>6
  <2>3. ASSUME NEW w \in Thread, Select(w) PROVE [Contract!Next]_Contract!vars
    <3>1. PICK S : S = Ptr(cq[w]) OBVIOUS
    <3>2. /\ events'[w] = S /\ cq'[w] = {} /\ events[w] = {}
          /\ registered_events_'[w] = registered_events_[w] \ S
          /\ \A v \in Thread : v # w => /\ events'[v] = events[v] /\ cq'[v] = cq[v]
                                        /\ registered_events_'[v] = registered_events_[v]
          /\ UNCHANGED woken
      BY <2>3, <3>1 DEF Select, Ptr, IInv, TypeOK
    <3>3. /\ S \subseteq registered_events_[w] /\ S \in SUBSET Event
          /\ \A v \in Thread : Ptr(cq[v]) \subseteq registered_events_[v]
      BY <3>1, SMT DEF IInv, TypeOK, ListInv, ListOK
    <3>4. \A v \in Thread : v # w => registered_events_[v] \cap S = {} /\ Ptr(cq[v]) \cap S = {}
      BY <3>3 DEF IInv, AloneInv
    <3>5. S \subseteq happened BY <2>h, <3>1
    <3>6. held' = held \ S BY <2>h, <2>p, <3>2, <3>4, SMT
    <3>7. happened' = happened \ S
      <4>1. Ptr(cq'[w]) = {} BY <3>2, PtrFacts
      <4>2. \A v \in Thread : v # w => Ptr(cq'[v]) = Ptr(cq[v]) BY <3>2
      <4> QED BY <2>h, <2>p, <3>1, <3>4, <4>1, <4>2
    <3>8. reported' = reported \cup S BY <2>h, <2>p, <3>2
    <3>9. Contract!Select(S) BY <3>5, <3>6, <3>7, <3>8 DEF Contract!Select
    <3> QED BY <2>n, <3>3, <3>9
  <2>4. ASSUME NEW w \in Thread, NEW e \in events[w], Wake(w, e)
        PROVE  [Contract!Next]_Contract!vars
    <3>1. /\ woken' = woken \cup {e} /\ events'[w] = events[w] \ {e}
          /\ \A v \in Thread : v # w => events'[v] = events[v]
          /\ UNCHANGED <<registered_events_, cq>>
      BY <2>4 DEF Wake, ringVars, IInv, TypeOK
    <3>2. held' = held /\ happened' = happened BY <3>1
    <3>3. reported' = reported BY <2>h, <2>p, <3>1
    <3>4. UNCHANGED Contract!vars BY <3>2, <3>3 DEF Contract!vars
    <3> QED BY <3>4
  <2>5. ASSUME NEW w \in Thread, NEW q \in inflight[w], NEW res \in Result,
               Complete(w, q, res)
        PROVE  [Contract!Next]_Contract!vars
    <3>1. PICK e \in Event : e = q.ptr BY SMT DEF IInv, TypeOK, Entry
    <3>2. /\ cq'[w] = cq[w] \cup {[ptr |-> e, op |-> q.op, res |-> res]}
          /\ \A v \in Thread : v # w => cq'[v] = cq[v]
          /\ UNCHANGED <<registered_events_, events, woken>>
      BY <2>5, <3>1 DEF Complete, IInv, TypeOK
    <3>3. /\ Ptr(cq'[w]) = Ptr(cq[w]) \cup {e}
          /\ \A v \in Thread : v # w => Ptr(cq'[v]) = Ptr(cq[v])
      <4>1. PICK c : c = [ptr |-> e, op |-> q.op, res |-> res] OBVIOUS
      <4>2. c.ptr = e /\ cq'[w] = cq[w] \cup {c} BY <3>2, <4>1
      <4>3. Ptr(cq'[w]) = Ptr(cq[w]) \cup {e} BY <4>2, PtrFacts, SMT
      <4> QED BY <3>2, <4>3
    <3>4. e \in registered_events_[w] /\ \A v \in Thread : e \notin Ptr(cq[v])
      <4>1. e \in Ptr(inflight[w]) BY <3>1, PtrFacts
      <4>2. e \in registered_events_[w] /\ e \notin Ptr(cq[w])
        BY <4>1 DEF IInv, ListInv, ListOK
      <4>3. \A v \in Thread : v # w => e \notin registered_events_[v]
        BY <4>2 DEF IInv, AloneInv
      <4> QED BY <4>2, <4>3 DEF IInv, ListInv, ListOK
    <3>5. {e} \subseteq held \ happened BY <2>h, <3>4
    <3>6. happened' = happened \cup {e} BY <2>h, <2>p, <3>3
    <3>7. held' = held /\ reported' = reported BY <3>2
    <3>8. Contract!Happen({e}) BY <3>5, <3>6, <3>7 DEF Contract!Happen
    <3> QED BY <2>n, <3>8
  <2>6. ASSUME NEW o \in Socket, NewSocket(o) \/ Bind(o) \/ Listen(o) \/ Destroy(o)
        PROVE  UNCHANGED Contract!vars
    BY <2>6, <2>q DEF NewSocket, Bind, Listen, Destroy, ringVars
  <2>7. ASSUME NEW o \in Socket, NEW call \in Op, Call(o, call)
        PROVE  UNCHANGED Contract!vars
    BY <2>7, <2>q DEF Call, ringVars
  <2>8. CASE UNCHANGED vars BY <2>8, <2>q DEF vars, ringVars
  <2> QED
    BY <2>1, <2>2, <2>3, <2>4, <2>5, <2>6, <2>7, <2>8 DEF Next, Advance, Drive
<1> QED BY <1>1, <1>2, Invariance, PTL DEF Spec, ImplementsRegistry, Contract!Spec
=============================================================================
