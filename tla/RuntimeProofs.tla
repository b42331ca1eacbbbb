--------------------------- MODULE RuntimeProofs ---------------------------
(***************************************************************************)
(* Proofs about the scheduler, for any number of workers, tasks and        *)
(* registries.                                                             *)
(***************************************************************************)
EXTENDS Runtime, SequenceTheorems, TLAPS

(* Most leaves are first-order reasoning without arithmetic.               *)
USE ZenonT(30)

(***************************************************************************)
(* The inductive invariant, in two layers.  PlaceInv says what a thread    *)
(* has in its hands at each place of its loop.  StageInv says that where a *)
(* coroutine is recorded (a slot of the queue, the hands of a thread, a    *)
(* thread's events, a registry) decides which stage of its life it is in,  *)
(* and that each stage has exactly one record of it.  ResumeOnce needs the *)
(* first half (the stages of one coroutine exclude each other, so do its   *)
(* records), NoLostCoroutine the second (Present).                         *)
(***************************************************************************)
PlaceOK(w) ==
  /\ cur[w] # None => pc[w] \in {"run", "spawn", "drop", "exit"}
  /\ pc[w] = "run" => cur[w] # None
  /\ arg[w] # None => pc[w] \in {"spawn", "push", "block_on", "exit"}
  /\ pc[w] \in {"spawn", "push", "block_on"} => arg[w] # None
  /\ events[w] # {} => pc[w] \in {"wake", "push", "exit"}

PlaceInv == \A w \in Thread : PlaceOK(w)

QueueInv ==
  /\ \A i \in 1 .. Len(handles_) : co[handles_[i].task] = "queued"
  /\ \A i, j \in 1 .. Len(handles_) :
       handles_[i].task = handles_[j].task => i = j

ThreadOK(w) ==
  /\ cur[w] # None => co[cur[w].task] = "running"
  /\ arg[w] # None => co[arg[w].task] = "pushing"
  /\ \A t \in events[w] : co[t] = "selected"

SingleInv ==
  \A w, v \in Thread : w # v =>
    /\ cur[w] # None /\ cur[v] # None => cur[w].task # cur[v].task
    /\ arg[w] # None /\ arg[v] # None => arg[w].task # arg[v].task
    /\ events[w] \cap events[v] = {}

RegistryInv ==
  /\ \A t \in Task : registered[t] # None => co[t] = "waiting"
  /\ \A t \in fired : registered[t] # None

Present(t) ==
  /\ co[t] = "pushing" => \E w \in Thread : Pushes(w, t)
  /\ co[t] = "queued" => \E i \in 1 .. Len(handles_) : handles_[i].task = t
  /\ co[t] = "running" => \E w \in Thread : Holds(w, t)
  /\ co[t] = "waiting" => registered[t] # None
  /\ co[t] = "selected" => \E w \in Thread : t \in events[w]

StageInv ==
  /\ QueueInv
  /\ \A w \in Thread : ThreadOK(w)
  /\ SingleInv
  /\ RegistryInv
  /\ \A t \in Task : Present(t)

IInv == TypeOK /\ PlaceInv /\ StageInv

-----------------------------------------------------------------------------
(* A pair (handle, future) is never nullptr, and belongs to a task.        *)
LEMMA HandleFacts ==
  /\ \A h \in Handle : h.task \in Task /\ h # None
  /\ \A t \in Task : /\ Started(t) \in Handle /\ Started(t).task = t
                     /\ Awaiting(t) \in Handle /\ Awaiting(t).task = t
<1>1. \A h \in Handle : h.task \in Task /\ h # None
  BY ConstantAssumption DEF Handle
<1>2. \A t \in Task : Started(t) \in Handle /\ Awaiting(t) \in Handle
  BY DEF Handle, Started, Awaiting
<1>3. \A t \in Task : Started(t).task = t /\ Awaiting(t).task = t
  BY DEF Started, Awaiting
<1> QED  BY <1>1, <1>2, <1>3

(* What Pop finds at the end of a queue that is not empty.                 *)
LEMMA QueueHead ==
  ASSUME handles_ \in Seq(Handle), handles_ # <<>>
  PROVE  /\ Len(handles_) \in Nat \ {0}
         /\ Head(handles_) = handles_[1]
         /\ handles_[1] \in Handle
         /\ Tail(handles_) \in Seq(Handle)
         /\ Len(Tail(handles_)) = Len(handles_) - 1
         /\ \A i \in 1 .. Len(Tail(handles_)) : Tail(handles_)[i] = handles_[i + 1]
<1>1. /\ Head(handles_) = handles_[1]
      /\ Len(handles_) \in Nat \ {0}
      /\ Tail(handles_) \in Seq(Handle)
      /\ Len(Tail(handles_)) = Len(handles_) - 1
      /\ \A i \in 1 .. Len(Tail(handles_)) : Tail(handles_)[i] = handles_[i + 1]
  BY HeadTailProperties, EmptySeq, SMT
<1>2. handles_[1] \in Handle
  BY <1>1, ElementOfSeq, SMT
<1> QED  BY <1>1, <1>2

(* What Push leaves behind.                                                *)
LEMMA QueueAppend ==
  ASSUME handles_ \in Seq(Handle), NEW h \in Handle
  PROVE  /\ Append(handles_, h) \in Seq(Handle)
         /\ Len(handles_) \in Nat
         /\ Len(Append(handles_, h)) = Len(handles_) + 1
         /\ \A i \in 1 .. Len(handles_) : Append(handles_, h)[i] = handles_[i]
         /\ Append(handles_, h)[Len(handles_) + 1] = h
BY AppendProperties, SMT

(* The instance of a registry that a thread uses, its own or the shared    *)
(* one, is one of the instances, and not nullptr.                          *)
LEMMA InstanceFacts ==
  ASSUME NEW w \in Thread, NEW r \in Registry
  PROVE  InstanceOf(w, r) \in Instance /\ InstanceOf(w, r) # None
<1>1. InstanceOf(w, r) \in Instance
  <2>1. CASE r \in Local
    BY <2>1 DEF InstanceOf, Instance
  <2>2. CASE r \notin Local
    BY <2>2 DEF InstanceOf, Instance
  <2> QED  BY <2>1, <2>2
<1> QED  BY <1>1, ConstantAssumption

-----------------------------------------------------------------------------
(* A runtime starts with an empty queue, idle threads and no coroutine.    *)
LEMMA InitIInv == Init => IInv
<1> SUFFICES ASSUME Init PROVE IInv
  OBVIOUS
<1>1. handles_ \in Seq(Handle) /\ Len(handles_) = 0
  BY SMT DEF Init
<1>2. TypeOK
  BY <1>1, ConstantAssumption DEF Init, TypeOK, Place, Life
<1>3. PlaceInv
  BY DEF Init, PlaceInv, PlaceOK
<1>4. QueueInv
  BY <1>1, SMT DEF QueueInv
<1>5. (\A w \in Thread : ThreadOK(w)) /\ SingleInv /\ RegistryInv
  BY DEF Init, ThreadOK, SingleInv, RegistryInv
<1>6. \A t \in Task : Present(t)
  BY DEF Init, Present
<1> QED  BY <1>2, <1>3, <1>4, <1>5, <1>6 DEF IInv, StageInv

(* First layer: what is typed, and held where, stays so.                   *)
LEMMA PlaceNext ==
  ASSUME TypeOK, PlaceInv, [Next]_vars
  PROVE  TypeOK' /\ PlaceInv'
<1> USE ConstantAssumption, HandleFacts DEF TypeOK, PlaceInv, PlaceOK, Place, Life,
        Thread, queueVars, pushVars, eventVars, blockVars, Goto, Become
<1>1. ASSUME NEW w \in Thread, Lock(w) PROVE TypeOK' /\ PlaceInv'
  BY <1>1 DEF Lock
<1>2. ASSUME NEW w \in Thread, Push(w) PROVE TypeOK' /\ PlaceInv'
  BY <1>2, QueueAppend, SMT DEF Push, AfterPush
<1>3. ASSUME NEW w \in Thread, Drop(w) PROVE TypeOK' /\ PlaceInv'
  BY <1>3 DEF Drop
<1>4. ASSUME NEW w \in Thread, LoopTest(w) PROVE TypeOK' /\ PlaceInv'
  <2>1. /\ pc[w] = "loop" /\ cur[w] = None /\ arg[w] = None /\ events[w] = {}
        /\ \E p \in {"outside", "exit", "local"} : Goto(w, p)
    BY <1>4 DEF LoopTest
  <2>2. suspend_flag_' \in [Thread -> BOOLEAN]
    <3>1. \/ suspend_flag_' = suspend_flag_
          \/ suspend_flag_' = [suspend_flag_ EXCEPT ![w] = FALSE]
      BY <1>4 DEF LoopTest
    <3> QED  BY <3>1
  <2>3. left' = left \/ left' = "returned"
    BY <1>4 DEF LoopTest
  <2> QED  BY <1>4, <2>1, <2>2, <2>3, SMT DEF LoopTest
<1>5. ASSUME NEW w \in Thread, ResumeLocal(w) PROVE TypeOK' /\ PlaceInv'
  BY <1>5 DEF ResumeLocal
<1>6. ASSUME NEW w \in Thread, TryLock(w) PROVE TypeOK' /\ PlaceInv'
  BY <1>6, SMTT(30) DEF TryLock
<1>7. ASSUME NEW w \in Thread, Pop(w) PROVE TypeOK' /\ PlaceInv'
  BY <1>7, QueueHead DEF Pop
<1>8. ASSUME NEW w \in Thread, EndResume(w) PROVE TypeOK' /\ PlaceInv'
  BY <1>8 DEF EndResume
<1>9. ASSUME NEW w \in Thread, Check(w) PROVE TypeOK' /\ PlaceInv'
  BY <1>9, SMTT(30) DEF Check
<1>10. ASSUME NEW w \in Thread, NEW r \in Registry, Select(w, r) PROVE TypeOK' /\ PlaceInv'
  BY <1>10 DEF Select, Selected
<1>11. ASSUME NEW w \in Thread, EndPoll(w) PROVE TypeOK' /\ PlaceInv'
  BY <1>11 DEF EndPoll
<1>12. ASSUME NEW w \in Thread, NEW t \in Task, Wake(w, t) PROVE TypeOK' /\ PlaceInv'
  BY <1>12 DEF Wake
<1>13. ASSUME NEW w \in Thread, EndWake(w) PROVE TypeOK' /\ PlaceInv'
  BY <1>13 DEF EndWake
<1>14. ASSUME NEW w \in Thread, PollReady(w) PROVE TypeOK' /\ PlaceInv'
  BY <1>14, SMT DEF PollReady, Running
<1>15. ASSUME NEW w \in Thread, Pend(w) PROVE TypeOK' /\ PlaceInv'
  BY <1>15, InstanceFacts, SMT DEF Pend, Running
<1>16. ASSUME NEW w \in Thread, NEW t \in Task, Spawn(w, t) PROVE TypeOK' /\ PlaceInv'
  BY <1>16 DEF Spawn, Resumed, Running
<1>17. ASSUME NEW w \in Thread, NEW o \in Outcome, Complete(w, o) PROVE TypeOK' /\ PlaceInv'
  BY <1>17 DEF Complete, Resumed, Running
<1>18. ASSUME NEW w \in Thread, Terminate(w) PROVE TypeOK' /\ PlaceInv'
  BY <1>18 DEF Terminate, Resumed, Running
<1>19. ASSUME NEW t \in Task, Fire(t) PROVE TypeOK' /\ PlaceInv'
  BY <1>19 DEF Fire
<1>20. ASSUME NEW t \in Task, BlockOn(t) PROVE TypeOK' /\ PlaceInv'
  BY <1>20 DEF BlockOn
<1>21. ASSUME ThrowOut PROVE TypeOK' /\ PlaceInv'
  BY <1>21 DEF ThrowOut, Resumed, Running
<1>22. ASSUME Destroy PROVE TypeOK' /\ PlaceInv'
  BY <1>22 DEF Destroy
<1>23. ASSUME Join PROVE TypeOK' /\ PlaceInv'
  BY <1>23 DEF Join
<1>24. ASSUME UNCHANGED vars PROVE TypeOK' /\ PlaceInv'
  BY <1>24 DEF vars
<1> HIDE DEF TypeOK, PlaceInv
<1>25. ASSUME NEW w \in Thread, Lock(w) \/ Step(w) \/ Body(w) PROVE TypeOK' /\ PlaceInv'
  BY <1>1, <1>2, <1>3, <1>4, <1>5, <1>6, <1>7, <1>8, <1>9, <1>10, <1>11, <1>12, <1>13, <1>14, <1>15, <1>16, <1>17, <1>18, <1>25 DEF Step, Body
<1> QED  BY <1>19, <1>20, <1>21, <1>22, <1>23, <1>24, <1>25 DEF Next, Stopped

(***************************************************************************)
(* Second layer.  An action moves one coroutine t0 from one record to the  *)
(* next, and no other coroutine changes its stage.                         *)
(***************************************************************************)
LEMMA PushStage ==
  ASSUME IInv, NEW w \in Thread, Push(w)
  PROVE  StageInv'
<1> DEFINE h == arg[w]
<1>1. h \in Handle /\ h # None /\ h.task \in Task /\ co[h.task] = "pushing"
  BY HandleFacts, SMT DEF IInv, TypeOK, PlaceInv, PlaceOK, StageInv, ThreadOK, Push
<1>2. /\ handles_' = Append(handles_, h)
      /\ co' = [co EXCEPT ![h.task] = "queued"]
      /\ arg' = [arg EXCEPT ![w] = None]
      /\ UNCHANGED <<cur, events, registered, fired>>
  BY DEF Push, Become, eventVars
<1> HIDE DEF h
<1> USE HandleFacts DEF IInv, TypeOK, StageInv
<1>3. QueueInv'
  <2>1. \A i \in 1 .. Len(handles_) : handles_[i].task \in Task /\ handles_[i].task # h.task
    BY <1>1, ElementOfSeq DEF QueueInv
  <2>2. /\ Len(handles_) \in Nat /\ Len(handles_') = Len(handles_) + 1
        /\ \A i \in 1 .. Len(handles_) : handles_'[i] = handles_[i]
        /\ handles_'[Len(handles_) + 1] = h
    BY <1>1, <1>2, QueueAppend
  <2>3. \A i \in 1 .. Len(handles_') :
          i \in 1 .. Len(handles_) \/ (i = Len(handles_) + 1 /\ handles_'[i] = h)
    BY <2>2, SMT
  <2>4. \A i \in 1 .. Len(handles_') : co'[handles_'[i].task] = "queued"
    BY <1>1, <1>2, <2>1, <2>2, <2>3, SMT DEF QueueInv
  <2>5. \A i, j \in 1 .. Len(handles_') :
          handles_'[i].task = handles_'[j].task => i = j
    BY <2>1, <2>2, <2>3, SMT DEF QueueInv
  <2> QED  BY <2>4, <2>5 DEF QueueInv
<1>4. ASSUME NEW v \in Thread PROVE ThreadOK(v)'
  BY <1>1, <1>2, SMT DEF ThreadOK, SingleInv, h
<1>5. SingleInv'
  BY <1>2 DEF SingleInv
<1>6. RegistryInv'
  BY <1>1, <1>2 DEF RegistryInv
<1>7. ASSUME NEW u \in Task PROVE Present(u)'
  <2>1. CASE u = h.task
    <3>1. /\ Len(handles_) + 1 \in 1 .. Len(handles_')
          /\ handles_'[Len(handles_) + 1].task = u
      BY <1>1, <1>2, <2>1, QueueAppend, SMT
    <3> QED  BY <1>1, <1>2, <2>1, <3>1 DEF Present
  <2>2. CASE u # h.task
    <3>1. co'[u] = co[u] /\ Present(u)
      BY <1>2, <2>2
    <3>2. \A i \in 1 .. Len(handles_) :
            i \in 1 .. Len(handles_') /\ handles_'[i] = handles_[i]
      BY <1>1, <1>2, QueueAppend, SMT
    <3>3. \A v \in Thread : Pushes(v, u) => Pushes(v, u)'
      BY <1>1, <1>2, <2>2 DEF Pushes, h
    <3> QED  BY <1>2, <3>1, <3>2, <3>3 DEF Present, Holds
  <2> QED  BY <2>1, <2>2
<1> QED  BY <1>3, <1>4, <1>5, <1>6, <1>7

(* Pop moves the coroutine at the end of the queue into the hands of the   *)
(* thread.                                                                 *)
LEMMA PopStage ==
  ASSUME IInv, NEW w \in Thread, Pop(w)
  PROVE  StageInv'
<1> DEFINE h == handles_[1]
<1> USE HandleFacts DEF IInv, TypeOK, StageInv
<1>0. handles_ # <<>>
  BY DEF Pop
<1>1. /\ h \in Handle /\ h # None /\ h.task \in Task /\ co[h.task] = "queued"
      /\ cur[w] = None
  <2>1. h \in Handle /\ 1 \in 1 .. Len(handles_)
    BY <1>0, QueueHead, SMT
  <2>2. cur[w] = None
    BY DEF Pop, PlaceInv, PlaceOK
  <2> QED  BY <2>1, <2>2 DEF QueueInv
<1>2. /\ handles_' = Tail(handles_)
      /\ co' = [co EXCEPT ![h.task] = "running"]
      /\ cur' = [cur EXCEPT ![w] = h]
      /\ UNCHANGED <<arg, events, registered, fired>>
  BY <1>0, QueueHead DEF Pop, Become, eventVars, pushVars
<1>3. QueueInv'
  <2>1. \A i \in 1 .. Len(handles_) : handles_[i].task \in Task
    BY ElementOfSeq
  <2>2. \A i \in 1 .. Len(handles_') :
          /\ i + 1 \in 1 .. Len(handles_) /\ i + 1 # 1
          /\ handles_'[i] = handles_[i + 1]
    BY <1>0, <1>2, QueueHead, SMT
  <2>3. 1 \in 1 .. Len(handles_)
    BY <1>0, QueueHead, SMT
  <2>4. \A i \in 1 .. Len(handles_) : i # 1 => handles_[i].task # h.task
    BY <2>3 DEF QueueInv
  <2>5. \A i \in 1 .. Len(handles_') : co'[handles_'[i].task] = "queued"
    BY <1>1, <1>2, <2>1, <2>2, <2>4, SMT DEF QueueInv
  <2>6. \A i, j \in 1 .. Len(handles_') :
          handles_'[i].task = handles_'[j].task => i = j
    BY <2>2, SMTT(30) DEF QueueInv
  <2> QED  BY <2>5, <2>6 DEF QueueInv
<1> HIDE DEF h
<1>4. ASSUME NEW v \in Thread PROVE ThreadOK(v)'
  BY <1>1, <1>2, SMT DEF ThreadOK
<1>5. SingleInv'
  BY <1>1, <1>2, SMT DEF SingleInv, ThreadOK
<1>6. RegistryInv'
  BY <1>1, <1>2 DEF RegistryInv
<1>7. ASSUME NEW u \in Task PROVE Present(u)'
  <2>1. CASE u = h.task
    <3>1. Holds(w, u)'
      BY <1>1, <1>2, <2>1 DEF Holds
    <3> QED  BY <1>1, <1>2, <2>1, <3>1 DEF Present
  <2>2. CASE u # h.task
    <3>1. co'[u] = co[u] /\ Present(u)
      BY <1>2, <2>2
    <3>2. ASSUME NEW i \in 1 .. Len(handles_), handles_[i].task = u
          PROVE  i - 1 \in 1 .. Len(handles_') /\ handles_'[i - 1].task = u
      <4>1. i # 1
        BY <2>2, <3>2 DEF h
      <4>2. i - 1 \in 1 .. Len(handles_')
        BY <1>0, <1>2, <4>1, QueueHead, SMT
      <4> QED  BY <1>0, <1>2, <3>2, <4>2, QueueHead, SMT
    <3>3. \A v \in Thread : Holds(v, u) => Holds(v, u)'
      BY <1>1, <1>2 DEF Holds
    <3> QED  BY <1>2, <3>1, <3>2, <3>3 DEF Present, Pushes
  <2> QED  BY <2>1, <2>2
<1> QED  BY <1>3, <1>4, <1>5, <1>6, <1>7

(* Select moves every completed event from its registry to the thread.     *)
LEMMA SelectStage ==
  ASSUME IInv, NEW w \in Thread, NEW r \in Registry, Select(w, r)
  PROVE  StageInv'
<1> DEFINE S == Selected(w, r)
<1> USE HandleFacts DEF IInv, TypeOK, StageInv
<1>1. /\ S \subseteq Task
      /\ \A t \in S : t \in fired /\ co[t] = "waiting"
  BY InstanceFacts DEF Selected, RegistryInv
<1>2. /\ co' = [t \in Task |-> IF t \in S THEN "selected" ELSE co[t]]
      /\ events' = [events EXCEPT ![w] = S]
      /\ fired' = fired \ S
      /\ registered' = [t \in Task |-> IF t \in S THEN None ELSE registered[t]]
      /\ UNCHANGED <<handles_, arg, cur>>
      /\ events[w] = {}
  BY DEF Select, queueVars, pushVars, PlaceInv, PlaceOK
<1> HIDE DEF S
<1>3. QueueInv'
  <2>1. \A i \in 1 .. Len(handles_) : handles_[i].task \in Task
    BY ElementOfSeq
  <2> QED  BY <1>1, <1>2, <2>1 DEF QueueInv
<1>4. ASSUME NEW v \in Thread PROVE ThreadOK(v)'
  BY <1>1, <1>2, SMT DEF ThreadOK
<1>5. SingleInv'
  BY <1>1, <1>2, SMT DEF SingleInv, ThreadOK
<1>6. RegistryInv'
  BY <1>1, <1>2 DEF RegistryInv
<1>7. ASSUME NEW u \in Task PROVE Present(u)'
  <2>1. CASE u \in S
    BY <1>2, <2>1 DEF Present
  <2>2. CASE u \notin S
    <3>1. co'[u] = co[u] /\ registered'[u] = registered[u] /\ Present(u)
      BY <1>2, <2>2
    <3>2. \A v \in Thread : u \in events[v] => u \in events'[v]
      BY <1>2
    <3> QED  BY <1>2, <3>1, <3>2 DEF Present, Pushes, Holds
  <2> QED  BY <2>1, <2>2
<1> QED  BY <1>3, <1>4, <1>5, <1>6, <1>7

(* wake takes one event off the thread's list and holds its coroutine      *)
(* until the queue is locked.                                              *)
LEMMA WakeStage ==
  ASSUME IInv, NEW w \in Thread, NEW t \in Task, Wake(w, t)
  PROVE  StageInv'
<1> USE HandleFacts DEF IInv, TypeOK, StageInv
<1>1. /\ co[t] = "selected" /\ t \in events[w] /\ arg[w] = None
      /\ \A v \in Thread : v # w => t \notin events[v]
  BY DEF Wake, PlaceInv, PlaceOK, ThreadOK, SingleInv
<1>2. /\ co' = [co EXCEPT ![t] = "pushing"]
      /\ events' = [events EXCEPT ![w] = @ \ {t}]
      /\ arg' = [arg EXCEPT ![w] = Awaiting(t)]
      /\ UNCHANGED <<handles_, cur, registered, fired>>
  BY DEF Wake, Become, queueVars
<1>3. QueueInv'
  <2>1. \A i \in 1 .. Len(handles_) : handles_[i].task \in Task
    BY ElementOfSeq
  <2> QED  BY <1>1, <1>2, <2>1 DEF QueueInv
<1>4. ASSUME NEW v \in Thread PROVE ThreadOK(v)'
  BY <1>1, <1>2, SMT DEF ThreadOK
<1>5. SingleInv'
  BY <1>1, <1>2, SMT DEF SingleInv, ThreadOK
<1>6. RegistryInv'
  BY <1>1, <1>2 DEF RegistryInv
<1>7. ASSUME NEW u \in Task PROVE Present(u)'
  <2>1. CASE u = t
    <3>1. Pushes(w, u)' /\ co'[u] = "pushing"
      BY <1>2, <2>1 DEF Pushes
    <3> QED  BY <3>1 DEF Present
  <2>2. CASE u # t
    <3>1. co'[u] = co[u] /\ Present(u)
      BY <1>2, <2>2
    <3>2. \A v \in Thread : /\ u \in events[v] => u \in events'[v]
                            /\ Pushes(v, u) => Pushes(v, u)'
      BY <1>1, <1>2, <2>2 DEF Pushes
    <3> QED  BY <1>2, <3>1, <3>2 DEF Present, Holds
  <2> QED  BY <2>1, <2>2
<1> QED  BY <1>3, <1>4, <1>5, <1>6, <1>7

(* spawn and block_on bring a new coroutine into the hands of a thread.    *)
LEMMA SpawnStage ==
  ASSUME IInv, NEW w \in Thread, NEW t \in Task,
         arg[w] = None, co[t] = "unborn",
         co' = [co EXCEPT ![t] = "pushing"],
         arg' = [arg EXCEPT ![w] = Started(t)],
         UNCHANGED <<handles_, cur, events, registered, fired>>
  PROVE  StageInv'
<1> USE HandleFacts DEF IInv, TypeOK, StageInv
<1>1. QueueInv'
  <2>1. \A i \in 1 .. Len(handles_) : handles_[i].task \in Task
    BY ElementOfSeq
  <2> QED  BY <2>1 DEF QueueInv
<1>2. ASSUME NEW v \in Thread PROVE ThreadOK(v)'
  BY SMT DEF ThreadOK
<1>3. SingleInv'
  BY SMT DEF SingleInv, ThreadOK
<1>4. RegistryInv'
  BY DEF RegistryInv
<1>5. ASSUME NEW u \in Task PROVE Present(u)'
  <2>1. CASE u = t
    <3>1. Pushes(w, u)' /\ co'[u] = "pushing"
      BY <2>1 DEF Pushes
    <3> QED  BY <3>1 DEF Present
  <2>2. CASE u # t
    <3>1. co'[u] = co[u] /\ Present(u)
      BY <2>2
    <3>2. \A v \in Thread : Pushes(v, u) => Pushes(v, u)'
      BY <2>2 DEF Pushes
    <3> QED  BY <3>1, <3>2 DEF Present, Holds
  <2> QED  BY <2>1, <2>2
<1> QED  BY <1>1, <1>2, <1>3, <1>4, <1>5

(* A coroutine that ends, in whichever way, leaves no record behind.       *)
LEMMA EndStage ==
  ASSUME IInv, NEW w \in Thread, cur[w] # None,
         co' = [co EXCEPT ![cur[w].task] = "done"],
         cur' = [cur EXCEPT ![w] = None],
         UNCHANGED <<handles_, arg, events, registered, fired>>
  PROVE  StageInv'
<1> USE HandleFacts DEF IInv, TypeOK, StageInv
<1> DEFINE u == cur[w].task
<1>1. /\ u \in Task /\ co[u] = "running"
      /\ \A v \in Thread : v # w /\ cur[v] # None => cur[v].task # u
  BY SMT DEF ThreadOK, SingleInv
<1>2. co' = [co EXCEPT ![u] = "done"]
  OBVIOUS
<1> HIDE DEF u
<1>3. QueueInv'
  <2>1. \A i \in 1 .. Len(handles_) : handles_[i].task \in Task
    BY ElementOfSeq
  <2> QED  BY <1>1, <1>2, <2>1 DEF QueueInv
<1>4. ASSUME NEW v \in Thread PROVE ThreadOK(v)'
  BY <1>1, <1>2, SMT DEF ThreadOK
<1>5. SingleInv'
  BY SMT DEF SingleInv
<1>6. RegistryInv'
  BY <1>1, <1>2 DEF RegistryInv
<1>7. ASSUME NEW t \in Task PROVE Present(t)'
  <2>1. CASE t = u
    BY <1>1, <1>2, <2>1, SMT DEF Present
  <2>2. CASE t # u
    <3>1. co'[t] = co[t] /\ Present(t)
      BY <1>2, <2>2
    <3>2. \A v \in Thread : Holds(v, t) => Holds(v, t)'
      BY <1>2, <2>2 DEF Holds, u
    <3> QED  BY <1>2, <2>2, <3>1, <3>2 DEF Present, Pushes
  <2> QED  BY <2>1, <2>2
<1> QED  BY <1>3, <1>4, <1>5, <1>6, <1>7

(* A pending poll hands the coroutine over to a registry.                  *)
LEMMA PendStage ==
  ASSUME IInv, NEW w \in Thread, Pend(w)
  PROVE  StageInv'
<1> USE HandleFacts DEF IInv, TypeOK, StageInv
<1> DEFINE u == cur[w].task
<1>1. /\ u \in Task /\ co[u] = "running"
      /\ \A v \in Thread : v # w /\ cur[v] # None => cur[v].task # u
  BY SMT DEF ThreadOK, SingleInv, Pend, Running
<1>2. PICK r \in Registry :
        /\ registered' = [registered EXCEPT ![u] = InstanceOf(w, r)]
        /\ co' = [co EXCEPT ![u] = "waiting"]
        /\ cur' = [cur EXCEPT ![w] = None]
        /\ UNCHANGED <<handles_, arg, events, fired>>
  BY DEF Pend, Become, queueVars, pushVars
<1> HIDE DEF u
<1>3. QueueInv'
  <2>1. \A i \in 1 .. Len(handles_) : handles_[i].task \in Task
    BY ElementOfSeq
  <2> QED  BY <1>1, <1>2, <2>1 DEF QueueInv
<1>4. ASSUME NEW v \in Thread PROVE ThreadOK(v)'
  BY <1>1, <1>2, SMT DEF ThreadOK
<1>5. SingleInv'
  BY <1>2 DEF SingleInv
<1>6. RegistryInv'
  BY <1>1, <1>2, InstanceFacts DEF RegistryInv
<1>7. ASSUME NEW t \in Task PROVE Present(t)'
  <2>1. CASE t = u
    BY <1>1, <1>2, <2>1, InstanceFacts DEF Present
  <2>2. CASE t # u
    <3>1. co'[t] = co[t] /\ Present(t)
      BY <1>2, <2>2
    <3>2. \A v \in Thread : Holds(v, t) => Holds(v, t)'
      BY <1>2, <2>2 DEF Holds, u
    <3> QED  BY <1>2, <2>2, <3>1, <3>2 DEF Present, Pushes
  <2> QED  BY <2>1, <2>2
<1> QED  BY <1>3, <1>4, <1>5, <1>6, <1>7

(* A ready poll leaves the coroutine with the thread that polled it.       *)
LEMMA PollReadyStage ==
  ASSUME IInv, NEW w \in Thread, PollReady(w)
  PROVE  StageInv'
<1> USE HandleFacts DEF IInv, TypeOK, StageInv
<1>1. /\ cur[w] # None /\ cur[w].task \in Task
      /\ cur' = [cur EXCEPT ![w] = Started(cur[w].task)]
      /\ UNCHANGED <<handles_, arg, events, registered, fired, co>>
  BY DEF PollReady, Running, queueVars, pushVars, eventVars
<1>2. \A v \in Thread : cur'[v] # None => cur[v] # None /\ cur'[v].task = cur[v].task
  BY <1>1
<1>3. QueueInv' /\ (\A v \in Thread : ThreadOK(v)') /\ SingleInv' /\ RegistryInv'
  BY <1>1, <1>2, SMT DEF QueueInv, ThreadOK, SingleInv, RegistryInv
<1>4. ASSUME NEW u \in Task PROVE Present(u)'
  <2>1. \A v \in Thread : Holds(v, u) => Holds(v, u)'
    BY <1>1 DEF Holds
  <2> QED  BY <1>1, <2>1 DEF Present, Pushes
<1> QED  BY <1>3, <1>4

(* Every step of every thread keeps one record of each coroutine.          *)
LEMMA StageNext ==
  ASSUME IInv, [Next]_vars
  PROVE  StageInv'
<1> USE DEF queueVars, pushVars, eventVars, blockVars, Become
<1>1. ASSUME UNCHANGED <<handles_, co, cur, arg, events, registered, fired>>
      PROVE  StageInv'
  BY <1>1, SMT DEF IInv, StageInv, QueueInv, ThreadOK, SingleInv, RegistryInv,
                 Present, Holds, Pushes
<1>2. ASSUME NEW w \in Thread, Step(w) PROVE StageInv'
  BY <1>1, <1>2, PushStage, PopStage, SelectStage, WakeStage
     DEF Step, Drop, LoopTest, ResumeLocal, TryLock, EndResume, Check, EndPoll,
         EndWake
<1>3. ASSUME NEW w \in Thread, NEW t \in Task, Spawn(w, t) PROVE StageInv'
  BY <1>3, SpawnStage DEF Spawn, Resumed, Running, IInv, PlaceInv, PlaceOK
<1>4. ASSUME NEW w \in Thread, NEW o \in Outcome, Complete(w, o) PROVE StageInv'
  BY <1>4, EndStage DEF Complete, Resumed, Running
<1>5. ASSUME NEW w \in Thread, Terminate(w) PROVE StageInv'
  BY <1>5, EndStage DEF Terminate, Resumed, Running
<1>6. CASE ThrowOut
  BY <1>6, EndStage DEF ThrowOut, Resumed, Running, Thread
<1>7. ASSUME NEW t \in Task, BlockOn(t) PROVE StageInv'
  BY <1>7, SpawnStage DEF BlockOn, Thread, IInv, PlaceInv, PlaceOK
<1>8. ASSUME NEW t \in Task, Fire(t) PROVE StageInv'
  BY <1>8, SMT DEF Fire, IInv, StageInv, QueueInv, ThreadOK, SingleInv, RegistryInv,
                   Present, Holds, Pushes
<1>9. ASSUME NEW w \in Thread, Lock(w) \/ Body(w) PROVE StageInv'
  BY <1>1, <1>3, <1>4, <1>5, <1>9, PendStage, PollReadyStage DEF Lock, Body
<1>10. CASE Destroy \/ Join \/ Stopped \/ UNCHANGED vars
  BY <1>1, <1>10 DEF Destroy, Join, Stopped, vars
<1> QED  BY <1>2, <1>6, <1>7, <1>8, <1>9, <1>10 DEF Next

(* What a thread holds, and where each coroutine is recorded, for any      *)
(* number of threads, tasks and registries.                                *)
LEMMA Inductive == Spec => []IInv
<1>1. IInv /\ [Next]_vars => IInv'
  BY PlaceNext, StageNext DEF IInv
<1> QED  BY <1>1, InitIInv, PTL DEF Spec

-----------------------------------------------------------------------------
(* Every variable keeps its type, whatever the number of threads and tasks. *)
THEOREM TypeCorrect == Spec => []TypeOK
<1>1. IInv => TypeOK
  BY DEF IInv
<1> QED  BY <1>1, Inductive, PTL

(* run_loop_once never resumes a coroutine that is queued twice, running   *)
(* elsewhere, still registered or finished.                                *)
THEOREM OneResumePerWake == Spec => []ResumeOnce
<1>1. IInv => ResumeOnce
  <2> SUFFICES ASSUME IInv PROVE ResumeOnce
    OBVIOUS
  <2>1. DOMAIN handles_ = 1 .. Len(handles_)
    BY SMT DEF IInv, TypeOK
  <2>2. \A i, j \in DOMAIN handles_ : handles_[i].task = handles_[j].task => i = j
    BY <2>1 DEF IInv, StageInv, QueueInv
  <2>3. ASSUME NEW t \in Task, InQueue(t)
        PROVE  /\ registered[t] = None
               /\ co[t] \notin {"unborn", "done"}
               /\ \A w \in Thread : ~Holds(w, t) /\ ~Pushes(w, t) /\ t \notin events[w]
    <3>1. co[t] = "queued"
      BY <2>1, <2>3 DEF IInv, StageInv, QueueInv, InQueue
    <3> QED  BY <3>1 DEF IInv, PlaceInv, PlaceOK, StageInv, ThreadOK, RegistryInv, Holds, Pushes
  <2>4. ASSUME NEW t \in Task, NEW w \in Thread, NEW v \in Thread, Holds(w, t)
        PROVE  /\ ~Pushes(v, t) /\ t \notin events[v]
               /\ registered[t] = None
               /\ Holds(v, t) => v = w
    <3>1. co[t] = "running"
      BY <2>4 DEF IInv, PlaceInv, PlaceOK, StageInv, ThreadOK, Holds
    <3> QED  BY <2>4, <3>1 DEF IInv, PlaceInv, PlaceOK, StageInv, ThreadOK, SingleInv, RegistryInv,
                               Holds, Pushes
  <2>5. TypeOK
    BY DEF IInv
  <2> QED  BY <2>2, <2>3, <2>4, <2>5 DEF ResumeOnce
<1> QED  BY <1>1, Inductive, PTL

-----------------------------------------------------------------------------
(***************************************************************************)
(* WakeHasFuture.  A future binds itself to its event in the step that     *)
(* registers the event, and only wake unbinds it.                          *)
(***************************************************************************)
FutureInv ==
  /\ \A t \in Task : registered[t] # None => future_[t]
  /\ WakeHasFuture

(* No step but Wake unbinds a future, and Wake forgets the event with it.  *)
LEMMA FutureNext == IInv /\ FutureInv /\ [Next]_vars => FutureInv'
<1> SUFFICES ASSUME IInv, FutureInv, [Next]_vars PROVE FutureInv'
  OBVIOUS
<1> USE DEF IInv, TypeOK, FutureInv, WakeHasFuture, queueVars, pushVars, eventVars,
            blockVars, Goto
<1>1. ASSUME NEW w \in Thread, NEW r \in Registry, Select(w, r) PROVE FutureInv'
  <2>1. \A t \in Task : registered'[t] # None => registered[t] # None
    BY <1>1 DEF Select
  <2>2. \A t \in Selected(w, r) : future_[t]
    BY DEF Selected, StageInv, RegistryInv
  <2>3. \A v \in Thread : events'[v] = events[v] \/ events'[v] = Selected(w, r)
    BY <1>1 DEF Select
  <2>4. future_' = future_
    BY <1>1 DEF Select
  <2> QED  BY <2>1, <2>2, <2>3, <2>4
<1>2. ASSUME NEW w \in Thread, NEW t \in Task, Wake(w, t) PROVE FutureInv'
  BY <1>2, SMT DEF Wake, PlaceInv, PlaceOK, StageInv, ThreadOK, SingleInv, RegistryInv
<1>3. ASSUME NEW w \in Thread, Pend(w) PROVE FutureInv'
  BY <1>3 DEF Pend
<1>4. ASSUME UNCHANGED <<registered, future_, events>> PROVE FutureInv'
  BY <1>4
<1>5. ASSUME NEW w \in Thread, Lock(w) \/ Step(w) \/ Body(w) PROVE FutureInv'
  BY <1>1, <1>2, <1>3, <1>4, <1>5
     DEF Lock, Step, Body, Push, Drop, LoopTest, ResumeLocal, TryLock, Pop, EndResume, Check,
         EndPoll, EndWake, PollReady, Spawn, Complete, Terminate
<1>6. ASSUME NEW t \in Task, Fire(t) \/ BlockOn(t) PROVE FutureInv'
  BY <1>4, <1>6 DEF Fire, BlockOn
<1>7. CASE ThrowOut \/ Destroy \/ Join \/ Stopped \/ UNCHANGED vars
  BY <1>4, <1>7 DEF ThrowOut, Destroy, Join, Stopped, vars
<1> QED  BY <1>5, <1>6, <1>7 DEF Next

(* RuntimeCore::wake never dereferences a null future_.                    *)
THEOREM WakeFindsFuture == Spec => []WakeHasFuture
<1>1. Init => FutureInv
  BY DEF Init, FutureInv, WakeHasFuture
<1>2. FutureInv => WakeHasFuture
  BY DEF FutureInv
<1> QED  BY <1>1, <1>2, FutureNext, Inductive, PTL DEF Spec

-----------------------------------------------------------------------------
(***************************************************************************)
(* DestroyedQuiet.  A worker is at "exit" only when it has left its loop,  *)
(* with empty hands and without the mutex, or when the process is over.    *)
(***************************************************************************)
QuietInv ==
  /\ \A w \in Thread : handle_mutex_ = w =>
       pc[w] \in {"resume", "spawn", "push", "block_on"} \/ terminated
  /\ \A w \in Thread : pc[w] = "exit" => cur[w] = None \/ terminated
  /\ terminated => \A w \in Thread : pc[w] = "exit"
  /\ pc[Main] = "destroyed" => \A w \in Worker : pc[w] = "exit"

(* A live thread w moves from its place, maybe releasing or taking the     *)
(* mutex: all that most actions mean to QuietInv.                          *)
LEMMA QuietMove ==
  ASSUME IInv, QuietInv, NEW w \in Thread, NEW p \in Place,
         pc[w] \notin {"exit", "destroyed"},
         pc' = [pc EXCEPT ![w] = p],
         p = "exit" => cur'[w] = None,
         p = "destroyed" => \A v \in Worker : pc[v] = "exit",
         \A v \in Thread : v # w => cur'[v] = cur[v],
         \/ handle_mutex_' = None
         \/ handle_mutex_' = handle_mutex_ /\ handle_mutex_ # w
         \/ handle_mutex_' = w /\ p \in {"resume", "spawn", "push", "block_on"},
         terminated' = terminated
  PROVE  QuietInv'
<1>1. pc \in [Thread -> Place] /\ Main \in Thread /\ Worker \subseteq Thread
  BY DEF IInv, TypeOK, Thread
<1>2. ~terminated
  BY DEF QuietInv
<1>3. \A v \in Thread : pc'[v] = IF v = w THEN p ELSE pc[v]
  BY <1>1
<1>4. \A v \in Thread : handle_mutex_' = v =>
        pc'[v] \in {"resume", "spawn", "push", "block_on"} \/ terminated'
  BY <1>2, <1>3, ConstantAssumption DEF QuietInv
<1>5. \A v \in Thread : pc'[v] = "exit" => cur'[v] = None \/ terminated'
  BY <1>2, <1>3 DEF QuietInv
<1>6. pc'[Main] = "destroyed" => \A v \in Worker : pc'[v] = "exit"
  BY <1>1, <1>3 DEF QuietInv
<1> QED  BY <1>2, <1>4, <1>5, <1>6 DEF QuietInv

(* A thread ends only where it holds neither a coroutine nor the mutex.    *)
LEMMA QuietNext == IInv /\ QuietInv /\ [Next]_vars => QuietInv'
<1> SUFFICES ASSUME IInv, QuietInv, [Next]_vars PROVE QuietInv'
  OBVIOUS
<1> USE DEF queueVars, pushVars, eventVars, blockVars, Goto, Place
<1>1. /\ pc \in [Thread -> Place] /\ Main \in Thread
      /\ \A w \in Thread : pc[w] = "loop" => cur[w] = None
      /\ \A w \in Thread : handle_mutex_ = w =>
           pc[w] \in {"resume", "spawn", "push", "block_on", "exit"}
  BY DEF IInv, TypeOK, PlaceInv, PlaceOK, Thread, QuietInv
<1>2. ASSUME NEW w \in Thread, Lock(w) PROVE QuietInv'
  <2>1. pc' = [pc EXCEPT ![w] = pc[w]] /\ pc[w] \in Place
    BY <1>1, <1>2 DEF Lock
  <2> QED  BY <1>2, <2>1, QuietMove DEF Lock
<1>3. ASSUME NEW w \in Thread, Push(w) \/ Drop(w) \/ LoopTest(w) \/ ResumeLocal(w)
      PROVE  QuietInv'
  <2>1. CASE Push(w)
    BY <2>1, QuietMove DEF Push, AfterPush
  <2>2. CASE Drop(w)
    BY <1>1, <2>2, QuietMove DEF Drop
  <2>3. CASE LoopTest(w)
    <3>1. \E p \in {"outside", "exit", "local"} : pc' = [pc EXCEPT ![w] = p]
      BY <2>3 DEF LoopTest
    <3>2. /\ pc[w] = "loop"
          /\ UNCHANGED <<handle_mutex_, cur, terminated>>
      BY <2>3 DEF LoopTest
    <3> QED  BY <1>1, <3>1, <3>2, QuietMove
  <2>4. CASE ResumeLocal(w)
    BY <1>1, <2>4, QuietMove DEF ResumeLocal
  <2> QED  BY <1>3, <2>1, <2>2, <2>3, <2>4
<1>4. ASSUME NEW w \in Thread, TryLock(w) \/ Pop(w) \/ EndResume(w) \/ Check(w)
      PROVE  QuietInv'
  <2>1. CASE TryLock(w)
    BY <1>1, <2>1, QuietMove DEF TryLock
  <2>2. CASE Pop(w)
    <3>1. \A v \in Thread : v # w => cur'[v] = cur[v]
      BY <2>2 DEF Pop, IInv, TypeOK
    <3> QED  BY <2>2, <3>1, QuietMove DEF Pop
  <2>3. CASE EndResume(w)
    BY <2>3, QuietMove DEF EndResume
  <2>4. CASE Check(w)
    BY <1>1, <2>4, QuietMove DEF Check
  <2> QED  BY <1>4, <2>1, <2>2, <2>3, <2>4
<1>5. ASSUME NEW w \in Thread, EndPoll(w) \/ EndWake(w) PROVE QuietInv'
  BY <1>1, <1>5, QuietMove DEF EndPoll, EndWake
<1>6. ASSUME NEW w \in Thread, NEW r \in Registry, Select(w, r) PROVE QuietInv'
  BY <1>1, <1>6, QuietMove DEF Select
<1>7. ASSUME NEW w \in Thread, NEW t \in Task, Wake(w, t) PROVE QuietInv'
  BY <1>1, <1>7, QuietMove DEF Wake
<1>8. ASSUME NEW w \in Thread, Body(w) PROVE QuietInv'
  <2>1. ASSUME cur' = [cur EXCEPT ![w] = None] \/ cur' = [cur EXCEPT ![w] = Started(@.task)]
        PROVE  \A v \in Thread : v # w => cur'[v] = cur[v]
    BY <2>1 DEF IInv, TypeOK
  <2>2. CASE PollReady(w)
    <3>1. pc' = [pc EXCEPT ![w] = "run"]
      BY <1>1, <2>2 DEF PollReady, Running
    <3> QED  BY <1>1, <2>1, <2>2, <3>1, QuietMove DEF PollReady, Running
  <2>3. CASE Pend(w)
    BY <1>1, <2>1, <2>3, QuietMove DEF Pend, Running
  <2>4. CASE \E t \in Task : Spawn(w, t)
    BY <1>1, <2>4, QuietMove DEF Spawn, Resumed, Running
  <2>5. CASE \E o \in Outcome : Complete(w, o)
    BY <1>1, <2>1, <2>5, QuietMove DEF Complete, Resumed, Running
  <2>6. CASE Terminate(w)
    BY <2>6, ConstantAssumption DEF Terminate, QuietInv, Thread
  <2> QED  BY <1>8, <2>2, <2>3, <2>4, <2>5, <2>6 DEF Body
<1>9. ASSUME NEW t \in Task, Fire(t) \/ BlockOn(t) PROVE QuietInv'
  <2>1. CASE Fire(t)
    BY <2>1 DEF Fire, QuietInv
  <2>2. CASE BlockOn(t)
    BY <1>1, <2>2, QuietMove DEF BlockOn
  <2> QED  BY <1>9, <2>1, <2>2
<1>10. CASE ThrowOut
  <2>1. \A v \in Thread : v # Main => cur'[v] = cur[v]
    BY <1>10 DEF ThrowOut, IInv, TypeOK
  <2> QED  BY <1>1, <1>10, <2>1, QuietMove DEF ThrowOut, Resumed, Running
<1>11. CASE Destroy \/ Join
  BY <1>1, <1>11, QuietMove DEF Destroy, Join
<1>12. CASE Stopped \/ UNCHANGED vars
  BY <1>12, SMT DEF Stopped, vars, QuietInv
<1>13. ASSUME NEW w \in Thread, Step(w) PROVE QuietInv'
  BY <1>3, <1>4, <1>5, <1>6, <1>7, <1>13 DEF Step
<1> QED  BY <1>2, <1>8, <1>9, <1>10, <1>11, <1>12, <1>13 DEF Next

(* Before anything has run.                                                *)
LEMMA QuietInit == Init => QuietInv
<1> SUFFICES ASSUME Init PROVE QuietInv
  OBVIOUS
<1>1. handle_mutex_ \notin Thread /\ ~terminated
  BY ConstantAssumption DEF Init
<1>2. \A w \in Thread : pc[w] \in {"outside", "loop"}
  BY DEF Init
<1>3. Main \in Thread
  BY DEF Thread
<1> QED  BY <1>1, <1>2, <1>3 DEF QuietInv

(* After ~Runtime no worker thread runs a coroutine or holds the mutex.    *)
THEOREM QuietAfterDestroy == Spec => []DestroyedQuiet
<1>1. QuietInv => DestroyedQuiet
  BY ConstantAssumption DEF QuietInv, DestroyedQuiet, Thread
<1> QED  BY <1>1, QuietInit, QuietNext, Inductive, PTL DEF Spec

-----------------------------------------------------------------------------
(* A coroutine that was spawned and has not ended is always recorded       *)
(* somewhere a thread will find it.                                        *)
THEOREM NothingLost == Spec => []NoLostCoroutine
<1>1. IInv => NoLostCoroutine
  <2> SUFFICES ASSUME IInv PROVE NoLostCoroutine
    OBVIOUS
  <2>1. DOMAIN handles_ = 1 .. Len(handles_)
    BY SMT DEF IInv, TypeOK
  <2>2. co \in [Task -> Life] /\ \A t \in Task : Present(t)
    BY DEF IInv, TypeOK, StageInv
  <2>3. SUFFICES ASSUME NEW t \in Task, co[t] \notin {"unborn", "done"}
                 PROVE  \/ InQueue(t)
                        \/ registered[t] # None
                        \/ \E w \in Thread : Holds(w, t) \/ Pushes(w, t) \/ t \in events[w]
    BY DEF NoLostCoroutine
  <2>4. co[t] \in {"pushing", "queued", "running", "waiting", "selected"}
    BY <2>2, <2>3 DEF Life
  <2> QED  BY <2>1, <2>2, <2>4 DEF Present, InQueue
<1> QED  BY <1>1, Inductive, PTL

-----------------------------------------------------------------------------
(***************************************************************************)
(* The refinement.  The status of Executor is read off the records of a    *)
(* coroutine; by StageInv it is a function of the stage of its life.       *)
(***************************************************************************)
StatusIn(stage) ==
  CASE stage \in {"pushing", "queued"}   -> "runnable"
    [] stage \in {"waiting", "selected"} -> "waiting"
    [] OTHER -> stage

(* The abstract status of a coroutine is that of its stage.                *)
LEMMA StatusStage ==
  ASSUME IInv, NEW t \in Task
  PROVE  StatusOf(t) = StatusIn(co[t])
<1>1. co[t] \in Life
  BY DEF IInv, TypeOK
<1>2. Present(t)
  BY DEF IInv, StageInv
<1>3. /\ \A w \in Thread : Holds(w, t) => co[t] = "running"
      /\ \A w \in Thread : t \in events[w] => co[t] = "selected"
      /\ registered[t] # None => co[t] = "waiting"
  BY DEF IInv, StageInv, ThreadOK, RegistryInv, Holds
<1> QED  BY <1>1, <1>2, <1>3 DEF StatusOf, StatusIn, Present, Life

LifeStep(t, from, to) == co[t] = from /\ co' = [co EXCEPT ![t] = to]

AbstractStep ==
  \E t \in Task : \/ LifeStep(t, "unborn", "pushing")
                  \/ LifeStep(t, "queued", "running")
                  \/ LifeStep(t, "running", "waiting")
                  \/ LifeStep(t, "selected", "pushing")
                  \/ LifeStep(t, "running", "done")

HiddenStep ==
  \/ UNCHANGED co
  \/ \E t \in Task : LifeStep(t, "pushing", "queued")
  \/ \E S \in SUBSET Task :
       /\ \A t \in S : co[t] = "waiting"
       /\ co' = [t \in Task |-> IF t \in S THEN "selected" ELSE co[t]]

(* Every step of the scheduler moves one coroutine along its life, or is   *)
(* hidden from the abstract specification.                                 *)
LEMMA LifeSteps ==
  ASSUME IInv, [Next]_vars
  PROVE  AbstractStep \/ HiddenStep
<1>1. ASSUME NEW w \in Thread
      PROVE  /\ cur[w] # None => cur[w].task \in Task /\ co[cur[w].task] = "running"
             /\ arg[w] # None => arg[w].task \in Task /\ co[arg[w].task] = "pushing"
             /\ \A t \in events[w] : co[t] = "selected"
  BY HandleFacts, SMT DEF IInv, TypeOK, StageInv, ThreadOK
<1>2. ASSUME NEW w \in Thread, Push(w) PROVE HiddenStep
  <2>1. arg[w] # None
    BY <1>2 DEF Push, IInv, PlaceInv, PlaceOK
  <2> QED  BY <1>1, <1>2, <2>1 DEF Push, Become, HiddenStep, LifeStep
<1>3. ASSUME NEW w \in Thread, Pop(w) PROVE AbstractStep
  <2>1. handles_ \in Seq(Handle) /\ handles_ # <<>>
    BY <1>3 DEF Pop, IInv, TypeOK
  <2>2. /\ Head(handles_).task \in Task
        /\ co[Head(handles_).task] = "queued"
    <3>1. 1 \in 1 .. Len(handles_) /\ Head(handles_) = handles_[1]
      BY <2>1, QueueHead, SMT
    <3>2. handles_[1].task \in Task
      BY <2>1, QueueHead, HandleFacts
    <3> QED  BY <3>1, <3>2 DEF IInv, StageInv, QueueInv
  <2> QED  BY <1>3, <2>2 DEF Pop, Become, AbstractStep, LifeStep
<1>4. ASSUME NEW w \in Thread, NEW r \in Registry, Select(w, r) PROVE HiddenStep
  <2>1. Selected(w, r) \in SUBSET Task /\ \A t \in Selected(w, r) : co[t] = "waiting"
    BY DEF Selected, IInv, TypeOK, StageInv, RegistryInv
  <2> QED  BY <1>4, <2>1 DEF Select, HiddenStep
<1>5. ASSUME NEW w \in Thread, NEW t \in Task, Wake(w, t) PROVE AbstractStep
  BY <1>1, <1>5 DEF Wake, Become, AbstractStep, LifeStep
<1>6. ASSUME NEW w \in Thread, Body(w) PROVE AbstractStep \/ HiddenStep
  BY <1>1, <1>6 DEF Body, PollReady, Pend, Spawn, Complete, Terminate, Resumed,
                    Running, Become, AbstractStep, HiddenStep, LifeStep
<1>7. CASE ThrowOut
  BY <1>1, <1>7 DEF ThrowOut, Resumed, Running, Become, AbstractStep, LifeStep, Thread
<1>8. ASSUME NEW t \in Task, Fire(t) \/ BlockOn(t) PROVE AbstractStep \/ HiddenStep
  BY <1>8 DEF Fire, BlockOn, Become, AbstractStep, HiddenStep, LifeStep
<1>9. ASSUME NEW w \in Thread, Lock(w) \/ Step(w) PROVE AbstractStep \/ HiddenStep
  BY <1>2, <1>3, <1>4, <1>5, <1>9
     DEF Lock, Step, Drop, LoopTest, ResumeLocal, TryLock, EndResume, Check,
         EndPoll, EndWake, HiddenStep
<1>10. CASE Destroy \/ Join \/ Stopped \/ UNCHANGED vars
  BY <1>10 DEF Destroy, Join, Stopped, vars, HiddenStep
<1> QED  BY <1>6, <1>7, <1>8, <1>9, <1>10 DEF Next

(* Any number of threads behaves like the one abstract executor: each      *)
(* coroutine is dispatched once per spawn or wake, and never after it      *)
(* ended.                                                                  *)
THEOREM Refinement == Spec => ImplementsExecutor
<1> DEFINE status == [t \in Task |-> StatusOf(t)]
<1>0. IInv => \A t \in Task : StatusOf(t) = StatusIn(co[t])
  BY StatusStage
<1>1. Init => Abstract!Init
  <2> SUFFICES ASSUME Init PROVE Abstract!Init
    OBVIOUS
  <2>1. \A t \in Task : StatusOf(t) = StatusIn("unborn")
    BY <1>0, InitIInv DEF Init
  <2> QED  BY <2>1 DEF Abstract!Init, StatusIn
<1>2. IInv /\ IInv' /\ [Next]_vars => [Abstract!Next]_status
  <2> SUFFICES ASSUME IInv, IInv', [Next]_vars PROVE [Abstract!Next]_status
    OBVIOUS
  <2>1. /\ co \in [Task -> Life]
        /\ status = [t \in Task |-> StatusIn(co[t])]
        /\ status' = [t \in Task |-> StatusIn(co'[t])]
    <3>1. \A t \in Task : StatusOf(t) = StatusIn(co[t])
      BY <1>0
    <3>2. (\A t \in Task : StatusOf(t) = StatusIn(co[t]))'
      BY <1>0, PTL
    <3> QED  BY <3>1, <3>2 DEF IInv, TypeOK
  <2> HIDE DEF status
  <2>2. CASE HiddenStep
    <3>1. \A t \in Task : StatusIn(co'[t]) = StatusIn(co[t])
      BY <2>1, <2>2 DEF HiddenStep, LifeStep, StatusIn
    <3> QED  BY <2>1, <3>1
  <2>3. CASE AbstractStep
    <3>1. PICK t \in Task : \/ LifeStep(t, "unborn", "pushing")
                            \/ LifeStep(t, "queued", "running")
                            \/ LifeStep(t, "running", "waiting")
                            \/ LifeStep(t, "selected", "pushing")
                            \/ LifeStep(t, "running", "done")
      BY <2>3 DEF AbstractStep
    <3>2. status' = [status EXCEPT ![t] = StatusIn(co'[t])]
      BY <2>1, <3>1 DEF LifeStep
    <3>3. <<status[t], status'[t]>> \in
            {<<"unborn", "runnable">>, <<"runnable", "running">>,
             <<"running", "waiting">>, <<"waiting", "runnable">>,
             <<"running", "done">>}
      BY <2>1, <3>1 DEF LifeStep, StatusIn
    <3> QED  BY <2>1, <3>2, <3>3
             DEF status, Abstract!Next, Abstract!Spawn, Abstract!Dispatch,
                 Abstract!Suspend, Abstract!Wake, Abstract!Finish, Abstract!Move
  <2> QED  BY <2>2, <2>3, LifeSteps
<1> QED  BY <1>1, <1>2, Inductive, PTL DEF Spec, ImplementsExecutor, Abstract!Spec
-----------------------------------------------------------------------------
(***************************************************************************)
(* BlockOnResult.  The flag of in_place_worker_ is only ever set by the    *)
(* coroutine given to the block_on that is under way, because every root   *)
(* of an earlier call has ended; so the loop that finds the flag set has   *)
(* its result.  This holds as long as no exception leaves block_on: after  *)
(* one the abandoned root may still run, and set the flag of a later call. *)
(***************************************************************************)
BlockInv ==
  /\ left # "never" => awaited \in Task
  /\ \A t \in roots : co[t] = "done" \/ (t = awaited /\ left = "inside")
  /\ suspend_flag_[Main] => left = "inside" /\ co[awaited] = "done"
  /\ left = "returned" => co[awaited] = "done"
  /\ pc[Main] = "outside" => left # "inside"

(* A coroutine that has ended is never spawned, queued or resumed again.   *)
LEMMA DoneStays ==
  ASSUME IInv, [Next]_vars, NEW t \in Task, co[t] = "done"
  PROVE  co'[t] = "done"
<1>1. co \in [Task -> Life]
  BY DEF IInv, TypeOK
<1>2. CASE AbstractStep
  BY <1>1, <1>2 DEF AbstractStep, LifeStep
<1>3. CASE HiddenStep
  BY <1>1, <1>3 DEF HiddenStep, LifeStep
<1> QED  BY <1>2, <1>3, LifeSteps

(* A step that neither sets the flag of Main nor starts or ends block_on.  *)
LEMMA BlockQuiet ==
  ASSUME IInv, BlockInv, [Next]_vars,
         UNCHANGED <<roots, awaited, left>>,
         suspend_flag_'[Main] => suspend_flag_[Main],
         pc'[Main] = "outside" => pc[Main] = "outside" \/ left # "inside"
  PROVE  BlockInv'
<1>1. roots \subseteq Task
  BY DEF IInv, TypeOK
<1>2. \A t \in Task : co[t] = "done" => co'[t] = "done"
  BY DoneStays
<1>3. \A t \in roots : co'[t] = "done" \/ (t = awaited /\ left = "inside")
  BY <1>1, <1>2 DEF BlockInv
<1>4. left # "never" => awaited \in Task
  BY DEF BlockInv
<1>5. co[awaited] = "done" /\ left # "never" => co'[awaited] = "done"
  BY <1>2, <1>4
<1> QED  BY <1>3, <1>4, <1>5 DEF BlockInv

(* The latest block_on was not left by an exception.                       *)
NoThrow == left # "threw"

(* Every step keeps it, but the one that leaves block_on by an exception.  *)
LEMMA BlockNext ==
  IInv /\ BlockInv /\ [Next]_vars /\ NoThrow' => BlockInv'
<1> SUFFICES ASSUME IInv, BlockInv, [Next]_vars, NoThrow' PROVE BlockInv'
  OBVIOUS
<1> USE DEF queueVars, pushVars, eventVars, blockVars, Goto
<1>1. /\ pc \in [Thread -> Place] /\ suspend_flag_ \in [Thread -> BOOLEAN]
      /\ co \in [Task -> Life] /\ roots \subseteq Task /\ Main \in Thread
  BY DEF IInv, TypeOK, Thread
<1>2. \A t \in Task : co[t] = "done" => co'[t] = "done"
  BY DoneStays
<1>3. ASSUME NEW w \in Thread, LoopTest(w) PROVE BlockInv'
  <2>1. CASE w = Main /\ suspend_flag_[w]
    <3>1. /\ left' = "returned" /\ awaited' = awaited /\ roots' = roots /\ co' = co
          /\ ~suspend_flag_'[Main]
      BY <1>1, <1>3, <2>1 DEF LoopTest
    <3>2. left = "inside" /\ co[awaited] = "done" /\ awaited \in Task
      BY <2>1 DEF BlockInv
    <3>3. \A t \in roots : co[t] = "done"
      BY <3>2 DEF BlockInv
    <3> QED  BY <3>1, <3>2, <3>3 DEF BlockInv
  <2>2. CASE w # Main \/ ~suspend_flag_[w]
    <3>1. left' = left /\ awaited' = awaited /\ roots' = roots
      BY <1>3, <2>2 DEF LoopTest
    <3>2. suspend_flag_'[Main] => suspend_flag_[Main]
      BY <1>1, <1>3, <2>2 DEF LoopTest
    <3>3. pc'[Main] = "outside" => pc[Main] = "outside"
      BY <1>1, <1>3, <2>2 DEF LoopTest
    <3> QED  BY <3>1, <3>2, <3>3, BlockQuiet
  <2> QED  BY <2>1, <2>2
<1>4. ASSUME NEW w \in Thread, NEW o \in Outcome, Complete(w, o) PROVE BlockInv'
  <2>1. /\ cur[w] # None /\ cur[w].task \in Task /\ co[cur[w].task] = "running"
        /\ co'[cur[w].task] = "done"
    <3>1. cur[w] # None /\ co' = [co EXCEPT ![cur[w].task] = "done"]
      BY <1>4 DEF Complete, Resumed, Running, Become
    <3>2. cur[w] \in Handle /\ co[cur[w].task] = "running"
      BY <3>1 DEF IInv, TypeOK, StageInv, ThreadOK
    <3> QED  BY <1>1, <3>1, <3>2, HandleFacts
  <2>2. UNCHANGED <<roots, awaited, left>> /\ (pc'[Main] = "outside" => pc[Main] = "outside")
    BY <1>1, <1>4 DEF Complete
  <2>3. CASE o = "return" /\ cur[w].task \in roots
    <3>1. cur[w].task = awaited /\ left = "inside"
      BY <2>1, <2>3 DEF BlockInv
    <3>2. \A t \in roots : co'[t] = "done" \/ (t = awaited /\ left = "inside")
      BY <1>1, <1>2 DEF BlockInv
    <3> QED  BY <2>1, <2>2, <3>1, <3>2 DEF BlockInv
  <2>4. CASE ~(o = "return" /\ cur[w].task \in roots)
    <3>1. suspend_flag_' = suspend_flag_
      BY <1>4, <2>4 DEF Complete
    <3> QED  BY <2>2, <3>1, BlockQuiet
  <2> QED  BY <2>3, <2>4
<1>5. ASSUME NEW t \in Task, BlockOn(t) PROVE BlockInv'
  <2>1. /\ roots' = roots \cup {t} /\ awaited' = t /\ left' = "inside"
        /\ suspend_flag_' = suspend_flag_ /\ pc'[Main] = "block_on"
    BY <1>1, <1>5 DEF BlockOn
  <2>2. left # "inside"
    BY <1>5 DEF BlockOn, BlockInv
  <2>3. ~suspend_flag_[Main] /\ \A u \in roots : co[u] = "done"
    BY <2>2 DEF BlockInv
  <2>4. \A u \in roots : co'[u] = "done"
    BY <1>1, <1>2, <2>3
  <2> QED  BY <2>1, <2>3, <2>4 DEF BlockInv
<1>6. ASSUME NEW w \in Thread, Drop(w) PROVE BlockInv'
  <2>1. UNCHANGED <<suspend_flag_, roots, awaited, left>>
    BY <1>6 DEF Drop
  <2>2. pc'[Main] = "outside" => pc[Main] = "outside" \/ left # "inside"
    BY <1>1, <1>6 DEF Drop
  <2> QED  BY <2>1, <2>2, BlockQuiet
<1>7. ASSUME NEW w \in Thread, Lock(w) \/ Step(w) \/ Body(w) PROVE BlockInv'
  <2>1. ASSUME UNCHANGED <<suspend_flag_, roots, awaited, left>>,
               \E p \in Place \ {"outside"} : pc' = [pc EXCEPT ![w] = p] \/ pc' = pc
        PROVE  BlockInv'
    <3>1. pc'[Main] = "outside" => pc[Main] = "outside"
      BY <1>1, <2>1
    <3> QED  BY <2>1, <3>1, BlockQuiet
  <2>2. CASE Lock(w)
    BY <2>1, <2>2 DEF Lock, Place
  <2>3. CASE Step(w)
    BY <1>3, <1>6, <2>1, <2>3 DEF Step, Push, AfterPush, ResumeLocal, TryLock, Pop,
       EndResume, Check, Select, EndPoll, Wake, EndWake, Place
  <2>4. CASE Terminate(w)
    <3>1. UNCHANGED <<suspend_flag_, roots, awaited, left>> /\ pc'[Main] = "exit"
      BY <1>1, <2>4 DEF Terminate
    <3> QED  BY <3>1, BlockQuiet
  <2>5. CASE PollReady(w)
    BY <2>1, <2>5, SMT DEF PollReady, Place
  <2>6. CASE Pend(w)
    <3>1. UNCHANGED <<suspend_flag_, roots, awaited, left>> /\ pc' = [pc EXCEPT ![w] = "resume"]
      BY <2>6 DEF Pend
    <3> QED  BY <2>1, <3>1 DEF Place
  <2>7. ASSUME NEW t \in Task, Spawn(w, t) PROVE BlockInv'
    <3>1. UNCHANGED <<suspend_flag_, roots, awaited, left>> /\ pc' = [pc EXCEPT ![w] = "spawn"]
      BY <2>7 DEF Spawn
    <3> QED  BY <2>1, <3>1 DEF Place
  <2> QED  BY <1>4, <1>7, <2>2, <2>3, <2>4, <2>5, <2>6, <2>7 DEF Body
<1>8. ASSUME NEW t \in Task, Fire(t) PROVE BlockInv'
  BY <1>8, BlockQuiet DEF Fire
<1>9. CASE Destroy
  <2>1. UNCHANGED <<roots, awaited, left>> /\ pc'[Main] = "join"
    BY <1>1, <1>9 DEF Destroy
  <2>2. suspend_flag_'[Main] => suspend_flag_[Main]
    BY <1>1, <1>9, ConstantAssumption DEF Destroy
  <2> QED  BY <2>1, <2>2, BlockQuiet
<1>10. CASE Join
  <2>1. UNCHANGED <<suspend_flag_, roots, awaited, left>> /\ pc'[Main] = "destroyed"
    BY <1>1, <1>10 DEF Join
  <2> QED  BY <2>1, BlockQuiet
<1>11. CASE Stopped \/ UNCHANGED vars
  BY <1>11, BlockQuiet DEF Stopped, vars
<1>12. ~ThrowOut
  BY DEF ThrowOut, NoThrow
<1> QED  BY <1>5, <1>7, <1>8, <1>9, <1>10, <1>11, <1>12 DEF Next

(* block_on that returns has the result of the future it was given, on     *)
(* every run in which no exception leaves block_on.                        *)
THEOREM BlockOnHasResult == Spec /\ []NoThrow => []BlockOnResult
<1>1. Init => BlockInv
  BY DEF Init, BlockInv, Thread
<1>2. BlockInv => BlockOnResult
  BY DEF BlockInv, BlockOnResult
<1> QED  BY <1>1, <1>2, BlockNext, Inductive, PTL DEF Spec
-----------------------------------------------------------------------------
(***************************************************************************)
(* The safety half of DestroyTerminates and BlockOnReturns.  A suspend()   *)
(* is not lost: a flag is reset only by the thread it belongs to, in the   *)
(* step that leaves the loop.  So while ~Runtime joins, every worker that  *)
(* has not left has its flag set; and while block_on is inside, with the   *)
(* awaited coroutine over, the flag of Main is set (if it may also end by  *)
(* an exception or be cancelled, nobody calls suspend() and block_on never *)
(* returns).                                                               *)
(***************************************************************************)
FlagInv ==
  /\ pc[Main] = "join" => \A w \in Worker : suspend_flag_[w] \/ pc[w] = "exit"
  /\ left = "inside" => awaited \in roots
  /\ Outcome = {"return"} /\ left = "inside" /\ co[awaited] = "done" =>
       suspend_flag_[Main]

(* A step that leaves the flags and block_on alone and ends no coroutine.  *)
LEMMA FlagQuiet ==
  ASSUME IInv, FlagInv,
         UNCHANGED <<suspend_flag_, roots, awaited, left>>,
         Outcome = {"return"} => \A t \in Task : co'[t] = "done" => co[t] = "done",
         pc'[Main] = "join" => pc[Main] = "join",
         \A v \in Worker : pc[v] = "exit" => pc'[v] = "exit"
  PROVE  FlagInv'
<1>1. roots \subseteq Task
  BY DEF IInv, TypeOK
<1>2. pc'[Main] = "join" => \A w \in Worker : suspend_flag_[w] \/ pc'[w] = "exit"
  BY DEF FlagInv
<1>3. Outcome = {"return"} /\ left = "inside" /\ co'[awaited] = "done" =>
        suspend_flag_[Main]
  BY <1>1 DEF FlagInv
<1>4. left = "inside" => awaited \in roots
  BY DEF FlagInv
<1> QED  BY <1>2, <1>3, <1>4 DEF FlagInv

(* Only the thread itself takes its flag back, and it leaves the loop.     *)
LEMMA FlagNext == IInv /\ FlagInv /\ [Next]_vars => FlagInv'
<1> SUFFICES ASSUME IInv, FlagInv, [Next]_vars PROVE FlagInv'
  OBVIOUS
<1> USE DEF queueVars, pushVars, eventVars, blockVars, Goto
<1>1. /\ pc \in [Thread -> Place] /\ suspend_flag_ \in [Thread -> BOOLEAN]
      /\ co \in [Task -> Life] /\ roots \subseteq Task /\ Main \in Thread
      /\ Worker \subseteq Thread /\ Main \notin Worker
  BY ConstantAssumption DEF IInv, TypeOK, Thread
<1>2. ASSUME NEW w \in Thread, NEW p \in Place \ {"join"},
             pc[w] # "exit", pc' = [pc EXCEPT ![w] = p] \/ pc' = pc,
             UNCHANGED <<suspend_flag_, roots, awaited, left>>,
             \A t \in Task : co'[t] = "done" => co[t] = "done"
      PROVE  FlagInv'
  <2>1. pc'[Main] = "join" => pc[Main] = "join"
    BY <1>1, <1>2
  <2>2. \A v \in Worker : pc[v] = "exit" => pc'[v] = "exit"
    BY <1>1, <1>2
  <2> QED  BY <1>2, <2>1, <2>2, FlagQuiet
<1>3. ASSUME NEW t \in Task, NEW s \in {"pushing", "queued", "running", "waiting"},
             Become(t, s)
      PROVE  \A u \in Task : co'[u] = "done" => co[u] = "done"
  BY <1>1, <1>3 DEF Become
<1>4. ASSUME NEW w \in Thread, Lock(w) \/ Push(w) \/ Drop(w) PROVE FlagInv'
  <2>1. CASE Lock(w)
    BY <1>2, <2>1 DEF Lock, Place
  <2>2. CASE Push(w)
    <3>1. arg[w].task \in Task
      BY <2>2, HandleFacts, SMT DEF Push, IInv, TypeOK, PlaceInv, PlaceOK
    <3>2. \A u \in Task : co'[u] = "done" => co[u] = "done"
      BY <1>3, <2>2, <3>1 DEF Push
    <3> QED  BY <1>2, <2>2, <3>2 DEF Push, AfterPush, Place
  <2>3. CASE Drop(w)
    BY <1>2, <2>3 DEF Drop, Place
  <2> QED  BY <1>4, <2>1, <2>2, <2>3
<1>5. ASSUME NEW w \in Thread, LoopTest(w) PROVE FlagInv'
  <2>1. CASE suspend_flag_[w]
    <3>1. CASE w = Main
      <4>1. left' = "returned" /\ pc'[Main] = "outside"
        BY <1>1, <1>5, <2>1, <3>1 DEF LoopTest
      <4> QED  BY <4>1 DEF FlagInv
    <3>2. CASE w # Main
      <4>1. /\ pc'[w] = "exit" /\ UNCHANGED <<roots, awaited, left, co>>
            /\ \A v \in Thread : v # w =>
                 suspend_flag_'[v] = suspend_flag_[v] /\ pc'[v] = pc[v]
        BY <1>1, <1>5, <2>1, <3>2 DEF LoopTest
      <4> QED  BY <1>1, <3>2, <4>1 DEF FlagInv
    <3> QED  BY <3>1, <3>2
  <2>2. CASE ~suspend_flag_[w]
    BY <1>2, <1>5, <2>2 DEF LoopTest, Place
  <2> QED  BY <2>1, <2>2
<1>6. ASSUME NEW w \in Thread,
             ResumeLocal(w) \/ TryLock(w) \/ EndResume(w) \/ Check(w) \/ EndPoll(w)
               \/ EndWake(w)
      PROVE  FlagInv'
  <2>1. /\ UNCHANGED <<suspend_flag_, roots, awaited, left, co>> /\ pc[w] # "exit"
        /\ \E p \in Place \ {"join"} : pc' = [pc EXCEPT ![w] = p]
    BY <1>6 DEF ResumeLocal, TryLock, EndResume, Check, EndPoll, EndWake, Place
  <2> QED  BY <1>2, <2>1
<1>7. ASSUME NEW w \in Thread, Pop(w) PROVE FlagInv'
  <2>1. Head(handles_).task \in Task
    BY <1>7, QueueHead, HandleFacts DEF Pop, IInv, TypeOK
  <2>2. \A u \in Task : co'[u] = "done" => co[u] = "done"
    BY <1>3, <1>7, <2>1 DEF Pop
  <2> QED  BY <1>2, <1>7, <2>2 DEF Pop, Place
<1>8. ASSUME NEW w \in Thread, NEW r \in Registry, Select(w, r) PROVE FlagInv'
  <2>1. \A u \in Task : co'[u] = "done" => co[u] = "done"
    BY <1>8 DEF Select
  <2> QED  BY <1>2, <1>8, <2>1 DEF Select, Place
<1>9. ASSUME NEW w \in Thread, NEW t \in Task, Wake(w, t) PROVE FlagInv'
  <2>1. \A u \in Task : co'[u] = "done" => co[u] = "done"
    BY <1>3, <1>9 DEF Wake
  <2> QED  BY <1>2, <1>9, <2>1 DEF Wake, Place
<1>10. ASSUME NEW w \in Thread, NEW t \in Task, Spawn(w, t) PROVE FlagInv'
  <2>1. \A u \in Task : co'[u] = "done" => co[u] = "done"
    BY <1>3, <1>10 DEF Spawn
  <2> QED  BY <1>2, <1>10, <2>1 DEF Spawn, Resumed, Running, Place
<1>11. ASSUME NEW w \in Thread, PollReady(w) \/ Pend(w) PROVE FlagInv'
  <2>1. CASE PollReady(w)
    BY <1>2, <2>1 DEF PollReady, Running, Place
  <2>2. CASE Pend(w)
    <3>1. cur[w].task \in Task
      BY <2>2, HandleFacts, SMT DEF Pend, Running, IInv, TypeOK
    <3>2. \A u \in Task : co'[u] = "done" => co[u] = "done"
      BY <1>3, <2>2, <3>1 DEF Pend
    <3> QED  BY <1>2, <2>2, <3>2 DEF Pend, Running, Place
  <2> QED  BY <1>11, <2>1, <2>2
<1>12. ASSUME NEW w \in Thread, NEW o \in Outcome, Complete(w, o) PROVE FlagInv'
  <2>1. /\ UNCHANGED <<roots, awaited, left>> /\ pc[w] # "exit"
        /\ pc' = [pc EXCEPT ![w] = "resume"]
        /\ co' = [co EXCEPT ![cur[w].task] = "done"]
    BY <1>12 DEF Complete, Resumed, Running, Become
  <2>2. /\ \A v \in Worker : suspend_flag_'[v] = suspend_flag_[v]
        /\ suspend_flag_[Main] => suspend_flag_'[Main]
        /\ o = "return" /\ cur[w].task \in roots => suspend_flag_'[Main]
    BY <1>1, <1>12 DEF Complete
  <2>3. pc'[Main] = "join" => \A v \in Worker : suspend_flag_'[v] \/ pc'[v] = "exit"
    BY <1>1, <2>1, <2>2 DEF FlagInv
  <2>4. ASSUME Outcome = {"return"}, left = "inside", co'[awaited] = "done"
        PROVE  suspend_flag_'[Main]
    <3>1. awaited \in roots /\ o = "return"
      BY <2>4 DEF FlagInv
    <3>2. CASE cur[w].task = awaited
      BY <2>2, <3>1, <3>2
    <3>3. CASE cur[w].task # awaited
      <4>1. co[awaited] = "done"
        BY <1>1, <2>1, <2>4, <3>1, <3>3
      <4> QED  BY <2>2, <2>4, <4>1 DEF FlagInv
    <3> QED  BY <3>2, <3>3
  <2> QED  BY <2>1, <2>3, <2>4 DEF FlagInv
<1>13. ASSUME NEW w \in Thread, Terminate(w) PROVE FlagInv'
  <2>1. UNCHANGED <<suspend_flag_, roots, awaited, left>> /\ Outcome # {"return"}
    BY <1>13, SMT DEF Terminate
  <2>2. pc'[Main] # "join" /\ \A v \in Worker : pc'[v] = "exit"
    BY <1>1, <1>13 DEF Terminate
  <2> QED  BY <2>1, <2>2, FlagQuiet
<1>14. CASE ThrowOut
  <2>1. left' = "threw" /\ pc'[Main] = "outside"
    BY <1>1, <1>14 DEF ThrowOut
  <2> QED  BY <2>1 DEF FlagInv
<1>15. ASSUME NEW t \in Task, Fire(t) PROVE FlagInv'
  BY <1>15, FlagQuiet DEF Fire
<1>16. ASSUME NEW t \in Task, BlockOn(t) PROVE FlagInv'
  <2>1. pc'[Main] = "block_on" /\ awaited' = t /\ t \in roots' /\ co'[t] = "pushing"
    BY <1>1, <1>16 DEF BlockOn, Become
  <2> QED  BY <2>1 DEF FlagInv
<1>17. CASE Destroy
  <2>1. /\ \A v \in Worker : suspend_flag_'[v]
        /\ suspend_flag_'[Main] = suspend_flag_[Main]
        /\ UNCHANGED <<roots, awaited, left, co>>
    BY <1>1, <1>17 DEF Destroy
  <2> QED  BY <2>1 DEF FlagInv
<1>18. CASE Join
  <2>1. UNCHANGED <<suspend_flag_, roots, awaited, left, co>> /\ pc'[Main] = "destroyed"
    BY <1>1, <1>18 DEF Join
  <2> QED  BY <2>1 DEF FlagInv
<1>19. CASE Stopped \/ UNCHANGED vars
  BY <1>19 DEF Stopped, vars, FlagInv
<1>20. ASSUME NEW w \in Thread, Step(w) PROVE FlagInv'
  BY <1>4, <1>5, <1>6, <1>7, <1>8, <1>9, <1>20 DEF Step
<1>21. ASSUME NEW w \in Thread, Body(w) PROVE FlagInv'
  BY <1>10, <1>11, <1>12, <1>13, <1>21 DEF Body
<1> QED  BY <1>4, <1>10, <1>14, <1>15, <1>16, <1>17, <1>18, <1>19, <1>20, <1>21 DEF Next

(* suspend() reaches its thread: ~Runtime joins only threads that have     *)
(* their flag set or are gone, and block_on does not sleep over the end of *)
(* its future.                                                             *)
THEOREM SuspendReaches == Spec => []FlagInv
<1>1. Init => FlagInv
  <2> SUFFICES ASSUME Init PROVE FlagInv
    OBVIOUS
  <2>1. pc[Main] = "outside" /\ left = "never"
    BY DEF Init, Thread
  <2> QED  BY <2>1 DEF FlagInv
<1> QED  BY <1>1, FlagNext, Inductive, PTL DEF Spec

(* No thread goes on with the mutex in its hands: the only step of the     *)
(* holder is the one that releases it, so a thread that waits for it or    *)
(* joins the holder waits for one critical section.                        *)
THEOREM MutexReleased ==
  Spec => [][\A w \in Thread : handle_mutex_ = w /\ pc'[w] # pc[w] /\ ~terminated'
                                 => handle_mutex_' = None]_vars
<1>1. ASSUME IInv, QuietInv, [Next]_vars, NEW w \in Thread, handle_mutex_ = w,
             pc'[w] # pc[w], ~terminated'
      PROVE  handle_mutex_' = None
  <2> USE DEF queueVars, pushVars, eventVars, blockVars, Goto
  <2>1. pc \in [Thread -> Place] /\ pc[w] \in {"resume", "spawn", "push", "block_on", "exit"}
    BY <1>1 DEF IInv, TypeOK, QuietInv
  <2>2. ASSUME NEW v \in Thread, NEW p, pc[v] # pc[w] \/ p = pc[v]
        PROVE  pc' # [pc EXCEPT ![v] = p]
    BY <1>1, <2>1, <2>2
  <2>3. ASSUME NEW v \in Thread, Lock(v) \/ Step(v) PROVE handle_mutex_' = None
    <3>1. CASE Push(v) \/ Pop(v) \/ EndResume(v)
      BY <3>1 DEF Push, Pop, EndResume
    <3>2. CASE Lock(v)
      BY <1>1, <3>2 DEF Lock
    <3>3. CASE Drop(v)
      BY <2>1, <2>2, <3>3 DEF Drop
    <3>4. CASE LoopTest(v)
      BY <2>1, <2>2, <3>4 DEF LoopTest
    <3>5. CASE ResumeLocal(v) \/ TryLock(v) \/ Check(v) \/ EndPoll(v) \/ EndWake(v)
      BY <2>1, <2>2, <3>5 DEF ResumeLocal, TryLock, Check, EndPoll, EndWake
    <3>6. CASE \E r \in Registry : Select(v, r)
      BY <2>1, <2>2, <3>6 DEF Select
    <3>7. CASE \E t \in Task : Wake(v, t)
      BY <2>1, <2>2, <3>7 DEF Wake
    <3> QED  BY <2>3, <3>1, <3>2, <3>3, <3>4, <3>5, <3>6, <3>7 DEF Step
  <2>4. ASSUME NEW v \in Thread, Body(v) PROVE FALSE
    <3>1. ~PollReady(v)
      BY <1>1 DEF PollReady
    <3>2. ~Pend(v)
      BY <2>1, <2>2 DEF Pend, Running
    <3>3. ASSUME NEW t \in Task, Spawn(v, t) PROVE FALSE
      BY <2>1, <2>2, <3>3 DEF Spawn, Resumed, Running
    <3>4. ASSUME NEW o \in Outcome, Complete(v, o) PROVE FALSE
      BY <2>1, <2>2, <3>4 DEF Complete, Resumed, Running
    <3>5. ~Terminate(v)
      BY <1>1 DEF Terminate
    <3> QED  BY <2>4, <3>1, <3>2, <3>3, <3>4, <3>5 DEF Body
  <2>5. Main \in Thread
    BY DEF Thread
  <2>6. ASSUME NEW t \in Task, Fire(t) \/ BlockOn(t) PROVE FALSE
    BY <1>1, <2>1, <2>2, <2>5, <2>6 DEF Fire, BlockOn
  <2>7. ~ThrowOut
    BY <2>1, <2>2, <2>5 DEF ThrowOut, Resumed, Running
  <2>8. ~Destroy /\ ~Join
    BY <2>1, <2>2, <2>5 DEF Destroy, Join
  <2>9. ~Stopped /\ ~UNCHANGED vars
    BY <1>1 DEF Stopped, vars
  <2> QED  BY <1>1, <2>3, <2>4, <2>6, <2>7, <2>8, <2>9 DEF Next
<1>2. IInv /\ QuietInv /\ [Next]_vars =>
        [\A w \in Thread : handle_mutex_ = w /\ pc'[w] # pc[w] /\ ~terminated'
                             => handle_mutex_' = None]_vars
  BY <1>1
<1>3. Spec => []QuietInv
  BY QuietNext, QuietInit, Inductive, PTL DEF Spec
<1> QED  BY <1>2, <1>3, Inductive, PTL DEF Spec
=============================================================================
