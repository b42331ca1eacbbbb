----------------------------- MODULE MpscProofs -----------------------------
(***************************************************************************)
(* Proofs about Mpsc, for any number of Senders and any capacity.          *)
(***************************************************************************)
EXTENDS Mpsc, FiniteSetTheorems, SequenceTheorems, TLAPS

(* Most leaves are first-order reasoning without arithmetic.               *)
USE ZenonT(30)

All == received \o queue_
Sending == {"poll", "lock", "full", "pending"}
Closing == {"test", "mark", "release", "closed"}

(* A call in progress has a number, within the bound on calls.             *)
CallInv ==
  /\ \A s \in Sender : calls[s] <= MaxSend
  /\ calls[Receiver] <= MaxReceive
  /\ \A p \in Party : pc[p] \in Sending => calls[p] > 0

(* Numbers that went into the channel are those of past calls.             *)
PastInv ==
  \A i \in DOMAIN All :
    LET s == All[i][1] IN
    /\ All[i][2] <= calls[s]
    /\ pc[s] \in Sending => All[i][2] < calls[s]

OrderInv ==
  \A i, j \in DOMAIN All : i < j /\ All[i][1] = All[j][1] => All[i][2] < All[j][2]

(* What the use count says: owners only go, so the number read by close    *)
(* bounds those that are left when it is used.                             *)
OwnerInv ==
  /\ shared = {p \in Party : pc[p] # "closed"}
  /\ state_ = "open" => pc[Receiver] \notin {"release", "closed"}
  /\ \A s \in Sender : pc[s] = "test" => Cardinality(shared) <= owner_num[s]

LastInv ==
  \A s \in Sender :
    pc[s] = "mark" \/ state_ = "sender_closed" => \A t \in Sender : pc[t] \in Closing

(* Who is suspended, and where its future is.  receiver_ is the future of  *)
(* the receive that is suspended, or of an earlier one; it is registered   *)
(* as soon as there is a value.  The futures of Senders in senders_ and    *)
(* handles_ are those of the suspended sends, each of them once.           *)
Enlisted(f) == \E i \in DOMAIN senders_ : senders_[i] = f
Queued(f) == \E i \in DOMAIN handles_ : handles_[i] = f

ReceiverInv ==
  /\ receiver_ = None \/ receiver_[1] = Receiver
  /\ pc[Receiver] = "pending" => receiver_ = Call(Receiver)
  /\ pc[Receiver] = "pending" /\ queue_ # <<>> => Queued(Call(Receiver))

FutureInv ==
  /\ \A i \in DOMAIN senders_ : senders_[i][1] \in Sender /\ Awaited(senders_[i])
  /\ \A i \in DOMAIN handles_ : handles_[i][1] \in Sender => Awaited(handles_[i])
  /\ \A s \in Sender : pc[s] = "pending" => Enlisted(Call(s)) \/ Queued(Call(s))

OnceInv ==
  /\ \A i, j \in DOMAIN senders_ : senders_[i] = senders_[j] => i = j
  /\ \A i, j \in DOMAIN handles_ :
       handles_[i][1] \in Sender /\ handles_[i] = handles_[j] => i = j
  /\ \A i \in DOMAIN senders_, j \in DOMAIN handles_ : senders_[i] # handles_[j]

WaitInv == ReceiverInv /\ FutureInv /\ OnceInv

IInv == TypeOK /\ CallInv /\ PastInv /\ OrderInv /\ OwnerInv /\ LastInv /\ WaitInv
-----------------------------------------------------------------------------
(* The senders and the receiver are finitely many, and the receiver is no  *)
(* sender.                                                                 *)
LEMMA PartyFacts ==
  /\ Sender \subseteq Party /\ Receiver \in Party
  /\ IsFiniteSet(Party)
  /\ \A s \in Sender : s # Receiver
<1>1. IsFiniteSet({Receiver}) BY FS_Singleton
<1> QED BY <1>1, FS_Union, MpscAssumption DEF Party

(* The size of sets of two and of three owners.                            *)
LEMMA TwoOrThree ==
  /\ \A x, y : x # y => Cardinality({x, y}) = 2
  /\ \A x, y, z : x # y /\ x # z /\ y # z => Cardinality({x, y, z}) = 3
<1>1. ASSUME NEW x, NEW y, x # y
      PROVE  IsFiniteSet({x, y}) /\ Cardinality({x, y}) = 2
  <2>1. {x, y} = {x} \cup {y} /\ y \notin {x} BY <1>1
  <2>2. IsFiniteSet({x}) /\ Cardinality({x}) = 1 BY FS_Singleton
  <2> QED BY <2>1, <2>2, FS_AddElement, SMT
<1>2. ASSUME NEW x, NEW y, NEW z, x # y, x # z, y # z
      PROVE  Cardinality({x, y, z}) = 3
  <2>1. {x, y, z} = {x, y} \cup {z} /\ z \notin {x, y} BY <1>2
  <2>2. IsFiniteSet({x, y}) /\ Cardinality({x, y}) = 2 BY <1>1, <1>2
  <2>3. Cardinality({x, y} \cup {z}) = 2 + 1 BY <2>1, <2>2, FS_AddElement
  <2> QED BY <2>1, <2>3, SMT
<1> QED BY <1>1, <1>2

(* What went through the channel are numbered values of Senders.           *)
LEMMA AllFacts ==
  ASSUME TypeOK
  PROVE  /\ All \in Seq(Value)
         /\ \A i \in DOMAIN All :
              /\ All[i] = <<All[i][1], All[i][2]>>
              /\ All[i][1] \in Sender
              /\ All[i][2] \in 1 .. MaxSend
<1>1. All \in Seq(Value) BY SMT DEF TypeOK, All
<1>2. \A i \in DOMAIN All : All[i] \in Value BY <1>1, SMT
<1> QED BY <1>1, <1>2, SMT DEF Value

(* A receive moves the oldest value from the channel to the results.       *)
LEMMA MoveOldest ==
  ASSUME NEW S, NEW r \in Seq(S), NEW q \in Seq(S), q # <<>>
  PROVE  Append(r, Head(q)) \o Tail(q) = r \o q
<1>1. /\ Head(q) \in S /\ Tail(q) \in Seq(S) /\ Len(Tail(q)) = Len(q) - 1
      /\ Append(r, Head(q)) \in Seq(S) /\ Len(Append(r, Head(q))) = Len(r) + 1
  BY SMT
<1>2. Len(Append(r, Head(q)) \o Tail(q)) = Len(r \o q) BY <1>1, SMT
<1>3. ASSUME NEW i \in 1 .. Len(r \o q)
      PROVE  (Append(r, Head(q)) \o Tail(q))[i] = (r \o q)[i]
  BY <1>1, <1>3, SMT
<1> QED BY <1>1, <1>2, <1>3, SeqEqual, SMT

(* A send adds the newest value.                                           *)
LEMMA AddNewest ==
  ASSUME NEW S, NEW r \in Seq(S), NEW q \in Seq(S), NEW x \in S
  PROVE  r \o Append(q, x) = Append(r \o q, x)
<1>1. /\ Append(q, x) \in Seq(S) /\ Len(Append(q, x)) = Len(q) + 1
      /\ r \o q \in Seq(S) /\ Append(r \o q, x) \in Seq(S)
      /\ Len(Append(r \o q, x)) = Len(r) + Len(q) + 1
  BY SMT
<1>2. Len(r \o Append(q, x)) = Len(Append(r \o q, x)) BY <1>1, SMT
<1>3. ASSUME NEW i \in 1 .. Len(Append(r \o q, x))
      PROVE  (r \o Append(q, x))[i] = Append(r \o q, x)[i]
  BY <1>1, <1>3, SMT
<1> QED BY <1>1, <1>2, <1>3, SeqEqual, SMT

-----------------------------------------------------------------------------
(* The channel starts empty, with every end alive and nobody waiting.      *)
LEMMA InitIInv == Init => IInv
<1> SUFFICES ASSUME Init PROVE IInv OBVIOUS
<1> USE MpscAssumption, PartyFacts DEF Init
<1>1. TypeOK
  <2>1. /\ <<>> \in Seq(Future) /\ <<>> \in Seq(Value) /\ Len(<<>>) <= Size
        /\ FALSE \in BOOLEAN
    BY SMT
  <2>2. pc \in [Party -> Place] /\ calls \in [Party -> Nat] BY DEF Place
  <2> QED BY <2>1, <2>2 DEF TypeOK
<1>2. CallInv BY SMT DEF CallInv, Sending
<1>3. All = <<>> BY SMT DEF All
<1>4. PastInv /\ OrderInv BY <1>3, SMT DEF PastInv, OrderInv
<1>5. OwnerInv /\ LastInv BY DEF OwnerInv, LastInv
<1>6. WaitInv
  <2>1. DOMAIN senders_ = {} /\ DOMAIN handles_ = {} BY EmptySeq, SMT
  <2> QED BY <2>1 DEF WaitInv, ReceiverInv, FutureInv, OnceInv
<1> QED BY <1>1, <1>2, <1>4, <1>5, <1>6 DEF IInv

(* The types, and the numbers of the calls.                                *)
LEMMA NextTypeOK == ASSUME IInv, [Next]_vars PROVE TypeOK' /\ CallInv'
<1> USE MpscAssumption, PartyFacts DEF IInv
<1>t. TypeOK /\ CallInv OBVIOUS
<1>f. ASSUME NEW p \in Party, pc[p] \in Sending PROVE Call(p) \in Future
  <2>1. calls[p] \in 1 .. (MaxSend + MaxReceive)
    BY <1>t, <1>f, SMT DEF TypeOK, CallInv, Party
  <2> QED BY <2>1 DEF Call, Future
<1>v. ASSUME NEW s \in Sender, pc[s] \in Sending PROVE Call(s) \in Value
  BY <1>t, <1>v, SMT DEF TypeOK, CallInv, Call, Value
<1>1. ASSUME NEW s \in Sender, Send(s) PROVE TypeOK' /\ CallInv'
  BY <1>t, <1>1, SMT DEF Send, TypeOK, CallInv, Goto, Place, Sending, closeVars
<1>2. ASSUME Receive PROVE TypeOK' /\ CallInv'
  BY <1>t, <1>2, SMT DEF Receive, TypeOK, CallInv, Goto, Place, Sending, closeVars
<1>3. ASSUME NEW s \in Sender, Enqueue(s) PROVE TypeOK' /\ CallInv'
  <2>1. Call(s) \in Value BY <1>3, <1>v DEF Enqueue, Sending
  <2>2. queue_' \in Seq(Value) /\ Len(queue_') <= Size
    BY <1>t, <1>3, <2>1, SMT DEF Enqueue, TypeOK
  <2>3. handles_' \in Seq(Future) BY <1>t, <1>3, SMT DEF Enqueue, TypeOK
  <2> QED BY <1>t, <1>3, <2>2, <2>3
          DEF Enqueue, TypeOK, CallInv, Goto, Place, Sending, closeVars, callVars
<1>4. ASSUME NEW s \in Sender, Enlist(s) PROVE TypeOK' /\ CallInv'
  <2>1. Call(s) \in Future BY <1>4, <1>f DEF Enlist, Sending
  <2> QED BY <1>t, <1>4, <2>1, SMT
          DEF Enlist, TypeOK, CallInv, Goto, Place, Sending, closeVars, callVars
<1>5. ASSUME NEW s \in Sender,
             TestReceiver(s) \/ FindFull(s) \/ TestLast(s) \/ MarkClosed(s)
      PROVE  TypeOK' /\ CallInv'
  BY <1>t, <1>5 DEF TestReceiver, FindFull, TestLast, MarkClosed, TypeOK, CallInv,
                    Goto, Place, Sending, closeVars, callVars
<1>6. ASSUME NEW p \in Party, Release(p) PROVE TypeOK' /\ CallInv'
  BY <1>t, <1>6 DEF Release, TypeOK, CallInv, Goto, Place, Sending, callVars
<1>7. ASSUME NEW s \in Sender, CloseSender(s) PROVE TypeOK' /\ CallInv'
  <2>1. Cardinality(shared) \in Nat
    BY <1>t, FS_Subset, FS_CardinalityType DEF TypeOK
  <2> QED BY <1>t, <1>7, <2>1
          DEF CloseSender, TypeOK, CallInv, Goto, Place, Sending, callVars
<1>8. ASSUME Dequeue PROVE TypeOK' /\ CallInv'
  <2>1. /\ Head(queue_) \in Value /\ Tail(queue_) \in Seq(Value)
        /\ Len(Tail(queue_)) = Len(queue_) - 1
    BY <1>t, <1>8, SMT DEF Dequeue, TypeOK
  <2>2. /\ queue_' \in Seq(Value) /\ Len(queue_') <= Size /\ received' \in Seq(Value)
    BY <1>t, <1>8, <2>1, SMT DEF Dequeue, TypeOK
  <2> QED BY <1>t, <1>8, <2>2
          DEF Dequeue, TypeOK, CallInv, Goto, Place, Sending, closeVars
<1>9. ASSUME WakeSender PROVE TypeOK' /\ CallInv'
  <2>1. CASE senders_ # <<>>
    <3>1. Head(senders_) \in Future /\ Tail(senders_) \in Seq(Future)
      BY <1>t, <2>1, SMT DEF TypeOK
    <3>2. /\ senders_' = Tail(senders_) /\ handles_' = Append(handles_, Head(senders_))
      BY <1>9, <2>1 DEF WakeSender
    <3>3. senders_' \in Seq(Future) /\ handles_' \in Seq(Future)
      <4>1. handles_ \in Seq(Future) BY <1>t DEF TypeOK
      <4>2. Append(handles_, Head(senders_)) \in Seq(Future) BY <3>1, <4>1, SMT
      <4> QED BY <3>1, <3>2, <4>2
    <3> QED BY <1>t, <1>9, <3>3
            DEF WakeSender, TypeOK, CallInv, Goto, Place, Sending, closeVars, callVars
  <2>2. CASE senders_ = <<>>
    BY <1>t, <1>9, <2>2
       DEF WakeSender, TypeOK, CallInv, Goto, Place, Sending, closeVars, callVars
  <2> QED BY <2>1, <2>2
<1>10. ASSUME EndOfStream \/ CloseReceiver PROVE TypeOK' /\ CallInv'
  BY <1>t, <1>10 DEF EndOfStream, CloseReceiver, TypeOK, CallInv, Goto, Place, Sending,
                     closeVars, callVars
<1>11. ASSUME Pend PROVE TypeOK' /\ CallInv'
  <2>1. Call(Receiver) \in Future BY <1>11, <1>f DEF Pend, Sending
  <2> QED BY <1>t, <1>11, <2>1
          DEF Pend, TypeOK, CallInv, Goto, Place, Sending, closeVars, callVars
<1>12. ASSUME Resume PROVE TypeOK' /\ CallInv'
  <2>1. PICK f : f = Head(handles_) OBVIOUS
  <2>2. f \in Future /\ f[1] \in Party /\ Tail(handles_) \in Seq(Future)
    BY <1>t, <1>12, <2>1, SMTT(30) DEF Resume, TypeOK, Future
  <2>3. CASE Awaited(f) /\ Goto(f[1], "poll") /\ UNCHANGED dangling
    BY <1>t, <1>12, <2>2, <2>3
       DEF Resume, Awaited, TypeOK, CallInv, Goto, Place, Sending, closeVars, callVars
  <2>4. CASE dangling' = TRUE /\ UNCHANGED pc
    BY <1>t, <1>12, <2>2, <2>4
       DEF Resume, TypeOK, CallInv, Place, Sending, closeVars, callVars
  <2> QED BY <1>12, <2>1, <2>3, <2>4 DEF Resume
<1>13. CASE UNCHANGED vars
  BY <1>t, <1>13 DEF vars, closeVars, callVars, TypeOK, CallInv
<1> QED
  BY <1>1, <1>2, <1>3, <1>4, <1>5, <1>6, <1>7, <1>8, <1>9, <1>10, <1>11, <1>12, <1>13
     DEF Next, SendStep, ReceiveStep

(* Nothing new in the channel, and no new call.                            *)
LEMMA SameOrder ==
  ASSUME IInv, All' = All, calls' = calls,
         \A p \in Party : pc'[p] \in Sending => pc[p] \in Sending
  PROVE  PastInv' /\ OrderInv'
<1>1. \A i \in DOMAIN All : All[i][1] \in Party BY AllFacts, PartyFacts DEF IInv
<1>2. PastInv' BY <1>1 DEF IInv, PastInv
<1> QED BY <1>2 DEF IInv, OrderInv

(* The order of the values: a value is added when its number is the        *)
(* highest of its Sender, and stays where it is.                           *)
LEMMA NextOrder == ASSUME IInv, [Next]_vars PROVE PastInv' /\ OrderInv'
<1> USE PartyFacts DEF IInv
<1>t. TypeOK OBVIOUS
<1>a. /\ All \in Seq(Value)
      /\ \A i \in DOMAIN All : All[i][1] \in Sender /\ All[i][2] \in Nat
  BY <1>t, AllFacts, SMT
<1>p. pc \in [Party -> Place] /\ calls \in [Party -> Nat] BY DEF TypeOK
<1>1. ASSUME NEW s \in Sender, Send(s) PROVE PastInv' /\ OrderInv'
  <2>1. All' = All BY <1>1 DEF Send, All
  <2>2. /\ calls'[s] = calls[s] + 1
        /\ \A t \in Sender : t # s => calls'[t] = calls[t] /\ pc'[t] = pc[t]
    BY <1>1, <1>p DEF Send, Goto
  <2>3. ASSUME NEW i \in DOMAIN All
        PROVE  /\ All[i][2] <= calls'[All[i][1]]
               /\ pc'[All[i][1]] \in Sending => All[i][2] < calls'[All[i][1]]
    <3>1. PICK t \in Sender, n \in Nat : t = All[i][1] /\ n = All[i][2] BY <1>a
    <3>2. n <= calls[t] /\ (pc[t] \in Sending => n < calls[t]) BY <3>1 DEF PastInv
    <3>3. calls[t] \in Nat BY <1>p
    <3> QED BY <2>2, <3>1, <3>2, <3>3, SMT
  <2>4. PastInv' BY <2>1, <2>3 DEF PastInv
  <2> QED BY <2>1, <2>4 DEF OrderInv
<1>2. ASSUME Receive PROVE PastInv' /\ OrderInv'
  <2>1. All' = All BY <1>2 DEF Receive, All
  <2>2. \A t \in Sender : calls'[t] = calls[t] /\ pc'[t] = pc[t]
    BY <1>2, <1>p DEF Receive, Goto
  <2>3. PastInv' BY <1>a, <1>p, <2>1, <2>2 DEF PastInv
  <2> QED BY <2>1, <2>3 DEF OrderInv
<1>3. ASSUME NEW s \in Sender, Enqueue(s) PROVE PastInv' /\ OrderInv'
  <2>1. pc[s] \in Sending /\ Call(s) = <<s, calls[s]>> BY <1>3 DEF Enqueue, Sending, Call
  <2>2. Call(s) \in Value
    BY <1>p, <2>1, SMT DEF CallInv, Value
  <2>3. All' = Append(All, Call(s)) BY <1>3, <2>2, AddNewest, SMTT(30) DEF Enqueue, All, TypeOK, callVars
  <2>4. /\ DOMAIN All' = 1 .. (Len(All) + 1) /\ DOMAIN All = 1 .. Len(All)
        /\ Len(All) \in Nat
        /\ All'[Len(All) + 1] = <<s, calls[s]>>
        /\ \A i \in 1 .. Len(All) : All'[i] = All[i]
    BY <1>a, <2>1, <2>2, <2>3, SMT
  <2>5. /\ UNCHANGED calls /\ pc'[s] \notin Sending
        /\ \A t \in Sender : t # s => pc'[t] = pc[t]
    BY <1>3, <1>p DEF Enqueue, Goto, callVars, Sending
  <2>6. \A i \in 1 .. Len(All) : All[i][1] = s => All[i][2] < calls[s]
    BY <2>1, <2>4 DEF PastInv
  <2>7. PastInv'
    <3> SUFFICES ASSUME NEW i \in DOMAIN All'
                 PROVE  /\ All'[i][2] <= calls'[All'[i][1]]
                        /\ pc'[All'[i][1]] \in Sending => All'[i][2] < calls'[All'[i][1]]
      BY DEF PastInv
    <3>1. CASE i = Len(All) + 1 BY <1>p, <2>4, <2>5, <3>1, SMT
    <3>2. CASE i \in 1 .. Len(All) BY <1>a, <1>p, <2>4, <2>5, <3>2 DEF PastInv
    <3> QED BY <2>4, <3>1, <3>2, SMT
  <2>8. OrderInv'
    <3> SUFFICES ASSUME NEW i \in DOMAIN All', NEW j \in DOMAIN All',
                        i < j, All'[i][1] = All'[j][1]
                 PROVE  All'[i][2] < All'[j][2]
      BY DEF OrderInv
    <3>1. CASE j = Len(All) + 1 BY <2>4, <2>6, <3>1, SMT
    <3>2. CASE j \in 1 .. Len(All) BY <2>4, <3>2, SMT DEF OrderInv
    <3> QED BY <2>4, <3>1, <3>2, SMT
  <2> QED BY <2>7, <2>8
<1>4. ASSUME Dequeue PROVE PastInv' /\ OrderInv'
  <2>1. All' = All BY <1>4, MoveOldest DEF Dequeue, All, TypeOK
  <2> QED BY <1>4, <1>p, <2>1, SameOrder DEF Dequeue, Goto, Sending
<1>5. ASSUME NEW s \in Sender,
             \/ TestReceiver(s) \/ FindFull(s) \/ Enlist(s) \/ TestLast(s)
             \/ MarkClosed(s) \/ CloseSender(s)
      PROVE  PastInv' /\ OrderInv'
  <2>1. All' = All /\ calls' = calls
    BY <1>5 DEF TestReceiver, FindFull, Enlist, TestLast, MarkClosed, CloseSender,
                callVars, All
  <2>2. \A p \in Party : pc'[p] \in Sending => pc[p] \in Sending
    BY <1>5, <1>p DEF TestReceiver, FindFull, Enlist, TestLast, MarkClosed, CloseSender,
                      Goto, Sending
  <2> QED BY <2>1, <2>2, SameOrder
<1>6. ASSUME NEW p \in Party, Release(p) PROVE PastInv' /\ OrderInv'
  BY <1>6, <1>p, SameOrder DEF Release, Goto, Sending, callVars, All
<1>7. ASSUME WakeSender \/ EndOfStream \/ Pend \/ CloseReceiver
      PROVE  PastInv' /\ OrderInv'
  <2>1. All' = All /\ calls' = calls
    BY <1>7 DEF WakeSender, EndOfStream, Pend, CloseReceiver, callVars, All
  <2>2. \A p \in Party : pc'[p] \in Sending => pc[p] \in Sending
    BY <1>7, <1>p DEF WakeSender, EndOfStream, Pend, CloseReceiver, Goto, Sending
  <2> QED BY <2>1, <2>2, SameOrder
<1>8. ASSUME Resume PROVE PastInv' /\ OrderInv'
  <2>1. All' = All /\ calls' = calls BY <1>8 DEF Resume, callVars, All
  <2>2. \A p \in Party : pc'[p] \in Sending => pc[p] \in Sending
    BY <1>8, <1>p DEF Resume, Awaited, Goto, Sending
  <2> QED BY <2>1, <2>2, SameOrder
<1>9. CASE UNCHANGED vars BY <1>9, SameOrder DEF vars, callVars, All
<1> QED
  BY <1>1, <1>2, <1>3, <1>4, <1>5, <1>6, <1>7, <1>8, <1>9 DEF Next, SendStep, ReceiveStep

(* The owners: a party takes one step of its life at a time.  The number   *)
(* of owners only shrinks, and the last Sender is alone.                   *)
LEMMA NextOwners == ASSUME IInv, [Next]_vars PROVE OwnerInv' /\ LastInv'
<1> USE PartyFacts DEF IInv
<1>t. TypeOK OBVIOUS
<1>p. pc \in [Party -> Place] /\ owner_num \in [Sender -> Nat] BY DEF TypeOK
<1>c. /\ IsFiniteSet(shared) /\ Cardinality(shared) \in Nat
      /\ \A T : T \subseteq shared => Cardinality(T) <= Cardinality(shared)
                                      /\ Cardinality(T) \in Nat
  BY FS_Subset, FS_CardinalityType DEF TypeOK
<1>q. ASSUME UNCHANGED closeVars, pc' \in [Party -> Place],
             \A r \in Party : pc'[r] = pc[r] \/ ({pc[r], pc'[r]} \cap Closing = {})
      PROVE  OwnerInv' /\ LastInv'
  <2>1. OwnerInv'
    BY <1>q DEF OwnerInv, closeVars, Closing
  <2> QED BY <1>q, <2>1 DEF LastInv, closeVars, Closing
<1>1. ASSUME NEW s \in Sender,
             Send(s) \/ TestReceiver(s) \/ Enqueue(s) \/ FindFull(s) \/ Enlist(s)
      PROVE  OwnerInv' /\ LastInv'
  <2>1. /\ UNCHANGED closeVars /\ pc' \in [Party -> Place]
        /\ \A r \in Party : pc'[r] = pc[r] \/ ({pc[r], pc'[r]} \cap Closing = {})
    BY <1>1, <1>p DEF Send, TestReceiver, Enqueue, FindFull, Enlist, Goto, Closing, Place
  <2> QED BY <1>q, <2>1
<1>2. ASSUME Receive \/ Dequeue \/ WakeSender \/ EndOfStream \/ Pend
      PROVE  OwnerInv' /\ LastInv'
  <2>1. /\ UNCHANGED closeVars /\ pc' \in [Party -> Place]
        /\ \A r \in Party : pc'[r] = pc[r] \/ ({pc[r], pc'[r]} \cap Closing = {})
    BY <1>2, <1>p DEF Receive, Dequeue, WakeSender, EndOfStream, Pend, Goto, Closing, Place
  <2> QED BY <1>q, <2>1
<1>3. ASSUME Resume PROVE OwnerInv' /\ LastInv'
  <2>1. /\ UNCHANGED closeVars /\ pc' \in [Party -> Place]
        /\ \A r \in Party : pc'[r] = pc[r] \/ ({pc[r], pc'[r]} \cap Closing = {})
    BY <1>3, <1>p DEF Resume, Awaited, Goto, Closing, Place
  <2> QED BY <1>q, <2>1
<1>4. ASSUME NEW s \in Sender, CloseSender(s) PROVE OwnerInv' /\ LastInv'
  BY <1>4, <1>p, <1>c DEF CloseSender, Goto, OwnerInv, LastInv, Closing
<1>5. ASSUME NEW s \in Sender, TestLast(s) PROVE OwnerInv' /\ LastInv'
  <2>1. /\ pc[s] = "test" /\ UNCHANGED closeVars
        /\ pc'[s] = IF Owners(s) = 1 THEN "mark" ELSE "release"
        /\ \A r \in Party : r # s => pc'[r] = pc[r]
    BY <1>5, <1>p DEF TestLast, Goto
  <2>2. OwnerInv' BY <2>1 DEF OwnerInv, closeVars
  <2>3. ASSUME Owners(s) = 1, state_ # "sender_closed", NEW t \in Sender, t # s
        PROVE  pc[t] = "closed"
    <3>1. s \in shared /\ Cardinality(shared) <= owner_num[s] /\ owner_num[s] \in Nat
      BY <1>p, <2>1 DEF OwnerInv
    <3>2. SUFFICES t \notin shared BY <3>1 DEF OwnerInv
    <3>3. CASE state_ = "receiver_closed"
      <4>1. Cardinality(shared) <= 1 BY <2>3, <3>1, <3>3 DEF Owners
      <4>2. SUFFICES ASSUME t \in shared PROVE FALSE OBVIOUS
      <4>3. Cardinality({s, t}) = 2 BY <2>3, TwoOrThree
      <4> QED BY <1>c, <3>1, <4>1, <4>2, <4>3, SMT
    <3>4. CASE state_ = "open"
      <4>1. Cardinality(shared) <= 2 BY <2>3, <3>1, <3>4, SMT DEF Owners
      <4>2. Receiver \in shared BY <3>4 DEF OwnerInv
      <4>3. SUFFICES ASSUME t \in shared PROVE FALSE OBVIOUS
      <4>4. Cardinality({s, t, Receiver}) = 3 BY <2>3, TwoOrThree
      <4> QED BY <1>c, <3>1, <4>1, <4>2, <4>3, <4>4, SMT
    <3> QED BY <2>3, <3>3, <3>4 DEF TypeOK
  <2>4. LastInv' BY <2>1, <2>3 DEF LastInv, closeVars, Closing
  <2> QED BY <2>2, <2>4
<1>6. ASSUME NEW s \in Sender, MarkClosed(s) PROVE OwnerInv' /\ LastInv'
  BY <1>6, <1>p DEF MarkClosed, Goto, OwnerInv, LastInv, Closing
<1>7. ASSUME CloseReceiver PROVE OwnerInv' /\ LastInv'
  BY <1>7, <1>p DEF CloseReceiver, Goto, OwnerInv, LastInv, Closing
<1>8. ASSUME NEW p \in Party, Release(p) PROVE OwnerInv' /\ LastInv'
  <2>1. /\ pc[p] = "release" /\ pc'[p] = "closed" /\ UNCHANGED <<state_, owner_num>>
        /\ \A r \in Party : r # p => pc'[r] = pc[r]
        /\ shared' = shared \ {p}
    BY <1>8, <1>p DEF Release, Goto
  <2>2. Cardinality(shared') <= Cardinality(shared) /\ Cardinality(shared') \in Nat
    BY <1>c, <2>1
  <2>3. OwnerInv'
    <3>1. shared' = {r \in Party : pc'[r] # "closed"} BY <2>1 DEF OwnerInv
    <3>2. state_' = "open" => pc'[Receiver] \notin {"release", "closed"}
      BY <2>1 DEF OwnerInv
    <3>3. \A s \in Sender : pc'[s] = "test" => Cardinality(shared') <= owner_num'[s]
      BY <1>c, <1>p, <2>1, <2>2, SMT DEF OwnerInv
    <3> QED BY <3>1, <3>2, <3>3 DEF OwnerInv
  <2>4. LastInv' BY <2>1 DEF LastInv, Closing
  <2> QED BY <2>3, <2>4
<1>9. CASE UNCHANGED vars BY <1>9, <1>p, <1>q DEF vars
<1> QED
  BY <1>1, <1>2, <1>3, <1>4, <1>5, <1>6, <1>7, <1>8, <1>9 DEF Next, SendStep, ReceiveStep

(* The entries of a queue after one is added, and after one is taken.      *)
LEMMA AppendEntries ==
  ASSUME NEW S, NEW q \in Seq(S), NEW x \in S
  PROVE  /\ Len(q) \in Nat /\ DOMAIN q = 1 .. Len(q)
         /\ DOMAIN Append(q, x) = 1 .. (Len(q) + 1)
         /\ Append(q, x)[Len(q) + 1] = x
         /\ \A i \in 1 .. Len(q) : Append(q, x)[i] = q[i]
  BY SMT

LEMMA TailEntries ==
  ASSUME NEW S, NEW q \in Seq(S), q # <<>>
  PROVE  /\ Len(q) \in Nat /\ Len(q) >= 1 /\ DOMAIN q = 1 .. Len(q)
         /\ Head(q) = q[1]
         /\ DOMAIN Tail(q) = 1 .. (Len(q) - 1)
         /\ \A i \in 1 .. (Len(q) - 1) : Tail(q)[i] = q[i + 1]
  BY SMT

(* A step that suspends and resumes nobody, and does not touch the lists.  *)
LEMMA NobodyWaits ==
  ASSUME IInv, UNCHANGED <<senders_, handles_, receiver_>>,
         \A p \in Party : /\ pc'[p] = "pending" <=> pc[p] = "pending"
                          /\ pc[p] = "pending" => calls'[p] = calls[p],
         pc[Receiver] = "pending" => UNCHANGED queue_
  PROVE  WaitInv'
<1> USE PartyFacts DEF IInv, WaitInv
<1>1. \A p \in Party : pc[p] = "pending" => Call(p)' = Call(p) BY DEF Call
<1>2. ReceiverInv' BY <1>1 DEF ReceiverInv, Queued
<1>3. \A f \in Future : Awaited(f) => Awaited(f)' BY <1>1 DEF Awaited, Future
<1>4. /\ \A i \in DOMAIN senders_ : senders_[i] \in Future
      /\ \A i \in DOMAIN handles_ : handles_[i] \in Future
  BY SMT DEF TypeOK
<1>5. FutureInv' BY <1>1, <1>3, <1>4 DEF FutureInv, Enlisted, Queued
<1>6. OnceInv' BY DEF OnceInv
<1> QED BY <1>2, <1>5, <1>6

(* Suspended receives and sends: each step adds or takes one future.       *)
LEMMA NextWait == ASSUME IInv, [Next]_vars PROVE WaitInv'
<1> USE PartyFacts DEF IInv
<1>t. TypeOK /\ WaitInv OBVIOUS
<1>p. pc \in [Party -> Place] /\ calls \in [Party -> Nat] BY DEF TypeOK
<1>f. /\ senders_ \in Seq(Future) /\ handles_ \in Seq(Future)
      /\ \A i \in DOMAIN senders_ : senders_[i] \in Future
      /\ \A i \in DOMAIN handles_ : handles_[i] \in Future
  BY SMT DEF TypeOK
<1>g. \A f \in Future : f[1] \in Party BY DEF Future
<1>1. ASSUME NEW s \in Sender,
             \/ Send(s) \/ TestReceiver(s) \/ FindFull(s) \/ TestLast(s)
             \/ MarkClosed(s) \/ CloseSender(s)
      PROVE  WaitInv'
  <2>1. /\ UNCHANGED <<senders_, handles_, receiver_, queue_>>
        /\ \A p \in Party : /\ pc'[p] = "pending" <=> pc[p] = "pending"
                            /\ pc[p] = "pending" => calls'[p] = calls[p]
    BY <1>1, <1>p DEF Send, TestReceiver, FindFull, TestLast, MarkClosed, CloseSender,
                      Goto, callVars, closeVars
  <2> QED BY <2>1, NobodyWaits
<1>2. ASSUME Receive \/ Dequeue \/ EndOfStream \/ CloseReceiver PROVE WaitInv'
  <2>1. /\ UNCHANGED <<senders_, handles_, receiver_>>
        /\ pc[Receiver] # "pending"
        /\ \A p \in Party : /\ pc'[p] = "pending" <=> pc[p] = "pending"
                            /\ pc[p] = "pending" => calls'[p] = calls[p]
    BY <1>2, <1>p DEF Receive, Dequeue, EndOfStream, CloseReceiver, Goto, callVars,
                      closeVars
  <2> QED BY <2>1, NobodyWaits
<1>3. ASSUME NEW p \in Party, Release(p) PROVE WaitInv'
  <2>1. /\ UNCHANGED <<senders_, handles_, receiver_, queue_>>
        /\ \A r \in Party : /\ pc'[r] = "pending" <=> pc[r] = "pending"
                            /\ pc[r] = "pending" => calls'[r] = calls[r]
    BY <1>3, <1>p DEF Release, Goto, callVars
  <2> QED BY <2>1, NobodyWaits
<1>4. ASSUME NEW s \in Sender, Enqueue(s) PROVE WaitInv'
  <2>0. /\ UNCHANGED <<senders_, receiver_, calls>>
        /\ pc[s] = "lock" /\ \A p \in Party : pc'[p] = "pending" <=> pc[p] = "pending"
    BY <1>4, <1>p DEF Enqueue, Goto, callVars
  <2>1. CASE receiver_ = None
    <3>1. UNCHANGED handles_ BY <1>4, <2>1 DEF Enqueue
    <3>2. pc[Receiver] # "pending"
      <4>1. SUFFICES ASSUME pc[Receiver] = "pending" PROVE FALSE OBVIOUS
      <4>2. Call(Receiver) \in Future
        BY <1>p, <4>1, MpscAssumption, SMT DEF CallInv, Sending, Call, Future
      <4> QED BY <2>1, <4>1, <4>2, NoneAssumption DEF WaitInv, ReceiverInv
    <3> QED BY <2>0, <3>1, <3>2, NobodyWaits
  <2>2. CASE receiver_ # None
    <3>1. handles_' = Append(handles_, receiver_) /\ receiver_ \in Future
      BY <1>4, <2>2 DEF Enqueue, TypeOK
    <3>2. /\ Len(handles_) \in Nat /\ DOMAIN handles_ = 1 .. Len(handles_)
          /\ DOMAIN handles_' = 1 .. (Len(handles_) + 1)
          /\ handles_'[Len(handles_) + 1] = receiver_
          /\ \A i \in 1 .. Len(handles_) : handles_'[i] = handles_[i]
      BY <1>f, <3>1, AppendEntries, SMT
    <3>3. receiver_[1] = Receiver /\ receiver_[1] \notin Sender
      BY <2>2 DEF WaitInv, ReceiverInv
    <3>4. \A p \in Party : Call(p)' = Call(p) BY <2>0 DEF Call
    <3>5. \A f \in Future : Awaited(f) => Awaited(f)' BY <1>g, <2>0, <3>4 DEF Awaited
    <3>6. ReceiverInv' BY <2>0, <3>2, <3>4, SMT DEF WaitInv, ReceiverInv, Queued
    <3>7. \A f : Queued(f) => Queued(f)' BY <3>2, SMT DEF Queued
    <3>8. FutureInv'
      <4>1. (\A i \in DOMAIN senders_ : senders_[i][1] \in Sender /\ Awaited(senders_[i]))'
        BY <1>f, <2>0, <3>5 DEF WaitInv, FutureInv
      <4>2. (\A i \in DOMAIN handles_ : handles_[i][1] \in Sender => Awaited(handles_[i]))'
        BY <1>f, <3>2, <3>3, <3>5, SMT DEF WaitInv, FutureInv
      <4>3. \A r \in Sender : pc'[r] = "pending" => Enlisted(Call(r))' \/ Queued(Call(r))'
        BY <2>0, <3>4, <3>7 DEF WaitInv, FutureInv, Enlisted
      <4> QED BY <4>1, <4>2, <4>3 DEF FutureInv
    <3>9. OnceInv' BY <2>0, <3>2, <3>3, SMT DEF WaitInv, FutureInv, OnceInv
    <3> QED BY <3>6, <3>8, <3>9 DEF WaitInv
  <2> QED BY <2>1, <2>2
<1>5. ASSUME NEW s \in Sender, Enlist(s) PROVE WaitInv'
  <2>0. /\ UNCHANGED <<handles_, receiver_, queue_, calls>>
        /\ pc[s] = "full" /\ pc'[s] = "pending"
        /\ \A p \in Party : p # s => pc'[p] = pc[p]
    BY <1>5, <1>p DEF Enlist, Goto, callVars
  <2>1. \A p \in Party : Call(p)' = Call(p) BY <2>0 DEF Call
  <2>2. Call(s) \in Future /\ Call(s)[1] = s
    BY <1>p, <2>0, MpscAssumption, SMT DEF CallInv, Sending, Call, Future
  <2>3. /\ Len(senders_) \in Nat /\ DOMAIN senders_ = 1 .. Len(senders_)
        /\ DOMAIN senders_' = 1 .. (Len(senders_) + 1)
        /\ senders_'[Len(senders_) + 1] = Call(s)
        /\ \A i \in 1 .. Len(senders_) : senders_'[i] = senders_[i]
    BY <1>5, <1>f, <2>2, AppendEntries, SMT DEF Enlist
  <2>4. \A f \in Future : Awaited(f) => Awaited(f)' /\ f[1] # s
    BY <1>g, <2>0, <2>1 DEF Awaited
  <2>5. Awaited(Call(s))' BY <2>0, <2>1, <2>2 DEF Awaited
  <2>6. ReceiverInv' BY <2>0, <2>1 DEF WaitInv, ReceiverInv, Queued
  <2>7. FutureInv'
    <3>1. (\A i \in DOMAIN senders_ : senders_[i][1] \in Sender /\ Awaited(senders_[i]))'
      <4> SUFFICES ASSUME NEW i \in DOMAIN senders_'
                   PROVE  (senders_[i][1] \in Sender /\ Awaited(senders_[i]))'
        OBVIOUS
      <4>1. CASE i = Len(senders_) + 1 BY <2>1, <2>2, <2>3, <2>5, <4>1 DEF Awaited
      <4>2. CASE i \in 1 .. Len(senders_)
        BY <1>f, <2>3, <2>4, <4>2 DEF WaitInv, FutureInv, Awaited
      <4> QED BY <2>3, <4>1, <4>2, SMT
    <3>2. (\A i \in DOMAIN handles_ : handles_[i][1] \in Sender => Awaited(handles_[i]))'
      BY <1>f, <2>0, <2>4 DEF WaitInv, FutureInv
    <3>3. \A f : Enlisted(f) => Enlisted(f)' BY <2>3, SMT DEF Enlisted
    <3>4. Enlisted(Call(s))' BY <2>1, <2>3, SMT DEF Enlisted
    <3>5. \A r \in Sender : pc'[r] = "pending" => Enlisted(Call(r))' \/ Queued(Call(r))'
      BY <2>0, <2>1, <3>3, <3>4 DEF WaitInv, FutureInv, Queued
    <3> QED BY <3>1, <3>2, <3>5 DEF FutureInv
  <2>8. OnceInv'
    <3>1. \A i \in 1 .. Len(senders_) : senders_[i] # Call(s)
      BY <1>f, <2>2, <2>3, <2>4 DEF WaitInv, FutureInv
    <3>2. \A i \in DOMAIN handles_ : handles_[i] # Call(s)
      BY <1>f, <2>2, <2>4 DEF WaitInv, FutureInv
    <3> QED BY <2>0, <2>3, <3>1, <3>2, SMT DEF WaitInv, OnceInv
  <2> QED BY <2>6, <2>7, <2>8 DEF WaitInv
<1>6. ASSUME WakeSender PROVE WaitInv'
  <2>0. /\ UNCHANGED <<receiver_, queue_, calls>>
        /\ pc[Receiver] # "pending" /\ pc'[Receiver] # "pending"
        /\ \A p \in Party : pc'[p] = "pending" <=> pc[p] = "pending"
    BY <1>6, <1>p DEF WakeSender, Goto, callVars
  <2>1. CASE senders_ = <<>>
    BY <1>6, <2>0, <2>1, NobodyWaits DEF WakeSender
  <2>2. CASE senders_ # <<>>
    <3>1. senders_' = Tail(senders_) /\ handles_' = Append(handles_, Head(senders_))
      BY <1>6, <2>2 DEF WakeSender
    <3>2. /\ Len(senders_) \in Nat /\ Len(senders_) >= 1
          /\ DOMAIN senders_ = 1 .. Len(senders_)
          /\ Head(senders_) = senders_[1]
          /\ DOMAIN senders_' = 1 .. (Len(senders_) - 1)
          /\ \A i \in 1 .. (Len(senders_) - 1) : senders_'[i] = senders_[i + 1]
      BY <1>f, <2>2, <3>1, TailEntries
    <3>3. senders_[1] \in Future BY <1>f, <3>2, SMT
    <3>4. /\ Len(handles_) \in Nat /\ DOMAIN handles_ = 1 .. Len(handles_)
          /\ DOMAIN handles_' = 1 .. (Len(handles_) + 1)
          /\ handles_'[Len(handles_) + 1] = senders_[1]
          /\ \A i \in 1 .. Len(handles_) : handles_'[i] = handles_[i]
      BY <1>f, <3>1, <3>2, <3>3, AppendEntries, SMT
    <3>5. \A p \in Party : Call(p)' = Call(p) BY <2>0 DEF Call
    <3>6. \A f \in Future : Awaited(f) => Awaited(f)' BY <1>g, <2>0, <3>5 DEF Awaited
    <3>7. ReceiverInv' BY <2>0 DEF WaitInv, ReceiverInv
    <3>8. FutureInv'
      <4>1. (\A i \in DOMAIN senders_ : senders_[i][1] \in Sender /\ Awaited(senders_[i]))'
        BY <1>f, <3>2, <3>6, SMTT(30) DEF WaitInv, FutureInv
      <4>2. (\A i \in DOMAIN handles_ : handles_[i][1] \in Sender => Awaited(handles_[i]))'
        BY <1>f, <3>2, <3>4, <3>6, SMTT(30) DEF WaitInv, FutureInv
      <4>3. ASSUME NEW f, Enlisted(f) \/ Queued(f) PROVE (Enlisted(f) \/ Queued(f))'
        <5>1. CASE f = senders_[1] BY <3>4, <5>1, SMT DEF Queued
        <5>2. CASE Queued(f) BY <3>4, <5>2, SMT DEF Queued
        <5>3. CASE Enlisted(f) /\ f # senders_[1]
          <6>1. PICK i \in DOMAIN senders_ : senders_[i] = f BY <5>3 DEF Enlisted
          <6>2. i - 1 \in 1 .. (Len(senders_) - 1) /\ senders_'[i - 1] = f
            BY <3>2, <5>3, <6>1, SMT
          <6> QED BY <3>2, <6>2 DEF Enlisted
        <5> QED BY <4>3, <5>1, <5>2, <5>3
      <4>4. \A r \in Sender : pc'[r] = "pending" => Enlisted(Call(r))' \/ Queued(Call(r))'
        BY <2>0, <3>5, <4>3 DEF WaitInv, FutureInv
      <4> QED BY <4>1, <4>2, <4>4 DEF FutureInv
    <3>9. OnceInv'
      <4>1. \A i, j \in DOMAIN senders_' : senders_'[i] = senders_'[j] => i = j
        BY <3>2, SMTT(30) DEF WaitInv, OnceInv
      <4>2. \A i, j \in DOMAIN handles_' :
              handles_'[i][1] \in Sender /\ handles_'[i] = handles_'[j] => i = j
        BY <3>2, <3>4, SMT DEF WaitInv, OnceInv
      <4>3. \A i \in DOMAIN senders_', j \in DOMAIN handles_' : senders_'[i] # handles_'[j]
        BY <3>2, <3>4, SMTT(30) DEF WaitInv, OnceInv
      <4> QED BY <4>1, <4>2, <4>3 DEF OnceInv
    <3> QED BY <3>7, <3>8, <3>9 DEF WaitInv
  <2> QED BY <2>1, <2>2
<1>7. ASSUME Pend PROVE WaitInv'
  <2>0. /\ UNCHANGED <<senders_, handles_, queue_, calls>>
        /\ queue_ = <<>> /\ receiver_' = Call(Receiver)
        /\ pc[Receiver] = "poll"
        /\ \A p \in Party : p # Receiver => pc'[p] = pc[p]
    BY <1>7, <1>p DEF Pend, Goto, callVars
  <2>1. \A p \in Party : Call(p)' = Call(p) BY <2>0 DEF Call
  <2>2. ReceiverInv'
    <3>1. Call(Receiver)[1] = Receiver BY DEF Call
    <3> QED BY <2>0, <2>1, <3>1 DEF ReceiverInv
  <2>3. \A f \in Future : f[1] \in Sender /\ Awaited(f) => Awaited(f)'
    BY <2>0, <2>1 DEF Awaited
  <2>4. FutureInv'
    BY <1>f, <2>0, <2>1, <2>3 DEF WaitInv, FutureInv, Enlisted, Queued
  <2>5. OnceInv' BY <2>0 DEF WaitInv, OnceInv
  <2> QED BY <2>2, <2>4, <2>5 DEF WaitInv
<1>8. ASSUME Resume PROVE WaitInv'
  <2>0. /\ handles_ # <<>> /\ handles_' = Tail(handles_)
        /\ UNCHANGED <<senders_, receiver_, queue_, calls>>
    BY <1>8 DEF Resume, callVars
  <2>1. /\ Len(handles_) \in Nat /\ Len(handles_) >= 1
        /\ DOMAIN handles_ = 1 .. Len(handles_)
        /\ Head(handles_) = handles_[1]
        /\ DOMAIN handles_' = 1 .. (Len(handles_) - 1)
        /\ \A i \in 1 .. (Len(handles_) - 1) : handles_'[i] = handles_[i + 1]
    BY <1>f, <2>0, TailEntries
  <2>2. PICK f \in Future : f = handles_[1] BY <1>f, <2>1, SMT
  <2>3. \/ /\ Awaited(f) /\ pc'[f[1]] = "poll"
           /\ \A p \in Party : p # f[1] => pc'[p] = pc[p]
        \/ ~Awaited(f) /\ UNCHANGED pc
    BY <1>8, <1>p, <1>g, <2>1, <2>2 DEF Resume, Goto
  <2>4. \A p \in Party : Call(p)' = Call(p) BY <2>0 DEF Call
  <2>5. ASSUME NEW g, Queued(g), g # f PROVE Queued(g)'
    <3>1. PICK i \in DOMAIN handles_ : handles_[i] = g BY <2>5 DEF Queued
    <3>2. i - 1 \in 1 .. (Len(handles_) - 1) /\ handles_'[i - 1] = g
      BY <2>1, <2>2, <2>5, <3>1, SMT
    <3> QED BY <2>1, <3>2 DEF Queued
  <2>6. ASSUME NEW p \in Party, pc'[p] = "pending"
        PROVE  pc[p] = "pending" /\ Call(p) # f
    <3>1. Call(p)[1] = p BY DEF Call
    <3> QED BY <2>3, <2>6, <3>1 DEF Awaited
  <2>7. \A g \in Future : Awaited(g) /\ g # f => Awaited(g)'
    BY <1>g, <2>3, <2>4 DEF Awaited
  <2>8. ReceiverInv' BY <2>0, <2>4, <2>5, <2>6 DEF WaitInv, ReceiverInv
  <2>9. FutureInv'
    <3>1. \A i \in DOMAIN senders_ : senders_[i] # f
      BY <2>1, <2>2, SMT DEF WaitInv, OnceInv
    <3>2. (\A i \in DOMAIN senders_ : senders_[i][1] \in Sender /\ Awaited(senders_[i]))'
      BY <1>f, <2>0, <2>7, <3>1 DEF WaitInv, FutureInv
    <3>3. (\A i \in DOMAIN handles_ : handles_[i][1] \in Sender => Awaited(handles_[i]))'
      <4>1. ASSUME NEW i \in 1 .. (Len(handles_) - 1), handles_[i + 1][1] \in Sender
            PROVE  /\ handles_[i + 1] \in Future
                   /\ Awaited(handles_[i + 1]) /\ handles_[i + 1] # f
        <5>1. i + 1 \in DOMAIN handles_ /\ 1 \in DOMAIN handles_ /\ i + 1 # 1 BY <2>1, SMT
        <5> QED BY <1>f, <2>2, <4>1, <5>1 DEF WaitInv, FutureInv, OnceInv
      <4> QED BY <2>1, <2>7, <4>1
    <3>4. \A r \in Sender : pc'[r] = "pending" => Enlisted(Call(r))' \/ Queued(Call(r))'
      BY <2>0, <2>4, <2>5, <2>6 DEF WaitInv, FutureInv, Enlisted
    <3> QED BY <3>2, <3>3, <3>4 DEF FutureInv
  <2>10. OnceInv'
    <3>1. \A i, j \in DOMAIN handles_' :
            handles_'[i][1] \in Sender /\ handles_'[i] = handles_'[j] => i = j
      BY <2>1, SMTT(30) DEF WaitInv, OnceInv
    <3>2. \A i \in DOMAIN senders_', j \in DOMAIN handles_' : senders_'[i] # handles_'[j]
      BY <2>0, <2>1, SMT DEF WaitInv, OnceInv
    <3> QED BY <2>0, <3>1, <3>2 DEF WaitInv, OnceInv
  <2> QED BY <2>8, <2>9, <2>10 DEF WaitInv
<1>9. CASE UNCHANGED vars BY <1>9, NobodyWaits DEF vars, callVars
<1> QED
  BY <1>1, <1>2, <1>3, <1>4, <1>5, <1>6, <1>7, <1>8, <1>9 DEF Next, SendStep, ReceiveStep

(* At every moment the values received, then those in queue_, are in the   *)
(* order in which each sender sent them, and the channel is marked closed  *)
(* only when no Sender can send, for any number of senders and any size.   *)
THEOREM Invariance == Spec => []IInv
<1>1. IInv /\ [Next]_vars => IInv' BY NextTypeOK, NextOrder, NextOwners, NextWait DEF IInv
<1> QED BY <1>1, InitIInv, PTL DEF Spec

(* The channel is a bounded queue that delivers every value at most once   *)
(* and those of each Sender in the order of its sends, for any number of   *)
(* Senders that are suspended and woken in any order.                      *)
THEOREM DeliversInOrder == Spec => []OnceInOrder
<1>1. IInv => OnceInOrder BY DEF IInv, OnceInOrder, OrderInv, All
<1> QED BY <1>1, Invariance, PTL

(* When a Sender marks the channel closed no other Sender can send any     *)
(* more, although close reads the use count and state_ at different times. *)
THEOREM ClosesForGood == Spec => []ClosedForGood
<1>1. IInv => ClosedForGood BY DEF IInv, ClosedForGood, LastInv, Closing
<1> QED BY <1>1, Invariance, PTL

(* The future of a suspended send is in one place.                         *)
LEMMA OnePlace ==
  ASSUME IInv, NEW s \in Sender, pc[s] = "pending"
  PROVE  Cardinality(Waiting(s)) = 1
<1> USE DEF IInv, WaitInv
<1>1. Call(s)[1] = s BY DEF Call
<1>2. CASE Enlisted(Call(s))
  <2>1. PICK i \in DOMAIN senders_ : senders_[i] = Call(s) BY <1>2 DEF Enlisted
  <2>2. \A j \in DOMAIN senders_ : senders_[j] = Call(s) => j = i BY <2>1 DEF OnceInv
  <2>3. \A j \in DOMAIN handles_ : handles_[j] # Call(s) BY <2>1 DEF OnceInv
  <2>4. Waiting(s) = {<<"senders_", i>>} BY <2>1, <2>2, <2>3 DEF Waiting
  <2> QED BY <2>4, FS_Singleton
<1>3. CASE Queued(Call(s))
  <2>1. PICK i \in DOMAIN handles_ : handles_[i] = Call(s) BY <1>3 DEF Queued
  <2>2. \A j \in DOMAIN handles_ : handles_[j] = Call(s) => j = i
    BY <1>1, <2>1 DEF OnceInv
  <2>3. \A j \in DOMAIN senders_ : senders_[j] # Call(s) BY <2>1 DEF OnceInv
  <2>4. Waiting(s) = {<<"handles_", i>>} BY <2>1, <2>2, <2>3 DEF Waiting
  <2> QED BY <2>4, FS_Singleton
<1> QED BY <1>2, <1>3 DEF FutureInv

(* Nobody who is suspended is forgotten: a receive that waits while there  *)
(* is a value is in handles_, and a send that waits is once in senders_ or *)
(* in handles_, for any number of Senders that are suspended at any time.  *)
THEOREM WakesEveryone == Spec => []NoLostWakeup
<1>1. IInv => NoLostWakeup
  <2> SUFFICES ASSUME IInv PROVE NoLostWakeup OBVIOUS
  <2> QED BY OnePlace DEF IInv, WaitInv, ReceiverInv, FutureInv, Queued, NoLostWakeup
<1> QED BY <1>1, Invariance, PTL

(* Only a future of the Receiver is ever resumed that nobody awaits: the   *)
(* one that receiver_ still points to after its receive has returned.  No  *)
(* send is resumed after it has returned.                                  *)
THEOREM StaleReceiverOnly ==
  Spec => [][dangling' # dangling => Head(handles_)[1] = Receiver]_vars
<1>1. ASSUME IInv, Next, dangling' # dangling PROVE Head(handles_)[1] = Receiver
  <2>1. Resume
    BY <1>1 DEF Next, SendStep, ReceiveStep, Send, TestReceiver, Enqueue, FindFull, Enlist,
                TestLast, MarkClosed, Release, CloseSender, Receive, Dequeue, WakeSender,
                EndOfStream, Pend, CloseReceiver
  <2>2. handles_ \in Seq(Future) /\ handles_ # <<>> /\ ~Awaited(Head(handles_))
    BY <1>1, <2>1 DEF Resume, IInv, TypeOK
  <2>3. 1 \in DOMAIN handles_ /\ Head(handles_) = handles_[1] /\ handles_[1] \in Future
    BY <2>2, SMT
  <2> QED BY <1>1, <2>2, <2>3 DEF IInv, WaitInv, FutureInv, Future, Party
<1> QED BY <1>1, Invariance, PTL DEF Spec
=============================================================================
