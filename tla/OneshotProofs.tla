--------------------------- MODULE OneshotProofs ----------------------------
(***************************************************************************)
(* Proofs about the channel for one value, for any number of calls of send *)
(* and receive, also overlapping ones.                                     *)
(***************************************************************************)
EXTENDS Oneshot, SequenceTheorems, TLAPS

(***************************************************************************)
(* The inductive invariant.  CallInv: a call in progress is counted by the *)
(* bound.  CloseInv: a party that has closed its side has no call in       *)
(* progress, and the other side can see it.  WakeInv: the future is woken  *)
(* at most once, and only while the receive is suspended.                  *)
(* ValueInv: value_ is written by the one send that succeeds, and keeps    *)
(* its payload until the first receive has taken it.  AloneInv: what holds *)
(* as long as no send and no poll have overlapped.                         *)
(***************************************************************************)
Sent == sends # <<>> /\ sends[1] = "sent"
Notified == sender = "close" \/ "sender" \notin shared_

CallInv ==
  /\ Sending => Len(sends) < MaxSend
  /\ Polling \/ receiver = "pending" => Len(receives) < MaxReceive

CloseInv ==
  /\ Sending => "sender" \in shared_ /\ sends = <<>>
  /\ sends # <<>> => state_ = "receiver_closed" \/ "sender" \notin shared_
  /\ receiver \in {"take", "empty", "pend"} => "receiver" \in shared_
  /\ "receiver" \notin shared_ => state_ = "receiver_closed" \/ "sender" \notin shared_
  /\ receives # <<>> => "receiver" \notin shared_
  /\ "receiver" \notin shared_ => receives # <<>> \/ receiver = "gone"

WakeInv ==
  /\ registered => receiver = "pending" /\ Notified
  /\ receiver_ /\ receiver # "pending" => Notified
  /\ receiver = "pending" => receiver_

ValueInv ==
  /\ ~Sent /\ sender \in {"idle", "gone", "store"} => ~payload /\ ~engaged
  /\ receiver = "take" => engaged
  /\ Sent \/ sender \in {"notify", "close"} =>
       engaged /\ (receives = <<>> => payload)

AloneInv ==
  /\ ~(Sending /\ Polling)
  /\ Sending => receives = <<>>
  /\ receiver \in {"empty", "pend"} => ~engaged
  /\ Sent /\ receives # <<>> => receives[1] = "value"
  /\ Sent \/ sender = "close" => (receiver = "pending" => registered)

IInv ==
  /\ TypeOK /\ CallInv /\ CloseInv /\ WakeInv /\ ValueInv
  /\ ~overlap => AloneInv
  /\ OneValue

-----------------------------------------------------------------------------
(* A new channel satisfies the invariant.                                  *)
LEMMA InitIInv == Init => IInv
<1> SUFFICES ASSUME Init PROVE IInv OBVIOUS
<1> USE OneshotAssumption DEF Init
<1>0. /\ <<>> \in Seq({"sent", "refused"})
      /\ <<>> \in Seq({"value", "garbage", "nullopt"})
      /\ Len(<<>>) = 0
  BY EmptySeq
<1>b. {payload, engaged, receiver_, registered, overlap} \subseteq BOOLEAN
  BY Zenon
<1>1. TypeOK BY <1>0, <1>b DEF TypeOK
<1>2. CallInv /\ CloseInv /\ WakeInv
  BY DEF CallInv, CloseInv, WakeInv, Sending, Polling
<1>3. ValueInv /\ AloneInv BY DEF ValueInv, AloneInv, Sending, Polling, Sent
<1>4. OneValue BY DEF OneValue
<1> QED BY <1>1, <1>2, <1>3, <1>4 DEF IInv

(* A step that changes nothing changes no conjunct of the invariant.       *)
LEMMA StutterIInv == ASSUME IInv, UNCHANGED vars PROVE IInv'
<1> USE DEF vars, valueVars, wakeVars
<1>1. TypeOK' BY DEF IInv, TypeOK
<1>2. CloseInv' BY DEF IInv, CloseInv, Sending
<1>3. WakeInv' BY DEF IInv, WakeInv, Notified
<1>4. ValueInv' BY DEF IInv, ValueInv, Sent
<1>5. ~overlap' => AloneInv' BY DEF IInv, AloneInv, Sent, Sending, Polling
<1>6. OneValue' BY DEF IInv, OneValue
<1>7. CallInv' BY DEF IInv, CallInv, Sending, Polling
<1> QED BY <1>1, <1>2, <1>3, <1>4, <1>5, <1>6, <1>7 DEF IInv

(* Every step preserves the invariant.                                     *)
LEMMA NextIInv == IInv /\ [Next]_vars => IInv'
<1> SUFFICES ASSUME IInv, Step, Observe PROVE IInv' BY StutterIInv DEF Next
<1> USE OneshotAssumption DEF SenderOnly, ReceiverOnly, valueVars, wakeVars, Observe,
        Sending, Polling, Return
<1>i. /\ TypeOK /\ CallInv /\ CloseInv /\ WakeInv /\ ValueInv
      /\ ~overlap => AloneInv
      /\ OneValue
  BY DEF IInv
<1>1. CASE SendRefused
  <2> USE <1>1 DEF SendRefused
  <2>1. TypeOK' BY <1>i DEF TypeOK
  <2>2. CloseInv' BY <1>i DEF TypeOK, CloseInv, WakeInv
  <2>3. WakeInv' BY <1>i DEF TypeOK, CloseInv, WakeInv, Notified
  <2>4. ValueInv' BY <1>i DEF TypeOK, CloseInv, ValueInv, WakeInv, Sent
  <2>5. ~overlap' => AloneInv' BY <1>i DEF TypeOK, CloseInv, WakeInv, ValueInv, AloneInv, Sent
  <2>6. OneValue' BY <1>i DEF TypeOK, CloseInv, OneValue
  <2>7. CallInv' BY <1>i DEF TypeOK, CallInv, CloseInv, WakeInv
  <2> QED BY <2>1, <2>2, <2>3, <2>4, <2>5, <2>6, <2>7 DEF IInv
<1>2. CASE Send
  <2> USE <1>2 DEF Send
  <2>1. TypeOK' BY <1>i DEF TypeOK
  <2>2. CloseInv' BY <1>i DEF TypeOK, CloseInv, WakeInv
  <2>3. WakeInv' BY <1>i DEF TypeOK, CloseInv, WakeInv, Notified
  <2>4. ValueInv' BY <1>i DEF TypeOK, CloseInv, ValueInv, WakeInv, Sent
  <2>5. ~overlap' => AloneInv' BY <1>i DEF TypeOK, CloseInv, WakeInv, ValueInv, AloneInv, Sent
  <2>6. OneValue' BY <1>i DEF TypeOK, CloseInv, OneValue
  <2>7. CallInv' BY <1>i DEF TypeOK, CallInv, CloseInv, WakeInv
  <2> QED BY <2>1, <2>2, <2>3, <2>4, <2>5, <2>6, <2>7 DEF IInv
<1>3. CASE StoreFirst
  <2> USE <1>3 DEF StoreFirst
  <2>1. TypeOK' BY <1>i DEF TypeOK
  <2>2. CloseInv' BY <1>i DEF TypeOK, CloseInv, WakeInv
  <2>3. WakeInv' BY <1>i DEF TypeOK, CloseInv, WakeInv, Notified
  <2>4. ValueInv' BY <1>i DEF TypeOK, CloseInv, ValueInv, WakeInv, Sent
  <2>5. ~overlap' => AloneInv' BY <1>i DEF TypeOK, CloseInv, WakeInv, ValueInv, AloneInv, Sent
  <2>6. OneValue' BY <1>i DEF TypeOK, CloseInv, OneValue
  <2>7. CallInv' BY <1>i DEF TypeOK, CallInv, CloseInv, WakeInv
  <2> QED BY <2>1, <2>2, <2>3, <2>4, <2>5, <2>6, <2>7 DEF IInv
<1>4. CASE StoreSecond
  <2> USE <1>4 DEF StoreSecond
  <2>1. TypeOK' BY <1>i DEF TypeOK
  <2>2. CloseInv' BY <1>i DEF TypeOK, CloseInv, WakeInv
  <2>3. WakeInv' BY <1>i DEF TypeOK, CloseInv, WakeInv, Notified
  <2>4. ValueInv' BY <1>i DEF TypeOK, CloseInv, ValueInv, WakeInv, Sent
  <2>5. ~overlap' => AloneInv' BY <1>i DEF TypeOK, CloseInv, WakeInv, ValueInv, AloneInv, Sent
  <2>6. OneValue' BY <1>i DEF TypeOK, CloseInv, OneValue
  <2>7. CallInv' BY <1>i DEF TypeOK, CallInv, CloseInv, WakeInv
  <2> QED BY <2>1, <2>2, <2>3, <2>4, <2>5, <2>6, <2>7 DEF IInv
<1>5. CASE Notify
  <2> USE <1>5 DEF Notify
  <2>1. TypeOK' BY <1>i DEF TypeOK
  <2>2. CloseInv' BY <1>i DEF TypeOK, CloseInv, WakeInv
  <2>3. WakeInv' BY <1>i DEF TypeOK, CloseInv, WakeInv, Notified
  <2>4. ValueInv' BY <1>i DEF TypeOK, CloseInv, ValueInv, WakeInv, Sent
  <2>5. ~overlap' => AloneInv' BY <1>i DEF TypeOK, CloseInv, WakeInv, ValueInv, AloneInv, Sent
  <2>6. OneValue' BY <1>i DEF TypeOK, CloseInv, OneValue
  <2>7. CallInv' BY <1>i DEF TypeOK, CallInv, CloseInv, WakeInv
  <2> QED BY <2>1, <2>2, <2>3, <2>4, <2>5, <2>6, <2>7 DEF IInv
<1>6. CASE SendReturns
  <2> USE <1>6 DEF SendReturns
  <2>0. sends' \in Seq({"sent", "refused"}) /\ Len(sends') <= MaxSend
    BY <1>i DEF TypeOK, CallInv
  <2>1. TypeOK' BY <1>i, <2>0 DEF TypeOK
  <2>2. CloseInv' BY <1>i DEF TypeOK, CloseInv, WakeInv
  <2>3. WakeInv' BY <1>i DEF TypeOK, CloseInv, WakeInv, Notified
  <2>4. ValueInv' BY <1>i DEF TypeOK, CloseInv, ValueInv, WakeInv, Sent
  <2>5. ~overlap' => AloneInv' BY <1>i DEF TypeOK, CloseInv, WakeInv, ValueInv, AloneInv, Sent
  <2>6. OneValue' BY <1>i DEF TypeOK, CloseInv, OneValue
  <2>7. CallInv' BY <1>i DEF TypeOK, CallInv, CloseInv, WakeInv
  <2> QED BY <2>1, <2>2, <2>3, <2>4, <2>5, <2>6, <2>7 DEF IInv
<1>7. CASE DropSender
  <2> USE <1>7 DEF DropSender
  <2>1. TypeOK' BY <1>i DEF TypeOK
  <2>2. CloseInv' BY <1>i DEF TypeOK, CloseInv, WakeInv
  <2>3. WakeInv' BY <1>i DEF TypeOK, CloseInv, WakeInv, Notified
  <2>4. ValueInv' BY <1>i DEF TypeOK, CloseInv, ValueInv, WakeInv, Sent
  <2>5. ~overlap' => AloneInv' BY <1>i DEF TypeOK, CloseInv, WakeInv, ValueInv, AloneInv, Sent
  <2>6. OneValue' BY <1>i DEF TypeOK, CloseInv, OneValue
  <2>7. CallInv' BY <1>i DEF TypeOK, CallInv, CloseInv, WakeInv
  <2> QED BY <2>1, <2>2, <2>3, <2>4, <2>5, <2>6, <2>7 DEF IInv
<1>8. CASE Receive
  <2> USE <1>8 DEF Receive
  <2>1. TypeOK' BY <1>i DEF TypeOK
  <2>2. CloseInv' BY <1>i DEF TypeOK, CloseInv, WakeInv
  <2>3. WakeInv' BY <1>i DEF TypeOK, CloseInv, WakeInv, Notified
  <2>4. ValueInv' BY <1>i DEF TypeOK, CloseInv, ValueInv, WakeInv, Sent
  <2>5. ~overlap' => AloneInv' BY <1>i DEF TypeOK, CloseInv, WakeInv, ValueInv, AloneInv, Sent
  <2>6. OneValue' BY <1>i DEF TypeOK, CloseInv, OneValue
  <2>7. CallInv' BY <1>i DEF TypeOK, CallInv, CloseInv, WakeInv
  <2> QED BY <2>1, <2>2, <2>3, <2>4, <2>5, <2>6, <2>7 DEF IInv
<1>9. CASE ReceiveAgain
  <2> USE <1>9 DEF ReceiveAgain
  <2>0. receives' \in Seq({"value", "garbage", "nullopt"}) /\ Len(receives') <= MaxReceive
    BY <1>i DEF TypeOK, CallInv
  <2>1. TypeOK' BY <1>i, <2>0 DEF TypeOK
  <2>2. CloseInv' BY <1>i DEF TypeOK, CloseInv, WakeInv
  <2>3. WakeInv' BY <1>i DEF TypeOK, CloseInv, WakeInv, Notified
  <2>4. ValueInv' BY <1>i DEF TypeOK, CloseInv, ValueInv, WakeInv, Sent
  <2>5. ~overlap' => AloneInv' BY <1>i DEF TypeOK, CloseInv, WakeInv, ValueInv, AloneInv, Sent
  <2>6. OneValue' BY <1>i DEF TypeOK, CloseInv, OneValue
  <2>7. CallInv' BY <1>i DEF TypeOK, CallInv, CloseInv, WakeInv
  <2> QED BY <2>1, <2>2, <2>3, <2>4, <2>5, <2>6, <2>7 DEF IInv
<1>10. CASE TestValue
  <2> USE <1>10 DEF TestValue
  <2>1. TypeOK' BY <1>i DEF TypeOK
  <2>2. CloseInv' BY <1>i DEF TypeOK, CloseInv, WakeInv
  <2>3. WakeInv' BY <1>i DEF TypeOK, CloseInv, WakeInv, Notified
  <2>4. ValueInv' BY <1>i DEF TypeOK, CloseInv, ValueInv, WakeInv, Sent
  <2>5. ~overlap' => AloneInv' BY <1>i DEF TypeOK, CloseInv, WakeInv, ValueInv, AloneInv, Sent
  <2>6. OneValue' BY <1>i DEF TypeOK, CloseInv, OneValue
  <2>7. CallInv' BY <1>i DEF TypeOK, CallInv, CloseInv, WakeInv
  <2> QED BY <2>1, <2>2, <2>3, <2>4, <2>5, <2>6, <2>7 DEF IInv
<1>11. CASE Take
  <2> USE <1>11 DEF Take
  <2>0. receives' \in Seq({"value", "garbage", "nullopt"}) /\ Len(receives') <= MaxReceive
    BY <1>i DEF TypeOK, CallInv
  <2>1. TypeOK' BY <1>i, <2>0 DEF TypeOK
  <2>2. CloseInv' BY <1>i DEF TypeOK, CloseInv, WakeInv
  <2>3. WakeInv' BY <1>i DEF TypeOK, CloseInv, WakeInv, Notified
  <2>4. ValueInv' BY <1>i DEF TypeOK, CloseInv, ValueInv, WakeInv, Sent
  <2>5. ~overlap' => AloneInv' BY <1>i DEF TypeOK, CloseInv, WakeInv, ValueInv, AloneInv, Sent
  <2>6. OneValue' BY <1>i DEF TypeOK, CloseInv, OneValue
  <2>7. CallInv' BY <1>i DEF TypeOK, CallInv, CloseInv, WakeInv
  <2> QED BY <2>1, <2>2, <2>3, <2>4, <2>5, <2>6, <2>7 DEF IInv
<1>12. CASE TestClosed
  <2> USE <1>12 DEF TestClosed
  <2>0. receives' \in Seq({"value", "garbage", "nullopt"}) /\ Len(receives') <= MaxReceive
    BY <1>i DEF TypeOK, CallInv
  <2>1. TypeOK' BY <1>i, <2>0 DEF TypeOK
  <2>2. CloseInv' BY <1>i DEF TypeOK, CloseInv, WakeInv
  <2>3. WakeInv' BY <1>i DEF TypeOK, CloseInv, WakeInv, Notified
  <2>4. ValueInv' BY <1>i DEF TypeOK, CloseInv, ValueInv, WakeInv, Sent
  <2>5. ~overlap' => AloneInv' BY <1>i DEF TypeOK, CloseInv, WakeInv, ValueInv, AloneInv, Sent
  <2>6. OneValue' BY <1>i DEF TypeOK, CloseInv, OneValue
  <2>7. CallInv' BY <1>i DEF TypeOK, CallInv, CloseInv, WakeInv
  <2> QED BY <2>1, <2>2, <2>3, <2>4, <2>5, <2>6, <2>7 DEF IInv
<1>13. CASE TestOpen
  <2> USE <1>13 DEF TestOpen
  <2>1. TypeOK' BY <1>i DEF TypeOK
  <2>2. CloseInv' BY <1>i DEF TypeOK, CloseInv, WakeInv
  <2>3. WakeInv' BY <1>i DEF TypeOK, CloseInv, WakeInv, Notified
  <2>4. ValueInv' BY <1>i DEF TypeOK, CloseInv, ValueInv, WakeInv, Sent
  <2>5. ~overlap' => AloneInv' BY <1>i DEF TypeOK, CloseInv, WakeInv, ValueInv, AloneInv, Sent
  <2>6. OneValue' BY <1>i DEF TypeOK, CloseInv, OneValue
  <2>7. CallInv' BY <1>i DEF TypeOK, CallInv, CloseInv, WakeInv
  <2> QED BY <2>1, <2>2, <2>3, <2>4, <2>5, <2>6, <2>7 DEF IInv
<1>14. CASE Pend
  <2> USE <1>14 DEF Pend
  <2>1. TypeOK' BY <1>i DEF TypeOK
  <2>2. CloseInv' BY <1>i DEF TypeOK, CloseInv, WakeInv
  <2>3. WakeInv' BY <1>i DEF TypeOK, CloseInv, WakeInv, Notified
  <2>4. ValueInv' BY <1>i DEF TypeOK, CloseInv, ValueInv, WakeInv, Sent
  <2>5. ~overlap' => AloneInv' BY <1>i DEF TypeOK, CloseInv, WakeInv, ValueInv, AloneInv, Sent
  <2>6. OneValue' BY <1>i DEF TypeOK, CloseInv, OneValue
  <2>7. CallInv' BY <1>i DEF TypeOK, CallInv, CloseInv, WakeInv
  <2> QED BY <2>1, <2>2, <2>3, <2>4, <2>5, <2>6, <2>7 DEF IInv
<1>15. CASE Resume
  <2> USE <1>15 DEF Resume
  <2>1. TypeOK' BY <1>i DEF TypeOK
  <2>2. CloseInv' BY <1>i DEF TypeOK, CloseInv, WakeInv
  <2>3. WakeInv' BY <1>i DEF TypeOK, CloseInv, WakeInv, Notified
  <2>4. ValueInv' BY <1>i DEF TypeOK, CloseInv, ValueInv, WakeInv, Sent
  <2>5. ~overlap' => AloneInv' BY <1>i DEF TypeOK, CloseInv, WakeInv, ValueInv, AloneInv, Sent
  <2>6. OneValue' BY <1>i DEF TypeOK, CloseInv, OneValue
  <2>7. CallInv' BY <1>i DEF TypeOK, CallInv, CloseInv, WakeInv
  <2> QED BY <2>1, <2>2, <2>3, <2>4, <2>5, <2>6, <2>7 DEF IInv
<1>16. CASE DropReceiver
  <2> USE <1>16 DEF DropReceiver
  <2>1. TypeOK' BY <1>i DEF TypeOK
  <2>2. CloseInv' BY <1>i DEF TypeOK, CloseInv, WakeInv
  <2>3. WakeInv' BY <1>i DEF TypeOK, CloseInv, WakeInv, Notified
  <2>4. ValueInv' BY <1>i DEF TypeOK, CloseInv, ValueInv, WakeInv, Sent
  <2>5. ~overlap' => AloneInv' BY <1>i DEF TypeOK, CloseInv, WakeInv, ValueInv, AloneInv, Sent
  <2>6. OneValue' BY <1>i DEF TypeOK, CloseInv, OneValue
  <2>7. CallInv' BY <1>i DEF TypeOK, CallInv, CloseInv, WakeInv
  <2> QED BY <2>1, <2>2, <2>3, <2>4, <2>5, <2>6, <2>7 DEF IInv
<1> QED BY <1>1, <1>2, <1>3, <1>4, <1>5, <1>6, <1>7, <1>8, <1>9, <1>10, <1>11, <1>12, <1>13, <1>14, <1>15, <1>16 DEF Step, SendStep, ReceiveStep

(* The invariant holds in every reachable state.                           *)
LEMMA Invariance == Spec => []IInv
  BY InitIInv, NextIInv, PTL DEF Spec

-----------------------------------------------------------------------------
(* Every variable has its type, and a send that has not overlapped with a  *)
(* poll has handed its value over to the first receive, in spite of the    *)
(* unsynchronized value_; a receive that was suspended is registered.      *)
THEOREM HandsOver == Spec => []Handoff
<1>1. IInv => Handoff BY DEF IInv, Handoff, AloneInv, Sent
<1> QED BY <1>1, Invariance, PTL

(* Whatever the sender does meanwhile, only the first receive may return   *)
(* what is in value_: it closes the receiver's side, and the later ones    *)
(* report the end of the channel.                                          *)
THEOREM ReceivesOnce == Spec => []OneValue
<1>1. IInv => OneValue BY DEF IInv
<1> QED BY <1>1, Invariance, PTL

=============================================================================
