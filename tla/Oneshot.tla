------------------------------ MODULE Oneshot -------------------------------
(***************************************************************************)
(* The channel for one value (include/xyco/sync/oneshot.ccm).              *)
(*                                                                         *)
(* Only state_ is atomic.  value_ and receiver_ are accessed by the        *)
(* sender's and the receiver's coroutine, which may be on two threads,     *)
(* without a lock: every access is a step of its own, and the two writes   *)
(* of value_ = value (the payload and the engaged flag) become visible in  *)
(* either order.                                                           *)
(***************************************************************************)
EXTENDS Naturals, Sequences

CONSTANTS
  MaxSend,     \* bound: calls of send
  MaxReceive   \* bound: calls of receive

ASSUME OneshotAssumption == MaxSend \in Nat /\ MaxReceive \in Nat

VARIABLES
  state_,      \* "open" (the initial 0), "sender_closed" or "receiver_closed"
  payload,     \* value_: the value has been written, and not moved out
  engaged,     \* value_: has_value()
  receiver_,   \* receiver_ points to the future of the suspended receive
  registered,  \* that future is in RuntimeCore::handles_
  sender,      \* where the sender's coroutine is
  receiver,    \* where the receiver's coroutine is
  shared_,     \* the parties whose shared_ is not nullptr
  sends,       \* the results of send
  receives,    \* the results of receive
  overlap      \* a send and a poll have been in progress together (history)

valueVars == <<payload, engaged>>
wakeVars == <<receiver_, registered>>
vars == <<state_, valueVars, wakeVars, sender, receiver, shared_, sends, receives,
          overlap>>

Init ==
  /\ state_ = "open"
  /\ payload = FALSE /\ engaged = FALSE
  /\ receiver_ = FALSE /\ registered = FALSE
  /\ sender = "idle" /\ receiver = "idle"
  /\ shared_ = {"sender", "receiver"}
  /\ sends = <<>> /\ receives = <<>>
  /\ overlap = FALSE

SenderOnly == UNCHANGED <<receiver, receives>>
ReceiverOnly == UNCHANGED <<sender, sends>>

-----------------------------------------------------------------------------
(* Sender::send.                                                           *)

SendRefused ==
  /\ sender = "idle" /\ Len(sends) < MaxSend
  /\ "sender" \notin shared_ \/ state_ = "receiver_closed"
  /\ sends' = Append(sends, "refused")
  /\ SenderOnly /\ UNCHANGED <<state_, valueVars, wakeVars, sender, shared_>>

Send ==
  /\ sender = "idle" /\ Len(sends) < MaxSend
  /\ "sender" \in shared_ /\ state_ # "receiver_closed"
  /\ sender' = "store"
  /\ SenderOnly /\ UNCHANGED <<state_, valueVars, wakeVars, shared_, sends>>

StoreFirst ==
  /\ sender = "store"
  /\ \/ payload' = TRUE /\ UNCHANGED engaged
     \/ engaged' = TRUE /\ UNCHANGED payload
  /\ sender' = "stored"
  /\ SenderOnly /\ UNCHANGED <<state_, wakeVars, shared_, sends>>

StoreSecond ==
  /\ sender = "stored"
  /\ payload' = TRUE /\ engaged' = TRUE
  /\ sender' = "notify"
  /\ SenderOnly /\ UNCHANGED <<state_, wakeVars, shared_, sends>>

Notify ==
  /\ sender = "notify"
  /\ registered' = (registered \/ receiver_)
  /\ sender' = "close"
  /\ SenderOnly /\ UNCHANGED <<state_, valueVars, receiver_, shared_, sends>>

(* close() in send, and its return.                                        *)
SendReturns ==
  /\ sender = "close"
  /\ state_' = "sender_closed"
  /\ shared_' = shared_ \ {"sender"}
  /\ sends' = Append(sends, "sent")
  /\ sender' = "idle"
  /\ SenderOnly /\ UNCHANGED <<valueVars, wakeVars>>

(* ~Sender.                                                                *)
DropSender ==
  /\ sender = "idle"
  /\ state_' = IF "sender" \in shared_ THEN "sender_closed" ELSE state_
  /\ shared_' = shared_ \ {"sender"}
  /\ sender' = "gone"
  /\ SenderOnly /\ UNCHANGED <<valueVars, wakeVars, sends>>

-----------------------------------------------------------------------------
(* Receiver::receive and the poll of its future.                           *)

Receive ==
  /\ receiver = "idle" /\ Len(receives) < MaxReceive
  /\ receiver' = "poll"
  /\ ReceiverOnly /\ UNCHANGED <<state_, valueVars, wakeVars, shared_, receives>>

(* close() in receive, and its return.                                     *)
Return(result) ==
  /\ state_' = IF "receiver" \in shared_ THEN "receiver_closed" ELSE state_
  /\ shared_' = shared_ \ {"receiver"}
  /\ receives' = Append(receives, result)
  /\ receiver' = "idle"

ReceiveAgain ==
  /\ receiver = "poll"
  /\ "receiver" \notin shared_
  /\ Return("nullopt")
  /\ ReceiverOnly /\ UNCHANGED <<valueVars, wakeVars>>

(* Mutant: the closed flag is tested before the value.                     *)
TestValueLast ==
  /\ receiver = "poll"
  /\ "receiver" \in shared_
  /\ receiver' = IF engaged /\ state_ # "sender_closed" THEN "take" ELSE "empty"
  /\ ReceiverOnly /\ UNCHANGED <<state_, valueVars, wakeVars, shared_, receives>>

TestValue ==
  /\ receiver = "poll"
  /\ "receiver" \in shared_
  /\ receiver' = IF engaged THEN "take" ELSE "empty"
  /\ ReceiverOnly /\ UNCHANGED <<state_, valueVars, wakeVars, shared_, receives>>

(* Mutant: the channel stays open after the value was moved out.           *)
TakeOpen ==
  /\ receiver = "take"
  /\ payload' = FALSE
  /\ receives' = Append(receives, IF payload THEN "value" ELSE "garbage")
  /\ receiver' = "idle"
  /\ ReceiverOnly /\ UNCHANGED <<state_, shared_, engaged, wakeVars>>

(* The value is moved out of value_, which stays engaged.                  *)
Take ==
  /\ receiver = "take"
  /\ payload' = FALSE
  /\ Return(IF payload THEN "value" ELSE "garbage")
  /\ ReceiverOnly /\ UNCHANGED <<engaged, wakeVars>>

TestClosed ==
  /\ receiver = "empty"
  /\ state_ = "sender_closed"
  /\ Return("nullopt")
  /\ ReceiverOnly /\ UNCHANGED <<valueVars, wakeVars>>

TestOpen ==
  /\ receiver = "empty"
  /\ state_ # "sender_closed"
  /\ receiver' = "pend"
  /\ ReceiverOnly /\ UNCHANGED <<state_, valueVars, wakeVars, shared_, receives>>

(* Mutant: the future is not left for the sender to find.                  *)
PendSilently ==
  /\ receiver = "pend"
  /\ receiver' = "pending"
  /\ ReceiverOnly /\ UNCHANGED <<state_, valueVars, wakeVars, shared_, receives>>

Pend ==
  /\ receiver = "pend"
  /\ receiver_' = TRUE
  /\ receiver' = "pending"
  /\ ReceiverOnly /\ UNCHANGED <<state_, valueVars, registered, shared_, receives>>

(* The runtime polls the registered future again.                          *)
Resume ==
  /\ registered
  /\ registered' = FALSE
  /\ receiver' = "poll"
  /\ ReceiverOnly /\ UNCHANGED <<state_, valueVars, receiver_, shared_, receives>>

(* ~Receiver.                                                              *)
DropReceiver ==
  /\ receiver = "idle"
  /\ state_' = IF "receiver" \in shared_ THEN "receiver_closed" ELSE state_
  /\ shared_' = shared_ \ {"receiver"}
  /\ receiver' = "gone"
  /\ ReceiverOnly /\ UNCHANGED <<valueVars, wakeVars, receives>>

-----------------------------------------------------------------------------
SendStep == StoreFirst \/ StoreSecond \/ Notify \/ SendReturns
ReceiveStep == ReceiveAgain \/ TestValue \/ Take \/ TestClosed \/ TestOpen \/ Pend

Step ==
  \/ SendRefused \/ Send \/ SendStep \/ DropSender
  \/ Receive \/ ReceiveStep \/ Resume \/ DropReceiver

Sending == sender \in {"store", "stored", "notify", "close"}
Polling == receiver \in {"poll", "take", "empty", "pend"}

Observe == overlap' = (overlap \/ (Sending' /\ Polling'))

Next == Step /\ Observe

Spec == Init /\ [][Next]_vars

(* A thread goes on with what it has begun; nobody has to call anything.   *)
Fairness ==
  /\ WF_vars(SendStep /\ Observe)
  /\ WF_vars(ReceiveStep /\ Observe)
  /\ WF_vars(Resume /\ Observe)

FairSpec == Spec /\ Fairness

-----------------------------------------------------------------------------
(* Every variable has its type: state_ holds one flag at a time.           *)
TypeOK ==
  /\ state_ \in {"open", "sender_closed", "receiver_closed"}
  /\ {payload, engaged, receiver_, registered, overlap} \subseteq BOOLEAN
  /\ sender \in {"idle", "store", "stored", "notify", "close", "gone"}
  /\ receiver \in {"idle", "poll", "take", "empty", "pend", "pending", "gone"}
  /\ shared_ \subseteq {"sender", "receiver"}
  /\ sends \in Seq({"sent", "refused"}) /\ Len(sends) <= MaxSend
  /\ receives \in Seq({"value", "garbage", "nullopt"}) /\ Len(receives) <= MaxReceive

(* A send that does not overlap with a poll hands its value over: the      *)
(* first receive does not report a closed channel although the sender did  *)
(* close it, because the value is looked at first, and a receive that is   *)
(* still suspended when send has returned is in handles_.                  *)
Handoff ==
  /\ TypeOK
  /\ ~overlap /\ sends # <<>> /\ sends[1] = "sent" =>
       /\ receives # <<>> => receives[1] = "value"
       /\ receiver = "pending" => registered

(* The value is moved out of value_ once: a later receive finds the end of *)
(* the channel, not the moved-from object that value_ still holds.         *)
OneValue == \A i \in DOMAIN receives : i > 1 => receives[i] = "nullopt"

(* A receive that is suspended before the send begins, or begins after it, *)
(* does not wait any more once the send is over.                           *)
HandoffCompletes ==
  (sends # <<>> /\ sends[1] = "sent") ~> (receiver # "pending" \/ overlap)

=============================================================================
