-------------------------------- MODULE Mpsc --------------------------------
(***************************************************************************)
(* The bounded multi-producer single-consumer channel                      *)
(* (include/xyco/sync/mpsc.ccm).                                           *)
(*                                                                         *)
(* Every Sender and the Receiver is used by a coroutine of its own, on any *)
(* thread.  A critical section is one step; what happens between two of    *)
(* them in one poll is another one.  The runtime's queue is a sequence of  *)
(* the futures given to register_future; taking one out polls it again.    *)
(***************************************************************************)
EXTENDS Naturals, Sequences, FiniteSets

CONSTANTS
  Sender,      \* the copies of Sender
  Receiver,    \* the Receiver
  Size,        \* capacity of the channel
  MaxSend,     \* bound: calls of send by each Sender
  MaxReceive,  \* bound: calls of receive
  None         \* nullptr

ASSUME MpscAssumption ==
  /\ IsFiniteSet(Sender)
  /\ Receiver \notin Sender
  /\ Size \in Nat \ {0}
  /\ MaxSend \in Nat
  /\ MaxReceive \in Nat

Party == Sender \cup {Receiver}

VARIABLES
  state_,     \* "open" (the initial 0), "sender_closed" or "receiver_closed"
  receiver_,  \* the future of a receive
  senders_,   \* futures of sends that found the channel full
  queue_,     \* the values
  handles_,   \* RuntimeCore::handles_, the part that belongs to this channel
  pc,
  calls,      \* the number of send or receive calls a party has made
  owner_num,  \* the local of Sender::close
  shared,     \* the parties whose shared_ still counts as an owner
  received,   \* the values returned by receive (history variable)
  dangling    \* a future that does not exist any more has been resumed

callVars == <<calls, received>>
closeVars == <<state_, owner_num, shared>>
vars == <<closeVars, receiver_, senders_, queue_, handles_, pc, callVars, dangling>>

(* The current call of a party; it names the future and the value sent.    *)
Call(p) == <<p, calls[p]>>
Future == Party \X (1 .. (MaxSend + MaxReceive))
Value == Sender \X (1 .. MaxSend)

ASSUME NoneAssumption == None \notin Future

Place == {"idle", "poll", "lock", "full", "popped", "pending", "test", "mark",
          "release", "closed"}

Goto(p, l) == pc' = [pc EXCEPT ![p] = l]

Init ==
  /\ state_ = "open"
  /\ receiver_ = None
  /\ senders_ = <<>>
  /\ queue_ = <<>>
  /\ handles_ = <<>>
  /\ pc = [p \in Party |-> "idle"]
  /\ calls = [p \in Party |-> 0]
  /\ owner_num = [s \in Sender |-> 0]
  /\ shared = Party
  /\ received = <<>>
  /\ dangling = FALSE

-----------------------------------------------------------------------------
(* Sender::send and the poll of its future.                                *)

Send(s) ==
  /\ pc[s] = "idle"
  /\ calls[s] < MaxSend
  /\ calls' = [calls EXCEPT ![s] = @ + 1]
  /\ Goto(s, "poll")
  /\ UNCHANGED <<closeVars, receiver_, senders_, queue_, handles_, received,
                 dangling>>

(* The receiver is gone: send returns the value as an error.               *)
TestReceiver(s) ==
  /\ pc[s] = "poll"
  /\ Goto(s, IF state_ = "receiver_closed" THEN "idle" ELSE "lock")
  /\ UNCHANGED <<closeVars, receiver_, senders_, queue_, handles_, callVars,
                 dangling>>

(* Mutant: the receiver is not woken when the channel was empty.           *)
EnqueueWakingOnce(s) ==
  /\ pc[s] = "lock"
  /\ Len(queue_) < Size
  /\ queue_' = Append(queue_, Call(s))
  /\ handles_' = IF receiver_ # None /\ queue_ # <<>>
                   THEN Append(handles_, receiver_) ELSE handles_
  /\ Goto(s, "idle")
  /\ UNCHANGED <<closeVars, receiver_, senders_, callVars, dangling>>

(* Under queue_mutex_: push the value and wake the receiver.  receiver_    *)
(* keeps its value.                                                        *)
Enqueue(s) ==
  /\ pc[s] = "lock"
  /\ Len(queue_) < Size
  /\ queue_' = Append(queue_, Call(s))
  /\ handles_' = IF receiver_ # None THEN Append(handles_, receiver_) ELSE handles_
  /\ Goto(s, "idle")
  /\ UNCHANGED <<closeVars, receiver_, senders_, callVars, dangling>>

FindFull(s) ==
  /\ pc[s] = "lock"
  /\ Len(queue_) >= Size
  /\ Goto(s, "full")
  /\ UNCHANGED <<closeVars, receiver_, senders_, queue_, handles_, callVars,
                 dangling>>

(* Under senders_mutex_, after queue_mutex_ was released.                  *)
Enlist(s) ==
  /\ pc[s] = "full"
  /\ senders_' = Append(senders_, Call(s))
  /\ Goto(s, "pending")
  /\ UNCHANGED <<closeVars, receiver_, queue_, handles_, callVars, dangling>>

-----------------------------------------------------------------------------
(* Receiver::receive and the poll of its future.                           *)

Receive ==
  /\ pc[Receiver] = "idle"
  /\ calls[Receiver] < MaxReceive
  /\ calls' = [calls EXCEPT ![Receiver] = @ + 1]
  /\ Goto(Receiver, "poll")
  /\ UNCHANGED <<closeVars, receiver_, senders_, queue_, handles_, received,
                 dangling>>

(* Mutant: the value is read but stays in the channel.                     *)
DequeuePeeking ==
  /\ pc[Receiver] = "poll"
  /\ queue_ # <<>>
  /\ received' = Append(received, Head(queue_))
  /\ Goto(Receiver, "popped")
  /\ UNCHANGED <<closeVars, receiver_, senders_, queue_, handles_, calls, dangling>>

Dequeue ==
  /\ pc[Receiver] = "poll"
  /\ queue_ # <<>>
  /\ queue_' = Tail(queue_)
  /\ received' = Append(received, Head(queue_))
  /\ Goto(Receiver, "popped")
  /\ UNCHANGED <<closeVars, receiver_, senders_, handles_, calls, dangling>>

(* Mutant: a waiting sender is only woken when the channel was full.       *)
WakeSenderOfFull ==
  /\ pc[Receiver] = "popped"
  /\ IF senders_ # <<>> /\ Len(queue_) = Size - 1
       THEN /\ handles_' = Append(handles_, Head(senders_))
            /\ senders_' = Tail(senders_)
       ELSE UNCHANGED <<handles_, senders_>>
  /\ Goto(Receiver, "idle")
  /\ UNCHANGED <<closeVars, receiver_, queue_, callVars, dangling>>

(* Mutant: the woken sender stays in senders_.                             *)
WakeSenderPeeking ==
  /\ pc[Receiver] = "popped"
  /\ handles_' = IF senders_ # <<>> THEN Append(handles_, Head(senders_)) ELSE handles_
  /\ Goto(Receiver, "idle")
  /\ UNCHANGED <<closeVars, receiver_, senders_, queue_, callVars, dangling>>

(* Under senders_mutex_: wake the sender that waits longest.               *)
WakeSender ==
  /\ pc[Receiver] = "popped"
  /\ IF senders_ # <<>>
       THEN /\ handles_' = Append(handles_, Head(senders_))
            /\ senders_' = Tail(senders_)
       ELSE UNCHANGED <<handles_, senders_>>
  /\ Goto(Receiver, "idle")
  /\ UNCHANGED <<closeVars, receiver_, queue_, callVars, dangling>>

(* Empty and closed: receive returns nullopt.                              *)
EndOfStream ==
  /\ pc[Receiver] = "poll"
  /\ queue_ = <<>>
  /\ state_ = "sender_closed"
  /\ Goto(Receiver, "idle")
  /\ UNCHANGED <<closeVars, receiver_, senders_, queue_, handles_, callVars,
                 dangling>>

(* Still under queue_mutex_.                                               *)
Pend ==
  /\ pc[Receiver] = "poll"
  /\ queue_ = <<>>
  /\ state_ # "sender_closed"
  /\ receiver_' = Call(Receiver)
  /\ Goto(Receiver, "pending")
  /\ UNCHANGED <<closeVars, senders_, queue_, handles_, callVars, dangling>>

-----------------------------------------------------------------------------
(* RuntimeCore takes the oldest pair and polls its future.  When no        *)
(* coroutine awaits that future the behaviour is undefined: the runtime    *)
(* does nothing more that this module describes.                           *)
Awaited(f) == pc[f[1]] = "pending" /\ f = Call(f[1])

Resume ==
  /\ handles_ # <<>>
  /\ ~dangling
  /\ handles_' = Tail(handles_)
  /\ LET f == Head(handles_) IN
       IF Awaited(f)
         THEN Goto(f[1], "poll") /\ UNCHANGED dangling
         ELSE dangling' = TRUE /\ UNCHANGED pc
  /\ UNCHANGED <<closeVars, receiver_, senders_, queue_, callVars>>

-----------------------------------------------------------------------------
(* ~Sender and ~Receiver: close(), then shared_ is released.               *)

CloseSender(s) ==
  /\ pc[s] = "idle"
  /\ owner_num' = [owner_num EXCEPT ![s] = Cardinality(shared)]
  /\ Goto(s, "test")
  /\ UNCHANGED <<state_, shared, receiver_, senders_, queue_, handles_, callVars,
                 dangling>>

Owners(s) == IF state_ # "receiver_closed" THEN owner_num[s] - 1 ELSE owner_num[s]

(* Mutant: the Sender counts itself as one that is gone.                   *)
TestLastTooEarly(s) ==
  /\ pc[s] = "test"
  /\ Goto(s, IF Owners(s) <= 2 THEN "mark" ELSE "release")
  /\ UNCHANGED <<closeVars, receiver_, senders_, queue_, handles_, callVars,
                 dangling>>

TestLast(s) ==
  /\ pc[s] = "test"
  /\ Goto(s, IF Owners(s) = 1 THEN "mark" ELSE "release")
  /\ UNCHANGED <<closeVars, receiver_, senders_, queue_, handles_, callVars,
                 dangling>>

MarkClosed(s) ==
  /\ pc[s] = "mark"
  /\ state_' = "sender_closed"
  /\ Goto(s, "release")
  /\ UNCHANGED <<owner_num, shared, receiver_, senders_, queue_, handles_,
                 callVars, dangling>>

CloseReceiver ==
  /\ pc[Receiver] = "idle"
  /\ state_' = "receiver_closed"
  /\ Goto(Receiver, "release")
  /\ UNCHANGED <<owner_num, shared, receiver_, senders_, queue_, handles_,
                 callVars, dangling>>

Release(p) ==
  /\ pc[p] = "release"
  /\ shared' = shared \ {p}
  /\ Goto(p, "closed")
  /\ UNCHANGED <<state_, owner_num, receiver_, senders_, queue_, handles_,
                 callVars, dangling>>

-----------------------------------------------------------------------------
SendStep(s) ==
  \/ TestReceiver(s)
  \/ Enqueue(s)
  \/ FindFull(s)
  \/ Enlist(s)
  \/ TestLast(s)
  \/ MarkClosed(s)
  \/ Release(s)

ReceiveStep ==
  \/ Dequeue
  \/ WakeSender
  \/ EndOfStream
  \/ Pend
  \/ Release(Receiver)

Next ==
  \/ \E s \in Sender : Send(s) \/ SendStep(s) \/ CloseSender(s)
  \/ Receive
  \/ ReceiveStep
  \/ CloseReceiver
  \/ Resume

Spec == Init /\ [][Next]_vars

(* The threads of the runtime go on, and the coroutine that owns the       *)
(* Receiver keeps receiving.  No Sender has to send or to be closed.       *)
Fairness ==
  /\ \A s \in Sender : WF_vars(SendStep(s))
  /\ WF_vars(ReceiveStep)
  /\ WF_vars(Receive)
  /\ WF_vars(Resume)

FairSpec == Spec /\ Fairness

-----------------------------------------------------------------------------
(* Every variable has its type; the channel never holds more than Size     *)
(* values.                                                                 *)
TypeOK ==
  /\ state_ \in {"open", "sender_closed", "receiver_closed"}
  /\ receiver_ \in Future \cup {None}
  /\ senders_ \in Seq(Future)
  /\ queue_ \in Seq(Value)
  /\ Len(queue_) <= Size
  /\ handles_ \in Seq(Future)
  /\ pc \in [Party -> Place]
  /\ calls \in [Party -> Nat]
  /\ owner_num \in [Sender -> Nat]
  /\ shared \in SUBSET Party
  /\ received \in Seq(Value)
  /\ dangling \in BOOLEAN

(* The channel is a bounded queue: it never holds more than Size values,   *)
(* every value is received once at most, and the values of one Sender in   *)
(* the order of its sends, although a send may be suspended, woken and     *)
(* tried again.                                                            *)
OnceInOrder ==
  LET all == received \o queue_ IN
  /\ TypeOK
  /\ \A i, j \in DOMAIN all : i < j /\ all[i][1] = all[j][1] => all[i][2] < all[j][2]

(* receive may only report the end of the stream when no Sender can send   *)
(* any more: use_count is read before state_ is, and other owners come and *)
(* go in between.                                                          *)
ClosedForGood ==
  state_ = "sender_closed" =>
    \A s \in Sender : pc[s] \in {"test", "mark", "release", "closed"}

(* The places that hold the future of the current call of a Sender.        *)
Waiting(s) ==
  {<<"senders_", i>> : i \in {j \in DOMAIN senders_ : senders_[j] = Call(s)}}
    \cup {<<"handles_", i>> : i \in {j \in DOMAIN handles_ : handles_[j] = Call(s)}}

(* Nobody who is suspended is forgotten or woken twice: a receive that     *)
(* waits while a value is there is in handles_, a send that waits is once  *)
(* in senders_ or in handles_, and these hold no other futures of Senders. *)
(* Only receiver_, which is never cleared, is registered again.            *)
NoLostWakeup ==
  /\ pc[Receiver] = "pending" /\ queue_ # <<>> =>
       \E i \in DOMAIN handles_ : handles_[i] = Call(Receiver)
  /\ \A s \in Sender : pc[s] = "pending" => Cardinality(Waiting(s)) = 1
  /\ \A i \in DOMAIN senders_ : senders_[i][1] \in Sender /\ Awaited(senders_[i])
  /\ \A i \in DOMAIN handles_ : handles_[i][1] \in Sender => Awaited(handles_[i])

(* A value that is in the channel is received if the Receiver keeps        *)
(* receiving, however the sends interleave, with one exception: dangling.  *)
(* receiver_ is never cleared, so once a suspended receive has returned,   *)
(* an ordinary later send registers its future again, and when the runtime *)
(* polls that future, which is gone, nothing is promised any more.         *)
ValueArrives ==
  \A v \in Value :
    (\E i \in DOMAIN queue_ : queue_[i] = v) ~>
      \/ \E i \in DOMAIN received : received[i] = v
      \/ pc[Receiver] \in {"release", "closed"}
      \/ dangling

(* The values that are in the channel, or just taken out by a receive that *)
(* has not looked at senders_ yet: each of them wakes one send.            *)
Wakeups == Len(queue_) + IF pc[Receiver] = "popped" THEN 1 ELSE 0

(* A suspended send is woken, that is, polled again, if there is a wakeup  *)
(* for it and for each send before it in senders_; the exception is        *)
(* dangling, as in ValueArrives.  Being woken is all: another Sender may   *)
(* have taken the room, and the send enlists itself anew, at the end.  A   *)
(* send that enlists itself without such a wakeup may wait for good: the   *)
(* room test and the entry in senders_ are in two critical sections, and   *)
(* receives in between drain the channel.                                  *)
EnlistedWoken ==
  \A s \in Sender :
    (\E i \in DOMAIN senders_ : senders_[i] = Call(s) /\ i <= Wakeups) ~>
      pc[s] # "pending" \/ pc[Receiver] \in {"release", "closed"} \/ dangling

=============================================================================
