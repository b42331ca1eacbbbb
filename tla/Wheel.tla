------------------------------- MODULE Wheel --------------------------------
(***************************************************************************)
(* Timers: sleep (include/xyco/time/sleep.ccm), the registry of time       *)
(* events (src/time/registry.cc) and the hierarchical timing wheel under   *)
(* its lock (src/time/wheel.cc).                                           *)
(*                                                                         *)
(* Time is counted in ticks of the clock, Interval of which make one step  *)
(* of the wheel (a millisecond).  Register and select hold select_mutex_   *)
(* and are single steps; a sleep reads the clock before it takes the lock. *)
(***************************************************************************)
EXTENDS Integers, FiniteSets

CONSTANTS
  Event,      \* events of sleeps; used again when the sleep is over
  slot_num_,  \* slots of a level
  level_num_, \* levels of the wheel
  Interval,   \* ticks per step, interval_ms_
  Duration,   \* bound: lengths of sleeps, in milliseconds
  MaxTime,    \* bound: the last tick of the clock
  MaxGap,     \* bound: ticks between two calls of expire
  MaxLost,    \* bound: ticks lost by expire, see lost
  None

ASSUME WheelAssumption ==
  /\ slot_num_ \in Nat \ {0, 1} /\ level_num_ \in Nat \ {0}
  /\ Interval \in Nat \ {0} /\ Duration \subseteq Nat
  /\ MaxTime \in Nat /\ MaxGap \in Nat \ {0} /\ MaxLost \in Nat

Index == 0..(level_num_ - 1)
Slot == Index \X (0..(slot_num_ - 1))
Range == slot_num_ ^ level_num_  \* steps the wheel is made for: 60^5 ms, 9 days

VARIABLES
  clock,        \* Clock::now()
  now_,         \* the time of the last expire
  current_it_,  \* current slot of each level
  slot,         \* the slot the event is in
  expire_time_, \* of the event of a sleep in progress
  sleeping,     \* where the sleep is
  lost,         \* history: ticks that no step of the wheel accounts for
  lostBefore,   \* history: lost when the event was inserted
  thrown        \* std::out_of_range has left insert_event or walk

timeVars == <<expire_time_, sleeping, lostBefore>>
wheelVars == <<now_, current_it_, slot, lost, thrown>>
vars == <<clock, timeVars, wheelVars>>

Init ==
  /\ clock = 0 /\ now_ = 0
  /\ current_it_ = [l \in Index |-> 0]
  /\ slot = [e \in Event |-> None]
  /\ expire_time_ = [e \in Event |-> 0]
  /\ sleeping = [e \in Event |-> "no"]
  /\ lost = 0 /\ lostBefore = [e \in Event |-> 0]
  /\ thrown = FALSE

-----------------------------------------------------------------------------
(* A number of steps is turned into a number of steps on each level, the   *)
(* carry being one when the steps lead past the last slot of the level.    *)

(* Mutant: the last slot of a level counts as the end.                     *)
CarryEarly(it, l, steps) == IF steps % slot_num_ >= slot_num_ - 1 - it[l] THEN 1 ELSE 0

Carry(it, l, steps) == IF steps % slot_num_ >= slot_num_ - it[l] THEN 1 ELSE 0

(* Remaining(it, total)[l] is total_steps (steps in walk) before round l   *)
(* of the loop, 0 when the loop is over.                                   *)
Remaining(it, total) ==
  LET r[l \in 0..level_num_] ==
        IF l = 0 THEN IF total > 0 THEN total ELSE 0
        ELSE IF r[l - 1] = 0 THEN 0
        ELSE r[l - 1] \div slot_num_ + Carry(it, l - 1, r[l - 1])
  IN  r

Fits(it, total) == Remaining(it, total)[level_num_] = 0

TopLevel(it, total) ==
  CHOOSE l \in Index :
    /\ l = 0 \/ Remaining(it, total)[l] > 0
    /\ Remaining(it, total)[l + 1] = 0

Forward(it, l, steps) == (it[l] + steps) % slot_num_

(* insert_event.                                                           *)
Place(it, now, expire) ==
  LET total == IF expire > now THEN (expire - now) \div Interval ELSE 0
      l == TopLevel(it, total)
  IN  <<l, Forward(it, l, Remaining(it, total)[l] % slot_num_)>>

CanPlace(it, now, expire) ==
  Fits(it, IF expire > now THEN (expire - now) \div Interval ELSE 0)

-----------------------------------------------------------------------------
(* walk: the slots of the lower levels are emptied, the steps of the top   *)
(* level are made one by one, and the events of its current and next slot  *)
(* are inserted anew.                                                      *)

Advanced(it, steps) ==
  [l \in Index |-> IF l <= TopLevel(it, steps)
                   THEN Forward(it, l, Remaining(it, steps)[l] % slot_num_)
                   ELSE it[l]]

(* Mutant: one step too many.                                              *)
PassedOneMore(it, steps) ==
  LET top == TopLevel(it, steps) IN
  {s \in Slot : \/ s[1] < top
                \/ /\ s[1] = top
                   /\ \E i \in 0..(Remaining(it, steps)[top] % slot_num_) :
                        s[2] = Forward(it, top, i)}

Passed(it, steps) ==
  LET top == TopLevel(it, steps) IN
  {s \in Slot : \/ s[1] < top
                \/ /\ s[1] = top
                   /\ \E i \in 0..((Remaining(it, steps)[top] % slot_num_) - 1) :
                        s[2] = Forward(it, top, i)}

(* Mutant: only the events of the next slot are inserted anew.             *)
AnewNext(it, steps) ==
  LET top == TopLevel(it, steps) IN {<<top, (Advanced(it, steps)[top] + 1) % slot_num_>>}

Anew(it, steps) ==
  LET top == TopLevel(it, steps)
      cur == Advanced(it, steps)[top]
  IN  {<<top, cur>>, <<top, (cur + 1) % slot_num_>>}

-----------------------------------------------------------------------------
(* The first poll of a sleep computes its expire time.                     *)
Sleep(e, d) ==
  /\ sleeping[e] = "no"
  /\ expire_time_' = [expire_time_ EXCEPT ![e] = clock + d * Interval]
  /\ sleeping' = [sleeping EXCEPT ![e] = "register"]
  /\ UNCHANGED <<clock, lostBefore, wheelVars>>

Register(e) ==
  /\ sleeping[e] = "register" /\ ~thrown
  /\ IF CanPlace(current_it_, now_, expire_time_[e])
     THEN /\ slot' = [slot EXCEPT ![e] = Place(current_it_, now_, expire_time_[e])]
          /\ sleeping' = [sleeping EXCEPT ![e] = "wait"]
          /\ lostBefore' = [lostBefore EXCEPT ![e] = lost]
          /\ UNCHANGED thrown
     ELSE thrown' = TRUE /\ UNCHANGED <<slot, sleeping, lostBefore>>
  /\ UNCHANGED <<clock, expire_time_, now_, current_it_, lost>>

Tick ==
  /\ clock < MaxTime /\ clock - now_ < MaxGap
  /\ clock' = clock + 1
  /\ UNCHANGED <<timeVars, wheelVars>>

(* select: expire and walk, and the wake that follows.  expire converts    *)
(* the steps to int, which is exact as long as two calls are less than     *)
(* 2^31 ms apart; that is more than Range, and MaxGap is far below it.     *)
Expire ==
  LET steps == (clock - now_) \div Interval
      it == Advanced(current_it_, steps)
      waiting == {e \in Event : slot[e] # None}
      passed == {e \in waiting : slot[e] \in Passed(current_it_, steps)}
      anew == {e \in waiting \ passed : slot[e] \in Anew(current_it_, steps)}
      at == [e \in Event |-> IF e \in anew THEN Place(it, clock, expire_time_[e])
                                           ELSE slot[e]]
      taken == passed \cup {e \in waiting : at[e] = <<0, it[0]>>}
  IN
  /\ clock > now_ /\ ~thrown
  /\ lost + ((clock - now_) % Interval) <= MaxLost
  /\ now_' = clock
  /\ IF Fits(current_it_, steps) /\ \A e \in anew : CanPlace(it, clock, expire_time_[e])
     THEN /\ current_it_' = it
          /\ lost' = lost + ((clock - now_) % Interval)
          /\ slot' = [e \in Event |-> IF e \in taken THEN None ELSE at[e]]
          /\ sleeping' = [e \in Event |-> IF e \in taken THEN "woken" ELSE sleeping[e]]
          /\ UNCHANGED thrown
     ELSE thrown' = TRUE /\ UNCHANGED <<current_it_, lost, slot, sleeping>>
  /\ UNCHANGED <<clock, expire_time_, lostBefore>>

(* The second poll of the sleep.                                           *)
Poll(e) ==
  /\ sleeping[e] = "woken"
  /\ sleeping' = [sleeping EXCEPT ![e] = "no"]
  /\ expire_time_' = [expire_time_ EXCEPT ![e] = 0]
  /\ lostBefore' = [lostBefore EXCEPT ![e] = 0]
  /\ UNCHANGED <<clock, wheelVars>>

Next ==
  \/ \E e \in Event : Register(e) \/ Poll(e) \/ \E d \in Duration : Sleep(e, d)
  \/ Tick
  \/ Expire

Spec == Init /\ [][Next]_vars

-----------------------------------------------------------------------------
Waiting == {e \in Event : sleeping[e] = "wait"}

TypeOK ==
  /\ clock \in 0..MaxTime /\ now_ \in 0..clock /\ lost \in 0..clock
  /\ current_it_ \in [Index -> 0..(slot_num_ - 1)]
  /\ slot \in [Event -> Slot \cup {None}]
  /\ expire_time_ \in [Event -> Nat]
  /\ sleeping \in [Event -> {"no", "register", "wait", "woken"}]
  /\ lostBefore \in [Event -> 0..lost]
  /\ thrown \in BOOLEAN

(* An event is handed out once, and no earlier than the millisecond it is  *)
(* due in, although a walk empties whole levels without looking at expire  *)
(* times.                                                                  *)
Contract == INSTANCE EventRegistry WITH
  held <- Waiting,
  happened <- {e \in Waiting : expire_time_[e] < clock + Interval},
  reported <- {e \in Event : sleeping[e] = "woken"}
FiredOnceWhenDue == Contract!Spec

(* After select no event is overdue by more than the fractions of a        *)
(* millisecond that expire has dropped since the event was inserted.       *)
LateByLost ==
  [][now_' # now_ /\ ~thrown' =>
       \A e \in Event : slot'[e] # None =>
         now_' < expire_time_[e] + lost' - lostBefore[e]]_vars

(* insert_event and walk stay inside levels_ as long as nothing lies Range *)
(* or more milliseconds after the start of the program.                    *)
RangeFromStart ==
  /\ TypeOK
  /\ thrown => \/ now_ \div Interval >= Range
               \/ \E e \in Event : expire_time_[e] \div Interval >= Range

(* A sleep shorter than the range of the wheel is possible at any time, as *)
(* the comment on levels_ says ("up to 9 days").                           *)
RangeAtAnyTime == ~thrown
=============================================================================
