----------------------------- MODULE TimerWheel -----------------------------
(***************************************************************************)
(* oms::TimerWheel (timer_wheel.hpp): one ring of kFineSlots slots with    *)
(* kSlotDepth entries each.  The execution thread inserts and cancels      *)
(* timers with real timestamps and calls tick(now) on every iteration of   *)
(* its loop; the wheel's own clock now_ns_ then walks one tick_ns_ at a    *)
(* time towards `now' and fires whatever it finds in the slot it reaches,  *)
(* without looking at the deadline.                                        *)
(*                                                                         *)
(* Between two calls of tick the thread may be busy elsewhere, at worst    *)
(* blocked in the confirmation prompt of the notional gate: MaxLag bounds  *)
(* how far the wheel's clock may fall behind the real one.                 *)
(***************************************************************************)
EXTENDS Integers, FiniteSets

CONSTANTS
  tick_ns,      \* resolution of the wheel, in units of the real clock
  kFineSlots,   \* slots of the ring
  kSlotDepth,   \* entries per slot
  Ids,          \* child ids
  Timeouts,     \* the timeouts in use (taker, maker)
  Start,        \* the time reset_clock is called with
  Inactive,     \* an entry without a timer
  MaxLag,       \* bound: how far now_ns_ falls behind the real clock
  Horizon       \* bound: the model's clock stops here

ASSUME WheelAssumption ==
  /\ tick_ns \in Nat \ {0}
  /\ kFineSlots \in Nat \ {0}
  /\ kSlotDepth \in Nat \ {0}
  /\ Timeouts \subseteq Nat
  /\ Start \in Nat /\ MaxLag \in Nat /\ Horizon \in Nat

VARIABLES
  clock,       \* the real clock
  now_ns_,     \* the wheel's clock
  target,      \* the `now' of the tick in progress
  entry,       \* index of the entry check_slot looks at next; 0: no slot open
  wheel_,      \* [slot -> [index -> [id, deadline] or Inactive]]; what an
               \* inactive entry still holds is never read
  in_callback  \* the callback of an expired timer is running

vars == <<clock, now_ns_, target, entry, wheel_, in_callback>>

Slots == 0..(kFineSlots - 1)
Depth == 1..kSlotDepth

SlotFor(ts) == (ts \div tick_ns) % kFineSlots

Init ==
  /\ clock = Start
  /\ now_ns_ = Start          \* reset_clock
  /\ target = Start
  /\ entry = 0
  /\ wheel_ = [s \in Slots |-> [i \in Depth |-> Inactive]]
  /\ in_callback = FALSE

\* The real clock runs on.
Pass ==
  /\ clock < Horizon
  /\ clock < now_ns_ + MaxLag
  /\ clock' = clock + 1
  /\ UNCHANGED <<now_ns_, target, entry, wheel_, in_callback>>

\* The thread is between two calls of tick, or in the callback of one.
InHandler == in_callback \/ (entry = 0 /\ now_ns_ + tick_ns > target)

Holds(s, i, id) == wheel_[s][i] # Inactive /\ wheel_[s][i].id = id

Armed(id) == \E s \in Slots, i \in Depth : Holds(s, i, id)

FirstFree(s) == CHOOSE i \in Depth : /\ wheel_[s][i] = Inactive
                                     /\ \A j \in 1..(i - 1) : wheel_[s][j] # Inactive

\* MUTANT of Insert: the deadline is counted from the wheel's own clock.
InsertWheelClock(id, timeout) ==
  LET s == SlotFor(now_ns_ + timeout)
  IN  /\ InHandler
      /\ ~Armed(id)
      /\ \E i \in Depth : wheel_[s][i] = Inactive
      /\ wheel_' = [wheel_ EXCEPT ![s][FirstFree(s)] = [id |-> id, deadline |-> clock + timeout]]
      /\ UNCHANGED <<clock, now_ns_, target, entry, in_callback>>

\* insert: into the first inactive entry of the deadline's slot.
Insert(id, timeout) ==
  LET deadline == clock + timeout
      s        == SlotFor(deadline)
  IN  /\ InHandler
      /\ ~Armed(id)
      /\ \E i \in Depth : wheel_[s][i] = Inactive
      /\ wheel_' = [wheel_ EXCEPT ![s][FirstFree(s)] = [id |-> id, deadline |-> deadline]]
      /\ UNCHANGED <<clock, now_ns_, target, entry, in_callback>>

\* cancel
Cancel(id) ==
  /\ InHandler
  /\ \E s \in Slots, i \in Depth :
       /\ Holds(s, i, id)
       /\ wheel_' = [wheel_ EXCEPT ![s][i] = Inactive]
  /\ UNCHANGED <<clock, now_ns_, target, entry, in_callback>>

\* tick(now) begins.
Tick ==
  /\ entry = 0 /\ now_ns_ + tick_ns > target
  /\ target # clock
  /\ target' = clock
  /\ UNCHANGED <<clock, now_ns_, entry, wheel_, in_callback>>

\* MUTANT of Advance: jumps to `now' instead of walking there tick by tick.
AdvanceToTarget ==
  /\ entry = 0
  /\ now_ns_ + tick_ns <= target
  /\ now_ns_' = target
  /\ entry' = 1
  /\ UNCHANGED <<clock, target, wheel_, in_callback>>

\* The loop of tick: advance the wheel's clock and open the slot it reaches.
Advance ==
  /\ entry = 0
  /\ now_ns_ + tick_ns <= target
  /\ now_ns_' = now_ns_ + tick_ns
  /\ entry' = 1
  /\ UNCHANGED <<clock, target, wheel_, in_callback>>

\* check_slot looks at one entry; an active one is deactivated and its callback
\* runs, which may insert and cancel timers before the next entry is looked at.
CheckEntry ==
  LET s == SlotFor(now_ns_)
  IN  /\ entry > 0
      /\ entry' = (entry + 1) % (kSlotDepth + 1)
      /\ in_callback' = (wheel_[s][entry] # Inactive)
      /\ wheel_' = [wheel_ EXCEPT ![s][entry] = Inactive]
      /\ UNCHANGED <<clock, now_ns_, target>>

\* The callback returns.
Return ==
  /\ in_callback
  /\ in_callback' = FALSE
  /\ UNCHANGED <<clock, now_ns_, target, entry, wheel_>>

Next ==
  \/ Pass
  \/ \E id \in Ids, t \in Timeouts : Insert(id, t)
  \/ \E id \in Ids : Cancel(id)
  \/ Tick
  \/ ~in_callback /\ (Advance \/ CheckEntry)
  \/ Return

Spec == Init /\ [][Next]_vars

-----------------------------------------------------------------------------
(* Properties                                                              *)

\* Every variable keeps its type.
TypeOK ==
  /\ clock \in Nat /\ now_ns_ \in Nat /\ target \in Nat
  /\ entry \in 0..kSlotDepth
  /\ wheel_ \in [Slots -> [Depth -> [id : Ids, deadline : Nat] \cup {Inactive}]]
  /\ in_callback \in BOOLEAN

\* check_slot fires what it finds without looking at the deadline, so whatever
\* it finds must be due: within one tick of its deadline, not a lap early
\* ("reaching this slot at all ... already means we're within tick_ns_ of the
\* real deadline").
DueWhenVisited ==
  LET e == wheel_[SlotFor(now_ns_)][entry]
  IN  entry > 0 /\ e # Inactive => /\ now_ns_ - e.deadline < tick_ns
                                   /\ e.deadline - now_ns_ < tick_ns

\* No timer is overtaken: the wheel's clock never passes the tick of an active
\* timer's deadline, after which the timer would wait for another lap.
NoneOvertaken ==
  \A s \in Slots, i \in Depth :
    wheel_[s][i] # Inactive => now_ns_ \div tick_ns <= wheel_[s][i].deadline \div tick_ns
=============================================================================
