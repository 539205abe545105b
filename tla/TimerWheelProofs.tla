-------------------------- MODULE TimerWheelProofs --------------------------
(***************************************************************************)
(* TimerWheel for every ring, tick and set of children: as long as the     *)
(* execution thread is not kept from tick for longer than the ring covers, *)
(* a timer is fired in the tick of its deadline, neither a lap early nor   *)
(* a lap late.                                                             *)
(***************************************************************************)
EXTENDS TimerWheel, ArithmeticLemmas, WellFoundedInduction

\* No timeout is shorter than a tick, and none, together with the time the thread
\* may be away, is longer than the ring covers, less one tick for the clocks'
\* sub-tick remainders.
Covered ==
  \A t \in Timeouts : t >= tick_ns /\ MaxLag + t <= (kFineSlots - 1) * tick_ns

Bucket(ts) == ts \div tick_ns

\* The wheel's clock lags behind the real one by at most MaxLag.
ClocksInv ==
  /\ now_ns_ <= target /\ target <= clock
  /\ clock <= now_ns_ + MaxLag

\* An active timer sits in the slot of its deadline, less than one lap ahead of
\* the wheel's clock; one that is due now has not been visited yet.
EntryInv(s, i) ==
  LET e == wheel_[s][i]
  IN  e # Inactive =>
        /\ SlotFor(e.deadline) = s
        /\ Bucket(now_ns_) <= Bucket(e.deadline)
        /\ Bucket(e.deadline) < Bucket(now_ns_) + kFineSlots
        /\ Bucket(e.deadline) = Bucket(now_ns_) => entry > 0 /\ i >= entry

WheelInv ==
  /\ TypeOK
  /\ ClocksInv
  /\ \A s \in Slots, i \in Depth : EntryInv(s, i)

LEMMA SlotType ==
  ASSUME NEW ts \in Nat
  PROVE  SlotFor(ts) \in Slots /\ Bucket(ts) \in Nat
BY DivBounds, WheelAssumption DEF SlotFor, Slots, Bucket

\* An active entry is a record.
LEMMA EntryType ==
  ASSUME TypeOK, NEW s \in Slots, NEW i \in Depth, wheel_[s][i] # Inactive
  PROVE  wheel_[s][i] \in [id : Ids, deadline : Nat] /\ wheel_[s][i].deadline \in Nat
BY DEF TypeOK

LEMMA WheelInit == Init => WheelInv
<1> SUFFICES ASSUME Init PROVE WheelInv
  OBVIOUS
<1>1. in_callback \in BOOLEAN
  BY Zenon DEF Init
<1>2. TypeOK
  BY <1>1, WheelAssumption DEF Init, TypeOK
<1>3. ClocksInv
  BY WheelAssumption DEF Init, ClocksInv
<1>4. \A s \in Slots, i \in Depth : EntryInv(s, i)
  BY DEF Init, EntryInv
<1> QED BY <1>2, <1>3, <1>4 DEF WheelInv

\* A step that leaves the wheel and its clock alone keeps the entries' invariant.
LEMMA EntryStable ==
  ASSUME WheelInv, UNCHANGED <<now_ns_, entry, wheel_>>,
         NEW s \in Slots, NEW i \in Depth
  PROVE  EntryInv(s, i)'
BY DEF WheelInv, EntryInv, SlotFor, Bucket

\* insert puts the timer less than one lap ahead.
LEMMA InsertStep ==
  ASSUME Covered, WheelInv, NEW id \in Ids, NEW t \in Timeouts, Insert(id, t)
  PROVE  WheelInv'
<1> DEFINE d == clock + t
           f == FirstFree(SlotFor(d))
<1>1. /\ clock \in Nat /\ now_ns_ \in Nat /\ t \in Nat /\ d \in Nat
      /\ tick_ns \in Nat \ {0} /\ kFineSlots \in Nat \ {0} /\ MaxLag \in Nat
  BY WheelAssumption DEF WheelInv, TypeOK
<1>2. SlotFor(d) \in Slots
  BY <1>1, SlotType
<1>3. f \in Depth
  <2> DEFINE Free == {i \in Depth : wheel_[SlotFor(d)][i] = Inactive}
  <2>1. Free # {} /\ Free \subseteq Depth
    BY DEF Insert
  <2>2. \E i \in Depth : /\ wheel_[SlotFor(d)][i] = Inactive
                         /\ \A j \in 1..(i - 1) : wheel_[SlotFor(d)][j] # Inactive
    <3>1. Free \subseteq Nat
      BY WheelAssumption DEF Depth
    <3>2. \E n \in Free : \A m \in Free : ~(<<m, n>> \in OpToRel(<, Nat))
      <4> HIDE DEF Free
      <4> QED BY <2>1, <3>1, WFMin, NatLessThanWellFounded
    <3>3. PICK n \in Free : \A m \in Free : ~(m < n)
      BY <3>1, <3>2 DEF OpToRel
    <3>4. \A j \in 1..(n - 1) : j \in Depth /\ j < n
      BY <2>1, WheelAssumption DEF Depth
    <3> QED BY <2>1, <3>3, <3>4
  <2> QED BY <2>2 DEF FirstFree
<1>4. wheel_' = [wheel_ EXCEPT ![SlotFor(d)][f] = [id |-> id, deadline |-> d]]
  BY DEF Insert
<1>5. TypeOK'
  BY <1>1, <1>2, <1>3, <1>4 DEF Insert, WheelInv, TypeOK
<1>6. ClocksInv'
  BY DEF Insert, WheelInv, ClocksInv
<1>7. Bucket(now_ns_) < Bucket(d) /\ Bucket(d) < Bucket(now_ns_) + kFineSlots
  <2>1. now_ns_ + 1 * tick_ns <= d /\ d <= now_ns_ + (kFineSlots - 1) * tick_ns
    <3>1. t >= tick_ns /\ MaxLag + t <= (kFineSlots - 1) * tick_ns
      BY DEF Covered
    <3>2. now_ns_ <= clock /\ clock <= now_ns_ + MaxLag
      BY <1>1 DEF WheelInv, TypeOK, ClocksInv
    <3>3. (kFineSlots - 1) * tick_ns \in Int
      BY <1>1
    <3> QED BY <1>1, <3>1, <3>2, <3>3
  <2>2. /\ now_ns_ + 1 * tick_ns \in Nat
        /\ kFineSlots - 1 \in Nat
        /\ now_ns_ + (kFineSlots - 1) * tick_ns \in Nat
    BY <1>1
  <2>3. (now_ns_ + 1 * tick_ns) \div tick_ns = (now_ns_ \div tick_ns) + 1
    BY <1>1, DivPlus
  <2>4. (now_ns_ + (kFineSlots - 1) * tick_ns) \div tick_ns
           = (now_ns_ \div tick_ns) + (kFineSlots - 1)
    BY <1>1, <2>2, DivPlus
  <2>5. /\ (now_ns_ + 1 * tick_ns) \div tick_ns <= d \div tick_ns
        /\ d \div tick_ns <= (now_ns_ + (kFineSlots - 1) * tick_ns) \div tick_ns
    BY <1>1, <2>1, <2>2, DivMonotonic
  <2>6. now_ns_ \div tick_ns \in Nat /\ d \div tick_ns \in Nat
    BY <1>1, DivBounds
  <2> QED BY <1>1, <2>3, <2>4, <2>5, <2>6 DEF Bucket
<1>8. ASSUME NEW s \in Slots, NEW i \in Depth PROVE EntryInv(s, i)'
  <2>1. CASE s = SlotFor(d) /\ i = f
    <3>1. wheel_'[s][i] = [id |-> id, deadline |-> d]
      BY <1>2, <1>3, <1>4, <2>1 DEF WheelInv, TypeOK
    <3>2. now_ns_' = now_ns_
      BY DEF Insert
    <3>3. Bucket(now_ns_) \in Nat /\ Bucket(d) \in Nat
      BY <1>1, SlotType
    <3> HIDE DEF d
    <3> QED BY <1>7, <2>1, <3>1, <3>2, <3>3 DEF EntryInv, SlotFor, Bucket
  <2>2. CASE ~(s = SlotFor(d) /\ i = f)
    <3>1. wheel_'[s][i] = wheel_[s][i]
      BY <1>2, <1>3, <1>4, <2>2 DEF WheelInv, TypeOK
    <3> QED BY <3>1 DEF Insert, WheelInv, EntryInv, SlotFor, Bucket
  <2> QED BY <2>1, <2>2
<1> QED BY <1>5, <1>6, <1>8 DEF WheelInv

\* A step that only deactivates entries.
LEMMA CancelStep ==
  ASSUME WheelInv, NEW id \in Ids, Cancel(id)
  PROVE  WheelInv'
<1>1. PICK s \in Slots, i \in Depth : wheel_' = [wheel_ EXCEPT ![s][i] = Inactive]
  BY DEF Cancel
<1>2. TypeOK'
  BY <1>1 DEF Cancel, WheelInv, TypeOK
<1>3. ClocksInv'
  BY DEF Cancel, WheelInv, ClocksInv
<1>4. ASSUME NEW r \in Slots, NEW j \in Depth PROVE EntryInv(r, j)'
  <2>1. wheel_'[r][j] = wheel_[r][j] \/ wheel_'[r][j] = Inactive
    BY <1>1 DEF WheelInv, TypeOK
  <2> QED BY <2>1 DEF Cancel, WheelInv, EntryInv, SlotFor, Bucket
<1> QED BY <1>2, <1>3, <1>4 DEF WheelInv

\* The clock moves one bucket on; whatever was due in the last one is gone.
LEMMA AdvanceStep ==
  ASSUME WheelInv, Advance
  PROVE  WheelInv'
<1>1. tick_ns \in Nat \ {0} /\ now_ns_ \in Nat
  BY WheelAssumption DEF WheelInv, TypeOK
<1>2. Bucket(now_ns_)' = Bucket(now_ns_) + 1
  <2>1. (now_ns_ + 1 * tick_ns) \div tick_ns = (now_ns_ \div tick_ns) + 1
    BY <1>1, DivPlus
  <2>2. now_ns_' = now_ns_ + 1 * tick_ns
    BY <1>1 DEF Advance
  <2> QED BY <2>1, <2>2 DEF Bucket
<1>3. TypeOK'
  BY <1>1, WheelAssumption DEF Advance, WheelInv, TypeOK
<1>4. ClocksInv'
  BY <1>1, WheelAssumption DEF Advance, WheelInv, TypeOK, ClocksInv
<1>5. ASSUME NEW s \in Slots, NEW i \in Depth PROVE EntryInv(s, i)'
  <2> DEFINE e == wheel_[s][i]
  <2> SUFFICES ASSUME e # Inactive
               PROVE  /\ SlotFor(e.deadline) = s
                      /\ Bucket(now_ns_) + 1 <= Bucket(e.deadline)
                      /\ Bucket(e.deadline) < Bucket(now_ns_) + 1 + kFineSlots
                      /\ 1 > 0 /\ i >= 1
    BY <1>2 DEF Advance, EntryInv, SlotFor, Bucket
  <2>1. e.deadline \in Nat
    BY EntryType DEF WheelInv
  <2>2. Bucket(now_ns_) \in Nat /\ Bucket(e.deadline) \in Nat
    BY <1>1, <2>1, SlotType
  <2>3. EntryInv(s, i) /\ entry = 0
    BY DEF WheelInv, Advance
  <2> QED BY <2>2, <2>3, WheelAssumption DEF EntryInv, Depth
<1> QED BY <1>3, <1>4, <1>5 DEF WheelInv

\* check_slot deactivates the entry it looks at and moves on.
LEMMA CheckStep ==
  ASSUME WheelInv, CheckEntry
  PROVE  WheelInv'
<1> DEFINE s == SlotFor(now_ns_)
<1>1. now_ns_ \in Nat /\ entry \in Depth /\ s \in Slots /\ kSlotDepth \in Nat \ {0}
  BY WheelAssumption, SlotType DEF WheelInv, TypeOK, CheckEntry, Depth
<1>2. wheel_' = [wheel_ EXCEPT ![s][entry] = Inactive]
  BY DEF CheckEntry
<1>3. /\ entry = kSlotDepth => entry' = 0
      /\ entry # kSlotDepth => entry' = entry + 1
  BY <1>1 DEF CheckEntry, Depth
<1>4. in_callback' \in BOOLEAN
  BY Zenon DEF CheckEntry
<1>5. TypeOK'
  <2>1. wheel_' \in [Slots -> [Depth -> [id : Ids, deadline : Nat] \cup {Inactive}]]
    BY <1>1, <1>2 DEF WheelInv, TypeOK
  <2>2. entry' \in 0..kSlotDepth
    BY <1>1, <1>3 DEF Depth
  <2> QED BY <1>4, <2>1, <2>2 DEF CheckEntry, WheelInv, TypeOK
<1>6. ClocksInv'
  BY DEF CheckEntry, WheelInv, ClocksInv
<1>7. ASSUME NEW r \in Slots, NEW i \in Depth PROVE EntryInv(r, i)'
  <2> DEFINE e == wheel_[r][i]
  <2>1. wheel_'[r][i] = IF r = s /\ i = entry THEN Inactive ELSE e
    BY <1>1, <1>2 DEF WheelInv, TypeOK
  <2>2. CASE e = Inactive \/ (r = s /\ i = entry)
    BY <2>1, <2>2 DEF EntryInv
  <2>3. CASE e # Inactive /\ ~(r = s /\ i = entry)
    <3>1. EntryInv(r, i) /\ wheel_'[r][i] = e /\ now_ns_' = now_ns_
      BY <2>1, <2>3 DEF WheelInv, CheckEntry
    <3>2. SUFFICES ASSUME Bucket(e.deadline) = Bucket(now_ns_) PROVE entry' > 0 /\ i >= entry'
      BY <2>3, <3>1 DEF EntryInv, SlotFor, Bucket
    <3>3. r = s /\ i >= entry
      BY <2>3, <3>1, <3>2 DEF EntryInv, SlotFor, Bucket
    <3>4. i >= entry + 1
      BY <1>1, <2>3, <3>3 DEF Depth
    <3> QED BY <1>1, <1>3, <3>4 DEF Depth
  <2> QED BY <2>2, <2>3
<1> QED BY <1>5, <1>6, <1>7 DEF WheelInv

LEMMA WheelStep ==
  ASSUME Covered, WheelInv, [Next]_vars
  PROVE  WheelInv'
<1>1. CASE Pass
  <2>1. TypeOK'
    BY <1>1 DEF Pass, WheelInv, TypeOK
  <2>2. ClocksInv'
    BY <1>1, WheelAssumption DEF Pass, WheelInv, TypeOK, ClocksInv
  <2>3. \A s \in Slots, i \in Depth : EntryInv(s, i)'
    BY <1>1, EntryStable DEF Pass
  <2> QED BY <2>1, <2>2, <2>3 DEF WheelInv
<1>2. CASE Tick
  <2>1. TypeOK'
    BY <1>2 DEF Tick, WheelInv, TypeOK
  <2>2. ClocksInv'
    BY <1>2 DEF Tick, WheelInv, TypeOK, ClocksInv
  <2>3. \A s \in Slots, i \in Depth : EntryInv(s, i)'
    BY <1>2, EntryStable DEF Tick
  <2> QED BY <2>1, <2>2, <2>3 DEF WheelInv
<1>3. CASE Return
  <2>1. in_callback' \in BOOLEAN
    BY <1>3, Zenon DEF Return
  <2>2. TypeOK'
    BY <1>3, <2>1 DEF Return, WheelInv, TypeOK
  <2>3. ClocksInv'
    BY <1>3 DEF Return, WheelInv, ClocksInv
  <2>4. \A s \in Slots, i \in Depth : EntryInv(s, i)'
    BY <1>3, EntryStable DEF Return
  <2> QED BY <2>2, <2>3, <2>4 DEF WheelInv
<1>4. CASE UNCHANGED vars
  <2>1. TypeOK'
    BY <1>4 DEF vars, WheelInv, TypeOK
  <2>2. ClocksInv'
    BY <1>4 DEF vars, WheelInv, ClocksInv
  <2>3. \A s \in Slots, i \in Depth : EntryInv(s, i)'
    BY <1>4, EntryStable DEF vars
  <2> QED BY <2>1, <2>2, <2>3 DEF WheelInv
<1> QED
  BY <1>1, <1>2, <1>3, <1>4, InsertStep, CancelStep, AdvanceStep, CheckStep DEF Next

\* check_slot may fire what it finds without looking at the deadline: whatever
\* is active in the slot the clock reaches is due within one tick.
THEOREM WheelFiresOnTime == ASSUME Covered PROVE Spec => []DueWhenVisited
<1>1. ASSUME WheelInv PROVE DueWhenVisited
  <2> DEFINE s == SlotFor(now_ns_)
             e == wheel_[s][entry]
  <2> SUFFICES ASSUME entry > 0, e # Inactive
               PROVE  now_ns_ - e.deadline < tick_ns /\ e.deadline - now_ns_ < tick_ns
    BY DEF DueWhenVisited
  <2>1. now_ns_ \in Nat /\ entry \in Depth /\ s \in Slots
    BY <1>1, WheelAssumption, SlotType DEF WheelInv, TypeOK, Depth
  <2>2. e.deadline \in Nat
    BY <1>1, <2>1, EntryType DEF WheelInv
  <2>3. Bucket(now_ns_) \in Nat /\ Bucket(e.deadline) \in Nat
    BY <2>1, <2>2, SlotType
  <2>4. /\ SlotFor(e.deadline) = s
        /\ Bucket(now_ns_) <= Bucket(e.deadline)
        /\ Bucket(e.deadline) < Bucket(now_ns_) + kFineSlots
    BY <1>1, <2>1 DEF WheelInv, EntryInv
  <2>5. Bucket(now_ns_) = Bucket(e.deadline)
    <3>1. Bucket(now_ns_) % kFineSlots = Bucket(e.deadline) % kFineSlots
      BY <2>4 DEF SlotFor, Bucket
    <3> HIDE DEF e
    <3> QED BY <2>3, <2>4, <3>1, ModClose, WheelAssumption
  <2>6. /\ tick_ns * Bucket(now_ns_) <= now_ns_
        /\ now_ns_ < tick_ns * Bucket(now_ns_) + tick_ns
        /\ tick_ns * Bucket(now_ns_) <= e.deadline
        /\ e.deadline < tick_ns * Bucket(now_ns_) + tick_ns
    BY <2>1, <2>2, <2>5, DivBounds, WheelAssumption DEF Bucket
  <2>7. tick_ns * Bucket(now_ns_) \in Nat
    BY <2>3, WheelAssumption
  <2> QED BY <2>1, <2>2, <2>6, <2>7, WheelAssumption
<1> QED BY <1>1, WheelInit, WheelStep, PTL DEF Spec

\* The wheel's clock never passes an active timer, which would then wait for
\* another lap of the ring.
THEOREM WheelOvertakesNone == ASSUME Covered PROVE Spec => [](TypeOK /\ NoneOvertaken)
<1>1. ASSUME WheelInv PROVE TypeOK /\ NoneOvertaken
  BY <1>1 DEF WheelInv, EntryInv, NoneOvertaken, Bucket
<1> QED BY <1>1, WheelInit, WheelStep, PTL DEF Spec
=============================================================================
