------------------------- MODULE TwapSchedulerProofs -------------------------
(***************************************************************************)
(* TwapScheduler for every quantity, slice count, duration and jitter: the *)
(* slices are positive and add up to the order.                            *)
(***************************************************************************)
EXTENDS TwapScheduler, TLAPS

\* The inductive invariant.  SlicesCover alone is not inductive for an order of
\* zero or negative quantity, which never emits a slice.
TwapInv ==
  /\ TypeOK
  /\ SlicesCover
  /\ TotalQty <= 0 => remaining_lots_ = TotalQty

\* clamp_slice_count leaves at least one lot per slice of a real order.
LEMMA SliceCount ==
  /\ TotalSlices \in Nat \ {0}
  /\ TotalQty > 0 => TotalSlices <= TotalQty
BY TwapAssumption DEF TotalSlices, ClampSliceCount

\* A slice takes at least one lot and leaves one for each slice after it; the
\* last slice takes everything.
LEMMA SliceBounds ==
  ASSUME TwapInv, TotalQty > 0, slices_remaining_ > 0, NEW size \in SliceSizes
  PROVE  /\ size \in Int /\ size >= 1
         /\ size <= remaining_lots_ - (slices_remaining_ - 1)
         /\ slices_remaining_ = 1 => size = remaining_lots_
<1>1. CASE slices_remaining_ = 1
  BY <1>1 DEF SliceSizes, TwapInv, TypeOK, SlicesCover
<1>2. CASE slices_remaining_ # 1
  <2>1. PICK d \in SliceDraws : size = Clamp(d, 1, remaining_lots_ - (slices_remaining_ - 1))
    BY <1>2 DEF SliceSizes
  <2>2. d \in Int
    BY TwapAssumption DEF SliceDraws
  <2> QED
    BY <1>2, <2>1, <2>2 DEF Clamp, TwapInv, TypeOK, SlicesCover
<1> QED BY <1>1, <1>2

LEMMA TwapInitInv == Init => TwapInv
<1> SUFFICES ASSUME Init PROVE TwapInv
  OBVIOUS
<1>1. TypeOK
  <2>1. started \in BOOLEAN
    BY Zenon DEF Init
  <2> QED BY <2>1, SliceCount, TwapAssumption DEF Init, TypeOK
<1>2. SlicesCover
  BY SliceCount, TwapAssumption DEF Init, SlicesCover
<1> QED BY <1>1, <1>2 DEF Init, TwapInv

LEMMA TwapStepInv == TwapInv /\ [Next]_vars => TwapInv'
<1> SUFFICES ASSUME TwapInv, [Next]_vars PROVE TwapInv'
  OBVIOUS
<1>1. CASE Start
  BY <1>1 DEF Start, TwapInv, TypeOK, SlicesCover, Never
<1>2. CASE Emit
  <2>1. TotalQty > 0 /\ slices_remaining_ > 0
    BY <1>2, TwapAssumption DEF Emit, Done, TwapInv, TypeOK
  <2>2. PICK size \in SliceSizes :
          /\ remaining_lots_' = remaining_lots_ - size
          /\ emitted' = emitted + size
          /\ last_slice' = size
    BY <1>2 DEF Emit
  <2>3. /\ size \in Int /\ size >= 1
        /\ size <= remaining_lots_ - (slices_remaining_ - 1)
        /\ slices_remaining_ = 1 => size = remaining_lots_
    BY <2>1, SliceBounds
  <2>4. SlicesCover'
    BY <1>2, <2>1, <2>2, <2>3, TwapAssumption DEF Emit, TwapInv, TypeOK, SlicesCover
  <2>5. next_deadline_ns_' \in Nat \cup {Never}
    <3>1. \A d \in IntervalDraws : d \in Nat
      BY TwapAssumption DEF IntervalDraws
    <3> QED BY <1>2, <3>1 DEF Emit, TwapInv, TypeOK
  <2>6. TypeOK'
    BY <1>2, <2>1, <2>2, <2>3, <2>5 DEF Emit, TwapInv, TypeOK
  <2> QED BY <2>1, <2>4, <2>6, TwapAssumption DEF TwapInv
<1>3. CASE Pass
  BY <1>3 DEF Pass, TwapInv, TypeOK, SlicesCover
<1>4. CASE UNCHANGED vars
  BY <1>4 DEF vars, TwapInv, TypeOK, SlicesCover
<1> QED BY <1>1, <1>2, <1>3, <1>4 DEF Next

\* The lots left always cover the slices left and the slices add up to the
\* order, whatever the jitter draws: std::clamp in make_slice_signal is never
\* called with lo > hi.
THEOREM TwapCovers == Spec => [](TypeOK /\ SlicesCover)
<1>1. TwapInv => TypeOK /\ SlicesCover
  BY DEF TwapInv
<1> QED BY <1>1, TwapInitInv, TwapStepInv, PTL DEF Spec

\* Every slice that tick hands out is at least one lot, and together they never
\* exceed the order.
THEOREM TwapPositive == Spec => SlicesPositive
<1>1. TwapInv /\ [Next]_vars
        => [slices_remaining_' # slices_remaining_
              => last_slice' >= 1 /\ emitted' <= TotalQty]_vars
  <2> SUFFICES ASSUME TwapInv, Next, slices_remaining_' # slices_remaining_
               PROVE  last_slice' >= 1 /\ emitted' <= TotalQty
    OBVIOUS
  <2>1. Emit
    BY DEF Next, Start, Pass
  <2>2. TotalQty > 0 /\ slices_remaining_ > 0
    BY <2>1, TwapAssumption DEF Emit, Done, TwapInv, TypeOK
  <2>3. PICK size \in SliceSizes : emitted' = emitted + size /\ last_slice' = size
    BY <2>1 DEF Emit
  <2>4. size \in Int /\ size >= 1 /\ size <= remaining_lots_ - (slices_remaining_ - 1)
    BY <2>2, SliceBounds
  <2> QED BY <2>2, <2>3, <2>4, TwapAssumption DEF TwapInv, TypeOK, SlicesCover
<1> QED BY <1>1, TwapInitInv, TwapStepInv, PTL DEF Spec, SlicesPositive
=============================================================================
