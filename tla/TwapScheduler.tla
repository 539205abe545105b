---------------------------- MODULE TwapScheduler ----------------------------
(***************************************************************************)
(* algos::TwapScheduler (twap_scheduler.hpp): cuts an order into slices    *)
(* over a duration.  Slice sizes and the intervals between them are        *)
(* jittered at random by up to the given fractions, so both are drawn here *)
(* from the set of all values the rounding can give.                       *)
(***************************************************************************)
EXTENDS Integers

CONSTANTS
  TotalQty,         \* TwapConfig::total_qty_lots
  NumSlices,        \* TwapConfig::num_slices
  Duration,         \* TwapConfig::duration_ns
  SizeJitter,       \* size_jitter_frac in percent
  IntervalJitter,   \* interval_jitter_frac in percent
  MaxLag            \* bound: how late after its deadline a slice is noticed

ASSUME TwapAssumption ==
  /\ TotalQty \in Int
  /\ NumSlices \in Nat
  /\ Duration \in Nat
  /\ SizeJitter \in 0..100
  /\ IntervalJitter \in 0..100
  /\ MaxLag \in Nat

VARIABLES
  now,                \* the clock of the thread that calls tick
  started,            \* start has been called (once; the code does not ask for it)
  remaining_lots_,
  slices_remaining_,
  next_deadline_ns_,
  emitted,            \* lots handed out so far
  last_slice          \* size of the last slice, 0 before the first

vars == <<now, started, remaining_lots_, slices_remaining_, next_deadline_ns_, emitted,
          last_slice>>

\* UINT64_MAX as a deadline
Never == -1

\* clamp_slice_count
ClampSliceCount(requested, total) ==
  IF requested = 0 \/ total <= 0 THEN 1
  ELSE IF requested < total THEN requested ELSE total

TotalSlices == ClampSliceCount(NumSlices, TotalQty)

\* done
Done(remaining, slices) == remaining <= 0 \/ slices = 0

\* The integers llround(nominal * x) can give for x within the jitter, where
\* nominal = TotalQty / TotalSlices; everything scaled by 200 * TotalSlices.
SliceDraws ==
  {d \in 0..(2 * TotalQty + 1) :
     /\ 200 * TotalSlices * d + 100 * TotalSlices >= 2 * (100 - SizeJitter) * TotalQty
     /\ 200 * TotalSlices * d - 100 * TotalSlices <= 2 * (100 + SizeJitter) * TotalQty}

\* The integers the truncated nominal_interval_ns * x can give.
IntervalDraws ==
  {d \in 0..(2 * Duration) :
     /\ 100 * TotalSlices * (d + 1) > (100 - IntervalJitter) * Duration
     /\ 100 * TotalSlices * d <= (100 + IntervalJitter) * Duration}

\* MUTANT of Clamp: no lower bound.
ClampAbove(v, lo, hi) == IF v > hi THEN hi ELSE v

\* std::clamp(v, lo, hi), which requires lo <= hi
Clamp(v, lo, hi) == IF v < lo THEN lo ELSE IF v > hi THEN hi ELSE v

\* MUTANT of SliceSizes: no lot is reserved for the slices to come.
SliceSizesNoReserve ==
  IF slices_remaining_ = 1 THEN {remaining_lots_}
  ELSE {Clamp(d, 1, remaining_lots_) : d \in SliceDraws}

\* make_slice_signal: the sizes the next slice may have.
SliceSizes ==
  IF slices_remaining_ = 1 THEN {remaining_lots_}
  ELSE {Clamp(d, 1, remaining_lots_ - (slices_remaining_ - 1)) : d \in SliceDraws}

Init ==
  /\ now = 0
  /\ started = FALSE
  /\ remaining_lots_ = TotalQty
  /\ slices_remaining_ = TotalSlices
  /\ next_deadline_ns_ = 0
  /\ emitted = 0
  /\ last_slice = 0

\* start: the next slice is due at once.
Start ==
  /\ ~started
  /\ started' = TRUE
  /\ next_deadline_ns_' = now
  /\ UNCHANGED <<now, remaining_lots_, slices_remaining_, emitted, last_slice>>

\* MUTANT of Due: a deadline that is missed is missed for good.
DueExactly == now = next_deadline_ns_

\* The next slice is due.
Due == now >= next_deadline_ns_

\* tick when a slice is due: make_slice_signal, then schedule_next.
Emit ==
  /\ ~Done(remaining_lots_, slices_remaining_)
  /\ Due
  /\ \E size \in SliceSizes :
       /\ remaining_lots_' = remaining_lots_ - size
       /\ emitted' = emitted + size
       /\ last_slice' = size
  /\ slices_remaining_' = slices_remaining_ - 1
  /\ IF Done(remaining_lots_', slices_remaining_')
     THEN next_deadline_ns_' = Never
     ELSE \E d \in IntervalDraws : next_deadline_ns_' = now + d
  /\ UNCHANGED <<now, started>>

\* Time passes between two calls of tick; the caller's cadence bounds how late
\* it notices a deadline.
Pass ==
  /\ ~Done(remaining_lots_, slices_remaining_)
  /\ now < next_deadline_ns_ + MaxLag
  /\ now' = now + 1
  /\ UNCHANGED <<started, remaining_lots_, slices_remaining_, next_deadline_ns_, emitted,
                 last_slice>>

Next == Start \/ Emit \/ Pass

Spec == Init /\ [][Next]_vars

\* The strategy thread keeps calling tick while the clock runs.
FairSpec == Spec /\ WF_vars(Emit) /\ WF_vars(Pass)

-----------------------------------------------------------------------------
(* Properties                                                              *)

\* Every variable keeps its type.
TypeOK ==
  /\ now \in Nat /\ started \in BOOLEAN
  /\ remaining_lots_ \in Int /\ slices_remaining_ \in Nat
  /\ next_deadline_ns_ \in Nat \cup {Never}
  /\ emitted \in Int /\ last_slice \in Int

\* No lot is lost or handed out twice, the lots left always cover the slices
\* left (otherwise std::clamp is called with lo > hi and a slice is negative),
\* and the schedule runs out of lots and of slices together.
SlicesCover ==
  /\ emitted + remaining_lots_ = TotalQty
  /\ TotalQty > 0 =>
       /\ remaining_lots_ >= slices_remaining_
       /\ remaining_lots_ = 0 <=> slices_remaining_ = 0

\* Every slice that tick hands out is a real order of at least one lot, and they
\* never add up to more than the order.
SlicesPositive ==
  [][slices_remaining_' # slices_remaining_ => last_slice' >= 1 /\ emitted' <= TotalQty]_vars

\* The whole quantity is handed out in the end.
Completes == <>(emitted = TotalQty \/ TotalQty <= 0)
=============================================================================
