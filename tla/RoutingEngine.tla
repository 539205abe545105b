---------------------------- MODULE RoutingEngine ----------------------------
(***************************************************************************)
(* sor::RoutingEngine (routing_engine.cpp): one routing decision.  A taker *)
(* order merges the sorted book sides of the exchanges into slices of      *)
(* rising cost (build_cost_slices) and takes them greedily (greedy_fill);  *)
(* a maker order rests at the cheapest touch (calculate_maker_placement).  *)
(*                                                                         *)
(* Prices are integer ticks and book quantities native lots, as in the     *)
(* code.  Limits are base price units and min_qty, max_qty base quantity   *)
(* units (see Lots).  Fees and the latency penalty are one adjustment per  *)
(* exchange, in parts of AdjUnit of the price; the fill rate, which depends*)
(* on latency, volatility and imbalance, is a percentage.  Books do not    *)
(* change during a decision (exchange_state.hpp: written "between decision *)
(* cycles").                                                               *)
(***************************************************************************)
EXTENDS Sequences, FiniteSets, FiniteSetsExt, RoutingContract

CONSTANTS
  Depth,        \* kMaxDepth
  TickSize,     \* [Exchanges -> base price units]
  MinQty,       \* [Exchanges -> base quantity units], LotConstraints::min_qty
  MaxQty,       \* [Exchanges -> base quantity units], LotConstraints::max_qty
  AdjUnit,
  Prices, Qtys, \* the levels' prices in ticks and quantities in native lots
  Targets,      \* target_lots
  Limits,       \* limit_price, 0 = none
  Adjustments,  \* SUBSET [Exchanges -> Int]: taker fee + latency, or maker fee
  FillRates     \* SUBSET [Exchanges -> 50..100], estimate_fill_rate

ASSUME EngineAssumption ==
  /\ Depth \in Nat \ {0} /\ AdjUnit \in Nat \ {0}
  /\ TickSize \in [Exchanges -> Nat \ {0}]
  /\ MinQty \in [Exchanges -> Nat] /\ MaxQty \in [Exchanges -> Nat]
  /\ Prices \subseteq Nat /\ Qtys \subseteq Nat
  /\ Targets \subseteq Nat \ {0} /\ Limits \subseteq Nat
  /\ Adjustments \subseteq [Exchanges -> Int]
  /\ FillRates \subseteq [Exchanges -> 50..100]

VARIABLES
  phase,     \* "idle", "open", "merge", "fill", "place" or "done"
  ctx,       \* RoutingContext and order type
  cursor,    \* per exchange the level of its cursor, 0 = exhausted or no cursor
  slices,    \* SplitWorkspace: cost slices in the order of emission
  next,      \* the slice greedy_fill looks at next
  split,     \* the legs in the form of RoutingContract
  lvl        \* leg -> level_idx

engineVars == <<phase, ctx, cursor, slices, next, split, lvl>>

-----------------------------------------------------------------------------
(* Conversions                                                             *)

\* std::round(a / b): half away from zero.
Round(a, b) == IF a >= 0 THEN (2 * a + b) \div (2 * b) ELSE -((b - 2 * a) \div (2 * b))

DirSign(dir) == IF dir = "BUY" THEN 1 ELSE -1

MinLots(e) == Round(MinQty[e], BookLot[e])
MaxLots(e) == MaxQty[e] \div BookLot[e]
MinCanonicalLots(e) == Round(MinQty[e], LotSize(ctx.instr))

LimitTicks(e) == Round(ctx.limit, TickSize[e])

\* A price the caller does not accept.
Worse(px, limit) == IF ctx.dir = "BUY" THEN px > limit ELSE px < limit

-----------------------------------------------------------------------------
(* The inputs of a decision                                                *)

\* One side of a valid book, best price first: for a taker the side its
\* direction crosses, for a maker the side it joins.
Sides(sign) ==
  UNION {{[ok |-> o, n |-> m, px |-> p, qty |-> q] :
            o \in BOOLEAN,
            p \in {f \in [1..m -> Prices] : \A j, k \in 1..m : j < k => sign * f[j] < sign * f[k]},
            q \in [1..m -> Qtys]} : m \in 0..Depth}

Side(dir, type) == IF (dir = "BUY") = (type = "TAKER") THEN 1 ELSE -1

Book(e) == ctx.book[e]

\* The penalty is taken at the best level and used for all of them.
PenaltyTicks(e) == IF Book(e).n > 0 THEN Round(Book(e).px[1] * ctx.adj[e], AdjUnit) ELSE 0

EffectiveTicks(e, k) == DirSign(ctx.dir) * Book(e).px[k] + PenaltyTicks(e)

\* What a level is expected to give, in canonical lots.
SliceLots(e, k) ==
  LET ql      == Book(e).qty[k]
      clamped == IF ql < MaxLots(e) THEN ql ELSE MaxLots(e)
  IN  ToCanonicalLots((clamped * ctx.rate[e]) \div 100, ctx.instr, e)

BeyondLimit(e, k) == LimitTicks(e) # 0 /\ Worse(Book(e).px[k], LimitTicks(e))

\* MUTANT of SeekNextValid: the limit is forgotten.
SeekIgnoresLimit(e, from) ==
  LET stops == {k \in from..Book(e).n : Book(e).qty[k] >= MinLots(e)}
  IN  IF stops = {} THEN 0 ELSE CHOOSE k \in stops : \A j \in stops : k <= j

\* MUTANT of SeekNextValid: the level index is advanced once too often.
SeekPastNext(e, from) ==
  LET stops == {k \in (from + 1)..Book(e).n : BeyondLimit(e, k) \/ Book(e).qty[k] >= MinLots(e)}
      first == CHOOSE k \in stops : \A j \in stops : k <= j
  IN  IF stops = {} THEN 0 ELSE IF BeyondLimit(e, first) THEN 0 ELSE first

\* seek_next_valid: the next level of at least min_lots, unless one beyond the
\* limit comes first.
SeekNextValid(e, from) ==
  LET stops == {k \in from..Book(e).n : BeyondLimit(e, k) \/ Book(e).qty[k] >= MinLots(e)}
      first == CHOOSE k \in stops : \A j \in stops : k <= j
  IN  IF stops = {} THEN 0 ELSE IF BeyondLimit(e, first) THEN 0 ELSE first

-----------------------------------------------------------------------------

Idle == [instr |-> 0, dir |-> "BUY", type |-> "TAKER", target |-> 1, limit |-> 0,
         book |-> [e \in Exchanges |-> [ok |-> FALSE, n |-> 0, px |-> <<>>, qty |-> <<>>]],
         adj |-> [e \in Exchanges |-> 0], rate |-> [e \in Exchanges |-> 100]]

EngineInit ==
  /\ phase = "idle"
  /\ ctx = Idle
  /\ cursor = [e \in Exchanges |-> 0]
  /\ slices = <<>>
  /\ next = 1
  /\ split = NoLegs(1)
  /\ lvl = <<>>

\* The execution core asks for a decision.
Ask ==
  /\ phase = "idle"
  /\ \E i \in Instruments, d \in {"BUY", "SELL"}, t \in {"TAKER", "MAKER"},
        q \in Targets, p \in Limits, a \in Adjustments, r \in FillRates :
       \E b \in [Exchanges -> Sides(Side(d, t))] :
         /\ ctx' = [instr |-> i, dir |-> d, type |-> t, target |-> q, limit |-> p,
                    book |-> b, adj |-> a, rate |-> r]
         /\ phase' = IF t = "TAKER" THEN "open" ELSE "place"
         /\ split' = NoLegs(q)
  /\ UNCHANGED <<cursor, slices, next, lvl>>

-----------------------------------------------------------------------------
(* build_cost_slices                                                       *)

OpenCursors ==
  /\ phase = "open"
  /\ cursor' = [e \in Exchanges |-> IF Book(e).ok THEN SeekNextValid(e, 1) ELSE 0]
  /\ slices' = <<>>
  /\ next' = 1
  /\ phase' = "merge"
  /\ UNCHANGED <<ctx, split, lvl>>

Open == {e \in Exchanges : cursor[e] # 0}

CursorTicks(e) == EffectiveTicks(e, cursor[e])

\* MUTANT of Cheapest: the first cursor that is still open.
FirstOpen(e) == e \in Open /\ \A f \in Open : e <= f

\* The first cursor with the smallest effective price.
Cheapest(e) ==
  /\ e \in Open
  /\ \A f \in Open : CursorTicks(e) < CursorTicks(f)
                     \/ (CursorTicks(e) = CursorTicks(f) /\ e <= f)

MergeDone == Open = {} \/ Len(slices) >= kMaxChildOrders

\* MUTANT of EmitSlice: a level whose lots round to nothing gives a slice too.
EmitAlways(e) ==
  Append(slices, [eff |-> CursorTicks(e), lots |-> SliceLots(e, cursor[e]),
                  ex |-> e, lvl |-> cursor[e]])

\* A level whose lots round to nothing gives no slice.
EmitSlice(e) ==
  IF SliceLots(e, cursor[e]) = 0 THEN slices
  ELSE Append(slices, [eff |-> CursorTicks(e), lots |-> SliceLots(e, cursor[e]),
                       ex |-> e, lvl |-> cursor[e]])

\* One round of the merge loop.
Merge ==
  /\ phase = "merge" /\ ~MergeDone
  /\ \E e \in Open :
       /\ Cheapest(e)
       /\ slices' = EmitSlice(e)
       /\ cursor' = [cursor EXCEPT ![e] = SeekNextValid(e, cursor[e] + 1)]
  /\ UNCHANGED <<phase, ctx, next, split, lvl>>

Merged ==
  /\ phase = "merge" /\ MergeDone
  /\ phase' = "fill"
  /\ UNCHANGED <<ctx, cursor, slices, next, split, lvl>>

-----------------------------------------------------------------------------
(* greedy_fill                                                             *)

Remaining == split.rem[split.count]

\* A further leg of q lots at level k of exchange e.
AddLeg(q, e, k) ==
  LET n == split.count + 1
  IN  /\ split' = [count |-> n,
                   rem |-> [j \in 0..n |-> IF j = n THEN Remaining - q ELSE split.rem[j]],
                   ex |-> [j \in 1..n |-> IF j = n THEN e ELSE split.ex[j]]]
      /\ lvl' = [j \in 1..n |-> IF j = n THEN k ELSE lvl[j]]

\* MUTANT of FillLots: a slice is taken whole.
FillWhole(s) == s.lots

FillLots(s) == IF Remaining < s.lots THEN Remaining ELSE s.lots

FillDone == next > Len(slices) \/ Remaining = 0

\* MUTANT of Tradable: minimum sizes are not looked at.
AnySize(q, e) == TRUE

Tradable(q, e) == q >= MinCanonicalLots(e)

Fill ==
  /\ phase = "fill" /\ ~FillDone
  /\ LET s == slices[next]
     IN  IF Tradable(FillLots(s), s.ex)
         THEN AddLeg(FillLots(s), s.ex, s.lvl)
         ELSE UNCHANGED <<split, lvl>>
  /\ next' = next + 1
  /\ UNCHANGED <<phase, ctx, cursor, slices>>

Filled ==
  /\ phase = "fill" /\ FillDone
  /\ phase' = "done"
  /\ UNCHANGED <<ctx, cursor, slices, next, split, lvl>>

-----------------------------------------------------------------------------
(* calculate_maker_placement                                               *)

\* The touches an order may join.
Touches ==
  {e \in Exchanges : /\ Book(e).ok
                     /\ Book(e).n > 0
                     /\ ctx.limit > 0 => ~Worse(Book(e).px[1], LimitTicks(e))}

\* The first of the cheapest ones; there is no latency in its price.
BestTouch(e) ==
  /\ e \in Touches
  /\ \A f \in Touches : EffectiveTicks(e, 1) < EffectiveTicks(f, 1)
                        \/ (EffectiveTicks(e, 1) = EffectiveTicks(f, 1) /\ e <= f)

Place ==
  /\ phase = "place"
  /\ phase' = "done"
  /\ \/ Touches = {} /\ UNCHANGED <<split, lvl>>
     \/ \E e \in Touches : BestTouch(e) /\ AddLeg(ctx.target, e, 1)
  /\ UNCHANGED <<ctx, cursor, slices, next>>

\* The execution core has used the split and drops its ChildOrderBuffer.  The
\* workspace is not read again before ws.reset(), so it is cleared here already.
Return ==
  /\ phase = "done"
  /\ phase' = "idle"
  /\ ctx' = Idle
  /\ split' = NoLegs(1)
  /\ lvl' = <<>>
  /\ cursor' = [e \in Exchanges |-> 0] /\ slices' = <<>> /\ next' = 1

EngineNext ==
  \/ Ask \/ OpenCursors \/ Merge \/ Merged \/ Fill \/ Filled \/ Place \/ Return

EngineSpec == EngineInit /\ [][EngineNext]_engineVars

-----------------------------------------------------------------------------
(* Properties                                                              *)

\* The decision's registers keep their types.
EngineTypeOK ==
  /\ phase \in {"idle", "open", "merge", "fill", "place", "done"}
  /\ ctx.dir \in {"BUY", "SELL"} /\ ctx.type \in {"TAKER", "MAKER"}
  /\ ctx.instr \in Instruments /\ ctx.target \in Nat \ {0} /\ ctx.limit \in Nat
  /\ ctx.adj \in [Exchanges -> Int] /\ ctx.rate \in [Exchanges -> 50..100]
  /\ \A e \in Exchanges : cursor[e] \in 0..Book(e).n
  /\ slices \in Seq([eff : Int, lots : Nat \ {0}, ex : Exchanges, lvl : Nat \ {0}])
  /\ Len(slices) <= kMaxChildOrders
  /\ next \in 1..(Len(slices) + 1)

\* The merge never has to go back: slices come out in the order of rising
\* effective price although it only ever compares the heads of the books.
SlicesSorted == \A j, k \in 1..Len(slices) : j < k => slices[j].eff <= slices[k].eff

\* What the execution core is promised: the legs take the target down step by
\* step to no less than zero, there are at most kMaxChildOrders of them, and a
\* resting order is one leg for everything.  These are the splits of
\* RoutingContract (proved in RoutingEngineProofs).
KeepsContract ==
  phase = "done" =>
    /\ DOMAIN split.rem = 0..split.count /\ DOMAIN split.ex = 1..split.count
    /\ split.rem[0] = ctx.target /\ Decreasing(split.rem, split.count)
    /\ \A j \in 0..split.count : split.rem[j] >= 0
    /\ \A j \in 1..split.count : split.ex[j] \in Exchanges
    /\ split.count <= kMaxChildOrders
    /\ ctx.type = "MAKER" => split.count <= 1 /\ (split.count = 1 => Remaining = 0)

\* The levels a taker may use.
Usable(e, k) ==
  /\ Book(e).ok /\ k \in 1..Book(e).n
  /\ Book(e).qty[k] >= MinLots(e)
  /\ \A j \in 1..k : ~BeyondLimit(e, j)

\* The lots the legs take at level k of exchange e, and at prices up to t.
LotsOf(J) == MapThenSumSet(LAMBDA j : split.rem[j - 1] - split.rem[j], J)
Taken(e, k) == LotsOf({j \in 1..split.count : split.ex[j] = e /\ lvl[j] = k})
TakenUpTo(t) == LotsOf({j \in 1..split.count : EffectiveTicks(split.ex[j], lvl[j]) <= t})

\* The legs are the cheapest way to get the lots: whoever trades at a level has
\* first taken every cheaper level in full, unless that level gives nothing or
\* what was left of the order was too small for its exchange.
CheapestFirst ==
  phase = "done" /\ ctx.type = "TAKER" =>
    \A e, f \in Exchanges : \A k \in 1..Book(e).n, m \in 1..Book(f).n :
      /\ Taken(f, m) > 0
      /\ Usable(e, k)
      /\ EffectiveTicks(e, k) < EffectiveTicks(f, m)
      => \/ Taken(e, k) = SliceLots(e, k)
         \/ SliceLots(e, k) < MinCanonicalLots(e)
         \/ ctx.target - TakenUpTo(EffectiveTicks(e, k)) < MinCanonicalLots(e)

\* No leg is priced beyond the limit by more than the half tick that rounding
\* the limit to ticks can give away.
WithinLimit ==
  phase = "done" =>
    \A j \in 1..split.count :
      LET e  == split.ex[j]
          px == Book(e).px[lvl[j]] * TickSize[e]
      IN  2 * ctx.limit >= TickSize[e] =>
            IF ctx.dir = "BUY" THEN 2 * px <= 2 * ctx.limit + TickSize[e]
                               ELSE 2 * px >= 2 * ctx.limit - TickSize[e]

\* Where min_qty is whole canonical lots and at least one native lot, no taker
\* leg is so small that it truncates to a child of zero lots.
LegsTradable ==
  phase = "done" /\ ctx.type = "TAKER" =>
    \A j \in 1..split.count :
      LET e == split.ex[j]
      IN  MinQty[e] >= BookLot[e] /\ MinQty[e] % LotSize(ctx.instr) = 0
            => ToLots(split.rem[j - 1] - split.rem[j], ctx.instr, e) > 0
=============================================================================
