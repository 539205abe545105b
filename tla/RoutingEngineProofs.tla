------------------------ MODULE RoutingEngineProofs ------------------------
(***************************************************************************)
(* What a routing decision guarantees for all books, fees, limits, lot     *)
(* sizes and numbers of exchanges.                                         *)
(***************************************************************************)
EXTENDS RoutingEngine, ArithmeticLemmas

-----------------------------------------------------------------------------
(* Numbers                                                                 *)

\* Rounding gives an integer.
LEMMA RoundInt ==
  ASSUME NEW a \in Int, NEW b \in Nat \ {0}
  PROVE  Round(a, b) \in Int
<1>1. CASE a >= 0
  <2>1. 2 * a + b \in Nat /\ 2 * b \in Nat \ {0}
    BY <1>1
  <2>2. (2 * a + b) \div (2 * b) \in Nat
    BY <2>1, DivBounds
  <2> QED BY <1>1, <2>2 DEF Round
<1>2. CASE ~(a >= 0)
  <2>1. b - 2 * a \in Nat /\ 2 * b \in Nat \ {0}
    BY <1>2
  <2>2. (b - 2 * a) \div (2 * b) \in Nat
    BY <2>1, DivBounds
  <2> QED BY <1>2, <2>2 DEF Round
<1> QED BY <1>1, <1>2

\* A lot is worth a positive number of canonical lots on every exchange.
LEMMA LotSizeType == ASSUME NEW i PROVE LotSize(i) \in Nat \ {0}
  BY LotsAssumption DEF LotSize

\* Native lots convert to a number of canonical lots.
LEMMA CanonicalNat ==
  ASSUME NEW n \in Nat, NEW i, NEW e \in Exchanges
  PROVE  ToCanonicalLots(n, i, e) \in Nat
<1>1. LotSize(i) \in Nat \ {0} /\ BookLot[e] \in Nat \ {0}
  BY LotSizeType, LotsAssumption
<1>2. n * BookLot[e] \in Nat
  BY <1>1
<1>3. 2 * n * BookLot[e] + LotSize(i) \in Nat /\ 2 * LotSize(i) \in Nat \ {0}
  <2>1. 2 * n * BookLot[e] = 2 * (n * BookLot[e])
    BY <1>1
  <2> QED BY <1>1, <1>2, <2>1
<1> QED BY <1>3, DivBounds DEF ToCanonicalLots

\* The elements of a sequence.
LEMMA SeqElements ==
  ASSUME NEW S, NEW q \in Seq(S)
  PROVE  Len(q) \in Nat /\ \A k \in 1..Len(q) : q[k] \in S
OBVIOUS

-----------------------------------------------------------------------------
(* The inductive invariant                                                 *)

\* A book side is sorted, best price first.
BookOK(b, sign) ==
  /\ b.n \in Nat
  /\ \A k \in 1..b.n : b.px[k] \in Nat /\ b.qty[k] \in Nat
  /\ \A j, k \in 1..b.n : j < k => sign * b.px[j] < sign * b.px[k]

ContextOK ==
  /\ ctx.instr \in Instruments
  /\ ctx.dir \in {"BUY", "SELL"} /\ ctx.type \in {"TAKER", "MAKER"}
  /\ ctx.target \in Nat \ {0} /\ ctx.limit \in Nat
  /\ ctx.adj \in [Exchanges -> Int] /\ ctx.rate \in [Exchanges -> 50..100]
  /\ \A e \in Exchanges : BookOK(Book(e), Side(ctx.dir, ctx.type))

\* Where the decision is; a maker has no slices.
PhaseOK ==
  /\ phase \in {"idle", "open", "merge", "fill", "place", "done"}
  /\ phase \in {"open", "merge", "fill"} => ctx.type = "TAKER"
  /\ phase = "place" => ctx.type = "MAKER"

CursorsOK ==
  /\ cursor \in [Exchanges -> Nat]
  /\ \A e \in Exchanges : cursor[e] \in 0..Book(e).n
  /\ phase \in {"idle", "open", "place"} => \A e \in Exchanges : cursor[e] = 0

SlicesOK ==
  /\ slices \in Seq([eff : Int, lots : Nat \ {0}, ex : Exchanges, lvl : Nat \ {0}])
  /\ Len(slices) <= kMaxChildOrders
  /\ phase \in {"idle", "open", "place"} => slices = <<>>

\* No open cursor is cheaper than a slice.
MergeOK ==
  phase = "merge" =>
    \A k \in 1..Len(slices), e \in Exchanges :
      cursor[e] # 0 => slices[k].eff <= CursorTicks(e)

\* A trace of remaining_lots.
SplitOK ==
  /\ split = [count |-> split.count, rem |-> split.rem, ex |-> split.ex]
  /\ split.count \in Nat
  /\ split.rem \in [0..split.count -> 0..ctx.target]
  /\ split.rem[0] = ctx.target
  /\ Decreasing(split.rem, split.count)
  /\ split.ex \in [1..split.count -> Exchanges]

\* How many legs there can be.
LegsOK ==
  /\ next \in 1..(Len(slices) + 1)
  /\ phase \in {"idle", "open", "merge", "place"} => split.count = 0 /\ next = 1
  /\ phase = "fill" => split.count < next
  /\ phase = "done" => split.count <= kMaxChildOrders
  /\ phase = "done" /\ ctx.type = "MAKER" =>
       split.count <= 1 /\ (split.count = 1 => split.rem[1] = 0)

EngineInv ==
  ContextOK /\ PhaseOK /\ CursorsOK /\ SlicesOK /\ SlicesSorted /\ MergeOK /\ SplitOK /\ LegsOK

\* The next level is a level further on, or none.
LEMMA SeekForward ==
  ASSUME ContextOK, NEW e \in Exchanges, NEW from \in Nat \ {0}
  PROVE  /\ SeekNextValid(e, from) \in 0..Book(e).n
         /\ SeekNextValid(e, from) # 0 => SeekNextValid(e, from) >= from
<1> DEFINE stops == {k \in from..Book(e).n : BeyondLimit(e, k) \/ Book(e).qty[k] >= MinLots(e)}
           first == CHOOSE k \in stops : \A j \in stops : k <= j
<1>1. SeekNextValid(e, from) =
        IF stops = {} THEN 0 ELSE IF BeyondLimit(e, first) THEN 0 ELSE first
  BY Zenon DEF SeekNextValid
<1>2. Book(e).n \in Nat
  BY DEF ContextOK, BookOK
<1>3. CASE stops = {}
  BY <1>1, <1>2, <1>3
<1>4. CASE stops # {}
  <2>1. stops \subseteq Nat
    BY <1>2
  <2>2. \E k \in stops : \A j \in stops : k <= j
    BY <1>4, <2>1, LeastNatural, Zenon
  <2>3. first \in stops
    BY <2>2, Zenon
  <2>4. first \in from..Book(e).n
    BY <2>3
  <2> HIDE DEF stops, first
  <2> QED BY <1>1, <1>2, <1>4, <2>4
<1> QED BY <1>3, <1>4

\* Effective prices are integers and rise along a book a taker walks.
LEMMA TicksRise ==
  ASSUME ContextOK, NEW e \in Exchanges
  PROVE  /\ \A k \in 1..Book(e).n : EffectiveTicks(e, k) \in Int
         /\ ctx.type = "TAKER" =>
              \A j, k \in 1..Book(e).n : j < k => EffectiveTicks(e, j) < EffectiveTicks(e, k)
<1>1. /\ BookOK(Book(e), Side(ctx.dir, ctx.type)) /\ ctx.dir \in {"BUY", "SELL"}
      /\ ctx.adj[e] \in Int
  BY DEF ContextOK
<1>2. PenaltyTicks(e) \in Int
  <2>1. CASE Book(e).n > 0
    <3>1. Book(e).px[1] \in Nat
      BY <1>1, <2>1 DEF BookOK
    <3>2. Book(e).px[1] * ctx.adj[e] \in Int /\ AdjUnit \in Nat \ {0}
      BY <1>1, <3>1, EngineAssumption
    <3> QED BY <2>1, <3>2, RoundInt DEF PenaltyTicks
  <2>2. CASE ~(Book(e).n > 0)
    BY <2>2 DEF PenaltyTicks
  <2> QED BY <2>1, <2>2
<1>3. ctx.type = "TAKER" => Side(ctx.dir, ctx.type) = DirSign(ctx.dir)
  BY <1>1 DEF Side, DirSign
<1>4. DirSign(ctx.dir) \in {1, -1}
  BY DEF DirSign
<1>5. ASSUME NEW k \in 1..Book(e).n
      PROVE  /\ DirSign(ctx.dir) * Book(e).px[k] \in Int
             /\ EffectiveTicks(e, k) = DirSign(ctx.dir) * Book(e).px[k] + PenaltyTicks(e)
  <2>1. Book(e).px[k] \in Nat
    BY <1>1 DEF BookOK
  <2> QED BY <1>4, <2>1 DEF EffectiveTicks
<1>6. ASSUME ctx.type = "TAKER", NEW j \in 1..Book(e).n, NEW k \in 1..Book(e).n, j < k
      PROVE  EffectiveTicks(e, j) < EffectiveTicks(e, k)
  <2>1. DirSign(ctx.dir) * Book(e).px[j] < DirSign(ctx.dir) * Book(e).px[k]
    BY <1>1, <1>3, <1>6 DEF BookOK
  <2> QED BY <1>2, <1>5, <2>1
<1> QED BY <1>2, <1>5, <1>6

\* What a level gives is a number of lots.
LEMMA SliceLotsNat ==
  ASSUME ContextOK, NEW e \in Exchanges, NEW k \in 1..Book(e).n
  PROVE  SliceLots(e, k) \in Nat
<1>1. Book(e).qty[k] \in Nat /\ ctx.rate[e] \in 50..100
  BY DEF ContextOK, BookOK
<1>2. MaxLots(e) \in Nat
  <2>1. MaxQty[e] \in Nat /\ BookLot[e] \in Nat \ {0}
    BY EngineAssumption, LotsAssumption
  <2> QED BY <2>1, DivBounds DEF MaxLots
<1> DEFINE c == IF Book(e).qty[k] < MaxLots(e) THEN Book(e).qty[k] ELSE MaxLots(e)
<1>3. c \in Nat
  BY <1>1, <1>2
<1>4. SliceLots(e, k) = ToCanonicalLots((c * ctx.rate[e]) \div 100, ctx.instr, e)
  BY DEF SliceLots
<1> HIDE DEF c
<1>5. c * ctx.rate[e] \in Nat
  BY <1>1, <1>3
<1>6. (c * ctx.rate[e]) \div 100 \in Nat
  BY <1>5
<1> QED BY <1>4, <1>6, CanonicalNat

-----------------------------------------------------------------------------
(* The steps                                                               *)

\* No legs yet.
LEMMA NoLegsSplit ==
  ASSUME NEW q \in Nat \ {0}
  PROVE  LET n == NoLegs(q)
         IN  /\ n = [count |-> n.count, rem |-> n.rem, ex |-> n.ex]
             /\ n.count = 0
             /\ n.rem \in [0..n.count -> 0..q] /\ n.rem[0] = q
             /\ Decreasing(n.rem, n.count)
             /\ n.ex \in [1..n.count -> Exchanges]
<1> DEFINE n == NoLegs(q)
<1>1. /\ n.count = 0 /\ n.rem = [k \in {0} |-> q] /\ n.ex = [k \in 1..0 |-> 0]
      /\ n = [count |-> n.count, rem |-> n.rem, ex |-> n.ex]
  BY DEF NoLegs
<1> HIDE DEF n
<1>2. 0..0 = {0} /\ 1..0 = {}
  OBVIOUS
<1>3. n.rem \in [0..n.count -> 0..q] /\ n.rem[0] = q
  BY <1>1, <1>2
<1>4. Decreasing(n.rem, n.count)
  BY <1>1, <1>2 DEF Decreasing
<1>5. n.ex \in [1..n.count -> Exchanges]
  BY <1>1, <1>2
<1> QED BY <1>1, <1>3, <1>4, <1>5 DEF n

\* A side of a valid book is sorted.
LEMMA SidesSorted ==
  ASSUME NEW sign \in {1, -1}, NEW b \in Sides(sign)
  PROVE  BookOK(b, sign)
<1>0. PICK m \in 0..Depth :
        \E o \in BOOLEAN,
           p \in {f \in [1..m -> Prices] : \A j, k \in 1..m : j < k => sign * f[j] < sign * f[k]},
           q \in [1..m -> Qtys] :
             b = [ok |-> o, n |-> m, px |-> p, qty |-> q]
  BY DEF Sides
<1>1. PICK o \in BOOLEAN,
           p \in {f \in [1..m -> Prices] : \A j, k \in 1..m : j < k => sign * f[j] < sign * f[k]},
           q \in [1..m -> Qtys] :
             b = [ok |-> o, n |-> m, px |-> p, qty |-> q]
  BY <1>0
<1>2. b.n = m /\ b.px = p /\ b.qty = q
  BY <1>1
<1>3. m \in Nat /\ Prices \subseteq Nat /\ Qtys \subseteq Nat
  BY EngineAssumption
<1>4. \A k \in 1..m : p[k] \in Nat /\ q[k] \in Nat
  BY <1>3
<1>5. \A j, k \in 1..m : j < k => sign * p[j] < sign * p[k]
  OBVIOUS
<1> QED BY <1>2, <1>3, <1>4, <1>5 DEF BookOK

LEMMA InitOK == EngineInit => EngineInv
<1> SUFFICES ASSUME EngineInit PROVE EngineInv
  OBVIOUS
<1> USE DEF EngineInit
<1>1. ContextOK
  <2>1. 0 \in Instruments
    BY LotsAssumption DEF Instruments
  <2> QED BY <2>1 DEF ContextOK, Idle, Book, BookOK
<1>2. PhaseOK
  BY DEF PhaseOK
<1>3. CursorsOK
  BY DEF CursorsOK, Idle, Book
<1>4. SlicesOK /\ SlicesSorted /\ MergeOK
  BY RoutingAssumption DEF SlicesOK, SlicesSorted, MergeOK
<1>5. SplitOK /\ LegsOK
  <2>1. split = NoLegs(1) /\ ctx.target = 1
    BY DEF Idle
  <2>2. SplitOK
    BY <2>1, NoLegsSplit DEF SplitOK
  <2>3. split.count = 0
    BY <2>1, NoLegsSplit
  <2> QED BY <2>2, <2>3 DEF LegsOK
<1> QED BY <1>1, <1>2, <1>3, <1>4, <1>5 DEF EngineInv

LEMMA AskStep == EngineInv /\ Ask => EngineInv'
<1> SUFFICES ASSUME EngineInv, Ask PROVE EngineInv'
  OBVIOUS
<1>1. PICK i \in Instruments, d \in {"BUY", "SELL"}, t \in {"TAKER", "MAKER"},
           q \in Targets, p \in Limits, a \in Adjustments, r \in FillRates :
        \E b \in [Exchanges -> Sides(Side(d, t))] :
          /\ ctx' = [instr |-> i, dir |-> d, type |-> t, target |-> q, limit |-> p,
                     book |-> b, adj |-> a, rate |-> r]
          /\ phase' = IF t = "TAKER" THEN "open" ELSE "place"
          /\ split' = NoLegs(q)
  BY DEF Ask
<1>2. PICK b \in [Exchanges -> Sides(Side(d, t))] :
          /\ ctx' = [instr |-> i, dir |-> d, type |-> t, target |-> q, limit |-> p,
                     book |-> b, adj |-> a, rate |-> r]
          /\ phase' = IF t = "TAKER" THEN "open" ELSE "place"
          /\ split' = NoLegs(q)
  BY <1>1
<1>3. phase = "idle" /\ UNCHANGED <<cursor, slices, next, lvl>>
  BY DEF Ask
<1>4. ContextOK'
  <2>1. Side(d, t) \in {1, -1}
    BY DEF Side
  <2>2. \A e \in Exchanges : BookOK(b[e], Side(d, t))
    BY <2>1, SidesSorted
  <2>3. /\ ctx'.instr = i /\ ctx'.dir = d /\ ctx'.type = t /\ ctx'.target = q
        /\ ctx'.limit = p /\ ctx'.adj = a /\ ctx'.rate = r /\ ctx'.book = b
    BY <1>2
  <2>4. /\ q \in Nat \ {0} /\ p \in Nat /\ a \in [Exchanges -> Int]
        /\ r \in [Exchanges -> 50..100]
    BY EngineAssumption
  <2> QED BY <2>2, <2>3, <2>4 DEF ContextOK, Book
<1>5. PhaseOK'
  BY <1>2 DEF PhaseOK
<1>6. /\ cursor \in [Exchanges -> Nat] /\ \A e \in Exchanges : cursor[e] = 0
      /\ slices = <<>> /\ next = 1
  BY <1>3 DEF EngineInv, CursorsOK, SlicesOK, LegsOK
<1>7. CursorsOK'
  <2>1. \A e \in Exchanges : 0 \in 0..(Book(e).n)'
    BY <1>4 DEF ContextOK, BookOK
  <2> QED BY <1>3, <1>6, <2>1 DEF CursorsOK
<1>8. SlicesOK' /\ SlicesSorted' /\ MergeOK'
  BY <1>2, <1>3, <1>6, RoutingAssumption DEF SlicesOK, SlicesSorted, MergeOK
<1>9. q \in Nat \ {0} /\ ctx'.target = q
  BY <1>2, EngineAssumption
<1>10. SplitOK'
  BY <1>2, <1>9, NoLegsSplit DEF SplitOK
<1>11. LegsOK'
  <2>1. split'.count = 0
    BY <1>2, <1>9, NoLegsSplit
  <2>2. phase' \in {"open", "place"}
    BY <1>2
  <2> QED BY <1>3, <1>6, <2>1, <2>2 DEF LegsOK
<1> QED BY <1>4, <1>5, <1>7, <1>8, <1>10, <1>11 DEF EngineInv

LEMMA OpenStep == EngineInv /\ OpenCursors => EngineInv'
<1> SUFFICES ASSUME EngineInv, OpenCursors PROVE EngineInv'
  OBVIOUS
<1>1. /\ phase = "open" /\ phase' = "merge" /\ slices' = <<>> /\ next' = 1
      /\ cursor' = [e \in Exchanges |-> IF Book(e).ok THEN SeekNextValid(e, 1) ELSE 0]
      /\ ctx' = ctx /\ split' = split
  BY DEF OpenCursors
<1>2. ContextOK /\ ContextOK'
  BY <1>1 DEF EngineInv, ContextOK, Book
<1>3. PhaseOK'
  BY <1>1 DEF EngineInv, PhaseOK
<1>4. CursorsOK'
  <2>1. \A e \in Exchanges : Book(e).n \in Nat /\ SeekNextValid(e, 1) \in 0..Book(e).n
    BY <1>2, SeekForward DEF ContextOK, BookOK
  <2>2. \A e \in Exchanges : cursor'[e] \in 0..Book(e).n
    BY <1>1, <2>1
  <2>3. cursor' \in [Exchanges -> Nat]
    BY <1>1, <2>1
  <2>4. \A e \in Exchanges : Book(e)' = Book(e)
    BY <1>1 DEF Book
  <2> QED BY <1>1, <2>2, <2>3, <2>4 DEF CursorsOK
<1>5. SlicesOK' /\ SlicesSorted' /\ MergeOK'
  BY <1>1, RoutingAssumption DEF SlicesOK, SlicesSorted, MergeOK
<1>6. SplitOK'
  BY <1>1 DEF EngineInv, SplitOK
<1>7. LegsOK'
  BY <1>1 DEF EngineInv, LegsOK
<1> QED BY <1>2, <1>3, <1>4, <1>5, <1>6, <1>7 DEF EngineInv

\* One round of the merge: the new slice is the dearest so far, and every
\* cursor is at least as dear as it.
LEMMA MergeStep == EngineInv /\ Merge => EngineInv'
<1> SUFFICES ASSUME EngineInv, Merge PROVE EngineInv'
  OBVIOUS
<1>1. PICK e \in Open :
        /\ Cheapest(e)
        /\ slices' = EmitSlice(e)
        /\ cursor' = [cursor EXCEPT ![e] = SeekNextValid(e, cursor[e] + 1)]
  BY DEF Merge
<1>2. /\ phase = "merge" /\ ~MergeDone
      /\ phase' = phase /\ ctx' = ctx /\ next' = next /\ split' = split
  BY DEF Merge
<1>3. /\ ContextOK /\ PhaseOK /\ CursorsOK /\ SlicesOK /\ SlicesSorted /\ MergeOK
      /\ SplitOK /\ LegsOK
  BY DEF EngineInv
<1>4. ctx.type = "TAKER"
  BY <1>2, <1>3 DEF PhaseOK
<1>5. /\ e \in Exchanges /\ cursor[e] \in 1..Book(e).n
      /\ cursor \in [Exchanges -> Nat]
  BY <1>3 DEF Open, CursorsOK
<1>6. \A f \in Exchanges : BookOK(Book(f), Side(ctx.dir, ctx.type)) /\ Book(f)' = Book(f)
  BY <1>2, <1>3 DEF ContextOK, Book
<1>7. /\ SeekNextValid(e, cursor[e] + 1) \in 0..Book(e).n
      /\ SeekNextValid(e, cursor[e] + 1) # 0 => SeekNextValid(e, cursor[e] + 1) > cursor[e]
  <2>1. cursor[e] + 1 \in Nat \ {0} /\ cursor[e] \in Nat
    BY <1>5
  <2>2. Book(e).n \in Nat
    BY <1>5, <1>6 DEF BookOK
  <2> QED BY <1>3, <1>5, <2>1, <2>2, SeekForward
<1>8. \A f \in Exchanges, k \in Nat :
        k \in 1..Book(f).n => EffectiveTicks(f, k)' = EffectiveTicks(f, k)
  BY <1>2 DEF EffectiveTicks, Book, PenaltyTicks
<1>9. ContextOK'
  BY <1>2, <1>3 DEF ContextOK, Book
<1>10. PhaseOK'
  BY <1>2, <1>3 DEF PhaseOK
<1>11. CursorsOK'
  <2>1. \A f \in Exchanges : cursor'[f] \in 0..Book(f).n
    BY <1>1, <1>3, <1>5, <1>7 DEF CursorsOK
  <2>2. Book(e).n \in Nat
    BY <1>5, <1>6 DEF BookOK
  <2>3. cursor' \in [Exchanges -> Nat]
    BY <1>1, <1>5, <1>7, <2>2
  <2> QED BY <1>2, <1>6, <2>1, <2>3 DEF CursorsOK
<1> DEFINE s == [eff |-> CursorTicks(e), lots |-> SliceLots(e, cursor[e]),
                 ex |-> e, lvl |-> cursor[e]]
<1>12. CursorTicks(e) \in Int
  BY <1>3, <1>5, TicksRise DEF CursorTicks
\* The cursors after the step are no cheaper than e's was.
<1>13. ASSUME NEW f \in Exchanges, cursor'[f] # 0
       PROVE  CursorTicks(e) <= CursorTicks(f)'
  <2>1. cursor'[f] \in 1..Book(f).n /\ cursor'[f] \in Nat
    BY <1>6, <1>11, <1>13 DEF CursorsOK
  <2>2. CursorTicks(f)' = EffectiveTicks(f, cursor'[f])
    BY <1>8, <2>1 DEF CursorTicks
  <2>3. CASE f = e
    <3>1. cursor'[e] > cursor[e]
      BY <1>1, <1>5, <1>7, <1>13, <2>3
    <3>2. EffectiveTicks(e, cursor[e]) < EffectiveTicks(e, cursor'[e])
      BY <1>3, <1>4, <1>5, <2>1, <2>3, <3>1, TicksRise
    <3>3. EffectiveTicks(e, cursor'[e]) \in Int
      BY <1>3, <1>5, <2>1, <2>3, TicksRise
    <3> QED BY <1>12, <2>2, <2>3, <3>2, <3>3 DEF CursorTicks
  <2>4. CASE f # e
    <3>1. cursor'[f] = cursor[f] /\ f \in Open
      BY <1>1, <1>5, <1>13, <2>4 DEF Open
    <3>2. CursorTicks(e) < CursorTicks(f) \/ CursorTicks(e) = CursorTicks(f)
      BY <1>1, <3>1 DEF Cheapest
    <3>3. CursorTicks(f) \in Int
      BY <1>3, <2>1, <3>1, TicksRise DEF CursorTicks
    <3>4. CursorTicks(f)' = CursorTicks(f)
      BY <2>2, <3>1 DEF CursorTicks
    <3> QED BY <1>12, <3>2, <3>3, <3>4
  <2> QED BY <2>3, <2>4
<1>14. \A k \in 1..Len(slices) : slices[k].eff \in Int /\ slices[k].eff <= CursorTicks(e)
  <2>0. \A k \in 1..Len(slices) :
          slices[k] \in [eff : Int, lots : Nat \ {0}, ex : Exchanges, lvl : Nat \ {0}]
    BY <1>3, SeqElements DEF SlicesOK
  <2>1. \A k \in 1..Len(slices) : slices[k].eff \in Int
    BY <2>0
  <2> QED BY <1>2, <1>3, <1>5, <2>1 DEF MergeOK
<1>15. CASE SliceLots(e, cursor[e]) = 0
  <2>1. slices' = slices
    BY <1>1, <1>15 DEF EmitSlice
  <2>2. SlicesOK' /\ SlicesSorted'
    BY <1>2, <1>3, <2>1 DEF SlicesOK, SlicesSorted
  <2>3. MergeOK'
    <3> SUFFICES ASSUME NEW k \in 1..Len(slices), NEW f \in Exchanges, cursor'[f] # 0
                 PROVE  slices[k].eff <= CursorTicks(f)'
      BY <2>1 DEF MergeOK
    <3>1. CursorTicks(f)' \in Int
      <4>1. ContextOK' /\ cursor'[f] \in 1..Book(f).n
        BY <1>6, <1>9, <1>11 DEF CursorsOK
      <4> QED BY <1>3, <1>8, <4>1, TicksRise DEF CursorTicks
    <3> QED BY <1>12, <1>13, <1>14, <3>1
  <2>4. LegsOK'
    BY <1>2, <1>3, <2>1 DEF LegsOK
  <2>5. SplitOK'
    BY <1>2, <1>3 DEF SplitOK
  <2> QED BY <1>9, <1>10, <1>11, <2>2, <2>3, <2>4, <2>5 DEF EngineInv
<1>16. CASE SliceLots(e, cursor[e]) # 0
  <2>1. slices' = Append(slices, s)
    BY <1>1, <1>16 DEF EmitSlice
  <2>2. SliceLots(e, cursor[e]) \in Nat \ {0}
    BY <1>3, <1>5, <1>16, SliceLotsNat
  <2>3. s \in [eff : Int, lots : Nat \ {0}, ex : Exchanges, lvl : Nat \ {0}]
    BY <1>5, <1>12, <2>2
  <2>4. s.eff = CursorTicks(e)
    OBVIOUS
  <2> HIDE DEF s
  <2>5. Len(slices) \in Nat /\ Len(slices) < kMaxChildOrders
    BY <1>2, <1>3, RoutingAssumption DEF MergeDone, SlicesOK
  <2>6. /\ slices' \in Seq([eff : Int, lots : Nat \ {0}, ex : Exchanges, lvl : Nat \ {0}])
        /\ Len(slices') = Len(slices) + 1
        /\ \A k \in 1..Len(slices) : slices'[k] = slices[k]
        /\ slices'[Len(slices) + 1] = s
    BY <1>3, <2>1, <2>3 DEF SlicesOK
  <2>last. Len(slices') = Len(slices) + 1
    BY <2>6
  <2>7. SlicesOK'
    BY <1>2, <2>5, <2>6, RoutingAssumption DEF SlicesOK
  <2>8. \A k \in 1..Len(slices') : slices'[k].eff \in Int /\ slices'[k].eff <= CursorTicks(e)
    <3> SUFFICES ASSUME NEW k \in 1..Len(slices')
                 PROVE  slices'[k].eff \in Int /\ slices'[k].eff <= CursorTicks(e)
      OBVIOUS
    <3>1. CASE k = Len(slices) + 1
      <4>1. slices'[k].eff = CursorTicks(e)
        BY <2>4, <2>6, <3>1
      <4> QED BY <1>12, <4>1
    <3>2. CASE k # Len(slices) + 1
      <4>1. k \in 1..Len(slices)
        BY <2>5, <2>last, <3>2
      <4> QED BY <1>14, <2>6, <4>1
    <3> QED BY <3>1, <3>2
  <2>9. SlicesSorted'
    <3> SUFFICES ASSUME NEW j \in 1..Len(slices'), NEW k \in 1..Len(slices'), j < k
                 PROVE  slices'[j].eff <= slices'[k].eff
      BY DEF SlicesSorted
    <3>1. CASE k = Len(slices) + 1
      BY <2>4, <2>6, <2>8, <3>1
    <3>2. CASE k # Len(slices) + 1
      <4>1. j \in 1..Len(slices) /\ k \in 1..Len(slices)
        BY <2>5, <2>last, <3>2
      <4> QED BY <1>3, <2>6, <4>1 DEF SlicesSorted
    <3> QED BY <3>1, <3>2
  <2>10. MergeOK'
    <3> SUFFICES ASSUME NEW k \in 1..Len(slices'), NEW f \in Exchanges, cursor'[f] # 0
                 PROVE  slices'[k].eff <= CursorTicks(f)'
      BY DEF MergeOK
    <3>1. CursorTicks(f)' \in Int
      <4>1. ContextOK' /\ cursor'[f] \in 1..Book(f).n
        BY <1>6, <1>9, <1>11 DEF CursorsOK
      <4> QED BY <1>3, <1>8, <4>1, TicksRise DEF CursorTicks
    <3> QED BY <1>12, <1>13, <2>8, <3>1
  <2>11. LegsOK'
    BY <1>2, <1>3, <2>5, <2>6 DEF LegsOK
  <2>12. SplitOK'
    BY <1>2, <1>3 DEF SplitOK
  <2> QED BY <1>9, <1>10, <1>11, <2>7, <2>9, <2>10, <2>11, <2>12 DEF EngineInv
<1> QED BY <1>15, <1>16

LEMMA MergedStep == EngineInv /\ Merged => EngineInv'
<1> SUFFICES ASSUME EngineInv, Merged PROVE EngineInv'
  OBVIOUS
<1>1. /\ phase = "merge" /\ phase' = "fill"
      /\ UNCHANGED <<ctx, cursor, slices, next, split, lvl>>
  BY DEF Merged
<1>2. ContextOK' /\ PhaseOK' /\ CursorsOK'
  BY <1>1 DEF EngineInv, ContextOK, PhaseOK, CursorsOK, Book
<1>3. SlicesOK' /\ SlicesSorted' /\ MergeOK'
  BY <1>1 DEF EngineInv, SlicesOK, SlicesSorted, MergeOK
<1>4. SplitOK' /\ LegsOK'
  BY <1>1 DEF EngineInv, SplitOK, LegsOK
<1> QED BY <1>2, <1>3, <1>4 DEF EngineInv

\* A further leg takes some of what remains and keeps the trace one.
LEMMA LegStep ==
  ASSUME ContextOK, SplitOK, NEW q \in Nat \ {0}, q <= Remaining,
         NEW e \in Exchanges, NEW k, AddLeg(q, e, k), ctx' = ctx
  PROVE  /\ SplitOK'
         /\ split'.count = split.count + 1
         /\ split'.rem[split.count + 1] = Remaining - q
<1> DEFINE n == split.count + 1
<1>1. /\ split.count \in Nat /\ split.rem \in [0..split.count -> 0..ctx.target]
      /\ split.rem[0] = ctx.target /\ split.ex \in [1..split.count -> Exchanges]
      /\ \A i, j \in 0..split.count : i < j => split.rem[j] < split.rem[i]
  BY DEF SplitOK, Decreasing
<1>2. /\ split'.count = n
      /\ split'.rem = [j \in 0..n |-> IF j = n THEN Remaining - q ELSE split.rem[j]]
      /\ split'.ex = [j \in 1..n |-> IF j = n THEN e ELSE split.ex[j]]
      /\ split' = [count |-> split'.count, rem |-> split'.rem, ex |-> split'.ex]
  BY DEF AddLeg
<1>3. Remaining = split.rem[split.count] /\ Remaining \in 0..ctx.target /\ ctx.target \in Nat
  BY <1>1 DEF Remaining, ContextOK
<1>4. n \in Nat /\ n = split.count + 1
  BY <1>1
<1> HIDE DEF n
<1>5. Remaining - q \in 0..ctx.target /\ Remaining - q < Remaining
  BY <1>3
<1>6. /\ \A j \in 0..split.count : split'.rem[j] = split.rem[j]
      /\ split'.rem[n] = Remaining - q
  BY <1>1, <1>2, <1>4
<1>7. \A j \in 0..n : j = n \/ j \in 0..split.count
  BY <1>1, <1>4
<1>8. split'.rem \in [0..n -> 0..ctx.target]
  BY <1>1, <1>2, <1>5, <1>7
<1>9. split'.ex \in [1..n -> Exchanges]
  <2>1. \A j \in 1..n : j = n \/ j \in 1..split.count
    BY <1>1, <1>4
  <2> QED BY <1>1, <1>2, <2>1
<1>10. Decreasing(split'.rem, n)
  <2> SUFFICES ASSUME NEW i \in 0..n, NEW j \in 0..n, i < j
               PROVE  split'.rem[j] < split'.rem[i]
    BY DEF Decreasing
  <2>1. i \in 0..split.count
    BY <1>1, <1>4
  <2>2. split.rem[i] \in Int
    BY <1>1, <2>1
  <2>3. CASE j = n
    <3>1. Remaining <= split.rem[i]
      <4>1. CASE i = split.count
        BY <1>3, <2>2, <4>1
      <4>2. CASE i # split.count
        <5>1. i < split.count /\ split.count \in 0..split.count
          BY <1>1, <2>1, <4>2
        <5> QED BY <1>1, <1>3, <2>1, <2>2, <5>1
      <4> QED BY <4>1, <4>2
    <3> QED BY <1>3, <1>5, <1>6, <2>1, <2>2, <2>3, <3>1
  <2>4. CASE j # n
    <3>1. j \in 0..split.count
      BY <1>7, <2>4
    <3> QED BY <1>1, <1>6, <2>1, <3>1
  <2> QED BY <2>3, <2>4
<1>11. split'.rem[0] = ctx.target
  BY <1>1, <1>6
<1> QED BY <1>2, <1>4, <1>6, <1>8, <1>9, <1>10, <1>11 DEF SplitOK

LEMMA FillStep == EngineInv /\ Fill => EngineInv'
<1> SUFFICES ASSUME EngineInv, Fill PROVE EngineInv'
  OBVIOUS
<1>1. /\ phase = "fill" /\ ~FillDone /\ next' = next + 1
      /\ phase' = phase /\ ctx' = ctx /\ cursor' = cursor /\ slices' = slices
  BY DEF Fill
<1>2. ContextOK' /\ PhaseOK' /\ CursorsOK'
  BY <1>1 DEF EngineInv, ContextOK, PhaseOK, CursorsOK, Book
<1>3. SlicesOK' /\ SlicesSorted' /\ MergeOK'
  BY <1>1 DEF EngineInv, SlicesOK, SlicesSorted, MergeOK
<1>4. /\ ContextOK /\ SplitOK /\ LegsOK /\ SlicesOK
  BY DEF EngineInv
<1>5. Len(slices) \in Nat /\ next \in 1..Len(slices) /\ Remaining # 0
  <2>1. Len(slices) \in Nat
    BY <1>4, SeqElements DEF SlicesOK
  <2> QED BY <1>1, <1>4, <2>1 DEF FillDone, LegsOK
<1> DEFINE s == slices[next]
<1>6. s \in [eff : Int, lots : Nat \ {0}, ex : Exchanges, lvl : Nat \ {0}]
  BY <1>4, <1>5, SeqElements DEF SlicesOK
<1>7. s.lots \in Nat \ {0} /\ s.ex \in Exchanges
  BY <1>6
<1>8. Remaining \in Nat \ {0}
  <2>1. split.rem[split.count] \in 0..ctx.target /\ ctx.target \in Nat
    BY <1>4 DEF SplitOK, ContextOK
  <2> QED BY <1>5, <2>1 DEF Remaining
<1>9. FillLots(s) \in Nat \ {0} /\ FillLots(s) <= Remaining
  BY <1>7, <1>8 DEF FillLots
<1>10. SplitOK' /\ split'.count \in {split.count, split.count + 1}
  <2>1. CASE Tradable(FillLots(s), s.ex)
    <3>1. AddLeg(FillLots(s), s.ex, s.lvl)
      BY <2>1 DEF Fill
    <3> HIDE DEF s
    <3> QED BY <1>1, <1>4, <1>7, <1>9, <3>1, LegStep
  <2>2. CASE ~Tradable(FillLots(s), s.ex)
    <3>1. split' = split
      BY <2>2 DEF Fill
    <3> QED BY <1>1, <1>4, <3>1 DEF SplitOK
  <2> QED BY <2>1, <2>2
<1>11. LegsOK'
  <2>1. split.count < next /\ split.count \in Nat
    BY <1>1, <1>4 DEF LegsOK, SplitOK
  <2>2. split'.count < next + 1
    BY <1>5, <1>10, <2>1
  <2> QED BY <1>1, <1>5, <2>2 DEF LegsOK
<1> QED BY <1>2, <1>3, <1>10, <1>11 DEF EngineInv

LEMMA FilledStep == EngineInv /\ Filled => EngineInv'
<1> SUFFICES ASSUME EngineInv, Filled PROVE EngineInv'
  OBVIOUS
<1>1. /\ phase = "fill" /\ phase' = "done"
      /\ UNCHANGED <<ctx, cursor, slices, next, split, lvl>>
  BY DEF Filled
<1>2. ContextOK' /\ PhaseOK' /\ CursorsOK'
  BY <1>1 DEF EngineInv, ContextOK, PhaseOK, CursorsOK, Book
<1>3. SlicesOK' /\ SlicesSorted' /\ MergeOK'
  BY <1>1 DEF EngineInv, SlicesOK, SlicesSorted, MergeOK
<1>4. SplitOK'
  BY <1>1 DEF EngineInv, SplitOK
<1>5. LegsOK'
  <2>1. ctx.type = "TAKER"
    BY <1>1 DEF EngineInv, PhaseOK
  <2>2. split.count <= kMaxChildOrders
    <3>1. /\ split.count < next /\ next \in 1..(Len(slices) + 1)
          /\ Len(slices) <= kMaxChildOrders /\ split.count \in Nat
      BY <1>1 DEF EngineInv, LegsOK, SlicesOK, SplitOK
    <3>2. Len(slices) \in Nat
      BY SeqElements DEF EngineInv, SlicesOK
    <3> QED BY <3>1, <3>2, RoutingAssumption
  <2> QED BY <1>1, <2>1, <2>2 DEF EngineInv, LegsOK
<1> QED BY <1>2, <1>3, <1>4, <1>5 DEF EngineInv

LEMMA PlaceStep == EngineInv /\ Place => EngineInv'
<1> SUFFICES ASSUME EngineInv, Place PROVE EngineInv'
  OBVIOUS
<1>1. /\ phase = "place" /\ phase' = "done"
      /\ UNCHANGED <<ctx, cursor, slices, next>>
  BY DEF Place
<1>2. ContextOK' /\ PhaseOK' /\ CursorsOK'
  BY <1>1 DEF EngineInv, ContextOK, PhaseOK, CursorsOK, Book
<1>3. SlicesOK' /\ SlicesSorted' /\ MergeOK'
  BY <1>1 DEF EngineInv, SlicesOK, SlicesSorted, MergeOK
<1>4. /\ ContextOK /\ SplitOK /\ split.count = 0 /\ LegsOK
  BY <1>1 DEF EngineInv, LegsOK
<1>5. CASE split' = split
  <2>1. SplitOK'
    BY <1>1, <1>4, <1>5 DEF SplitOK
  <2>2. LegsOK'
    BY <1>1, <1>4, <1>5, RoutingAssumption DEF LegsOK
  <2> QED BY <1>2, <1>3, <2>1, <2>2 DEF EngineInv
<1>6. ASSUME NEW e \in Touches, AddLeg(ctx.target, e, 1) PROVE EngineInv'
  <2>1. Remaining = ctx.target /\ ctx.target \in Nat \ {0} /\ e \in Exchanges
    BY <1>4 DEF Remaining, SplitOK, ContextOK, Touches
  <2>2. /\ SplitOK' /\ split'.count = split.count + 1
        /\ split'.rem[split.count + 1] = Remaining - ctx.target
    BY <1>1, <1>4, <1>6, <2>1, LegStep
  <2>3. split'.count = 1 /\ split'.rem[1] = 0
    BY <1>4, <2>1, <2>2
  <2>4. LegsOK'
    BY <1>1, <1>4, <2>3, RoutingAssumption DEF LegsOK
  <2> QED BY <1>2, <1>3, <2>2, <2>4 DEF EngineInv
<1> QED BY <1>5, <1>6 DEF Place

LEMMA ReturnStep == EngineInv /\ Return => EngineInv'
<1> SUFFICES ASSUME EngineInv, Return PROVE EngineInv'
  OBVIOUS
<1>1. EngineInit'
  BY DEF Return, EngineInit
<1> QED BY <1>1, InitOK, PTL

\* The inductive invariant holds.
THEOREM EngineIsSafe == EngineSpec => []EngineInv
<1>1. EngineInv /\ [EngineNext]_engineVars => EngineInv'
  <2> SUFFICES ASSUME EngineInv, [EngineNext]_engineVars PROVE EngineInv'
    OBVIOUS
  <2>1. CASE UNCHANGED engineVars
    <3>1. UNCHANGED <<phase, ctx, cursor, slices, next, split, lvl>>
      BY <2>1 DEF engineVars
    <3>2. ContextOK' /\ PhaseOK' /\ CursorsOK'
      BY <3>1 DEF EngineInv, ContextOK, PhaseOK, CursorsOK, Book
    <3>3. SlicesOK' /\ SlicesSorted'
      BY <3>1 DEF EngineInv, SlicesOK, SlicesSorted
    <3>4. MergeOK'
      BY <3>1 DEF EngineInv, MergeOK, CursorTicks, EffectiveTicks, PenaltyTicks, Book
    <3>5. SplitOK' /\ LegsOK'
      BY <3>1 DEF EngineInv, SplitOK, LegsOK
    <3> QED BY <3>2, <3>3, <3>4, <3>5 DEF EngineInv
  <2> QED BY <2>1, AskStep, OpenStep, MergeStep, MergedStep, FillStep, FilledStep,
             PlaceStep, ReturnStep DEF EngineNext
<1> QED BY <1>1, InitOK, PTL DEF EngineSpec

-----------------------------------------------------------------------------
(* What follows                                                            *)

\* The registers of a decision keep their types; no slice is empty and there
\* are never more than kMaxChildOrders (build_cost_slices, SplitWorkspace).
THEOREM EngineTyped == EngineSpec => []EngineTypeOK
<1>1. EngineInv => EngineTypeOK
  BY DEF EngineInv, ContextOK, PhaseOK, CursorsOK, SlicesOK, LegsOK, EngineTypeOK
<1> QED BY <1>1, EngineIsSafe, PTL

\* The merge of build_cost_slices emits its slices in the order of rising
\* effective price.
THEOREM MergeIsSorted == EngineSpec => []SlicesSorted
<1>1. EngineInv => SlicesSorted
  BY DEF EngineInv
<1> QED BY <1>1, EngineIsSafe, PTL

\* Every split that calculate_optimal_split and calculate_maker_placement
\* return takes the target down step by step, to no less than zero.
THEOREM LegsKeepContract == EngineSpec => []KeepsContract
<1>1. EngineInv => KeepsContract
  <2> SUFFICES ASSUME EngineInv, phase = "done"
               PROVE  /\ DOMAIN split.rem = 0..split.count /\ DOMAIN split.ex = 1..split.count
                      /\ split.rem[0] = ctx.target /\ Decreasing(split.rem, split.count)
                      /\ \A j \in 0..split.count : split.rem[j] >= 0
                      /\ \A j \in 1..split.count : split.ex[j] \in Exchanges
                      /\ split.count <= kMaxChildOrders
                      /\ ctx.type = "MAKER" =>
                           split.count <= 1 /\ (split.count = 1 => Remaining = 0)
    BY DEF KeepsContract
  <2>1. SplitOK /\ LegsOK /\ ctx.target \in Nat
    BY DEF EngineInv, ContextOK
  <2>2. \A j \in 0..split.count : split.rem[j] >= 0
    BY <2>1 DEF SplitOK
  <2>3. /\ split.count <= kMaxChildOrders
        /\ ctx.type = "MAKER" => split.count <= 1 /\ (split.count = 1 => Remaining = 0)
    BY <2>1 DEF LegsOK, Remaining
  <2> QED BY <2>1, <2>2, <2>3 DEF SplitOK
<1> QED BY <1>1, EngineIsSafe, PTL

\* The split is one of those that RoutingContract lets the execution core
\* expect when books may be thin.
ContractKept ==
  phase = "done" /\ Liquidity = "thin" =>
    split \in (IF ctx.type = "MAKER" THEN MakerSplits(ctx.target) ELSE OptimalSplits(ctx.target))

\* The algorithm returns only splits of RoutingContract, the contract that the
\* model and the proofs of the execution core are built on.
THEOREM EngineImplementsContract == EngineSpec => []ContractKept
<1>1. EngineInv => ContractKept
  <2> SUFFICES ASSUME EngineInv, phase = "done", Liquidity = "thin"
               PROVE  split \in (IF ctx.type = "MAKER" THEN MakerSplits(ctx.target)
                                                       ELSE OptimalSplits(ctx.target))
    BY DEF ContractKept
  <2> DEFINE n == split.count
  <2>1. /\ split = [count |-> n, rem |-> split.rem, ex |-> split.ex]
        /\ n \in Nat /\ split.rem \in [0..n -> 0..ctx.target] /\ split.rem[0] = ctx.target
        /\ Decreasing(split.rem, n) /\ split.ex \in [1..n -> Exchanges]
        /\ ctx.target \in Nat \ {0} /\ n <= kMaxChildOrders
    BY DEF EngineInv, SplitOK, LegsOK, ContextOK
  <2>2. CASE n = 0
    <3>1. 0..0 = {0} /\ 1..0 = {}
      OBVIOUS
    <3>2. split.rem = [k \in {0} |-> ctx.target]
      BY <2>1, <2>2, <3>1
    <3>3. split.ex = [k \in 1..0 |-> 0]
      BY <2>1, <2>2, <3>1
    <3>4. split = NoLegs(ctx.target)
      BY <2>1, <2>2, <3>2, <3>3 DEF NoLegs
    <3> QED BY <2>1, <3>4 DEF MakerSplits, OptimalSplits
  <2>3. CASE n # 0 /\ ctx.type = "MAKER"
    <3>1. n = 1 /\ split.rem[1] = 0
      BY <2>1, <2>3 DEF EngineInv, LegsOK
    <3>2. 0..1 = {0, 1} /\ 1..1 = {1}
      OBVIOUS
    <3>3. split.rem = [k \in 0..1 |-> IF k = 0 THEN ctx.target ELSE 0]
      BY <2>1, <3>1, <3>2
    <3>4. split.ex[1] \in Exchanges /\ split.ex = [k \in {1} |-> split.ex[1]]
      BY <2>1, <3>1, <3>2
    <3>5. split = [count |-> 1, rem |-> [k \in 0..1 |-> IF k = 0 THEN ctx.target ELSE 0],
                   ex |-> [k \in {1} |-> split.ex[1]]]
      BY <2>1, <3>1, <3>3, <3>4
    <3>6. split \in MakerSplits(ctx.target)
      BY <3>4, <3>5 DEF MakerSplits
    <3> QED BY <2>3, <3>6
  <2>4. CASE n # 0 /\ ctx.type # "MAKER"
    <3>1. split \in SplitsOf(ctx.target, n)
      BY <2>1 DEF SplitsOf
    <3>2. n \in 1..kMaxChildOrders
      BY <2>1, <2>4, RoutingAssumption
    <3>3. split \in OptimalSplits(ctx.target)
      BY <2>1, <3>1, <3>2 DEF OptimalSplits
    <3> QED BY <2>4, <3>3
  <2> QED BY <2>2, <2>3, <2>4
<1> QED BY <1>1, EngineIsSafe, PTL

-----------------------------------------------------------------------------
(* Where the legs come from.  A second invariant says that the merge skips  *)
(* no usable level, that every slice is what its level gives, and what      *)
(* became of every slice that greedy_fill has looked at.                    *)

\* Slice s is what its level gives.
IsLevel(s) ==
  /\ s.lvl \in 1..Book(s.ex).n
  /\ s.eff = EffectiveTicks(s.ex, s.lvl)
  /\ s.lots = SliceLots(s.ex, s.lvl)
  /\ ~BeyondLimit(s.ex, s.lvl)

SlicesTrue ==
  /\ \A n \in 1..Len(slices) : IsLevel(slices[n])
  /\ \A m, n \in 1..Len(slices) :
       m < n /\ slices[m].ex = slices[n].ex => slices[m].lvl < slices[n].lvl

CursorsTrue ==
  phase = "merge" =>
    \A e \in Exchanges :
      cursor[e] # 0 => /\ ~BeyondLimit(e, cursor[e])
                       /\ \A n \in 1..Len(slices) : slices[n].ex = e => slices[n].lvl < cursor[e]

\* Level k of exchange e has become a slice, unless it gives nothing.
Given(e, k) ==
  SliceLots(e, k) = 0 \/ \E n \in 1..Len(slices) : slices[n].ex = e /\ slices[n].lvl = k

NothingSkipped ==
  /\ phase = "merge" =>
       \A e \in Exchanges, k \in Nat :
         Usable(e, k) => (cursor[e] # 0 /\ cursor[e] <= k) \/ Given(e, k)
  /\ phase \in {"fill", "done"} /\ ctx.type = "TAKER" =>
       \A e \in Exchanges, k \in Nat :
         Usable(e, k) => \/ \A n \in 1..Len(slices) : slices[n].eff <= EffectiveTicks(e, k)
                         \/ Given(e, k)

Leg(j) == split.rem[j - 1] - split.rem[j]
LegTicks(j) == EffectiveTicks(split.ex[j], lvl[j])
LegOf(j, s) == split.ex[j] = s.ex /\ lvl[j] = s.lvl

\* What became of slice s: it was taken in full, or is too small to be traded, or what
\* was left of the order was, or it was the last one that the order needed.
Handled(s) ==
  \/ \E j \in 1..split.count : LegOf(j, s) /\ Leg(j) = s.lots
  \/ s.lots < MinCanonicalLots(s.ex)
  \/ \E j \in 0..split.count : /\ split.rem[j] < MinCanonicalLots(s.ex)
                               /\ \A i \in 1..j : LegTicks(i) <= s.eff
  \/ split.rem[split.count] = 0 /\ \A i \in 1..split.count : LegTicks(i) <= s.eff

\* The legs are at levels within the limit.
LegsPriced ==
  \A j \in 1..split.count : /\ lvl[j] \in 1..Book(split.ex[j]).n
                            /\ ~BeyondLimit(split.ex[j], lvl[j])

LegsTrue ==
  phase \in {"fill", "done"} /\ ctx.type = "TAKER" =>
    /\ \A j \in 1..split.count : /\ Leg(j) >= MinCanonicalLots(split.ex[j])
                                 /\ \E n \in 1..(next - 1) : LegOf(j, slices[n])
    /\ \A i, j \in 1..split.count : split.ex[i] = split.ex[j] /\ lvl[i] = lvl[j] => i = j
    /\ \A n \in 1..(next - 1) : Handled(slices[n])

TraceInv == SlicesTrue /\ CursorsTrue /\ NothingSkipped /\ LegsPriced /\ LegsTrue

\* The level that seek_next_valid finds is within the limit, and it passes no usable one.
LEMMA SeekFinds ==
  ASSUME ContextOK, NEW e \in Exchanges, NEW from \in Nat \ {0}
  PROVE  /\ SeekNextValid(e, from) # 0 => ~BeyondLimit(e, SeekNextValid(e, from))
         /\ \A k \in Nat : Usable(e, k) /\ from <= k =>
              SeekNextValid(e, from) # 0 /\ SeekNextValid(e, from) <= k
<1> DEFINE stops == {k \in from..Book(e).n : BeyondLimit(e, k) \/ Book(e).qty[k] >= MinLots(e)}
           first == CHOOSE k \in stops : \A j \in stops : k <= j
<1>1. SeekNextValid(e, from) =
        IF stops = {} THEN 0 ELSE IF BeyondLimit(e, first) THEN 0 ELSE first
  BY Zenon DEF SeekNextValid
<1>2. Book(e).n \in Nat
  BY DEF ContextOK, BookOK
<1>3. CASE stops = {}
  <2>1. ASSUME NEW k \in Nat, Usable(e, k), from <= k PROVE FALSE
    <3>1. k \in from..Book(e).n /\ Book(e).qty[k] >= MinLots(e)
      BY <1>2, <2>1 DEF Usable
    <3> QED BY <1>3, <3>1
  <2> QED BY <1>1, <1>3, <2>1
<1>4. CASE stops # {}
  <2>1. stops \subseteq Nat
    BY <1>2
  <2>2. \E k \in stops : \A j \in stops : k <= j
    BY <1>4, <2>1, LeastNatural, Zenon
  <2>3. first \in stops /\ \A j \in stops : first <= j
    BY <2>2, Zenon
  <2>4. first \in from..Book(e).n
    BY <2>3
  <2>5. ASSUME NEW k \in Nat, Usable(e, k), from <= k
        PROVE  first <= k /\ ~BeyondLimit(e, first) /\ first # 0
    <3>1. k \in from..Book(e).n /\ Book(e).qty[k] >= MinLots(e)
      BY <1>2, <2>5 DEF Usable
    <3>2. k \in stops
      BY <3>1
    <3>3. first <= k
      BY <2>3, <3>2
    <3> HIDE DEF stops, first
    <3>4. first \in 1..k
      BY <1>2, <2>4, <3>3
    <3> QED BY <2>5, <3>3, <3>4 DEF Usable
  <2> HIDE DEF stops, first
  <2> QED BY <1>1, <1>4, <2>5
<1> QED BY <1>3, <1>4

\* What depends on the inputs of the decision only.
LEMMA SameContext ==
  ASSUME ctx' = ctx
  PROVE  /\ \A e \in Exchanges : Book(e)' = Book(e) /\ MinCanonicalLots(e)' = MinCanonicalLots(e)
         /\ \A e \in Exchanges, k \in Nat :
              /\ EffectiveTicks(e, k)' = EffectiveTicks(e, k)
              /\ SliceLots(e, k)' = SliceLots(e, k)
              /\ BeyondLimit(e, k)' <=> BeyondLimit(e, k)
              /\ Usable(e, k)' <=> Usable(e, k)
<1>1. ASSUME NEW e \in Exchanges
      PROVE  Book(e)' = Book(e) /\ MinCanonicalLots(e)' = MinCanonicalLots(e)
             /\ PenaltyTicks(e)' = PenaltyTicks(e)
  BY DEF Book, MinCanonicalLots, PenaltyTicks
<1>2. ASSUME NEW e \in Exchanges, NEW k \in Nat
      PROVE  /\ EffectiveTicks(e, k)' = EffectiveTicks(e, k)
             /\ SliceLots(e, k)' = SliceLots(e, k)
             /\ BeyondLimit(e, k)' <=> BeyondLimit(e, k)
  BY <1>1 DEF EffectiveTicks, SliceLots, BeyondLimit, LimitTicks, Worse
<1>3. ASSUME NEW e \in Exchanges, NEW k \in Nat PROVE Usable(e, k)' <=> Usable(e, k)
  <2>1. \A j \in 1..k : BeyondLimit(e, j)' <=> BeyondLimit(e, j)
    BY <1>2
  <2> QED BY <1>1, <2>1 DEF Usable
<1> QED BY <1>1, <1>2, <1>3

LEMMA SliceTypes ==
  ASSUME SlicesOK
  PROVE  /\ Len(slices) \in Nat
         /\ \A n \in 1..Len(slices) : /\ slices[n].ex \in Exchanges /\ slices[n].eff \in Int
                                      /\ slices[n].lots \in Nat \ {0}
                                      /\ slices[n].lvl \in Nat \ {0}
<1>1. Len(slices) \in Nat /\ \A n \in 1..Len(slices) :
        slices[n] \in [eff : Int, lots : Nat \ {0}, ex : Exchanges, lvl : Nat \ {0}]
  <2> DEFINE T == [eff : Int, lots : Nat \ {0}, ex : Exchanges, lvl : Nat \ {0}]
  <2>1. slices \in Seq(T)
    BY DEF SlicesOK
  <2> HIDE DEF T
  <2>2. Len(slices) \in Nat /\ \A n \in 1..Len(slices) : slices[n] \in T
    BY <2>1, SeqElements
  <2> QED BY <2>2 DEF T
<1> QED BY <1>1

\* Slices stay true as long as they and the inputs do not change.
LEMMA SlicesKept ==
  ASSUME SlicesOK, SlicesTrue, ctx' = ctx, slices' = slices
  PROVE  SlicesTrue'
<1>1. ASSUME NEW n \in 1..Len(slices) PROVE IsLevel(slices[n])'
  <2>1. IsLevel(slices[n]) /\ slices[n].ex \in Exchanges /\ slices[n].lvl \in Nat
    BY SliceTypes DEF SlicesTrue
  <2> QED BY <2>1, SameContext DEF IsLevel
<1> QED BY <1>1 DEF SlicesTrue

\* So do the legs.
LEMMA PricedKept ==
  ASSUME SplitOK, ContextOK, LegsPriced, ctx' = ctx, split' = split, lvl' = lvl
  PROVE  LegsPriced'
<1>1. ASSUME NEW j \in 1..split.count
      PROVE  lvl[j] \in 1..Book(split.ex[j])'.n /\ ~BeyondLimit(split.ex[j], lvl[j])'
  <2>1. /\ split.ex[j] \in Exchanges /\ lvl[j] \in 1..Book(split.ex[j]).n
        /\ ~BeyondLimit(split.ex[j], lvl[j])
    BY DEF SplitOK, LegsPriced
  <2>2. lvl[j] \in Nat
    BY <2>1 DEF ContextOK, BookOK
  <2> QED BY <2>1, <2>2, SameContext
<1> QED BY <1>1 DEF LegsPriced

\* A state without slices and legs.
Untouched == slices = <<>> /\ split.count = 0 /\ phase \in {"idle", "open", "place"}

LEMMA NothingYet == Untouched => TraceInv
BY DEF Untouched, TraceInv, SlicesTrue, CursorsTrue, NothingSkipped, LegsPriced, LegsTrue

LEMMA OpenTrace ==
  ASSUME EngineInv, EngineInv', OpenCursors
  PROVE  TraceInv'
<1>1. /\ phase = "open" /\ phase' = "merge" /\ slices' = <<>> /\ ctx' = ctx /\ split' = split
      /\ cursor' = [e \in Exchanges |-> IF Book(e).ok THEN SeekNextValid(e, 1) ELSE 0]
  BY DEF OpenCursors
<1>2. ContextOK /\ split.count = 0
  BY <1>1 DEF EngineInv, LegsOK
<1>3. CursorsTrue'
  <2> SUFFICES ASSUME NEW e \in Exchanges, cursor'[e] # 0 PROVE ~BeyondLimit(e, cursor[e])'
    BY <1>1 DEF CursorsTrue
  <2>1. cursor'[e] = SeekNextValid(e, 1)
    BY <1>1
  <2>2. PICK k \in Nat : k = cursor'[e]
    BY <1>2, <2>1, SeekForward DEF ContextOK, BookOK
  <2>3. ~BeyondLimit(e, k)
    BY <1>2, <2>1, <2>2, SeekFinds
  <2>4. ~BeyondLimit(e, k)'
    BY <1>1, <2>3, SameContext
  <2> QED BY <2>2, <2>4
<1>4. NothingSkipped'
  <2> SUFFICES ASSUME NEW e \in Exchanges, NEW k \in Nat, Usable(e, k)'
               PROVE  cursor'[e] # 0 /\ cursor'[e] <= k
    BY <1>1 DEF NothingSkipped
  <2>1. Usable(e, k)
    BY <1>1, SameContext
  <2>2. Book(e).ok /\ 1 <= k
    BY <1>2, <2>1 DEF Usable, ContextOK, BookOK
  <2> QED BY <1>1, <1>2, <2>1, <2>2, SeekFinds
<1> QED BY <1>1, <1>2, <1>3, <1>4 DEF TraceInv, SlicesTrue, LegsPriced, LegsTrue

LEMMA MergedTrace ==
  ASSUME EngineInv, TraceInv, Merged
  PROVE  TraceInv'
<1>1. /\ phase = "merge" /\ phase' = "fill"
      /\ UNCHANGED <<ctx, cursor, slices, next, split, lvl>>
  BY DEF Merged
<1>2. /\ ContextOK /\ SlicesOK /\ MergeOK /\ CursorsOK /\ split.count = 0 /\ next = 1
      /\ ctx.type = "TAKER" /\ SplitOK
  BY <1>1 DEF EngineInv, LegsOK, PhaseOK
<1>3. SlicesTrue'
  BY <1>1, <1>2, SlicesKept DEF TraceInv
<1>4. NothingSkipped'
  <2> SUFFICES ASSUME NEW e \in Exchanges, NEW k \in Nat, Usable(e, k)'
               PROVE  \/ \A n \in 1..Len(slices)' : (slices[n].eff <= EffectiveTicks(e, k))'
                      \/ Given(e, k)'
    BY <1>1 DEF NothingSkipped
  <2>1. Usable(e, k) /\ EffectiveTicks(e, k)' = EffectiveTicks(e, k)
    BY <1>1, SameContext
  <2>2. CASE Given(e, k)
    BY <1>1, <2>2, SameContext DEF Given
  <2>3. CASE cursor[e] # 0 /\ cursor[e] <= k
    <3>1. cursor[e] \in 1..Book(e).n /\ k \in 1..Book(e).n
      BY <1>2, <2>1, <2>3 DEF CursorsOK, Usable
    <3>2. /\ EffectiveTicks(e, cursor[e]) \in Int /\ EffectiveTicks(e, k) \in Int
          /\ EffectiveTicks(e, cursor[e]) <= EffectiveTicks(e, k)
      <4>1. EffectiveTicks(e, cursor[e]) \in Int /\ EffectiveTicks(e, k) \in Int
        BY <1>2, <3>1, TicksRise
      <4>2. CASE cursor[e] = k
        BY <4>1, <4>2
      <4>3. CASE cursor[e] # k
        <5>1. cursor[e] < k
          BY <1>2, <2>3, <4>3 DEF CursorsOK
        <5> QED BY <1>2, <3>1, <4>1, <5>1, TicksRise
      <4> QED BY <4>1, <4>2, <4>3
    <3>3. \A n \in 1..Len(slices) : slices[n].eff \in Int /\ slices[n].eff <= CursorTicks(e)
      BY <1>1, <1>2, <2>3, SliceTypes DEF MergeOK
    <3>4. \A n \in 1..Len(slices) : slices[n].eff <= EffectiveTicks(e, k)
      BY <3>2, <3>3 DEF CursorTicks
    <3> QED BY <1>1, <2>1, <3>4
  <2> QED BY <1>1, <2>1, <2>2, <2>3 DEF TraceInv, NothingSkipped
<1> QED BY <1>1, <1>2, <1>3, <1>4 DEF TraceInv, CursorsTrue, LegsPriced, LegsTrue

\* One round of the merge keeps all that.
LEMMA MergeTrace ==
  ASSUME EngineInv, EngineInv', TraceInv, Merge
  PROVE  TraceInv'
<1>1. PICK e \in Open :
        /\ slices' = EmitSlice(e)
        /\ cursor' = [cursor EXCEPT ![e] = SeekNextValid(e, cursor[e] + 1)]
  BY DEF Merge
<1>2. phase = "merge" /\ UNCHANGED <<phase, ctx, next, split, lvl>>
  BY DEF Merge
<1>3. /\ ContextOK /\ CursorsOK /\ SlicesOK /\ split.count = 0 /\ ctx.type = "TAKER"
      /\ SlicesTrue /\ CursorsTrue /\ NothingSkipped
  BY <1>2 DEF EngineInv, TraceInv, LegsOK, PhaseOK
<1>4. e \in Exchanges /\ cursor[e] \in 1..Book(e).n /\ cursor \in [Exchanges -> Nat]
      /\ Book(e).n \in Nat /\ cursor[e] \in Nat \ {0}
  BY <1>3 DEF Open, CursorsOK, ContextOK, BookOK
<1> DEFINE c == cursor[e]
           s == [eff |-> CursorTicks(e), lots |-> SliceLots(e, c), ex |-> e, lvl |-> c]
<1>5. ~BeyondLimit(e, c)
  BY <1>2, <1>3, <1>4 DEF CursorsTrue
<1>6. /\ s.ex = e /\ s.lvl = c /\ s.eff = EffectiveTicks(e, c) /\ s.lots = SliceLots(e, c)
  BY DEF CursorTicks
<1>7. /\ cursor'[e] = SeekNextValid(e, c + 1) /\ cursor' \in [Exchanges -> Nat]
      /\ \A f \in Exchanges \ {e} : cursor'[f] = cursor[f]
      /\ cursor'[e] # 0 => cursor'[e] >= c + 1 /\ ~BeyondLimit(e, cursor'[e])
  <2>1. c + 1 \in Nat \ {0}
    BY <1>4
  <2>2. /\ SeekNextValid(e, c + 1) \in 0..Book(e).n
        /\ SeekNextValid(e, c + 1) # 0 => /\ SeekNextValid(e, c + 1) >= c + 1
                                          /\ ~BeyondLimit(e, SeekNextValid(e, c + 1))
    BY <1>3, <1>4, <2>1, SeekForward, SeekFinds
  <2> QED BY <1>1, <1>4, <2>2
<1>8. SlicesOK' /\ Len(slices) \in Nat
  BY <1>3, SliceTypes DEF EngineInv
\* The slices are the old ones and, unless the level gives nothing, s at the end.
<1>9. \/ slices' = slices /\ SliceLots(e, c) = 0
      \/ /\ Len(slices') = Len(slices) + 1 /\ slices'[Len(slices) + 1] = s
         /\ \A n \in 1..Len(slices) : slices'[n] = slices[n]
  <2>1. CASE SliceLots(e, c) = 0
    BY <1>1, <2>1 DEF EmitSlice
  <2>2. CASE SliceLots(e, c) # 0
    <3>1. slices' = Append(slices, s)
      BY <1>1, <2>2 DEF EmitSlice
    <3> HIDE DEF s
    <3> QED BY <1>3, <3>1 DEF SlicesOK
  <2> QED BY <2>1, <2>2
<1> HIDE DEF s, c
<1>10. \A n \in 1..Len(slices') : \/ n \in 1..Len(slices) /\ slices'[n] = slices[n]
                                  \/ n = Len(slices) + 1 /\ slices'[n] = s
  BY <1>8, <1>9
<1>11. \A n \in 1..Len(slices) : n \in 1..Len(slices') /\ slices'[n] = slices[n]
  BY <1>8, <1>9
<1>12. c \in Nat \ {0} /\ c \in 1..Book(e).n /\ c = cursor[e]
  BY <1>4 DEF c
<1>13. \A n \in 1..Len(slices) : slices[n].ex = e => slices[n].lvl < c
  BY <1>2, <1>3, <1>4, <1>12 DEF CursorsTrue
<1>14. SlicesTrue'
  <2>1. ASSUME NEW n \in 1..Len(slices') PROVE IsLevel(slices[n])'
    <3>1. CASE n \in 1..Len(slices) /\ slices'[n] = slices[n]
      <4>1. IsLevel(slices[n]) /\ slices[n].ex \in Exchanges /\ slices[n].lvl \in Nat
        BY <1>3, <3>1, SliceTypes DEF SlicesTrue
      <4> QED BY <1>2, <3>1, <4>1, SameContext DEF IsLevel
    <3>2. CASE slices'[n] = s
      BY <1>2, <1>4, <1>5, <1>6, <1>12, <3>2, SameContext DEF IsLevel
    <3> QED BY <1>10, <2>1, <3>1, <3>2
  <2>2. ASSUME NEW m \in 1..Len(slices'), NEW n \in 1..Len(slices'), m < n,
               slices'[m].ex = slices'[n].ex
        PROVE  slices'[m].lvl < slices'[n].lvl
    <3>1. m \in 1..Len(slices) /\ slices'[m] = slices[m]
      BY <1>8, <1>10, <1>9, <2>2
    <3>2. CASE n \in 1..Len(slices)
      BY <1>3, <1>11, <2>2, <3>1, <3>2 DEF SlicesTrue
    <3>3. CASE slices'[n] = s
      BY <1>6, <1>13, <2>2, <3>1, <3>3
    <3> QED BY <1>10, <3>2, <3>3
  <2> QED BY <2>1, <2>2 DEF SlicesTrue
<1>15. CursorsTrue'
  <2> SUFFICES ASSUME NEW f \in Exchanges, cursor'[f] # 0
               PROVE  /\ ~BeyondLimit(f, cursor[f])'
                      /\ \A n \in 1..Len(slices') : slices'[n].ex = f => slices'[n].lvl < cursor'[f]
    BY DEF CursorsTrue
  <2>1. cursor'[f] \in Nat
    BY <1>7
  <2>2. ~BeyondLimit(f, cursor'[f])
    BY <1>2, <1>3, <1>7 DEF CursorsTrue
  <2>3. ~BeyondLimit(f, cursor[f])'
    <3>1. PICK k \in Nat : k = cursor'[f]
      BY <2>1
    <3>2. ~BeyondLimit(f, k)'
      BY <1>2, <2>2, <3>1, SameContext
    <3> QED BY <3>1, <3>2
  <2>4. ASSUME NEW n \in 1..Len(slices'), slices'[n].ex = f PROVE slices'[n].lvl < cursor'[f]
    <3>1. CASE f = e
      <4>1. slices'[n].lvl \in Nat /\ slices'[n].lvl <= c
        <5>1. slices'[n].lvl \in Nat
          BY <1>3, <1>6, <1>10, <1>12, SliceTypes
        <5> QED BY <1>6, <1>10, <1>12, <1>13, <2>4, <3>1, <5>1
      <4> QED BY <1>7, <1>12, <2>1, <3>1, <4>1
    <3>2. CASE f # e
      <4>1. n \in 1..Len(slices) /\ slices'[n] = slices[n]
        BY <1>6, <1>10, <2>4, <3>2
      <4> QED BY <1>2, <1>3, <1>7, <2>4, <3>2, <4>1 DEF CursorsTrue
    <3> QED BY <3>1, <3>2
  <2> QED BY <2>3, <2>4
<1>16. NothingSkipped'
  <2> SUFFICES ASSUME NEW f \in Exchanges, NEW k \in Nat, Usable(f, k)'
               PROVE  (cursor'[f] # 0 /\ cursor'[f] <= k) \/ Given(f, k)'
    BY <1>2 DEF NothingSkipped
  <2>1. Usable(f, k) /\ SliceLots(f, k)' = SliceLots(f, k)
    BY <1>2, SameContext
  <2>2. CASE Given(f, k)
    <3>1. CASE SliceLots(f, k) = 0
      BY <2>1, <3>1 DEF Given
    <3>2. CASE \E n \in 1..Len(slices) : slices[n].ex = f /\ slices[n].lvl = k
      BY <1>11, <3>2 DEF Given
    <3> QED BY <2>2, <3>1, <3>2 DEF Given
  <2>3. CASE cursor[f] # 0 /\ cursor[f] <= k /\ f # e
    BY <1>7, <2>3
  <2>4. CASE f = e /\ c < k
    <3>1. c + 1 \in Nat \ {0} /\ c + 1 <= k
      BY <1>12, <2>4
    <3> QED BY <1>3, <1>4, <1>7, <2>1, <2>4, <3>1, SeekFinds
  <2>5. CASE f = e /\ c = k
    <3>1. CASE SliceLots(e, c) = 0
      BY <2>1, <2>5, <3>1 DEF Given
    <3>2. CASE SliceLots(e, c) # 0
      <4>1. Len(slices) + 1 \in 1..Len(slices') /\ slices'[Len(slices) + 1] = s
        BY <1>8, <1>9, <3>2
      <4> QED BY <1>6, <2>5, <4>1 DEF Given
    <3> QED BY <3>1, <3>2
  <2>6. \/ Given(f, k) \/ (cursor[f] # 0 /\ cursor[f] <= k)
    BY <1>2, <1>3, <2>1 DEF NothingSkipped
  <2>7. f = e /\ cursor[f] <= k => c < k \/ c = k
    BY <1>12
  <2> QED BY <2>2, <2>3, <2>4, <2>5, <2>6, <2>7
<1> QED BY <1>2, <1>3, <1>14, <1>15, <1>16 DEF TraceInv, LegsPriced, LegsTrue

\* A further leg leaves the others alone.
LEMMA LegAdded ==
  ASSUME SplitOK, NEW q, NEW e, NEW k, AddLeg(q, e, k)
  PROVE  /\ split.count \in Nat /\ split'.count = split.count + 1
         /\ \A j \in 0..split.count : split'.rem[j] = split.rem[j]
         /\ \A j \in 1..split.count : split'.ex[j] = split.ex[j] /\ lvl'[j] = lvl[j]
         /\ split'.rem[split.count + 1] = Remaining - q
         /\ split'.ex[split.count + 1] = e /\ lvl'[split.count + 1] = k
<1> DEFINE n == split.count + 1
<1>1. split.count \in Nat
  BY DEF SplitOK
<1>2. /\ split'.count = n
      /\ split'.rem = [j \in 0..n |-> IF j = n THEN Remaining - q ELSE split.rem[j]]
      /\ split'.ex = [j \in 1..n |-> IF j = n THEN e ELSE split.ex[j]]
      /\ lvl' = [j \in 1..n |-> IF j = n THEN k ELSE lvl[j]]
  BY DEF AddLeg
<1>3. /\ n \in Nat /\ n \in 0..n /\ n \in 1..n
      /\ \A j \in 0..split.count : j \in 0..n /\ j # n
      /\ \A j \in 1..split.count : j \in 1..n /\ j # n
  BY <1>1
<1>4. split'.count = split.count + 1 /\ n = split.count + 1
  BY <1>2
<1> HIDE DEF n
<1> QED BY <1>1, <1>2, <1>3, <1>4

\* Leg j of a taker's split is where its slice is, and no dearer than the next slice.
LEMMA LegBelow ==
  ASSUME EngineInv, TraceInv, phase = "fill", ~FillDone, NEW j \in 1..split.count
  PROVE  /\ split.ex[j] \in Exchanges /\ lvl[j] \in Nat
         /\ LegTicks(j) \in Int /\ LegTicks(j) <= slices[next].eff
         /\ ~(LegOf(j, slices[next]))
<1>1. /\ ContextOK /\ SlicesOK /\ SlicesSorted /\ SplitOK /\ next \in 1..(Len(slices) + 1)
      /\ ctx.type = "TAKER" /\ SlicesTrue /\ LegsTrue /\ LegsPriced
  BY DEF EngineInv, TraceInv, LegsOK, PhaseOK
<1>2. Len(slices) \in Nat /\ next \in 1..Len(slices)
  BY <1>1, SliceTypes DEF FillDone
<1>3. PICK n \in 1..(next - 1) : LegOf(j, slices[n])
  BY <1>1 DEF LegsTrue
<1>4. n \in 1..Len(slices) /\ n < next
  BY <1>2
<1>5. /\ IsLevel(slices[n]) /\ slices[n].ex \in Exchanges /\ slices[n].eff \in Int
      /\ slices[n].lvl \in Nat /\ slices[n].eff <= slices[next].eff
      /\ slices[n].ex = slices[next].ex => slices[n].lvl < slices[next].lvl
  BY <1>1, <1>2, <1>4, SliceTypes DEF SlicesTrue, SlicesSorted
<1>6. LegTicks(j) = slices[n].eff
  BY <1>3, <1>5 DEF LegTicks, LegOf, IsLevel
<1>7. ~LegOf(j, slices[next])
  <2> SUFFICES ASSUME LegOf(j, slices[next]) PROVE FALSE
    OBVIOUS
  <2>1. slices[n].ex = slices[next].ex /\ slices[n].lvl = slices[next].lvl
    BY <1>3 DEF LegOf
  <2> QED BY <1>5, <2>1
<1> QED BY <1>3, <1>5, <1>6, <1>7 DEF LegOf

LEMMA FillTrace ==
  ASSUME EngineInv, EngineInv', TraceInv, Fill
  PROVE  TraceInv'
<1>1. /\ phase = "fill" /\ ~FillDone /\ next' = next + 1
      /\ phase' = phase /\ ctx' = ctx /\ cursor' = cursor /\ slices' = slices
  BY DEF Fill
<1>2. /\ ContextOK /\ SlicesOK /\ SplitOK /\ next \in 1..(Len(slices) + 1)
      /\ ctx.type = "TAKER" /\ SlicesTrue /\ LegsTrue /\ LegsPriced /\ NothingSkipped
  BY <1>1 DEF EngineInv, TraceInv, LegsOK, PhaseOK
<1>3. Len(slices) \in Nat /\ next \in 1..Len(slices) /\ Remaining # 0
  BY <1>1, <1>2, SliceTypes DEF FillDone
<1>4. PICK s : s = slices[next]
  OBVIOUS
<1>5. /\ s.ex \in Exchanges /\ s.eff \in Int /\ s.lots \in Nat \ {0} /\ s.lvl \in Nat
      /\ IsLevel(s)
  BY <1>2, <1>3, <1>4, SliceTypes DEF SlicesTrue
<1>6. /\ split.count \in Nat /\ Remaining = split.rem[split.count] /\ Remaining \in Nat
      /\ \A j \in 0..split.count : split.rem[j] \in Int
  BY <1>2 DEF SplitOK, ContextOK, Remaining
<1>7. SlicesTrue'
  BY <1>1, <1>2, SlicesKept
<1>8. NothingSkipped'
  <2> SUFFICES ASSUME NEW e \in Exchanges, NEW k \in Nat, Usable(e, k)'
               PROVE  \/ \A n \in 1..Len(slices)' : (slices[n].eff <= EffectiveTicks(e, k))'
                      \/ Given(e, k)'
    BY <1>1 DEF NothingSkipped
  <2>1. /\ Usable(e, k) /\ EffectiveTicks(e, k)' = EffectiveTicks(e, k)
        /\ SliceLots(e, k)' = SliceLots(e, k)
    BY <1>1, SameContext
  <2>2. \/ \A n \in 1..Len(slices) : slices[n].eff <= EffectiveTicks(e, k)
        \/ Given(e, k)
    BY <1>1, <1>2, <2>1 DEF NothingSkipped
  <2> QED BY <1>1, <2>1, <2>2 DEF Given
<1>9. \A j \in 1..split.count : /\ split.ex[j] \in Exchanges /\ lvl[j] \in Nat
                                /\ LegTicks(j) \in Int /\ LegTicks(j) <= s.eff
                                /\ ~LegOf(j, s)
  BY <1>1, <1>4, LegBelow
<1>10. MinCanonicalLots(s.ex) \in Int /\ MinCanonicalLots(s.ex)' = MinCanonicalLots(s.ex)
  <2>1. MinQty[s.ex] \in Int /\ LotSize(ctx.instr) \in Nat \ {0}
    BY <1>5, EngineAssumption, LotSizeType
  <2> QED BY <1>1, <1>5, <2>1, RoundInt, SameContext DEF MinCanonicalLots
<1>11. \A n \in 1..(next' - 1) : n \in 1..(next - 1) \/ n = next
  BY <1>1, <1>3
<1>12. \A n \in 1..(next - 1) : /\ n \in 1..(next' - 1) /\ n \in 1..Len(slices)
                                /\ slices'[n] = slices[n]
  BY <1>1, <1>3
<1>13. next \in 1..(next' - 1) /\ slices'[next] = s
  BY <1>1, <1>3, <1>4
<1>14. CASE Tradable(FillLots(s), s.ex)
  <2>1. PICK q : q = FillLots(s)
    OBVIOUS
  <2>2. AddLeg(q, s.ex, s.lvl)
    BY <1>4, <1>14, <2>1 DEF Fill
  <2>3. /\ q \in Nat \ {0} /\ q >= MinCanonicalLots(s.ex)
        /\ q = s.lots \/ (q = Remaining /\ Remaining < s.lots)
    BY <1>3, <1>5, <1>6, <1>14, <2>1 DEF FillLots, Tradable
  <2>4. PICK n : n = split.count + 1
    OBVIOUS
  <2>5. /\ split'.count = n /\ n \in Nat \ {0}
        /\ \A j \in 0..split.count : split'.rem[j] = split.rem[j]
        /\ \A j \in 1..split.count : split'.ex[j] = split.ex[j] /\ lvl'[j] = lvl[j]
        /\ split'.rem[n] = Remaining - q
        /\ split'.ex[n] = s.ex /\ lvl'[n] = s.lvl
    BY <1>2, <2>2, <2>4, LegAdded
  <2>6. /\ \A j \in 1..n : j \in 1..split.count \/ j = n
        /\ \A j \in 1..split.count : j \in 1..n /\ j # n
        /\ \A j \in 0..split.count : j \in 0..n
    BY <1>6, <2>4
  <2>7. \A j \in 1..split.count : /\ LegTicks(j)' = LegTicks(j) /\ Leg(j)' = Leg(j)
                                  /\ MinCanonicalLots(split.ex[j])' = MinCanonicalLots(split.ex[j])
    <3>1. ASSUME NEW j \in 1..split.count
          PROVE  /\ LegTicks(j)' = LegTicks(j) /\ Leg(j)' = Leg(j)
                 /\ MinCanonicalLots(split.ex[j])' = MinCanonicalLots(split.ex[j])
      <4>1. PICK e \in Exchanges, k \in Nat : e = split.ex[j] /\ k = lvl[j]
        BY <1>9
      <4>2. split'.ex[j] = e /\ lvl'[j] = k
        BY <2>5, <4>1
      <4>3. EffectiveTicks(e, k)' = EffectiveTicks(e, k) /\ MinCanonicalLots(e)' = MinCanonicalLots(e)
        BY <1>1, SameContext
      <4>4. j - 1 \in 0..split.count /\ j \in 0..split.count
        BY <1>6
      <4> QED BY <2>5, <4>1, <4>2, <4>3, <4>4 DEF LegTicks, Leg
    <3> QED BY <3>1
  <2>8. Leg(n)' = q
    <3>1. n - 1 = split.count /\ n - 1 \in 0..split.count
      BY <1>6, <2>4
    <3>2. split'.rem[n - 1] = Remaining
      BY <1>6, <2>5, <3>1
    <3> QED BY <1>6, <2>3, <2>5, <3>2 DEF Leg
  <2>9. LegTicks(n)' = s.eff
    BY <1>1, <1>5, <2>5, SameContext DEF LegTicks, IsLevel
  <2>10. \A j \in 1..n : LegTicks(j)' <= s.eff
    BY <1>5, <1>9, <2>6, <2>7, <2>9
  <2>11. LegsPriced'
    <3>1. ASSUME NEW j \in 1..n
          PROVE  lvl'[j] \in 1..Book(split.ex[j])'.n /\ ~BeyondLimit(split.ex[j], lvl[j])'
      <4>1. PICK e \in Exchanges, k \in Nat :
              /\ e = split'.ex[j] /\ k = lvl'[j]
              /\ k \in 1..Book(e).n /\ ~BeyondLimit(e, k)
        <5>1. CASE j = n
          BY <1>5, <2>5, <5>1 DEF IsLevel
        <5>2. CASE j \in 1..split.count
          BY <1>2, <1>9, <2>5, <5>2 DEF LegsPriced
        <5> QED BY <2>6, <5>1, <5>2
      <4>2. Book(e)' = Book(e) /\ ~BeyondLimit(e, k)'
        BY <1>1, <4>1, SameContext
      <4> QED BY <4>1, <4>2
    <3> QED BY <2>5, <3>1 DEF LegsPriced
  <2>12. ASSUME NEW j \in 1..n
         PROVE  /\ (Leg(j) >= MinCanonicalLots(split.ex[j]))'
                /\ \E m \in 1..(next' - 1) : LegOf(j, slices[m])'
    <3>1. CASE j = n
      <4>1. (Leg(j) >= MinCanonicalLots(split.ex[j]))'
        BY <1>10, <2>3, <2>5, <2>8, <3>1
      <4>2. PICK m \in 1..(next' - 1) : slices'[m] = s
        BY <1>13
      <4>3. LegOf(j, slices[m])'
        BY <2>5, <3>1, <4>2 DEF LegOf
      <4> QED BY <4>1, <4>3
    <3>2. CASE j \in 1..split.count
      <4>1. /\ Leg(j) >= MinCanonicalLots(split.ex[j])
            /\ \E m \in 1..(next - 1) : LegOf(j, slices[m])
        BY <1>1, <1>2, <3>2 DEF LegsTrue
      <4>2. PICK m \in 1..(next - 1) : LegOf(j, slices[m])
        BY <4>1
      <4>3. LegOf(j, slices[m])'
        BY <1>12, <2>5, <3>2, <4>2 DEF LegOf
      <4> QED BY <1>12, <2>5, <2>7, <3>2, <4>1, <4>3
    <3> QED BY <2>6, <3>1, <3>2
  <2>13. ASSUME NEW i \in 1..n, NEW j \in 1..n, split'.ex[i] = split'.ex[j], lvl'[i] = lvl'[j]
         PROVE  i = j
    <3>1. ASSUME NEW k \in 1..split.count PROVE ~(split'.ex[k] = s.ex /\ lvl'[k] = s.lvl)
      BY <1>9, <2>5 DEF LegOf
    <3>2. CASE i \in 1..split.count /\ j \in 1..split.count
      BY <1>1, <1>2, <2>5, <2>13, <3>2 DEF LegsTrue
    <3> QED BY <2>5, <2>6, <2>13, <3>1, <3>2
  <2>14. Handled(s)'
    <3>1. CASE q = s.lots
      <4>1. n \in 1..split'.count /\ LegOf(n, s)' /\ Leg(n)' = s.lots
        BY <2>5, <2>8, <3>1 DEF LegOf
      <4> QED BY <4>1 DEF Handled
    <3>2. CASE q = Remaining
      <4>1. split'.rem[split'.count] = 0
        BY <1>6, <2>5, <3>2
      <4> QED BY <2>5, <2>10, <4>1 DEF Handled
    <3> QED BY <2>3, <3>1, <3>2
  <2>15. ASSUME NEW m \in 1..(next - 1) PROVE Handled(slices[m])'
    <3>1. PICK t : t = slices[m]
      OBVIOUS
    <3>2. Handled(t) /\ t.ex \in Exchanges
      BY <1>1, <1>2, <1>12, <3>1, SliceTypes DEF LegsTrue
    <3>3. split.rem[split.count] # 0
      BY <1>3, <1>6
    <3>4. MinCanonicalLots(t.ex)' = MinCanonicalLots(t.ex)
      BY <1>1, <3>2, SameContext
    <3>5. CASE \E j \in 1..split.count : LegOf(j, t) /\ Leg(j) = t.lots
      <4>1. PICK j \in 1..split.count : LegOf(j, t) /\ Leg(j) = t.lots
        BY <3>5
      <4>2. j \in 1..split'.count /\ LegOf(j, t)' /\ Leg(j)' = t.lots
        BY <2>5, <2>6, <2>7, <4>1 DEF LegOf
      <4> QED BY <1>12, <3>1, <4>2 DEF Handled
    <3>6. CASE t.lots < MinCanonicalLots(t.ex)
      BY <1>12, <3>1, <3>4, <3>6 DEF Handled
    <3>7. CASE \E j \in 0..split.count : /\ split.rem[j] < MinCanonicalLots(t.ex)
                                         /\ \A i \in 1..j : LegTicks(i) <= t.eff
      <4>1. PICK j \in 0..split.count : /\ split.rem[j] < MinCanonicalLots(t.ex)
                                        /\ \A i \in 1..j : LegTicks(i) <= t.eff
        BY <3>7
      <4>2. \A i \in 1..j : i \in 1..split.count
        BY <1>6
      <4>3. \A i \in 1..j : LegTicks(i)' <= t.eff
        BY <2>7, <4>1, <4>2
      <4>4. j \in 0..split'.count /\ split'.rem[j] < MinCanonicalLots(t.ex)'
        BY <2>5, <2>6, <3>4, <4>1
      <4> QED BY <1>12, <3>1, <4>3, <4>4 DEF Handled
    <3> QED BY <3>2, <3>3, <3>5, <3>6, <3>7 DEF Handled
  <2>16. \A m \in 1..(next' - 1) : Handled(slices[m])'
    BY <1>1, <1>4, <1>11, <2>14, <2>15
  <2>17. LegsTrue'
    BY <2>5, <2>12, <2>13, <2>16 DEF LegsTrue
  <2> QED BY <1>1, <1>7, <1>8, <2>11, <2>17 DEF TraceInv, CursorsTrue
<1>15. CASE ~Tradable(FillLots(s), s.ex)
  <2>1. split' = split /\ lvl' = lvl
    BY <1>4, <1>15 DEF Fill
  <2>2. LegsPriced'
    BY <1>1, <1>2, <2>1, PricedKept
  <2>3. FillLots(s) < MinCanonicalLots(s.ex)
    BY <1>5, <1>6, <1>10, <1>15 DEF Tradable, FillLots
  <2>4. \A j \in 1..split.count : /\ LegTicks(j)' = LegTicks(j) /\ Leg(j)' = Leg(j)
                                  /\ MinCanonicalLots(split.ex[j])' = MinCanonicalLots(split.ex[j])
    <3>1. ASSUME NEW j \in 1..split.count
          PROVE  /\ LegTicks(j)' = LegTicks(j) /\ Leg(j)' = Leg(j)
                 /\ MinCanonicalLots(split.ex[j])' = MinCanonicalLots(split.ex[j])
      BY <1>1, <1>9, <2>1, SameContext DEF LegTicks, Leg
    <3> QED BY <3>1
  <2>5. Handled(s)'
    <3>1. CASE s.lots < MinCanonicalLots(s.ex)
      BY <1>10, <3>1 DEF Handled
    <3>2. CASE Remaining < MinCanonicalLots(s.ex)
      <4>1. split.count \in 0..split.count /\ split.rem[split.count] < MinCanonicalLots(s.ex)
        BY <1>6, <3>2
      <4> QED BY <1>9, <1>10, <2>1, <2>4, <4>1 DEF Handled
    <3> QED BY <2>3, <3>1, <3>2 DEF FillLots
  <2>6. ASSUME NEW m \in 1..(next - 1) PROVE Handled(slices[m])'
    <3>1. PICK t : t = slices[m]
      OBVIOUS
    <3>2. Handled(t) /\ t.ex \in Exchanges
      BY <1>1, <1>2, <1>12, <3>1, SliceTypes DEF LegsTrue
    <3>3. MinCanonicalLots(t.ex)' = MinCanonicalLots(t.ex)
      BY <1>1, <3>2, SameContext
    <3>4. \A j \in 0..split.count : \A i \in 1..j : i \in 1..split.count
      BY <1>6
    <3>5. \A j \in 1..split.count : LegOf(j, t)' <=> LegOf(j, t)
      BY <2>1 DEF LegOf
    <3>6. Handled(t)'
      BY <2>1, <2>4, <3>2, <3>3, <3>4, <3>5 DEF Handled
    <3> QED BY <1>12, <3>1, <3>6
  <2>7. \A m \in 1..(next' - 1) : Handled(slices[m])'
    BY <1>1, <1>4, <1>11, <2>5, <2>6
  <2>8. ASSUME NEW j \in 1..split.count
        PROVE  /\ (Leg(j) >= MinCanonicalLots(split.ex[j]))'
               /\ \E m \in 1..(next' - 1) : LegOf(j, slices[m])'
    <3>1. /\ Leg(j) >= MinCanonicalLots(split.ex[j])
          /\ \E m \in 1..(next - 1) : LegOf(j, slices[m])
      BY <1>1, <1>2 DEF LegsTrue
    <3>2. PICK m \in 1..(next - 1) : LegOf(j, slices[m])
      BY <3>1
    <3>3. LegOf(j, slices[m])'
      BY <1>12, <2>1, <3>2 DEF LegOf
    <3> QED BY <1>12, <2>1, <2>4, <3>1, <3>3
  <2>9. LegsTrue'
    BY <1>1, <1>2, <2>1, <2>7, <2>8 DEF LegsTrue
  <2> QED BY <1>1, <1>7, <1>8, <2>2, <2>9 DEF TraceInv, CursorsTrue
<1> QED BY <1>14, <1>15

\* The end of greedy_fill changes nothing but the phase.
LEMMA TraceKept ==
  ASSUME EngineInv, TraceInv, UNCHANGED <<ctx, cursor, slices, next, split, lvl>>,
         phase' = phase \/ (phase = "fill" /\ phase' = "done")
  PROVE  TraceInv'
<1>1. /\ ContextOK /\ SlicesOK /\ SplitOK /\ CursorsOK /\ next \in 1..(Len(slices) + 1)
      /\ SlicesTrue /\ CursorsTrue /\ NothingSkipped /\ LegsPriced /\ LegsTrue
  BY DEF EngineInv, TraceInv, LegsOK
<1>2. SlicesTrue' /\ LegsPriced'
  BY <1>1, SlicesKept, PricedKept
<1>3. CursorsTrue'
  <2> SUFFICES ASSUME phase = "merge", NEW e \in Exchanges, cursor[e] # 0
               PROVE  /\ ~BeyondLimit(e, cursor[e])'
                      /\ \A n \in 1..Len(slices) : slices[n].ex = e => slices[n].lvl < cursor[e]
    BY DEF CursorsTrue
  <2>1. PICK k \in Nat : k = cursor[e] /\ k = cursor'[e]
    BY <1>1 DEF CursorsOK
  <2>2. ~BeyondLimit(e, k)'
    BY <1>1, <2>1, SameContext DEF CursorsTrue
  <2> QED BY <1>1, <2>1, <2>2 DEF CursorsTrue
<1>4. NothingSkipped'
  <2>1. \A e \in Exchanges, k \in Nat :
          /\ Usable(e, k)' <=> Usable(e, k)
          /\ EffectiveTicks(e, k)' = EffectiveTicks(e, k)
          /\ Given(e, k)' <=> Given(e, k)
    BY SameContext DEF Given
  <2> QED BY <1>1, <2>1 DEF NothingSkipped
<1>5. LegsTrue'
  <2> SUFFICES ASSUME phase \in {"fill", "done"}, ctx.type = "TAKER" PROVE LegsTrue'
    BY DEF LegsTrue
  <2>1. split.count \in Nat /\ Len(slices) \in Nat
    BY <1>1, SliceTypes DEF SplitOK
  <2>2. \A j \in 1..split.count : /\ LegTicks(j)' = LegTicks(j) /\ Leg(j)' = Leg(j)
                                  /\ MinCanonicalLots(split.ex[j])' = MinCanonicalLots(split.ex[j])
    <3>1. ASSUME NEW j \in 1..split.count
          PROVE  /\ LegTicks(j)' = LegTicks(j) /\ Leg(j)' = Leg(j)
                 /\ MinCanonicalLots(split.ex[j])' = MinCanonicalLots(split.ex[j])
      <4>1. split.ex[j] \in Exchanges /\ lvl[j] \in Nat
        BY <1>1 DEF SplitOK, LegsPriced, ContextOK, BookOK
      <4> QED BY <4>1, SameContext DEF LegTicks, Leg
    <3> QED BY <3>1
  <2>3. ASSUME NEW m \in 1..(next - 1) PROVE Handled(slices[m])'
    <3>1. PICK t : t = slices[m]
      OBVIOUS
    <3>2. Handled(t) /\ t.ex \in Exchanges
      <4>1. m \in 1..Len(slices)
        BY <1>1, <2>1
      <4> QED BY <1>1, <3>1, <4>1, SliceTypes DEF LegsTrue
    <3>3. MinCanonicalLots(t.ex)' = MinCanonicalLots(t.ex)
      BY <3>2, SameContext
    <3>4. \A j \in 0..split.count : \A i \in 1..j : i \in 1..split.count
      BY <2>1
    <3>5. \A j \in 1..split.count : LegOf(j, t)' <=> LegOf(j, t)
      BY DEF LegOf
    <3>6. Handled(t)'
      BY <2>2, <3>2, <3>3, <3>4, <3>5 DEF Handled
    <3> QED BY <3>1, <3>6
  <2>4. ASSUME NEW j \in 1..split.count
        PROVE  /\ (Leg(j) >= MinCanonicalLots(split.ex[j]))'
               /\ \E m \in 1..(next - 1) : LegOf(j, slices[m])'
    BY <1>1, <2>2 DEF LegsTrue, LegOf
  <2> QED BY <1>1, <2>3, <2>4 DEF LegsTrue
<1> QED BY <1>2, <1>3, <1>4, <1>5 DEF TraceInv

\* A resting order joins a touch within the limit.
LEMMA PlaceTrace ==
  ASSUME EngineInv, EngineInv', TraceInv, Place
  PROVE  TraceInv'
<1>1. /\ phase = "place" /\ phase' = "done"
      /\ UNCHANGED <<ctx, cursor, slices, next>>
  BY DEF Place
<1>2. /\ ContextOK /\ SlicesOK /\ SplitOK /\ ctx.type = "MAKER" /\ split.count = 0 /\ SlicesTrue
  BY <1>1 DEF EngineInv, TraceInv, LegsOK, PhaseOK
<1>3. SlicesTrue'
  BY <1>1, <1>2, SlicesKept
<1>4. LegsPriced'
  <2>1. CASE split' = split
    BY <1>2, <2>1 DEF LegsPriced
  <2>2. CASE \E e \in Touches : AddLeg(ctx.target, e, 1)
    <3>1. PICK e \in Touches : AddLeg(ctx.target, e, 1)
      BY <2>2
    <3>2. split'.count = 1 /\ split'.ex[1] = e /\ lvl'[1] = 1
      BY <1>2, <3>1, LegAdded
    <3>3. /\ e \in Exchanges /\ 1 \in 1..Book(e).n
          /\ ctx.limit > 0 => ~Worse(Book(e).px[1], LimitTicks(e))
      BY <1>2 DEF Touches, ContextOK, BookOK
    <3>4. ~BeyondLimit(e, 1)
      <4>1. CASE ctx.limit > 0
        BY <3>3, <4>1 DEF BeyondLimit
      <4>2. CASE ctx.limit = 0
        <5>1. TickSize[e] \in Nat \ {0}
          BY <3>3, EngineAssumption
        <5>2. PICK T \in Nat \ {0} : T = TickSize[e]
          BY <5>1
        <5>3. Round(0, T) = 0
          <6>1. T < 2 * T /\ 2 * T > 0 /\ T \in Int /\ 2 * T \in Int
            BY <5>2
          <6>2. T \div (2 * T) = 0
            BY <6>1
          <6> QED BY <6>2 DEF Round
        <5> QED BY <4>2, <5>2, <5>3 DEF BeyondLimit, LimitTicks
      <4> QED BY <1>2, <4>1, <4>2 DEF ContextOK
    <3>5. Book(e)' = Book(e) /\ ~BeyondLimit(e, 1)'
      BY <1>1, <3>3, <3>4, SameContext
    <3> QED BY <3>2, <3>3, <3>5 DEF LegsPriced
  <2> QED BY <2>1, <2>2 DEF Place
<1> QED BY <1>1, <1>2, <1>3, <1>4 DEF TraceInv, CursorsTrue, NothingSkipped, LegsTrue

\* Every decision of build_cost_slices and greedy_fill can be traced back to the levels.
THEOREM DecisionIsTraceable == EngineSpec => []TraceInv
<1>1. EngineInit => TraceInv
  BY NothingYet DEF EngineInit, NoLegs, Untouched
<1>2. EngineInv /\ EngineInv' /\ TraceInv /\ [EngineNext]_engineVars => TraceInv'
  <2> SUFFICES ASSUME EngineInv, EngineInv', TraceInv, [EngineNext]_engineVars PROVE TraceInv'
    OBVIOUS
  <2>1. CASE Ask
    <3>1. Untouched'
      BY <2>1 DEF Ask, EngineInv, SlicesOK, NoLegs, Untouched
    <3> QED BY <3>1, NothingYet, PTL
  <2>2. CASE Return
    <3>1. Untouched'
      BY <2>2 DEF Return, NoLegs, Untouched
    <3> QED BY <3>1, NothingYet, PTL
  <2>3. CASE Filled
    BY <2>3, TraceKept DEF Filled
  <2>4. CASE UNCHANGED engineVars
    BY <2>4, TraceKept DEF engineVars
  <2> QED BY <2>1, <2>2, <2>3, <2>4, OpenTrace, MergeTrace, MergedTrace, FillTrace, PlaceTrace
          DEF EngineNext
<1> QED BY <1>1, <1>2, EngineIsSafe, PTL DEF EngineSpec

-----------------------------------------------------------------------------
(* What the legs are worth                                                 *)

\* Every leg takes something.
LEMMA LegTypes ==
  ASSUME SplitOK, ContextOK
  PROVE  /\ split.count \in Nat
         /\ \A j \in 0..split.count : split.rem[j] \in Nat
         /\ \A j \in 1..split.count : /\ j - 1 \in 0..split.count /\ j \in 0..split.count
                                      /\ split.ex[j] \in Exchanges /\ Leg(j) \in Nat \ {0}
<1>1. split.count \in Nat /\ \A j \in 0..split.count : split.rem[j] \in Nat
  BY DEF SplitOK, ContextOK
<1>2. ASSUME NEW j \in 1..split.count
      PROVE  /\ j - 1 \in 0..split.count /\ j \in 0..split.count
             /\ split.ex[j] \in Exchanges /\ Leg(j) \in Nat \ {0}
  <2>1. j - 1 \in 0..split.count /\ j \in 0..split.count /\ j - 1 < j
    BY <1>1
  <2>2. split.rem[j] < split.rem[j - 1]
    BY <2>1 DEF SplitOK, Decreasing
  <2>3. split.ex[j] \in Exchanges
    BY DEF SplitOK
  <2> QED BY <1>1, <2>1, <2>2, <2>3 DEF Leg
<1> QED BY <1>1, <1>2

\* The limit in ticks is at most half a tick away from the limit, and positive unless
\* the limit is below half a tick.
LEMMA RoundedLimit ==
  ASSUME NEW L \in Nat, NEW T \in Nat \ {0}, 2 * L >= T
  PROVE  /\ Round(L, T) \in Nat \ {0}
         /\ 2 * (T * Round(L, T)) <= 2 * L + T /\ 2 * (T * Round(L, T)) >= 2 * L - T
<1> DEFINE a == 2 * L + T
           b == 2 * T
           r == a \div b
<1>1. Round(L, T) = r
  BY DEF Round
<1>2. a \in Nat /\ b \in Nat \ {0} /\ a >= b /\ a = 2 * L + T /\ b = 2 * T
  OBVIOUS
<1> HIDE DEF a, b
<1>3. r \in Nat /\ b * r <= a /\ a < b * r + b
  BY <1>2, DivBounds
<1> HIDE DEF r
<1>4. r # 0
  BY <1>2, <1>3
<1>5. b * r = 2 * (T * r) /\ T * r \in Nat
  BY <1>2, <1>3
<1> QED BY <1>1, <1>2, <1>3, <1>4, <1>5

LEMMA TicksOrdered ==
  ASSUME NEW T \in Nat \ {0}, NEW p \in Nat, NEW r \in Nat, p <= r
  PROVE  p * T <= T * r /\ p * T \in Nat /\ T * r \in Nat
OBVIOUS

\* No leg, taken or resting, is priced beyond the caller's limit by more than half a tick
\* (seek_next_valid and calculate_maker_placement with the limit rounded to ticks).
THEOREM LimitRespected == EngineSpec => []WithinLimit
<1>1. EngineInv /\ TraceInv => WithinLimit
  <2> SUFFICES ASSUME EngineInv, TraceInv, NEW j \in 1..split.count,
                      2 * ctx.limit >= TickSize[split.ex[j]]
               PROVE  LET e  == split.ex[j]
                          px == Book(e).px[lvl[j]] * TickSize[e]
                      IN  IF ctx.dir = "BUY" THEN 2 * px <= 2 * ctx.limit + TickSize[e]
                                             ELSE 2 * px >= 2 * ctx.limit - TickSize[e]
    BY DEF WithinLimit
  <2>1. PICK e \in Exchanges : e = split.ex[j]
    BY LegTypes DEF EngineInv
  <2>2. PICK L \in Nat, T \in Nat \ {0} : L = ctx.limit /\ T = TickSize[e]
    BY <2>1, EngineAssumption DEF EngineInv, ContextOK
  <2>3. PICK p \in Nat : p = Book(e).px[lvl[j]]
    BY <2>1 DEF EngineInv, TraceInv, LegsPriced, ContextOK, BookOK
  <2>4. PICK r : r = LimitTicks(e)
    OBVIOUS
  <2>5. /\ r \in Nat \ {0} /\ 2 * (T * r) <= 2 * L + T /\ 2 * (T * r) >= 2 * L - T
    BY <2>1, <2>2, <2>4, RoundedLimit DEF LimitTicks
  <2>6. IF ctx.dir = "BUY" THEN p <= r ELSE p >= r
    BY <2>1, <2>3, <2>4, <2>5 DEF TraceInv, LegsPriced, BeyondLimit, Worse
  <2>7. CASE ctx.dir = "BUY"
    <3>1. p * T <= T * r /\ p * T \in Nat /\ T * r \in Nat
      BY <2>5, <2>6, <2>7, TicksOrdered
    <3>2. 2 * (p * T) <= 2 * L + T
      BY <2>5, <3>1
    <3> QED BY <2>1, <2>2, <2>3, <2>7, <3>2
  <2>8. CASE ctx.dir # "BUY"
    <3>1. r * T <= T * p /\ r * T \in Nat /\ T * p \in Nat
      BY <2>5, <2>6, <2>8, TicksOrdered
    <3>2. r * T = T * r /\ T * p = p * T
      BY <2>5
    <3>3. 2 * (p * T) >= 2 * L - T
      BY <2>5, <3>1, <3>2
    <3> QED BY <2>1, <2>2, <2>3, <2>8, <3>3
  <2> QED BY <2>7, <2>8
<1> QED BY <1>1, EngineIsSafe, DecisionIsTraceable, PTL

\* No double quotient turns a quantity that is worth exactly one native lot into none.
WholeLotsSurvive ==
  \A q \in RoundsDown, i \in Instruments, e \in Exchanges : q * LotSize(i) # BookLot[e]

LEMMA RoundOfWhole ==
  ASSUME NEW M \in Nat, NEW l \in Nat \ {0}, M % l = 0
  PROVE  Round(M, l) \in Nat /\ l * Round(M, l) = M
<1>1. PICK m \in Nat : l * m = M
  <2>1. M \div l \in Nat /\ l * (M \div l) = M
    OBVIOUS
  <2> QED BY <2>1
<1> DEFINE a == 2 * M + l
           b == 2 * l
<1>2. a \in Nat /\ b \in Nat \ {0} /\ b * m = 2 * M /\ a = 2 * M + l /\ b = 2 * l
  BY <1>1
<1>3. Round(M, l) = a \div b
  BY DEF Round
<1> HIDE DEF a, b
<1>4. b * m <= a /\ a < b * m + b
  BY <1>2
<1>5. a \div b = m
  BY <1>2, <1>4, DivUnique
<1> QED BY <1>1, <1>3, <1>5

\* A taker leg is never so small that it becomes a child of zero native lots
\* (greedy_fill's check against min_canonical_lots).
THEOREM LegsAreTradable == ASSUME WholeLotsSurvive PROVE EngineSpec => []LegsTradable
<1>1. EngineInv /\ TraceInv => LegsTradable
  <2> SUFFICES ASSUME EngineInv, TraceInv, phase = "done", ctx.type = "TAKER",
                      NEW j \in 1..split.count, NEW e, e = split.ex[j],
                      MinQty[e] >= BookLot[e], MinQty[e] % LotSize(ctx.instr) = 0
               PROVE  ToLots(split.rem[j - 1] - split.rem[j], ctx.instr, e) > 0
    BY DEF LegsTradable
  <2>1. e \in Exchanges /\ Leg(j) \in Nat /\ ctx.instr \in Instruments
    BY LegTypes DEF EngineInv, ContextOK
  <2>2. PICK M \in Nat, B \in Nat \ {0}, l \in Nat \ {0}, q \in Nat :
          M = MinQty[e] /\ B = BookLot[e] /\ l = LotSize(ctx.instr) /\ q = Leg(j)
    BY <2>1, LotSizeType, LotsAssumption, EngineAssumption
  <2>3. PICK r : r = Round(M, l)
    OBVIOUS
  <2>4. r \in Nat /\ l * r = M
    BY <2>2, <2>3, RoundOfWhole
  <2>5. q >= r
    BY <2>2, <2>3 DEF TraceInv, LegsTrue, MinCanonicalLots
  <2>6. PICK base : base = q * l
    OBVIOUS
  <2>7. base \in Nat /\ base >= B
    <3>1. r * l <= l * q /\ r * l \in Nat /\ l * q \in Nat
      BY <2>4, <2>5, TicksOrdered
    <3>2. r * l = l * r /\ l * q = q * l
      BY <2>4
    <3> QED BY <2>2, <2>4, <2>6, <3>1, <3>2
  <2>8. q \in RoundsDown => base # B
    BY <2>1, <2>2, <2>6 DEF WholeLotsSurvive
  <2>9. PICK d : d = base \div B
    OBVIOUS
  <2>10. d \in Nat /\ B * d <= base /\ base < B * d + B
    BY <2>7, <2>9, DivBounds
  <2>11. d # 0
    BY <2>7, <2>10
  <2>12. base % B = 0 /\ base # B => d >= 2
    <3> SUFFICES ASSUME base % B = 0, d = 1 PROVE base = B
      BY <2>10, <2>11
    <3>1. base = B * (base \div B)
      BY <2>7
    <3> QED BY <2>9, <3>1
  <2>13. ToLots(Leg(j), ctx.instr, e) = IF base % B = 0 /\ q \in RoundsDown THEN d - 1 ELSE d
    BY <2>2, <2>6, <2>9 DEF ToLots
  <2>14. ToLots(Leg(j), ctx.instr, e) > 0
    BY <2>8, <2>10, <2>11, <2>12, <2>13
  <2> QED BY <2>14 DEF Leg
<1> QED BY <1>1, EngineIsSafe, DecisionIsTraceable, PTL

-----------------------------------------------------------------------------
(* The cheapest levels first                                               *)

LegLots == [j \in 1..split.count |-> Leg(j)]

\* LotsOf is the sum of the legs' lots.
LEMMA LotsOfTotal ==
  ASSUME SplitOK, ContextOK, NEW J \in SUBSET (1..split.count)
  PROVE  IsFiniteSet(J) /\ LotsOf(J) = Total(LegLots, J)
<1> DEFINE body(it) == [s \in SUBSET J |-> IF s = {} THEN 0
                          ELSE (split.rem[Pick(s) - 1] - split.rem[Pick(s)]) + it[s \ {Pick(s)}]]
           sum == CHOOSE it : it = body(it)
<1>1. IsFiniteSet(J)
  <2>1. split.count \in Nat
    BY LegTypes
  <2>2. IsFiniteSet(1..split.count)
    BY <2>1, FS_Interval
  <2> QED BY <2>2, FS_Subset
<1>2. PICK F : F = LegLots
  OBVIOUS
<1>3. \A x \in J : F[x] \in Int
  <2>1. \A x \in J : LegLots[x] \in Int
    BY LegTypes DEF LegLots
  <2> QED BY <1>2, <2>1
<1>4. LotsOf(J) = sum[J]
  BY DEF LotsOf, MapThenSumSet, MapThenFoldSet, Pick
<1>5. ASSUME NEW it PROVE IsSum(it, F, J) <=> it = body(it)
  <2>1. \A s \in SUBSET J : s # {} =>
          F[Pick(s)] = split.rem[Pick(s) - 1] - split.rem[Pick(s)]
    <3> SUFFICES ASSUME NEW s \in SUBSET J, s # {}
                 PROVE  F[Pick(s)] = split.rem[Pick(s) - 1] - split.rem[Pick(s)]
      OBVIOUS
    <3>1. Pick(s) \in 1..split.count
      BY PickIn
    <3> QED BY <1>2, <3>1 DEF LegLots, Leg
  <2>2. [s \in SUBSET J |-> IF s = {} THEN 0 ELSE F[Pick(s)] + it[s \ {Pick(s)}]] = body(it)
    BY <2>1
  <2> QED BY <2>2 DEF IsSum
<1>6. PICK it : IsSum(it, F, J)
  BY <1>1, <1>3, SumExists
<1>7. \E f : f = body(f)
  BY <1>5, <1>6
<1>8. sum = body(sum)
  <2> HIDE DEF body
  <2> QED BY <1>7
<1>9. IsSum(sum, F, J)
  BY <1>5, <1>8
<1> HIDE DEF sum, body
<1>10. PICK g : g = sum
  OBVIOUS
<1>11. IsSum(g, F, J)
  BY <1>9, <1>10
<1>12. Total(F, J) = g[J]
  BY <1>1, <1>3, <1>11, TotalOf, Zenon
<1> QED BY <1>1, <1>2, <1>4, <1>10, <1>12

\* The first n legs take the target down to rem[n].
LEMMA FirstLegs ==
  ASSUME SplitOK, ContextOK
  PROVE  \A n \in 0..split.count : Total(LegLots, 1..n) = ctx.target - split.rem[n]
<1> DEFINE G == {n \in Nat : n <= split.count => Total(LegLots, 1..n) = ctx.target - split.rem[n]}
<1>1. split.count \in Nat /\ ctx.target \in Nat /\ split.rem[0] = ctx.target
  BY LegTypes DEF SplitOK, ContextOK
<1>2. 0 \in G
  <2>1. 1..0 = {}
    OBVIOUS
  <2> QED BY <1>1, <2>1, TotalEmpty
<1>3. ASSUME NEW n \in Nat, n \in G PROVE n + 1 \in G
  <2> SUFFICES ASSUME n + 1 <= split.count
               PROVE  Total(LegLots, 1..(n + 1)) = ctx.target - split.rem[n + 1]
    OBVIOUS
  <2>1. Total(LegLots, 1..n) = ctx.target - split.rem[n]
    BY <1>1, <1>3
  <2>2. n + 1 \in 1..split.count /\ n \in 0..split.count
    BY <1>1
  <2>3. LegLots[n + 1] = split.rem[n] - split.rem[n + 1]
    <3>1. LegLots[n + 1] = split.rem[(n + 1) - 1] - split.rem[n + 1]
      BY <2>2 DEF LegLots, Leg
    <3> QED BY <3>1
  <2>4. PICK S : S = 1..(n + 1)
    OBVIOUS
  <2>5. IsFiniteSet(S) /\ n + 1 \in S /\ S \ {n + 1} = 1..n /\ \A x \in S : LegLots[x] \in Int
    <3>1. n + 1 \in S /\ S \ {n + 1} = 1..n /\ S \subseteq 1..split.count
      BY <1>1, <2>2, <2>4
    <3>2. IsFiniteSet(S)
      BY <2>4, FS_Interval
    <3> QED BY <3>1, <3>2, LegTypes DEF LegLots
  <2>6. Total(LegLots, S) = LegLots[n + 1] + Total(LegLots, S \ {n + 1})
    BY <2>5, TotalSplit
  <2>7. split.rem[n] \in Int /\ split.rem[n + 1] \in Int
    BY <2>2, LegTypes
  <2>8. Total(LegLots, S) = (split.rem[n] - split.rem[n + 1]) + (ctx.target - split.rem[n])
    BY <2>1, <2>3, <2>5, <2>6
  <2> QED BY <1>1, <2>4, <2>7, <2>8
<1>4. \A n \in Nat : n \in G
  <2> HIDE DEF G
  <2> QED BY <1>2, <1>3, NatInduct
<1> QED BY <1>1, <1>4

\* Legs that include the first n have taken at least what these took.
LEMMA TakenAtLeast ==
  ASSUME SplitOK, ContextOK, NEW J \in SUBSET (1..split.count), NEW n \in 0..split.count,
         1..n \subseteq J
  PROVE  LotsOf(J) \in Int /\ ctx.target - LotsOf(J) <= split.rem[n]
<1>1. IsFiniteSet(J) /\ LotsOf(J) = Total(LegLots, J)
  BY LotsOfTotal
<1>2. \A x \in J : LegLots[x] \in Nat
  BY LegTypes DEF LegLots
<1>3. Total(LegLots, J) \in Int
  <2>1. \A x \in J : LegLots[x] \in Int
    BY <1>2
  <2> QED BY <1>1, <2>1, TotalInt
<1>4. Total(LegLots, 1..n) <= Total(LegLots, J)
  BY <1>1, <1>2, TotalMonotonic
<1>5. Total(LegLots, 1..n) = ctx.target - split.rem[n]
  BY FirstLegs
<1>6. ctx.target \in Nat /\ split.rem[n] \in Nat
  BY LegTypes DEF ContextOK
<1> QED BY <1>1, <1>3, <1>4, <1>5, <1>6

\* What the legs take at a level: nothing, or what its only leg takes.
LEMMA TakenAt ==
  ASSUME EngineInv, TraceInv, phase = "done", ctx.type = "TAKER", NEW e, NEW k
  PROVE  \/ Taken(e, k) = 0 /\ \A j \in 1..split.count : ~(split.ex[j] = e /\ lvl[j] = k)
         \/ \E j \in 1..split.count : split.ex[j] = e /\ lvl[j] = k /\ Taken(e, k) = Leg(j)
<1> DEFINE J == {j \in 1..split.count : split.ex[j] = e /\ lvl[j] = k}
<1>1. SplitOK /\ ContextOK /\ LegsTrue
  BY DEF EngineInv, TraceInv
<1>2. Taken(e, k) = Total(LegLots, J)
  BY <1>1, LotsOfTotal DEF Taken
<1>3. CASE J = {}
  BY <1>2, <1>3, TotalEmpty
<1>4. CASE J # {}
  <2>1. PICK j \in J : TRUE
    BY <1>4
  <2>2. J = {j}
    BY <1>1, <2>1 DEF LegsTrue
  <2>3. LegLots[j] = Leg(j) /\ Leg(j) \in Int
    BY <1>1, <2>1, LegTypes DEF LegLots
  <2>4. Total(LegLots, {j}) = Leg(j)
    BY <2>3, TotalOne
  <2> QED BY <1>2, <2>1, <2>2, <2>4
<1> QED BY <1>3, <1>4

\* The legs of a taker order are the cheapest way to get its lots: whoever trades at a level
\* has first taken every cheaper usable level in full, unless it was too small or the rest of
\* the order was (build_cost_slices and greedy_fill).
THEOREM CheapestLevelsFirst == EngineSpec => []CheapestFirst
<1>1. EngineInv /\ TraceInv => CheapestFirst
  <2> SUFFICES ASSUME EngineInv, TraceInv, phase = "done", ctx.type = "TAKER",
                      NEW e \in Exchanges, NEW f \in Exchanges,
                      NEW k \in 1..Book(e).n, NEW m \in 1..Book(f).n,
                      Taken(f, m) > 0, Usable(e, k), EffectiveTicks(e, k) < EffectiveTicks(f, m)
               PROVE  \/ Taken(e, k) = SliceLots(e, k)
                      \/ SliceLots(e, k) < MinCanonicalLots(e)
                      \/ ctx.target - TakenUpTo(EffectiveTicks(e, k)) < MinCanonicalLots(e)
    BY DEF CheapestFirst
  <2>1. /\ ContextOK /\ SlicesOK /\ SlicesSorted /\ SplitOK /\ next \in 1..(Len(slices) + 1)
        /\ SlicesTrue /\ LegsTrue /\ NothingSkipped
    BY DEF EngineInv, TraceInv, LegsOK
  <2>2. Len(slices) \in Nat /\ split.count \in Nat /\ k \in Nat
    <3>1. Len(slices) \in Nat /\ split.count \in Nat
      BY <2>1, SliceTypes, LegTypes
    <3>2. Book(e).n \in Nat
      BY <2>1 DEF ContextOK, BookOK
    <3> QED BY <3>1, <3>2
  <2>3. EffectiveTicks(e, k) \in Int /\ EffectiveTicks(f, m) \in Int
    BY <2>1, TicksRise
  <2>4. PICK j \in 1..split.count : split.ex[j] = f /\ lvl[j] = m
    BY TakenAt
  <2>5. PICK n \in 1..(next - 1) : LegOf(j, slices[n])
    BY <2>1 DEF LegsTrue
  <2>6. n \in 1..Len(slices) /\ slices[n].eff = EffectiveTicks(f, m)
    <3>1. n \in 1..Len(slices)
      BY <2>1, <2>2
    <3> QED BY <2>1, <2>4, <2>5, <3>1 DEF SlicesTrue, IsLevel, LegOf
  <2>7. Given(e, k)
    BY <2>1, <2>2, <2>3, <2>6 DEF NothingSkipped
  <2>8. CASE SliceLots(e, k) = 0
    <3>1. ASSUME NEW i \in 1..split.count, split.ex[i] = e, lvl[i] = k PROVE FALSE
      <4>1. PICK p \in 1..(next - 1) : LegOf(i, slices[p])
        BY <2>1 DEF LegsTrue
      <4>2. p \in 1..Len(slices)
        BY <2>1, <2>2
      <4>3. slices[p].lots = SliceLots(e, k) /\ slices[p].lots \in Nat \ {0}
        BY <2>1, <3>1, <4>1, <4>2, SliceTypes DEF SlicesTrue, IsLevel, LegOf
      <4> QED BY <2>8, <4>3
    <3>2. Taken(e, k) = 0
      BY <3>1, TakenAt
    <3> QED BY <2>8, <3>2
  <2>9. CASE SliceLots(e, k) # 0
    <3>1. PICK p \in 1..Len(slices) : slices[p].ex = e /\ slices[p].lvl = k
      BY <2>7, <2>9 DEF Given
    <3>2. PICK s : s = slices[p]
      OBVIOUS
    <3>3. s.ex = e /\ s.lvl = k /\ s.eff = EffectiveTicks(e, k) /\ s.lots = SliceLots(e, k)
      BY <2>1, <3>1, <3>2 DEF SlicesTrue, IsLevel
    <3>4. p < n
      <4> SUFFICES ASSUME p > n \/ p = n PROVE FALSE
        BY <2>2
      <4> QED BY <2>1, <2>3, <2>6, <3>2, <3>3 DEF SlicesSorted
    <3>5. Handled(s)
      <4>1. p \in 1..(next - 1)
        BY <2>1, <2>2, <3>4
      <4> QED BY <2>1, <3>2, <4>1 DEF LegsTrue
    <3>6. CASE \E i \in 1..split.count : LegOf(i, s) /\ Leg(i) = s.lots
      <4>1. PICK i \in 1..split.count : split.ex[i] = e /\ lvl[i] = k /\ Leg(i) = SliceLots(e, k)
        BY <3>3, <3>6 DEF LegOf
      <4>2. PICK h \in 1..split.count : split.ex[h] = e /\ lvl[h] = k /\ Taken(e, k) = Leg(h)
        BY <4>1, TakenAt
      <4>3. h = i
        BY <2>1, <4>1, <4>2 DEF LegsTrue
      <4> QED BY <4>1, <4>2, <4>3
    <3>7. CASE s.lots < MinCanonicalLots(s.ex)
      BY <3>3, <3>7
    <3>8. CASE \E i \in 0..split.count : /\ split.rem[i] < MinCanonicalLots(s.ex)
                                         /\ \A h \in 1..i : LegTicks(h) <= s.eff
      <4>1. PICK i \in 0..split.count : /\ split.rem[i] < MinCanonicalLots(e)
                                        /\ \A h \in 1..i : LegTicks(h) <= s.eff
        BY <3>3, <3>8
      <4>2. PICK J : J = {h \in 1..split.count : EffectiveTicks(split.ex[h], lvl[h]) <= s.eff}
        OBVIOUS
      <4>3. J \in SUBSET (1..split.count) /\ 1..i \subseteq J
        BY <2>2, <4>1, <4>2 DEF LegTicks
      <4>4. LotsOf(J) \in Int /\ ctx.target - LotsOf(J) <= split.rem[i]
        BY <2>1, <4>3, TakenAtLeast
      <4>5. TakenUpTo(EffectiveTicks(e, k)) = LotsOf(J)
        BY <3>3, <4>2 DEF TakenUpTo
      <4>6. MinCanonicalLots(e) \in Int /\ split.rem[i] \in Int /\ ctx.target \in Int
        <5>1. MinQty[e] \in Int /\ LotSize(ctx.instr) \in Nat \ {0}
          BY EngineAssumption, LotSizeType
        <5>2. MinCanonicalLots(e) \in Int
          BY <5>1, RoundInt DEF MinCanonicalLots
        <5>3. ctx.target \in Int
          BY <2>1 DEF ContextOK
        <5>4. split.rem[i] \in Nat
          BY <2>1, LegTypes
        <5> QED BY <5>2, <5>3, <5>4
      <4> QED BY <4>1, <4>4, <4>5, <4>6
    <3>9. ~(\A i \in 1..split.count : LegTicks(i) <= s.eff)
      BY <2>3, <2>4, <3>3 DEF LegTicks
    <3> QED BY <3>5, <3>6, <3>7, <3>8, <3>9 DEF Handled
  <2> QED BY <2>7, <2>8, <2>9
<1> QED BY <1>1, EngineIsSafe, DecisionIsTraceable, PTL
=============================================================================
