--------------------------- MODULE RoutingContract ---------------------------
(***************************************************************************)
(* What the execution core relies on when it asks sor::RoutingEngine to    *)
(* split an order.  greedy_fill counts remaining_lots down from the target *)
(* while it emits legs, so a split is its trace:                           *)
(*   count     number of legs in the ChildOrderBuffer                      *)
(*   rem[k]    remaining_lots after the first k legs (rem[0] is the target)*)
(*   ex[k]     exchange of leg k                                           *)
(* Leg k asks for rem[k-1] - rem[k] canonical lots.  Which exchange is     *)
(* chosen and at which price is left open here.                            *)
(***************************************************************************)
EXTENDS Lots

CONSTANTS
  kMaxChildOrders,   \* capacity of the ChildOrderBuffer
  Liquidity          \* "deep": the books always cover the target;
                     \* "thin": a split may fall short or be empty

ASSUME RoutingAssumption ==
  /\ kMaxChildOrders \in Nat \ {0}
  /\ Liquidity \in {"deep", "thin"}

\* A decreasing trace of remaining_lots over n legs.
Decreasing(rem, n) == \A j, k \in 0..n : j < k => rem[k] < rem[j]

NoLegs(target) == [count |-> 0, rem |-> [k \in {0} |-> target], ex |-> [k \in 1..0 |-> 0]]

\* The splits with n legs.
SplitsOf(target, n) ==
  {[count |-> n, rem |-> r, ex |-> x] :
     r \in {f \in [0..n -> 0..target] :
              /\ f[0] = target
              /\ Decreasing(f, n)
              /\ Liquidity = "deep" => f[n] = 0},
     x \in [1..n -> Exchanges]}

\* calculate_optimal_split.  A target that is not positive fails an assertion
\* in debug builds and yields no leg in release builds.
OptimalSplits(target) ==
  IF target <= 0 THEN {NoLegs(target)}
  ELSE (IF Liquidity = "thin" THEN {NoLegs(target)} ELSE {})
       \cup UNION {SplitsOf(target, n) : n \in 1..kMaxChildOrders}

\* calculate_maker_placement: one leg for the whole target at the best touch,
\* or none when no exchange can take a resting order.
MakerSplits(target) ==
  {[count |-> 1, rem |-> [k \in 0..1 |-> IF k = 0 THEN target ELSE 0],
    ex |-> [k \in {1} |-> e]] : e \in Exchanges}
  \cup (IF Liquidity = "thin" THEN {NoLegs(target)} ELSE {})
=============================================================================
