----------------------------- MODULE RiskEngine -----------------------------
(***************************************************************************)
(* The two stages that may stop a signal before it becomes an order: the   *)
(* notional confirmation gate (notional_gate.hpp) and the pre-trade risk   *)
(* engine (risk_engine.hpp).  A signal is a record                         *)
(*   [instr, dir, qty, type, reduce_only, limit]                           *)
(* whose limit is the price of one base unit, 0 for a market order.        *)
(***************************************************************************)
EXTENDS Lots

CONSTANTS
  AutoApprove,     \* NotionalGateConfig::auto_approve_usd
  HardBlock,       \* NotionalGateConfig::hard_block_usd, 0 = disabled
  MaxOrderLots,    \* RiskLimits::max_order_lots, 0 = unlimited
  MaxNetLots,      \* RiskLimits::max_net_lots, 0 = unlimited
  MaxNotional,     \* RiskLimits::max_notional_usd, 0 = unlimited
  MarginOk         \* the answers margin.available() >= min_margin_required
                   \* may give: a non-empty subset of BOOLEAN

ASSUME RiskAssumption ==
  /\ AutoApprove \in Nat /\ HardBlock \in Nat /\ MaxNotional \in Nat
  /\ MaxOrderLots \in [Instruments -> Nat]
  /\ MaxNetLots \in [Instruments -> Nat]
  /\ MarginOk \in (SUBSET BOOLEAN) \ {{}}

Dirs == {"BUY", "SELL"}

\* What the signal is worth; the gate asks for the requested quantity, the
\* risk engine for the quantity left after the reduce-only clamp.
Notional(sig, qty) == qty * LotSize(sig.instr) * sig.limit

\* NotionalConfirmationGate::approve: the answers it may give.  Between the two
\* thresholds the operator decides; the prompt blocks the execution thread.
Approvals(sig) ==
  IF sig.limit = 0 THEN {TRUE}
  ELSE IF HardBlock > 0 /\ Notional(sig, sig.qty) > HardBlock THEN {FALSE}
  ELSE IF Notional(sig, sig.qty) <= AutoApprove THEN {TRUE}
  ELSE BOOLEAN

Abs(n) == IF n < 0 THEN -n ELSE n

\* MUTANT of Signed: a sell counts like a buy.
SignedAsBuy(dir, n) == n

\* A quantity as a change of the position.
Signed(dir, n) == IF dir = "BUY" THEN n ELSE -n

\* MUTANT of ClampReduceOnly: what other orders have committed is not counted.
ClampAlone(dir, qty, constrained, net, committed) ==
  IF ~constrained THEN qty
  ELSE IF ~((dir = "BUY" /\ net < 0) \/ (dir = "SELL" /\ net > 0)) THEN 0
  ELSE IF qty < Abs(net) THEN qty ELSE Abs(net)

\* clamp_reduce_only_impl: the part of qty that cannot grow or flip a position
\* of net lots when `committed' lots are already open in the same direction.
ClampReduceOnly(dir, qty, constrained, net, committed) ==
  IF ~constrained THEN qty
  ELSE LET headroom == Abs(net) - committed
           reduces  == (dir = "BUY" /\ net < 0) \/ (dir = "SELL" /\ net > 0)
       IN  IF ~reduces \/ headroom <= 0 THEN 0
           ELSE IF qty < headroom THEN qty ELSE headroom

FatFinger(sig, qty) ==
  MaxOrderLots[sig.instr] > 0 /\ qty > MaxOrderLots[sig.instr]

\* MUTANT of BreaksPositionLimit: the position held already is not counted.
OrderBreaksLimit(sig, qty, net) ==
  MaxNetLots[sig.instr] > 0 /\ qty > MaxNetLots[sig.instr]

\* check_position looks at the confirmed position only, not at open orders.
BreaksPositionLimit(sig, qty, net) ==
  MaxNetLots[sig.instr] > 0 /\ Abs(net + Signed(sig.dir, qty)) > MaxNetLots[sig.instr]

BreaksNotional(sig, qty) ==
  MaxNotional > 0 /\ sig.limit > 0 /\ Notional(sig, qty) > MaxNotional

\* PreTradeRiskEngine::validate with the RejectReason on_strategy_order maps
\* its answer to; "OK" lets the order pass.  margin_ok is check_margin's last
\* comparison.
Validate(sig, qty, net, margin_ok) ==
  IF sig.instr \notin Instruments THEN "RISK_FAT_FINGER"
  ELSE IF FatFinger(sig, qty) THEN "RISK_FAT_FINGER"
  ELSE IF BreaksPositionLimit(sig, qty, net) THEN "RISK_POSITION_LIMIT"
  ELSE IF BreaksNotional(sig, qty) THEN "RISK_NOTIONAL"
  ELSE IF ~margin_ok THEN "RISK_MARGIN"
  ELSE "OK"
=============================================================================
