----------------------------- MODULE OrderLedger -----------------------------
(***************************************************************************)
(* What the OMS promises about orders and positions, without pools,        *)
(* children, timers or reports: an open order wants a positive quantity;   *)
(* the position moves only when one open order trades, in that order's     *)
(* direction and by no more than it wants; what an order wants only ever   *)
(* goes down until the order is gone.                                      *)
(***************************************************************************)
EXTENDS Integers

CONSTANTS
  OrderIds,      \* ids an order may have
  Books          \* instruments

VARIABLES
  orders,   \* [OrderIds -> [instr, dir, want]]
  net       \* [Books -> Int]

ledgerVars == <<orders, net>>

Sides == {"BUY", "SELL"}

\* An id without an order.
NoOrder == [instr |-> 0, dir |-> "BUY", want |-> 0]

LedgerInit ==
  /\ orders = [p \in OrderIds |-> NoOrder]
  /\ net = [i \in Books |-> 0]

\* A signal becomes an order.
Accept(p) ==
  /\ orders[p] = NoOrder
  /\ orders'[p] # NoOrder
  /\ orders'[p].instr \in Books
  /\ orders'[p].dir \in Sides
  /\ orders'[p].want > 0
  /\ net' = net

\* Order p trades n lots, possibly none, and then wants less or is gone.
Trade(p, n) ==
  LET o == orders[p]
  IN  /\ o # NoOrder
      /\ net' = [net EXCEPT ![o.instr] = IF o.dir = "BUY" THEN @ + n ELSE @ - n]
      /\ orders'[p] # NoOrder =>
           /\ orders'[p].instr = o.instr
           /\ orders'[p].dir = o.dir
           /\ orders'[p].want > 0
           /\ orders'[p].want <= o.want - n

LedgerNext ==
  \E p \in OrderIds :
    /\ Accept(p) \/ \E n \in 0..orders[p].want : Trade(p, n)
    /\ \A r \in OrderIds \ {p} : orders'[r] = orders[r]

LedgerSpec == LedgerInit /\ [][LedgerNext]_ledgerVars
=============================================================================
