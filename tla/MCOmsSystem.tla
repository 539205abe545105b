----------------------------- MODULE MCOmsSystem -----------------------------
(* Model values for the runs of OmsSystem. *)
EXTENDS OmsSystem

Lot1 == [i \in Instruments |-> 1]
MixedBooks == [e \in Exchanges |-> e + 1]
Books1 == [e \in Exchanges |-> 1]
NoLimit == [i \in Instruments |-> 0]

Sig(dir, qty, type) ==
  [instr |-> 0, dir |-> dir, qty |-> qty, type |-> type, reduce_only |-> FALSE, limit |-> 0]

BothSides == {Sig("BUY", 2, "TAKER"), Sig("SELL", 1, "TAKER")}
OneMaker == {Sig("BUY", 1, "MAKER")}
=============================================================================
