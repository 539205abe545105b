--------------------------- MODULE MCExecutionCore ---------------------------
(* Model values for the runs of ExecutionCore. *)
EXTENDS ExecutionCore

OneInstrument == [i \in {0} |-> 1]
UnitBooks == [e \in Exchanges |-> 1]
MixedBooks == [e \in Exchanges |-> e + 1]
NoLimit == [i \in {0} |-> 0]

Sig(dir, qty, type, ro) ==
  [instr |-> 0, dir |-> dir, qty |-> qty, type |-> type, reduce_only |-> ro, limit |-> 0]

\* A buy of two lots, a resting sell and a reduce-only sell.
FaultSignals == {Sig("BUY", 2, "TAKER", FALSE), Sig("SELL", 1, "MAKER", FALSE),
                 Sig("SELL", 2, "TAKER", TRUE)}

\* Buys build a position, reduce-only sells take it down.
PositionSignals == {Sig("BUY", 2, "TAKER", FALSE), Sig("SELL", 2, "TAKER", TRUE)}

\* With MaxOrderLots = 3, MaxNetLots = 2, AutoApprove = 1, MaxNotional = 3 and
\* HardBlock = 5 these meet every answer of the gate and of the risk engine; the
\* last one names an instrument that does not exist.
AdmissionSignals ==
  {Sig("BUY", 2, "TAKER", FALSE), Sig("SELL", 2, "MAKER", TRUE), Sig("SELL", 4, "TAKER", FALSE),
   [Sig("BUY", 1, "TAKER", FALSE) EXCEPT !.limit = 2],
   [Sig("BUY", 2, "TAKER", FALSE) EXCEPT !.limit = 2],
   [Sig("SELL", 3, "TAKER", FALSE) EXCEPT !.limit = 2],
   [Sig("BUY", 1, "TAKER", FALSE) EXCEPT !.instr = 1]}

LotsLimit == [i \in {0} |-> 3]
NetLimit == [i \in {0} |-> 2]
=============================================================================
