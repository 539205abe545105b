--------------------------- MODULE MCRoutingEngine ---------------------------
(* Model values for the run of RoutingEngine: exchange 0 quotes the canonical *)
(* lot, exchange 1 lots of twice that size; both trade at least two canonical *)
(* lots.                                                                      *)
EXTENDS RoutingEngine

Lot2 == [i \in Instruments |-> 2]
Lots24 == [e \in Exchanges |-> IF e = 0 THEN 2 ELSE 4]
Tick2 == [e \in Exchanges |-> 2]
TwoLots == [e \in Exchanges |-> 4]
FourLots == [e \in Exchanges |-> 8]

NoCosts == [e \in Exchanges |-> 0]
Rebate == [e \in Exchanges |-> IF e = 0 THEN 1 ELSE -1]
Slow == [e \in Exchanges |-> IF e = 0 THEN 3 ELSE 0]
Costs == {NoCosts, Rebate, Slow}

Sure == [e \in Exchanges |-> 100]
Unsure == [e \in Exchanges |-> IF e = 0 THEN 50 ELSE 70]
Rates == {Sure, Unsure}
=============================================================================
