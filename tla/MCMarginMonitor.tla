--------------------------- MODULE MCMarginMonitor ---------------------------
(* Model values for the run of MarginMonitor. *)
EXTENDS MarginMonitor

Reports == {<<10, 1>>, <<8, 3>>}
CallBounds == [t \in {"exec", "rest"} |-> 2]
LossAndGain == {-1, 2}
=============================================================================
