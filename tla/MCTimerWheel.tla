---------------------------- MODULE MCTimerWheel ----------------------------
(* Model values for the runs of TimerWheel. *)
EXTENDS TimerWheel, TLC

CONSTANTS c1, c2

TwoChildren == {c1, c2}
ChildSymmetry == Permutations(TwoChildren)
=============================================================================
