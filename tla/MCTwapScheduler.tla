--------------------------- MODULE MCTwapScheduler ---------------------------
(* The run of TwapScheduler needs no values beyond those of its cfg. *)
EXTENDS TwapScheduler
=============================================================================
