---------------------------- MODULE MCAsyncLogger ----------------------------
(* Model values for the runs of AsyncLogger. *)
EXTENDS AsyncLogger

CONSTANTS a, b, core, feed

TwoItems == {a, b}
OneProducer == {core}
TwoProducers == {core, feed}
=============================================================================
