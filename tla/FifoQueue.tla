------------------------------ MODULE FifoQueue ------------------------------
(***************************************************************************)
(* A bounded FIFO queue: what the threads of the OMS expect of the         *)
(* channels between them.  A put that is refused is a stuttering step.     *)
(***************************************************************************)
EXTENDS Integers, Sequences

CONSTANTS
  Items,      \* what may be put
  Capacity,   \* how many items fit
  Nothing     \* what the consumer holds before its first item

VARIABLES
  queue,      \* items put and not yet got, oldest first
  got         \* the item the consumer got last

fifoVars == <<queue, got>>

FifoInit ==
  /\ queue = <<>>
  /\ got = Nothing

Put(v) ==
  /\ Len(queue) < Capacity
  /\ queue' = Append(queue, v)
  /\ UNCHANGED got

Get ==
  /\ queue # <<>>
  /\ got' = Head(queue)
  /\ queue' = Tail(queue)

FifoNext == Get \/ \E v \in Items : Put(v)

FifoSpec == FifoInit /\ [][FifoNext]_fifoVars
=============================================================================
