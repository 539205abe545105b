------------------------------ MODULE OrderPool ------------------------------
(***************************************************************************)
(* OMSOrderPool: two pre-allocated arrays of order records, each with a    *)
(* LIFO free list (order_pool.hpp).  A free list is the pair of the code:  *)
(* the fill level `top' and the array `ids', of which only the entries     *)
(* 1..top are meaningful.                                                  *)
(*                                                                         *)
(* free_parent and free_child push an id without looking whether it is     *)
(* already free, so a list may hold an id twice; NoDuplicates is therefore *)
(* something to establish, not part of the type.                           *)
(***************************************************************************)
EXTENDS Integers

\* init: the list of n ids from which id 0 is popped first.
FullList(n) == [top |-> n, ids |-> [i \in 1..n |-> n - i]]

\* The k ids that k consecutive allocations return, in order.
Popped(f, k) == [i \in 1..k |-> f.ids[f.top + 1 - i]]

\* The list after k allocations.
Pop(f, k) == [top |-> f.top - k, ids |-> [i \in 1..(f.top - k) |-> f.ids[i]]]

\* The list after the n ids s[1], ..., s[n] have been freed in this order.
Push(f, n, s) ==
  [top |-> f.top + n,
   ids |-> [i \in 1..(f.top + n) |->
              IF i <= f.top THEN f.ids[i] ELSE s[i - f.top]]]

\* A single free.
PushOne(f, id) == Push(f, 1, [i \in {1} |-> id])

\* The ids on the list.
FreeIds(f) == {f.ids[i] : i \in 1..f.top}

\* No id is on the list twice.
NoDuplicates(f) == \A i, j \in 1..f.top : f.ids[i] = f.ids[j] => i = j
=============================================================================
