------------------------------ MODULE SpscQueue ------------------------------
(***************************************************************************)
(* oms::SpscQueue (spsc_queue.hpp), the ring buffer under strategy_queue,  *)
(* exec_report_queue, reject_queue and the gateway queues.  push and pop   *)
(* are split at every access to shared memory; the release stores and      *)
(* acquire loads of head_ and tail_ make each access one atomic step.      *)
(* With one producer the code is an exact FIFO; Producers may hold more    *)
(* than one thread to show what happens when it does.                      *)
(***************************************************************************)
EXTENDS Integers, FiniteSets, Sequences

CONSTANTS
  N,           \* slots of the ring, a power of two
  Items,       \* what may be pushed
  Nothing,     \* an unused slot or register
  Producers    \* the threads that push

ASSUME RingAssumption == N \in Nat /\ N >= 2 /\ Nothing \notin Items

VARIABLES
  buf_, head_, tail_,
  push_pc,     \* per producer: "idle", "load_tail", "write" or "publish"
  push_h,      \* per producer: the head it loaded
  push_v,      \* per producer: the item it pushes
  pop_pc,      \* "idle", "read" or "publish"
  pop_v,       \* the item pop has copied out of the ring
  got          \* the item the last successful pop returned

vars == <<buf_, head_, tail_, push_pc, push_h, push_v, pop_pc, pop_v, got>>

Slot == 0..(N - 1)

\* MUTANT of Next1: the index does not wrap.
Next1NoWrap(i) == i + 1

\* The mask wraps the index.
Next1(i) == (i + 1) % N

Init ==
  /\ buf_ = [i \in Slot |-> Nothing]
  /\ head_ = 0 /\ tail_ = 0
  /\ push_pc = [t \in Producers |-> "idle"]
  /\ push_h = [t \in Producers |-> 0]
  /\ push_v = [t \in Producers |-> Nothing]
  /\ pop_pc = "idle"
  /\ pop_v = Nothing
  /\ got = Nothing

-----------------------------------------------------------------------------
(* push                                                                    *)

PushLoadHead(t, v) ==
  /\ push_pc[t] = "idle"
  /\ push_pc' = [push_pc EXCEPT ![t] = "load_tail"]
  /\ push_h' = [push_h EXCEPT ![t] = head_]
  /\ push_v' = [push_v EXCEPT ![t] = v]
  /\ UNCHANGED <<buf_, head_, tail_, pop_pc, pop_v, got>>

\* MUTANT of PushLoadTail: the ring is never full.
PushNeverFull(t) ==
  /\ push_pc[t] = "load_tail"
  /\ push_pc' = [push_pc EXCEPT ![t] = "write"]
  /\ UNCHANGED <<buf_, head_, tail_, push_h, push_v, pop_pc, pop_v, got>>

\* The ring is full when the next head would be the tail: push returns false.
PushLoadTail(t) ==
  /\ push_pc[t] = "load_tail"
  /\ push_pc' = [push_pc EXCEPT ![t] = IF Next1(push_h[t]) = tail_ THEN "idle" ELSE "write"]
  /\ UNCHANGED <<buf_, head_, tail_, push_h, push_v, pop_pc, pop_v, got>>

PushWrite(t) ==
  /\ push_pc[t] = "write"
  /\ buf_' = [buf_ EXCEPT ![push_h[t]] = push_v[t]]
  /\ push_pc' = [push_pc EXCEPT ![t] = "publish"]
  /\ UNCHANGED <<head_, tail_, push_h, push_v, pop_pc, pop_v, got>>

PushPublish(t) ==
  /\ push_pc[t] = "publish"
  /\ head_' = Next1(push_h[t])
  /\ push_pc' = [push_pc EXCEPT ![t] = "idle"]
  /\ UNCHANGED <<buf_, tail_, push_h, push_v, pop_pc, pop_v, got>>

-----------------------------------------------------------------------------
(* pop.  Only the consumer writes tail_, so loading it is no step of its  *)
(* own; a pop that finds the ring empty changes nothing.                   *)

PopLoadHead ==
  /\ pop_pc = "idle"
  /\ tail_ # head_
  /\ pop_pc' = "read"
  /\ UNCHANGED <<buf_, head_, tail_, push_pc, push_h, push_v, pop_v, got>>

\* MUTANT of PopRead: reads the slot after the oldest one.
PopReadNext ==
  /\ pop_pc = "read"
  /\ pop_v' = buf_[Next1(tail_)]
  /\ pop_pc' = "publish"
  /\ UNCHANGED <<buf_, head_, tail_, push_pc, push_h, push_v, got>>

PopRead ==
  /\ pop_pc = "read"
  /\ pop_v' = buf_[tail_]
  /\ pop_pc' = "publish"
  /\ UNCHANGED <<buf_, head_, tail_, push_pc, push_h, push_v, got>>

PopPublish ==
  /\ pop_pc = "publish"
  /\ tail_' = Next1(tail_)
  /\ got' = pop_v
  /\ pop_pc' = "idle"
  /\ UNCHANGED <<buf_, head_, push_pc, push_h, push_v, pop_v>>

Push(t) ==
  \/ \E v \in Items : PushLoadHead(t, v)
  \/ PushLoadTail(t)
  \/ PushWrite(t)
  \/ PushPublish(t)

Pop == PopLoadHead \/ PopRead \/ PopPublish

Next == Pop \/ \E t \in Producers : Push(t)

Spec == Init /\ [][Next]_vars

-----------------------------------------------------------------------------
(* Properties                                                              *)

\* Every register and slot keeps its type.
TypeOK ==
  /\ buf_ \in [Slot -> Items \cup {Nothing}]
  /\ head_ \in Slot /\ tail_ \in Slot
  /\ push_pc \in [Producers -> {"idle", "load_tail", "write", "publish"}]
  /\ push_h \in [Producers -> Slot]
  /\ push_v \in [Producers -> Items \cup {Nothing}]
  /\ pop_pc \in {"idle", "read", "publish"}
  /\ pop_v \in Items \cup {Nothing}
  /\ got \in Items \cup {Nothing}

\* Items between tail and head.
Size == (head_ - tail_ + N) % N

\* The two threads never touch one slot at the same time: a producer about to
\* write, or that has written and not published, is outside the slots the
\* consumer may read.
NoSharedSlot ==
  \A t \in Producers :
    push_pc[t] \in {"write", "publish"} =>
      /\ push_h[t] = head_
      /\ Next1(head_) # tail_
      /\ pop_pc \in {"read", "publish"} => push_h[t] # tail_

\* The ring implements a FIFO of N - 1 items.
Fifo == INSTANCE FifoQueue WITH
          Capacity <- N - 1,
          queue <- [i \in 1..Size |-> buf_[(tail_ + i - 1) % N]]

ImplementsFifo == Fifo!FifoSpec
=============================================================================
