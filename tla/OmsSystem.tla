------------------------------ MODULE OmsSystem ------------------------------
(***************************************************************************)
(* The execution core together with the gateways and the exchanges.  The   *)
(* exchanges are not part of the repository: an order that a gateway takes *)
(* works at its exchange until it is filled, canceled or rejected there,   *)
(* and every one of these events is reported to the core, which handles    *)
(* the report in the same step (exec_report_queue is FIFO, see SpscQueue). *)
(*                                                                         *)
(* The core's timeout cancels a child in the core's own books only: no     *)
(* message goes to the exchange.  LateTimeouts says whether that can be    *)
(* seen: FALSE assumes that timeouts are long: the gateways have drained   *)
(* their queues and the exchange has finished the order, if it ever got    *)
(* it, before its timer fires.  TRUE lets the timer fire at any time.      *)
(***************************************************************************)
EXTENDS ExecutionCore

CONSTANT LateTimeouts

ASSUME SystemAssumption == LateTimeouts \in BOOLEAN

VARIABLES
  venue,      \* per child id, the orders with that id working at an exchange
  executed    \* per instrument, the signed base units really traded

sysVars == <<vars, venue, executed>>

SysInit ==
  /\ Init
  /\ venue = [c \in ChildIds |-> <<>>]
  /\ executed = [i \in Instruments |-> 0]

\* A gateway takes an order from its queue and sends it.
Send(o) ==
  /\ TakeOrder(o)
  /\ venue' = [venue EXCEPT ![o.child] =
                 Append(@, [ex |-> o.ex, instr |-> o.instr, dir |-> o.dir, rem |-> o.qty,
                            acked |-> FALSE, traded |-> FALSE])]
  /\ UNCHANGED executed

\* The exchange is done with the k-th order of child id c.
Remove(c, k) ==
  [venue EXCEPT ![c] = [j \in 1..(Len(@) - 1) |-> IF j < k THEN @[j] ELSE @[j + 1]]]

\* ExecType::NEW, which may come after the first fills of the order.
Ack(c, k) ==
  /\ ~venue[c][k].acked
  /\ venue[c][k].rem > 0
  /\ HandleNew(c)
  /\ venue' = [venue EXCEPT ![c][k].acked = TRUE]
  /\ UNCHANGED executed

\* ExecType::PARTIAL or FILL
Execute(c, k, q) ==
  LET o == venue[c][k]
  IN  /\ q <= o.rem
      /\ HandleFill(c, q)
      /\ venue' = IF q = o.rem THEN Remove(c, k)
                  ELSE [venue EXCEPT ![c][k].rem = @ - q, ![c][k].traded = TRUE]
      /\ executed' = [executed EXCEPT ![o.instr] = @ + Signed(o.dir, q * BookLot[o.ex])]

\* ExecType::CANCELED, or REJECTED for an order that was never acknowledged and
\* has not traded.
Finish(c, k, final) ==
  /\ final = "REJECTED" => ~venue[c][k].acked /\ ~venue[c][k].traded
  /\ HandleCancelReject(c, final, timers)
  /\ Counted
  /\ venue' = Remove(c, k)
  /\ UNCHANGED executed

\* The orders with child id c that are under way or working.
UnderWay(c) == venue[c] # <<>> \/ \E o \in outbound : o.child = c

Timeout(c) ==
  /\ LateTimeouts \/ (venue[c] = <<>> /\ outbound = {})
  /\ ChildTimeout(c)
  /\ IF LateTimeouts THEN Counted ELSE UNCHANGED cancels
  /\ UNCHANGED <<venue, executed>>

\* Steps that concern neither gateways nor exchanges.
CoreStep ==
  /\ \/ \E sig \in Signals : OnStrategyOrder(sig)
     \/ \E i \in Instruments, b \in UnwindModes : SetUnwindMode(i, b)
     \/ TakeReject
  /\ UNCHANGED <<venue, executed>>

Venue(c) ==
  \E k \in 1..Len(venue[c]) :
    \/ Ack(c, k)
    \/ \E q \in 1..venue[c][k].rem : Execute(c, k, q)
    \/ \E final \in {"CANCELED", "REJECTED"} : Finish(c, k, final)

SysNext ==
  \/ CoreStep
  \/ \E o \in outbound : Send(o)
  \/ \E c \in ChildIds : Venue(c)
  \/ \E c \in ChildIds : Timeout(c)

SysSpec == SysInit /\ [][SysNext]_sysVars

\* A timer that may fire.
TimeoutDue ==
  \E c \in ChildIds : timers[c] > 0 /\ (LateTimeouts \/ (venue[c] = <<>> /\ outbound = {}))

\* The execution thread spins, so a due timer fires, and the gateways drain their
\* queues.  Nothing is assumed of the exchanges: an order may rest there for
\* ever.  The second conjunct is weak fairness of Timeout with its enabling
\* condition written out.
FairSpec ==
  /\ SysSpec
  /\ []<>(~TimeoutDue) \/ []<><<\E c \in ChildIds : Timeout(c)>>_sysVars
  /\ WF_sysVars(\E o \in outbound : Send(o))

-----------------------------------------------------------------------------
(* Properties                                                              *)

\* The core and the exchanges agree on every order under way: its child is in
\* use and live, it is the only order with that id, and the core's leaves are
\* what the exchange still works.
BooksAgree ==
  \A c \in ChildIds :
    UnderWay(c) =>
      /\ ReportDue(c)
      /\ Len(venue[c]) + Cardinality({o \in outbound : o.child = c}) = 1
      /\ \A k \in 1..Len(venue[c]) :
           /\ venue[c][k].rem = children[c].leaves
           /\ venue[c][k].ex = children[c].ex
           /\ venue[c][k].dir = parents[children[c].parent].dir

\* A child that the core has closed does not keep working at an exchange: a
\* timed-out order "gets canceled".
NoOrphanOrders == \A c \in ChildIds : venue[c] # <<>> => ReportDue(c)

\* The position is what was really traded, to the base unit, although every fill is
\* converted to canonical lots by itself (to_canonical_lots) and the exchanges
\* trade different lots.  Native lots are whole multiples of the canonical one.
PositionMatchesVenue ==
  \A i \in Instruments : net_qty_lots[i] * LotSize(i) = executed[i]

\* No order of parent p is with a gateway or an exchange: nobody outside the core
\* knows of it.
Forgotten(p) ==
  /\ p \in ParentsInUse
  /\ \A s \in Slots(p) :
       children[SlotChild(p, s)].state \in Live => ~UnderWay(SlotChild(p, s))

\* No order is stranded: when all that is left of a parent was lost on the way
\* (the gateway's queue was full), its timers fire and the rest is sent again or
\* the parent is given up.
NoneStranded == \A p \in ParentIds : Forgotten(p) ~> ~Forgotten(p)
=============================================================================
