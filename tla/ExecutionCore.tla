---------------------------- MODULE ExecutionCore ----------------------------
(***************************************************************************)
(* oms::ExecutionCore (execution_core.cpp): the single execution thread    *)
(* that turns strategy signals into parent orders, splits them into child  *)
(* orders, and follows the children through fills, cancels, rejects and    *)
(* timeouts until the parent is closed.  One action is one handler run to  *)
(* its end; tick() drains the two inbound queues and the timer wheel, so   *)
(* the handlers interleave in any order.                                   *)
(*                                                                         *)
(* The environment of this module keeps a contract (ReportDue): a gateway  *)
(* reports only on a child that the core still counts as live, and never   *)
(* more than the child's leaves.  Module OmsSystem replaces the contract   *)
(* by exchanges that do not know about the core's timeouts.                *)
(***************************************************************************)
EXTENDS FiniteSets, FiniteSetsExt, Sequences, OrderPool, RiskEngine, RoutingContract

CONSTANTS
  kMaxParentOrders,        \* size of the parent pool
  kMaxTotalChildren,       \* size of the child pool
  kMaxChildrenPerParent,   \* child slots of a parent
  kGatewayQueue,           \* orders a gateway's outbound queue holds
  kRejectQueue,            \* rejects reject_queue holds
  SlotOverflow,            \* TRUE: more than kSlotDepth timers may fall into
                           \* one slot of the wheel, so insert() may fail
  Signals,                 \* the signals the strategies may send
  UnwindModes,             \* the values ops may store into unwind_only
  MaxSignals,              \* bound: signals processed
  MaxCancels               \* bound: cancels, rejects and timeouts

ParentIds == 0..(kMaxParentOrders - 1)
ChildIds == 0..(kMaxTotalChildren - 1)

ASSUME CoreAssumption ==
  /\ kMaxParentOrders \in Nat \ {0}
  /\ kMaxTotalChildren \in Nat \ {0}
  /\ kMaxChildrenPerParent \in Nat \ {0}
  /\ kGatewayQueue \in Nat
  /\ kRejectQueue \in Nat
  /\ SlotOverflow \in BOOLEAN
  /\ UnwindModes \subseteq BOOLEAN
  /\ MaxSignals \in Nat
  /\ MaxCancels \in Nat
  /\ Signals \subseteq [instr : Nat, dir : Dirs, qty : Nat,
                        type : {"MAKER", "TAKER"}, reduce_only : BOOLEAN, limit : Nat]

VARIABLES
  parents,        \* OMSOrderPool::parents_
  children,       \* OMSOrderPool::children_
  parent_free,    \* the parents' free list
  child_free,     \* the children's free list
  net_qty_lots,   \* InstrumentPosition::net_qty_lots
  open_lots,      \* open_buy_lots and open_sell_lots
  unwind_only,    \* InstrumentPosition::unwind_only
  timers,         \* number of active wheel entries per child id
  outbound,       \* orders the gateways have not taken yet
  reject_queue,   \* rejects the strategies have not taken yet
  signals,        \* signals processed so far
  cancels         \* cancels, rejects and timeouts processed so far

vars == <<parents, children, parent_free, child_free, net_qty_lots, open_lots,
          unwind_only, timers, outbound, reject_queue, signals, cancels>>

States == {"NEW", "PENDING_NEW", "PARTIALLY_FILLED", "FILLED", "CANCELED", "REJECTED"}
Live == {"PENDING_NEW", "PARTIALLY_FILLED"}

\* A record as memset leaves it.
ZeroChild == [parent |-> 0, ex |-> 0, qty |-> 0, cum |-> 0, leaves |-> 0, state |-> "NEW"]

\* The parent of a signal before it is routed: nothing done, no child.
NewParent(instr, dir, reduce_only, qty) ==
  [instr |-> instr, dir |-> dir, reduce_only |-> reduce_only, total |-> qty, cum |-> 0,
   leaves |-> qty, state |-> "NEW", child_count |-> 0, children |-> [s \in 1..0 |-> 0]]

ZeroParent == NewParent(0, "BUY", FALSE, 0)

Init ==
  /\ parents = [p \in ParentIds |-> ZeroParent]
  /\ children = [c \in ChildIds |-> ZeroChild]
  /\ parent_free = FullList(kMaxParentOrders)
  /\ child_free = FullList(kMaxTotalChildren)
  /\ net_qty_lots = [i \in Instruments |-> 0]
  /\ open_lots = [i \in Instruments |-> [d \in Dirs |-> 0]]
  /\ unwind_only = [i \in Instruments |-> FALSE]
  /\ timers = [c \in ChildIds |-> 0]
  /\ outbound = {}
  /\ reject_queue = <<>>
  /\ signals = 0
  /\ cancels = 0

-----------------------------------------------------------------------------
(* Helpers of the handlers.                                                *)

\* MUTANT of AddOpen: release_open does nothing.
AddOpenNoRelease(open, i, dir, n) == IF n > 0 THEN [open EXCEPT ![i][dir] = @ + n] ELSE open

\* reserve_open (n > 0) and release_open (n < 0)
AddOpen(open, i, dir, n) == [open EXCEPT ![i][dir] = @ + n]

\* MUTANT of CancelTimer: the timer stays armed.
CancelTimerNone(tm, c) == tm

\* TimerWheel::cancel deactivates one entry of the child, if there is one.
CancelTimer(tm, c) == [tm EXCEPT ![c] = IF @ > 0 THEN @ - 1 ELSE 0]

\* RejectReason
RejectReasons == {"NOTIONAL_GATE_BLOCK", "PARENT_POOL_EXHAUSTED", "REDUCE_ONLY_VIOLATION",
                  "RISK_FAT_FINGER", "RISK_POSITION_LIMIT", "RISK_NOTIONAL", "RISK_MARGIN",
                  "NO_LIQUIDITY", "CHILD_POOL_EXHAUSTED"}

\* MUTANT of NotifyReject: the queue's capacity is ignored.
NotifyRejectUnbounded(instr, dir, qty, reason) ==
  reject_queue' =
    Append(reject_queue, [instr |-> instr, dir |-> dir, qty |-> qty, reason |-> reason])

\* notify_reject: the reject is dropped when the queue is full.
NotifyReject(instr, dir, qty, reason) ==
  reject_queue' =
    IF Len(reject_queue) < kRejectQueue
    THEN Append(reject_queue, [instr |-> instr, dir |-> dir, qty |-> qty, reason |-> reason])
    ELSE reject_queue

\* MUTANT of AllChildrenTerminal: only canceled and rejected children count.
AllChildrenCanceled(par, cs) ==
  \A s \in 1..par.child_count : cs[par.children[s]].state \in {"CANCELED", "REJECTED"}

\* MUTANT of AllChildrenTerminal: one terminal child is enough.
AnyChildTerminal(par, cs) ==
  \E s \in 1..par.child_count : cs[par.children[s]].state \notin Live

\* all_children_terminal
AllChildrenTerminal(par, cs) ==
  \A s \in 1..par.child_count : cs[par.children[s]].state \notin Live

-----------------------------------------------------------------------------
(* A handler computes new values step by step and its last operator (Close, *)
(* GiveUp or Dispatch) stores them.  In between they travel in a record w:  *)
(*   par (the parent's record), children, timers, open, child_free,        *)
(*   parent_free                                                           *)

\* Store parent record par and what is in w.
Store(p, par, w) ==
  /\ parents' = [parents EXCEPT ![p] = par]
  /\ children' = w.children
  /\ timers' = w.timers
  /\ open_lots' = w.open
  /\ child_free' = w.child_free
  /\ parent_free' = w.parent_free

\* The children in the parent's slots go back to the pool, slot by slot; the
\* parent's record and the reservations become par and open.
FreeChildren(w, par, open) ==
  [par |-> par, children |-> w.children, timers |-> w.timers, open |-> open,
   child_free |-> Push(w.child_free, w.par.child_count, w.par.children),
   parent_free |-> w.parent_free]

FreeParent(p, w) == [w EXCEPT !.parent_free = PushOne(w.parent_free, p)]

\* MUTANT of Close: the children are not freed.
CloseLeaksChildren(p, w) ==
  /\ Store(p, [w.par EXCEPT !.state = "FILLED"], FreeParent(p, w))
  /\ UNCHANGED <<outbound, reject_queue>>

\* handle_fill and handle_cancel_reject when nothing is left to fill.
Close(p, w) ==
  /\ Store(p, [w.par EXCEPT !.state = "FILLED"],
           FreeParent(p, FreeChildren(w, w.par, w.open)))
  /\ UNCHANGED <<outbound, reject_queue>>

\* MUTANT of GiveUp: nobody is told.
GiveUpSilently(p, w, reason) ==
  /\ Store(p, [w.par EXCEPT !.state = "REJECTED"], FreeParent(p, w))
  /\ UNCHANGED <<outbound, reject_queue>>

\* A parent that is given up with lots left: some of it may have been filled.
GiveUp(p, w, reason) ==
  /\ Store(p, [w.par EXCEPT !.state = IF w.par.cum > 0 THEN "PARTIALLY_FILLED"
                                                     ELSE "REJECTED"],
           FreeParent(p, w))
  /\ NotifyReject(w.par.instr, w.par.dir, w.par.leaves, reason)
  /\ UNCHANGED outbound

-----------------------------------------------------------------------------
(* dispatch_child_orders, for a parent whose child slots are empty.        *)

LegQty(split, k) == split.rem[k - 1] - split.rem[k]

\* Legs that get a child: the loop stops at the parent's last slot and at an
\* empty child pool.
Dispatched(split, free) ==
  LET slots == IF split.count < kMaxChildrenPerParent THEN split.count
                                                      ELSE kMaxChildrenPerParent
  IN  IF slots < free.top THEN slots ELSE free.top

\* The leg that wrote child record c last (ids are distinct unless an id is on
\* the free list twice).
LastLeg(ids, n, c) == CHOOSE k \in 1..n : ids[k] = c /\ \A j \in (k + 1)..n : ids[j] # c

NewChild(p, i, split, k) ==
  LET lots == ToLots(LegQty(split, k), i, split.ex[k])
  IN  [parent |-> p, ex |-> split.ex[k], qty |-> lots, cum |-> 0, leaves |-> lots,
       state |-> "PENDING_NEW"]

\* The legs the gateway queues have room for; the others are lost.
Accepted(split, n) ==
  {k \in 1..n :
     LET e == split.ex[k]
     IN  Cardinality({o \in outbound : o.ex = e})
           + Cardinality({j \in 1..k : split.ex[j] = e}) <= kGatewayQueue}

OutboundOrder(c, par, split, k) ==
  [child |-> c, ex |-> split.ex[k], instr |-> par.instr, dir |-> par.dir,
   qty |-> ToLots(LegQty(split, k), par.instr, split.ex[k])]

\* w after the first n legs got their children; `missed' are the legs whose
\* timer found its slot of the wheel full.  The legs beyond n are a gap whose
\* reservation is released.
AfterLegs(p, w, split, n, missed) ==
  LET ids == Popped(w.child_free, n)
  IN  [par |-> [w.par EXCEPT !.child_count = n, !.children = ids],
       children |-> [c \in ChildIds |->
                       IF \E k \in 1..n : ids[k] = c
                       THEN NewChild(p, w.par.instr, split, LastLeg(ids, n, c))
                       ELSE w.children[c]],
       timers |-> [c \in ChildIds |->
                     w.timers[c] + Cardinality({k \in (1..n) \ missed : ids[k] = c})],
       open |-> AddOpen(w.open, w.par.instr, w.par.dir, split.rem[split.count] - split.rem[n]),
       child_free |-> Pop(w.child_free, n),
       parent_free |-> w.parent_free]

DispatchChildOrders(p, w, split) ==
  LET n == Dispatched(split, w.child_free)
  IN  \E missed \in SUBSET (1..n) :
        /\ missed # {} => SlotOverflow
        /\ LET w1 == AfterLegs(p, w, split, n, missed)
           IN  IF n = 0
               THEN GiveUp(p, w1, "CHILD_POOL_EXHAUSTED")
               ELSE /\ Store(p, w1.par, w1)
                    /\ outbound' = outbound \cup
                         {OutboundOrder(w1.par.children[k], w.par, split, k) :
                            k \in Accepted(split, n)}
                    /\ UNCHANGED reject_queue

-----------------------------------------------------------------------------
(* on_strategy_order                                                       *)

\* A signal that dies after its parent was allocated: the parent is freed.
Refuse(p, par, sig, reason) ==
  /\ parents' = [parents EXCEPT ![p] = [par EXCEPT !.state = "REJECTED"]]
  /\ NotifyReject(sig.instr, sig.dir, sig.qty, reason)
  /\ UNCHANGED <<children, parent_free, child_free, open_lots, timers, outbound>>

\* Risk checks, routing, reservation and dispatch of the clamped quantity.
Route(p, par, sig) ==
  \E margin_ok \in MarginOk :
    LET net    == IF sig.instr \in Instruments THEN net_qty_lots[sig.instr] ELSE 0
        answer == Validate(sig, par.leaves, net, margin_ok)
    IN  IF answer # "OK" THEN Refuse(p, par, sig, answer)
        ELSE \E split \in IF sig.type = "MAKER" THEN MakerSplits(par.leaves)
                                                ELSE OptimalSplits(par.leaves) :
               IF split.count = 0 THEN Refuse(p, par, sig, "NO_LIQUIDITY")
               ELSE DispatchChildOrders(p,
                      [par |-> [par EXCEPT !.state = "PENDING_NEW"],
                       children |-> children, timers |-> timers,
                       open |-> AddOpen(open_lots, sig.instr, sig.dir, par.leaves),
                       child_free |-> child_free, parent_free |-> Pop(parent_free, 1)],
                      split)

\* MUTANT of Constrained: unwind mode is not consulted.
ConstrainedByFlag(sig, unwind) == sig.instr \in Instruments /\ sig.reduce_only

\* The signal may only reduce the position: its own flag, or the instrument's mode.
Constrained(sig, unwind) ==
  sig.instr \in Instruments /\ (sig.reduce_only \/ unwind[sig.instr])

\* Clamp, then Route.  unwind_only is read twice, once by the clamp and once for
\* parent.reduce_only; ops may store a new value in between (unwind_only').
Admit(sig) ==
  LET p       == parent_free.ids[parent_free.top]
      i       == sig.instr
      ok      == i \in Instruments
      clamped == IF ok THEN ClampReduceOnly(sig.dir, sig.qty,
                                            Constrained(sig, unwind_only),
                                            net_qty_lots[i], open_lots[i][sig.dir])
                       ELSE sig.qty
      par     == NewParent(i, sig.dir, Constrained(sig, unwind_only'), clamped)
  IN  /\ unwind_only' \in {unwind_only} \cup
                          {[unwind_only EXCEPT ![i] = b] : b \in IF ok THEN UnwindModes ELSE {}}
      /\ IF ok /\ clamped = 0
         THEN Refuse(p, par, sig, "REDUCE_ONLY_VIOLATION")
         ELSE Route(p, par, sig)

OnStrategyOrder(sig) ==
  /\ signals < MaxSignals
  /\ signals' = signals + 1
  /\ UNCHANGED <<net_qty_lots, cancels>>
  /\ \E approved \in Approvals(sig) :
       IF approved /\ parent_free.top > 0 THEN Admit(sig)
       ELSE /\ NotifyReject(sig.instr, sig.dir, sig.qty,
                            IF approved THEN "PARENT_POOL_EXHAUSTED"
                                        ELSE "NOTIONAL_GATE_BLOCK")
            /\ UNCHANGED <<parents, children, parent_free, child_free, open_lots,
                           unwind_only, timers, outbound>>

-----------------------------------------------------------------------------
(* reroute_leaves: called when no child of the parent is live.  Every slot *)
(* holds a filled, canceled or rejected child then, so all are freed.      *)

\* MUTANT of RerouteLeaves: routes the whole order again, not what is left of it.
RerouteTotal(p, w, net) ==
  \E split \in OptimalSplits(w.par.total) :
    LET w1 == FreeChildren(w, [w.par EXCEPT !.state = "PENDING_NEW", !.child_count = 0,
                                            !.children = [s \in 1..0 |-> 0]], w.open)
    IN  IF split.count = 0 THEN GiveUp(p, w1, "NO_LIQUIDITY")
                           ELSE DispatchChildOrders(p, w1, split)

\* MUTANT of RerouteLeaves: gives up before the cleanup loop has run.
RerouteReturnsEarly(p, w, net) ==
  \E split \in OptimalSplits(w.par.leaves) :
    IF split.count = 0 THEN GiveUp(p, w, "NO_LIQUIDITY")
    ELSE DispatchChildOrders(p,
           FreeChildren(w, [w.par EXCEPT !.state = "PENDING_NEW", !.child_count = 0,
                                         !.children = [s \in 1..0 |-> 0]], w.open), split)

\* reroute_leaves
RerouteLeaves(p, w, net) ==
  LET par    == w.par
      safe   == ClampReduceOnly(par.dir, par.leaves, par.reduce_only, net[par.instr],
                                w.open[par.instr][par.dir])
      left   == IF safe < par.leaves THEN safe ELSE par.leaves
      excess == par.leaves - left
      shrunk == [par EXCEPT !.total = @ - excess, !.leaves = left,
                            !.child_count = 0, !.children = [s \in 1..0 |-> 0]]
      open   == AddOpen(w.open, par.instr, par.dir, -excess)
  IN  IF par.reduce_only /\ left = 0
      THEN \* REROUTE_REDUCE_ONLY_DONE: nobody is told
           /\ Store(p, [shrunk EXCEPT !.state = IF par.cum > 0 THEN "FILLED" ELSE "REJECTED"],
                    FreeParent(p, FreeChildren(w, shrunk, open)))
           /\ UNCHANGED <<outbound, reject_queue>>
      ELSE \E split \in OptimalSplits(left) :
             IF split.count = 0 THEN GiveUp(p, FreeChildren(w, shrunk, open), "NO_LIQUIDITY")
             ELSE DispatchChildOrders(p,
                    FreeChildren(w, [shrunk EXCEPT !.state = "PENDING_NEW"], open), split)

\* A handler that leaves the parent waiting for its other children.
Wait(p, w) ==
  /\ Store(p, w.par, w)
  /\ UNCHANGED <<outbound, reject_queue>>

-----------------------------------------------------------------------------
(* on_execution_report                                                     *)

HandleFill(c, q) ==
  LET ch   == children[c]
      p    == ch.parent
      par  == parents[p]
      fill == ToCanonicalLots(q, par.instr, ch.ex)
      left == ch.qty - (ch.cum + q)
      w    == [par |-> [par EXCEPT !.cum = @ + fill, !.leaves = par.total - (par.cum + fill),
                                   !.state = "PARTIALLY_FILLED"],
               children |-> [children EXCEPT ![c] =
                               [ch EXCEPT !.cum = @ + q, !.leaves = left,
                                          !.state = IF left = 0 THEN "FILLED"
                                                                ELSE "PARTIALLY_FILLED"]],
               timers |-> CancelTimer(timers, c),
               open |-> AddOpen(open_lots, par.instr, par.dir, -fill),
               child_free |-> child_free, parent_free |-> parent_free]
  IN  /\ net_qty_lots' = [net_qty_lots EXCEPT ![par.instr] = @ + Signed(par.dir, fill)]
      /\ IF w.par.leaves = 0 THEN Close(p, w)
         ELSE IF AllChildrenTerminal(w.par, w.children) THEN RerouteLeaves(p, w, net_qty_lots')
         ELSE Wait(p, w)
      /\ UNCHANGED <<unwind_only, signals, cancels>>

\* final is "CANCELED" or "REJECTED"; tm are the timers when the report comes in.
HandleCancelReject(c, final, tm) ==
  LET ch   == children[c]
      p    == ch.parent
      par  == parents[p]
      lost == ToCanonicalLots(ch.leaves, par.instr, ch.ex)
      w    == [par |-> par,
               children |-> [children EXCEPT ![c] = [ch EXCEPT !.leaves = 0, !.state = final]],
               timers |-> CancelTimer(tm, c),
               open |-> AddOpen(open_lots, par.instr, par.dir, -lost),
               child_free |-> child_free, parent_free |-> parent_free]
  IN  /\ IF par.leaves <= 0 THEN Close(p, w)
         ELSE IF AllChildrenTerminal(par, w.children) THEN RerouteLeaves(p, w, net_qty_lots)
         ELSE Wait(p, w)
      /\ UNCHANGED <<net_qty_lots, unwind_only, signals>>

\* ExecType::NEW sets PENDING_NEW whatever the state was: an acknowledgement that
\* comes after the first fill takes the child back from PARTIALLY_FILLED.
HandleNew(c) ==
  /\ children' = [children EXCEPT ![c].state = "PENDING_NEW"]
  /\ UNCHANGED <<parents, parent_free, child_free, net_qty_lots, open_lots, unwind_only,
                 timers, outbound, reject_queue, signals, cancels>>

-----------------------------------------------------------------------------
(* The timer callback of the constructor.  The wheel has deactivated the   *)
(* entry before it calls back; a terminal child is ignored.                *)

ChildTimeout(c) ==
  LET fired == [timers EXCEPT ![c] = @ - 1]
  IN  /\ timers[c] > 0
      /\ IF children[c].state \in Live
         THEN HandleCancelReject(c, "CANCELED", fired)
         ELSE /\ timers' = fired
              /\ UNCHANGED <<parents, children, parent_free, child_free, net_qty_lots,
                             open_lots, unwind_only, outbound, reject_queue, signals>>

-----------------------------------------------------------------------------
(* The other threads.                                                      *)

\* set_unwind_mode, by ops
SetUnwindMode(i, enabled) ==
  /\ unwind_only' = [unwind_only EXCEPT ![i] = enabled]
  /\ UNCHANGED <<parents, children, parent_free, child_free, net_qty_lots, open_lots,
                 timers, outbound, reject_queue, signals, cancels>>

\* A strategy takes the oldest reject.
TakeReject ==
  /\ reject_queue # <<>>
  /\ reject_queue' = Tail(reject_queue)
  /\ UNCHANGED <<parents, children, parent_free, child_free, net_qty_lots, open_lots,
                 unwind_only, timers, outbound, signals, cancels>>

\* A gateway takes an order.
TakeOrder(o) ==
  /\ outbound' = outbound \ {o}
  /\ UNCHANGED <<parents, children, parent_free, child_free, net_qty_lots, open_lots,
                 unwind_only, timers, reject_queue, signals, cancels>>

-----------------------------------------------------------------------------
(* The specification under the gateways' contract.                         *)

ChildrenInUse == ChildIds \ FreeIds(child_free)
ParentsInUse == ParentIds \ FreeIds(parent_free)

\* The bound on cancels, rejects and timeouts.
Counted == cancels < MaxCancels /\ cancels' = cancels + 1

\* A report on child c is due: the core counts the child as live.
ReportDue(c) == c \in ChildrenInUse /\ children[c].state \in Live

OnExecutionReport(c) ==
  /\ ReportDue(c)
  /\ \/ \E q \in 1..children[c].leaves : HandleFill(c, q)
     \/ \E final \in {"CANCELED", "REJECTED"} : HandleCancelReject(c, final, timers) /\ Counted
     \/ HandleNew(c)

Next ==
  \/ \E sig \in Signals : OnStrategyOrder(sig)
  \/ \E c \in ChildIds : OnExecutionReport(c)
  \/ \E c \in ChildIds : ChildTimeout(c) /\ Counted
  \/ \E i \in Instruments, b \in UnwindModes : SetUnwindMode(i, b)
  \/ TakeReject
  \/ \E o \in outbound : TakeOrder(o)

Spec == Init /\ [][Next]_vars
-----------------------------------------------------------------------------
(* Properties                                                              *)

SlotArray == UNION {[1..n -> ChildIds] : n \in 0..kMaxChildrenPerParent}

ParentOrder ==
  [instr : Nat, dir : Dirs, reduce_only : BOOLEAN, total : Int, cum : Int, leaves : Int,
   state : States, child_count : 0..kMaxChildrenPerParent, children : SlotArray]

ChildOrderState ==
  [parent : ParentIds, ex : Exchanges, qty : Int, cum : Int, leaves : Int, state : States]

OutboundOrders ==
  [child : ChildIds, ex : Exchanges, instr : Nat, dir : Dirs, qty : Int]

OrderReject == [instr : Nat, dir : Dirs, qty : Int, reason : RejectReasons]

\* Every variable keeps its type: slot arrays and free lists are as long as their
\* fill levels, and reject_queue keeps its capacity.
TypeOK ==
  /\ parents \in [ParentIds -> ParentOrder]
  /\ \A p \in ParentIds : DOMAIN parents[p].children = 1..parents[p].child_count
  /\ children \in [ChildIds -> ChildOrderState]
  /\ parent_free.top \in Nat /\ parent_free.ids \in [1..parent_free.top -> ParentIds]
  /\ child_free.top \in Nat /\ child_free.ids \in [1..child_free.top -> ChildIds]
  /\ net_qty_lots \in [Instruments -> Int]
  /\ open_lots \in [Instruments -> [Dirs -> Int]]
  /\ unwind_only \in [Instruments -> BOOLEAN]
  /\ timers \in [ChildIds -> Nat]
  /\ outbound \subseteq OutboundOrders
  /\ reject_queue \in Seq(OrderReject)
  /\ Len(reject_queue) <= kRejectQueue
  /\ signals \in 0..MaxSignals /\ cancels \in 0..MaxCancels

\* The slots of parent p and what they hold.
Slots(p) == 1..parents[p].child_count
SlotChild(p, s) == parents[p].children[s]

\* free_parent and free_child have no double-free check, so the core must never
\* free an id twice, lose one, or let two parents share a child: both free lists
\* are duplicate-free, the slots of the parents in use hold distinct children
\* in use that point back to them, and no child is in use outside such a slot.
PoolIntegrity ==
  /\ NoDuplicates(parent_free) /\ NoDuplicates(child_free)
  /\ \A p \in ParentsInUse : \A s \in Slots(p) :
       /\ SlotChild(p, s) \in ChildrenInUse
       /\ children[SlotChild(p, s)].parent = p
       /\ \A r \in Slots(p) : SlotChild(p, r) = SlotChild(p, s) => r = s
  /\ \A c \in ChildrenInUse :
       /\ children[c].parent \in ParentsInUse
       /\ \E s \in Slots(children[c].parent) : SlotChild(children[c].parent, s) = c

\* No parent is parked: an order in use always has a live child, so the core is
\* still waiting for a report (the concern of DISPATCH_EMPTY,
\* REROUTE_NO_LIQUIDITY and of the all_children_terminal call in handle_fill).
\* That the report comes is the gateways' part: a child that was filled in part
\* has no timer any more (handle_fill cancels it).
NoParkedParent ==
  \A p \in ParentsInUse :
    /\ parents[p].state \in Live
    /\ \E s \in Slots(p) : children[SlotChild(p, s)].state \in Live

\* Timers and children match: an id has at most one active timer, and only while
\* the core counts its child as live, so a timer never fires for a child that
\* was freed and handed to another parent; and a live child that has traded
\* nothing has one, whatever acknowledgements came in, unless the wheel refused
\* the insert (its slot was full): a lost order is always noticed.
TimersMatch ==
  \A c \in ChildIds :
    /\ timers[c] \in {0, 1}
    /\ timers[c] = 1 => ReportDue(c)
    /\ ~SlotOverflow /\ ReportDue(c) /\ children[c].cum = 0 => timers[c] = 1

\* The canonical lots of parent p that the child in slot s still works.
Worked(p, s) ==
  ToCanonicalLots(children[SlotChild(p, s)].leaves, parents[p].instr,
                  children[SlotChild(p, s)].ex)

\* A parent never fills more than it asked for, and its children together never
\* work more than it still wants: the leaves of the children, in canonical lots,
\* fit one after the other into the leaves of the parent.
NoOverfill ==
  \A p \in ParentsInUse :
    LET par == parents[p]
    IN  /\ par.leaves = par.total - par.cum
        /\ par.cum >= 0 /\ par.leaves > 0
        /\ \E at \in [Slots(p) -> 0..par.leaves] :
             /\ \A s \in Slots(p) : at[s] + Worked(p, s) <= par.leaves
             /\ \A r, s \in Slots(p) : r < s => at[r] + Worked(p, r) <= at[s]
-----------------------------------------------------------------------------
(* What the strategies are told.                                           *)

\* Parent p leaves the pool's books in this step.
Dies(p) == p \in ParentsInUse /\ p \notin ParentsInUse'

\* This step queued a reject, or found reject_queue full and dropped it.
Told == Len(reject_queue') > Len(reject_queue) \/ Len(reject_queue) = kRejectQueue

\* No signal vanishes: a handled signal becomes a parent in use or a reject, and
\* a parent that dies short of its quantity is rejected too ("every place a
\* signal can die ... pushes an OrderReject").  Reduce-only parents are left
\* out: REROUTE_REDUCE_ONLY_DONE closes them without a reject.
NoSilentDeath ==
  [][/\ signals' # signals /\ ParentsInUse' = ParentsInUse => Told
     /\ \A p \in ParentIds :
          Dies(p) /\ ~parents[p].reduce_only /\ parents'[p].cum < parents[p].total => Told]_vars

\* A signal that becomes no order leaves no trace: no reservation, child, timer
\* or outbound order of it remains, and its parent record is free again,
\* wherever in the pipeline it died (after reserve_open and with no child left
\* for it, too).
RefusedLeavesNoTrace ==
  [][signals' # signals /\ ParentsInUse' = ParentsInUse =>
       UNCHANGED <<open_lots, child_free, parent_free, timers, outbound>>]_vars

-----------------------------------------------------------------------------
(* Reservations and the reduce-only rule.                                  *)

\* What the parents in use still want to trade on instrument i in direction dir.
Outstanding(i, dir) ==
  MapThenSumSet(LAMBDA p : parents[p].leaves,
                {p \in ParentsInUse : parents[p].instr = i /\ parents[p].dir = dir})

\* open_buy_lots and open_sell_lots, from which clamp_reduce_only computes its
\* headroom, are what the orders in use still want to trade.
OpenMatchesLeaves ==
  \A i \in Instruments, dir \in Dirs : open_lots[i][dir] = Outstanding(i, dir)

\* A fill of a reduce-only parent never grows or flips the position.
ReduceOnlyNeverFlips ==
  [][\A p \in ParentsInUse :
       LET i == parents[p].instr
       IN  parents[p].reduce_only /\ parents'[p].cum > parents[p].cum =>
             /\ Abs(net_qty_lots'[i]) <= Abs(net_qty_lots[i])
             /\ net_qty_lots'[i] * net_qty_lots[i] >= 0]_vars

\* The position stays within max_net_lots: check_position looks at the confirmed
\* position only, and what is admitted against it may be split, lost, rerouted
\* and filled in parts.  (Two orders admitted against the same position can
\* break the limit together: this holds for one parent at a time.)
PositionWithinLimit ==
  \A i \in Instruments : MaxNetLots[i] > 0 => Abs(net_qty_lots[i]) <= MaxNetLots[i]

\* Instrument i has no order in use.
Flat(i) == \A p \in ParentsInUse : parents[p].instr # i

\* Once ops have an instrument in unwind mode and its older orders are gone, the
\* position never grows again while the mode stays on, whatever the strategies
\* send and however an order is lost, split or rerouted ("a strategy bug that
\* forgets the flag during an active unwind still can't grow the position").
\* Checked for one order in flight at a time: two that are canceled and rerouted
\* can flip the position between them, see ReduceOnlyNeverFlips.
UnwindOnlyShrinks ==
  \A i \in Instruments, n \in 0..1 :
    [](/\ Flat(i) /\ Abs(net_qty_lots[i]) <= n
       /\ [](unwind_only[i])
       => [](Abs(net_qty_lots[i]) <= n))

-----------------------------------------------------------------------------
(* What a strategy sees of it all: module OrderLedger.                     *)

\* The ledger's view of parent p.
LedgerOrder(p) ==
  IF p \in ParentsInUse
  THEN [instr |-> parents[p].instr, dir |-> parents[p].dir, want |-> parents[p].leaves]
  ELSE [instr |-> 0, dir |-> "BUY", want |-> 0]

Ledger == INSTANCE OrderLedger WITH
            OrderIds <- ParentIds, Books <- Instruments,
            orders <- [p \in ParentIds |-> LedgerOrder(p)], net <- net_qty_lots

\* The core implements the ledger: a position only moves when an open parent
\* trades, in its direction and by no more than it still wants; ids are reused
\* only once their order is gone, and no handler touches two orders.
ImplementsLedger == Ledger!LedgerSpec
=============================================================================
