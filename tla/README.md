# A TLA+ model of the order management system

This directory holds a formal model of the OMS in `src/`: TLA+ modules translated
from the C++ code, TLC configurations that check them on small instances, and
theorems about them that TLAPS checks for every instance.

## 1. The system

The OMS is a single-process trading back end. Strategies push signals; one
*execution thread* turns every signal into a parent order, splits it over several
exchanges, follows the pieces and keeps the position; one gateway thread per
exchange carries messages. `PROJECT.json` names the source lines behind every
definition.

| Component | State | Operations | Talks to |
|---|---|---|---|
| `ExecutionCore` (`oms/execution_core.cpp`) | parents, children, position, timers | `on_strategy_order`, `on_execution_report`, timer callback, `dispatch_child_orders`, `reroute_leaves`, `notify_reject` | everything below |
| `OMSOrderPool` (`oms/order_pool.hpp`) | two arrays of records, two LIFO free lists | alloc, free (no double-free check) | core |
| `PreTradeRiskEngine` (`oms/risk_engine.hpp`) | limits | `validate`, `clamp_reduce_only` | position |
| `NotionalConfirmationGate` (`oms/notional_gate.hpp`) | thresholds | `approve`, may block on a prompt | operator |
| `InstrumentTable` (`oms/oms_types.hpp`, `sor/types.hpp`) | canonical lot sizes | `lot_size`, `to_lots`, `to_canonical_lots` | core, router |
| `PositionTracker` (`oms/position_tracker.hpp`) | net lots, open buy/sell lots, `unwind_only` | fill, `reserve_open`, `release_open`, `set_unwind_mode` | core, ops thread |
| `RoutingEngine` (`sor/routing_engine.cpp`) | fees, a workspace of cost slices | `calculate_optimal_split` (`build_cost_slices`, `greedy_fill`), `calculate_maker_placement` | core, books |
| `NormalizedBook`, `ExchangeState` (`sor/`) | sorted levels, sequence number, `is_valid`, latency | `apply_sequence`, `invalidate` | feed handlers, router |
| `BookSnapshotCache` (`oms/book_snapshot.hpp`) | volatility, imbalance and a time stamp per exchange | `update`, `get_routing_inputs` | feed handlers, core |
| `MarginMonitor` (`oms/margin_monitor.hpp`) | equity, locked margin, unrealised profit, published margin | `on_fill`, `on_release`, `on_rest_update`, `on_mark_price` | core, REST and feed threads, risk engine |
| `AsyncLogger` (`oms/logger.hpp`) | ring, file, `running_` | `init`, `log`, `drain_loop`, `shutdown` | every thread |
| `TimerWheel` (`oms/timer_wheel.hpp`) | one ring of slots, own clock | `insert`, `cancel`, `tick`, `check_slot` | core, by callback |
| `SpscQueue` (`oms/spsc_queue.hpp`) | ring, head, tail | `push`, `pop` | strategy, core, gateways |
| `TwapScheduler` (`algos/twap_scheduler.hpp`) | lots and slices left, next deadline | `start`, `tick` | a strategy thread |
| Gateways, exchanges | not in the repository | send an order, report on it | `OutboundOrder`, `ExecutionReport` |
| `Dashboard` | none | polls and prints | reads core and positions |

What makes it hard:

* **Ordering.** Fills, cancels, rejects, timeouts, new signals and the ops switch
  arrive in any order. A cancel reroutes, a reroute frees and reallocates children
  under the same ids, and ids are reused at once.
* **Partial failure.** The child pool runs dry in the middle of a split, a gateway
  queue is full, the reject queue is full, the books are empty at a reroute. The
  parent must neither be parked without a live child nor be freed twice.
* **Timeouts** are local: the timer synthesizes a cancel report and sends nothing
  to the exchange, which may still fill the order.
* **Numbers.** Quantities are truncated to native lots on the way out and rounded
  to canonical lots on the way back; wheel slots are aliased modulo the ring;
  `std::clamp` is undefined when its bounds cross; limits are rounded to ticks; the
  difference of two clocks is unsigned.
* **Threads.** Rings written by one thread and read by another; a switch stored by
  a third; an operator's prompt that keeps the execution thread from its timers;
  snapshots read field by field while they are stored; a margin that three threads
  recompute from each other's inputs; a shutdown that meets a busy drain thread.
* **Delivery.** Book updates are lost, repeated and reordered on the way.

Correctness, component by component: every id is free or owned exactly once; every
open order has something that will still move it; no order trades more than was
asked for; reduce-only orders do not grow or flip a position; every dead end is
told to the strategy and leaves nothing reserved; a timer fires in the tick of its
deadline; a queue is a FIFO; a TWAP schedule hands out exactly its quantity; a
split takes the cheapest levels first, within limit and minimum sizes, and never more
than its target; a book is used only while it is complete; market data is no older
than it claims; no log entry that was published before a shutdown is lost; every
change of a margin input is published.

## 2. Modules

```
Lots ── RiskEngine ──┐
  └──── RoutingContract ── ExecutionCore ── OmsSystem
        │     OrderPool ──┘      │ implements
        │ implemented by        OrderLedger
        RoutingEngine
SpscQueue ── AsyncLogger       SpscQueue implements FifoQueue
MarketData    MarginMonitor    TimerWheel    TwapScheduler   (on their own)

ArithmeticLemmas ─┬─ ExecutionCoreProofs ── OmsSystemProofs
                  ├─ RoutingEngineProofs
                  └─ TimerWheelProofs
AsyncLoggerProofs (ring and logger)    SharedInputsProofs (market data, margin)
TwapSchedulerProofs
MC*  (values for TLC)
```

* **`OrderPool`** – free lists as the code has them, a fill level and an array;
  a second free of an id is representable.
* **`Lots`** – `ToLots` truncates the double quotient, `ToCanonicalLots` rounds.
  Lot sizes are integers of a base unit. The set `RoundsDown` names quantities
  *n* whose double quotient `(n*l)/l` falls just below *n*, where truncation loses
  a whole lot. 1 and 2 never do (the products are exact), which the assumption says.
* **`RiskEngine`** – gate, limits and the reduce-only clamp, in the code's order.
  The operator's answer is a free choice; so is the margin comparison (`MarginOk`).
* **`RoutingContract`** – what the core relies on: a split is the decreasing trace
  of `remaining_lots` over its legs with an exchange per leg. Prices, fees and
  latencies only decide *which* of these splits is returned.
* **`ExecutionCore`** – one action per handler, run to its end, because one thread
  runs them: `OnStrategyOrder`, `OnExecutionReport` (`HandleFill`,
  `HandleCancelReject`, `HandleNew`), `ChildTimeout`. A handler threads its
  intermediate values through a record `w` and stores them in its last step; this
  keeps the order in which the code releases, frees, clamps, routes and dispatches.
  `unwind_only` is read twice in one handler, and `Admit` lets ops store in between.
  The environment obeys a contract (`ReportDue`): it reports on live children only.
  A `NEW` may come at any time while a child is live, after its first fills too.
* **`OmsSystem`** – replaces that contract by gateways and exchanges with orders of
  their own. `LateTimeouts` says whether a timer may fire while the exchange still
  has the order.
* **`OrderLedger`** – the abstract promise to a strategy: an order that wants
  something, and a position that moves only by what an open order still wants.
* **`RoutingEngine`** – one routing decision. `OpenCursors`, `Merge` and `Merged`
  are `build_cost_slices` (a step per round of the merge loop), `Fill` and `Filled`
  are `greedy_fill`, `Place` is `calculate_maker_placement`. Prices are ticks and book
  quantities native lots, as in the code; fee and latency are one adjustment per
  exchange, the fill rate a percentage, both arbitrary within the run's sets.
* **`SpscQueue`** – `push` and `pop` split at each shared access; acquire/release
  on both indices lets the model use sequential steps. `FifoQueue` is what it
  implements.
* **`AsyncLogger`** – has the same ring, so it extends `SpscQueue`: `log` is a push
  that counts what it drops, the drain thread pops, writes and flushes, `shutdown`
  clears `running_` and joins. The file is two counters, entries written and entries
  flushed.
* **`MarketData`** – `apply_sequence` under a network that loses, repeats and
  reorders (the feed handlers are external), and the snapshot cache: every store of
  `update` and every load of `get_routing_inputs` is a step, relaxed ones in any
  order, bounded by the release store and the acquire load of the time stamp. Time
  stamps have a width, since `now_ns - ts` is unsigned.
* **`MarginMonitor`** – the calls of three threads, split at each load and store.
  History variables say whether another thread stored an input while a thread
  recomputed (`stale`, `disturbed`).
* **`TimerWheel`** – real clock and wheel clock are separate; `check_slot` proceeds
  entry by entry and its callback may insert and cancel in between.
* **`TwapScheduler`** – all slice sizes and intervals the jitter can draw, computed
  with scaled integers.

Operators introduced by a `MUTANT of ...` comment are wrong variants of the
operator that follows. No specification uses them; each stands for a plausible bug,
and substituting it must make TLC report the property listed with it in
`PROJECT.json`. They show that the properties can fail.

### Abstractions

Prices, strategy ids, timestamps and log text are left out. A signal's quantity is
not negative. `outbound` is a set: the order in which gateways take orders is open.
A report is handled in the step in which the exchange produces it, since the report
queue only delays it. Whether a wheel slot overflows is the constant `SlotOverflow`.
A slot array is as long as the number of children, since the code never reads
beyond it. Threads interleave one atomic access at a time; store buffers are not
modelled, and no property of `MarginMonitor` rests on an order between two relaxed
stores. Books do not change during a routing decision, as `exchange_state.hpp` says
they do not. The unrealised profit of a mark price is any of a set, so that
`avg_entry_price` is not needed.

## 3. Runs

| Run | Checks | Shows |
|---|---|---|
| `CoreFaults` | `TypeOK`, `PoolIntegrity`, `NoParkedParent`, `TimersMatch`, `NoOverfill`, `NoSilentDeath`, `ImplementsLedger` | with two parents competing for two children, one-order gateway queues and a one-place reject queue, on exchanges with different lots, through losses, late acknowledgements, cancels, rejects, timeouts and empty books |
| `CorePositions` | `OpenMatchesLeaves`, `ReduceOnlyNeverFlips` | interleaved buys and reduce-only sells in parts: reservations are exact and the clamp works, as long as nothing is canceled |
| `CoreAdmission` | `PositionWithinLimit`, `UnwindOnlyShrinks`, `RefusedLeavesNoTrace` | every answer of the gate and the risk engine, an unknown instrument, unwind mode switched on and off at any time, an exhausted child pool, a cancel and an overflowing wheel slot |
| `System` | `BooksAgree`, `PositionMatchesVenue`, `PoolIntegrity`, `NoneStranded` | core and two exchanges with different lots agree when timeouts are long enough, and what was lost on the way is taken up again, although gateway queues lose orders, `to_lots` loses lots and acknowledgements are late |
| `Router` | `EngineTypeOK`, `SlicesSorted`, `KeepsContract`, `CheapestFirst`, `WithinLimit`, `LegsTradable` | all books of up to two levels on two exchanges with different lots, under fees, rebates, latencies, fill rates and limits: the split is the cheapest one (tick sizes agree), and usable |
| `Market` | `ValidIsComplete`, `NotOlderThanStamp`, `UsesFreshData`, `FreshestUsed` | no gap leaves a book valid; a torn snapshot is never older than its stamp, and the freshest one is used |
| `Margin` | `PublishedUnlessDisturbed` | three threads at every load and store: which interleavings publish a margin that misses an input |
| `LogRing` | `TypeOK`, `NoSharedSlot`, `ImplementsFifo`, `CrashLosesFew`, `ShutdownDrains`, `ShutdownReturns` | one producer, one consumer: an exact FIFO of `N-1` items; nothing published before a shutdown is lost, and the shutdown ends |
| `Wheel` | `DueWhenVisited`, `NoneOvertaken` | timers fire in their tick while the thread is not away for too long |
| `Twap` | `SlicesCover`, `SlicesPositive`, `Completes` | for every draw the slices are positive, add up and are all handed out |
| `VReduceOnlyFlip` | `ReduceOnlyNeverFlips` is **violated** | see section 5 |
| `VOrphanOrder` | `NoOrphanOrders` is **violated** | |

### Bounds

`MaxSignals` and `MaxCancels` cap the numbers of signals and of
cancels/rejects/timeouts. Two parents and two children are enough for the pools to
run dry in the middle of a split, for an id to move from one parent to another, and
for two orders to compete for headroom; two cancels allow a reroute of a reroute.
Quantities of two or three lots allow a split, a partial fill and a lost lot
(`RoundsDown = {3}` in `CoreAdmission`). Queue capacities of one make overflow common.
In `CoreFaults` and `System` the second exchange trades lots twice the canonical one:
a leg of one lot truncates to nothing there, and every fill there counts double. In
`System` a buy of two lots and a sell of one take the position to both sides of zero.
`CoreAdmission` has one child record, so one order works at a time: `check_position`
ignores orders in flight, and with two neither the limit nor `UnwindOnlyShrinks` is
promised (`VReduceOnlyFlip` has the reason for the latter). Its `UnwindModes` is
`{TRUE, FALSE}`: ops set and clear the mode at any time, between the two reads too, and
one cancel lets an order be rerouted in unwind mode. Three signals are an opening order
and two that try to grow or flip the position.
The ring of `LogRing` has four slots and six entries, so it fills up and both indices
wrap; its item set has two members, so swapped items are noticed; the file is flushed
at every second slot, so a flush is missed by one in both directions.
`Router` has two exchanges, one with lots twice as large, minimum sizes of two
canonical lots, a target below the minimum and one above what a book gives, limits
on and between ticks, and room for four slices, as many as there are levels.
`Market` has two exchanges, one with a numbered feed of three updates, and a clock of
three ticks with a staleness of two, so data gets stale between two loads; the stamps
are four bits wide, so a negative age wraps. `Margin` allows two calls on the execution
thread and two REST reports, enough for a report to fall between a load and a store
and for the next one to repair it; mark prices are not bounded.
`Wheel` has four slots of two ticks, a start in the middle of a tick, timeouts of
one tick and one and a half, and a lag of 3, which is the largest that section 4's
assumption `Covered` admits; child ids are symmetric. `Horizon` and the lag bounds
stop the clocks. TWAP: nine lots in four slices, with 90 % size jitter, so draws
below one lot and above the remainder both occur. Deadlock is not an error where the
bounds stop the environment (and where a finished schedule stops by itself); it is
checked in `Router`, `Market` and `Margin`: a decision never gets stuck before its
end, and no thread waits for another.

### Fairness

`System` uses weak fairness of two things. A due timer fires: `run()` spins
and calls `tick` (the enabling condition is written out, `TimeoutDue`, which is the
same formula and far cheaper to evaluate). Gateways drain their queues: each has a
thread that pops. Nothing is assumed of the exchanges: an order may rest there
for ever, unacknowledged, acknowledged or filled in part, and no fairness is assumed of new
signals, cancels or ops. `NoneStranded` therefore promises only what the code can: a parent
none of whose live children is with a gateway or an exchange does not stay that
way. That a parent is closed in the end would need a timer for partly filled children,
which the code does not have (section 5). In `System` a timer fires only when the
gateways are idle and the exchange does not have the order (`LateTimeouts = FALSE`);
`VOrphanOrder` shows the other case.
`LogRing` assumes that the drain thread runs (it spins and yields) and that a join
returns once the joined thread has ended; nobody has to log or to shut down.
`Twap` assumes that the strategy thread keeps calling `tick` while the clock runs.

## 4. Proofs

TLAPS proves these for all values of the constants; the runs above check the same
definitions on small instances. Every safety invariant, every action property and both
refinements that a run checks are stated by a theorem; `UnwindOnlyShrinks` and the
liveness properties are not. The assumptions below are those
under which they are true; where one is not the code's own, section 5 says what the code
does without it.

**The core** (`ExecutionCoreProofs`). Assumption: `DivisibleLots` (every native lot is a
whole multiple of the canonical one; exchanges may differ). Nothing is assumed of the
wheel, which may refuse any timer, nor of `RoundsDown`. Theorem `CoreIsSafe`
establishes the inductive invariant; `PoolsStaySound`, `NoParentIsParked`,
`PendingIsTimed` and `NoneIsOverfilled` are its parts, the run invariants
`PoolIntegrity`, `NoParkedParent`, `TimersMatch` and `NoOverfill`. None is
inductive alone: a cancel keeps the timers right only if no other parent holds the
child; a reroute frees each child once only if the slots are distinct; new children
are timed exactly once only if free ids have no timer. `CoreInv` therefore says that
every child is free or in exactly one slot of one parent in use, that a parent's
*family* (its record, children, timers and quantities) is consistent (`Family`), and
that the parent still wants something and has a live child (`Working`).
The argument: a handler works on one parent and on what it owns, its children and
the free list (`Owned`); lemma `Preserve` shows that the other families are then
untouched (`FamilyStable`, `OwnedApart`). What is left is one lemma per way a
handler ends (`CloseStep`, `GiveUpStep`, `DispatchStep`, `WaitStep`, `RerouteStep`,
`RefuseStep`) and one per handler (`FillStep`, `CancelStep`, `NewStep`,
`TimeoutStep`, `SignalStep`). `NoOverfill` is stated without a sum: the children's
leaves fit one after the other into the parent's. `FitsShrink` shows that a fill,
which takes as much from the parent as from the child, keeps such a layout.

The lemmas on handlers also say what a handler does to the rest of the state
(`Effect`, `Reported`, `Opened`), and the theorems below follow from that:

* `NobodyDiesSilently` and `NoTraceIsLeft` (deep books) are the action properties
  `NoSilentDeath` and `RefusedLeavesNoTrace`.
* `CoreImplementsLedger` is the refinement `ImplementsLedger`: the initial states map
  to initial states of `OrderLedger`, and every handler maps to one of its steps or to
  a stutter, since it moves one order, and the position by what that order gave up.
* `LimitHolds`: `PositionWithinLimit`, as long as no two open orders are on the same
  instrument (`OnePerInstrument`; `check_position` ignores orders in flight). The
  inductive invariant is `Headroom`: the limit holds even if all that the open order
  still wants is traded. A reroute never asks for more, so losses do not endanger it.
* `ReservationsAreExact`: `OpenMatchesLeaves`, with deep books, `UniformLots` (every
  exchange quotes the canonical lot) and as long as nothing
  is cancelled (`cancels = 0`) and every order is sent whole (`SentWhole`: a child for
  each leg, no lot lost in the division). The second premise is about the step that
  opens an order only: `StaysWhole` shows that its children then work all it wants
  (`WorkedBy`, partial sums over the slots) through every later fill, so that a fill
  never leads to a reroute, the step that breaks reservations. `Outstanding` is a sum
  over parents; `TotalMoves` says that it moves as its one changed term does.
* `ReduceOnlyReduces`: `ReduceOnlyNeverFlips`, under the same premises, with unwind mode
  off and instruments that are opened in one direction and closed by reduce-only orders
  (`OneSided`). The invariant is `Covers`: all that is reserved for closing together
  is no more than the position. It needs `OpenMatchesLeaves`, because a fill of one closing
  order is harmless only if what it wants is reserved. The run `CorePositions` is an
  instance of both theorems; `VReduceOnlyFlip` shows that one cancel is too much.

**With exchanges** (`OmsSystemProofs`), assuming in addition `~LateTimeouts` (a timer
does not fire while the exchange still has the order): `BooksAlwaysAgree`,
`PositionIsReal` and `SystemPools`. Exchanges may trade different lots: with
`DivisibleLots` a fill of *n* native lots is a whole number of canonical ones, which is
what the rounding of `to_canonical_lots` gives. `SysInv` adds to `CoreInv` that every
order under way, in a gateway queue or at an exchange, belongs to a live child that has
no other one and agrees with it on exchange, instrument, direction and lots. It is
inductive because an id is reused only after its order is gone (`Sends`, `AgreesStays`),
which is also why the reports of real exchanges satisfy the contract `ReportDue` of the
core.

**The router** (`RoutingEngineProofs`), for all books, lots, fees, fill rates and
numbers of exchanges. `EngineInv` adds to the types that no open cursor is cheaper than
a slice already emitted (`MergeOK`), which is what makes `SlicesSorted` inductive: the
cheapest cursor becomes the slice, and it only moves on to dearer levels, because book
sides are sorted (`SidesSorted`, `TicksRise`) and `seek_next_valid` goes forward
(`SeekForward`). `SplitOK` and `LegsOK` say that the legs so far are a decreasing trace
of `remaining_lots` with fewer legs than slices looked at. From these follow
`EngineTyped`, `MergeIsSorted`, `LegsKeepContract` and `EngineImplementsContract`: a
split is one of `RoutingContract`, so the theorems about the core hold with this router.
`TraceInv` (`DecisionIsTraceable`) says where legs come from: every slice is a usable
level, no usable level before a cursor was skipped, and every slice that was looked at
was taken in full, unless it, or what was left of the order, was too small or nothing
was left. It gives `LimitRespected` (`WithinLimit`), `LegsAreTradable` (`LegsTradable`;
assumption `WholeLotsSurvive`: no quantity worth exactly one native lot is lost by the
division) and `CheapestLevelsFirst` (`CheapestFirst`, in ticks, so of cost where tick
sizes agree), where what is taken at a level, a sum over legs, is shown to be what its
only leg takes.

**Ring and logger** (`AsyncLoggerProofs`), for every ring size, item set and number of
calls. `RingTypes` holds for any producers; the others assume one (`Producers = {t}`),
as two do break the ring (section 5). `RingInv` says what the two threads know of each
other: the head that the producer has loaded is still the head, the slot it writes is
not one the consumer may read, and what either has copied is still there. It gives
`RingSlots` and the refinement `RingIsFifo`, whose mapping reads the queue off the slots
between the indices: only the two publications change it. `LogInv` adds where every call
is (`Balance`), how many slots were drained since the last flush (`FlushInv`; the ring
wraps to slot 0, so a cycle never gets longer) and that after `running_` is cleared the
drain thread leaves over an empty ring only (`StopInv`). Hence `LogCrashBound`,
`LogShutdown`, and `LogRing`: the logger's ring is the ring above.

**Market data and margin** (`SharedInputsProofs`), with no assumption beyond the types.
`MarketInv`: a valid book has exactly the updates up to its number; a snapshot's fields
are no older than its stamp even in the middle of a store or of a read; what a
reader owes is the freshest stamp that was there when it began. Hence `BooksComplete`,
`ReadingNotOlder`, `ReadingFresh` and `FreshestReturned`. `MarginInv`: what a thread has
loaded is current unless another thread has stored since. Hence `MarginPublished`.

**The timer wheel** (`TimerWheelProofs`). Assumption `Covered`: a timeout is at
least one tick, and timeout plus the time the thread may be away fit into the ring
less one tick. The code's values are 8192 slots of 1 ms and a maker timeout of 5 s,
so the theorems cover an absence of about 3.19 s; the confirmation prompt may take longer.
`WheelInv`: an active timer is in the slot of its deadline, less than a lap ahead
of the wheel's clock, and one that is due now is not yet visited.
The types (`TypeOK`) are part of it.
`WheelFiresOnTime` and `WheelOvertakesNone` follow.

**TWAP** (`TwapSchedulerProofs`): `TwapCovers` and the action property
`TwapPositive`, with no assumption beyond the types of the parameters; the inductive
invariant is `TypeOK` and `SlicesCover` together.

**Arithmetic** (`ArithmeticLemmas`): division and remainder; least elements; and sums
over finite sets. The library's induction theorems take an operator, which the
provers cannot instantiate, so `NatInduct` is stated for a *set* of numbers, and sums
(`Total`) are the functions that `FiniteSetsExt`'s `MapThenSumSet` chooses, characterised
by `IsSum`.

**Only model-checked:** liveness under fairness (`NoneStranded`, `Completes`,
`ShutdownReturns`), which is beyond the prover; `UnwindOnlyShrinks`, which
nests one temporal formula in another and is checked for positions of 0 and 1 (the
limit is 2); and what lies outside the assumptions above.

## 5. Where the code and its documentation disagree

Two runs end in a counterexample.

* `VReduceOnlyFlip`. A cancel releases the child's reservation and the reroute sends
  the same lots without reserving them, so a second reduce-only order gets headroom
  that is taken: at a position of 1, two reduce-only sells each get one lot, and
  the position ends at −1. `oms_types.hpp`
  says a reduce-only order will never "flip its sign".
* `VOrphanOrder`. After `maker_timeout_ns` the order "gets canceled and swept as a
  taker": it is canceled in the core's books only and keeps working at the exchange
  while its lots are sent again. Reports that arrive later meet a record that is
  free or belongs to another order.

Seen while modelling, visible in the modules, and the reason why some properties
carry restrictions:

* `handle_fill` cancels the timer on every fill and arms no other. The repository's
  README (`src/README.md:420-424`) says a child that sits in `PARTIALLY_FILLED` past its
  deadline is canceled, and the callback tests for that state
  (`execution_core.cpp:29-30`). Its parent waits for the exchange, for ever if need be.
  `TimersMatch` requires a timer only of children that have traded nothing, forbids none for
  the others, and `NoneStranded` is about orders that no exchange has.
* Every gateway thread pushes to the one `exec_report_queue`, and every thread logs
  into one ring (`g_log`: the execution thread, REST at `margin_monitor.hpp:78`, the feed
  at `:99`), but `push` and `log` are safe for one producer. With
  `Producers <- TwoProducers` in `LogRing.cfg`, `NoSharedSlot` fails and items are
  overwritten, uncounted: `logger.hpp:69-70` says that a full ring is the only reason to
  drop an entry and that it is counted. No property speaks of every call of `log`.
* `REROUTE_REDUCE_ONLY_DONE` closes an order without a reject (`NoSilentDeath` leaves
  reduce-only parents out). It can also happen while the position is open, because
  the re-clamp counts the parent's own undispatched reservation.
* A parent that is given up keeps reserved what no child carried, so
  `OpenMatchesLeaves` is stated for deep books without cancels.
* A reject after a partial fill carries the leaves, not the requested quantity.
* A parent admitted before unwind mode is set reroutes without a clamp, so
  `UnwindOnlyShrinks` begins when the instrument's older orders are gone. When ops clear
  the mode between the two reads of one handler, a clamped order gets an unconstrained
  parent.
* The result of `TimerWheel::insert` is ignored when a slot is full: that child has no
  timer (`TimersMatch` excuses it when `SlotOverflow` is true, and only then).
* A `NEW` report sets `PENDING_NEW` whatever the state (`execution_core.cpp:348`). After
  a partial fill that changes the name of the state and nothing else, which the runs
  show; for a child that is filled or canceled it would revive a closed record, which
  the contract excludes.
* Fills of half a canonical lot are rounded up one by one: two fills of half a lot count
  as two lots. The repository's README (`src/README.md:404-408`) says that the
  conversion keeps mixed-lot-size fills from corrupting the position;
  `PositionMatchesVenue` is checked and proved where native lots are whole multiples of
  the canonical one.
* When the thread is away for nearly a lap, a timer inserted afterwards lands in a
  slot the wheel's late clock reaches a lap early.
* `margin_monitor.hpp:14-15` and `src/README.md:136-142` say that the risk engine uses the
  more conservative of the local estimate and the REST report. A report overrides the
  estimate; there is one number. `on_release` follows every cancel although only fills
  lock margin, so cancels free margin that open positions need.
* An input of the margin that changes between the loads and the store of another
  thread's `recompute_available` may be missing from the published margin until the
  next call; `PublishedUnlessDisturbed` says that this is the only way.
* `upnl_` keeps its last value when a position is closed, and instruments overwrite
  each other's. `check_warnings` runs only when the low 30 bits of the clock are zero,
  which a spinning thread meets by luck, not "every ~1s".
* A REST report that falls between the load and the store of a fill is lost until the
  next one. No property covers this; the code has no protection.
* `book_snapshot.hpp:64-66` says "for now: use exchange 0 as the reference";
  `get_routing_inputs` uses the freshest snapshot (`FreshestUsed`), as the comment
  below it says.
* `get_routing_inputs` flips the imbalance for a SELL and the router flips it again.
* The router compares effective prices in ticks of each book's own tick size, so
  `CheapestFirst` is one of cost only where tick sizes agree. A limit below half a
  tick rounds to 0, which means no limit (`WithinLimit` leaves it out). Maker
  placement looks at no minimum size (`LegsTradable` is about takers).
* `last_sequence` 0 turns the gap check off, so a first update is accepted whatever
  its number; handlers must install a snapshot first, as `MarketData` lets them.

## 6. Running it

`tlc -config CoreFaults.cfg MCExecutionCore`, and likewise for the other runs (the
module of each is in `PROJECT.json`); `tlapm ExecutionCoreProofs.tla`. The largest
runs take about two minutes.

## 7. What is not modelled, and the plan

Done, in this order: core with pool, risk, lots and routing contract; exchanges;
queue, wheel and TWAP; proofs of the core, the wheel and TWAP; the router's algorithm
and its proof; logger, market data and margin; proofs of all of these, of the system with
exchanges and of both refinements. Next, by importance:

1. **Fractional lots**: native lots that are no whole multiple of the canonical one, where
   the rounding of fills drifts, and a bound on the drift. The proofs assume `DivisibleLots`.
2. **Composition** of the core with `TimerWheel`, which would replace the constant
   `SlotOverflow` by the wheel's own slots.
3. **Reservations in the presence of cancels**: the code does not keep them exact
   (section 5); a bound on how far they drift is not stated yet.

Not modelled, and why:

* `Dashboard` reads and prints; it changes nothing.
* The latency average of `LatencyTracker` only scales a cost, of which the router
  takes any value; its prefix sums (`cumulative_lots`) are read by nobody.
* `avg_entry_price` is a quotient of doubles that only the unrealised profit uses.
* `check_warnings`, log text and levels are output.
* The prompt's terminal I/O; its answer and its duration are modelled.
* `run` and `stop` of the core: `running_` is a plain flag that `run` sets itself, so
  a `stop` that comes first is forgotten.
* The example programs and the vendored test framework.
