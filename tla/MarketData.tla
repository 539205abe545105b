------------------------------ MODULE MarketData ------------------------------
(***************************************************************************)
(* Market data on its way from the exchanges to the router:                *)
(*  - sor::NormalizedBook (normalized_book.hpp), whose apply_sequence      *)
(*    notices a lost, repeated or reordered update;                        *)
(*  - oms::BookSnapshotCache (book_snapshot.hpp), written field by field   *)
(*    by the feed handlers and read field by field by the execution thread *)
(*    while they write.                                                    *)
(* The feed handlers themselves are not in the repository.  One per        *)
(* exchange applies every update it gets to the book, publishes what it    *)
(* has computed from it, and asks for a snapshot when apply_sequence       *)
(* returns false ("caller should re-snapshot").  Updates are numbered;     *)
(* the network may lose, repeat and reorder them.                          *)
(*                                                                         *)
(* Data is told apart by the time it was published at.  The relaxed        *)
(* stores of an update may become visible in any order, and so may the     *)
(* relaxed loads; the release store and acquire load of the time stamp     *)
(* bound them.                                                             *)
(***************************************************************************)
EXTENDS Integers

CONSTANTS
  ActiveExchanges,
  Sequenced,    \* the exchanges whose feed numbers its updates
  MaxStale,     \* max_stale_ns
  TimeBits,     \* width of the time stamps (64)
  MaxSeq,       \* bound: updates per exchange
  MaxTime       \* bound: the clock

Exchanges == 0..(ActiveExchanges - 1)

ASSUME MarketAssumption ==
  /\ ActiveExchanges \in Nat \ {0} /\ MaxStale \in Nat \ {0}
  /\ Sequenced \subseteq Exchanges
  /\ MaxSeq \in Nat \ {0} /\ MaxTime \in Nat
  /\ TimeBits \in Nat /\ MaxTime + MaxStale < 2^TimeBits

VARIABLES
  last_sequence, is_valid,
  applied,        \* numbers of the updates the book consists of
  clock,
  snap,           \* per exchange and field, the time of the data in it
  pending,        \* per exchange, the fields update() has still to store
  update_ts,      \* per exchange, the time stamp of the running update()
  stamp,          \* last_update_ns
  read_pc,        \* execution thread: "idle", "stamp", "fields", "return"
  now, i,         \* its clock reading and loop index
  ts, unread, reading,
  best_ts, best,  \* the freshest reading so far
  owed            \* history: stamps that were fresh when the read began, less
                  \* those replaced by a later one than now before it got there

bookVars == <<last_sequence, is_valid, applied>>
snapVars == <<snap, pending, update_ts, stamp>>
readVars == <<read_pc, now, i, ts, unread, reading, best_ts, best, owed>>
marketVars == <<bookVars, clock, snapVars, readVars>>

\* The fields the router uses; mid_price_usd is stored and loaded like them.
Fields == {"vol_factor", "book_imbalance"}
NoData == [f \in Fields |-> 0]

MarketInit ==
  /\ last_sequence = [e \in Exchanges |-> 0]
  /\ is_valid = [e \in Exchanges |-> FALSE]
  /\ applied = [e \in Exchanges |-> {}]
  /\ clock = 1
  /\ snap = [e \in Exchanges |-> NoData]
  /\ pending = [e \in Exchanges |-> {}]
  /\ update_ts = [e \in Exchanges |-> 0]
  /\ stamp = [e \in Exchanges |-> 0]
  /\ read_pc = "idle" /\ now = 0 /\ i = 0 /\ ts = 0
  /\ unread = {} /\ reading = NoData
  /\ best_ts = 0 /\ best = NoData
  /\ owed = [e \in Exchanges |-> 0]

Tick ==
  /\ clock < MaxTime
  /\ clock' = clock + 1
  /\ UNCHANGED <<bookVars, snapVars, readVars>>

-----------------------------------------------------------------------------
(* The book                                                                *)

\* MUTANT of InSequence: an update that skips others is taken.
InSequenceAbove(e, m) == last_sequence[e] = 0 \/ m > last_sequence[e]

\* apply_sequence: the first update of a book is taken whatever its number.
InSequence(e, m) == last_sequence[e] = 0 \/ m = last_sequence[e] + 1

\* The handler of exchange e is not in the middle of an update().
Ready(e) == pending[e] = {} /\ update_ts[e] = stamp[e]

\* on_book_snapshot: update() starts, with a time stamp taken by the handler;
\* stamps are nanoseconds, no two updates of an exchange share one.
BeginUpdate(e) ==
  /\ Ready(e) /\ clock > stamp[e]
  /\ pending' = [pending EXCEPT ![e] = Fields]
  /\ update_ts' = [update_ts EXCEPT ![e] = clock]
  /\ UNCHANGED <<snap, stamp>>

\* Update m arrives, in any order and any number of times.  An accepted one is
\* applied and published; at a gap the handler clears the book (invalidate).
Deliver(e, m) ==
  /\ Ready(e) /\ is_valid[e]
  /\ IF InSequence(e, m)
     THEN /\ last_sequence' = [last_sequence EXCEPT ![e] = m]
          /\ applied' = [applied EXCEPT ![e] = @ \cup {m}]
          /\ BeginUpdate(e)
          /\ UNCHANGED is_valid
     ELSE /\ is_valid' = [is_valid EXCEPT ![e] = FALSE]
          /\ applied' = [applied EXCEPT ![e] = {}]
          /\ UNCHANGED <<last_sequence, snapVars>>
  /\ UNCHANGED <<clock, readVars>>

\* The handler of an invalid book installs the one the exchange had at update s.
Resnapshot(e, s) ==
  /\ Ready(e) /\ ~is_valid[e]
  /\ last_sequence' = [last_sequence EXCEPT ![e] = s]
  /\ applied' = [applied EXCEPT ![e] = 1..s]
  /\ is_valid' = [is_valid EXCEPT ![e] = TRUE]
  /\ UNCHANGED <<clock, snapVars, readVars>>

\* A feed without sequence numbers: every update is published.
Refresh(e) ==
  /\ BeginUpdate(e)
  /\ UNCHANGED <<bookVars, clock, readVars>>

-----------------------------------------------------------------------------
(* ExchangeSnapshot::update                                                *)

StoreField(e, f) ==
  /\ f \in pending[e]
  /\ snap' = [snap EXCEPT ![e][f] = update_ts[e]]
  /\ pending' = [pending EXCEPT ![e] = @ \ {f}]
  /\ UNCHANGED <<bookVars, clock, update_ts, stamp, readVars>>

\* MUTANT of StoreStamp: the stamp does not wait for the fields.
StoreStampEarly(e) ==
  /\ update_ts[e] # stamp[e]
  /\ stamp' = [stamp EXCEPT ![e] = update_ts[e]]
  /\ UNCHANGED <<bookVars, clock, snap, pending, update_ts, readVars>>

StoreStamp(e) ==
  /\ pending[e] = {} /\ update_ts[e] # stamp[e]
  /\ stamp' = [stamp EXCEPT ![e] = update_ts[e]]
  /\ UNCHANGED <<bookVars, clock, snap, pending, update_ts, readVars>>

-----------------------------------------------------------------------------
(* BookSnapshotCache::get_routing_inputs on the execution thread           *)

\* MUTANT of Fresh: data of exactly the maximal age still counts.
FreshAtLimit(t) == t > 0 /\ (now - t) % (2^TimeBits) <= MaxStale

\* now_ns - ts is unsigned: a stamp later than now counts as stale.
Fresh(t) == t > 0 /\ (now - t) % (2^TimeBits) < MaxStale

BeginRead ==
  /\ read_pc = "idle"
  /\ read_pc' = "stamp" /\ now' = clock
  /\ owed' = [e \in Exchanges |-> IF stamp[e] > 0 /\ clock - stamp[e] < MaxStale
                                  THEN stamp[e] ELSE 0]
  /\ UNCHANGED <<bookVars, clock, snapVars, i, ts, unread, reading, best_ts, best>>

LoadStamp ==
  /\ read_pc = "stamp"
  /\ ts' = stamp[i]
  /\ owed' = [owed EXCEPT ![i] = IF stamp[i] > now THEN 0 ELSE @]
  /\ unread' = Fields
  /\ read_pc' = "fields"
  /\ UNCHANGED <<bookVars, clock, snapVars, now, i, reading, best_ts, best>>

LoadField(f) ==
  /\ read_pc = "fields" /\ f \in unread
  /\ reading' = [reading EXCEPT ![f] = snap[i][f]]
  /\ unread' = unread \ {f}
  /\ UNCHANGED <<bookVars, clock, snapVars, read_pc, now, i, ts, best_ts, best, owed>>

\* MUTANT of Fresher: the last fresh snapshot wins.
AnyFresh(t) == Fresh(t)

Fresher(t) == Fresh(t) /\ t > best_ts

\* The end of an iteration of the loop over the exchanges.
Compare ==
  /\ read_pc = "fields" /\ unread = {}
  /\ best_ts' = IF Fresher(ts) THEN ts ELSE best_ts
  /\ best' = IF Fresher(ts) THEN reading ELSE best
  /\ i' = (i + 1) % ActiveExchanges
  /\ read_pc' = IF i + 1 \in Exchanges THEN "stamp" ELSE "return"
  /\ ts' = 0 /\ reading' = NoData
  /\ UNCHANGED <<bookVars, clock, snapVars, now, unread, owed>>

\* The inputs are handed to the router; the registers are dead after that.
EndRead ==
  /\ read_pc = "return"
  /\ read_pc' = "idle" /\ now' = 0 /\ best_ts' = 0 /\ best' = NoData
  /\ owed' = [e \in Exchanges |-> 0]
  /\ UNCHANGED <<bookVars, clock, snapVars, i, ts, unread, reading>>

MarketNext ==
  \/ Tick
  \/ \E e \in Sequenced, m \in 1..MaxSeq : Deliver(e, m) \/ Resnapshot(e, m)
  \/ \E e \in Exchanges \ Sequenced : Refresh(e)
  \/ \E e \in Exchanges : StoreStamp(e) \/ \E f \in Fields : StoreField(e, f)
  \/ BeginRead \/ LoadStamp \/ (\E f \in Fields : LoadField(f)) \/ Compare \/ EndRead

MarketSpec == MarketInit /\ [][MarketNext]_marketVars

-----------------------------------------------------------------------------
(* Properties                                                              *)

\* A book that the router may use holds exactly the updates up to its sequence
\* number, whatever was lost, repeated or reordered on the way: apply_sequence
\* notices, and only a snapshot makes the book valid again.
ValidIsComplete == \A e \in Sequenced : is_valid[e] => applied[e] = 1..last_sequence[e]

\* "acquire pairs with the release above": a reading may mix two updates, but
\* no field of it is older than its time stamp says.
NotOlderThanStamp == \A f \in Fields : best[f] >= best_ts

\* What the router gets was published less than MaxStale before the decision,
\* every field of it.
UsesFreshData == best_ts > 0 => \A f \in Fields : now - best[f] < MaxStale

\* "uses the freshest available snapshot": one that was fresh when the read
\* began is passed over for a staler one, or for 0/0, only if its handler has
\* replaced it meanwhile by data stamped after the decision's own clock.
FreshestUsed == read_pc = "return" => \A e \in Exchanges : best_ts >= owed[e]
=============================================================================
