------------------------- MODULE SharedInputsProofs -------------------------
(***************************************************************************)
(* What the execution thread reads while other threads write it, without a *)
(* lock: the margin estimate of MarginMonitor and the snapshots of         *)
(* MarketData, for every number of exchanges, sizes of the numbers and     *)
(* interleaving of the threads.                                            *)
(***************************************************************************)
EXTENDS MarginMonitor, MarketData, ArithmeticLemmas

-----------------------------------------------------------------------------
(* The margin estimate                                                     *)

MarginTypes ==
  /\ pc \in [Threads -> {"idle", "locked"} \cup Recomputing]
  /\ reg \in [Threads -> [equity : Int, locked : Int, upnl : Int]]
  /\ stale \in [Threads -> BOOLEAN]
  /\ arg \in [Threads -> {"none", "fill", "release", "rest"} \X Nat]
  /\ local_equity_ \in Int /\ locked_margin_ \in Int /\ upnl_ \in Int

\* What thread t has loaded is still what the inputs hold, unless it is stale.
LoadedOK(t) ==
  ~stale[t] =>
    /\ pc[t] \in {"load_locked", "load_upnl", "publish"} => reg[t].equity = local_equity_
    /\ pc[t] \in {"load_upnl", "publish"} => reg[t].locked = locked_margin_
    /\ pc[t] = "publish" => reg[t].upnl = upnl_

MarginInv ==
  /\ MarginTypes
  /\ \A t \in Threads : LoadedOK(t)
  /\ PublishedUnlessDisturbed

LEMMA MarginStart == MarginInit => MarginInv
<1> SUFFICES ASSUME MarginInit PROVE MarginInv
  OBVIOUS
<1>1. MarginTypes
  BY MarginAssumption DEF MarginInit, MarginTypes, Threads, Recomputing, NoArg, NoRegs
<1>2. \A t \in Threads : pc[t] = "idle"
  BY DEF MarginInit
<1>3. margin_available = AdjEquity(local_equity_, upnl_) - locked_margin_
  BY MarginAssumption DEF MarginInit, AdjEquity
<1> QED BY <1>1, <1>2, <1>3 DEF MarginInv, LoadedOK,
        PublishedUnlessDisturbed, Consistent, MarginInit, Threads

LEMMA MarginStep == MarginInv /\ [MarginNext]_marginVars => MarginInv'
<1> SUFFICES ASSUME MarginInv, [MarginNext]_marginVars PROVE MarginInv'
  OBVIOUS
<1> USE DEF MarginInv, MarginTypes, LoadedOK,
            PublishedUnlessDisturbed, Threads, Recomputing
<1>1. ASSUME NEW d \in Deltas, NEW name \in {"fill", "release"}, OnFillOrRelease(name, d)
      PROVE  MarginInv'
  <2>1. d \in Nat
    BY MarginAssumption
  <2> QED BY <1>1, <2>1 DEF OnFillOrRelease, Goto, inputs, history
<1>2. ASSUME NEW r \in RestReports, OnRestUpdate(r[1], r[2])
      PROVE  MarginInv'
  <2>1. r[1] \in Nat /\ r[2] \in Nat
    BY MarginAssumption
  <2>2. stale' \in [Threads -> BOOLEAN]
    BY <1>2 DEF OnRestUpdate, Spoiled
  <2>3. MarginTypes'
    BY <1>2, <2>1, <2>2 DEF OnRestUpdate, Goto
  <2>4. ASSUME NEW s \in Threads PROVE LoadedOK(s)'
    <3>1. CASE s = "rest"
      BY <1>2, <3>1 DEF OnRestUpdate, Goto
    <3>2. CASE s # "rest"
      <4>1. pc[s] \in Recomputing => stale'[s]
        BY <1>2, <3>2 DEF OnRestUpdate, Spoiled
      <4>2. pc'[s] = pc[s]
        BY <1>2, <3>2 DEF OnRestUpdate, Goto
      <4> QED BY <4>1, <4>2
    <3> QED BY <3>1, <3>2
  <2>5. PublishedUnlessDisturbed'
    BY <1>2 DEF OnRestUpdate, Goto
  <2> QED BY <2>3, <2>4, <2>5
<1>3. CASE StoreLocked
  <2>2. stale' \in [Threads -> BOOLEAN]
    BY <1>3 DEF StoreLocked, Spoiled
  <2>3. MarginTypes'
    BY <1>3, <2>2 DEF StoreLocked, Goto, Adjusted
  <2>4. ASSUME NEW s \in Threads PROVE LoadedOK(s)'
    <3>1. CASE s = "exec"
      BY <1>3, <3>1 DEF StoreLocked, Goto
    <3>2. CASE s # "exec"
      <4>1. pc[s] \in Recomputing => stale'[s]
        BY <1>3, <3>2 DEF StoreLocked, Spoiled
      <4>2. pc'[s] = pc[s]
        BY <1>3, <3>2 DEF StoreLocked, Goto
      <4> QED BY <4>1, <4>2
    <3> QED BY <3>1, <3>2
  <2>5. PublishedUnlessDisturbed'
    BY <1>3 DEF StoreLocked, Goto
  <2> QED BY <2>3, <2>4, <2>5
<1>4. CASE RestStoreLocked
  <2>2. stale' \in [Threads -> BOOLEAN]
    BY <1>4 DEF RestStoreLocked, Spoiled
  <2>3. MarginTypes'
    BY <1>4, <2>2 DEF RestStoreLocked, Goto
  <2>4. ASSUME NEW s \in Threads PROVE LoadedOK(s)'
    <3>1. CASE s = "rest"
      BY <1>4, <3>1 DEF RestStoreLocked, Goto
    <3>2. CASE s # "rest"
      <4>1. pc[s] \in Recomputing => stale'[s]
        BY <1>4, <3>2 DEF RestStoreLocked, Spoiled
      <4>2. pc'[s] = pc[s]
        BY <1>4, <3>2 DEF RestStoreLocked, Goto
      <4> QED BY <4>1, <4>2
    <3> QED BY <3>1, <3>2
  <2>5. PublishedUnlessDisturbed'
    BY <1>4 DEF RestStoreLocked, Goto
  <2> QED BY <2>3, <2>4, <2>5
<1>5. ASSUME NEW u \in Profits, OnMarkPrice(u)
      PROVE  MarginInv'
  <2>1. u \in Int
    BY MarginAssumption
  <2> QED BY <1>5, <2>1 DEF OnMarkPrice, Goto, Spoiled
<1>6. ASSUME NEW t \in Threads, LoadInput(t)
      PROVE  MarginInv'
  BY <1>6 DEF LoadInput, Goto, inputs, history
<1>7. ASSUME NEW t \in Threads, Publish(t)
      PROVE  MarginInv'
  BY <1>7 DEF Publish, Goto, inputs, Consistent, AdjEquity, NoRegs, NoArg
<1>8. CASE UNCHANGED marginVars
  BY <1>8 DEF marginVars, inputs, history, Consistent
<1> QED BY <1>1, <1>2, <1>3, <1>4, <1>5, <1>6, <1>7, <1>8
        DEF MarginNext, Exec, Rest, Feed, Recompute

LEMMA MarginInvariant == MarginSpec => []MarginInv
BY MarginStart, MarginStep, PTL DEF MarginSpec

\* No store of an input goes unpublished: when the three threads are idle, the published
\* margin is what the inputs give unless the last publisher was disturbed.
THEOREM MarginPublished == MarginSpec => []PublishedUnlessDisturbed
BY MarginInvariant, PTL DEF MarginInv

-----------------------------------------------------------------------------
(* The snapshots                                                           *)

\* Types and order of the times.
MarketTypes ==
  /\ last_sequence \in [Exchanges -> Nat]
  /\ is_valid \in [Exchanges -> BOOLEAN]
  /\ applied \in [Exchanges -> SUBSET Nat]
  /\ clock \in 1..(MaxTime + 1)
  /\ snap \in [Exchanges -> [Fields -> Nat]]
  /\ pending \in [Exchanges -> SUBSET Fields]
  /\ update_ts \in [Exchanges -> Nat]
  /\ stamp \in [Exchanges -> Nat]
  /\ read_pc \in {"idle", "stamp", "fields", "return"}
  /\ now \in 0..clock /\ i \in Exchanges /\ ts \in Nat
  /\ unread \subseteq Fields /\ reading \in [Fields -> Nat]
  /\ best_ts \in Nat /\ best \in [Fields -> Nat]
  /\ owed \in [Exchanges -> Nat]

\* A valid book has been installed by a snapshot, so it has a number.
BookOK(e) == is_valid[e] => last_sequence[e] > 0 /\ applied[e] = 1..last_sequence[e]

\* The writer's side: a field that update() has stored is as new as the running update,
\* and no field is older than the stamp.
SnapOK(e) ==
  /\ stamp[e] <= update_ts[e] /\ update_ts[e] <= clock
  /\ \A f \in Fields : /\ snap[e][f] >= stamp[e]
                       /\ f \notin pending[e] => snap[e][f] >= update_ts[e]

\* The reader's side: what has been loaded after the stamp is not older than it ...
ReadingOK ==
  /\ read_pc = "fields" => ts <= stamp[i] /\ \A f \in Fields \ unread : reading[f] >= ts
  /\ NotOlderThanStamp
  /\ best_ts > 0 => now - best_ts < MaxStale

\* ... a debt is a stamp that was fresh at now and has not been replaced by an older one ...
OwedOK(e) ==
  /\ owed[e] <= stamp[e] /\ owed[e] <= now
  /\ owed[e] > 0 => now - owed[e] < MaxStale

\* ... and the exchanges already visited have been paid.
PaidOK ==
  /\ read_pc \in {"idle", "return"} => i = 0
  /\ read_pc = "idle" => best_ts = 0 /\ \A e \in Exchanges : owed[e] = 0
  /\ read_pc = "fields" => owed[i] <= ts /\ (ts > now => owed[i] = 0)
  /\ read_pc = "return" => \A e \in Exchanges : owed[e] <= best_ts
  /\ \A e \in Exchanges : e < i => owed[e] <= best_ts

MarketInv ==
  /\ MarketTypes
  /\ \A e \in Sequenced : BookOK(e)
  /\ \A e \in Exchanges : SnapOK(e) /\ OwedOK(e)
  /\ ReadingOK
  /\ PaidOK

\* The unsigned difference: a stamp that is not later than now is fresh exactly when it
\* is younger than MaxStale.
LEMMA FreshMeans ==
  ASSUME MarketTypes, NEW t \in Nat
  PROVE  /\ Fresh(t) => t > 0 /\ now - t < MaxStale
         /\ t > 0 /\ t <= now /\ now - t < MaxStale => Fresh(t)
<1> DEFINE k == 2^TimeBits
           x == now - t
<1>1. /\ k \in Nat \ {0} /\ now \in Nat /\ now < k /\ MaxStale \in Nat \ {0}
  BY MarketAssumption DEF MarketTypes
<1>2. CASE t <= now
  <2>1. x \in 0..(2 * k - 1) /\ x < k
    BY <1>1, <1>2
  <2> HIDE DEF x, k
  <2>2. x % k = x
    BY <1>1, <2>1, ModOnce
  <2>3. Fresh(t) <=> t > 0 /\ x % k < MaxStale
    BY DEF Fresh, x, k
  <2> QED BY <2>2, <2>3 DEF x
<1>3. CASE t > now
  BY <1>1, <1>3 DEF Fresh
<1> QED BY <1>1, <1>2, <1>3

LEMMA MarketStart == MarketInit => MarketInv
<1> SUFFICES ASSUME MarketInit PROVE MarketInv
  OBVIOUS
<1>1. 0 \in Exchanges /\ MaxTime \in Nat /\ Exchanges \subseteq Nat /\ Sequenced \subseteq Exchanges
  BY MarketAssumption DEF Exchanges
<1>2. is_valid \in [Exchanges -> BOOLEAN]
  BY DEF MarketInit
<1>3. MarketTypes
  BY <1>1, <1>2 DEF MarketInit, MarketTypes, NoData
<1>4. \A e \in Sequenced : BookOK(e)
  BY <1>1 DEF MarketInit, BookOK
<1>5. \A e \in Exchanges : SnapOK(e) /\ OwedOK(e)
  BY DEF MarketInit, SnapOK, OwedOK, NoData
<1>6. ReadingOK /\ PaidOK
  BY DEF MarketInit, ReadingOK, PaidOK, NotOlderThanStamp, NoData
<1> QED BY <1>3, <1>4, <1>5, <1>6 DEF MarketInv

\* update() has begun.
LEMMA BeginUpdateStep ==
  ASSUME MarketInv, NEW e \in Exchanges, BeginUpdate(e), UNCHANGED <<clock, readVars>>
  PROVE  /\ snap' = snap /\ stamp' = stamp
         /\ pending' \in [Exchanges -> SUBSET Fields] /\ update_ts' \in [Exchanges -> Nat]
         /\ \A d \in Exchanges : SnapOK(d)' /\ OwedOK(d)'
         /\ ReadingOK' /\ PaidOK'
<1>1. MarketTypes /\ clock \in Nat
  BY MarketAssumption DEF MarketInv, MarketTypes
<1>2. /\ snap' = snap /\ stamp' = stamp
      /\ pending' = [pending EXCEPT ![e] = Fields] /\ update_ts' = [update_ts EXCEPT ![e] = clock]
      /\ clock > stamp[e]
  BY DEF BeginUpdate
<1>3. pending' \in [Exchanges -> SUBSET Fields] /\ update_ts' \in [Exchanges -> Nat]
  BY <1>1, <1>2 DEF MarketTypes
<1>4. ASSUME NEW d \in Exchanges PROVE SnapOK(d)'
  <2>1. SnapOK(d)
    BY DEF MarketInv
  <2>2. CASE d = e
    BY <1>1, <1>2, <2>1, <2>2 DEF SnapOK, MarketTypes
  <2>3. CASE d # e
    BY <1>1, <1>2, <2>1, <2>3 DEF SnapOK, MarketTypes
  <2> QED BY <2>2, <2>3
<1>5. ASSUME NEW d \in Exchanges PROVE OwedOK(d)'
  BY <1>2 DEF MarketInv, OwedOK, readVars
<1>6. ReadingOK' /\ PaidOK'
  BY <1>2 DEF MarketInv, ReadingOK, PaidOK, NotOlderThanStamp, readVars
<1> QED BY <1>2, <1>3, <1>4, <1>5, <1>6

LEMMA MarketStep == MarketInv /\ [MarketNext]_marketVars => MarketInv'
<1> SUFFICES ASSUME MarketInv, [MarketNext]_marketVars PROVE MarketInv'
  OBVIOUS
<1>0. /\ Exchanges \subseteq Nat /\ Sequenced \subseteq Exchanges
      /\ ActiveExchanges \in Nat \ {0} /\ MaxStale \in Nat \ {0} /\ MaxTime \in Nat
      /\ MarketTypes
  BY MarketAssumption DEF Exchanges, MarketInv
<1>1. CASE Tick
  <2>1. clock' = clock + 1 /\ clock' \in 1..(MaxTime + 1) /\ now \in 0..clock'
    BY <1>0, <1>1 DEF Tick, MarketTypes
  <2>2. UNCHANGED <<bookVars, snapVars, readVars>>
    BY <1>1 DEF Tick
  <2>3. MarketTypes'
    BY <1>0, <2>1, <2>2 DEF MarketTypes, bookVars, snapVars, readVars
  <2>4. \A e \in Exchanges : SnapOK(e)' /\ OwedOK(e)'
    BY <1>0, <2>1, <2>2 DEF MarketInv, SnapOK, OwedOK, snapVars, readVars, MarketTypes
  <2>5. (\A e \in Sequenced : BookOK(e)') /\ ReadingOK' /\ PaidOK'
    BY <2>2 DEF MarketInv, BookOK, ReadingOK, PaidOK, NotOlderThanStamp, bookVars, snapVars, readVars
  <2> QED BY <2>3, <2>4, <2>5 DEF MarketInv
<1>2. ASSUME NEW e \in Sequenced, NEW m \in 1..MaxSeq, Deliver(e, m) PROVE MarketInv'
  <2>1. e \in Exchanges /\ m \in Nat
    BY <1>0, MarketAssumption
  <2>2. CASE InSequence(e, m)
    <3>1. /\ last_sequence' = [last_sequence EXCEPT ![e] = m]
          /\ applied' = [applied EXCEPT ![e] = @ \cup {m}]
          /\ BeginUpdate(e) /\ is_valid' = is_valid /\ is_valid[e]
          /\ UNCHANGED <<clock, readVars>>
      BY <1>2, <2>2 DEF Deliver
    <3>2. BookOK(e) /\ last_sequence[e] \in Nat /\ applied[e] = 1..last_sequence[e]
      BY <1>0, <2>1, <3>1 DEF MarketInv, MarketTypes, BookOK
    <3>3. m = last_sequence[e] + 1
      BY <2>2, <3>1, <3>2 DEF InSequence, BookOK
    <3>4. (1..last_sequence[e]) \cup {m} = 1..m
      BY <3>2, <3>3
    <3>5. last_sequence'[e] = m /\ applied'[e] = 1..m /\ applied' \in [Exchanges -> SUBSET Nat]
      BY <1>0, <2>1, <3>1, <3>2, <3>4 DEF MarketTypes
    <3>6. ASSUME NEW d \in Sequenced PROVE BookOK(d)'
      <4>1. CASE d = e
        BY <3>2, <3>3, <3>5, <4>1 DEF BookOK
      <4>2. CASE d # e
        <5>1. UNCHANGED <<is_valid[d], applied[d], last_sequence[d]>>
          BY <1>0, <3>1, <4>2 DEF MarketTypes
        <5> QED BY <5>1 DEF MarketInv, BookOK
      <4> QED BY <4>1, <4>2
    <3>7. /\ snap' = snap /\ stamp' = stamp
          /\ pending' \in [Exchanges -> SUBSET Fields] /\ update_ts' \in [Exchanges -> Nat]
          /\ \A d \in Exchanges : SnapOK(d)' /\ OwedOK(d)'
          /\ ReadingOK' /\ PaidOK'
      BY <2>1, <3>1, BeginUpdateStep
    <3>8. MarketTypes'
      BY <1>0, <2>1, <3>1, <3>5, <3>7 DEF MarketTypes, readVars
    <3> QED BY <3>6, <3>7, <3>8 DEF MarketInv
  <2>3. CASE ~InSequence(e, m)
    <3>1. /\ is_valid' = [is_valid EXCEPT ![e] = FALSE]
          /\ applied' = [applied EXCEPT ![e] = {}]
          /\ UNCHANGED <<last_sequence, snapVars, clock, readVars>>
      BY <1>2, <2>3 DEF Deliver
    <3>2. is_valid' \in [Exchanges -> BOOLEAN] /\ ~is_valid'[e]
      BY <1>0, <2>1, <3>1 DEF MarketTypes
    <3>3. MarketTypes'
      BY <1>0, <2>1, <3>1, <3>2 DEF MarketTypes, snapVars, readVars
    <3>4. ASSUME NEW d \in Sequenced PROVE BookOK(d)'
      <4>1. CASE d = e
        BY <3>2, <4>1 DEF BookOK
      <4>2. CASE d # e
        <5>1. UNCHANGED <<is_valid[d], applied[d], last_sequence[d]>>
          BY <1>0, <3>1, <4>2 DEF MarketTypes
        <5> QED BY <5>1 DEF MarketInv, BookOK
      <4> QED BY <4>1, <4>2
    <3>5. (\A d \in Exchanges : SnapOK(d)' /\ OwedOK(d)') /\ ReadingOK' /\ PaidOK'
      BY <3>1 DEF MarketInv, SnapOK, OwedOK, ReadingOK, PaidOK, NotOlderThanStamp, snapVars, readVars
    <3> QED BY <3>3, <3>4, <3>5 DEF MarketInv
  <2> QED BY <2>2, <2>3
<1>3. ASSUME NEW e \in Sequenced, NEW s \in 1..MaxSeq, Resnapshot(e, s) PROVE MarketInv'
  <2>1. e \in Exchanges /\ s \in Nat /\ s > 0
    BY <1>0, MarketAssumption
  <2>2. /\ last_sequence' = [last_sequence EXCEPT ![e] = s]
        /\ applied' = [applied EXCEPT ![e] = 1..s]
        /\ is_valid' = [is_valid EXCEPT ![e] = TRUE]
        /\ UNCHANGED <<clock, snapVars, readVars>>
    BY <1>3 DEF Resnapshot
  <2>3. is_valid' \in [Exchanges -> BOOLEAN] /\ applied' \in [Exchanges -> SUBSET Nat]
    <3>1. 1..s \subseteq Nat
      BY <2>1
    <3> QED BY <1>0, <2>1, <2>2, <3>1 DEF MarketTypes
  <2>4. MarketTypes'
    BY <1>0, <2>1, <2>2, <2>3 DEF MarketTypes, snapVars, readVars
  <2>5. \A d \in Sequenced : BookOK(d)'
    BY <1>0, <2>1, <2>2 DEF MarketInv, MarketTypes, BookOK
  <2>6. (\A d \in Exchanges : SnapOK(d)' /\ OwedOK(d)') /\ ReadingOK' /\ PaidOK'
    BY <2>2 DEF MarketInv, SnapOK, OwedOK, ReadingOK, PaidOK, NotOlderThanStamp, snapVars, readVars
  <2> QED BY <2>4, <2>5, <2>6 DEF MarketInv
<1>4. ASSUME NEW e \in Exchanges, Refresh(e) PROVE MarketInv'
  <2>1. BeginUpdate(e) /\ UNCHANGED <<bookVars, clock, readVars>>
    BY <1>4 DEF Refresh
  <2>2. /\ snap' = snap /\ stamp' = stamp
        /\ pending' \in [Exchanges -> SUBSET Fields] /\ update_ts' \in [Exchanges -> Nat]
        /\ \A d \in Exchanges : SnapOK(d)' /\ OwedOK(d)'
        /\ ReadingOK' /\ PaidOK'
    BY <2>1, BeginUpdateStep
  <2>3. MarketTypes' /\ \A d \in Sequenced : BookOK(d)'
    BY <1>0, <2>1, <2>2 DEF MarketInv, MarketTypes, BookOK, bookVars, readVars
  <2> QED BY <2>2, <2>3 DEF MarketInv
<1>5. ASSUME NEW e \in Exchanges, StoreStamp(e) PROVE MarketInv'
  <2>1. /\ pending[e] = {} /\ stamp' = [stamp EXCEPT ![e] = update_ts[e]]
        /\ UNCHANGED <<bookVars, clock, snap, pending, update_ts, readVars>>
    BY <1>5 DEF StoreStamp
  <2>2. MarketTypes'
    BY <1>0, <2>1 DEF MarketTypes, bookVars, readVars
  <2>3. ASSUME NEW d \in Exchanges PROVE SnapOK(d)' /\ OwedOK(d)' /\ stamp'[d] >= stamp[d]
    <3>1. SnapOK(d) /\ OwedOK(d)
      BY DEF MarketInv
    <3>2. CASE d = e
      BY <1>0, <2>1, <3>1, <3>2 DEF SnapOK, OwedOK, MarketTypes, readVars
    <3>3. CASE d # e
      BY <1>0, <2>1, <3>1, <3>3 DEF SnapOK, OwedOK, MarketTypes, readVars
    <3> QED BY <3>2, <3>3
  <2>4. ReadingOK'
    <3>1. stamp'[i] >= stamp[i] /\ stamp[i] \in Nat /\ stamp'[i] \in Nat /\ ts \in Nat
      BY <1>0, <2>2, <2>3 DEF MarketTypes
    <3> QED BY <2>1, <3>1 DEF MarketInv, ReadingOK, NotOlderThanStamp, readVars
  <2>5. (\A d \in Sequenced : BookOK(d)') /\ PaidOK'
    BY <2>1 DEF MarketInv, BookOK, PaidOK, bookVars, readVars
  <2> QED BY <2>2, <2>3, <2>4, <2>5 DEF MarketInv
<1>6. ASSUME NEW e \in Exchanges, NEW f \in Fields, StoreField(e, f) PROVE MarketInv'
  <2>1. /\ snap' = [snap EXCEPT ![e][f] = update_ts[e]]
        /\ pending' = [pending EXCEPT ![e] = @ \ {f}]
        /\ UNCHANGED <<bookVars, clock, update_ts, stamp, readVars>>
    BY <1>6 DEF StoreField
  <2>2. MarketTypes'
    BY <1>0, <2>1 DEF MarketTypes, bookVars, readVars
  <2>3. ASSUME NEW d \in Exchanges PROVE SnapOK(d)' /\ OwedOK(d)'
    <3>1. SnapOK(d) /\ OwedOK(d)
      BY DEF MarketInv
    <3>2. CASE d = e
      BY <1>0, <2>1, <3>1, <3>2 DEF SnapOK, OwedOK, MarketTypes, readVars
    <3>3. CASE d # e
      BY <1>0, <2>1, <3>1, <3>3 DEF SnapOK, OwedOK, MarketTypes, readVars
    <3> QED BY <3>2, <3>3
  <2>4. (\A d \in Sequenced : BookOK(d)') /\ ReadingOK' /\ PaidOK'
    BY <2>1 DEF MarketInv, BookOK, ReadingOK, PaidOK, NotOlderThanStamp, bookVars, readVars
  <2> QED BY <2>2, <2>3, <2>4 DEF MarketInv
<1>7. CASE BeginRead
  <2>1. /\ read_pc = "idle" /\ read_pc' = "stamp" /\ now' = clock
        /\ owed' = [e \in Exchanges |-> IF stamp[e] > 0 /\ clock - stamp[e] < MaxStale
                                        THEN stamp[e] ELSE 0]
        /\ UNCHANGED <<bookVars, clock, snapVars, i, ts, unread, reading, best_ts, best>>
    BY <1>7 DEF BeginRead
  <2>2. MarketTypes'
    BY <1>0, <2>1 DEF MarketTypes, bookVars, snapVars
  <2>3. ASSUME NEW d \in Exchanges PROVE SnapOK(d)' /\ OwedOK(d)'
    <3>1. SnapOK(d)
      BY DEF MarketInv
    <3> QED BY <1>0, <2>1, <3>1 DEF SnapOK, OwedOK, MarketTypes, snapVars
  <2>4. ReadingOK' /\ PaidOK'
    BY <1>0, <2>1 DEF MarketInv, MarketTypes, ReadingOK, PaidOK, NotOlderThanStamp
  <2>5. \A d \in Sequenced : BookOK(d)'
    BY <2>1 DEF MarketInv, BookOK, bookVars
  <2> QED BY <2>2, <2>3, <2>4, <2>5 DEF MarketInv
<1>8. CASE LoadStamp
  <2>1. /\ read_pc = "stamp" /\ ts' = stamp[i] /\ unread' = Fields /\ read_pc' = "fields"
        /\ owed' = [owed EXCEPT ![i] = IF stamp[i] > now THEN 0 ELSE @]
        /\ UNCHANGED <<bookVars, clock, snapVars, now, i, reading, best_ts, best>>
    BY <1>8 DEF LoadStamp
  <2>2. MarketTypes'
    BY <1>0, <2>1 DEF MarketTypes, bookVars, snapVars
  <2>3. ASSUME NEW d \in Exchanges PROVE SnapOK(d)' /\ OwedOK(d)' /\ owed'[d] <= owed[d]
    <3>1. SnapOK(d) /\ OwedOK(d)
      BY DEF MarketInv
    <3> QED BY <1>0, <2>1, <3>1 DEF SnapOK, OwedOK, MarketTypes, snapVars
  <2>4. ReadingOK'
    BY <1>0, <2>1 DEF MarketInv, MarketTypes, ReadingOK, NotOlderThanStamp, snapVars
  <2>5. PaidOK'
    <3>1. owed'[i] <= ts' /\ (ts' > now => owed'[i] = 0)
      <4>1. OwedOK(i) /\ i \in Exchanges
        BY <1>0 DEF MarketInv, MarketTypes
      <4> QED BY <1>0, <2>1, <4>1 DEF OwedOK, MarketTypes
    <3>2. ASSUME NEW d \in Exchanges, d < i PROVE owed'[d] <= best_ts
      <4>1. owed[d] <= best_ts /\ owed'[d] = owed[d]
        BY <1>0, <2>1, <3>2 DEF MarketInv, PaidOK, MarketTypes
      <4> QED BY <4>1
    <3> QED BY <2>1, <3>1, <3>2 DEF PaidOK
  <2>6. \A d \in Sequenced : BookOK(d)'
    BY <2>1 DEF MarketInv, BookOK, bookVars
  <2> QED BY <2>2, <2>3, <2>4, <2>5, <2>6 DEF MarketInv
<1>9. ASSUME NEW f \in Fields, LoadField(f) PROVE MarketInv'
  <2>1. /\ read_pc = "fields" /\ reading' = [reading EXCEPT ![f] = snap[i][f]]
        /\ unread' = unread \ {f}
        /\ UNCHANGED <<bookVars, clock, snapVars, read_pc, now, i, ts, best_ts, best, owed>>
    BY <1>9 DEF LoadField
  <2>2. MarketTypes'
    BY <1>0, <2>1 DEF MarketTypes, bookVars, snapVars
  <2>3. ReadingOK'
    <3>1. ts <= stamp[i] /\ snap[i][f] \in Nat /\ stamp[i] \in Nat /\ ts \in Nat
      BY <1>0, <2>1 DEF MarketInv, MarketTypes, ReadingOK
    <3>2. snap[i][f] >= ts
      <4>1. PICK e \in Exchanges : e = i
        BY <1>0 DEF MarketTypes
      <4>2. snap[e][f] >= stamp[e]
        BY DEF MarketInv, SnapOK
      <4> QED BY <3>1, <4>1, <4>2
    <3>3. \A g \in Fields \ unread' : reading'[g] >= ts
      BY <1>0, <2>1, <3>2 DEF MarketInv, MarketTypes, ReadingOK
    <3> QED BY <2>1, <3>1, <3>3 DEF MarketInv, ReadingOK, NotOlderThanStamp, snapVars
  <2>4. /\ \A d \in Sequenced : BookOK(d)'
        /\ \A d \in Exchanges : SnapOK(d)' /\ OwedOK(d)'
        /\ PaidOK'
    BY <2>1 DEF MarketInv, BookOK, SnapOK, OwedOK, PaidOK, bookVars, snapVars
  <2> QED BY <2>2, <2>3, <2>4 DEF MarketInv
<1>10. CASE Compare
  <2>1. /\ read_pc = "fields" /\ unread = {}
        /\ best_ts' = IF Fresher(ts) THEN ts ELSE best_ts
        /\ best' = IF Fresher(ts) THEN reading ELSE best
        /\ i' = (i + 1) % ActiveExchanges
        /\ read_pc' = IF i + 1 \in Exchanges THEN "stamp" ELSE "return"
        /\ ts' = 0 /\ reading' = NoData
        /\ UNCHANGED <<bookVars, clock, snapVars, now, unread, owed>>
    BY <1>10 DEF Compare
  <2>2. /\ i' \in Exchanges
        /\ i + 1 \in Exchanges => i' = i + 1
        /\ i + 1 \notin Exchanges => i' = 0 /\ i = ActiveExchanges - 1
    <3> DEFINE x == i + 1
    <3>1. i \in 0..(ActiveExchanges - 1) /\ x \in 0..(2 * ActiveExchanges - 1)
      BY <1>0 DEF MarketTypes, Exchanges
    <3>2. i' = x % ActiveExchanges
      BY <2>1
    <3> HIDE DEF x
    <3>3. x % ActiveExchanges = IF x < ActiveExchanges THEN x ELSE x - ActiveExchanges
      BY <1>0, <3>1, ModOnce
    <3> QED BY <1>0, <3>1, <3>2, <3>3 DEF x, Exchanges
  <2>3. NoData \in [Fields -> Nat]
    BY DEF NoData
  <2>4. MarketTypes'
    BY <1>0, <2>1, <2>2, <2>3 DEF MarketTypes, bookVars, snapVars
  <2>5. ts \in Nat /\ best_ts \in Nat /\ now \in Nat /\ i \in Exchanges /\ owed \in [Exchanges -> Nat]
    BY <1>0 DEF MarketTypes
  <2>6. /\ Fresher(ts) => ts > best_ts /\ now - ts < MaxStale
        /\ ts > best_ts /\ ts > 0 /\ ts <= now /\ now - ts < MaxStale => Fresher(ts)
    BY <1>0, <2>5, FreshMeans DEF Fresher
  <2>7. best_ts' >= best_ts /\ owed[i] <= best_ts'
    <3>1. /\ owed[i] <= ts /\ (ts > now => owed[i] = 0)
          /\ owed[i] > 0 => now - owed[i] < MaxStale
      BY <2>1, <2>5 DEF MarketInv, PaidOK, OwedOK
    <3>2. owed[i] \in Nat
      BY <2>5
    <3> QED BY <1>0, <2>1, <2>5, <2>6, <3>1, <3>2
  <2>8. ReadingOK'
    <3>1. NotOlderThanStamp'
      BY <2>1 DEF MarketInv, ReadingOK, NotOlderThanStamp
    <3>2. best_ts' > 0 => now - best_ts' < MaxStale
      BY <2>1, <2>6 DEF MarketInv, ReadingOK
    <3> QED BY <2>1, <3>1, <3>2 DEF ReadingOK
  <2>9. PaidOK'
    <3>1. ASSUME NEW d \in Exchanges, d < i \/ d = i PROVE owed[d] <= best_ts'
      <4>1. CASE d < i
        <5>1. owed[d] <= best_ts
          BY <4>1 DEF MarketInv, PaidOK
        <5>2. owed[d] \in Nat /\ best_ts' \in Nat
          BY <2>4, <2>5 DEF MarketTypes
        <5> QED BY <2>5, <2>7, <5>1, <5>2
      <4>2. CASE d = i
        BY <2>7, <4>2
      <4> QED BY <3>1, <4>1, <4>2
    <3>2. CASE i + 1 \in Exchanges
      <4>1. read_pc' = "stamp" /\ i' = i + 1 /\ owed' = owed
        BY <2>1, <2>2, <3>2
      <4>2. \A d \in Exchanges : d < i + 1 => d < i \/ d = i
        BY <1>0, <2>5
      <4> QED BY <3>1, <4>1, <4>2 DEF PaidOK
    <3>3. CASE i + 1 \notin Exchanges
      <4>1. read_pc' = "return" /\ i' = 0 /\ owed' = owed
        BY <2>1, <2>2, <3>3
      <4>2. \A d \in Exchanges : (d < i \/ d = i) /\ ~(d < 0)
        BY <1>0, <2>2, <3>3 DEF Exchanges
      <4> QED BY <3>1, <4>1, <4>2 DEF PaidOK
    <3> QED BY <3>2, <3>3
  <2>10. /\ \A d \in Sequenced : BookOK(d)'
         /\ \A d \in Exchanges : SnapOK(d)' /\ OwedOK(d)'
    BY <2>1 DEF MarketInv, BookOK, SnapOK, OwedOK, bookVars, snapVars
  <2> QED BY <2>4, <2>8, <2>9, <2>10 DEF MarketInv
<1>11. CASE EndRead
  <2>1. /\ read_pc = "return" /\ read_pc' = "idle" /\ now' = 0 /\ best_ts' = 0 /\ best' = NoData
        /\ owed' = [e \in Exchanges |-> 0]
        /\ UNCHANGED <<bookVars, clock, snapVars, i, ts, unread, reading>>
    BY <1>11 DEF EndRead
  <2>2. MarketTypes'
    BY <1>0, <2>1 DEF MarketTypes, bookVars, snapVars, NoData
  <2>3. ASSUME NEW d \in Exchanges PROVE SnapOK(d)' /\ OwedOK(d)'
    <3>1. SnapOK(d)
      BY DEF MarketInv
    <3> QED BY <1>0, <2>1, <3>1 DEF SnapOK, OwedOK, MarketTypes, snapVars
  <2>4. ReadingOK' /\ PaidOK'
    BY <1>0, <2>1 DEF MarketInv, MarketTypes, ReadingOK, PaidOK, NotOlderThanStamp, NoData
  <2>5. \A d \in Sequenced : BookOK(d)'
    BY <2>1 DEF MarketInv, BookOK, bookVars
  <2> QED BY <2>2, <2>3, <2>4, <2>5 DEF MarketInv
<1>12. CASE UNCHANGED marketVars
  <2>1. UNCHANGED <<bookVars, clock, snapVars, readVars>>
    BY <1>12 DEF marketVars
  <2>2. MarketTypes'
    BY <1>0, <2>1 DEF MarketTypes, bookVars, snapVars, readVars
  <2>3. /\ \A d \in Sequenced : BookOK(d)'
        /\ \A d \in Exchanges : SnapOK(d)' /\ OwedOK(d)'
        /\ ReadingOK' /\ PaidOK'
    BY <2>1 DEF MarketInv, BookOK, SnapOK, OwedOK, ReadingOK, PaidOK, NotOlderThanStamp,
                bookVars, snapVars, readVars
  <2> QED BY <2>2, <2>3 DEF MarketInv
<1> QED BY <1>1, <1>2, <1>3, <1>4, <1>5, <1>6, <1>7, <1>8, <1>9, <1>10, <1>11, <1>12
        DEF MarketNext

LEMMA MarketInvariant == MarketSpec => []MarketInv
BY MarketStart, MarketStep, PTL DEF MarketSpec

\* Whatever the network loses, repeats or reorders, a book that is valid consists of
\* exactly the updates up to its sequence number.
THEOREM BooksComplete == MarketSpec => []ValidIsComplete
<1>1. MarketInv => ValidIsComplete
  BY DEF MarketInv, BookOK, ValidIsComplete
<1> QED BY <1>1, MarketInvariant, PTL

\* The release store and the acquire load of the stamp are enough: no field of a reading
\* is older than its stamp, although every other access is relaxed.
THEOREM ReadingNotOlder == MarketSpec => []NotOlderThanStamp
<1>1. MarketInv => NotOlderThanStamp
  BY DEF MarketInv, ReadingOK
<1> QED BY <1>1, MarketInvariant, PTL

\* Nothing the router gets is MaxStale old or older, unsigned subtraction included.
THEOREM ReadingFresh == MarketSpec => []UsesFreshData
<1>1. MarketInv => UsesFreshData
  <2> SUFFICES ASSUME MarketInv, best_ts > 0, NEW f \in Fields PROVE now - best[f] < MaxStale
    BY DEF UsesFreshData
  <2>1. now \in Int /\ best_ts \in Nat /\ best[f] \in Nat /\ MaxStale \in Nat
    BY MarketAssumption DEF MarketInv, MarketTypes
  <2>2. best[f] >= best_ts /\ now - best_ts < MaxStale
    BY DEF MarketInv, ReadingOK, NotOlderThanStamp
  <2> QED BY <2>1, <2>2
<1> QED BY <1>1, MarketInvariant, PTL

\* The loop over the exchanges returns the freshest snapshot that stayed readable.
THEOREM FreshestReturned == MarketSpec => []FreshestUsed
<1>1. MarketInv => FreshestUsed
  <2> SUFFICES ASSUME MarketInv, read_pc = "return", NEW e \in Exchanges PROVE best_ts >= owed[e]
    BY DEF FreshestUsed
  <2>1. owed[e] <= best_ts /\ best_ts \in Nat /\ owed[e] \in Nat
    BY DEF MarketInv, PaidOK, MarketTypes
  <2> QED BY <2>1
<1> QED BY <1>1, MarketInvariant, PTL
=============================================================================
