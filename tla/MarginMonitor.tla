---------------------------- MODULE MarginMonitor ----------------------------
(***************************************************************************)
(* oms::MarginMonitor (margin_monitor.hpp) and MarginState                 *)
(* (position_tracker.hpp).  Three threads update the margin estimate:      *)
(*   exec   on_fill and on_release, for every fill, cancel and reject      *)
(*   rest   on_rest_update, with the exchange's own numbers                *)
(*   feed   on_mark_price                                                  *)
(* Each stores the inputs it is about and then runs recompute_available,   *)
(* which loads the three inputs and publishes the result.  Every atomic    *)
(* load and store is a step; between any two of them the other threads may *)
(* run (steps interleave, store buffers are not modelled).                 *)
(*                                                                         *)
(* Money is in integer units.  A mark price matters only through the       *)
(* unrealised profit it gives, which is any member of Profits; that the    *)
(* position and its average price are two loads is therefore not visible.  *)
(***************************************************************************)
EXTENDS Integers

CONSTANTS
  Equity0,      \* MarginConfig::equity_usd
  Deltas,       \* margin of one fill or release: notional * initial_margin_rate
  RestReports,  \* <<equity, used>> as the exchange may report them
  Profits,      \* unrealised profits
  MaxCalls      \* [{"exec", "rest"} -> bound on the calls]

ASSUME MarginAssumption ==
  /\ Equity0 \in Nat /\ Deltas \subseteq Nat /\ Profits \subseteq Int
  /\ RestReports \subseteq Nat \X Nat
  /\ MaxCalls \in [{"exec", "rest"} -> Nat]

Threads == {"exec", "rest", "feed"}

VARIABLES
  local_equity_, locked_margin_, upnl_,
  margin_available,  \* of MarginState; nobody reads the two fields stored before it
  pc,          \* per thread: the next access it makes
  arg,         \* per thread: the call it is in and its amount
  reg,         \* per thread: what it has loaded
  calls,       \* calls so far on exec and rest
  stale,       \* history, per thread: an input changed after it began to load
  disturbed    \* history: stale of the thread that published last, as it did so

inputs == <<local_equity_, locked_margin_, upnl_>>
history == <<stale, disturbed>>
marginVars == <<inputs, margin_available, pc, arg, reg, calls, history>>

NoArg == <<"none", 0>>
NoRegs == [equity |-> 0, locked |-> 0, upnl |-> 0]

MarginInit ==
  /\ local_equity_ = Equity0 /\ locked_margin_ = 0 /\ upnl_ = 0
  /\ margin_available = Equity0
  /\ pc = [t \in Threads |-> "idle"]
  /\ arg = [t \in Threads |-> NoArg]
  /\ reg = [t \in Threads |-> NoRegs]
  /\ calls = [t \in {"exec", "rest"} |-> 0]
  /\ stale = [t \in Threads |-> FALSE]
  /\ disturbed = FALSE

-----------------------------------------------------------------------------
(* The calls up to their last store of an input.  A store makes what other *)
(* threads have loaded or are loading stale.                               *)

Goto(t, where) == pc' = [pc EXCEPT ![t] = where]

Recomputing == {"load_equity", "load_locked", "load_upnl", "publish"}

\* After a store of thread t.
Spoiled(t) == [s \in Threads |-> stale[s] \/ (s # t /\ pc[s] \in Recomputing)]

Counted(t) ==
  /\ calls[t] < MaxCalls[t]
  /\ calls' = [calls EXCEPT ![t] = @ + 1]

\* on_fill and on_release load the locked margin first.
OnFillOrRelease(name, d) ==
  /\ pc["exec"] = "idle" /\ Counted("exec")
  /\ arg' = [arg EXCEPT !["exec"] = <<name, d>>]
  /\ reg' = [reg EXCEPT !["exec"].locked = locked_margin_]
  /\ Goto("exec", "locked")
  /\ UNCHANGED <<inputs, margin_available, history>>

\* on_release never lets the locked margin fall below zero.
Adjusted(call, prev, d) ==
  IF call = "fill" THEN prev + d ELSE IF prev > d THEN prev - d ELSE 0

StoreLocked ==
  /\ pc["exec"] = "locked"
  /\ locked_margin_' = Adjusted(arg["exec"][1], reg["exec"].locked, arg["exec"][2])
  /\ Goto("exec", "load_equity")
  /\ stale' = Spoiled("exec")
  /\ UNCHANGED <<local_equity_, upnl_, margin_available, arg, reg, calls, disturbed>>

\* on_rest_update stores the equity, then the locked margin.
OnRestUpdate(equity, used) ==
  /\ pc["rest"] = "idle" /\ Counted("rest")
  /\ arg' = [arg EXCEPT !["rest"] = <<"rest", used>>]
  /\ local_equity_' = equity
  /\ Goto("rest", "locked")
  /\ stale' = Spoiled("rest")
  /\ UNCHANGED <<locked_margin_, upnl_, margin_available, reg, disturbed>>

\* "REST is authoritative, override our local locked estimate".  It is itself
\* overwritten when the exec thread is between its load and its store: then the
\* report is lost until the next one.
RestStoreLocked ==
  /\ pc["rest"] = "locked"
  /\ locked_margin_' = arg["rest"][2]
  /\ Goto("rest", "load_equity")
  /\ stale' = Spoiled("rest")
  /\ UNCHANGED <<local_equity_, upnl_, margin_available, arg, reg, calls, disturbed>>

\* on_mark_price with an open position; without one it returns at once.
OnMarkPrice(u) ==
  /\ pc["feed"] = "idle"
  /\ upnl_' = u
  /\ Goto("feed", "load_equity")
  /\ stale' = Spoiled("feed")
  /\ UNCHANGED <<local_equity_, locked_margin_, margin_available, arg, reg, calls, disturbed>>

-----------------------------------------------------------------------------
(* recompute_available                                                     *)

\* MUTANT of LoadInput: the locked margin is the one loaded before the store.
LoadInputOnce(t) ==
  /\ \/ /\ pc[t] = "load_equity" /\ Goto(t, "load_upnl")
        /\ reg' = [reg EXCEPT ![t].equity = local_equity_]
     \/ /\ pc[t] = "load_upnl" /\ Goto(t, "publish")
        /\ reg' = [reg EXCEPT ![t].upnl = upnl_]
  /\ UNCHANGED <<inputs, margin_available, arg, calls, history>>

LoadInput(t) ==
  /\ \/ /\ pc[t] = "load_equity" /\ Goto(t, "load_locked")
        /\ reg' = [reg EXCEPT ![t].equity = local_equity_]
     \/ /\ pc[t] = "load_locked" /\ Goto(t, "load_upnl")
        /\ reg' = [reg EXCEPT ![t].locked = locked_margin_]
     \/ /\ pc[t] = "load_upnl" /\ Goto(t, "publish")
        /\ reg' = [reg EXCEPT ![t].upnl = upnl_]
  /\ UNCHANGED <<inputs, margin_available, arg, calls, history>>

\* "conservative: negative upnl reduces available margin, positive doesn't count"
AdjEquity(equity, upnl) == equity + (IF upnl < 0 THEN upnl ELSE 0)

\* MarginState::update
Publish(t) ==
  /\ pc[t] = "publish" /\ Goto(t, "idle")
  /\ margin_available' = AdjEquity(reg[t].equity, reg[t].upnl) - reg[t].locked
  /\ stale' = [stale EXCEPT ![t] = FALSE]
  /\ disturbed' = stale[t]
  /\ arg' = [arg EXCEPT ![t] = NoArg]
  /\ reg' = [reg EXCEPT ![t] = NoRegs]
  /\ UNCHANGED <<inputs, calls>>

Recompute(t) == LoadInput(t) \/ Publish(t)

Exec == StoreLocked \/ Recompute("exec")
Rest == RestStoreLocked \/ Recompute("rest")
Feed == (\E u \in Profits : OnMarkPrice(u)) \/ Recompute("feed")

MarginNext ==
  \/ \E d \in Deltas, name \in {"fill", "release"} : OnFillOrRelease(name, d)
  \/ \E r \in RestReports : OnRestUpdate(r[1], r[2])
  \/ Exec \/ Rest \/ Feed

MarginSpec == MarginInit /\ [][MarginNext]_marginVars

-----------------------------------------------------------------------------
(* Properties                                                              *)

\* What the risk engine reads is what the inputs give.
Consistent == margin_available = AdjEquity(local_equity_, upnl_) - locked_margin_

\* When no call is running, the published margin is what the inputs give unless
\* the thread that published last was disturbed while it recomputed: no store
\* of an input goes unpublished, whichever thread made it.
PublishedUnlessDisturbed ==
  (\A t \in Threads : pc[t] = "idle") /\ ~disturbed => Consistent
=============================================================================
