----------------------------- MODULE AsyncLogger -----------------------------
(***************************************************************************)
(* oms::AsyncLogger (logger.hpp): log() pushes into the ring of SpscQueue  *)
(* and counts what it has to drop, a drain thread pops entries, writes     *)
(* them to the log file and flushes it now and then, shutdown() stops and  *)
(* joins that thread.  The ring's steps are those of SpscQueue; this       *)
(* module adds the drain loop, the file and the shutdown around them.      *)
(* The file is the number of entries written to it; ordering and contents  *)
(* of the entries are ImplementsFifo of the ring.                          *)
(***************************************************************************)
EXTENDS SpscQueue

CONSTANTS
  FlushEvery,  \* fflush follows every slot whose index is a multiple (256)
  MaxLogs      \* bound on the calls of log()

ASSUME LoggerAssumption == FlushEvery \in Nat \ {0} /\ MaxLogs \in Nat

VARIABLES
  running_,
  drain_pc,    \* "none" (no drain thread yet), "check", "recheck", "load", "entry", "flush", "exited"
  main_pc,     \* "up", "joining" (in shutdown), "down"
  filed,       \* entries written to the file, flushed or not
  flushed,     \* entries a crash can no longer lose
  dropped_,
  calls,       \* history: calls of log() so far
  atStop       \* history: entries published when shutdown() cleared running_

fileVars == <<filed, flushed>>
ctlVars == <<running_, drain_pc, main_pc, atStop>>
logVars == <<vars, running_, drain_pc, main_pc, filed, flushed, dropped_, calls, atStop>>

\* Entries in the ring that are not on file: tail_ still covers the one the
\* drain thread has just written.
InRing == Size - (IF pop_pc = "publish" THEN 1 ELSE 0)

LogInit ==
  /\ Init
  /\ running_ = FALSE /\ drain_pc = "none" /\ main_pc = "up"
  /\ filed = 0 /\ flushed = 0
  /\ dropped_ = 0 /\ calls = 0 /\ atStop = 0

-----------------------------------------------------------------------------
(* log() on thread t.                                                      *)

LogCall(t) ==
  /\ calls < MaxLogs
  /\ calls' = calls + 1
  /\ \E v \in Items : PushLoadHead(t, v)
  /\ UNCHANGED <<ctlVars, fileVars, dropped_>>

\* A full ring drops the entry and counts it.
LogFullCheck(t) ==
  /\ PushLoadTail(t)
  /\ dropped_' = IF push_pc'[t] = "idle" THEN dropped_ + 1 ELSE dropped_
  /\ UNCHANGED <<ctlVars, fileVars, calls>>

LogWrite(t) ==
  /\ PushWrite(t) \/ PushPublish(t)
  /\ UNCHANGED <<ctlVars, fileVars, dropped_, calls>>

-----------------------------------------------------------------------------
(* drain_loop()                                                            *)

\* MUTANT of DrainCheck: the loop runs while running_ and no longer.
DrainStopsAtOnce ==
  /\ drain_pc = "check"
  /\ drain_pc' = IF running_ THEN "load" ELSE "exited"
  /\ flushed' = IF running_ THEN flushed ELSE filed
  /\ UNCHANGED <<vars, running_, main_pc, atStop, filed, dropped_, calls>>

\* The first half of the loop condition.
DrainCheck ==
  /\ drain_pc = "check"
  /\ drain_pc' = IF running_ THEN "load" ELSE "recheck"
  /\ UNCHANGED <<vars, running_, main_pc, atStop, fileVars, dropped_, calls>>

\* MUTANT of DrainRecheck: the emptiness of the ring never ends the loop.
DrainWaitsForMore ==
  /\ drain_pc = "recheck"
  /\ drain_pc' = "load"
  /\ UNCHANGED <<vars, running_, main_pc, atStop, fileVars, dropped_, calls>>

\* The second half, once running_ is cleared; the thread flushes as it exits.
DrainRecheck ==
  /\ drain_pc = "recheck"
  /\ drain_pc' = IF tail_ # head_ THEN "load" ELSE "exited"
  /\ flushed' = IF tail_ # head_ THEN flushed ELSE filed
  /\ UNCHANGED <<vars, running_, main_pc, atStop, filed, dropped_, calls>>

\* An empty ring: yield and start over.
DrainYield ==
  /\ drain_pc = "load" /\ tail_ = head_
  /\ drain_pc' = "check"
  /\ UNCHANGED <<vars, running_, main_pc, atStop, fileVars, dropped_, calls>>

DrainLoad ==
  /\ drain_pc = "load"
  /\ PopLoadHead
  /\ drain_pc' = "entry"
  /\ UNCHANGED <<running_, main_pc, atStop, fileVars, dropped_, calls>>

DrainWrite ==
  /\ drain_pc = "entry"
  /\ PopRead
  /\ filed' = filed + 1
  /\ UNCHANGED <<ctlVars, flushed, dropped_, calls>>

\* MUTANT of DrainAdvance: the file is flushed at exit only.
DrainNeverFlushes ==
  /\ drain_pc = "entry"
  /\ PopPublish
  /\ drain_pc' = "check"
  /\ UNCHANGED <<running_, main_pc, atStop, fileVars, dropped_, calls>>

DrainAdvance ==
  /\ drain_pc = "entry"
  /\ PopPublish
  /\ drain_pc' = IF tail_ % FlushEvery = 0 THEN "flush" ELSE "check"
  /\ UNCHANGED <<running_, main_pc, atStop, fileVars, dropped_, calls>>

DrainFlush ==
  /\ drain_pc = "flush"
  /\ flushed' = filed
  /\ drain_pc' = "check"
  /\ UNCHANGED <<vars, running_, main_pc, atStop, filed, dropped_, calls>>

Drain ==
  \/ DrainCheck \/ DrainRecheck \/ DrainYield
  \/ DrainLoad \/ DrainWrite \/ DrainAdvance \/ DrainFlush

-----------------------------------------------------------------------------
(* The thread that owns the logger.                                        *)

\* init(); when the file cannot be opened no thread is started.
Start ==
  /\ main_pc = "up" /\ drain_pc = "none"
  /\ running_' = TRUE
  /\ drain_pc' = "check"
  /\ UNCHANGED <<vars, main_pc, atStop, fileVars, dropped_, calls>>

\* shutdown(): clear running_, then join.
Shutdown ==
  /\ main_pc = "up"
  /\ running_' = FALSE
  /\ main_pc' = "joining"
  /\ atStop' = filed + InRing
  /\ UNCHANGED <<vars, drain_pc, fileVars, dropped_, calls>>

\* A thread that was never started is not joinable.
Join ==
  /\ main_pc = "joining" /\ drain_pc \in {"none", "exited"}
  /\ main_pc' = "down"
  /\ flushed' = filed
  /\ UNCHANGED <<vars, running_, drain_pc, atStop, filed, dropped_, calls>>

LogNext ==
  \/ \E t \in Producers : LogCall(t) \/ LogFullCheck(t) \/ LogWrite(t)
  \/ Drain
  \/ Start \/ Shutdown \/ Join

\* The drain thread spins and join waits for it; nobody has to log or to stop.
LogSpec ==
  /\ LogInit /\ [][LogNext]_logVars
  /\ WF_logVars(Drain) /\ WF_logVars(Join)

-----------------------------------------------------------------------------
(* Properties                                                              *)

\* "flush every 256 entries to avoid losing data on crash": a crash loses at
\* most that many entries that were written to the file.
CrashLosesFew == filed - flushed <= FlushEvery

\* What was published before shutdown() began is on disk when it returns,
\* however the drain loop and the store of running_ interleave.
ShutdownDrains == main_pc = "down" /\ drain_pc = "exited" => flushed >= atStop

\* shutdown() returns once the other threads have stopped logging, which they
\* do after MaxLogs calls.
ShutdownReturns == main_pc = "joining" ~> main_pc = "down"
=============================================================================
