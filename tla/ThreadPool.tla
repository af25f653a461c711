----------------------------- MODULE ThreadPool -----------------------------
(***************************************************************************)
(* The state machine every thread pool of the simulator shares             *)
(* (src/lustre/processor.cpp): what each primitive does to the record      *)
(*                                                                         *)
(*   state  Processor::poolState                                           *)
(*   run    Event::run of the pool itself: its PoolStateMachine event is   *)
(*          in the event queue                                             *)
(*   idle   Processor::idle, always the length of idleQ                    *)
(*                                                                         *)
(* The pool is one event among the others of the simulation.  Signal()     *)
(* puts it into the event queue a few ticks ahead, so that requests may    *)
(* arrive and complete between the wakeup and the run of the machine; the  *)
(* modules that use these operators provide those interleavings.           *)
(***************************************************************************)
EXTENDS Naturals

PoolStates == {"Start", "Idle", "Run", "FullLoad"}

Pools(n) == [state : PoolStates, run : BOOLEAN, idle : 0..n]

(* Start(): InitThreadPool fills idleQ and RunAfter(1) schedules the pool. *)
StartedPool(n) == [state |-> "Start", run |-> TRUE, idle |-> n]

(* Signal() and the assignment that always follows it. *)
Signalled(p) == [p EXCEPT !.run = TRUE, !.state = "Run"]

Wakeup(p) == IF p.state = "Idle" THEN Signalled(p) ELSE p

(* k calls of NextIdleThreadFromPool, for k at most p.idle: the last idle  *)
(* thread leaves the pool fully loaded.                                    *)
TakeThreads(p, k) ==
  [state |-> IF k > 0 /\ k = p.idle THEN "FullLoad" ELSE p.state,
   run   |-> p.run,
   idle  |-> p.idle - k]

(* The end of every TaskCompletion: a pool that has an idle thread again   *)
(* but is still fully loaded is signalled.                                 *)
AddThread(p) == [p EXCEPT !.idle = @ + 1]
SignalIfLoaded(p) ==
  IF p.idle > 0 /\ p.state = "FullLoad" THEN Signalled(p) ELSE p

(* How many of n queued tasks one run of the machine hands to threads: the *)
(* recursion of PoolStateMachine ends when idleQ or the queue is empty.    *)
Dispatchable(p, n) ==
  IF p.state # "Run" THEN 0 ELSE IF n < p.idle THEN n ELSE p.idle

(* PoolStateMachine with n queued tasks and a scheduler that does not      *)
(* throttle: the machine goes idle unless the last thread was taken, and   *)
(* does nothing at all in the full-load state.                             *)
PoolStateMachine(p, n) ==
  LET q == TakeThreads(p, Dispatchable(p, n))
  IN  [state |-> IF q.state = "FullLoad" THEN "FullLoad" ELSE "Idle",
       run   |-> FALSE,
       idle  |-> q.idle]

(* The assertions of the pool: Signal() requires that the pool is not in   *)
(* the event queue (event.cpp:238), Wakeup() that a thread is idle         *)
(* (processor.cpp:121), the machine that it finds one (processor.cpp:164). *)
MaySignal(p) == ~p.run
MayWakeup(p) == p.state = "Idle" => MaySignal(p) /\ p.idle > 0
MayDispatch(p) == p.state = "Run" /\ p.run => p.idle > 0
=============================================================================
