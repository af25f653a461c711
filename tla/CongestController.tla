------------------------- MODULE CongestController -------------------------
(***************************************************************************)
(* The client-side I/O congestion controller: the thread pool an OSC       *)
(* attaches when the concurrency is not fixed (osc.cpp:232-235).  Its      *)
(* number of threads is the RPC concurrency window of the client, which    *)
(* every completed RPC sets to the credits (rcc) that its message carries  *)
(* (congestcontroller.cpp:57-105).                                         *)
(*                                                                         *)
(* The server writes a new grant into the RPC when it replies to a write   *)
(* (ptlrpc.cpp:690-700): CalcGrantRCC clamps it to Cmin..Cmax, and its     *)
(* estimate of the load is abstracted to any grant in that range.  A read  *)
(* is never replied to with RPC_PHASE_COMPLETE (ost.cpp:218-226), so it    *)
(* comes back with the credits it was sent with.                           *)
(*                                                                         *)
(* OSC::ReadWrite calls AddNewTask through a Processor pointer and the     *)
(* method is not virtual (osc.cpp:130, processor.h:100), so the            *)
(* controller's own AddNewTask (congestcontroller.cpp:107-115) never runs. *)
(***************************************************************************)
EXTENDS ThreadPool, Integers, Sequences, FiniteSets, FiniteSetsExt

CONSTANTS Writes,  \* write RPCs that may be submitted
          Reads,   \* read RPCs that may be submitted
          Cmin,    \* params.cc.Cmin
          Cmax,    \* params.cc.Cmax
          RCC,     \* params.cc.RCC, the window before the first reply
          CQmax    \* params.cc.CQmax, queue depth that means congestion

CongestControllerAssumption ==
  /\ IsFiniteSet(Writes) /\ IsFiniteSet(Reads) /\ Writes \cap Reads = {}
  /\ Cmin \in Nat \ {0} /\ Cmax \in Nat /\ RCC \in Cmin..Cmax
  /\ CQmax \in Nat \ {0}

Tasks == Writes \cup Reads

VARIABLES pool,   \* the pool record of ThreadPool
          num,    \* Processor::num, the window
          rnum,   \* Processor::rnum, the threads that exist
          queue,  \* csp.Q, oldest first
          busy,   \* RPCs in flight, each holding a thread
          done,   \* completed RPCs
          csp,    \* the counters uc, depth, rcc and the flag congested
          rcc     \* rpc->rcc of each RPC

vars == <<pool, num, rnum, queue, busy, done, csp, rcc>>

Queued == {queue[i] : i \in DOMAIN queue}

Init ==
  /\ pool = StartedPool(RCC)
  /\ num = RCC /\ rnum = RCC
  /\ queue = <<>> /\ busy = {} /\ done = {}
  /\ csp = [uc |-> 0, depth |-> 0, rcc |-> 0, congested |-> FALSE]
  /\ rcc = [t \in Tasks |-> 0]
-----------------------------------------------------------------------------
(* CheckIoCongestion on the counters c: the flag follows the depth.  What  *)
(* the flag does to the user process (client.cpp:257-275) is left out: no  *)
(* reachable state raises it, which is part of ThreadsAccounted.           *)
CheckIoCongestion(c) == [c EXCEPT !.congested = c.depth >= CQmax]

(* OSC::ReadWrite: Processor::AddNewTask.                                  *)
AddNewTask(t) ==
  /\ queue' = Append(queue, t)
  /\ pool' = Wakeup(pool)
  /\ UNCHANGED <<num, rnum, busy, done, csp, rcc>>

Submit(t) ==
  /\ pool.state # "Start"
  /\ t \notin Queued \cup busy \cup done
  /\ AddNewTask(t)

(* RunOneTask for k tasks in turn: each counts itself out of the queue     *)
(* depth and takes the current credits along.                              *)
RunTasks(c, k) ==
  CheckIoCongestion([c EXCEPT !.uc = @ + k, !.depth = @ - k])

RunPool ==
  LET k == Dispatchable(pool, Len(queue))
      S == {queue[i] : i \in 1..k}
  IN  /\ pool.run
      /\ pool' = PoolStateMachine(pool, Len(queue))
      /\ queue' = SubSeq(queue, k + 1, Len(queue))
      /\ busy' = busy \cup S
      /\ csp' = IF k = 0 THEN csp ELSE RunTasks(csp, k)
      /\ rcc' = [t \in Tasks |-> IF t \in S THEN csp.rcc ELSE rcc[t]]
      /\ UNCHANGED <<num, rnum, done>>

(* AdjustThreadPool(c, 0): shrinking deletes idle threads only, and leaves *)
(* the pool fully loaded when none is left; growing adds idle threads.     *)
(* The result is the pool with its new number of threads.                  *)
AdjustThreadPool(c) ==
  IF num = c THEN [pool |-> pool, rnum |-> rnum]
  ELSE IF rnum > c
  THEN LET n == Min({pool.idle, rnum - c})
           p == TakeThreads(pool, n)
       IN  [pool |-> IF p.idle = 0 THEN [p EXCEPT !.state = "FullLoad"] ELSE p,
            rnum |-> rnum - n]
  ELSE [pool |-> [pool EXCEPT !.idle = @ + (c - rnum)], rnum |-> c]

(* The grants a completing RPC may carry: see the head of the module.      *)
Grants(t) == IF t \in Writes THEN Cmin..Cmax ELSE {rcc[t]}

(* Wrong: the finishing thread always goes back to idleQ. *)
TaskCompletionKeep(t) ==
  /\ t \in busy
  /\ \E c \in Grants(t) :
       LET a == AdjustThreadPool(c)
           p == AddThread(a.pool)
       IN  /\ rcc' = [rcc EXCEPT ![t] = c]
           /\ csp' = [csp EXCEPT !.uc = @ - 1, !.rcc = c]
           /\ num' = c /\ rnum' = a.rnum
           /\ pool' = IF p.run THEN p ELSE SignalIfLoaded(p)
  /\ busy' = busy \ {t} /\ done' = done \cup {t} /\ UNCHANGED queue

(* Wrong: the RPC is not counted out of those in flight. *)
TaskCompletionUncounted(t) ==
  /\ t \in busy
  /\ pool' = SignalIfLoaded(AddThread(pool))
  /\ busy' = busy \ {t} /\ done' = done \cup {t}
  /\ UNCHANGED <<num, rnum, queue, csp, rcc>>

TaskCompletion(t) ==
  /\ t \in busy
  /\ \E c \in Grants(t) :
       LET a == AdjustThreadPool(c)
           \* the finishing thread is deleted if too many are left
           p == IF a.rnum > c THEN a.pool ELSE AddThread(a.pool)
       IN  /\ rcc' = [rcc EXCEPT ![t] = c]
           /\ csp' = [csp EXCEPT !.uc = @ - 1, !.rcc = c]
           /\ num' = c
           /\ rnum' = IF a.rnum > c THEN a.rnum - 1 ELSE a.rnum
           /\ pool' = IF p.run THEN p ELSE SignalIfLoaded(p)
  /\ busy' = busy \ {t}
  /\ done' = done \cup {t}
  /\ UNCHANGED queue

Next ==
  \/ \E t \in Tasks : Submit(t) \/ TaskCompletion(t)
  \/ RunPool

Spec == Init /\ [][Next]_vars

(* An event in the event queue is run after finitely many others, and the  *)
(* server eventually answers.                                              *)
Fairness ==
  /\ WF_vars(RunPool)
  /\ \A t \in Tasks : WF_vars(TaskCompletion(t))

FairSpec == Spec /\ Fairness
-----------------------------------------------------------------------------
TypeOK ==
  /\ pool \in Pools(Cmax)
  /\ num \in 0..Cmax /\ rnum \in 0..Cmax
  /\ queue \in Seq(Tasks) /\ busy \in SUBSET Tasks /\ done \in SUBSET Tasks
  /\ csp \in [uc : Nat, depth : Int, rcc : 0..Cmax, congested : BOOLEAN]
  /\ rcc \in [Tasks -> 0..Cmax]

(* Threads are neither lost nor leaked while completions resize the pool,  *)
(* and csp.uc counts the RPCs in flight (congestcontroller.cpp:76-95,      *)
(* LASSERT(csp.uc >= 0) at line 76).  The depth is only ever counted down, *)
(* for the controller's AddNewTask never runs, so that no queue length     *)
(* raises the congestion flag.  The assertions of the pool hold while      *)
(* threads come and go: what a shrink leaves behind is never an idle state *)
(* without a thread (processor.cpp:121, 164, event.cpp:238).               *)
ThreadsAccounted ==
  /\ TypeOK
  /\ pool.idle + Cardinality(busy) = rnum
  /\ csp.uc = Cardinality(busy)
  /\ csp.depth = -(Cardinality(busy) + Cardinality(done))
  /\ ~csp.congested
  /\ MayWakeup(pool) /\ MayDispatch(pool)
  /\ pool.idle = 0 => pool.state = "FullLoad"

(* The window is respected: the RPCs in flight may exceed a window that    *)
(* just shrank, but no RPC is sent while they do.                          *)
SentWithinWindow == busy' \ busy # {} => Cardinality(busy') <= num

(* Every RPC that is submitted is sent and completed.                      *)
EveryTaskServed == \A t \in Tasks : t \in Queued ~> t \in done

(* The window never falls below the least grant, so that RPCs may always   *)
(* be sent (lustre.h:382).                                                 *)
WindowOpen == num >= Cmin
=============================================================================
