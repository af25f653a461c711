----------------------------- MODULE Processor -----------------------------
(***************************************************************************)
(* A fixed-size service thread pool with a first-come first-served queue:  *)
(* the class Processor as a server attaches it (server.cpp:136-139, with   *)
(* NrsFifo) and as an OSC does when congestion control is off              *)
(* (osc.cpp:228-231).                                                      *)
(*                                                                         *)
(* A task is one Message; its handler (OST, MDT or client state machine)   *)
(* never completes it in the event that starts it, so a task is in service *)
(* from the dispatch to a later TaskCompletion event.  Threads are         *)
(* interchangeable: pool.idle counts idleQ and each task in busy holds one *)
(* of the others.                                                          *)
(***************************************************************************)
EXTENDS ThreadPool, Sequences, FiniteSets

CONSTANTS Tasks,      \* the messages that may arrive
          NumThreads  \* Processor::num

ProcessorAssumption == IsFiniteSet(Tasks) /\ NumThreads \in Nat \ {0}

VARIABLES pool,   \* the pool record of ThreadPool
          queue,  \* NrsFifo::Q, oldest first
          busy,   \* tasks that hold a thread
          done    \* tasks whose TaskCompletion has run

vars == <<pool, queue, busy, done>>

Queued == {queue[i] : i \in DOMAIN queue}

Init ==
  /\ pool = StartedPool(NumThreads)
  /\ queue = <<>>
  /\ busy = {}
  /\ done = {}
-----------------------------------------------------------------------------
(* Wrong: the task is queued, and nobody told. *)
AddNewTaskSilent(t) ==
  /\ queue' = Append(queue, t)
  /\ UNCHANGED <<pool, busy, done>>

AddNewTask(t) ==
  /\ queue' = Append(queue, t)
  /\ pool' = Wakeup(pool)
  /\ UNCHANGED <<busy, done>>

(* A new message reaches the node.  Users and remote nodes start thousands *)
(* of ticks after the pool's own first event, which runs at tick 1.        *)
Arrive(t) ==
  /\ pool.state # "Start"
  /\ t \notin Queued \cup busy \cup done
  /\ AddNewTask(t)

(* Wrong: Dequeue() takes from the end at which Enqueue() adds. *)
RunPoolNewest ==
  LET n == Len(queue) - Dispatchable(pool, Len(queue))
  IN  /\ pool.run
      /\ pool' = PoolStateMachine(pool, Len(queue))
      /\ queue' = SubSeq(queue, 1, n)
      /\ busy' = busy \cup {queue[i] : i \in (n + 1)..Len(queue)}
      /\ UNCHANGED done

(* The pool's event fires: as many of the oldest tasks as there are idle   *)
(* threads go into service.                                                *)
RunPool ==
  LET k == Dispatchable(pool, Len(queue))
  IN  /\ pool.run
      /\ pool' = PoolStateMachine(pool, Len(queue))
      /\ queue' = SubSeq(queue, k + 1, Len(queue))
      /\ busy' = busy \cup {queue[i] : i \in 1..k}
      /\ UNCHANGED done

(* Wrong: the limit of idleQ is off by one. *)
TaskCompletionOffByOne(t) ==
  /\ t \in busy
  /\ pool' = SignalIfLoaded(IF pool.idle + 1 >= NumThreads THEN pool
                            ELSE AddThread(pool))
  /\ busy' = busy \ {t}
  /\ done' = done \cup {t}
  /\ UNCHANGED queue

(* Wrong: a fully loaded pool is not signalled. *)
TaskCompletionSilent(t) ==
  /\ t \in busy
  /\ pool' = AddThread(pool)
  /\ busy' = busy \ {t}
  /\ done' = done \cup {t}
  /\ UNCHANGED queue

(* The thread goes back to idleQ, unless the pool is already full of idle  *)
(* threads, and a pool that was fully loaded is woken.                     *)
TaskCompletion(t) ==
  /\ t \in busy
  /\ pool' = SignalIfLoaded(IF pool.idle + 1 > NumThreads THEN pool
                            ELSE AddThread(pool))
  /\ busy' = busy \ {t}
  /\ done' = done \cup {t}
  /\ UNCHANGED queue

Next ==
  \/ \E t \in Tasks : Arrive(t) \/ TaskCompletion(t)
  \/ RunPool

Spec == Init /\ [][Next]_vars
-----------------------------------------------------------------------------
TypeOK ==
  /\ pool \in Pools(NumThreads)
  /\ queue \in Seq(Tasks)
  /\ busy \in SUBSET Tasks
  /\ done \in SUBSET Tasks

(* No thread is lost or invented by the way threads move between idleQ and *)
(* the tasks in service (processor.cpp:62-75, 92-109).                     *)
ThreadsAccounted == pool.idle + Cardinality(busy) = NumThreads

(* A message is in one place only: no interleaving of arrival, dispatch    *)
(* and completion queues or serves it twice (processor.cpp:77-116).        *)
NoDoubleService ==
  /\ \A i, j \in DOMAIN queue : queue[i] = queue[j] => i = j
  /\ Queued \cap (busy \cup done) = {}
  /\ busy \cap done = {}

(* The assertions hold whatever the interleaving: a fully loaded pool can  *)
(* be signalled by a completion, an idle one by an arrival                 *)
(* (event.cpp:238, processor.cpp:121, 164).                                *)
AssertionsHold ==
  /\ MayWakeup(pool)
  /\ MayDispatch(pool)
  /\ pool.state = "FullLoad" => MaySignal(pool)

(* No lost wakeup: while a task is queued and a thread is idle, the pool's *)
(* event is pending (processor.cpp:86, 111 are the only places that wake   *)
(* it); and none too many, which the assertions forbid.                    *)
NoLostWakeup ==
  /\ queue # <<>> /\ pool.idle > 0 => pool.run
  /\ AssertionsHold

(* First come, first served: when a task leaves the queue, no task that    *)
(* arrived before it stays behind (nrsfifo.cpp:32-65).                     *)
InOrderOfArrival ==
  \A i, j \in DOMAIN queue :
    i < j /\ queue[j] \notin Queued' => queue[i] \notin Queued'
=============================================================================
