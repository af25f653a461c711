------------------------------ MODULE NrsPrio -------------------------------
(***************************************************************************)
(* The priority scheduler (nrsprio.cpp) in its only flavour, PRIO_STRICT,  *)
(* and the server thread pool it feeds.  Each request carries a priority;  *)
(* the queue of the highest priority with requests hands out first.  Each  *)
(* request gets a deadline: for the dynamic queue it follows from the load *)
(* and is never before that of the request before it; for the other queue  *)
(* it is a fixed time ahead.  `coef` and `delta` are never set, so that    *)
(* the load has weight Coef = 0 in the program; the model keeps it.        *)
(***************************************************************************)
EXTENDS ThreadPool, FiniteSets, SequencesExt, FiniteSetsExt

CONSTANTS PerClass,    \* bound: requests of a priority that may arrive
          Count,       \* io->count of the n-th request of a priority
          Bandwidth,   \* NrsPrio::bw
          Coef, Delta, \* NrsPrio::coef and delta
          Wait,        \* Q[1].wt
          NumThreads,  \* Processor::num
          LastTick     \* bound: the clock stops there

Priorities == 0..1     \* PRIO_QUEUE_NUM
Dynamic == 0           \* the queue with PRIO_FLG_DYNAMIC_WT

NrsPrioAssumption ==
  /\ {NumThreads, Bandwidth} \subseteq Nat \ {0}
  /\ {PerClass, Coef, Delta, Wait, LastTick} \subseteq Nat
  /\ Count \in [1..PerClass -> Nat]

Requests == Priorities \X (1..PerClass)

VARIABLES now,         \* Event::Clock()
          pool,        \* the pool record of ThreadPool
          pq,          \* prio_queue::pq, with io->deadline of the requests
          load,        \* num_ and io_, _queued and _serviced
          busy, done   \* requests in service, requests completed

vars == <<now, pool, pq, load, busy, done>>

Waiting(p) == {e.req : e \in ToSet(pq[p])}
Queued == UNION {Waiting(p) : p \in Priorities}
NoLoad == [num_queued |-> 0, num_serviced |-> 0, io_queued |-> 0,
           io_serviced |-> 0]

Init ==
  /\ now = 0
  /\ pool = [StartedPool(NumThreads) EXCEPT !.run = FALSE, !.state = "Idle"]
  /\ pq = [p \in Priorities |-> <<>>]
  /\ load = NoLoad
  /\ busy = {} /\ done = {}
-----------------------------------------------------------------------------
(* GetDynamicDeadline *)
DynamicDeadline ==
  LET dl == now + ((load.io_queued + load.io_serviced) \div Bandwidth) * Coef
      q  == pq[Dynamic]
  IN  IF q # <<>> /\ Last(q).deadline > dl THEN Last(q).deadline + Delta ELSE dl

Deadline(p) == IF p = Dynamic THEN DynamicDeadline ELSE now + Wait

(* AddNewTask: a request arrives at the server. *)
AddNewTask(r) ==
  /\ r \notin Queued \cup busy \cup done
  /\ \A n \in 1..(r[2] - 1) : <<r[1], n>> \in Queued \cup busy \cup done
  /\ pq' = [pq EXCEPT ![r[1]] = Append(@, [req |-> r, deadline |-> Deadline(r[1])])]
  /\ load' = [load EXCEPT !.num_queued = @ + 1,
                          !.io_queued = @ + Count[r[2]]]
  /\ pool' = Wakeup(pool)
  /\ UNCHANGED <<now, busy, done>>

(* StrictPrioDequeue: the queue of the highest priority that is not empty. *)
ServedQueue(q) == Max({p \in Priorities : q[p] # <<>>})

(* Dequeue, and what it counts. *)
Dequeue(s) ==
  LET p == ServedQueue(s.pq)
      r == Head(s.pq[p]).req
  IN  [pq   |-> [s.pq EXCEPT ![p] = Tail(@)],
       load |-> [num_queued   |-> s.load.num_queued - 1,
                 num_serviced |-> s.load.num_serviced + 1,
                 io_queued    |-> s.load.io_queued - Count[r[2]],
                 io_serviced  |-> s.load.io_serviced + Count[r[2]]],
       out  |-> s.out \cup {r}]

(* The pool's event: Dequeue while there are threads and requests. *)
RunPool ==
  LET n == Dispatchable(pool, load.num_queued)
      after[k \in 0..n] ==
        IF k = 0 THEN [pq |-> pq, load |-> load, out |-> {}]
        ELSE Dequeue(after[k - 1])
  IN  /\ pool.run
      /\ pool' = PoolStateMachine(pool, load.num_queued)
      /\ pq' = after[n].pq
      /\ load' = after[n].load
      /\ busy' = busy \cup after[n].out
      /\ UNCHANGED <<now, done>>

(* Wrong: the I/O in service is not counted down. *)
TaskCompletionUncounted(r) ==
  /\ r \in busy
  /\ pool' = SignalIfLoaded(AddThread(pool))
  /\ load' = [load EXCEPT !.num_serviced = @ - 1]
  /\ busy' = busy \ {r}
  /\ done' = done \cup {r}
  /\ UNCHANGED <<now, pq>>

(* TaskCompletion, with Finish. *)
TaskCompletion(r) ==
  /\ r \in busy
  /\ pool' = SignalIfLoaded(AddThread(pool))
  /\ load' = [load EXCEPT !.num_serviced = @ - 1,
                          !.io_serviced = @ - Count[r[2]]]
  /\ busy' = busy \ {r}
  /\ done' = done \cup {r}
  /\ UNCHANGED <<now, pq>>

Tick ==
  /\ now < LastTick
  /\ now' = now + 1
  /\ UNCHANGED <<pool, pq, load, busy, done>>

Next ==
  \/ \E r \in Requests : AddNewTask(r) \/ TaskCompletion(r)
  \/ RunPool
  \/ Tick

Spec == Init /\ [][Next]_vars
-----------------------------------------------------------------------------
(* The load that deadlines are computed from is that of the requests which *)
(* wait and are in service, and the requests of a queue wait in the order  *)
(* of their deadlines (nrsprio.cpp:61-129, 240-266).                       *)
LoadCounted ==
  LET io(S) == FoldSet(LAMBDA r, n : n + Count[r[2]], 0, S)
  IN  /\ load = [num_queued |-> Cardinality(Queued),
                 num_serviced |-> Cardinality(busy),
                 io_queued |-> io(Queued), io_serviced |-> io(busy)]
      /\ \A p \in Priorities : \A i, j \in DOMAIN pq[p] :
           i <= j => pq[p][i].deadline <= pq[p][j].deadline

(* A request is handed out only with all those of a higher priority        *)
(* (nrsprio.cpp:136-144).                                                  *)
HighestGoesFirst ==
  \A r \in busy' \ busy : \A p \in Priorities :
    p > r[1] => Waiting(p) \subseteq busy'
=============================================================================
