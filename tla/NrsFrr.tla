------------------------------- MODULE NrsFrr -------------------------------
(***************************************************************************)
(* The object based round robin request scheduler and the server thread    *)
(* pool it feeds (nrsfrr.cpp, processor.cpp).  Requests wait in the queue  *)
(* of their object and direction, in the order of their offsets.  The      *)
(* object queues with work take turns in the global queue Q; one of them,  *)
(* wq, hands out at most Quantum requests, and goes back to the end of Q   *)
(* if it has more.  With the two level deadlines (FRR_DL_2L) a request     *)
(* whose deadline has passed goes first.                                   *)
(*                                                                         *)
(* Clients give every request a dynamic deadline: SetIoDeadline sets d1nr  *)
(* to 0 (client.cpp:131), so that no client sends a mandatory one, and mQ  *)
(* is always empty.  The expiration time grows with the I/O that is queued *)
(* or in service; all requests are of the same size here.                  *)
(***************************************************************************)
EXTENDS ThreadPool, Sequences, FiniteSets, SequencesExt, FiniteSetsExt

CONSTANTS Objects,     \* object queues: one per object and direction
          PerObject,   \* bound: requests of each queue that may arrive
          Quantum,     \* FRR_QUANTUM
          Modes,       \* params.nrs.Deadline may be FRR_DL_OFF, FRR_DL_2L
          Slack,       \* expiration time per request queued or in service
          LastTick,    \* bound: the clock stops there
          LastArrival, \* bound: no request arrives after this tick
          NumThreads,  \* Processor::num
          None         \* no object queue

NrsFrrAssumption ==
  /\ IsFiniteSet(Objects) /\ None \notin Objects
  /\ {Quantum, NumThreads} \subseteq Nat \ {0}
  /\ PerObject \in [Objects -> Nat]
  /\ {Slack, LastTick, LastArrival} \subseteq Nat
  /\ Modes \subseteq {"OFF", "2L"}

\* A request is its object queue and its offset.
Requests == UNION {{o} \X (1..PerObject[o]) : o \in Objects}

VARIABLES mode,        \* params.nrs.Deadline
          now,         \* Event::Clock()
          pool,        \* the pool record of ThreadPool
          oq,          \* io_queue::s of each object queue
          queued,      \* its IO_QUEUE_QUEUED flag
          Q,           \* the global queue, next object queue first
          wq,          \* the object queue whose turn it is
          quantum,     \* wq->quantum
          dQ,          \* requests with a dynamic deadline, oldest first
          busy, done,  \* requests in service, requests completed
          wait         \* history: requests of other objects handed out
                       \* while this one was waiting for its turn

nrsVars == <<oq, queued, Q, wq, quantum, dQ, wait>>
vars == <<mode, now, pool, nrsVars, busy, done>>

Queued == UNION {oq[o] : o \in Objects}

Init ==
  /\ mode \in Modes
  /\ now = 0
  /\ pool = [StartedPool(NumThreads) EXCEPT !.run = FALSE, !.state = "Idle"]
  /\ oq = [o \in Objects |-> {}]
  /\ queued = [o \in Objects |-> FALSE]
  /\ Q = <<>> /\ wq = None /\ quantum = 0
  /\ dQ = <<>>
  /\ busy = {} /\ done = {}
  /\ wait = [o \in Objects |-> 0]
-----------------------------------------------------------------------------
(* SetIoDeadline: a deadline is never before that of an older request, so  *)
(* that dQ needs no sorting.  The request itself counts as queued.         *)
Deadline ==
  LET d == now + Slack * (Cardinality(Queued) + 1 + Cardinality(busy))
  IN  IF dQ # <<>> /\ Last(dQ).deadline > d THEN Last(dQ).deadline ELSE d

Enqueue(r) ==
  LET o == r[1]
      join == ~queued[o] /\ o # wq
  IN  /\ oq' = [oq EXCEPT ![o] = @ \cup {r}]
      /\ Q' = IF join THEN Append(Q, o) ELSE Q
      /\ queued' = [queued EXCEPT ![o] = @ \/ join]
      /\ dQ' = IF mode = "2L" THEN Append(dQ, [req |-> r, deadline |-> Deadline])
               ELSE dQ
      /\ UNCHANGED <<wq, quantum, wait>>

(* AddNewTask: a request arrives at the server. *)
AddNewTask(r) ==
  /\ now <= LastArrival
  /\ r \notin Queued \cup busy \cup done
  /\ Enqueue(r)
  /\ pool' = Wakeup(pool)
  /\ UNCHANGED <<mode, now, busy, done>>

(* Hand out the request r, on the state s of the scheduler and the pool.   *)
HandOut(s, r) ==
  [s EXCEPT !.oq[r[1]] = @ \ {r},
            !.dQ = RemoveFirstMatch(@, LAMBDA e : e.req = r),
            !.out = @ \cup {r},
            !.pool = TakeThreads(@, 1),
            !.wait = [o \in Objects |->
                        IF o = r[1] \/ s.oq[o] = {} THEN 0 ELSE @[o] + 1]]

(* IoDeadlineDequeue: the first deadline has elapsed.                      *)
IsExpired(s) == s.dQ # <<>> /\ Head(s.dQ).deadline <= now

(* The request with the first deadline is handed out.  An object queue     *)
(* that is empty now gives up its turn and leaves Q.                       *)
ServeExpired(s) ==
  LET r == Head(s.dQ).req
      h == HandOut(s, r)
  IN  IF h.oq[r[1]] # {} THEN h
      ELSE [h EXCEPT !.wq = IF @ = r[1] THEN None ELSE @,
                     !.Q = IF h.queued[r[1]] THEN RemoveFirst(@, r[1]) ELSE @]

(* GetWorkQueue: the next object queue has its turn. *)
GetWorkQueue(s) ==
  IF s.wq # None \/ s.Q = <<>> THEN s
  ELSE [s EXCEPT !.wq = Head(s.Q),
                 !.Q = Tail(@),
                 !.queued[Head(s.Q)] = FALSE,
                 !.quantum = Quantum]

(* IoDequeue takes the first of an object queue in the order of            *)
(* CompareByOffset.                                                        *)
OffsetLess(r, t) == r[2] < t[2]
LowestOffset(S)  == CHOOSE r \in S : \A t \in S \ {r} : OffsetLess(r, t)

(* Wrong: a turn ends only with the work queue empty. *)
ServeWorkToTheEnd(s) ==
  LET h == HandOut(s, LowestOffset(s.oq[s.wq]))
  IN  IF h.oq[s.wq] = {} THEN [h EXCEPT !.wq = None] ELSE h

(* The work queue is served, and its turn may end. *)
ServeWork(s) ==
  LET o == s.wq
      h == HandOut([s EXCEPT !.quantum = @ - 1], LowestOffset(s.oq[o]))
  IN  IF h.oq[o] = {} THEN [h EXCEPT !.wq = None]
      ELSE IF h.quantum = 0
      THEN [h EXCEPT !.wq = None, !.Q = Append(@, o), !.queued[o] = TRUE]
      ELSE h

(* Wrong: a deadline that has just been reached has not elapsed. *)
DequeueLate(s) ==
  LET g == GetWorkQueue(s)
  IN  IF s.dQ # <<>> /\ Head(s.dQ).deadline < now THEN ServeExpired(s)
      ELSE IF g.wq = None THEN g ELSE ServeWork(g)

Dequeue(s) ==
  LET g == GetWorkQueue(s)
  IN  IF IsExpired(s) THEN ServeExpired(s)
      ELSE IF g.wq = None THEN g
      ELSE ServeWork(g)

(* The pool's event: PoolStateMachine until nothing is handed out or no    *)
(* thread is left.                                                         *)
RunPool ==
  LET s0 == [pool |-> [pool EXCEPT !.run = FALSE], oq |-> oq,
             queued |-> queued, Q |-> Q, wq |-> wq, quantum |-> quantum,
             dQ |-> dQ, wait |-> wait, out |-> {}]
      run[n \in 0..NumThreads] ==
        IF n = 0 THEN {s0}
        ELSE {IF s.pool.state = "Run" THEN Dequeue(s) ELSE s : s \in run[n - 1]}
  IN  /\ pool.run
      /\ \E s \in run[NumThreads] :
           /\ pool' = IF s.pool.state = "FullLoad" THEN s.pool
                      ELSE [s.pool EXCEPT !.state = "Idle"]
           /\ oq' = s.oq /\ queued' = s.queued
           /\ Q' = s.Q /\ wq' = s.wq /\ quantum' = s.quantum
           /\ dQ' = s.dQ /\ wait' = s.wait
           /\ busy' = busy \cup s.out
      /\ UNCHANGED <<mode, now, done>>

TaskCompletion(r) ==
  /\ r \in busy
  /\ pool' = SignalIfLoaded(AddThread(pool))
  /\ busy' = busy \ {r}
  /\ done' = done \cup {r}
  /\ UNCHANGED <<mode, now, nrsVars>>

(* Time goes on as long as deadlines matter. *)
Tick ==
  /\ mode = "2L" /\ now < LastTick
  /\ now' = now + 1
  /\ UNCHANGED <<mode, pool, nrsVars, busy, done>>

Next ==
  \/ \E r \in Requests : AddNewTask(r) \/ TaskCompletion(r)
  \/ RunPool
  \/ Tick

Spec == Init /\ [][Next]_vars

(* As for Processor: pending events run, and the disk answers.             *)
Fairness ==
  /\ WF_vars(RunPool)
  /\ WF_vars(Tick)
  /\ \A r \in Requests : WF_vars(TaskCompletion(r))

FairSpec == Spec /\ Fairness
-----------------------------------------------------------------------------
TypeOK ==
  /\ mode \in Modes
  /\ now \in 0..LastTick
  /\ pool \in Pools(NumThreads)
  /\ oq \in [Objects -> SUBSET Requests]
  /\ queued \in [Objects -> BOOLEAN]
  /\ Q \in Seq(Objects) /\ wq \in Objects \cup {None}
  /\ quantum \in 0..Quantum
  /\ dQ \in Seq([req : Requests, deadline : Nat])
  /\ busy \in SUBSET Requests /\ done \in SUBSET Requests
  /\ wait \in [Objects -> Nat]

(* An object queue is in Q exactly once, or is the work queue, if and only *)
(* if it has requests (nrsfrr.cpp:334-339, 417-427).                       *)
ObjectsHaveTurn ==
  mode = "OFF" =>
    /\ IsInjective(Q)
    /\ \A o \in Objects : /\ o \in ToSet(Q) => o # wq
                          /\ oq[o] # {} <=> o \in ToSet(Q) \cup {wq}

(* Round robin: an object with requests waits for no more than one quantum *)
(* of each other object until one of its own is handed out, whatever       *)
(* arrives meanwhile (nrsfrr.cpp:131-145, 417-427).                        *)
RoundRobin ==
  mode = "OFF" => \A o \in Objects : wait[o] <= (Cardinality(Objects) - 1) * Quantum

(* The deadline queue holds the waiting requests, sorted, although it is   *)
(* never sorted: the load and with it the expiration time may shrink       *)
(* (nrsfrr.cpp:180-190, 298-311).                                          *)
DeadlinesSorted ==
  mode = "2L" =>
    /\ Len(dQ) = Cardinality(Queued)
    /\ {e.req : e \in ToSet(dQ)} = Queued
    /\ \A i, j \in DOMAIN dQ : i <= j => dQ[i].deadline <= dQ[j].deadline

(* "If there is a request with an elapsed deadline, then that request is   *)
(* serviced first": what a step leaves behind with an elapsed deadline had *)
(* to give way only to requests with a deadline as early                   *)
(* (nrsfrr.cpp:235-277, 373-401).                                          *)
ExpiredGoesFirst ==
  \A e, f \in ToSet(dQ) :
    e.req \in busy' /\ f.req \in Queued' /\ f.deadline <= now
      => e.deadline <= f.deadline

(* "The two level deadline setting strategy avoids starvation": every      *)
(* request is served in the end, whatever the mode.                        *)
EveryRequestServed == \A r \in Requests : r \in Queued ~> r \in done
=============================================================================
