------------------------------ MODULE NrsEpoch ------------------------------
(***************************************************************************)
(* The epoch scheduler (nrsepoch.cpp) and the server thread pool it feeds. *)
(* Clients belong to classes; each class has a FIFO queue and a time slice *)
(* of Quota[c] ticks.  The queue whose slice it is hands out first, the    *)
(* others when it is empty.  A timer ends the slice; it is set when the    *)
(* first request arrives or, once `on`, when the slice before it ends with *)
(* requests waiting.                                                       *)
(***************************************************************************)
EXTENDS ThreadPool, FiniteSets, SequencesExt

CONSTANTS Num,         \* number of classes: params.cluster.ClientSet
          Quota,       \* queue_class::quota of each class
          PerClass,    \* bound: requests of a class that may arrive
          NumThreads,  \* Processor::num
          LastArrival, \* bound: no request arrives after this tick
          LastTick     \* bound: the clock stops there

NrsEpochAssumption ==
  /\ {Num, NumThreads} \subseteq Nat \ {0}
  /\ Quota \in [0..(Num - 1) -> Nat \ {0}]
  /\ {PerClass, LastArrival, LastTick} \subseteq Nat

Classes == 0..(Num - 1)
Requests == Classes \X (1..PerClass)

VARIABLES now,         \* Event::Clock()
          pool,        \* the pool record of ThreadPool
          qvec,        \* the queue of each class
          cur,         \* the class whose slice it is
          start,       \* when the last slice of each class began
          on,          \* NrsEpoch::on
          timer,       \* is NrsEpoch::timer in the event queue?
          deadline,    \* its runTime
          calm,        \* history: no request was waiting at the last switch
          busy, done,  \* requests in service, requests completed
          aborted      \* an assertion has stopped the simulation

sliceVars == <<cur, start, on, timer, deadline, calm>>
vars == <<now, pool, qvec, sliceVars, busy, done, aborted>>

Queued == UNION {ToSet(qvec[c]) : c \in Classes}

Init ==
  /\ now = 0
  /\ pool = [StartedPool(NumThreads) EXCEPT !.run = FALSE, !.state = "Idle"]
  /\ qvec = [c \in Classes |-> <<>>]
  /\ cur = 0 /\ start = [c \in Classes |-> 0] /\ on = FALSE
  /\ timer = FALSE /\ deadline = 0 /\ calm = FALSE
  /\ busy = {} /\ done = {} /\ aborted = FALSE
-----------------------------------------------------------------------------
(* ModTimer: RunAt asserts that the time is still to come. *)
ModTimer(t) ==
  /\ aborted' = (t <= now /\ ~(timer /\ t = deadline))
  /\ timer' = TRUE
  /\ deadline' = t

(* Wrong: the slice that ends begins again. *)
SwitchQueueStale(waiting) ==
  LET c == (cur + 1) % Num
  IN  /\ cur' = c
      /\ start' = [start EXCEPT ![cur] = now]
      /\ calm' = ~waiting
      /\ on' = (on \/ waiting)
      /\ timer' = waiting
      /\ deadline' = IF waiting THEN now + Quota[c] ELSE deadline
      /\ UNCHANGED aborted

(* SwitchQueue: the slice of the next class begins; its end is timed only  *)
(* if a request is waiting.                                                *)
SwitchQueue(waiting) ==
  LET c == (cur + 1) % Num
  IN  /\ cur' = c
      /\ start' = [start EXCEPT ![c] = now]
      /\ calm' = ~waiting
      /\ on' = (on \/ waiting)
      /\ timer' = waiting
      /\ deadline' = IF waiting THEN now + Quota[c] ELSE deadline
      /\ UNCHANGED aborted

(* StartTimer, for the first request that waits: what is left of the slice *)
(* is timed, or the next slice begins.                                     *)
StartTimer ==
  \/ /\ on
     /\ UNCHANGED <<sliceVars, aborted>>
  \/ /\ ~on /\ now - start[cur] > Quota[cur]
     /\ SwitchQueue(TRUE)
  \/ /\ ~on /\ now - start[cur] <= Quota[cur]
     /\ ModTimer(start[cur] + Quota[cur])
     /\ UNCHANGED <<cur, start, on, calm>>

(* AddNewTask: a request arrives at the server. *)
AddNewTask(r) ==
  /\ now <= LastArrival
  /\ r \notin Queued \cup busy \cup done
  /\ \A n \in 1..(r[2] - 1) : <<r[1], n>> \in Queued \cup busy \cup done
  /\ qvec' = [qvec EXCEPT ![r[1]] = Append(@, r)]
  /\ IF Queued = {} THEN StartTimer ELSE UNCHANGED <<sliceVars, aborted>>
  /\ pool' = Wakeup(pool)
  /\ UNCHANGED <<now, busy, done>>

(* Wrong: the search begins one class too far. *)
ServedClassNext(q) ==
  LET turn(k) == (cur + 1 + k) % Num
      k0 == CHOOSE k \in Classes : /\ q[turn(k)] # <<>>
                                   /\ \A j \in 0..(k - 1) : q[turn(j)] = <<>>
  IN  turn(k0)

(* The class that Dequeue takes a request of: the current one, or else the *)
(* first after it that has one.                                            *)
ServedClass(q) ==
  LET turn(k) == (cur + k) % Num
      k0 == CHOOSE k \in Classes : /\ q[turn(k)] # <<>>
                                   /\ \A j \in 0..(k - 1) : q[turn(j)] = <<>>
  IN  turn(k0)

Dequeue(s) ==
  LET c == ServedClass(s.qvec)
  IN  [qvec |-> [s.qvec EXCEPT ![c] = Tail(@)],
       out  |-> s.out \cup {Head(s.qvec[c])}]

(* The pool's event: Dequeue while there are threads and requests. *)
RunPool ==
  LET n == Dispatchable(pool, Cardinality(Queued))
      after[k \in 0..n] ==
        IF k = 0 THEN [qvec |-> qvec, out |-> {}] ELSE Dequeue(after[k - 1])
  IN  /\ pool.run
      /\ pool' = PoolStateMachine(pool, Cardinality(Queued))
      /\ qvec' = after[n].qvec
      /\ busy' = busy \cup after[n].out
      /\ UNCHANGED <<now, sliceVars, done, aborted>>

(* The timer's event: the slice has expired. *)
TimeSliceExpire ==
  /\ timer /\ deadline = now
  /\ SwitchQueue(Queued # {})
  /\ UNCHANGED <<now, pool, qvec, busy, done>>

TaskCompletion(r) ==
  /\ r \in busy
  /\ pool' = SignalIfLoaded(AddThread(pool))
  /\ busy' = busy \ {r}
  /\ done' = done \cup {r}
  /\ UNCHANGED <<now, qvec, sliceVars, aborted>>

(* The clock never passes a timer that is due. *)
Tick ==
  /\ now < LastTick
  /\ timer => now < deadline
  /\ now' = now + 1
  /\ UNCHANGED <<pool, qvec, sliceVars, busy, done, aborted>>

Next ==
  /\ ~aborted
  /\ \/ \E r \in Requests : AddNewTask(r) \/ TaskCompletion(r)
     \/ RunPool
     \/ TimeSliceExpire
     \/ Tick

Spec == Init /\ [][Next]_vars
-----------------------------------------------------------------------------
(* A slice ends when its quota is used up, whatever arrived and was served *)
(* in it, and its end is timed while requests wait - unless, the slices    *)
(* once being timed, one has ended with nothing waiting: then no arrival   *)
(* sets the timer again (nrsepoch.cpp:38-63).                              *)
SlicesEnd ==
  ~aborted =>
    /\ timer => deadline = start[cur] + Quota[cur] /\ now <= deadline
    /\ Queued # {} => timer \/ (on /\ calm)

(* The pool hands out requests of another class only with all that waited  *)
(* in the current one, and those of a class in the order of their arrival  *)
(* (nrsepoch.cpp:133-157).                                                 *)
CurrentGoesFirst ==
  LET out(c) == {r \in busy' \ busy : r[1] = c}
  IN  \A c \in Classes :
        /\ out(c) = ToSet(SubSeq(qvec[c], 1, Cardinality(out(c))))
        /\ out(c) # {} /\ c # cur => out(cur) = ToSet(qvec[cur])
=============================================================================
