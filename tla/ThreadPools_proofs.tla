------------------------- MODULE ThreadPools_proofs -------------------------
(***************************************************************************)
(* The safety of the two thread pools for every set of tasks, every number *)
(* of threads and all limits of the window.  A step of ThreadPools is a    *)
(* step of the pool that `kind` names, so that the invariant of each one   *)
(* is inductive by itself.                                                 *)
(***************************************************************************)
EXTENDS ThreadPools, CommonLemmas, FiniteSetTheorems, SequenceTheorems
-----------------------------------------------------------------------------
(* The fixed pool.  Its invariants do not follow from one another: that no *)
(* wakeup is lost needs to know in which states the pool's event is        *)
(* pending and that an idle pool has an empty queue, and that full load    *)
(* means no idle thread.  FixedConsistent says so.                         *)
FixedTypes ==
  /\ pool \in Pools(NumThreads)
  /\ queue \in Seq(FixedTasks)
  /\ busy \in SUBSET FixedTasks /\ done \in SUBSET FixedTasks

FixedThreads == pool.idle + Cardinality(busy) = NumThreads

FixedConsistent ==
  /\ ConsistentPool(pool)
  /\ pool.state \in {"Start", "Idle"} => queue = <<>>

FixedIInv == FixedTypes /\ FixedThreads /\ F!NoDoubleService /\ FixedConsistent

\* What the constants are.
LEMMA FixedConstants == IsFiniteSet(FixedTasks) /\ NumThreads \in Nat \ {0}
BY ThreadPoolsAssumption
   DEF ThreadPoolsAssumption, F!ProcessorAssumption, F!IsFiniteSet, IsFiniteSet

\* Its operators are those of ThreadPool.
LEMMA FixedSame ==
  /\ \A n : F!Pools(n) = Pools(n) /\ F!StartedPool(n) = StartedPool(n)
  /\ \A p : F!Wakeup(p) = Wakeup(p) /\ F!AddThread(p) = AddThread(p)
  /\ \A p : F!SignalIfLoaded(p) = SignalIfLoaded(p)
  /\ \A p, n : F!Dispatchable(p, n) = Dispatchable(p, n)
  /\ \A p, n : F!PoolStateMachine(p, n) = PoolStateMachine(p, n)
  /\ \A p : /\ F!MaySignal(p) = MaySignal(p) /\ F!MayWakeup(p) = MayWakeup(p)
            /\ F!MayDispatch(p) = MayDispatch(p)
  /\ \A S : F!Cardinality(S) = Cardinality(S)
<1>1. \A n : F!Pools(n) = Pools(n) /\ F!StartedPool(n) = StartedPool(n)
  BY DEF F!Pools, Pools, F!PoolStates, PoolStates, F!StartedPool, StartedPool
<1>2. \A p : /\ F!Wakeup(p) = Wakeup(p) /\ F!AddThread(p) = AddThread(p)
            /\ F!SignalIfLoaded(p) = SignalIfLoaded(p)
  BY DEF F!Wakeup, Wakeup, F!AddThread, AddThread, F!SignalIfLoaded,
         SignalIfLoaded, F!Signalled, Signalled
<1>3. \A p, n : F!Dispatchable(p, n) = Dispatchable(p, n)
  BY DEF F!Dispatchable, Dispatchable
<1>4. \A p, n : F!PoolStateMachine(p, n) = PoolStateMachine(p, n)
  BY <1>3 DEF F!PoolStateMachine, PoolStateMachine, F!TakeThreads, TakeThreads
<1>5. \A p : /\ F!MaySignal(p) = MaySignal(p) /\ F!MayWakeup(p) = MayWakeup(p)
            /\ F!MayDispatch(p) = MayDispatch(p)
  BY DEF F!MaySignal, MaySignal, F!MayWakeup, MayWakeup, F!MayDispatch, MayDispatch
<1>6. \A S : F!Cardinality(S) = Cardinality(S)
  BY DEF F!Cardinality, Cardinality
<1>7. QED
  BY <1>1, <1>2, <1>3, <1>4, <1>5, <1>6

LEMMA FixedInitInv ==
  ASSUME F!Init
  PROVE  FixedIInv
<1>1. /\ pool \in Pools(NumThreads) /\ ConsistentPool(pool)
      /\ pool.state = "Start" /\ pool.idle = NumThreads
  BY StartedPoolOK, FixedConstants, FixedSame DEF F!Init
<1>2. FixedTypes /\ F!NoDoubleService /\ FixedConsistent
  BY <1>1, FixedSame
     DEF F!Init, FixedTypes, F!NoDoubleService, FixedConsistent, F!Queued
<1>3. FixedThreads
  BY <1>1, FS_EmptySet, FixedConstants, FixedSame DEF F!Init, FixedThreads
<1>4. QED
  BY <1>2, <1>3 DEF FixedIInv

(* The arrival of a task: the queue grows by a task that is nowhere else,  *)
(* and an idle pool is woken.                                              *)
LEMMA FixedArriveInv ==
  ASSUME FixedIInv, NEW t \in FixedTasks, F!Arrive(t)
  PROVE  FixedIInv'
<1> USE DEF FixedIInv, F!Arrive, F!AddNewTask
<1>1. /\ pool' \in Pools(NumThreads) /\ ConsistentPool(pool')
      /\ pool'.idle = pool.idle
      /\ pool'.state = IF pool.state = "Idle" THEN "Run" ELSE pool.state
  BY WakeupOK, FixedConstants, FixedSame DEF FixedTypes, FixedConsistent
<1>2. /\ queue' \in Seq(FixedTasks) /\ Len(queue') = Len(queue) + 1
      /\ \A i \in 1..Len(queue) : queue'[i] = queue[i]
      /\ queue'[Len(queue) + 1] = t
  BY AppendProperties DEF FixedTypes
<1>3. FixedTypes'
  BY <1>1, <1>2 DEF FixedTypes
<1>4. FixedThreads'
  BY <1>1 DEF FixedThreads
<1>5. F!NoDoubleService'
  <2>1. F!Queued' = F!Queued \cup {t}
    BY <1>2 DEF F!Queued, FixedTypes
  <2>2. \A i, j \in DOMAIN queue' : queue'[i] = queue'[j] => i = j
    BY <1>2 DEF F!NoDoubleService, F!Queued, FixedTypes
  <2>3. QED
    BY <2>1, <2>2 DEF F!NoDoubleService
<1>6. FixedConsistent'
  BY <1>1 DEF FixedConsistent
<1>7. QED
  BY <1>3, <1>4, <1>5, <1>6

(* The run of the pool: a prefix of the queue moves to busy, and one idle  *)
(* thread goes with each of its tasks.                                     *)
FixedTaken == Dispatchable(pool, Len(queue))
FixedBegun == Prefix(queue, FixedTaken)

LEMMA FixedRunPoolEffect ==
  ASSUME FixedIInv, F!RunPool
  PROVE  /\ pool' \in Pools(NumThreads) /\ ConsistentPool(pool')
         /\ pool'.idle = pool.idle - FixedTaken
         /\ pool'.state \in {"Idle", "FullLoad"}
         /\ pool'.state = "Idle" => queue' = <<>>
         /\ FixedTaken \in 0..Len(queue) /\ FixedTaken <= pool.idle
         /\ IsFiniteSet(FixedBegun) /\ Cardinality(FixedBegun) = FixedTaken
         /\ FixedBegun \subseteq F!Queued
         /\ queue' \in Seq(FixedTasks) /\ Distinct(queue')
         /\ F!Queued' = F!Queued \ FixedBegun
         /\ busy' = busy \cup FixedBegun /\ done' = done
<1>1. /\ Len(queue) \in Nat /\ queue \in Seq(FixedTasks) /\ Distinct(queue)
      /\ pool \in Pools(NumThreads) /\ ConsistentPool(pool)
      /\ pool.state = "Start" => Len(queue) = 0
  BY DEF FixedIInv, FixedTypes, FixedConsistent, F!NoDoubleService, Distinct
<1>2. FixedTaken \in 0..Len(queue) /\ FixedTaken <= pool.idle
  BY <1>1, DispatchableOK, FixedConstants DEF FixedTaken
<1>3. /\ pool.run
      /\ pool' = PoolStateMachine(pool, Len(queue))
      /\ queue' = SubSeq(queue, FixedTaken + 1, Len(queue))
      /\ busy' = busy \cup FixedBegun /\ done' = done
  BY FixedSame DEF F!RunPool, FixedTaken, FixedBegun, Prefix
<1>4. /\ pool' \in Pools(NumThreads) /\ ConsistentPool(pool')
      /\ pool'.idle = pool.idle - FixedTaken
      /\ pool'.state \in {"Idle", "FullLoad"}
      /\ pool'.state = "Idle" => FixedTaken = Len(queue)
  BY <1>1, <1>3, PoolStateMachineOK, FixedConstants DEF FixedTaken
<1>5. F!Queued = Elements(queue) /\ F!Queued' = Elements(queue')
  BY DEF F!Queued, Elements
<1>6. /\ IsFiniteSet(FixedBegun) /\ Cardinality(FixedBegun) = FixedTaken
      /\ FixedBegun \subseteq F!Queued
      /\ queue' \in Seq(FixedTasks)
      /\ F!Queued' = F!Queued \ FixedBegun
      /\ Distinct(queue')
      /\ FixedTaken = Len(queue) => queue' = <<>>
  BY <1>1, <1>2, <1>3, <1>5, PrefixOfInjective DEF FixedBegun
<1>7. QED
  BY <1>2, <1>3, <1>4, <1>6

(* The tasks in service after a run are as many as the threads they hold.  *)
LEMMA FixedBusyAfterRun ==
  ASSUME FixedIInv, F!RunPool
  PROVE  Cardinality(busy') = Cardinality(busy) + FixedTaken
<1>1. IsFiniteSet(busy)
  BY FS_Subset, FixedConstants DEF FixedIInv, FixedTypes
<1>2. busy \cap FixedBegun = {}
  BY FixedRunPoolEffect DEF FixedIInv, F!NoDoubleService
<1>3. Cardinality(busy \cup FixedBegun)
        = Cardinality(busy) + Cardinality(FixedBegun)
            - Cardinality(busy \cap FixedBegun)
  BY <1>1, FixedRunPoolEffect, FS_Union
<1>4. Cardinality(busy \cap FixedBegun) = 0 /\ Cardinality(busy) \in Nat
  BY <1>1, <1>2, FS_EmptySet, FS_CardinalityType
<1>5. /\ busy' = busy \cup FixedBegun /\ Cardinality(FixedBegun) = FixedTaken
      /\ FixedTaken \in Nat
  BY FixedRunPoolEffect
<1>6. QED
  BY <1>3, <1>4, <1>5

LEMMA FixedRunPoolInv ==
  ASSUME FixedIInv, F!RunPool
  PROVE  FixedIInv'
<1>1. F!Queued \subseteq FixedTasks
  BY DEF FixedIInv, F!Queued, FixedTypes
<1>2. FixedTypes'
  BY <1>1, FixedRunPoolEffect DEF FixedIInv, FixedTypes
<1>3. FixedThreads'
  <2>1. Cardinality(busy) \in Nat /\ pool.idle \in Nat
    BY FS_Subset, FS_CardinalityType, FixedConstants
       DEF FixedIInv, FixedTypes, Pools
  <2>2. QED
    BY <2>1, FixedBusyAfterRun, FixedRunPoolEffect DEF FixedIInv, FixedThreads
<1>4. F!NoDoubleService'
  BY FixedRunPoolEffect DEF FixedIInv, F!NoDoubleService, Distinct
<1>5. FixedConsistent'
  BY FixedRunPoolEffect DEF FixedConsistent
<1>6. QED
  BY <1>2, <1>3, <1>4, <1>5 DEF FixedIInv

(* A completion: the task leaves busy and its thread becomes idle.         *)
LEMMA FixedTaskCompletionInv ==
  ASSUME FixedIInv, NEW t \in FixedTasks, F!TaskCompletion(t)
  PROVE  FixedIInv'
<1> USE DEF FixedIInv
<1>1. IsFiniteSet(busy) /\ Cardinality(busy) \in Nat /\ pool.idle \in Nat
  BY FS_Subset, FS_CardinalityType, FixedConstants DEF FixedTypes, Pools
<1>2. /\ t \in busy /\ busy' = busy \ {t} /\ done' = done \cup {t}
      /\ queue' = queue
  BY FixedSame DEF F!TaskCompletion
<1>3. Cardinality(busy') = Cardinality(busy) - 1 /\ Cardinality(busy') \in Nat
  BY <1>1, <1>2, FS_RemoveElement, FS_CardinalityType
<1>4. pool.idle < NumThreads
  BY <1>1, <1>3, FixedConstants DEF FixedThreads
<1>5. pool' = SignalIfLoaded(AddThread(pool))
  BY <1>1, <1>4, FixedConstants, FixedSame DEF F!TaskCompletion
<1>6. /\ pool' \in Pools(NumThreads) /\ ConsistentPool(pool')
      /\ pool'.idle = pool.idle + 1
      /\ pool'.state = IF pool.state = "FullLoad" THEN "Run" ELSE pool.state
  BY <1>4, <1>5, ReturnThreadOK, FixedConstants DEF FixedTypes, FixedConsistent
<1>7. FixedTypes'
  BY <1>2, <1>6 DEF FixedTypes
<1>8. FixedThreads'
  BY <1>1, <1>3, <1>6, FixedConstants DEF FixedThreads
<1>9. F!NoDoubleService'
  BY <1>2 DEF F!NoDoubleService, F!Queued
<1>10. FixedConsistent'
  BY <1>2, <1>6 DEF FixedConsistent
<1>11. QED
  BY <1>7, <1>8, <1>9, <1>10

LEMMA FixedNextInv ==
  ASSUME FixedIInv, F!Next \/ UNCHANGED F!vars
  PROVE  FixedIInv'
<1>1. CASE UNCHANGED F!vars
  BY <1>1
     DEF F!vars, FixedIInv, FixedTypes, FixedThreads, F!NoDoubleService,
         F!Queued, FixedConsistent
<1>2. ASSUME NEW t \in FixedTasks, F!Arrive(t) PROVE FixedIInv'
  BY <1>2, FixedArriveInv
<1>3. ASSUME NEW t \in FixedTasks, F!TaskCompletion(t) PROVE FixedIInv'
  BY <1>3, FixedTaskCompletionInv
<1>4. CASE F!RunPool
  BY <1>4, FixedRunPoolInv
<1>5. QED
  BY <1>1, <1>2, <1>3, <1>4 DEF F!Next

(* The inductive invariant implies that no wakeup is lost: an idle thread  *)
(* means a state other than full load, and a task in the queue means that  *)
(* the pool runs.                                                          *)
LEMMA FixedInvImplies == FixedIInv => F!NoLostWakeup
<1> SUFFICES ASSUME FixedIInv PROVE F!NoLostWakeup
  OBVIOUS
<1>1. /\ pool.state \in {"Start", "Idle", "Run", "FullLoad"}
      /\ pool.idle \in Nat
      /\ pool.run <=> pool.state \in {"Start", "Run"}
      /\ pool.idle = 0 <=> pool.state = "FullLoad"
      /\ pool.state \in {"Start", "Idle"} => queue = <<>>
  BY DEF FixedIInv, FixedTypes, FixedConsistent, ConsistentPool, Pools,
      PoolStates
<1>2. queue # <<>> /\ pool.idle > 0 => pool.run
  BY <1>1
<1>3. F!AssertionsHold
  BY <1>1 DEF F!AssertionsHold, F!MayWakeup, F!MayDispatch, F!MaySignal
<1>4. QED
  BY <1>2, <1>3 DEF F!NoLostWakeup

(* A task leaves the queue in a run of the pool only, as part of a prefix. *)
LEMMA FixedInOrder ==
  ASSUME FixedIInv, F!Next
  PROVE  F!InOrderOfArrival
<1> SUFFICES ASSUME NEW i \in DOMAIN queue, NEW j \in DOMAIN queue,
                    i < j, queue[j] \notin F!Queued'
             PROVE  queue[i] \notin F!Queued'
  BY DEF F!InOrderOfArrival
<1>1. queue[j] \in F!Queued /\ queue \in Seq(FixedTasks)
  BY DEF F!Queued, FixedIInv, FixedTypes
<1>2. F!RunPool
  <2>1. ASSUME NEW t \in FixedTasks, F!Arrive(t) PROVE FALSE
    <3>1. /\ Len(queue') = Len(queue) + 1
          /\ \A n \in 1..Len(queue) : queue'[n] = queue[n]
          /\ queue' \in Seq(FixedTasks)
      BY <1>1, <2>1, AppendProperties, FixedSame DEF F!Arrive, F!AddNewTask
    <3>2. j \in DOMAIN queue' /\ queue'[j] = queue[j]
      BY <1>1, <3>1
    <3>3. QED
      BY <3>2 DEF F!Queued
  <2>2. ASSUME NEW t \in FixedTasks, F!TaskCompletion(t) PROVE FALSE
    BY <1>1, <2>2, FixedSame DEF F!TaskCompletion, F!Queued
  <2>3. QED
    BY <2>1, <2>2 DEF F!Next
<1>3. FixedTaken \in 0..Len(queue) /\ F!Queued' = F!Queued \ FixedBegun
  BY <1>2, FixedRunPoolEffect
<1>4. PICK n \in 1..FixedTaken : queue[j] = queue[n]
  BY <1>1, <1>3 DEF FixedBegun, Prefix
<1>5. n = j
  BY <1>1, <1>3, <1>4 DEF FixedIInv, F!NoDoubleService
<1>6. i \in 1..FixedTaken
  BY <1>1, <1>3, <1>5
<1>7. QED
  BY <1>3, <1>6 DEF FixedBegun, Prefix

(* A run of the pool begins the service of a prefix of the queue.          *)
LEMMA FixedRefines ==
  ASSUME FixedIInv, F!Next, kind = "fixed", kind' = "fixed"
  PROVE  [Service!Next]_Service!vars
<1>1. /\ Only(F!Queued) = F!Queued /\ Only(busy) = busy /\ Only(done) = done
      /\ Only(F!Queued)' = F!Queued' /\ Only(busy)' = busy' /\ Only(done)' = done'
  BY DEF Only
<1>2. ASSUME NEW t \in FixedTasks, F!Arrive(t) PROVE Service!Submit(t)
  <2>1. /\ Len(queue') = Len(queue) + 1
        /\ \A n \in 1..Len(queue) : queue'[n] = queue[n]
        /\ queue'[Len(queue) + 1] = t
        /\ queue \in Seq(FixedTasks) /\ queue' \in Seq(FixedTasks)
    BY <1>2, AppendProperties, FixedSame
       DEF FixedIInv, FixedTypes, F!Arrive, F!AddNewTask
  <2>2. F!Queued' = F!Queued \cup {t}
    BY <2>1 DEF F!Queued
  <2>3. QED
    BY <1>1, <1>2, <2>2 DEF Service!Submit, F!Arrive, F!AddNewTask
<1>3. ASSUME NEW t \in FixedTasks, F!TaskCompletion(t) PROVE Service!Finish(t)
  BY <1>1, <1>3, FixedSame DEF F!TaskCompletion, Service!Finish, F!Queued
<1>4. CASE F!RunPool
  <2>1. CASE FixedBegun = {}
    BY <1>1, <1>4, <2>1, FixedRunPoolEffect DEF Service!vars
  <2>2. CASE FixedBegun # {}
    <3>1. Cardinality(busy \cup FixedBegun) <= NumThreads
      <4>1. FixedIInv'
        BY <1>4, FixedRunPoolInv
      <4>2. /\ pool'.idle \in Nat /\ pool'.idle + Cardinality(busy') = NumThreads
            /\ IsFiniteSet(busy')
        BY <4>1, FS_Subset, FixedConstants
           DEF FixedIInv, FixedTypes, Pools, FixedThreads
      <4>3. Cardinality(busy') \in Nat
        BY <4>2, FS_CardinalityType
      <4>4. busy' = busy \cup FixedBegun
        BY <1>4, FixedRunPoolEffect
      <4>5. QED
        BY <4>2, <4>3, <4>4, FixedConstants
    <3>2. FixedBegun \in SUBSET F!Queued
      BY <1>4, FixedRunPoolEffect
    <3>3. Service!Cardinality(busy \cup FixedBegun) = Cardinality(busy \cup FixedBegun)
      BY DEF Service!Cardinality, Cardinality
    <3>4. /\ F!Queued' = F!Queued \ FixedBegun
          /\ busy' = busy \cup FixedBegun /\ done' = done
      BY <1>4, FixedRunPoolEffect
    <3>5. Service!Begin
      BY <1>1, <2>2, <3>1, <3>2, <3>3, <3>4 DEF Service!Begin
    <3>6. QED
      BY <3>5 DEF Service!Next
  <2>3. QED
    BY <2>1, <2>2
<1>5. QED
  BY <1>2, <1>3, <1>4 DEF F!Next, Service!Next

-----------------------------------------------------------------------------
(* The resized pool.  A completion may leave it in states that the fixed   *)
(* one never reaches: fully loaded with an idle thread, or with its event  *)
(* pending.  WindowIInv says what remains true of it, that no thread is    *)
(* idle while there are more threads than the window allows, and that an   *)
(* RPC is in one place.                                                    *)
WindowTypes ==
  /\ pool \in Pools(Cmax)
  /\ num \in 0..Cmax /\ rnum \in 0..Cmax
  /\ queue \in Seq(W!Tasks) /\ busy \in SUBSET W!Tasks /\ done \in SUBSET W!Tasks
  /\ csp \in [uc : Nat, depth : Int, rcc : 0..Cmax, congested : BOOLEAN]
  /\ rcc \in [W!Tasks -> 0..Cmax]

\* The pool's event is pending in the states that wait for it, never when
\* the pool is idle, and a pool without idle threads is fully loaded.
SoundPool(p) ==
  /\ p.state \in {"Start", "Run"} => p.run
  /\ p.state = "Idle" => ~p.run
  /\ p.idle = 0 => p.state = "FullLoad"

\* Threads beyond the window are all in use.
WindowKept(p, n, r) == n <= r /\ (n < r => p.idle = 0)

OnePlace ==
  /\ Distinct(queue)
  /\ W!Queued \cap busy = {} /\ W!Queued \cap done = {} /\ busy \cap done = {}

WindowCounted ==
  /\ pool.idle + Cardinality(busy) = rnum
  /\ csp.uc = Cardinality(busy)
  /\ csp.depth = -(Cardinality(busy) + Cardinality(done))
  /\ ~csp.congested

WindowIInv ==
  /\ WindowTypes /\ WindowCounted /\ OnePlace
  /\ SoundPool(pool) /\ WindowKept(pool, num, rnum)

\* What the constants are.
LEMMA WindowConstants ==
  /\ IsFiniteSet(W!Tasks) /\ Cmax \in Nat /\ Cmin \in Nat \ {0}
  /\ RCC \in Cmin..Cmax /\ CQmax \in Nat \ {0}
<1>1. IsFiniteSet(Writes) /\ IsFiniteSet(Reads)
  BY ThreadPoolsAssumption
     DEF ThreadPoolsAssumption, W!CongestControllerAssumption, W!IsFiniteSet,
         IsFiniteSet
<1>2. QED
  BY <1>1, FS_Union, ThreadPoolsAssumption
     DEF ThreadPoolsAssumption, W!CongestControllerAssumption, W!Tasks

\* Its operators are those of ThreadPool.
LEMMA WindowSame ==
  /\ \A n : W!Pools(n) = Pools(n) /\ W!StartedPool(n) = StartedPool(n)
  /\ \A p : W!Wakeup(p) = Wakeup(p) /\ W!AddThread(p) = AddThread(p)
  /\ \A p : W!SignalIfLoaded(p) = SignalIfLoaded(p)
  /\ \A p, n : W!TakeThreads(p, n) = TakeThreads(p, n)
  /\ \A p, n : W!Dispatchable(p, n) = Dispatchable(p, n)
  /\ \A p, n : W!PoolStateMachine(p, n) = PoolStateMachine(p, n)
  /\ \A p : W!MayWakeup(p) = MayWakeup(p) /\ W!MayDispatch(p) = MayDispatch(p)
  /\ \A S : W!Cardinality(S) = Cardinality(S) /\ W!Min(S) = Min(S)
<1>1. \A n : W!Pools(n) = Pools(n) /\ W!StartedPool(n) = StartedPool(n)
  BY DEF W!Pools, Pools, W!PoolStates, PoolStates, W!StartedPool, StartedPool
<1>2. \A p : /\ W!Wakeup(p) = Wakeup(p) /\ W!AddThread(p) = AddThread(p)
            /\ W!SignalIfLoaded(p) = SignalIfLoaded(p)
  BY DEF W!Wakeup, Wakeup, W!AddThread, AddThread, W!SignalIfLoaded,
         SignalIfLoaded, W!Signalled, Signalled
<1>3. \A p, n : /\ W!TakeThreads(p, n) = TakeThreads(p, n)
               /\ W!Dispatchable(p, n) = Dispatchable(p, n)
  BY DEF W!Dispatchable, Dispatchable, W!TakeThreads, TakeThreads
<1>4. \A p, n : W!PoolStateMachine(p, n) = PoolStateMachine(p, n)
  BY <1>3 DEF W!PoolStateMachine, PoolStateMachine
<1>5. \A p : W!MayWakeup(p) = MayWakeup(p) /\ W!MayDispatch(p) = MayDispatch(p)
  BY DEF W!MaySignal, MaySignal, W!MayWakeup, MayWakeup, W!MayDispatch, MayDispatch
<1>6. \A S : W!Cardinality(S) = Cardinality(S) /\ W!Min(S) = Min(S)
  BY DEF W!Cardinality, Cardinality, W!Min, Min
<1>7. QED
  BY <1>1, <1>2, <1>3, <1>4, <1>5, <1>6

\* The RPCs in flight and the completed ones can be counted.
LEMMA WindowCountable ==
  ASSUME WindowTypes
  PROVE  /\ IsFiniteSet(busy) /\ Cardinality(busy) \in Nat
         /\ IsFiniteSet(done) /\ Cardinality(done) \in Nat
<1>1. IsFiniteSet(W!Tasks)
  BY FS_Union, WindowConstants DEF W!Tasks
<1>2. QED
  BY <1>1, FS_Subset, FS_CardinalityType DEF WindowTypes

LEMMA WindowInitInv ==
  ASSUME W!Init
  PROVE  WindowIInv
<1>1. RCC \in Nat \ {0} /\ RCC <= Cmax /\ Cmax \in Nat
  BY WindowConstants
<1>2. /\ pool \in Pools(Cmax) /\ SoundPool(pool) /\ pool.idle = RCC
  <2>1. pool = StartedPool(RCC)
    BY WindowSame DEF W!Init
  <2>2. QED
    BY <1>1, <2>1 DEF StartedPool, Pools, PoolStates, SoundPool
<1>3. WindowTypes /\ WindowKept(pool, num, rnum)
  BY <1>1, <1>2, WindowSame DEF W!Init, WindowTypes, WindowKept
<1>4. WindowCounted
  BY <1>1, <1>2, FS_EmptySet, WindowSame DEF W!Init, WindowCounted
<1>5. OnePlace
  BY WindowSame DEF W!Init, OnePlace, Distinct, W!Queued
<1>6. QED
  BY <1>2, <1>3, <1>4, <1>5 DEF WindowIInv

(* An RPC is submitted: it joins the queue and wakes an idle pool.         *)
LEMMA WindowSubmitInv ==
  ASSUME WindowIInv, NEW t \in W!Tasks, W!Submit(t)
  PROVE  WindowIInv' /\ busy' = busy
<1>1. /\ t \notin W!Queued \cup busy \cup done /\ queue' = Append(queue, t)
      /\ pool' = Wakeup(pool) /\ UNCHANGED <<num, rnum, busy, done, csp, rcc>>
  BY WindowSame DEF W!Submit, W!AddNewTask
<1>2. /\ pool' \in Pools(Cmax) /\ SoundPool(pool') /\ pool'.idle = pool.idle
  BY <1>1
     DEF WindowIInv, WindowTypes, Pools, PoolStates, SoundPool, Wakeup,
         Signalled
<1>3. /\ queue' \in Seq(W!Tasks) /\ Distinct(queue')
      /\ Elements(queue') = Elements(queue) \cup {t}
  <2>1. t \notin Elements(queue)
    BY <1>1 DEF W!Queued, Elements
  <2>2. QED
    BY <1>1, <2>1, AppendToDistinct DEF WindowIInv, WindowTypes, OnePlace
<1>4. W!Queued' = W!Queued \cup {t}
  BY <1>3 DEF W!Queued, Elements
<1>5. WindowTypes' /\ WindowCounted'
  BY <1>1, <1>2, <1>3 DEF WindowIInv, WindowTypes, WindowCounted
<1>6. OnePlace'
  BY <1>1, <1>3, <1>4 DEF WindowIInv, OnePlace
<1>7. WindowKept(pool', num', rnum')
  BY <1>1, <1>2 DEF WindowIInv, WindowKept
<1>8. QED
  BY <1>1, <1>2, <1>5, <1>6, <1>7 DEF WindowIInv

(* The pool's event: each RPC that is sent takes an idle thread, and there *)
(* is none unless the window allows all threads.                           *)
Sent == Dispatchable(pool, Len(queue))
WindowBegun == Prefix(queue, Sent)

LEMMA WindowRunPoolPool ==
  ASSUME WindowIInv, W!RunPool
  PROVE  /\ Sent \in 0..Len(queue) /\ Sent <= pool.idle
         /\ pool' \in Pools(Cmax) /\ SoundPool(pool')
         /\ pool'.idle = pool.idle - Sent
<1>1. /\ Len(queue) \in Nat /\ pool \in Pools(Cmax) /\ SoundPool(pool) /\ Cmax \in Nat
  BY WindowConstants DEF WindowIInv, WindowTypes
<1>2. Sent \in 0..Len(queue) /\ Sent <= pool.idle
  BY <1>1, DispatchableOK DEF Sent
<1>3. PICK q : q = TakeThreads(pool, Sent)
  OBVIOUS
<1>4. /\ q.state = IF Sent > 0 /\ Sent = pool.idle THEN "FullLoad" ELSE pool.state
      /\ q.idle = pool.idle - Sent
  BY <1>3 DEF TakeThreads
<1>5. pool' = [state |-> IF q.state = "FullLoad" THEN "FullLoad" ELSE "Idle",
               run |-> FALSE, idle |-> q.idle]
  BY <1>3, WindowSame DEF W!RunPool, PoolStateMachine, Sent
<1>6. pool'.idle = pool.idle - Sent /\ pool'.idle \in 0..Cmax
  BY <1>1, <1>2, <1>4, <1>5 DEF Pools
<1>7. pool' \in Pools(Cmax)
  BY <1>5, <1>6 DEF Pools, PoolStates
<1>8. SoundPool(pool')
  BY <1>1, <1>2, <1>4, <1>5 DEF Pools, SoundPool
<1>9. QED
  BY <1>2, <1>6, <1>7, <1>8

LEMMA WindowRunPoolInv ==
  ASSUME WindowIInv, W!RunPool
  PROVE  WindowIInv' /\ (busy' \ busy # {} => Cardinality(busy') <= num)
<1>1. /\ Len(queue) \in Nat /\ queue \in Seq(W!Tasks) /\ Distinct(queue)
      /\ W!Queued = Elements(queue) /\ pool.idle \in Nat /\ rnum \in Nat /\ num \in Nat
  BY WindowConstants
     DEF WindowIInv, WindowTypes, OnePlace, W!Queued, Elements, Pools
<1>2. /\ Sent \in 0..Len(queue) /\ Sent <= pool.idle
      /\ pool' \in Pools(Cmax) /\ SoundPool(pool')
      /\ pool'.idle = pool.idle - Sent
  BY WindowRunPoolPool
<1>0. Sent \in Nat
  BY <1>1, <1>2
<1>3. /\ queue' = SubSeq(queue, Sent + 1, Len(queue)) /\ busy' = busy \cup WindowBegun
      /\ csp' = IF Sent = 0 THEN csp ELSE W!RunTasks(csp, Sent)
      /\ rcc' = [t \in W!Tasks |-> IF t \in WindowBegun THEN csp.rcc ELSE rcc[t]]
      /\ UNCHANGED <<num, rnum, done>>
  BY WindowSame DEF W!RunPool, Sent, WindowBegun, Prefix
<1>4. /\ IsFiniteSet(WindowBegun) /\ Cardinality(WindowBegun) = Sent
      /\ WindowBegun \subseteq W!Queued
      /\ queue' \in Seq(W!Tasks) /\ Distinct(queue')
      /\ Elements(queue') = Elements(queue) \ WindowBegun
  BY <1>1, <1>2, <1>3, PrefixOfInjective DEF WindowBegun
<1>5. /\ W!Queued' = W!Queued \ WindowBegun /\ W!Queued \subseteq W!Tasks
      /\ WindowBegun \cap busy = {}
  <2>1. W!Queued' = W!Queued \ WindowBegun
    <3>1. W!Queued' = Elements(queue')
      BY DEF W!Queued, Elements
    <3>2. QED
      BY <1>1, <1>4, <3>1
  <2>2. W!Queued \subseteq W!Tasks
    BY <1>1 DEF W!Queued
  <2>3. WindowBegun \cap busy = {}
    BY <1>4 DEF WindowIInv, OnePlace
  <2>4. QED
    BY <2>1, <2>2, <2>3
<1>6. /\ Cardinality(busy') = Cardinality(busy) + Sent
      /\ Cardinality(busy) \in Nat /\ Cardinality(done) \in Nat
  <2>1. IsFiniteSet(busy) /\ Cardinality(busy) \in Nat /\ Cardinality(done) \in Nat
    BY WindowCountable DEF WindowIInv
  <2>2. Cardinality(busy \cup WindowBegun)
          = Cardinality(busy) + Cardinality(WindowBegun)
              - Cardinality(busy \cap WindowBegun)
    BY <1>4, <2>1, FS_Union
  <2>3. Cardinality(busy \cap WindowBegun) = 0
    BY <1>5, FS_EmptySet
  <2>4. QED
    BY <1>2, <1>3, <1>4, <2>1, <2>2, <2>3
<1>7. /\ csp' \in [uc : Nat, depth : Int, rcc : 0..Cmax, congested : BOOLEAN]
      /\ csp'.uc = csp.uc + Sent /\ csp'.depth = csp.depth - Sent
      /\ ~csp'.congested
  <2>1. /\ csp \in [uc : Nat, depth : Int, rcc : 0..Cmax, congested : BOOLEAN]
        /\ ~csp.congested /\ csp.depth <= 0
    BY <1>6 DEF WindowIInv, WindowTypes, WindowCounted
  <2>2. CASE Sent = 0
    BY <1>3, <2>1, <2>2
  <2>3. CASE Sent # 0
    <3>1. PICK c : c = [csp EXCEPT !.uc = @ + Sent, !.depth = @ - Sent]
      OBVIOUS
    <3>2. /\ c \in [uc : Nat, depth : Int, rcc : 0..Cmax, congested : BOOLEAN]
          /\ c.uc = csp.uc + Sent /\ c.depth = csp.depth - Sent
      <4>1. c = [uc |-> csp.uc + Sent, depth |-> csp.depth - Sent,
                 rcc |-> csp.rcc, congested |-> csp.congested]
        BY <2>1, <3>1
      <4>2. csp.uc + Sent \in Nat /\ csp.depth - Sent \in Int
        BY <1>0, <2>1
      <4>3. QED
        BY <2>1, <4>1, <4>2
    <3>3. csp' = [c EXCEPT !.congested = c.depth >= CQmax]
      BY <1>3, <2>3, <3>1 DEF W!RunTasks, W!CheckIoCongestion
    <3>4. (c.depth >= CQmax) = FALSE
      BY <1>0, <2>1, <3>2, WindowConstants
    <3>5. csp' = [uc |-> c.uc, depth |-> c.depth, rcc |-> c.rcc, congested |-> FALSE]
      BY <3>2, <3>3, <3>4
    <3>6. QED
      BY <3>2, <3>5
  <2>4. QED
    BY <2>2, <2>3
<1>8. WindowTypes'
  <2>1. /\ num' \in 0..Cmax /\ rnum' \in 0..Cmax
        /\ done' \in SUBSET W!Tasks /\ busy' \in SUBSET W!Tasks
    BY <1>3, <1>4, <1>5 DEF WindowIInv, WindowTypes
  <2>2. csp.rcc \in 0..Cmax /\ rcc \in [W!Tasks -> 0..Cmax]
    <3>1. csp \in [uc : Nat, depth : Int, rcc : 0..Cmax, congested : BOOLEAN]
      BY DEF WindowIInv, WindowTypes
    <3>2. rcc \in [W!Tasks -> 0..Cmax]
      BY DEF WindowIInv, WindowTypes
    <3>3. QED
      BY <3>1, <3>2
  <2>3. rcc' \in [W!Tasks -> 0..Cmax]
    <3>1. rcc' = [t \in W!Tasks |-> IF t \in WindowBegun THEN csp.rcc ELSE rcc[t]]
      BY <1>3
    <3>2. QED
      BY <2>2, <3>1
  <2>4. QED
    BY <1>2, <1>4, <1>7, <2>1, <2>3 DEF WindowTypes
<1>9. WindowCounted'
  <2>1. /\ pool.idle + Cardinality(busy) = rnum /\ csp.uc = Cardinality(busy)
        /\ csp.depth = -(Cardinality(busy) + Cardinality(done))
    BY DEF WindowIInv, WindowCounted
  <2>2. pool'.idle = pool.idle - Sent /\ rnum' = rnum /\ done' = done
    BY <1>2, <1>3
  <2>3. pool'.idle + Cardinality(busy') = rnum'
    BY <1>0, <1>1, <1>6, <2>1, <2>2
  <2>4. /\ csp'.uc = Cardinality(busy')
        /\ csp'.depth = -(Cardinality(busy') + Cardinality(done'))
    BY <1>0, <1>6, <1>7, <2>1, <2>2
  <2>5. QED
    BY <1>7, <2>3, <2>4 DEF WindowCounted
<1>10. OnePlace'
  BY <1>3, <1>4, <1>5 DEF WindowIInv, OnePlace
<1>11. WindowKept(pool', num', rnum')
  BY <1>1, <1>2, <1>3 DEF WindowIInv, WindowKept
<1>12. busy' \ busy # {} => Cardinality(busy') <= num
  <2>1. WindowBegun # {} => Sent # 0
    BY <1>4, FS_EmptySet
  <2>2. Sent # 0 => num = rnum
    BY <1>1, <1>2 DEF WindowIInv, WindowKept
  <2>3. QED
    BY <1>1, <1>2, <1>3, <1>6, <2>1, <2>2 DEF WindowIInv, WindowCounted
<1>13. QED
  BY <1>2, <1>8, <1>9, <1>10, <1>11, <1>12 DEF WindowIInv

(* What AdjustThreadPool leaves of a pool of r threads for a window of c:  *)
(* threads in use are kept, and those that are idle if there is room.      *)
LEMMA WindowAdjustThreadPoolOK ==
  ASSUME WindowIInv, busy # {},
         NEW c \in 0..Cmax, NEW a, a = W!AdjustThreadPool(c)
  PROVE  /\ a.pool \in Pools(Cmax) /\ a.rnum \in 0..Cmax
         /\ SoundPool(a.pool) /\ WindowKept(a.pool, c, a.rnum)
         /\ a.pool.idle + Cardinality(busy) = a.rnum
         /\ Cardinality(busy) \in Nat \ {0}
<1> DEFINE b == Cardinality(busy)
<1>1. b \in Nat \ {0}
  BY WindowCountable, FS_EmptySet DEF WindowIInv
<1> HIDE DEF b
<1>2. /\ Cmax \in Nat /\ num \in 0..Cmax /\ rnum \in 0..Cmax
      /\ pool \in Pools(Cmax) /\ SoundPool(pool) /\ WindowKept(pool, num, rnum)
      /\ pool.idle + b = rnum /\ pool.idle \in 0..Cmax
  BY WindowConstants DEF WindowIInv, WindowTypes, WindowCounted, Pools, b
<1>3. CASE num = c
  <2>1. a = [pool |-> pool, rnum |-> rnum]
    BY <1>3, WindowSame DEF W!AdjustThreadPool
  <2>2. QED
    BY <1>1, <1>2, <1>3, <2>1 DEF b
<1>4. CASE num # c /\ rnum > c
  <2> DEFINE n == Min({pool.idle, rnum - c})
             p == TakeThreads(pool, n)
             q == IF p.idle = 0 THEN [p EXCEPT !.state = "FullLoad"] ELSE p
  <2>1. a = [pool |-> q, rnum |-> rnum - n]
    BY <1>4, WindowSame DEF W!AdjustThreadPool
  <2>2. n \in Nat /\ n <= pool.idle /\ n <= rnum - c /\ (n = pool.idle \/ n = rnum - c)
    <3>1. pool.idle \in Int /\ rnum - c \in Int
      BY <1>2
    <3>2. n = IF pool.idle <= rnum - c THEN pool.idle ELSE rnum - c
      BY <3>1, MinOfTwo
    <3>3. QED
      BY <1>2, <1>4, <3>2
  <2> HIDE DEF n
  <2>3. p = [state |-> IF n > 0 /\ n = pool.idle THEN "FullLoad" ELSE pool.state,
             run |-> pool.run, idle |-> pool.idle - n]
    BY DEF TakeThreads
  <2> HIDE DEF p
  <2>4. /\ q.run = pool.run /\ q.idle = pool.idle - n
        /\ q.state = IF pool.idle = n THEN "FullLoad" ELSE pool.state
    BY <1>2, <2>2, <2>3
  <2>5. q \in Pools(Cmax)
    BY <1>2, <2>2, <2>3 DEF Pools, PoolStates
  <2> HIDE DEF q
  <2>6. SoundPool(q)
    BY <1>2, <2>2, <2>4 DEF SoundPool
  <2>7. WindowKept(q, c, rnum - n) /\ rnum - n \in 0..Cmax
    BY <1>1, <1>2, <1>4, <2>2, <2>4 DEF WindowKept
  <2>8. QED
    BY <1>1, <1>2, <2>1, <2>2, <2>4, <2>5, <2>6, <2>7 DEF b
<1>5. CASE num # c /\ ~(rnum > c)
  <2>1. PICK q : q = [pool EXCEPT !.idle = @ + (c - rnum)]
    OBVIOUS
  <2>2. a = [pool |-> q, rnum |-> c]
    BY <1>5, <2>1, WindowSame DEF W!AdjustThreadPool
  <2>3. q \in Pools(Cmax) /\ q.state = pool.state /\ q.run = pool.run
        /\ q.idle = pool.idle + (c - rnum)
    <3>1. pool.idle + (c - rnum) \in 0..Cmax
      BY <1>1, <1>2, <1>5
    <3>2. QED
      BY <1>2, <2>1, <3>1 DEF Pools
  <2>4. SoundPool(q)
    BY <1>2, <1>5, <2>3 DEF SoundPool
  <2>5. WindowKept(q, c, c)
    BY DEF WindowKept
  <2>6. QED
    BY <1>1, <1>2, <1>5, <2>2, <2>3, <2>4, <2>5 DEF b
<1>6. QED
  BY <1>3, <1>4, <1>5

(* The end of TaskCompletion: the finishing thread is deleted or becomes   *)
(* idle, and a pool that is not pending is signalled.                      *)
LEMMA WindowFinishOK ==
  ASSUME NEW b \in Nat \ {0}, NEW c \in 0..Cmax, NEW r \in 0..Cmax,
         NEW q \in Pools(Cmax), SoundPool(q), WindowKept(q, c, r), q.idle + b = r,
         NEW p, p = IF r > c THEN q ELSE AddThread(q),
         NEW t, t = IF p.run THEN p ELSE SignalIfLoaded(p),
         NEW k, k = IF r > c THEN r - 1 ELSE r
  PROVE  /\ t \in Pools(Cmax) /\ SoundPool(t) /\ k \in 0..Cmax
         /\ WindowKept(t, c, k) /\ t.idle + (b - 1) = k
<1>0. Cmax \in Nat /\ q.idle \in 0..Cmax
  BY WindowConstants DEF Pools
<1>1. CASE r > c
  <2>1. p = q /\ q.idle = 0 /\ k = r - 1
    BY <1>1 DEF WindowKept
  <2>2. t = q
    BY <2>1 DEF SignalIfLoaded
  <2>3. QED
    BY <1>0, <1>1, <2>1, <2>2 DEF WindowKept
<1>2. CASE ~(r > c)
  <2>1. r = c /\ k = c /\ q.idle + 1 \in 1..Cmax
    BY <1>0, <1>2 DEF WindowKept
  <2>2. /\ p \in Pools(Cmax) /\ p.state = q.state /\ p.run = q.run
        /\ p.idle = q.idle + 1
    BY <1>2, <2>1 DEF AddThread, Pools
  <2>3. t \in Pools(Cmax) /\ SoundPool(t) /\ t.idle = q.idle + 1
    <3>1. CASE p.run \/ p.state # "FullLoad"
      <4>1. t = p
        BY <3>1 DEF SignalIfLoaded
      <4>2. QED
        BY <1>0, <2>1, <2>2, <4>1 DEF SoundPool
    <3>2. CASE ~p.run /\ p.state = "FullLoad"
      <4>1. t = [p EXCEPT !.run = TRUE, !.state = "Run"]
        BY <1>0, <2>2, <3>2 DEF SignalIfLoaded, Signalled
      <4>2. t.run /\ t.state = "Run" /\ t.idle = p.idle /\ t \in Pools(Cmax)
        BY <2>2, <4>1 DEF Pools, PoolStates
      <4>3. QED
        BY <1>0, <2>2, <4>2 DEF SoundPool
    <3>3. QED
      BY <3>1, <3>2
  <2>4. QED
    BY <1>0, <2>1, <2>3 DEF WindowKept
<1>3. QED
  BY <1>1, <1>2

(* An RPC completes: its grant is the new window.                          *)
LEMMA WindowTaskCompletionInv ==
  ASSUME WindowIInv, NEW t \in W!Tasks, W!TaskCompletion(t)
  PROVE  WindowIInv' /\ busy' \ busy = {}
<1>1. /\ t \in busy /\ busy' = busy \ {t} /\ done' = done \cup {t} /\ queue' = queue
  BY WindowSame DEF W!TaskCompletion
<1>2. PICK c \in W!Grants(t) :
        LET a == W!AdjustThreadPool(c)
            p == IF a.rnum > c THEN a.pool ELSE AddThread(a.pool)
        IN  /\ rcc' = [rcc EXCEPT ![t] = c]
            /\ csp' = [csp EXCEPT !.uc = @ - 1, !.rcc = c]
            /\ num' = c
            /\ rnum' = IF a.rnum > c THEN a.rnum - 1 ELSE a.rnum
            /\ pool' = IF p.run THEN p ELSE SignalIfLoaded(p)
  BY WindowSame DEF W!TaskCompletion
<1>3. c \in 0..Cmax
  BY WindowConstants DEF W!Grants, WindowIInv, WindowTypes
<1>4. PICK a : a = W!AdjustThreadPool(c)
  OBVIOUS
<1>5. /\ a.pool \in Pools(Cmax) /\ a.rnum \in 0..Cmax
      /\ SoundPool(a.pool) /\ WindowKept(a.pool, c, a.rnum)
      /\ a.pool.idle + Cardinality(busy) = a.rnum
      /\ Cardinality(busy) \in Nat \ {0}
  BY <1>1, <1>3, <1>4, WindowAdjustThreadPoolOK
<1>6. PICK p : p = IF a.rnum > c THEN a.pool ELSE AddThread(a.pool)
  OBVIOUS
<1>7. /\ rcc' = [rcc EXCEPT ![t] = c] /\ csp' = [csp EXCEPT !.uc = @ - 1, !.rcc = c]
      /\ num' = c /\ rnum' = IF a.rnum > c THEN a.rnum - 1 ELSE a.rnum
      /\ pool' = IF p.run THEN p ELSE SignalIfLoaded(p)
  BY <1>2, <1>4, <1>6
<1>8. /\ pool' \in Pools(Cmax) /\ SoundPool(pool') /\ rnum' \in 0..Cmax
      /\ WindowKept(pool', c, rnum') /\ pool'.idle + (Cardinality(busy) - 1) = rnum'
  BY <1>3, <1>5, <1>6, <1>7, WindowFinishOK
<1>9. /\ Cardinality(busy') = Cardinality(busy) - 1
      /\ Cardinality(done') = Cardinality(done) + 1
      /\ Cardinality(done) \in Nat
  <2>1. t \notin done
    BY <1>1 DEF WindowIInv, OnePlace
  <2>2. QED
    BY <1>1, <2>1, WindowCountable, FS_RemoveElement, FS_AddElement
       DEF WindowIInv
<1>10. /\ csp' = [uc |-> csp.uc - 1, depth |-> csp.depth, rcc |-> c,
                  congested |-> csp.congested]
       /\ csp.uc - 1 \in Nat
  <2>1. csp \in [uc : Nat, depth : Int, rcc : 0..Cmax, congested : BOOLEAN]
    BY DEF WindowIInv, WindowTypes
  <2>2. csp.uc = Cardinality(busy)
    BY DEF WindowIInv, WindowCounted
  <2>3. QED
    <3>1. csp' = [csp EXCEPT !.uc = @ - 1, !.rcc = c]
      BY <1>7
    <3>2. csp.uc - 1 \in Nat
      BY <1>5, <2>2
    <3>3. QED
      BY <2>1, <3>1, <3>2
<1>11. WindowTypes'
  <2>1. csp' \in [uc : Nat, depth : Int, rcc : 0..Cmax, congested : BOOLEAN]
    <3>1. csp.depth \in Int /\ csp.congested \in BOOLEAN
      BY DEF WindowIInv, WindowTypes
    <3>2. QED
      BY <1>3, <1>10, <3>1
  <2>2. rcc' \in [W!Tasks -> 0..Cmax]
    BY <1>3, <1>7 DEF WindowIInv, WindowTypes
  <2>3. QED
    BY <1>1, <1>3, <1>7, <1>8, <2>1, <2>2 DEF WindowIInv, WindowTypes
<1>12. WindowCounted'
  BY <1>5, <1>8, <1>9, <1>10 DEF WindowIInv, WindowTypes, WindowCounted
<1>13. OnePlace'
  BY <1>1 DEF WindowIInv, OnePlace, W!Queued
<1>14. QED
  BY <1>1, <1>7, <1>8, <1>11, <1>12, <1>13 DEF WindowIInv

LEMMA WindowNextInv ==
  ASSUME WindowIInv, W!Next \/ UNCHANGED W!vars
  PROVE  WindowIInv' /\ (busy' \ busy # {} => Cardinality(busy') <= num)
<1>1. CASE UNCHANGED W!vars
  BY <1>1 DEF W!vars, WindowIInv, WindowTypes, WindowCounted, OnePlace, W!Queued
<1>2. ASSUME NEW t \in W!Tasks, W!Submit(t) \/ W!TaskCompletion(t)
      PROVE  WindowIInv' /\ busy' \ busy = {}
  BY <1>2, WindowSubmitInv, WindowTaskCompletionInv
<1>3. CASE W!RunPool
  BY <1>3, WindowRunPoolInv
<1>4. QED
  BY <1>1, <1>2, <1>3 DEF W!Next

-----------------------------------------------------------------------------
(* The two pools together.                                                 *)
IInv ==
  /\ kind \in {"fixed", "window"}
  /\ kind = "fixed" => FixedIInv
  /\ kind = "window" => WindowIInv

\* A step is one of the pool that `kind` names, which stays.
LEMMA StepOfKind ==
  ASSUME IInv, [Next]_vars
  PROVE  /\ kind' = kind
         /\ kind = "fixed" => FixedIInv /\ (F!Next \/ UNCHANGED F!vars)
         /\ kind = "window" => WindowIInv /\ (W!Next \/ UNCHANGED W!vars)
<1>1. CASE Next
  BY <1>1 DEF IInv, Next, Fixed, Window
<1>2. CASE UNCHANGED vars
  BY <1>2 DEF IInv, vars, windowVars, F!vars, W!vars
<1>3. QED
  BY <1>1, <1>2

(* IInv holds in every reachable state.                                    *)
THEOREM Invariance == Spec => []IInv
<1>1. Init => IInv
  BY FixedInitInv, WindowInitInv DEF Init, IInv
<1>2. IInv /\ [Next]_vars => IInv'
  BY StepOfKind, FixedNextInv, WindowNextInv DEF IInv
<1>3. QED
  BY <1>1, <1>2, PTL DEF Spec

(* Whether completions resize the pool or not, the threads that exist are  *)
(* the idle ones and one for each task in service.  In a resized pool the  *)
(* counters agree with them, no queue raises the congestion flag, and the  *)
(* pool's assertions hold (congestcontroller.cpp:57-105,                   *)
(* processor.cpp:62-116, 121, 164, 230-256).                               *)
THEOREM ThreadsCorrect == Spec => []ThreadsAccounted
<1>1. ASSUME FixedIInv PROVE F!TypeOK /\ F!ThreadsAccounted
  BY <1>1, FixedSame
     DEF FixedIInv, FixedTypes, FixedThreads, F!TypeOK, F!ThreadsAccounted
<1>2. ASSUME WindowIInv PROVE W!ThreadsAccounted
  <2>1. pool.idle \in Nat /\ SoundPool(pool)
    BY <1>2 DEF WindowIInv, WindowTypes, Pools
  <2>2. MayWakeup(pool) /\ MayDispatch(pool)
    BY <2>1 DEF SoundPool, MayWakeup, MayDispatch, MaySignal
  <2>3. W!TypeOK
    BY <1>2, WindowSame DEF WindowIInv, WindowTypes, W!TypeOK
  <2>4. QED
    BY <1>2, <2>1, <2>2, <2>3, WindowSame
       DEF WindowIInv, WindowCounted, SoundPool, W!ThreadsAccounted
<1>3. IInv => ThreadsAccounted
  BY <1>1, <1>2 DEF IInv, ThreadsAccounted
<1>4. QED
  BY <1>3, Invariance, PTL

(* No message is queued or served twice, nor is an RPC:                    *)
(* processor.cpp:77-116, congestcontroller.cpp:57-134.                     *)
THEOREM ServedOnce ==
  Spec => [](IF kind = "fixed" THEN F!NoDoubleService ELSE OnePlace)
<1>1. IInv => (IF kind = "fixed" THEN F!NoDoubleService ELSE OnePlace)
  BY DEF IInv, FixedIInv, WindowIInv
<1>2. QED
  BY <1>1, Invariance, PTL

(* In a fixed pool a queued task and an idle thread never wait for each    *)
(* other, and the pool's assertions hold: processor.cpp:86, 111, 121, 164, *)
(* event.cpp:238.                                                          *)
THEOREM NoWakeupIsLost == Spec => []NoLostWakeup
<1>1. IInv => NoLostWakeup
  BY FixedInvImplies DEF IInv, NoLostWakeup
<1>2. QED
  BY <1>1, Invariance, PTL

(* In a fixed pool no task overtakes an older one: what leaves the queue   *)
(* is a prefix of it (nrsfifo.cpp:32-65, processor.cpp:139-182).           *)
THEOREM FirstCome == Spec => FirstComeFirstServed
<1>1. IInv /\ [Next]_vars => [kind = "fixed" => F!InOrderOfArrival]_vars
  <2> SUFFICES ASSUME IInv, Next, kind = "fixed" PROVE F!InOrderOfArrival
    OBVIOUS
  <2>1. FixedIInv /\ F!Next
    BY DEF IInv, Next, Fixed, Window
  <2>2. QED
    BY <2>1, FixedInOrder
<1>2. QED
  BY <1>1, Invariance, PTL DEF Spec, FirstComeFirstServed

(* No RPC is sent while as many are in flight as the window allows         *)
(* (processor.cpp:230-256, congestcontroller.cpp:84-96).                   *)
THEOREM WindowCorrect == Spec => WindowRespected
<1>1. IInv /\ [Next]_vars => [kind = "window" => W!SentWithinWindow]_vars
  <2> SUFFICES ASSUME IInv, [Next]_vars, kind = "window" PROVE W!SentWithinWindow
    OBVIOUS
  <2>1. busy' \ busy # {} => Cardinality(busy') <= num
    BY StepOfKind, WindowNextInv
  <2>2. QED
    BY <2>1, WindowSame DEF W!SentWithinWindow
<1>2. QED
  BY <1>1, Invariance, PTL DEF Spec, WindowRespected

(* A fixed pool implements the abstract service of NumThreads servers      *)
(* (processor.cpp:77-189).  (That it also implements the fairness of the   *)
(* service is checked, not proved.)                                        *)
THEOREM Refinement == Spec => Service!Spec
<1>1. Init => Service!Init
  <2>1. ASSUME F!Init PROVE F!Queued = {} /\ busy = {} /\ done = {}
    BY <2>1 DEF F!Init, F!Queued
  <2>2. QED
    BY <2>1 DEF Init, Only, Service!Init
<1>2. IInv /\ [Next]_vars => [Service!Next]_Service!vars
  <2> SUFFICES ASSUME IInv, [Next]_vars PROVE [Service!Next]_Service!vars
    OBVIOUS
  <2>1. CASE kind = "window"
    BY <2>1, StepOfKind DEF Only, Service!vars
  <2>2. CASE kind = "fixed" /\ UNCHANGED F!vars
    BY <2>2, StepOfKind DEF F!vars, F!Queued, Only, Service!vars
  <2>3. CASE kind = "fixed" /\ F!Next
    BY <2>3, StepOfKind, FixedRefines
  <2>4. QED
    BY <2>1, <2>2, <2>3, StepOfKind DEF IInv
<1>3. QED
  BY <1>1, <1>2, Invariance, PTL DEF Spec, Service!Spec
=============================================================================
