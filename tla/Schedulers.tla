----------------------------- MODULE Schedulers -----------------------------
(***************************************************************************)
(* The request schedulers of a server, each over its thread pool: `algo`   *)
(* says which of them Server::SetScheduler has made.  "rate" is the rate   *)
(* of a dependent rule of the token bucket scheduler.  The variables of    *)
(* the others are None, or no request.                                     *)
(***************************************************************************)
EXTENDS Naturals, Sequences, FiniteSets

CONSTANTS None, NumThreads,
          TbfClasses, NSecs, Depth, TbfPerClass, TbfLastArrival,  \* NrsTbf
          Lower, Upper, Rate, Sec, Width,                         \* TbfRate
          Objects, PerObject, Quantum, Modes, Slack, FrrThreads,
          FrrLastArrival, FrrLastTick,                            \* NrsFrr
          Num, Quota, EpochPerClass, EpochLastArrival,
          EpochLastTick,                                          \* NrsEpoch
          PrioPerClass, Count, Bandwidth, Coef, Delta, Wait,
          PrioLastTick                                            \* NrsPrio

VARIABLES algo,
          now, pool, busy, done, aborted,                     \* shared
          cli, throttling, timer, deadline, hist,             \* NrsTbf
          speedup, last_round, rpc_rate, nsecs,               \* TbfRate
          mode, oq, queued, Q, wq, quantum, dQ, wait,         \* NrsFrr
          qvec, cur, start, on, calm,                         \* NrsEpoch
          pq, load                                            \* NrsPrio

T == INSTANCE NrsTbf WITH Classes <- TbfClasses, PerClass <- TbfPerClass,
       LastArrival <- TbfLastArrival
R == INSTANCE TbfRate
F == INSTANCE NrsFrr WITH NumThreads <- FrrThreads,
       LastArrival <- FrrLastArrival, LastTick <- FrrLastTick
E == INSTANCE NrsEpoch WITH PerClass <- EpochPerClass,
       LastArrival <- EpochLastArrival, LastTick <- EpochLastTick
P == INSTANCE NrsPrio WITH PerClass <- PrioPerClass, LastTick <- PrioLastTick

ASSUME SchedulersAssumption ==
  /\ T!NrsTbfAssumption /\ R!TbfRateAssumption /\ F!NrsFrrAssumption
  /\ E!NrsEpochAssumption /\ P!NrsPrioAssumption

poolVars == <<now, pool, busy, done>>
timerVars == <<timer, deadline>>
tbfVars == <<cli, throttling, hist>>
rateVars == <<speedup, last_round, rpc_rate, nsecs>>
frrVars == <<mode, oq, queued, Q, wq, quantum, dQ, wait>>
epochVars == <<qvec, cur, start, on, calm>>
prioVars == <<pq, load>>
vars == <<algo, poolVars, aborted, timerVars, tbfVars, rateVars, frrVars,
          epochVars, prioVars>>

NoPool == now = None /\ pool = None /\ busy = {} /\ done = {}
NoTimer == timer = None /\ deadline = None
NoTbf == cli = None /\ throttling = None /\ hist = None
NoRate == speedup = None /\ last_round = None /\ rpc_rate = None /\ nsecs = None
NoFrr == /\ mode = None /\ oq = None /\ queued = None /\ Q = None
         /\ wq = None /\ quantum = None /\ dQ = None /\ wait = None
NoEpoch == qvec = None /\ cur = None /\ start = None /\ on = None /\ calm = None
NoPrio == pq = None /\ load = None

Init ==
  \/ algo = "tbf" /\ T!Init /\ NoRate /\ NoFrr /\ NoEpoch /\ NoPrio
  \/ algo = "rate" /\ R!Init /\ NoPool /\ NoTimer /\ NoTbf /\ NoFrr /\ NoEpoch
     /\ NoPrio
  \/ algo = "frr" /\ F!Init /\ aborted = FALSE /\ NoTimer /\ NoTbf /\ NoRate
     /\ NoEpoch /\ NoPrio
  \/ algo = "epoch" /\ E!Init /\ NoTbf /\ NoRate /\ NoFrr /\ NoPrio
  \/ algo = "prio" /\ P!Init /\ aborted = FALSE /\ NoTimer /\ NoTbf
     /\ NoRate /\ NoFrr /\ NoEpoch

(* A step A of one scheduler leaves the others alone.                      *)
Tbf(A) == /\ algo = "tbf" /\ ~aborted /\ A
          /\ UNCHANGED <<algo, rateVars, frrVars, epochVars, prioVars>>
TbfRule(A) == /\ algo = "rate" /\ A
              /\ UNCHANGED <<algo, poolVars, timerVars, tbfVars, frrVars,
                             epochVars, prioVars>>
Frr(A) == /\ algo = "frr" /\ A
          /\ UNCHANGED <<algo, aborted, timerVars, tbfVars, rateVars,
                         epochVars, prioVars>>
Epoch(A) == /\ algo = "epoch" /\ ~aborted /\ A
            /\ UNCHANGED <<algo, tbfVars, rateVars, frrVars, prioVars>>
Prio(A) == /\ algo = "prio" /\ A
           /\ UNCHANGED <<algo, aborted, timerVars, tbfVars, rateVars,
                          frrVars, epochVars>>

Completion ==
  \/ Tbf(\E r \in T!Requests : T!TaskCompletion(r))
  \/ Frr(\E r \in F!Requests : F!TaskCompletion(r))
  \/ Epoch(\E r \in E!Requests : E!TaskCompletion(r))
  \/ Prio(\E r \in P!Requests : P!TaskCompletion(r))
RunPool ==
  Tbf(T!RunPool) \/ Frr(F!RunPool) \/ Epoch(E!RunPool) \/ Prio(P!RunPool)
Timer == Tbf(T!TimerCallback) \/ Epoch(E!TimeSliceExpire)
Tick == Tbf(T!Tick) \/ Frr(F!Tick) \/ Epoch(E!Tick) \/ Prio(P!Tick)
SpeedUp == TbfRule(R!Increase)
SlowDown == TbfRule(R!Decrease \/ R!DecreaseAborts)

Next == \/ Tbf(T!Next) \/ TbfRule(R!Next) \/ Frr(F!Next) \/ Epoch(E!Next)
        \/ Prio(P!Next)

(* Pending events run and time goes on while one is ahead (event.cpp:112); *)
(* the disk and the network answer; requests of the class keep coming.     *)
Fairness ==
  /\ WF_vars(RunPool) /\ WF_vars(Completion)
  /\ WF_vars(Timer) /\ WF_vars(Tick)
  /\ WF_vars(SlowDown)

Spec == Init /\ [][Next]_vars /\ Fairness
-----------------------------------------------------------------------------
(* Token buckets: the throttled policy sleeps until the next token, and    *)
(* the pool's assertions hold with a policy that wakes it from a timer.    *)
WakesForNextToken ==
  algo = "tbf" => T!TypeOK /\ T!WakesForNextToken /\ T!AssertionsHold

(* Token buckets: no class is served faster than its rule allows.          *)
RateRespected == algo = "tbf" => T!RateRespected

(* Dependent rules: whatever rate is configured for a rule, from the first *)
(* raise on its class waits for tokens as the rate in force says           *)
(* (nrstbf.cpp:823-840, 1028-1059).                                        *)
TokenTimeFollowsRate ==
  /\ [](algo = "rate" => R!TypeOK /\ R!StaleOnlyAtStart)
  /\ [][algo = "rate" => R!StaysInStep]_vars

(* Dependent rules: the rate falls back once the other rule is busy.       *)
FallsBackToLower ==
  <>[][~SpeedUp]_vars => []<>(algo = "rate" => rpc_rate = Lower \/ aborted)

(* Round robin: each object has its turn, and deadlines stay sorted.       *)
ObjectsTakeTurns ==
  algo = "frr" => /\ F!TypeOK /\ F!ObjectsHaveTurn /\ F!RoundRobin
                  /\ F!DeadlinesSorted

(* Round robin: a request whose deadline has passed goes first.            *)
ExpiredFirst == [][algo = "frr" => F!ExpiredGoesFirst]_vars

(* Epochs: a slice ends with its quota, whatever is served in it.          *)
SlicesEnd == algo = "epoch" => E!SlicesEnd

(* Priorities: the load that deadlines are computed from is that of the    *)
(* requests in the server.                                                 *)
LoadCounted == algo = "prio" => P!LoadCounted

(* The class whose slice it is, or the highest priority, goes first.       *)
PreferredFirst == [][/\ algo = "epoch" => E!CurrentGoesFirst
                     /\ algo = "prio" => P!HighestGoesFirst]_vars

(* The requests that wait in the scheduler. *)
Waiting == CASE algo = "tbf" -> T!Queued
             [] algo = "frr" /\ mode = "OFF" -> F!Queued
             [] algo = "epoch" -> E!Queued
             [] algo = "prio" -> P!Queued
             [] OTHER -> {}

(* Every request is served in the end, with each scheduler - round robin   *)
(* without deadlines - unless an assertion stops the simulation: once the  *)
(* last request has come, nothing is left waiting.                         *)
EveryRequestServed == <>[](aborted \/ Waiting = {})
=============================================================================
