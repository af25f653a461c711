------------------------------- MODULE NrsTbf -------------------------------
(***************************************************************************)
(* The token bucket request scheduler and the server thread pool it feeds  *)
(* (nrstbf.cpp, processor.cpp): the configuration the simulator runs by    *)
(* default.  Requests are classified by job; each class has a bucket of at *)
(* most Depth tokens, refilled with one token each NSecs[c] ticks.  A heap *)
(* keeps the backlogged classes ordered by the time of their next token.   *)
(* When the first of them has no token the whole policy is throttled until *)
(* a timer fires at that time.                                             *)
(*                                                                         *)
(* Rules with a dependency, which change their rate as they go, are in     *)
(* module TbfRate; here nrs_tbf_update_rule_rate returns at once.  Fewer   *)
(* classes exist than the class cache holds, so none is ever evicted.      *)
(***************************************************************************)
EXTENDS ThreadPool, Sequences, FiniteSets, FiniteSetsExt

CONSTANTS Classes,     \* job ids
          NSecs,       \* tc_nsecs of each class
          Depth,       \* params.nrs.tbf.TbfDepth
          PerClass,    \* bound: requests of a class that may arrive
          NumThreads,  \* Processor::num
          LastArrival  \* bound: no request arrives after this tick

NrsTbfAssumption ==
  /\ IsFiniteSet(Classes)
  /\ NSecs \in [Classes -> Nat \ {0}] /\ {Depth, NumThreads} \subseteq Nat \ {0}
  /\ {PerClass, LastArrival} \subseteq Nat

VARIABLES now,         \* Event::Clock()
          pool,        \* the pool record of ThreadPool
          cli,         \* the classes: nrs_tbf_client
          throttling,  \* NrsTbf::throttling
          timer,       \* head.th_timer: is it in the event queue?
          deadline,    \* head.th_deadline
          busy, done,  \* requests in service, requests completed
          aborted,     \* an LASSERT has stopped the simulation
          hist         \* history: when requests of a class were dispatched

tbfVars == <<cli, throttling, timer, deadline, hist>>
vars == <<now, pool, tbfVars, busy, done, aborted>>

Requests == Classes \X (1..PerClass)

Backlog(c) == {cli[c].queue[i] : i \in DOMAIN cli[c].queue}
Queued == UNION {Backlog(c) : c \in Classes}

(* When class c gets its next token, if it has none. *)
NextToken(k, c) == k[c].check + NSecs[c]

Init ==
  /\ now = 0
  /\ pool = [StartedPool(NumThreads) EXCEPT !.run = FALSE, !.state = "Idle"]
  /\ cli = [c \in Classes |->
              [known |-> FALSE, queue |-> <<>>, ntoken |-> 0, check |-> 0]]
  /\ throttling = FALSE /\ timer = FALSE /\ deadline = 0
  /\ busy = {} /\ done = {} /\ aborted = FALSE
  /\ hist = [c \in Classes |-> <<>>]
-----------------------------------------------------------------------------
(* nrs_tbf_cli_find and nrs_tbf_cli_init: a new class has a full bucket.   *)
FindClient(c) ==
  IF cli[c].known THEN cli[c]
  ELSE [known |-> TRUE, queue |-> <<>>, ntoken |-> Depth, check |-> now]

(* Wrong: the timer is not brought forward. *)
EnqueueNoTimer(r) ==
  LET k == FindClient(r[1])
  IN  /\ cli' = [cli EXCEPT ![r[1]] = [k EXCEPT !.queue = Append(@, r)]]
      /\ UNCHANGED <<throttling, timer, deadline, hist, aborted>>

(* Enqueue: a class that enters the heap while the policy is throttled     *)
(* brings the timer forward when its token comes first.                    *)
Enqueue(r) ==
  LET c == r[1]
      k == FindClient(c)
      d == k.check + NSecs[c]
      sooner == k.queue = <<>> /\ throttling /\ d >= now /\ deadline > d
  IN  /\ cli' = [cli EXCEPT ![c] = [k EXCEPT !.queue = Append(@, r)]]
      /\ aborted' = (sooner /\ d <= now)
      /\ deadline' = IF sooner THEN d ELSE deadline
      /\ timer' = (timer \/ sooner)
      /\ UNCHANGED <<throttling, hist>>

(* AddNewTask: a request arrives at the server. *)
AddNewTask(r) ==
  /\ now <= LastArrival
  /\ r \notin Queued \cup busy \cup done
  /\ \A n \in 1..(r[2] - 1) : <<r[1], n>> \in Queued \cup busy \cup done
  /\ Enqueue(r)
  /\ pool' = Wakeup(pool)
  /\ UNCHANGED <<now, busy, done>>

(* The heap order of tbf_cli_compare; a tie may fall either way.           *)
Before(k, c, d) ==
  \/ NextToken(k, c) < NextToken(k, d)
  \/ NextToken(k, c) = NextToken(k, d) /\ k[c].check <= k[d].check

Roots(k) ==
  LET B == {c \in Classes : k[c].queue # <<>>}
  IN  {c \in B : \A d \in B : Before(k, c, d)}

(* The tokens of class c at this tick, at most Depth of them. *)
Tokens(k, c) ==
  Min({Depth, k[c].ntoken + (now - k[c].check) \div NSecs[c]})

(* Wrong: the time at which the tokens were counted is not kept. *)
DequeueNoCheck(s, c) ==
  IF Tokens(s.cli, c) > 0
  THEN [s EXCEPT !.out = @ \cup {Head(s.cli[c].queue)},
                 !.pool = TakeThreads(@, 1),
                 !.hist[c] = Append(@, now),
                 !.cli[c] = [@ EXCEPT !.queue = Tail(s.cli[c].queue),
                                      !.ntoken = Tokens(s.cli, c) - 1]]
  ELSE [s EXCEPT !.throttling = TRUE, !.timer = TRUE,
                 !.deadline = NextToken(s.cli, c)]

(* Dequeue with class c at the root of the heap, on the state s of the     *)
(* policy: hand out the oldest request of c, or throttle.                  *)
Dequeue(s, c) ==
  IF Tokens(s.cli, c) > 0
  THEN [s EXCEPT !.out = @ \cup {Head(s.cli[c].queue)},
                 !.pool = TakeThreads(@, 1),
                 !.hist[c] = Append(@, now),
                 !.cli[c] = [@ EXCEPT !.queue = Tail(s.cli[c].queue),
                                      !.ntoken = Tokens(s.cli, c) - 1,
                                      !.check = now]]
  ELSE [s EXCEPT !.throttling = TRUE, !.timer = TRUE,
                 !.deadline = NextToken(s.cli, c)]

(* One recursion of PoolStateMachine, while it has something to do: the    *)
(* states it may lead to.                                                  *)
MachineStep(s) ==
  IF s.pool.state # "Run" \/ s.throttling \/ Roots(s.cli) = {} THEN {s}
  ELSE {Dequeue(s, c) : c \in Roots(s.cli)}

(* The pool's event: PoolStateMachine until the policy hands out nothing   *)
(* or no thread is left, at most NumThreads dispatches and a last look.    *)
RunPool ==
  LET s0 == [pool |-> [pool EXCEPT !.run = FALSE], cli |-> cli,
             throttling |-> throttling, timer |-> timer,
             deadline |-> deadline, hist |-> hist, out |-> {}]
      reach[n \in 0..(NumThreads + 1)] ==
        IF n = 0 THEN {s0} ELSE UNION {MachineStep(s) : s \in reach[n - 1]}
  IN  /\ pool.run
      /\ \E s \in reach[NumThreads + 1] :
           /\ pool' = IF s.pool.state = "FullLoad" THEN s.pool
                      ELSE [s.pool EXCEPT !.state = "Idle"]
           /\ cli' = s.cli
           /\ throttling' = s.throttling
           /\ timer' = s.timer
           /\ deadline' = s.deadline
           /\ hist' = s.hist
           /\ busy' = busy \cup s.out
      /\ UNCHANGED <<now, done, aborted>>

(* Wrong: the pool is not woken. *)
TimerCallbackSilent ==
  /\ timer /\ deadline = now
  /\ timer' = FALSE
  /\ throttling' = FALSE
  /\ UNCHANGED <<now, pool, cli, deadline, hist, busy, done, aborted>>

(* NrsTbfTimerCallback *)
TimerCallback ==
  /\ timer /\ deadline = now
  /\ timer' = FALSE
  /\ throttling' = FALSE
  /\ pool' = Wakeup(pool)
  /\ UNCHANGED <<now, cli, deadline, hist, busy, done, aborted>>

TaskCompletion(r) ==
  /\ r \in busy
  /\ pool' = SignalIfLoaded(AddThread(pool))
  /\ busy' = busy \ {r}
  /\ done' = done \cup {r}
  /\ UNCHANGED <<now, tbfVars, aborted>>

(* The clock moves on as long as an arrival or the timer is ahead, and     *)
(* never past a timer that is due.                                         *)
Tick ==
  /\ IF timer THEN now < deadline ELSE now < LastArrival
  /\ now' = now + 1
  /\ UNCHANGED <<pool, tbfVars, busy, done, aborted>>

Next ==
  /\ ~aborted
  /\ \/ \E r \in Requests : AddNewTask(r) \/ TaskCompletion(r)
     \/ RunPool
     \/ TimerCallback
     \/ Tick

Spec == Init /\ [][Next]_vars
-----------------------------------------------------------------------------
TypeOK ==
  /\ now \in Nat /\ deadline \in Nat
  /\ pool \in Pools(NumThreads)
  /\ cli \in [Classes -> [known : BOOLEAN, queue : Seq(Requests),
                          ntoken : 0..Depth, check : 0..now]]
  /\ {throttling, timer, aborted} \subseteq BOOLEAN
  /\ busy \in SUBSET Requests /\ done \in SUBSET Requests
  /\ hist \in [Classes -> Seq(0..now)]

(* A throttled policy has its timer ahead of it, and never sleeps past the *)
(* next token of a backlogged class, whenever that class entered the heap  *)
(* (nrstbf.cpp:843-851, 900-911, 984-987).  A class whose token came       *)
(* before it entered is not counted: the code lets it wait for the timer.  *)
WakesForNextToken ==
  /\ throttling = timer
  /\ throttling => deadline >= now
  /\ throttling => \A c \in Classes :
       cli[c].queue # <<>> /\ NextToken(cli, c) >= now
         => deadline <= NextToken(cli, c)

(* The pool's assertions hold with a policy that wakes it from a timer.    *)
AssertionsHold ==
  /\ MayWakeup(pool)
  /\ MayDispatch(pool)
  /\ pool.state = "FullLoad" => MaySignal(pool)

(* The rate a rule promises: between two dispatches of a class there are   *)
(* no more dispatches than a bucket of Depth tokens, refilled each NSecs   *)
(* ticks, pays for (nrstbf.cpp:948-983).                                 *)
RateRespected ==
  \A c \in Classes : \A i, j \in DOMAIN hist[c] :
    i <= j => j - i + 1 <= Depth + (hist[c][j] - hist[c][i]) \div NSecs[c]

=============================================================================
