---------------------------- MODULE ThreadPools ----------------------------
(***************************************************************************)
(* The two thread pools over a FIFO queue: the fixed one of a server, or   *)
(* of an OSC without congestion control (Processor), and its subclass that *)
(* an OSC resizes by credits (CongestController).  `kind` says which of    *)
(* them the node has attached (server.cpp:136-139, osc.cpp:226-235).  The  *)
(* variables of a window are None in a fixed pool.                         *)
(***************************************************************************)
EXTENDS Naturals, FiniteSets

CONSTANTS None,
          FixedTasks, NumThreads,                \* Processor
          Writes, Reads, Cmin, Cmax, RCC, CQmax  \* CongestController

VARIABLES kind,
          pool, queue, busy, done,  \* shared
          num, rnum, csp, rcc       \* CongestController

F == INSTANCE Processor WITH Tasks <- FixedTasks
W == INSTANCE CongestController

ASSUME ThreadPoolsAssumption ==
  F!ProcessorAssumption /\ W!CongestControllerAssumption

windowVars == <<num, rnum, csp, rcc>>
vars == <<kind, pool, queue, busy, done, windowVars>>

Init ==
  \/ /\ kind = "fixed" /\ F!Init
     /\ num = None /\ rnum = None /\ csp = None /\ rcc = None
  \/ kind = "window" /\ W!Init

Fixed(A) == kind = "fixed" /\ A /\ UNCHANGED <<kind, windowVars>>
Window(A) == kind = "window" /\ A /\ UNCHANGED kind

Next == Fixed(F!Next) \/ Window(W!Next)

Spec == Init /\ [][Next]_vars

(* An event in the event queue is run after finitely many others, and the  *)
(* disk and the network eventually answer for every task in service.       *)
(* Nothing is asked of a resized pool, whose tasks may wait for good.      *)
Fairness ==
  /\ WF_vars(Fixed(F!RunPool))
  /\ \A t \in FixedTasks : WF_vars(Fixed(F!TaskCompletion(t)))

FairSpec == Spec /\ Fairness
-----------------------------------------------------------------------------
(* No thread is lost or leaked, whether the pool is resized or not; the    *)
(* credits' counters and the pool's assertions go with it where it is      *)
(* (processor.cpp:62-116, congestcontroller.cpp:57-105).                   *)
ThreadsAccounted ==
  /\ kind = "fixed" => F!TypeOK /\ F!ThreadsAccounted
  /\ kind = "window" => W!ThreadsAccounted

(* A fixed pool: a queued task and an idle thread never wait for each      *)
(* other (processor.cpp:86, 111).                                          *)
NoLostWakeup == kind = "fixed" => F!NoLostWakeup

(* A fixed pool: no task overtakes an older one (nrsfifo.cpp:32-65).       *)
FirstComeFirstServed == [][kind = "fixed" => F!InOrderOfArrival]_vars

(* A resized pool: no RPC is sent while as many are in flight as the       *)
(* window allows (processor.cpp:230-256, congestcontroller.cpp:84-96).     *)
WindowRespected == [][kind = "window" => W!SentWithinWindow]_vars

Only(S) == IF kind = "fixed" THEN S ELSE {}
Service == INSTANCE TaskService
             WITH Tasks <- FixedTasks, Limit <- NumThreads,
                  waiting <- Only(F!Queued), serving <- Only(busy),
                  served <- Only(done)

(* A fixed pool is a task service of NumThreads servers, liveness included *)
(* (processor.cpp:77-189).                                                 *)
ImplementsTaskService == Service!FairSpec
=============================================================================
