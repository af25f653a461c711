----------------------------- MODULE EventQueue -----------------------------
(***************************************************************************)
(* The event kernel (event.cpp, timer.cpp) on the tree of NrsRbtree: what  *)
(* the callback of an event, or the set-up of the simulation, may do to    *)
(* the queue of events, and the loop that runs them.                       *)
(*                                                                         *)
(* agenda is what the queue promises, kept next to it: the events in the   *)
(* order in which they will run.  Of the events of one tick, the one that  *)
(* was inserted last runs first.                                           *)
(***************************************************************************)
EXTENDS Integers, Sequences, SequencesExt

CONSTANTS Events, None,
          MaxRunTicks, \* Event::maxRunTicks
          LastTime     \* bound: no event is set to a later time

EventQueueAssumption == MaxRunTicks \in Nat /\ LastTime \in Nat

VARIABLES tree,    \* Event::runQ
          runTime, \* event -> Event::runTime
          run,     \* event -> Event::run
          now,     \* Event::now
          pc,      \* "setup", "callback" (the event `current` runs), "over"
          current, \* Event::current
          agenda

eventVars == <<tree, runTime, run, now, pc, current, agenda>>

(* Event::RunTimeCompare never returns 0: an event goes to the left of the *)
(* events of its own time.                                                 *)
RunTimeCompare(a, b) == ~(a > b)

RB == INSTANCE RedBlack
        WITH Nodes <- Events, Left <- RunTimeCompare,
             Rotated <- LAMBDA t, n, m : t

EventInit ==
    /\ tree = RB!Empty
    /\ runTime = [e \in Events |-> 0] /\ run = [e \in Events |-> FALSE]
    /\ now = 0 /\ pc = "setup" /\ current = None /\ agenda = <<>>

-----------------------------------------------------------------------------
(* The agenda with and without e.                                          *)
Scheduled(e, t, list, times) ==
    LET sooner(x) == times[x] < t
    IN SelectSeq(list, sooner) \o <<e>>
         \o SelectSeq(list, LAMBDA x : ~sooner(x))
Cancelled(e, list) == SelectSeq(list, LAMBDA x : x # e)

(* Wrong: the tree is not rebalanced after the insertion.                  *)
InsertRunQUnbalanced(e, t, queue, list) ==
    /\ tree' = RB!Link(queue, e, t)
    /\ runTime' = [runTime EXCEPT ![e] = t]
    /\ run' = [run EXCEPT ![e] = TRUE]
    /\ agenda' = Scheduled(e, t, list, runTime)

(* Event::InsertRunQ on a given queue and agenda.                          *)
InsertRunQ(e, t, queue, list) ==
    /\ tree' = RB!Insert(queue, e, t)
    /\ runTime' = [runTime EXCEPT ![e] = t]
    /\ run' = [run EXCEPT ![e] = TRUE]
    /\ agenda' = Scheduled(e, t, list, runTime)

(* Event::RunAfter, and Thread::Signal with the delay that Rand returns.   *)
RunAfter(e, ticks) ==
    /\ pc # "over" /\ ~run[e] /\ now + ticks =< LastTime
    /\ InsertRunQ(e, now + ticks, tree, agenda)
    /\ UNCHANGED <<now, pc, current>>

(* Timer::ModTimer; RunAt asserts that the time is to come.                *)
ModTimer(e, expire) ==
    /\ pc # "over" /\ expire > now /\ expire =< LastTime
    /\ IF run[e] THEN /\ expire # runTime[e]
                      /\ InsertRunQ(e, expire, RB!Erase(tree, e),
                                    Cancelled(e, agenda))
                 ELSE InsertRunQ(e, expire, tree, agenda)
    /\ UNCHANGED <<now, pc, current>>

(* Timer::DelTimer                                                         *)
DelTimer(e) ==
    /\ pc # "over" /\ run[e]
    /\ tree' = RB!Erase(tree, e)
    /\ run' = [run EXCEPT ![e] = FALSE]
    /\ agenda' = Cancelled(e, agenda)
    /\ UNCHANGED <<runTime, now, pc, current>>

(* Event::Schedule from the end of one callback to the start of the next.  *)
(* It is left, and drops what is queued, when the queue is empty or the    *)
(* time is up.                                                             *)
RunNext ==
    LET e == RB!First(tree)
    IN /\ pc # "over" /\ e # None /\ (pc = "callback" => now =< MaxRunTicks)
       /\ tree' = RB!Erase(tree, e) /\ run' = [run EXCEPT ![e] = FALSE]
       /\ now' = runTime[e] /\ current' = e /\ pc' = "callback"
       /\ agenda' = Tail(agenda)
       /\ UNCHANGED runTime
Leave ==
    /\ pc # "over"
    /\ RB!First(tree) = None \/ (pc = "callback" /\ now > MaxRunTicks)
    /\ tree' = RB!Empty /\ run' = [e \in Events |-> FALSE]
    /\ agenda' = <<>> /\ pc' = "over"
    /\ UNCHANGED <<runTime, now, current>>

EventNext ==
    \/ \E e \in Events, t \in 0..LastTime :
         RunAfter(e, t) \/ ModTimer(e, t)
    \/ \E e \in Events : DelTimer(e)
    \/ RunNext
    \/ Leave

-----------------------------------------------------------------------------
(* Whatever was inserted, moved and deleted, the tree holds the events of  *)
(* the agenda in its order: the events run by time, the newest first when  *)
(* times are equal, no event is lost or runs early, and the tree is a      *)
(* red-black tree (Event::Schedule's assertion on now follows).            *)
EventsInOrder ==
    /\ RB!WellLinked(tree) /\ RB!Balanced(tree)
    /\ RB!Walk(tree) = agenda
    /\ \A e \in Events : run[e] <=> RB!InTree(tree) \cap {e} # {}
    /\ \A e \in Events : run[e] => tree.key[e] = runTime[e] /\ now =< runTime[e]
=============================================================================
