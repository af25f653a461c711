----------------------------- MODULE Containers -----------------------------
(***************************************************************************)
(* The containers that the schedulers, the event kernel and the lock       *)
(* manager keep their data in.  They share no state: `which` says whose    *)
(* operations a behaviour makes.                                           *)
(***************************************************************************)
EXTENDS Integers, FiniteSets

CONSTANTS None, Events, MaxRunTicks, LastTime,         \* EventQueue
          Extents, Eof,                                \* IntervalTree
          HeapNodes, Keys, Shift,                      \* BinHeap
          Items, HashKeys, Hash, Tables, ThetaBits, MinTheta, MaxTheta,
          MaxUsers,                                    \* HashTable
          Classes, NumJobs, JobHash, CacheSize, BktBits, NumRules, PerClass

VARIABLES which,
          tree, runTime, run, now, pc, current, agenda,
          intervals,
          heap,
          table, held, users,
          classHash, lru, rule, ruleRefs, ruleList, waiting, serving, inHeap

Queue     == INSTANCE EventQueue
Intervals == INSTANCE IntervalTree
Heap      == INSTANCE BinHeap
HashTab   == INSTANCE HashTable
Cache     == INSTANCE ClassCache WITH Hash <- JobHash

ASSUME ContainersAssumption ==
    /\ Queue!EventQueueAssumption
    /\ Intervals!IntervalTreeAssumption
    /\ Heap!BinHeapAssumption
    /\ HashTab!HashTableAssumption
    /\ Cache!ClassCacheAssumption

eventVars == <<tree, runTime, run, now, pc, current, agenda>>
hashVars  == <<table, held, users>>
classVars == <<classHash, lru, rule, ruleRefs, ruleList, waiting, serving,
               inHeap>>
vars == <<which, eventVars, intervals, heap, hashVars, classVars>>

(* The variables of the containers that a behaviour leaves alone.          *)
NoQueue == /\ tree = None /\ runTime = None /\ run = None /\ now = None
           /\ pc = None /\ current = None /\ agenda = None
NoTable == table = None /\ held = None /\ users = None
NoCache == /\ classHash = None /\ lru = None /\ rule = None
           /\ ruleRefs = None /\ ruleList = None
           /\ waiting = None /\ serving = None /\ inHeap = None

Init ==
    /\ which \in {"events", "intervals", "heap", "hash", "classes"}
    /\ IF which = "events" THEN Queue!EventInit ELSE NoQueue
    /\ IF which = "intervals" THEN Intervals!IntervalInit ELSE intervals = None
    /\ IF which = "heap" THEN Heap!HeapInit ELSE heap = None
    /\ IF which = "hash" THEN HashTab!HashInit ELSE NoTable
    /\ IF which = "classes" THEN Cache!ClassInit ELSE NoCache

Next ==
    \/ /\ which = "events" /\ Queue!EventNext
       /\ UNCHANGED <<which, intervals, heap, hashVars, classVars>>
    \/ /\ which = "intervals" /\ Intervals!IntervalNext
       /\ UNCHANGED <<which, eventVars, heap, hashVars,
                      classVars>>
    \/ /\ which = "heap" /\ Heap!HeapNext
       /\ UNCHANGED <<which, eventVars, intervals, hashVars,
                      classVars>>
    \/ /\ which = "hash" /\ HashTab!HashNext
       /\ UNCHANGED <<which, eventVars, intervals, heap, classVars>>
    \/ /\ which = "classes" /\ Cache!ClassNext
       /\ UNCHANGED <<which, eventVars, intervals, heap, hashVars>>

Spec == Init /\ [][Next]_vars

-----------------------------------------------------------------------------
(* Whatever the callbacks set, reset and cancel, events run in the order   *)
(* of their times, those of one tick newest first.                         *)
EventsInOrder == which = "events" => Queue!EventsInOrder

(* A search of the interval tree finds every extent that overlaps.         *)
SearchFindsOverlaps == which = "intervals" => Intervals!SearchFindsOverlaps

(* The root of the heap is a smallest node, after any sequence of          *)
(* insertions, removals and relocations.                                   *)
HeapInOrder == which = "heap" => Heap!HeapInOrder

(* The hash table finds what was put in, through every resizing.           *)
ItemsInPlace == which = "hash" => HashTab!ItemsInPlace

(* A class with unfinished requests is never given up by the cache, and an *)
(* unused one never kept beyond the bucket's share.                        *)
ClassesHeld == which = "classes" => Cache!ClassesHeld
=============================================================================
