------------------------------ MODULE Elevator ------------------------------
(***************************************************************************)
(* The I/O scheduler of a disk (elevator.cpp, elvdeadline.cpp,             *)
(* elvnoop.cpp): operators on the elevator's state, which Storage composes *)
(* with the disk and the file system.                                      *)
(*                                                                         *)
(* An I/O request (ioreq) that reaches a plugged device waits in a request *)
(* of the elevator.  It is put into a request that it continues, at the    *)
(* back or at the front, and two requests that have come to touch become   *)
(* one.                                                                    *)
(*                                                                         *)
(* The two schedulers differ in the order of their requests only.  The     *)
(* queue of ElvNoop is in the order of arrival.  That of ElvDeadline is    *)
(* the order in which Dispatch would take the requests: all writes before  *)
(* all reads, each by offset; it stands for the two trees and the two      *)
(* lists (what follows goto dispatch_simple is never run).  In both, the   *)
(* neighbour of a request in the code is its neighbour in the queue, or a  *)
(* request that AttemptMerge refuses because its direction differs.        *)
(*                                                                         *)
(* The dispatch queue of the elevator is empty between two calls:          *)
(* Disk::Request takes every request in one run, and nobody else inserts.  *)
(***************************************************************************)
EXTENDS Integers, FiniteSets, SequencesExt

CONSTANTS MaxReqSize, \* params.disk.ElvMaxReqSize
          None

ASSUME ElevatorAssumption == MaxReqSize \in Nat \ {0}

Directions == {"read", "write"}
Schedulers == {"noop", "deadline"}

(* Elevator::Elevator: the queue, the request that was inserted or merged  *)
(* last, the number of requests for each direction, those on the disk      *)
(* included, and the number of those on the disk.                          *)
EmptyElevator ==
    [queue |-> <<>>, last |-> None, count |-> [d \in Directions |-> 0],
     inflight |-> 0]

GetPendingNum(e) == e.count["read"] + e.count["write"] - e.inflight

(* A request for one ioreq; the ioreq also names it.                       *)
NewRequest(q) ==
    [id |-> q, cmd |-> q.cmd, off |-> q.off, count |-> q.count,
     batch |-> <<q>>]

EndOf(r) == r.off + r.count

Positions(e, Test(_)) == {i \in DOMAIN e.queue : Test(e.queue[i])}

LastRequest(e)   == Positions(e, LAMBDA r : r.id = e.last)
EndingAt(e, off) == Positions(e, LAMBDA r : EndOf(r) = off)

(* Elevator::ElvMerge: the positions in the queue where q may be merged at *)
(* the back or at the front.  The request of the last insertion or merge   *)
(* is a hint that is taken whatever its direction is; a request that the   *)
(* hash table finds by its end must have the direction of q.               *)
(* ElvDeadline::ElvMerge also looks for a request that begins where q      *)
(* ends, and then returns 0, which is ELEVATOR_NO_MERGE.                   *)
HintBack(e, q)  == LastRequest(e) \cap EndingAt(e, q.off)
HintFront(e, q) ==
    LastRequest(e) \cap Positions(e, LAMBDA r : r.off = EndOf(q))
HashBack(e, q)  ==
    {i \in EndingAt(e, q.off) : e.queue[i].cmd = q.cmd}

BackMerge(e, q) ==
    IF HintBack(e, q) # {} THEN HintBack(e, q)
    ELSE IF HintFront(e, q) # {} THEN {} ELSE HashBack(e, q)
FrontMerge(e, q) ==
    IF HintBack(e, q) # {} THEN {} ELSE HintFront(e, q)

(* Elevator::ll_back_merge_fn, ll_front_merge_fn                           *)
Fits(r, q) == r.count + q.count =< MaxReqSize
Fitting(e, q, at) == {i \in at : Fits(e.queue[i], q)}

AtBack(r, q)  ==
    [r EXCEPT !.count = @ + q.count, !.batch = Append(@, q)]
AtFront(r, q) ==
    [r EXCEPT !.off = q.off, !.count = @ + q.count, !.batch = <<q>> \o @]

(* AddRequest of the scheduler.                                            *)
Before(r, s) ==
    \/ r.cmd = "write" /\ s.cmd = "read"
    \/ r.cmd = s.cmd /\ r.off < s.off
Placed(sched, queue, r) ==
    LET earlier == {i \in DOMAIN queue : Before(queue[i], r)}
    IN IF sched = "noop" THEN Append(queue, r)
       ELSE InsertAt(queue, Cardinality(earlier) + 1, r)

(* elv_rb_add returns the request that has the place of r in the tree of   *)
(* its direction already; deadline_add_rq_rb then fails with assert(0).    *)
InPlaceOf(queue, r) ==
    {i \in DOMAIN queue :
       queue[i].id # r.id /\ queue[i].cmd = r.cmd /\ queue[i].off = r.off}
Alias(sched, queue, r) == sched = "deadline" /\ InPlaceOf(queue, r) # {}

(* ElvFormerRequest, ElvLatterRequest: the neighbours of a request.        *)
FormerRequest(queue, i) == {i - 1} \cap DOMAIN queue
LatterRequest(queue, i) == {i + 1} \cap DOMAIN queue

(* deadline_remove_request                                                 *)
RemoveRequest(queue, i) == RemoveAt(queue, i)

(* SpliceIoreq and the rest of what becomes of r when s goes into it.      *)
Spliced(r, s) == [r EXCEPT !.count = @ + s.count, !.batch = @ \o s.batch]

(* ElvMergeRequests: the request at j is taken out, as the one at i has it.*)
MergeRequests(queue, i, j) ==
    RemoveRequest([queue EXCEPT ![i] = Spliced(@, queue[j])], j)

(* Wrong: the hint goes on naming the request that is deleted.             *)
JoinedStale(e, i, j) ==
    [e EXCEPT !.count[e.queue[j].cmd] = @ - 1,
              !.queue = MergeRequests(@, i, j)]

(* Elevator::AttemptMerge for the requests at i and j: the second one      *)
(* becomes part of the first.                                              *)
Touching(r, s) ==
    EndOf(r) = s.off /\ r.cmd = s.cmd /\ r.count + s.count =< MaxReqSize
Joined(e, i, j) ==
    [e EXCEPT !.count[e.queue[j].cmd] = @ - 1,
              !.queue = MergeRequests(@, i, j),
              !.last  = e.queue[i].id]

(* AttemptBackMerge and AttemptFrontMerge: the neighbour that will join.   *)
BackNeighbour(queue, i) ==
    {j \in LatterRequest(queue, i) : Touching(queue[i], queue[j])}
FrontNeighbour(queue, i) ==
    {j \in FormerRequest(queue, i) : Touching(queue[j], queue[i])}

(* Elevator::Enqueue for an ioreq that goes into the request at i: the     *)
(* elevators it may lead to.  If there is no neighbour to join,            *)
(* ElvMergedRequest makes the request the hint and, if it begins earlier   *)
(* than before, sorts it again.                                            *)
MergeBack(e, i, q) ==
    LET grown == [e EXCEPT !.queue[i] = AtBack(@, q)]
        next  == BackNeighbour(grown.queue, i)
    IN IF next # {} THEN {Joined(grown, i, j) : j \in next}
       ELSE {[grown EXCEPT !.last = e.queue[i].id]}
MergeFront(sched, e, i, q) ==
    LET r     == AtFront(e.queue[i], q)
        grown == [e EXCEPT !.queue[i] = r]
        prev  == FrontNeighbour(grown.queue, i)
    IN IF prev # {} THEN {Joined(grown, j, i) : j \in prev}
       ELSE {[grown EXCEPT
                !.last  = r.id,
                !.queue = IF sched = "noop" THEN @
                          ELSE Placed(sched, RemoveRequest(@, i), r)]}

(* Elevator::Enqueue for an ioreq that gets a request of its own; the hint *)
(* is dropped if the request it names was too large to take q.             *)
AddNew(sched, e, q) ==
    LET r       == NewRequest(q)
        refused == \E i \in BackMerge(e, q) \cup FrontMerge(e, q) :
                      e.queue[i].id = e.last
    IN [e EXCEPT !.count[q.cmd] = @ + 1,
                 !.queue = Placed(sched, @, r),
                 !.last  = IF refused \/ @ = None THEN r.id ELSE @]

Mergeable(e, q) == Fitting(e, q, BackMerge(e, q) \cup FrontMerge(e, q)) # {}

(* Elevator::Enqueue, without the plugging of the device: the states it    *)
(* may leave behind.                                                       *)
Enqueued(sched, e, q) ==
    IF ~Mergeable(e, q) THEN {AddNew(sched, e, q)}
    ELSE UNION ({MergeBack(e, i, q) : i \in Fitting(e, q, BackMerge(e, q))}
                  \cup {MergeFront(sched, e, i, q) :
                          i \in Fitting(e, q, FrontMerge(e, q))})

(* The assertion of the tree in Enqueue.                                   *)
EnqueueAborts(sched, e, q) ==
    IF ~Mergeable(e, q) THEN Alias(sched, e.queue, NewRequest(q))
    ELSE \E i \in Fitting(e, q, FrontMerge(e, q)) :
           LET r == AtFront(e.queue[i], q)
           IN /\ FrontNeighbour([e.queue EXCEPT ![i] = r], i) = {}
              /\ Alias(sched, e.queue, r)

(* The first request goes to the dispatch queue: elv_dispatch_add_tail     *)
(* drops the hint if it names that request, and ElvDispatchSort whatever   *)
(* it names (it assigns where it should compare).                          *)
DispatchAddTail(e) ==
    [e EXCEPT !.last = IF @ = Head(e.queue).id THEN None ELSE @]
DispatchSort(e) == [e EXCEPT !.last = None]

(* Dispatch of ElvNoop; deadline_move_request, where that of ElvDeadline   *)
(* ends.                                                                   *)
NoopDispatch(e) == [DispatchSort(e) EXCEPT !.queue = RemoveRequest(@, 1)]
MoveRequest(e)  == [DispatchAddTail(e) EXCEPT !.queue = RemoveRequest(@, 1)]

(* Elevator::Dequeue of the request that Dispatch takes first.             *)
Dequeue(sched, e) ==
    [(IF sched = "noop" THEN NoopDispatch(e) ELSE MoveRequest(e)) EXCEPT
       !.inflight = @ + 1]

(* Disk::Request: Elevator::Dequeue until there is nothing left.           *)
Drained(sched, e) ==
    LET left[n \in 0..Len(e.queue)] ==
          IF n = 0 THEN e ELSE Dequeue(sched, left[n - 1])
    IN left[Len(e.queue)]

(* Elevator::PutRequest, when the disk has done r.                         *)
Put(e, r) ==
    [e EXCEPT !.count[r.cmd] = @ - 1, !.inflight = @ - 1]
=============================================================================
