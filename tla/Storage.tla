------------------------------ MODULE Storage ------------------------------
(***************************************************************************)
(* The storage of a server: threads that map their I/O to the blocks of a  *)
(* disk and submit it in parts (FileSystem::ReadWriteStateMachine), the    *)
(* elevator that collects the parts while the disk is plugged, the timer   *)
(* that unplugs it, and the thread of the disk (Disk::DiskStateMachine).   *)
(*                                                                         *)
(* Elapsed time is not modelled: a thread that runs after a delay, and the *)
(* timer of the plug, are steps that may come at any time.                 *)
(***************************************************************************)
EXTENDS Elevator, BlockAllocator

CONSTANTS IOs,      \* [file, cmd, off, count]: what the threads read or write
          Configs,  \* [sched, algo, reserve]: the parameters of a run
          UnplugThreshold \* params.disk.ElvUnplugThreshold

Overlap(a, b) ==
    /\ a.file = b.file
    /\ a.off < b.off + b.count /\ b.off < a.off + a.count
Earlier(i) == {w \in IOs : w.cmd = "write" /\ Overlap(w, i)}

(* What the clients do: no block is written twice or read twice, and what  *)
(* is read has been written (ClientIO).                                    *)
ASSUME StorageAssumption ==
    /\ \A i \in IOs : /\ i.cmd \in Directions
                      /\ i.off \in Nat /\ i.count \in Nat \ {0}
    /\ \A i, j \in IOs : i.cmd = j.cmd /\ Overlap(i, j) => i = j
    /\ \A i \in IOs : \A b \in i.off .. (i.off + i.count - 1) :
         \E w \in Earlier(i) : Within(b, w.off, w.count)
    /\ Configs \subseteq [sched : Schedulers, algo : Algorithms,
                          reserve : BOOLEAN]
    /\ UnplugThreshold \in Nat \ {0}

Files == {i.file : i \in IOs}

VARIABLES
    conf,     \* the parameters
    files,    \* file -> its extents and preallocations (FileSystem::files)
    curoff,   \* the first block not handed out (BlockDevice::curoff)
    io,       \* I/O -> the state of its thread, its progress, IO::ref, IO::left
    elv,      \* the elevator
    plugged,  \* Disk::pluged, and the timer is set
    ready,    \* Disk::Queue
    disk,     \* Disk::diskState
    curq,     \* Disk::curq
    run,      \* the disk's thread is in the run queue
    ended,    \* the parts that the disk has done (history)
    aborted   \* an assertion failed, or the program exited

vars == <<conf, files, curoff, io, elv, plugged, ready, disk, curq, run,
          ended, aborted>>
diskVars == <<elv, plugged, ready, disk, curq, run, ended>>

Init ==
    /\ conf \in Configs
    /\ files = [f \in Files |-> EmptyFile]
    /\ curoff = 0
    /\ io = [i \in IOs |-> [state |-> "new", off |-> i.off, left |-> i.count,
                            ref |-> 0, part |-> None]]
    /\ elv = EmptyElevator
    /\ plugged = FALSE /\ ready = <<>> /\ disk = "idle" /\ curq = None
    /\ run = FALSE /\ ended = {} /\ aborted = FALSE
-----------------------------------------------------------------------------
(* fs_RWAllocateBlockState: the next part of i is mapped and the thread    *)
(* runs again when the mapping has taken its time.  now is the record of i *)
(* at that point.                                                          *)
Allocate(i, now) ==
    LET results == MapResults(conf.algo, conf.reserve, files[i.file], i.cmd,
                              now.off, now.left, curoff)
    IN \/ /\ results = {}
          /\ aborted' = TRUE
          /\ io' = [io EXCEPT ![i] = now]
          /\ UNCHANGED <<files, curoff>>
       \/ \E m \in results :
            /\ files'  = [files EXCEPT ![i.file] = m.file]
            /\ curoff' = m.curoff
            /\ io'     = [io EXCEPT ![i] =
                            [now EXCEPT
                               !.state = "submit",
                               !.part  = [io |-> i, cmd |-> i.cmd,
                                          off |-> m.off, count |-> m.count]]]
            /\ aborted' = m.aborts

(* FileSystem::ReadWrite, when a thread of the server starts an I/O.       *)
Start(i) ==
    /\ io[i].state = "new"
    /\ \A w \in Earlier(i) \ {i} : io[w].state = "done"
    /\ Allocate(i, io[i])
    /\ UNCHANGED <<conf, diskVars>>

(* Wrong: the disk is woken only if its queue was empty.                   *)
RequestFirst(e) ==
    /\ elv'   = Drained(conf.sched, e)
    /\ ready' = ready \o e.queue
    /\ IF disk = "idle" /\ e.queue # <<>> /\ ready = <<>>
       THEN disk' = "work" /\ run' = TRUE
       ELSE UNCHANGED <<disk, run>>

(* Disk::Request, after RemovePlug: the requests of the elevator go to the *)
(* disk, which is woken if it is idle (SubmitRq).                          *)
Request(e) ==
    /\ elv'   = Drained(conf.sched, e)
    /\ ready' = ready \o e.queue
    /\ IF disk = "idle" /\ e.queue # <<>>
       THEN disk' = "work" /\ run' = TRUE
       ELSE UNCHANGED <<disk, run>>

(* Elevator::Enqueue with Disk::Plug and Disk::Unplug: a request of its    *)
(* own plugs an empty device, and enough of them unplug it.                *)
SubmitIoreq(q) ==
    LET new     == ~Mergeable(elv, q)
        plug    == plugged \/ (new /\ elv.queue = <<>>)
    IN \E e \in Enqueued(conf.sched, elv, q) :
         IF new /\ plug /\ GetPendingNum(e) >= UnplugThreshold
         THEN plugged' = FALSE /\ Request(e)
         ELSE plugged' = plug /\ elv' = e /\ UNCHANGED <<ready, disk, run>>

(* fs_RWSubmitState: the part goes to the disk; if there is more of the    *)
(* I/O, its next part is mapped at once.                                   *)
Submit(i) ==
    LET q   == io[i].part
        now == [io[i] EXCEPT !.ref = @ + 1, !.off = @ + q.count,
                             !.left = @ - q.count, !.part = None]
    IN /\ io[i].state = "submit"
       /\ SubmitIoreq(q)
       /\ IF EnqueueAborts(conf.sched, elv, q)
          THEN aborted' = TRUE /\ UNCHANGED <<files, curoff, io>>
          ELSE IF now.left > 0 THEN Allocate(i, now)
          ELSE /\ io' = [io EXCEPT ![i] = [now EXCEPT !.state = "submitted"]]
               /\ UNCHANGED <<files, curoff, aborted>>
       /\ UNCHANGED <<conf, curq, ended>>

(* Disk::DiskUnplugWork, the callback of the timer.                        *)
UnplugWork ==
    /\ plugged
    /\ plugged' = FALSE
    /\ Request(elv)
    /\ UNCHANGED <<conf, files, curoff, io, curq, ended, aborted>>

(* Disk::GetNextRequest                                                    *)
NextRequest(queue) == IF queue = <<>> THEN None ELSE Head(queue)

(* disk_WorkState: the next request, if there is one, takes its time.      *)
Work(queue) ==
    /\ curq' = NextRequest(queue)
    /\ IF queue = <<>>
       THEN disk' = "idle" /\ run' = FALSE /\ ready' = queue
       ELSE disk' = "finished" /\ run' = TRUE /\ ready' = Tail(queue)

(* Wrong: an I/O is done when it has no part underway, whether or not      *)
(* there is more of it to submit.                                          *)
CompletedEarly(batch) ==
    [i \in IOs |->
       LET n == Cardinality({k \in DOMAIN batch : batch[k].io = i})
       IN IF n = 0 THEN io[i]
          ELSE [io[i] EXCEPT
                  !.ref   = @ - n,
                  !.state = IF io[i].ref = n THEN "done" ELSE @]]

(* FileSystem::Completion for the parts in a request: a thread is told of  *)
(* the end of an I/O (Message::Notify) when it has no part left anywhere.  *)
Completed(batch) ==
    [i \in IOs |->
       LET n == Cardinality({k \in DOMAIN batch : batch[k].io = i})
       IN IF n = 0 THEN io[i]
          ELSE [io[i] EXCEPT
                  !.ref   = @ - n,
                  !.state = IF io[i].ref = n /\ io[i].left = 0 THEN "done"
                            ELSE @]]

(* Disk::EndRequest and Elevator::RequestCompletion.                       *)
EndRequest(r) ==
    /\ io'    = Completed(r.batch)
    /\ elv'   = Put(elv, r)
    /\ ended' = ended \cup {r.batch[k] : k \in DOMAIN r.batch}

(* Wrong: the disk takes a rest after a request, plugged or not.           *)
RunDiskRest ==
    /\ run
    /\ \/ disk = "work" /\ Work(ready) /\ UNCHANGED <<io, elv, ended>>
       \/ /\ disk = "finished"
          /\ EndRequest(curq)
          /\ disk' = "idle" /\ run' = FALSE /\ curq' = None
          /\ UNCHANGED ready
    /\ UNCHANGED <<conf, files, curoff, plugged, aborted>>

(* Disk::DiskStateMachine: a plugged disk takes a rest after a request,    *)
(* whether or not it has others (curq is left dangling and not read again, *)
(* None here).                                                             *)
RunDisk ==
    /\ run
    /\ \/ disk = "work" /\ Work(ready) /\ UNCHANGED <<io, elv, ended>>
       \/ /\ disk = "finished"
          /\ EndRequest(curq)
          /\ IF plugged
             THEN /\ disk' = "idle" /\ run' = FALSE
                  /\ curq' = None /\ UNCHANGED ready
             ELSE Work(ready)
    /\ UNCHANGED <<conf, files, curoff, plugged, aborted>>

Next ==
    /\ ~aborted
    /\ \/ \E i \in IOs : Start(i) \/ Submit(i)
       \/ UnplugWork
       \/ RunDisk

(* The event loop runs while there are events, and the clients start their *)
(* I/O.                                                                    *)
Fairness == WF_vars(Next)

Spec == Init /\ [][Next]_vars /\ Fairness
-----------------------------------------------------------------------------
Parts == [io : IOs, cmd : Directions, off : Nat, count : Nat]

(* The parts that wait in the elevator, and those that are on the disk.    *)
Requests == elv.queue \o ready \o (IF disk = "finished" THEN <<curq>> ELSE <<>>)
Waiting  == UNION {Range(Requests[k].batch) : k \in DOMAIN Requests}

TypeOK ==
    /\ conf \in Configs
    /\ \A f \in Files :
         /\ files[f].extents \subseteq [foff : Nat, doff : Nat, count : Nat]
         /\ files[f].pas \subseteq
              [lstart : Nat, pstart : Nat, len : Nat, free : Nat]
    /\ curoff \in Nat
    /\ \A i \in IOs :
         /\ io[i].state \in {"new", "submit", "submitted", "done"}
         /\ io[i].part \in Parts \cup {None}
         /\ io[i].left \in 0..i.count /\ io[i].ref \in 0..i.count
    /\ \A k \in DOMAIN Requests :
         /\ DOMAIN Requests[k] = {"id", "cmd", "off", "count", "batch"}
         /\ Requests[k].batch \in Seq(Parts) \ {<<>>}
    /\ plugged \in BOOLEAN /\ run \in BOOLEAN /\ aborted \in BOOLEAN
    /\ disk \in {"idle", "work", "finished"}
    /\ ended \subseteq Parts

(* Where a block of a file is on the disk.                                 *)
Mapped(f) ==
    UNION {x.foff .. (x.foff + x.count - 1) : x \in files[f].extents}
DiskBlock(f, b) ==
    LET x == CHOOSE x \in files[f].extents : Within(b, x.foff, x.count)
    IN x.doff + (b - x.foff)

Unmapped(f, pa) == (pa.lstart .. (pa.lstart + pa.len - 1)) \ Mapped(f)

(* The blocks of a file and their disk blocks: those that are mapped, and  *)
(* those that its PAs keep for blocks to come.                             *)
Held(f) ==
    {<<b, DiskBlock(f, b)>> : b \in Mapped(f)}
      \cup UNION {{<<b, pa.pstart + (b - pa.lstart)>> : b \in Unmapped(f, pa)} :
                    pa \in files[f].pas}

(* No disk block serves two blocks, of one file or of two, not even as a   *)
(* preallocation, and no block of a file has two disk blocks; a PA has as  *)
(* much room as it has blocks to map, which MbUseInodePA asserts           *)
(* (filesystem.cpp:149-384).                                               *)
BlocksDistinct ==
    /\ \A f, g \in Files : \A p \in Held(f), q \in Held(g) :
         /\ p[2] < curoff
         /\ p[2] = q[2] => f = g /\ p = q
         /\ f = g /\ p[1] = q[1] => p = q
    /\ \A f \in Files :
         /\ \A x, y \in files[f].extents :
              x = y \/ x.foff + x.count =< y.foff \/ y.foff + y.count =< x.foff
         /\ \A pa \in files[f].pas : pa.free >= Cardinality(Unmapped(f, pa))

(* Merges lose no part and invent none: each part is in one request, or    *)
(* done; a request is the run of its parts on the disk, and is larger than *)
(* the limit only if it is one part; the hint names a request that waits,  *)
(* and as many requests are pending as the elevator has; the references of *)
(* an I/O are its parts underway; and no assertion fails                   *)
(* (elevator.cpp:189-466).                                                 *)
PartsAccounted ==
    /\ TypeOK /\ ~aborted
    /\ \A k \in DOMAIN Requests :
         LET r == Requests[k] b == r.batch
         IN /\ r.off = Head(b).off /\ EndOf(r) = EndOf(Last(b))
            /\ \A n \in 1..(Len(b) - 1) : EndOf(b[n]) = b[n + 1].off
            /\ r.count =< MaxReqSize \/ Len(b) = 1
    /\ \A k, l \in DOMAIN Requests :
         \A n \in DOMAIN Requests[k].batch, m \in DOMAIN Requests[l].batch :
           Requests[k].batch[n] = Requests[l].batch[m] => k = l /\ n = m
    /\ Waiting \cap ended = {}
    /\ elv.last = None \/ LastRequest(elv) # {}
    /\ GetPendingNum(elv) = Len(elv.queue)
    /\ elv.inflight = Len(Requests) - Len(elv.queue)
    /\ \A i \in IOs :
         io[i].ref = Cardinality({q \in Waiting : q.io = i})

(* The disk goes idle with requests in its queue only if the device is     *)
(* plugged, and then the timer will find a request in the elevator, so     *)
(* that it wakes the disk (disk.cpp:187-213, 302-331).                     *)
DiskAwake ==
    /\ plugged <=> elv.queue # <<>>
    /\ run <=> disk # "idle"
    /\ ready # <<>> /\ disk = "idle" => plugged

(* A thread is told of the end of its I/O when, and only when, every block *)
(* of it has been read from or written to the disk, at the place where the *)
(* file system finds it (filesystem.cpp:386-403, 455-470).                 *)
DoneMeansTransferred ==
    \A i \in IOs :
      io[i].state = "done" <=>
        \A b \in i.off .. (i.off + i.count - 1) :
          /\ b \in Mapped(i.file)
          /\ \E q \in ended : /\ q.io = i
                              /\ Within(DiskBlock(i.file, b), q.off, q.count)

(* Every I/O comes to its end, although the disk rests and parts are done  *)
(* before the next ones are submitted (disk.cpp:321, filesystem.cpp:390).  *)
EveryIoFinishes ==
    <>(\A i \in IOs : io[i].state = "done")
=============================================================================
