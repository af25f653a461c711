# Lustre simulator: TLA+ models, model checking and proofs

The program under `src/` is a discrete-event simulator of the Lustre parallel
file system, written in C++ to study request schedulers (NRS), client-side
congestion control and adaptive RPC timeouts. It runs on one operating system
thread. Everything that looks concurrent in it, clients, servers, thread pools,
network interfaces, timers and disks, is an event in one ordered queue, and
every handler runs to its end before the next event is taken. The hazards of
the code are therefore the interleavings of *handlers*: what may arrive between
the wakeup of a thread and the run of it, which completion comes before which
arrival, what a timer finds when it fires. The modules here model handlers as
actions and let TLC take them in every order that the event queue can produce.

There are no tests in the repository; the documents in `src/doc` describe the
intended behaviour of the schedulers, the timeouts and the I/O path.

## 1. Inventory

Paths are relative to `src/lustre`.

| Component | State it keeps | Operations |
|---|---|---|
| Event kernel: `event`, `timer`, `nrsrbtree`, `rbtree` | clock, the ordered run queue, per event `run`, `runTime`, completion context | `RunAfter`, `RunAt`, `Signal`, `Schedule`, `ModTimer`, `Push`/`Pop`, `WakeupAll` |
| Thread pool: `processor` | `poolState`, `idleQ`, `idle`, `rnum`, `num`, the scheduler's queue | `AddNewTask`, `PoolStateMachine`, `TaskCompletion`, `Wakeup`, `AdjustThreadPool` |
| Congestion controller: `congestcontroller`, `osc` | `csp` (in flight, depth, credits, flag), the resized pool | `RunOneTask`, `TaskCompletion`, `CheckIoCongestion`, server side `CalcGrantRCC` |
| FIFO scheduler: `nrsfifo`, `scheduler` | list `Q` | `Enqueue`, `Dequeue`, `Erase` |
| TBF scheduler: `nrstbf` | class cache, heap of backlogged classes, tokens, rules, throttling flag, timer | `Enqueue`, `Dequeue`, `NrsTbfTimerCallback`, `nrs_tbf_update_rule_rate` |
| FRR scheduler: `nrsfrr` | object queues, global queue `Q`, work queue, deadline queues | `Enqueue`, `Dequeue`, `SetIoDeadline`, `GetWorkQueue` |
| EPOCH, PRIO: `nrsepoch`, `nrsprio` | epoch queues and timer; weighted queues | `Enqueue`, `Dequeue`, `SwitchQueue`, weight rounds |
| Network: `network`, `nic`, `message` | `inflight`, `capacity`, `blkQ`; per NIC send and receive state, `msgQ`, `inQ` | `Send`, `TxDone`, `NetTraversed`, `Notify`, `MessageInterrupt` |
| RPC layer: `ptlrpc` | RPC tables, service-time histories, early-reply queue, timers | `ClientSend`, `ServerSend`, `ClientRecv`, `ServerRecv`, `at_add`, `send_early_reply`, `check_timed` |
| Servers: `server`, `ost`, `mdt`, `osd` | requests in service and their phase | `Recv`, `Handle`, `Write`, `Read`, `Open` |
| Clients: `client`, `lov`, `mdc`, `osc` | user's state, open files, chunks of striped I/O | user state machine, `Open`, `Read`, `Write`, striping, completion |
| Block I/O: `disk`, `elevator`, `elvnoop`, `elvdeadline` | request queues, plug flag, sort lists, hash of positions | `SubmitIO`, merge, `Unplug`, `Dispatch`, completion |
| Storage: `filesystem`, `raid0device` | extents, free space | block allocation, RAID 0 mapping |
| Binary heap: `heap`, `nrsbinheap` | element array with back pointers | insert, remove, relocate |
| Interval tree: `intervaltree` | a red-black tree of extents with the highest end below each node | insert, erase, search, overlap test, iteration |
| Class cache: the jobid part of `nrstbf` | classes by job in a hash table, an LRU list per bucket, references of classes and rules | find or add, put, purge, rule match, stop |
| Hash table: `cfshash` | buckets, size, rehash state | add, find, delete, rehash, iteration |
| Lock manager: `ldlm` | resources with granted, converting and waiting lists | enqueue, grant, convert, cancel |
| Peer, configuration, statistics, workload | parameters, traffic generators, output | set-up only |

### How the components interact

    user -> Client -> LOV -> OSC --AddNewTask--> CongestController/Processor
                                                      | RunOneTask
      Ptlrpc::ClientSend --Message--> NIC -> Network -> NIC --interrupt-->
      Server::Recv -> Processor::AddNewTask -> Scheduler::Enqueue
                      pool event: PoolStateMachine -> Scheduler::Dequeue -> Handle
      OST::Write: GET bulk from the client, then Disk/Elevator, then the reply
      OST::Read:  Disk/Elevator, PUT bulk, acknowledgement, bulk end
      Ptlrpc::ServerSend (new credits, service time) -> Network ->
      Ptlrpc::ClientRecv -> TaskCompletion (OSC pool) -> LOV -> user

Components are bound by four mechanisms: direct calls (a pool asks its
scheduler for the next task), events that carry a handler (`Signal`,
`RunAfter`), completion callbacks pushed as a context on a message or an event
and popped when the lower layer is done, and shared objects: an RPC is one
object that the client and the server both write.

### What is hard, and what must hold

* **Thread pool.** The pool is woken by arrivals, by completions and by the
  timer of its scheduler, runs some ticks later, and meets whatever happened in
  between. *Must hold:* no wakeup is lost, no thread leaks, no task is served
  twice, the pool's one event is never scheduled twice.
* **Congestion controller.** Completions resize the pool that is working.
  *Must hold:* all of the above, and no RPC is sent beyond the window; every
  RPC that is queued is sent.
* **TBF.** One timer wakes the pool for the first token of any class; classes
  come and go while it runs. *Must hold:* no class exceeds its rate, the timer
  is never later than the next token, every request is served; the rate of a
  dependent rule stays within its limits and its arithmetic does not wrap.
* **FRR.** An object queue is in the global queue, is the work queue or is
  empty, and three paths move it between these. *Must hold:* each backlogged
  object has exactly one place, gets a turn after one quantum of each other,
  elapsed deadlines go first and nothing starves.
* **Network.** A full network blocks senders; a receipt somewhere releases a
  sender elsewhere. *Must hold:* credits are neither lost nor invented, a
  message is raised once and whole, blocked senders are not overtaken, every
  message gets through.
* **RPC layer.** Timers, early replies and answers of one RPC race; service
  times are kept in a history of time slices. *Must hold:* the estimate is the
  maximum of its history and within its limits, the queue of early replies
  holds the RPCs in service only, a completed RPC has no timer.
* **Clients and servers.** A striped I/O finishes when the last of its chunks
  does, in any order; each side's phase must follow the message it gets.
* **Block I/O.** Requests are merged, sorted and plugged. *Must hold:* no
  block is lost or transferred twice, the device does not idle with work, no
  disk block serves two blocks of files.
* **Epochs and priorities.** A slice is timed only while requests wait, and
  arrivals, services and the timer race. *Must hold:* slices end, the preferred
  class goes first, the load that deadlines are computed from is counted right.
* **Containers.** Each is a pointer structure that callbacks change while it is
  walked. *Must hold:* the order of the tree, the heap property, no item is lost
  by a resize, no class in use is evicted.

The hazards, each at its line and with the properties that watch it, are in
`PROJECT.json`.

## 2. Modules

| Module | Models | Kind |
|---|---|---|
| `ThreadPool` | the primitives of `processor.cpp` on a pool record: wake, take a thread, return a thread, one run of the machine, the pool's assertions | operators |
| `TaskService` | what a pool promises: each task served once, at most `Limit` together, none forever waiting | abstract specification |
| `Processor` | a pool over the FIFO scheduler | component, implements `TaskService` (shown in `ThreadPools`) |
| `CongestController` | the OSC's pool, resized by credits | component |
| `ThreadPools` | the two above: a node attaches one of them (`kind`) | composition, for every value of the constants |
| `NrsTbf` | the TBF policy with its timer and the pool it feeds | component |
| `TbfRate` | the rate of a dependent TBF rule in unsigned arithmetic | component |
| `NrsFrr` | the FRR policy with dynamic deadlines and the pool it feeds | component |
| `NrsEpoch` | the EPOCH policy with its timer and the pool it feeds | component |
| `NrsPrio` | the PRIO policy in its flavour `PRIO_STRICT` and the pool it feeds | component |
| `Schedulers` | the five above, one at a time: a behaviour picks its scheduler (`algo`) | composition, for every value of the constants |
| `Transport` | what the network promises: each message delivered once, in any order | abstract specification |
| `Network` | NICs, packets, credits, blocking, interrupts | component, implements `Transport` |
| `AdaptiveTimeout` | deadlines, early replies, timers and the history of service times of write RPCs | component |
| `Elevator` | merging, the two elevators, dispatch (`elevator`, `elvnoop`, `elvdeadline`) | operators |
| `BlockAllocator` | extents, the stream and the multi-block allocator with preallocations (`filesystem`) | operators |
| `Storage` | threads that map and submit I/O in parts, the plugged disk and its thread | component over the two above |
| `EventQueue` | the event queue: `RunAfter`, `ModTimer`, cancellation, `Schedule`, over a red-black tree | component |
| `RedBlack` | `rbtree`: rotations, insertion, removal, first, next | operators |
| `IntervalTree` | extents in a red-black tree with the highest end below each | component over `RedBlack` |
| `BinHeap` | insertion, removal, relocation in the binary heap | component |
| `HashTable` | `cfs_hash`: lists by depth, references, growth and shrinking, iteration | component |
| `ClassCache` | the cache of TBF classes: LRU, references, rules | component over `HashTable` |
| `Containers` | the five above, one at a time (`which`) | composition for model checking |
| `ClientIO` | users, striping, the handlers at both ends of writes, reads and openings, and the submission to the disk | composition over the promises of pools, network and disk |
| `CommonLemmas` | the pool's primitives, queues without repetitions, division, runs defined by recursive functions, sums over sets | lemmas |
| `ThreadPools_proofs`, `Network_proofs`, `AdaptiveTimeout_proofs`, `ClientIO_proofs`, `Schedulers_proofs`, `Storage_proofs` | the theorems about the component of that name | proofs |
| `MC...` | constants that a cfg cannot write | model checking |

`Processor`, `CongestController`, `NrsTbf`, `NrsFrr`, `NrsEpoch` and `NrsPrio` all
extend `ThreadPool`, because all six use the same base class. They differ in the scheduler and in
what else wakes the pool. Definitions whose comment starts with `Wrong:` are
deliberate mistakes (a dropped wakeup, an off-by-one, a swapped end of a queue):
replacing the definition that follows by one of them makes a property fail,
which shows that the property says something.

### Correspondence with the code

* **A pool** is `[state, run, idle]`: `poolState`, whether its event is in the
  run queue, and the length of `idleQ`. `Signal()` is
  `run' = TRUE`; the event's handler (`RunPool`) requires `run` and clears it.
  The recursion of `PoolStateMachine` is one action, as it is one handler: it
  ends when the queue or `idleQ` is empty, or when the scheduler throttles.
  Threads are interchangeable. A task in `busy` holds the thread that runs it
  until its `TaskCompletion`, a later event.
* **Arrivals** (`Arrive`, `Submit`, `AddNewTask`) require that the pool has
  passed its start state. The start event runs at tick 1; users start at tick
  5000 and later. `Processor` keeps the start state so that this is visible:
  an arrival in it would be stranded (`processor.cpp:86` wakes an idle pool
  only).
* **Credits.** In `CongestController` the completion of a write carries any
  grant in `Cmin..Cmax`, the range `CalcGrantRCC` clamps to; that of a read
  carries the credits with which it was sent, since a read never reaches
  `RPC_PHASE_COMPLETE` on the server and no grant is computed for it.
* **Time** in `NrsTbf`, `NrsFrr`, `NrsEpoch` and `NrsPrio` is a tick counter. A timer's event fires
  at its time and the clock does not pass it; the pool's event and completions
  may come any number of ticks later, which is more than the code's delays
  allow and includes all of them. `NrsTbf` keeps the times at which tokens were
  counted, so its rate property is about real dispatch times.
* **The heap** of `NrsTbf` is the set of classes with a backlog, and its root
  any minimal element of the code's comparison; the comparison is not a total
  order on ties, and both outcomes are taken.
* **Expiration** in `NrsFrr` depends on the load: the number of requests that
  are queued or in service, for requests of one size.
* **A slice** in `NrsEpoch` is the current class with the start of its slice; the
  variable `calm` remembers whether the last switch found nothing waiting,
  which is when the code stops timing slices. **The load** in `NrsPrio` is the
  record of the four counters from which deadlines are computed.
* **The elevator** in `Storage` is one sequence of requests per device, in the
  order in which they will be dispatched, with the hint `last` to the request
  that was touched last; the positions in hash and sort lists are what
  `InPlaceOf`, `FormerRequest` and `LatterRequest` find in it. A request carries
  the parts of I/O merged into it (`batch`). A thread maps a part, waits, submits
  it and maps the next. The plug timer may fire at any time while the device is
  plugged, which includes its delay.
* **The containers** keep the shape of the code's structures: a tree is a record
  of functions from nodes to children, parent and colour, a hash table one of
  buckets, depths and items, so that rotations, sifting and moving items are
  those of the source. Locks of the hash table are empty in this
  single-threaded program; resizing happens within the call that starts it,
  since its work item is run at once. In `EventQueue` the callback of an event
  is a sequence of arbitrary calls that set, reset and cancel timers.
* **Packets** in `Network` are pairs of a message and a number. A sender's
  packets arrive in the order sent, for the jitter of the latency (±100) is
  below the transmission time of a full packet (4096); interrupts, whose
  jitter is 2500 in 25000, fire in any order.
* **An RPC** in `AdaptiveTimeout` is one object: `deadline` is a single variable
  that the server's early reply moves and the client reads. Time runs in ticks,
  `TimeUnit` of them to a second, since the estimates are whole seconds and the
  rounding matters. The curve fit of the server (floating point) is any value of
  `Fits`; the literal 5 seconds of `ptlrpc_at_get_servtime` is `ServSlack`, so
  that it can be scaled with the other times. A service takes any time. The
  server answers a write once, so `ServerSend` is the answer; the bulk messages
  in between change nothing here. Two assumptions say when early replies can
  work at all: the margin `AtEpMargin` is covered by the slack and by what an
  early reply asks for, and a message takes less than the margin.
* **A thread of an RPC** in `ClientIO` is a state (`cl`, `srv`, the state in its
  `ThreadLocalData`) and a flag (`clrun`, `srvrun`: it is in the run queue).
  `msg` says where the one message of the RPC is; message and request are
  objects that both ends use and the client deletes. Pools appear as
  `TaskService` promises (any queued task may be the next, a bounded number
  together), so that what holds here holds under every scheduler; the network
  as `Transport` promises (messages of different RPCs overtake each other); the
  disk completes the parts of chunks in any order and after any time. Offsets
  count stripes and a chunk is one stripe; a chunk is mapped in any number of
  parts up to `MaxParts`. Two facts about time are assumed: an interrupt
  (22500 ticks or more) takes longer than users differ in their start (5000 to
  10000), so no message arrives before everyone has started; and longer than
  the switch to a thread that was signalled (at most 50), which is what keeps
  the client from deleting a message that the server's thread still has to look
  at (`nic.cpp:160`, `client.cpp:646`).

## 3. Runs

| Run | Instance | Shows |
|---|---|---|
| `ThreadPools` | a fixed pool: 5 tasks, 3 threads; a resized one: 4 writes, 2 reads, window 1 to 3, initially 2 | of both, `ThreadsAccounted` (with `csp` and the pool's assertions in the resized one). Of the fixed pool `NoLostWakeup` (with the pool's assertions), `FirstComeFirstServed`; `ImplementsTaskService` with liveness. Of the resized one `WindowRespected`, under every sequence of grants |
| `CongestController_stuck` | 4 writes | a violation, see section 5 |
| `CongestController_closed` | 2 reads, 1 write | a violation, see section 5 |
| `Schedulers` | TBF: 2 classes with a token each 2 and each 3 ticks, buckets of 2, 3 requests each, 2 threads. Dependent rate: 8-bit words, limits 4 and 12, configured rate 6. FRR: 2 objects with 3 and 2 requests, quantum 2, one thread, with and without deadlines. EPOCH: 2 classes with quotas 2 and 1, 3 requests each, 2 threads, arrivals up to tick 5. PRIO: 2 priorities with 3 requests each, 2 threads | `WakesForNextToken`, `RateRespected`, `TokenTimeFollowsRate`, `FallsBackToLower`, `ObjectsTakeTurns`, `ExpiredFirst`, `SlicesEnd`, `LoadCounted`, `PreferredFirst`; every request is served (`EveryRequestServed`) |
| `TbfRate_configured` | a dependent rate with the rates of the active test case: limits 40 and 80, configured rate 50 | a violation, see section 5 |
| `TbfRate_assert` | limits 4 and 12 in 8-bit words | a violation, see section 5 |
| `NrsFrr_starve` | 1 object, 2 requests, 2 threads | a violation, see section 5 |
| `Network` | 3 NICs, 4 messages of 1 to 3 packets, 2 places | `PlacesAccounted`, `CongestedIffBlocked`, `WholeMessages`, `BlockedGoFirst`; `ImplementsTransport` with liveness |
| `AdaptiveTimeout` | 2 RPCs, 5 seconds of 3 ticks, 2 windows of 2 seconds, estimates up to 4 seconds, messages of 1 or 2 ticks | `NoFalseTimeout`, `TimersMatchDeadlines`, `EstimateIsWindowMax`, `NeverAborts` |
| `ClientIO` | 2 users, up to 2 servers, files of 2 or 3 stripes, chunks of 1 or 2 parts, one RPC in flight per OSC and two threads per server, in eight settings: own files opened at the metadata server; own files in single transfers with intervals and no barrier; writes only; a shared file with more writers, with more readers, the latter also with a metadata server, with two servers and without reads, where a client that does not write transfers behind the end of the file | `HandlersInStep`, `WritesDurable`, `ReadsSeeWrites`, `EveryUserFinishes` |
| `Storage` | 4 writes and a read on 2 files, requests of at most 4 blocks, unplugged at 3; deadline and noop elevator, stream and multi-block allocator, with and without reservation in three settings | `PartsAccounted`, `BlocksDistinct`, `DiskAwake`, `DoneMeansTransferred`, `EveryIoFinishes` |
| `Containers` | 5 events over 3 ticks; 7 extents; a heap of 7 nodes in chunks of 2; 5 items under 3 keys in a fixed and in a resizing table; 5 classes of 4 jobs in a cache for 4 | `EventsInOrder`, `SearchFindsOverlaps`, `HeapInOrder`, `ItemsInPlace`, `ClassesHeld` |

**Why these bounds suffice for what they show.** The pool's interesting cases
are: more tasks than threads, a queue of two or more behind a fully loaded pool,
and an arrival between signal and run; five tasks on three threads give each.
The controller needs a window that shrinks while threads are busy and grows
again: three values of the window and six RPCs. In TBF, three requests over a
bucket of two make each class throttle once, rates 2 and 3 make tokens of the
classes fall on the same and on different ticks, and a class may first appear
while the other is throttled. In FRR three requests over a quantum of two make
an object lose its turn with work left. In the network, two senders into one
receiver over two places block each of them, with packets of both in its input
queue, and an answer flows the other way. With adaptive timeouts, five
seconds are enough for a first timeout of about two seconds, for an early reply
that extends it and a second one that extends it again, and for the history to
slide out of its first window; two RPCs make one answer's addition to the
history change what the other's early reply asks for, and messages of different
latency overtake each other. RPCs are interchangeable, so they are a symmetry
set; no liveness is checked there. In `ClientIO` two stripes of
a file on two servers complete in either order, two chunks of one user queue up
behind one RPC slot, two users meet at one server, a chunk of two parts has its
first part done before or after the second is submitted, and each branch of the
user's state machine is taken in one of the settings. Eight-bit words let `TbfRate`
wrap within a dozen steps; its limits lie as far apart, relative to a step, as
in the configurations of `lustre.cpp` (40 and 80). In `NrsEpoch` quotas of 2 and 1
put a switch before, at and after an arrival, with the current queue empty or
not, and leave time for a switch with nothing waiting and arrivals after it; in
`NrsPrio` three requests of different size per priority make each counter move
while the other priority arrives. In `Storage` the writes touch each other on the
disk or not depending on which thread maps first, so that back and front merges,
merges of two queued requests, a full request (4 blocks) and the threshold of
the plug (3) all occur; one write needs two preallocations, and so is in two
parts, of which the first may be done before the second is mapped. The
trees of five events and of seven extents between them take every case of the
insertion into a red-black tree and of the removal from it; the extents nest,
touch and overlap on both ends; chunks of two elements (`Shift`) make the heap use several levels of its
element table; four jobs of which three share a bucket, and two a list, overflow
one bucket of the cache while the other has room.

The two compositions `Schedulers` and `Containers` choose one of their
components in the initial state and leave the variables of the others at
`None`; a property is the implication that speaks of its component. They say
nothing about the components together, which share no state in the program.

**Deadlock checking** is off in all configurations: when all of the bounded
number of requests are served, the simulation is over, and so is the program
(`Event::Schedule` returns when the queue is empty). That nothing stops *early*
is what the liveness properties and the refinements show.

**Fairness.** Weak fairness is given to actions that are an event in the run
queue (the pool's event, a timer, a transmission, an interrupt): the queue is
ordered by time, time goes on, and each event runs after finitely many others.
It is given to `TaskCompletion` of each task, which stands for the disk and the
network answering. In `ThreadPools` both are asked of the fixed pool only: nothing
that the run shows of the resized one needs them, and `CongestController_stuck`
shows that they would not keep it from waiting. It is never given to arrivals.
`ClientIO` has no arrivals: each step is an event that is in the queue or a
completion that the disk or the network owes, and a run has finitely many, so
weak fairness of `Next` as a whole says that none is left out. The same holds of
`Storage`, whose steps are the run of a thread, of the disk or of the plug timer.
In `Schedulers` each of the pool's event, completion, timer and `Tick` is fair:
the clock moves to the next event whenever there is one. `SlowDown` is fair, for
`FallsBackToLower` only: it says that requests of the rule keep coming while the
other rule is busy. `Containers` has no liveness.

## 4. Proofs

The theorems hold for every value of the constants that the named assumptions
allow: any finite sets of nodes, messages, tasks or RPCs, any number of threads,
any rates, depths, quotas, windows and latencies. All invariants below that have
the name of a property of a run are that property.

`CommonLemmas` has what several components need. Each primitive of the pool
record keeps `ConsistentPool`, the relation between the pool's state, its
pending event and its idle threads. `Append`, `SubSeq` and removal are described
by what they do to the elements of a queue without repetitions. A run of the
pool's event is a recursive function from the number of steps to the states it
may be in; `IterationStays` carries an invariant along it. What the folds of the
community modules add up over a set is the same in every order (`SumAdds`,
`SumAgrees`): adding one element to the set adds its summand.

**The thread pools** (`ThreadPools_proofs`). A step of `ThreadPools` is one of the
pool that `kind` names.

* `Invariance`: `IInv` is inductive. Of the fixed pool it says `FixedIInv`, the
  conjunction of its types, of `ThreadsAccounted`, `NoDoubleService` and
  `FixedConsistent`. The invariants one cares about are not inductive alone: that
  no wakeup is lost needs to know that the pool's event is pending exactly in the
  states Start and Run, that full load means no idle thread, and that a pool in
  Start or Idle has an empty queue. `FixedConsistent` says this. It does not carry
  over to the resized pool: a completion may shrink the pool while its event is
  pending and leave it fully loaded with an idle thread, which is how the run
  `CongestController_stuck` gets stuck. What survives (`WindowIInv`) is weaker
  (`SoundPool`), and `WindowKept` adds what the window needs: threads beyond it
  are all in use.
* `ThreadsCorrect`, `NoWakeupIsLost`: the two invariants of the run. `ServedOnce`:
  no task is in two places. Each follows from `IInv` without temporal operators.
* `FirstCome`: the action property, from what `SubSeq` and `Append` do to the
  positions of a sequence without repetitions (lemma `PrefixOfInjective`).
* `WindowCorrect`: `WindowRespected` under every sequence of grants.
* `Refinement`: the safety part of `ImplementsTaskService`. `Arrive` maps to
  `Submit`, a run that hands out tasks to `Begin` with exactly those, a run
  that hands out none to a stutter, `TaskCompletion` to `Finish`. That `Begin`
  keeps within its limit rests on `ThreadsAccounted`.

**The network** (`Network_proofs`).

* `Invariance`: the inductive invariant follows the packets of a message from
  the sender to the receiver. `InOrder` says that on each stretch and between
  any two stretches they are in the order of their numbers, `NoneMissing` that
  exactly those are on the way that the sender has let go and the receiver has
  not taken in, `SendersConsistent` that a packet in `blkQ` is the one its NIC
  blocked on.
* `PlacesCorrect`, `CongestionCorrect`, `MessagesWhole`, `BlockedFirst`: the
  three invariants and the action property of the run. `MessagesWhole` is where
  the order is needed: the code raises a message when the packet numbered last
  arrives, whatever else has.
* `Refinement`: the safety part of `ImplementsTransport`.

**Adaptive timeouts** (`AdaptiveTimeout_proofs`). `NoTimeoutInService`
(`NoFalseTimeout`), `TimersCorrect` (`TimersMatchDeadlines`) and `AssertionsHold`
(`NeverAborts`), for any history of service times and any estimates. The
invariant says who is ahead of whom: a request arrives before its deadline comes
within the margin (`DeadlinesAhead`), the server's timer is never later than the
margin before the first deadline (`ServerTimer`), and a client's timer that is
behind its deadline has an early reply under way that arrives before it fires
(`ClientTimers`). The two assumptions named in section 2 are what makes each of
them inductive: `MarginAssumption`, by which an early reply moves the deadline
past the margin, and `NetAssumption`, by which a message takes less than that.
`EstimateCorrect` (`EstimateIsWindowMax`) has an invariant of its own, `HistInv`:
each `hist[i]` is the largest value added in the seconds of its window, and `max`
the largest of all. `AtAddRemembers` shows that `at_add` keeps it when the windows
slide by any number of places, and `EarlyRepliesRemember` carries it through a
round of early replies, each of which adds to the history.

**Client I/O** (`ClientIO_proofs`). `HandlersCorrect` (`HandlersInStep`),
`WritesCorrect` (`WritesDurable`) and `ReadsCorrect` (`ReadsSeeWrites`), for any
number of users, servers, stripes, parts and RPCs in flight, and every setting
that `ConfigsAssumption` allows: no client without work in a shared file, as many
readers as writers where each has a file of its own, and readers that never wrote
only with `WaitAllWrites`. None of the three is inductive: each speaks of the
moments one can observe, and `IInv` of those between them.

* `RpcsInStep` says where an RPC is. `Stage` is a table of the states that
  its two threads, its message, its phase and its chunk can be in together:
  not yet sent (`Fresh`), on its way to the server (`Asked`), while the bulk is
  fetched, put or acknowledged (`Bulk`), while parts are submitted and completed
  (`AtDisk`), and answered (`Answered`). Each handler takes an RPC from one row
  to another and leaves the others where they are (`RowsKept`). A wakeup of a
  thread that runs already and a second answer are not in the table, so they
  do not occur.
* `UsersInStep` ties users to their RPCs: a user waits for as many as it counted
  (`Waiting`), and which stripes were asked for, which are under way and which are
  done follow from its state and its place in the file (`WritesOf`, `ReadsOf`).
  `WriteStepOK` and `ReadStepOK` show that a chunk of stripes becomes RPCs that
  did not exist before, one for each stripe.
* `Barrier` counts who has finished writing and says that whoever reads while
  `WaitAllWrites` is set has seen all of them finish. `ReadsFind` combines it
  with the ranges of the writers, which leave no offset of a shared file out
  (`WriterOf`), and with the placement of stripes, which is the same for
  all clients unless the file is `Misplaced`: what a read asks for is mapped.

**The schedulers** (`Schedulers_proofs`). A step of `Schedulers` is one of the
scheduler that `algo` names, so that each has an invariant of its own.

* `TbfInvariance`, `TbfWakeup` (`WakesForNextToken`), `TbfRates` (`RateRespected`),
  for every depth and token time. `Paid` is the argument for the rate: since any
  dispatch, what the bucket has handed out and still holds is no more than its depth
  and the tokens of the time between. A run of the pool may dispatch several requests
  of several classes before it ends, and `TbfStates` are the states within a run.
* `RateFollowed` (`TokenTimeFollowsRate`) holds for any configured rate. A rule
  whose token time is not that of its rate was never raised (`NotYetRaised`),
  and an update either leaves it so or gives it a speedup of 1, hence a new rate
  and its token time (`UpdateInStep`); after that each change of the rate brings
  its own. The stronger `TokenTimeMatchesRate` is false of the code (section 5).
  `2^Width` is named `W` with the assumption that it is a natural number, since
  the provers have no exponentiation.
* `EpochInvariance`, `EpochSlicesEnd` (`SlicesEnd`): while requests wait the slice
  is timed, or has been (`on`); the timer is the end of the current slice.
* `PrioInvariance`, `PrioLoadCounted` (`LoadCounted`): each request waits in the
  queue of its priority and nowhere else, deadlines in a queue ascend, and the
  load is that of the requests that wait and are in service. That the deadlines
  ascend, although the code appends without sorting, rests on a static deadline
  being the arrival and a constant: all those queued are at most the present and
  that constant. The counters are sums over sets (`IO`), which is what the sum lemmas are for.
* `FrrInvariance`, `FrrTakesTurns` (`ObjectsTakeTurns`), `FrrExpiredGoesFirst`
  (`ExpiredFirst`). Without deadlines, what the object at place `i` of `Q` has
  waited for, what is left of the present turn and `i` quanta are together at
  most one quantum for each object (`FrrWaits`): a request handed out adds one
  and takes one from the turn, a new turn takes one place, and an object that
  joins finds a place because none is there twice and the one whose turn it is
  has left its own (`FrrJoinOK`). With deadlines, an object may lose its place
  (section 5), so that only the other direction is kept (`FrrTurn`); the queue
  of deadlines holds each waiting request once (`FrrDeadlines`), and within a run
  of the pool nothing is left behind with an elapsed deadline before that of a
  request handed out (`FrrExpired`).
* `PreferredGoesFirst` (`PreferredFirst`): from the invariants within a run of
  EPOCH and of PRIO.

**The storage** (`Storage_proofs`). `StorageDiskAwake` (`DiskAwake`),
`StoragePartsAccounted` (`PartsAccounted`), `StorageBlocksDistinct`
(`BlocksDistinct`) and `StorageDoneMeansTransferred` (`DoneMeansTransferred`), for
any set of I/Os that `StorageAssumption` allows, either elevator, each way to
allocate, and every request size, threshold and table of preallocation sizes
(`StorageAssumption`, `ElevatorAssumption`, `AllocatorAssumption`). Elevator and
file system depend on each other: that no part is lost in a merge and that the
elevator's tree never meets an alias rests on the parts being different places on
the disk, which is the allocator's work; and which block an I/O may map next rests on
what the disk has reported done. `IInv` (`StorageInvariance`) says what one may
count on in the other.

* `DiskInv`: each request is the run of its parts (`IsRunOf`), no two requests share
  one, the hint names a request that waits, the counters are the lengths of the
  queues, and `DiskAwake`. `EnqueuedOK`, `DrainedOK`, `PutOK` follow a part through
  insertion, merges at either end, merges of neighbours, dispatch and completion.
* `FileInv`: in each file (`SoundFile`) extents do not overlap, a block that is mapped
  or kept by a preallocation has one place and no other block has it, a
  preallocation has room for what it must still map, and all places lie below
  `curoff`; two files share none. `MapResultsOK` shows it for a read and for a write
  with each allocator, along the pieces that come from preallocations and the blocks
  that come from the end of the device (`AllocationsOK`).
* `Transfer` and `Phase`: what an I/O has submitted is covered by its parts, each
  of them underway or done and at the places that the file names; its references
  are those underway. A read begins after the writes of its blocks.
* `Written`: a block that is mapped belongs to a write that has come so far. Since no
  two writes overlap, a write finds its blocks unmapped (`MapsFresh`); hence its part
  is nobody else's on the disk (`FreshPart`), and the elevator's assertion holds
  (`NoAlias`).

**Only model-checked.** Everything with fairness (the liveness part of the two
refinements, `EveryRequestServed`, `FallsBackToLower`, `EveryUserFinishes`,
`EveryIoFinishes`), which the prover cannot reach. The containers are recursive
operators over trees, arrays and tables, for whose induction the prover has no means;
`EventsInOrder`, `SearchFindsOverlaps`, `HeapInOrder`, `ItemsInPlace` and `ClassesHeld`
stay with TLC.

## 5. Where the code disagrees with itself or its documents

Five disagreements have a run that exhibits them.

* **A pool that never wakes** (`CongestController_stuck`,
  `congestcontroller.cpp:98`). An arrival signals the idle pool. Before its
  event runs, a completion shrinks the window, deletes the last idle thread and
  marks the pool fully loaded; its own thread goes back to `idleQ`, but as the
  event is pending (`run`) it does not signal. The event then finds the pool
  fully loaded and does nothing. If no other RPC is in flight, the queued one
  is never sent.
* **A window that closes** (`CongestController_closed`,
  `congestcontroller.cpp:82`). A read, or any RPC of a server without congestion
  control, returns the credits it was sent with, at first 0, and sets the window
  to that, below `Cmin`, "min RPC concurrent credits" (`lustre.h:382`). With
  nothing else in flight the client's OSC has no thread left.
* **A token time of another rate** (`TbfRate_configured`, `nrstbf.cpp:1059`). The
  token time of a rule, "time to wait for next token" (`nrstbf.h:136`), is
  computed from the configured rate; for a rule with a dependency the rate,
  "RPC/s limit" (`nrstbf.h:134`), then becomes the lower limit, and the token
  time stays. The active test case (`lustre.cpp:267`) configures 50 with a lower
  limit of 40 (`lustre.cpp:363`, `379`), so its rule serves 50 requests per
  second under a limit of 40 until its first raise. What the code does keep is
  `TokenTimeFollowsRate`. The three other test cases with a dependency
  configure the lower limit itself.
* **An assertion of the dependent rate** (`TbfRate_assert`,
  `nrstbf.cpp:803`). After a decrease the next increase adds 1 without looking
  at the range, so that `tr_speedup` may pass `upper - lower`; from then on the
  unsigned difference is huge, the speedup doubles until it wraps, and the
  assertion `tr_speedup >= tr_last_round` fails. The sum of speedup and lower
  limit may wrap too, which takes the rate below its lower limit.
* **A starved object queue** (`NrsFrr_starve`, `nrsfrr.cpp:397`). A request
  with an elapsed deadline that empties its object queue takes the queue out of
  `Q` and leaves `IO_QUEUE_QUEUED` set. Later requests of this object are never
  given a turn; they are served only if `Dequeue` happens to be called after
  their deadline, and nothing wakes the pool then.

Others were met while reading and are reflected in the models without a run of
their own:

* `Processor::AddNewTask` is not virtual (`processor.h:100`) and the OSC calls
  it through a `Processor *` (`osc.cpp:130`), so the controller never counts a
  task into its queue depth; the depth runs below zero and the congestion flag
  is never raised (`ThreadsAccounted` of `CongestController`).
* `nrstbf.cpp:906` asserts a deadline after the present moment and is reached
  with one that equals it; `NrsTbf` sets `aborted` there.
* `nrsfrr.cpp:246` hands out a request that it leaves in its queue, in a mode
  that is never configured; `nrsfrr.cpp:271` tests the deadline of the wrong
  request when both deadline queues have one, which no client causes.
* An early reply that the answer overtakes sets the timer of a completed RPC
  again: the test `!rpc->timedout` (`ptlrpc.cpp:863`) looks at the early
  reply's own record, and the timer set is that of `rpc->orig`
  (`ptlrpc.cpp:874`), whose message the client may have released. The RPC then
  times out after it was answered. `AdaptiveTimeout` has these steps;
  `NoFalseTimeout` therefore speaks of RPCs that are not complete.
* `LASSERT(rpc->srvdl <= rpc->deadline)` (`ptlrpc.cpp:873`) looks at the early
  reply's own `srvdl`, which `RPC::Copy` leaves at 0 unless the server's
  timeouts are fixed, so it checks nothing; `aborted` leaves it out.
* The flags of the network latency are 0 (`ptlrpc.cpp:352`), for which `at_add`
  sets the estimate with the first value and never again
  (`ptlrpc.cpp:293-308`), although `ptlrpc_at_adj_net_latency` reports changes.
* A history that begins in second 0 has `at_start == 0`, which means "empty", and
  begins again with the next value (`ptlrpc.cpp:215`).
* `at_min` is compared with a moment in ticks (`ptlrpc.cpp:646`), although it is
  a length in seconds; the comparison has no effect.
* A read is never answered in `RPC_PHASE_COMPLETE` by the server
  (`ost.cpp:224`), so with early replies it stays in `epQ` for good.
* `MDC::Open` sets no import in its RPC, which `ptlrpc_at_get_servtime` asserts
  (`ptlrpc.cpp:363`), so timeouts cannot be used together with an MDT.
* With a shared file each client places the first stripe by its own number
  (`lov.cpp:124`, under a FIXME on shared access). With several servers
  and unequal numbers of writers and readers a reader asks the wrong server,
  finds no mapping, and the program exits (`filesystem.cpp:440`).
  `ReadsSeeWrites` excludes exactly these settings (`Misplaced`).
* A client that only reads goes to `rwQ` when its file is open
  (`client.cpp:305-312`). With a metadata server that may be after the last
  writer woke up those who wait, and nobody wakes it again;
  `EveryUserFinishes` excludes this setting.
* Without `WaitAllWrites` a reader of a shared file may read what is not
  written, with the same exit. With several client sets only the first gets the number of its
  writers, that of all clients (`cluster.cpp:111`); the others do not count in
  `finished` (`client.cpp:447`), and the barrier before reading never opens.
* Readers of a shared file skip what the division of its size leaves, writers
  do not (`client.cpp:320`, `460`). `LOV::StripeOffset` adds the whole
  remainder, and so leaves gaps in an object and may place two stripes of a
  shared file at the same offset (`lov.cpp:44-45`).
* `ClearIoCongestFlag` tests with `||` where `&&` is meant (`client.cpp:270`).

In the schedulers:

* The timer of the epochs is set to the end of the slice by the first arrival
  after a pause. An arrival exactly at that end sets it to the present, which
  `Event::RunAt` asserts against (`nrsepoch.cpp:49`, `event.cpp:89`); `NrsEpoch`
  sets `aborted`.
* `NrsEpoch::on` is never reset (`nrsepoch.cpp:64`). Once a slice was timed and
  one has ended with nothing waiting, no arrival sets the timer again, and the
  current class keeps its turn for good. `SlicesEnd` excepts this state (`calm`).
* `NrsPrio` fixes its flavour in the constructor and never sets `coef` and
  `delta`, so the dynamic deadline is the present. Of the flavours that are
  never selected, `QuantumPrioDequeue` loops for ever on an empty work queue
  (`nrsprio.cpp:163-167`), and `DeadlineCheckDequeue` returns a request that it leaves in its queue.

In the block I/O:

* With a hint, `Elevator::ElvMerge` merges by position alone, without the test of
  the direction (`elevator.cpp:211-220`): a read may become part of a write. In
  `Storage` both parts are still transferred.
* `ElvDeadline::ElvMerge` finds a front merge and returns "no merge"
  (`elvdeadline.cpp:139-141`); `ElvDispatchSort` assigns where it means to compare
  (`last = rq`, `elevator.cpp:284`), which forgets the hint with every request
  dispatched. Merges are missed, no request is.
* Two requests of one direction at the same position end the program with an
  assertion. Clients neither write nor read a block twice, which is an assumption
  of `Storage` (so is that they read what was written).
* `MbAllocBlock` mixes the shift of blocks with that of bytes, and a
  preallocation that is deleted when another takes over its class keeps the
  rest of its blocks: disk space is lost, none is given out twice
  (`BlocksDistinct`).
* `FileSystem::Completion` is declared to return a value and does not.

In the containers:

* `Event::RunTimeCompare` never returns 0 (`event.cpp:164`): events of one tick
  run newest first, so that signals of one handler are handled in reverse.
  `EventsInOrder` states this order.
* An iteration is to relaunch the rehash that it cancelled or that gave up on its
  account (`cfshash.h:250`, `cfshash.cpp:1416-1418`). `cfs_hash_for_each_exit` asks
  for the new size while `hs_iterating` is still set, gets 0 and launches none;
  the table keeps its size until the next call that may resize it (`Leave`).
* `NrsBinheap::Erase` does nothing and `NrsRbtree::Last` always returns NULL;
  nobody depends on either.
* The highest end that a node of the interval tree keeps may stay too high
  after an erasure; a search then looks further than it must, and finds what
  it should.
* Jobs that come back after their class was purged begin with a full bucket of
  tokens (`nrstbf.cpp:231-250`), so a job can pass its rate when the cache is small.

## 6. Not modelled

**Components.**

* *Lock manager (`ldlm`).* Its only caller is a commented-out test, and it could
  not run: the interval modes of a resource are initialised under `#if 0`
  (`ldlm.cpp:156-163`), so that granting an extent lock fails the assertion at
  `ldlm.cpp:1407`; a new lock has no resource; an extent lock without its tree
  node is refused with `-ENOMEM`; nobody reprocesses the waiting lists. A model
  of it would be one of a lock manager that the repository does not have. Its
  interval tree works on its own and is modelled (`IntervalTree`).
* *Peer test node.* Reached from a commented-out benchmark (`lustre.cpp:403-409`);
  its server reverses the channel of messages that the NIC has reversed
  already.
* *RAID 0.* Selected by a block device type that no configuration sets; a request
  of more than one stripe fails its assertion on the references.
* *Configuration, statistics, output, drivers of benchmarks.* No behaviour of their
  own.

**Within components.** Latency probes and the loopback path of the NIC are
left out of `Network`. `NrsTbf` has a class cache that is large enough to evict
none; `ClassCache` has the cache, without tokens. In `NrsFrr` the modes and
deadlines that no client produces (`FRR_DL_ONLY`, mandatory deadlines) are left
out, in `NrsPrio` the flavours that the constructor does not select. In
`AdaptiveTimeout` there is one client with one import; reads, polling, the
scheduling mode (`SCHED_ON`) and the estimation algorithms that the source does
not select are left out. In `ClientIO` IOPS mode (never configured), launch
delays, run time limits, sleeping users, several client sets, pings and runs
without a disk are left out. The congestion flag's effect on the user process
is left out, as no reachable state raises the flag. In `Storage` the times that
mapping and transfers take are left out, and in `HashTable` locks, debug output
and the rehash by a second thread. Memory management (a thread's data deleted
with its thread, an RPC freed while a late early reply refers to it) is not
represented.

## 7. Plan

1. *Done:* `ThreadPool`, `TaskService`, `Processor`, `CongestController`,
   `ThreadPools`, the
   schedulers (`NrsTbf`, `TbfRate`, `NrsFrr`, `NrsEpoch`, `NrsPrio`), `Transport`,
   `Network`, `AdaptiveTimeout`, `ClientIO`, the block I/O (`Elevator`,
   `BlockAllocator`, `Storage`), the containers (`EventQueue`, `RedBlack`,
   `IntervalTree`, `BinHeap`, `HashTable`, `ClassCache`); the theorems about
   `ThreadPools`, `Network`, `AdaptiveTimeout`, `ClientIO`,
   `Schedulers` and `Storage`.
2. Next: reads in `AdaptiveTimeout`, whose early replies go on after the
   bulk was received.
