------------------------------ MODULE ClientIO ------------------------------
(***************************************************************************)
(* The path of an I/O request: the users of the clients (client.cpp), the  *)
(* striping over object servers (lov.cpp, osc.cpp), the exchange of        *)
(* messages between the threads at both ends of an RPC (client.cpp,        *)
(* server.cpp, ost.cpp, mdc.cpp, mdt.cpp) and the submission to the disk   *)
(* (osd.cpp, filesystem.cpp).                                              *)
(*                                                                         *)
(* Thread pools appear as TaskService promises, whatever the scheduler:    *)
(* any queued task may be next while a thread is free.  The network is     *)
(* what Transport promises; the disk completes requests in any order.      *)
(* Offsets count stripes.  Statistics, IOPS mode, pings and the lifting of *)
(* congestion are left out.                                                *)
(***************************************************************************)
EXTENDS Naturals, FiniteSets, FiniteSetsExt

CONSTANTS Configs,     \* parameter sets that a simulation may run with
          OscThreads,  \* params.cluster.MaxRpcsInflight
          OstThreads,  \* params.cluster.OstThreadCount, MdtThreadCount
          MaxParts     \* bound on the disk requests of one chunk

(* A parameter set: number of clients that write (wtnr) and that read      *)
(* (rdnr), of object servers (osts) and of stripes of a file, the size of  *)
(* a file or of the shared file, the size of a transfer (0 for buffered    *)
(* I/O), and the flags of params.io and params.cluster.                    *)
ParamsType ==
  [wtnr : Nat \ {0}, rdnr : Nat \ {0}, osts : Nat \ {0},
   stripes : Nat \ {0}, size : Nat \ {0}, xfer : Nat, share : BOOLEAN,
   read : BOOLEAN, wait : BOOLEAN, interval : BOOLEAN, mdt : BOOLEAN]

(* cluster.cpp:111, lov.cpp:109, client.cpp:308; a client with nothing to  *)
(* do is not meant (client.cpp:320, 460).                                  *)
ASSUME ConfigsAssumption ==
  \A p \in Configs :
    /\ p \in ParamsType /\ p.stripes <= p.osts
    /\ p.share => p.size >= Max({p.wtnr, p.rdnr})
    /\ ~p.share => p.wtnr = p.rdnr
    /\ p.share /\ p.read /\ p.rdnr > p.wtnr => p.wait
ASSUME ThreadsAssumption == {OscThreads, OstThreads, MaxParts} \subseteq Nat \ {0}

VARIABLES
  params,   \* the parameter set of this simulation
  ustate,   \* Client::state
  urun,     \* the event of a user is in the run queue
  rw,       \* rw.off and rw.count, what the user has still to transfer
  ref,      \* rw.io.ref, chunks that the user waits for
  rwQ,      \* users that wait for all writes
  finished, \* Client::finished
  cl,       \* state of the client's thread for an RPC
  clrun,    \* the client's thread is in the run queue
  srv,      \* state of the server's thread for an RPC
  srvrun,   \* the server's thread is in the run queue
  msg,      \* where the message of an RPC is
  phase,    \* Message::phase
  nt,       \* Message::nt
  left,     \* IO::left, parts of a chunk not submitted to the disk
  ioref,    \* IO::ref of a chunk, parts at the disk
  extents,  \* what the file systems of the servers can map
  aborted   \* an assertion has failed, or the program has exited

userVars == <<ustate, urun, rw, ref, rwQ, finished>>
clientVars == <<cl, clrun>>
serverVars == <<srv, srvrun, left, ioref, extents>>
msgVars == <<msg, phase, nt>>
vars == <<params, userVars, clientVars, serverVars, msgVars, aborted>>

(* cluster.cpp:109.  In a shared file a client begins at its number times   *)
(* its share, which may lie behind the end of the file: one that is not     *)
(* among the writers, or not among the readers (client.cpp:320, 460).       *)
Clients == Max({params.wtnr, params.rdnr})
Users == 0..(Clients - 1)
FileEnd == params.size * (IF params.share THEN Clients ELSE 1)
Rpcs == [user : Users, cmd : {"write", "read"}, off : 0..(FileEnd - 1)]
          \cup [user : Users, cmd : {"open"}, off : {0}]
-----------------------------------------------------------------------------
(* The file of a user begins on the server after that of the user before,  *)
(* nid % num; the metadata server has a number of its own.                 *)
ServerOf(r) ==
  IF r.cmd = "open" THEN params.osts
  ELSE (r.user + 1 + (r.off % params.stripes)) % params.osts

(* Where a chunk is in the object that the server keeps for it, which is   *)
(* object 0 for a shared file.                                             *)
StripeOffset(off) == (off \div params.stripes) + (off % params.stripes)
Extent(r) == [fid |-> IF params.share THEN 0 ELSE r.user + 1,
              ost |-> ServerOf(r), off |-> StripeOffset(r.off)]

(* What user u writes and reads.  The last writer of a shared file writes  *)
(* what the division leaves; nobody reads it.                              *)
WriteRange(u) ==
  LET step == params.size \div params.wtnr
  IN  IF ~params.share THEN [off |-> 0, count |-> params.size]
      ELSE [off |-> step * u,
            count |-> step + (IF u = params.wtnr - 1
                              THEN params.size % params.wtnr ELSE 0)]
ReadRange(u) ==
  LET step == params.size \div params.rdnr
  IN  IF ~params.share THEN [off |-> 0, count |-> params.size]
      ELSE [off |-> step * u, count |-> step]

Init ==
  /\ params \in Configs
  /\ ustate = [u \in Users |-> "open"] /\ urun = [u \in Users |-> TRUE]
  /\ rw = [u \in Users |-> [off |-> 0, count |-> 0]]
  /\ ref = [u \in Users |-> 0]
  /\ rwQ = {} /\ finished = 0
  /\ cl = [r \in Rpcs |-> "none"] /\ srv = [r \in Rpcs |-> "none"]
  /\ clrun = [r \in Rpcs |-> FALSE] /\ srvrun = [r \in Rpcs |-> FALSE]
  /\ msg = [r \in Rpcs |-> "none"]
  /\ phase = [r \in Rpcs |-> "new"]
  /\ nt = [r \in Rpcs |-> FALSE]
  /\ left = [r \in Rpcs |-> 0] /\ ioref = [r \in Rpcs |-> 0]
  /\ extents = {} /\ aborted = "no"
-----------------------------------------------------------------------------
(* LOV::ReadWrite: the chunks of count stripes from off on are queued at   *)
(* the OSCs, and each is a reference to the request of the user.           *)
ReadWrite(u, cmd, off, count) ==
  /\ cl' = [r \in Rpcs |->
              IF r.user = u /\ r.cmd = cmd /\ r.off \in off..(off + count - 1)
              THEN "queued" ELSE cl[r]]
  /\ ref' = [ref EXCEPT ![u] = @ + count]

(* user_ReadCompletionState and what follows it: the file is closed. *)
ReadCompletion(u) ==
  /\ ustate' = [ustate EXCEPT ![u] = "last"]
  /\ UNCHANGED <<rw, cl, ref>>

(* user_ReadStartState, user_ReadXferState: all at once, or a transfer.    *)
ReadXfer(u, off, count) ==
  IF count = 0 THEN ReadCompletion(u)
  ELSE LET n == Min({count, params.xfer})
       IN  /\ ustate' = [ustate EXCEPT ![u] = "readXfer"]
           /\ rw' = [rw EXCEPT ![u] = [off |-> off + n, count |-> count - n]]
           /\ ReadWrite(u, "read", off, n)
ReadStart(u) ==
  LET range == ReadRange(u)
  IN  IF params.xfer # 0 THEN ReadXfer(u, range.off, range.count)
      ELSE /\ ustate' = [ustate EXCEPT ![u] = "readCompletion"]
           /\ rw' = [rw EXCEPT ![u] = range]
           /\ ReadWrite(u, "read", range.off, range.count)

(* Wrong: the last writer goes to sleep after it woke up the others. *)
WrongSleepAndWake(u, S) ==
  /\ urun' = [v \in Users |-> v # u /\ (urun[v] \/ v \in S)]
  /\ aborted' = IF \E v \in S \ {u} : urun[v] THEN "assert" ELSE aborted

(* Run: the user goes to sleep until it is signalled, and wakes up those   *)
(* in S, among them perhaps itself.                                        *)
SleepAndWake(u, S) ==
  /\ urun' = [v \in Users |-> (v # u /\ urun[v]) \/ v \in S]
  /\ aborted' = IF \E v \in S \ {u} : urun[v] THEN "assert" ELSE aborted

(* Wrong: the writers are counted before the last one is added. *)
WrongLastWriter(u, n) == u < params.wtnr /\ n + 1 >= params.wtnr

(* The writer that completes the count of finished writers, n with it. *)
LastWriter(u, n) == u < params.wtnr /\ n >= params.wtnr

(* user_WriteCompletionState: those who will read wait until the last      *)
(* writer wakes them up.                                                   *)
WriteCompletion(u) ==
  LET leaves == params.share /\ params.wtnr > params.rdnr /\ u >= params.rdnr
      waiting == IF leaves THEN rwQ ELSE rwQ \cup {u}
      n == IF u < params.wtnr THEN finished + 1 ELSE finished
      all == LastWriter(u, n)
  IN  IF ~params.read
      THEN /\ ustate' = [ustate EXCEPT ![u] = "last"]
           /\ SleepAndWake(u, {})
           /\ UNCHANGED <<rw, cl, ref, rwQ, finished>>
      ELSE IF params.wait
      THEN /\ ustate' = [ustate EXCEPT
                           ![u] = IF leaves THEN "last" ELSE "readStart"]
           /\ finished' = n
           /\ rwQ' = IF all THEN {} ELSE waiting
           /\ SleepAndWake(u, IF all THEN waiting ELSE {})
           /\ UNCHANGED <<rw, cl, ref>>
      ELSE ReadStart(u) /\ SleepAndWake(u, {}) /\ UNCHANGED <<rwQ, finished>>

(* user_WriteXferState: the next transfer, and after it an interval if one *)
(* is set; after the last one it depends on the size of a step.            *)
WriteXfer(u, off, count) ==
  IF count = 0 THEN WriteCompletion(u)
  ELSE LET n == Min({count, params.xfer})
       IN  /\ \E next \in {"writeXfer", "writeInterval", "writeCompletion"} :
                /\ next = "writeXfer" <=> ~params.interval
                /\ next = "writeCompletion" => n = count
                /\ ustate' = [ustate EXCEPT ![u] = next]
           /\ rw' = [rw EXCEPT ![u] = [off |-> off + n, count |-> count - n]]
           /\ ReadWrite(u, "write", off, n)
           /\ SleepAndWake(u, {}) /\ UNCHANGED <<rwQ, finished>>

(* user_InitRWState, user_WriteStartState: clients that only read wait.    *)
InitRW(u) ==
  LET range == WriteRange(u)
  IN  IF params.share /\ params.read /\ params.rdnr > params.wtnr
         /\ u >= params.wtnr
      THEN /\ ustate' = [ustate EXCEPT ![u] = "readStart"]
           /\ rwQ' = rwQ \cup {u}
           /\ SleepAndWake(u, {}) /\ UNCHANGED <<rw, cl, ref, finished>>
      ELSE IF params.xfer # 0 THEN WriteXfer(u, range.off, range.count)
      ELSE /\ ustate' = [ustate EXCEPT ![u] = "writeCompletion"]
           /\ rw' = [rw EXCEPT ![u] = range]
           /\ ReadWrite(u, "write", range.off, range.count)
           /\ SleepAndWake(u, {}) /\ UNCHANGED <<rwQ, finished>>

(* UserStateMachine.  To open a file at the metadata server, the MDC sends *)
(* its request at once, from a thread of its own.                          *)
UserStateMachine(u) ==
  LET open == [user |-> u, cmd |-> "open", off |-> 0]
  IN  /\ urun[u]
      /\ \/ /\ ustate[u] = "open" /\ params.mdt
            /\ ustate' = [ustate EXCEPT ![u] = "initRW"]
            /\ cl' = [cl EXCEPT ![open] = "last"]
            /\ msg' = [msg EXCEPT ![open] = "toServer"]
            /\ SleepAndWake(u, {})
            /\ UNCHANGED <<rw, ref, rwQ, finished>>
         \/ /\ \/ ustate[u] = "open" /\ ~params.mdt
               \/ ustate[u] = "initRW"
            /\ InitRW(u) /\ UNCHANGED msg
         \/ /\ ustate[u] = "writeXfer"
            /\ WriteXfer(u, rw[u].off, rw[u].count) /\ UNCHANGED msg
         \/ /\ ustate[u] = "writeInterval"
            /\ ustate' = [ustate EXCEPT ![u] = "writeXfer"]
            /\ UNCHANGED <<urun, rw, cl, ref, rwQ, finished, msg, aborted>>
         \/ /\ ustate[u] = "writeCompletion"
            /\ WriteCompletion(u) /\ UNCHANGED msg
         \/ /\ \/ ustate[u] = "readStart" /\ ReadStart(u)
               \/ ustate[u] = "readXfer"
                    /\ ReadXfer(u, rw[u].off, rw[u].count)
               \/ ustate[u] = "readCompletion" /\ ReadCompletion(u)
            /\ SleepAndWake(u, {}) /\ UNCHANGED <<rwQ, finished, msg>>
      /\ UNCHANGED <<params, clrun, serverVars, phase, nt>>
-----------------------------------------------------------------------------
Done == {"none", "queued", "done"}

(* The OSC's pool gives a queued RPC to a free thread, which is scheduled. *)
RunOsc(r) ==
  /\ cl[r] = "queued"
  /\ Cardinality({q \in Rpcs : /\ q.user = r.user /\ q.cmd # "open"
                               /\ ServerOf(q) = ServerOf(r)
                               /\ cl[q] \notin Done}) < OscThreads
  /\ cl' = [cl EXCEPT ![r] = "start"] /\ clrun' = [clrun EXCEPT ![r] = TRUE]
  /\ UNCHANGED <<params, userVars, serverVars, msgVars, aborted>>

(* The client's thread sends a message, or ends with the RPC: the thread   *)
(* goes back to the pool, and the last chunk signals the user.             *)
Handle(r, next) ==
  /\ cl' = [cl EXCEPT ![r] = next]
  /\ msg' = [msg EXCEPT ![r] = "toServer"]
  /\ UNCHANGED <<ref, urun, aborted>>
Complete(r) ==
  LET last == ref[r.user] = 1 \/ r.cmd = "open"
  IN  /\ cl' = [cl EXCEPT ![r] = "done"]
      /\ ref' = IF r.cmd = "open" THEN ref
                ELSE [ref EXCEPT ![r.user] = @ - 1]
      /\ urun' = IF last THEN [urun EXCEPT ![r.user] = TRUE] ELSE urun
      /\ aborted' = IF last /\ urun[r.user] THEN "assert" ELSE aborted
      /\ UNCHANGED msg

(* WriteStateMachine, ReadStateMachine and OpenStateMachine of the client. *)
ClientHandle(r) ==
  /\ clrun[r]
  /\ clrun' = [clrun EXCEPT ![r] = FALSE]
  /\ \/ cl[r] = "start" /\ r.cmd = "write" /\ Handle(r, "recvGet")
     \/ cl[r] = "start" /\ r.cmd = "read" /\ Handle(r, "recvPut")
     \/ cl[r] \in {"recvGet", "recvPut"} /\ Handle(r, "last")
     \/ cl[r] = "last" /\ Complete(r)
  /\ UNCHANGED <<params, ustate, rw, rwQ, finished, serverVars, phase, nt>>
-----------------------------------------------------------------------------
(* Thread::Signal asserts that the thread is not scheduled. *)
SignalServer(r) ==
  /\ srvrun' = [srvrun EXCEPT ![r] = TRUE]
  /\ aborted' = IF srvrun[r] THEN "assert" ELSE aborted

(* Server::Recv: a new RPC is queued, any other message is for the thread  *)
(* that handles it.  No message arrives before every user has started: the *)
(* latency of an interrupt exceeds the skew of the start times.            *)
ServerRecv(r) ==
  /\ msg[r] = "toServer"
  /\ \A u \in Users : ustate[u] # "open"
  /\ msg' = [msg EXCEPT ![r] = "none"]
  /\ IF phase[r] = "new"
     THEN srv' = [srv EXCEPT ![r] = "queued"] /\ UNCHANGED <<srvrun, aborted>>
     ELSE SignalServer(r) /\ UNCHANGED srv
  /\ UNCHANGED <<params, userVars, clientVars, left, ioref, extents, phase, nt>>

(* The server's pool gives a queued RPC to a free thread. *)
RunServer(r) ==
  /\ srv[r] = "queued"
  /\ Cardinality({q \in Rpcs : ServerOf(q) = ServerOf(r)
                                 /\ srv[q] \notin Done}) < OstThreads
  /\ srv' = [srv EXCEPT ![r] = "first"]
  /\ srvrun' = [srvrun EXCEPT ![r] = TRUE]
  /\ UNCHANGED <<params, userVars, clientVars, left, ioref, extents, msgVars,
                 aborted>>

(* The server's thread sends a message and waits, or is done.              *)
SendAndGo(r, next, ph) ==
  /\ srv' = [srv EXCEPT ![r] = next]
  /\ srvrun' = [srvrun EXCEPT ![r] = FALSE]
  /\ msg' = [msg EXCEPT ![r] = "toClient"]
  /\ phase' = [phase EXCEPT ![r] = ph]
  /\ UNCHANGED <<left, ioref, extents, aborted>>

(* OSD::Write and Read, FileSystem::ReadWrite: the chunk is mapped in up   *)
(* to MaxParts parts, each after some time.  A read that finds no mapping  *)
(* ends the program.                                                       *)
StartIO(r) ==
  /\ srv' = [srv EXCEPT ![r] = "submit"]
  /\ IF r.cmd = "write" THEN extents' = extents \cup {Extent(r)} /\ UNCHANGED aborted
     ELSE /\ UNCHANGED extents
          /\ aborted' = IF Extent(r) \in extents THEN aborted ELSE "exit"
  /\ \E parts \in 1..MaxParts : left' = [left EXCEPT ![r] = parts]
  /\ phase' = [phase EXCEPT ![r] = "rpc"]
  /\ UNCHANGED <<srvrun, ioref, msg>>

(* Wrong: the server's thread does not wait for the disk. *)
WrongSubmit(r) ==
  /\ ioref' = [ioref EXCEPT ![r] = @ + 1]
  /\ left' = [left EXCEPT ![r] = @ - 1]
  /\ srv' = [srv EXCEPT ![r] = IF left[r] > 1 THEN "submit"
                               ELSE IF r.cmd = "write" THEN "completion"
                               ELSE "sendPut"]
  /\ UNCHANGED <<srvrun, extents, msg, phase, aborted>>

(* fs_RWSubmitState: a part goes to the disk; after the last one the       *)
(* context of the server's thread is restored, which waits for the disk.   *)
Submit(r) ==
  /\ ioref' = [ioref EXCEPT ![r] = @ + 1]
  /\ left' = [left EXCEPT ![r] = @ - 1]
  /\ srv' = [srv EXCEPT ![r] = IF left[r] > 1 THEN "submit"
                               ELSE IF r.cmd = "write" THEN "completion"
                               ELSE "sendPut"]
  /\ srvrun' = [srvrun EXCEPT ![r] = left[r] > 1]
  /\ UNCHANGED <<extents, msg, phase, aborted>>

(* OST::Handle and MDT::Handle with their state machines. *)
ServerHandle(r) ==
  /\ srvrun[r]
  /\ \/ /\ \/ srv[r] = "first" /\ r.cmd = "write" /\ SendAndGo(r, "diskIO", "rpc")
           \/ srv[r] = "diskIO" /\ StartIO(r)
           \/ srv[r] = "first" /\ r.cmd = "read" /\ StartIO(r)
           \/ srv[r] = "submit" /\ Submit(r)
           \/ srv[r] = "completion" /\ SendAndGo(r, "done", "complete")
           \/ srv[r] = "sendPut" /\ SendAndGo(r, "recvPutAck", "rpc")
           \/ /\ srv[r] = "first" /\ r.cmd = "open"
              /\ srv' = [srv EXCEPT ![r] = "completion"]
              /\ phase' = [phase EXCEPT ![r] = "rpc"]
              /\ UNCHANGED <<srvrun, left, ioref, extents, msg, aborted>>
           \/ /\ srv[r] = "readCompletion"
              /\ srv' = [srv EXCEPT ![r] = "done"]
              /\ srvrun' = [srvrun EXCEPT ![r] = FALSE]
              /\ phase' = [phase EXCEPT ![r] = "rpc"]
              /\ UNCHANGED <<left, ioref, extents, msg, aborted>>
        /\ UNCHANGED nt
     \/ /\ srv[r] = "recvPutAck" /\ SendAndGo(r, "readCompletion", "bulk")
        /\ nt' = [nt EXCEPT ![r] = TRUE]
  /\ UNCHANGED <<params, userVars, clientVars>>

(* Wrong: parts of the chunk that are not submitted yet are forgotten. *)
WrongDiskCompletion(r) ==
  /\ ioref[r] > 0
  /\ ioref' = [ioref EXCEPT ![r] = @ - 1]
  /\ IF ioref[r] = 1 THEN SignalServer(r) ELSE UNCHANGED <<srvrun, aborted>>
  /\ UNCHANGED <<params, userVars, clientVars, srv, left, extents, msgVars>>

(* FileSystem::Completion of a part: the last one of a chunk that is       *)
(* submitted to its end signals the server's thread.                       *)
DiskCompletion(r) ==
  /\ ioref[r] > 0
  /\ ioref' = [ioref EXCEPT ![r] = @ - 1]
  /\ IF ioref[r] = 1 /\ left[r] = 0 THEN SignalServer(r)
     ELSE UNCHANGED <<srvrun, aborted>>
  /\ UNCHANGED <<params, userVars, clientVars, srv, left, extents, msgVars>>

(* The last packet of a message with nt set has reached the client: the    *)
(* server's thread is signalled (nic.cpp:160), before the interrupt.       *)
NotifySender(r) ==
  /\ msg[r] = "toClient" /\ nt[r]
  /\ msg' = [msg EXCEPT ![r] = "atClient"]
  /\ SignalServer(r)
  /\ UNCHANGED <<params, userVars, clientVars, srv, left, ioref, extents,
                 phase, nt>>

(* The client receives the message: its thread is signalled.  A thread     *)
(* that is switched to runs sooner than an interrupt.                      *)
ClientRecv(r) ==
  /\ \/ msg[r] = "toClient" /\ ~nt[r]
     \/ msg[r] = "atClient" /\ ~srvrun[r]
  /\ msg' = [msg EXCEPT ![r] = "none"]
  /\ clrun' = [clrun EXCEPT ![r] = TRUE]
  /\ aborted' = IF clrun[r] THEN "assert" ELSE aborted
  /\ UNCHANGED <<params, userVars, cl, serverVars, phase, nt>>

Next ==
  /\ aborted = "no"
  /\ \/ \E u \in Users : UserStateMachine(u)
     \/ \E r \in Rpcs :
          \/ RunOsc(r) \/ ClientHandle(r) \/ ClientRecv(r)
          \/ ServerRecv(r) \/ RunServer(r) \/ ServerHandle(r)
          \/ DiskCompletion(r) \/ NotifySender(r)

(* Each action is an event of the run queue, and there are finitely many.  *)
Fairness == WF_vars(Next)
Spec == Init /\ [][Next]_vars /\ Fairness
-----------------------------------------------------------------------------
TypeOK ==
  /\ params \in Configs
  /\ ustate \in [Users -> {"open", "initRW", "writeXfer", "writeInterval",
                           "writeCompletion", "readStart", "readXfer",
                           "readCompletion", "last"}]
  /\ urun \in [Users -> BOOLEAN]
  /\ rw \in [Users -> [off : Nat, count : Nat]]
  /\ ref \in [Users -> Nat]
  /\ rwQ \subseteq Users /\ finished \in 0..params.wtnr
  /\ cl \in [Rpcs -> Done \cup {"start", "recvGet", "recvPut", "last"}]
  /\ srv \in [Rpcs -> Done \cup {"first", "diskIO", "submit", "completion",
                                 "sendPut", "recvPutAck", "readCompletion"}]
  /\ {clrun, srvrun, nt} \subseteq [Rpcs -> BOOLEAN]
  /\ msg \in [Rpcs -> {"none", "toServer", "toClient", "atClient"}]
  /\ phase \in [Rpcs -> {"new", "rpc", "bulk", "complete"}]
  /\ {left, ioref} \subseteq [Rpcs -> 0..MaxParts]
  /\ extents \subseteq {Extent(r) : r \in Rpcs}
  /\ aborted \in {"no", "assert", "exit"}

(* The threads at both ends of an RPC and the disk hand over to each other *)
(* and never lose step: who waits will be woken, by exactly one of them;   *)
(* nobody signals a thread that is scheduled (event.cpp:238); a message is *)
(* deleted by the client only when the server is done with it              *)
(* (client.cpp:592, 646); and a user waits for as many chunks as are       *)
(* underway (client.cpp:589, 639).                                         *)
HandlersInStep ==
  /\ TypeOK
  /\ aborted # "assert"
  /\ \A r \in Rpcs :
       /\ cl[r] \in {"recvGet", "recvPut", "last"} /\ ~clrun[r] =>
            msg[r] # "none" \/ srvrun[r] \/ srv[r] = "queued" \/ ioref[r] > 0
       /\ srv[r] \notin Done /\ ~srvrun[r] =>
            msg[r] # "none" \/ clrun[r] \/ ioref[r] > 0
       /\ clrun[r] => msg[r] = "none" /\ ~srvrun[r] /\ ioref[r] = 0
       /\ cl[r] = "done" => srv[r] = "done" /\ ~srvrun[r] /\ msg[r] = "none"
  /\ \A u \in Users :
       /\ ref[u] = Cardinality({r \in Rpcs : /\ r.user = u /\ r.cmd # "open"
                                            /\ cl[r] \notin {"none", "done"}})
       /\ urun[u] => ref[u] = 0
       /\ ~urun[u] /\ ustate[u] # "last" =>
            ref[u] > 0 \/ u \in rwQ \/ ustate[u] = "initRW"

(* What a user was told to be written is mapped, and on the disk with all  *)
(* its parts; and a user that is past its writes has written all of its    *)
(* range (client.cpp:538-597, ost.cpp:125-178, filesystem.cpp:386-403).    *)
WritesDurable ==
  /\ \A r \in Rpcs : r.cmd = "write" /\ cl[r] = "done" =>
       Extent(r) \in extents /\ left[r] = 0 /\ ioref[r] = 0
  /\ \A u \in 0..(params.wtnr - 1) :
       ustate[u] \in {"readStart", "readXfer", "readCompletion", "last"} =>
         \A r \in Rpcs :
           /\ r.user = u /\ r.cmd = "write"
           /\ WriteRange(u).off <= r.off
           /\ r.off < WriteRange(u).off + WriteRange(u).count
           => cl[r] = "done"

(* Clients disagree on the server where the first stripe of a shared file  *)
(* is: its stripes begin at the server that each client's own file begins  *)
(* at (lov.cpp:124).                                                       *)
Misplaced == params.share /\ params.osts > 1 /\ params.wtnr # params.rdnr

(* Readers start when the last writer is finished, and unless the file is  *)
(* misplaced they find what they look for: no read is without a mapping    *)
(* (client.cpp:438-455, filesystem.cpp:440).                               *)
ReadsSeeWrites ==
  /\ aborted = "exit" => Misplaced \/ (params.share /\ ~params.wait)
  /\ \A r \in Rpcs : r.cmd = "read" /\ cl[r] # "none" /\ params.wait =>
       \A u \in 0..(params.wtnr - 1) :
         ref[u] = 0 \/ ustate[u] \in {"readXfer", "readCompletion"}

(* Every user comes to its end, and no one waits for ever, except that a   *)
(* client that only reads may have opened its file at the metadata server  *)
(* after the last writer woke up those who waited (client.cpp:305-312).    *)
EveryUserFinishes ==
  ~Misplaced /\ ~(params.mdt /\ params.rdnr > params.wtnr) =>
    <>(\A u \in Users : ustate[u] = "last")
=============================================================================
