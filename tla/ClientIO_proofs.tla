---------------------------- MODULE ClientIO_proofs ----------------------------
(***************************************************************************)
(* The theorems about the input and output of clients: the threads at both *)
(* ends of an RPC stay in step, what was written is on the disk, and        *)
(* readers find what was written, for any parameters.                       *)
(***************************************************************************)
EXTENDS ClientIO, CommonLemmas

(* Where an RPC is: the states of its two threads, c with cr and s with sr *)
(* (it is scheduled), of its message m in the phase ph with nt n, and of    *)
(* its chunk, with l parts to submit and i at the disk.                     *)
First(cmd) == IF cmd = "write" THEN "recvGet"
              ELSE IF cmd = "read" THEN "recvPut" ELSE "last"

Fresh(cmd, c, cr, s, sr, m, ph, n, l, i) ==
  /\ s = "none" /\ ~sr /\ m = "none" /\ ph = "new" /\ ~n /\ l = 0 /\ i = 0
  /\ \/ c \in {"none", "queued"} /\ ~cr
     \/ c = "start" /\ cr
  /\ cmd = "open" => c = "none"

Asked(cmd, c, cr, s, sr, m, ph, n, l, i) ==
  /\ c = First(cmd) /\ ~cr /\ ph = "new" /\ ~n /\ l = 0 /\ i = 0
  /\ \/ m = "toServer" /\ s = "none" /\ ~sr
     \/ m = "none" /\ s = "queued" /\ ~sr
     \/ m = "none" /\ s = "first" /\ sr

\* Client and server talk about the bulk before or after it is at the disk.
Talking(c, cr, sr, m) ==
  \/ c # "last" /\ ~cr /\ ~sr /\ m = "toClient"
  \/ c # "last" /\ cr /\ ~sr /\ m = "none"
  \/ c = "last" /\ ~cr /\ ~sr /\ m = "toServer"
  \/ c = "last" /\ ~cr /\ sr /\ m = "none"

Bulk(cmd, c, cr, s, sr, m, ph, n, l, i) ==
  /\ ph = "rpc" /\ ~n /\ l = 0 /\ i = 0 /\ Talking(c, cr, sr, m)
  /\ \/ cmd = "write" /\ s = "diskIO" /\ c \in {"recvGet", "last"}
     \/ cmd = "read" /\ s = "recvPutAck" /\ c \in {"recvPut", "last"}

AtDisk(cmd, c, cr, s, sr, m, ph, n, l, i) ==
  /\ ph = "rpc" /\ ~n /\ ~cr /\ m = "none"
  /\ c = IF cmd = "read" THEN "recvPut" ELSE "last"
  /\ \/ cmd # "open" /\ s = "submit" /\ sr /\ l > 0
     \/ /\ s = IF cmd = "read" THEN "sendPut" ELSE "completion"
        /\ l = 0 /\ (sr <=> i = 0) /\ (cmd = "open" => i = 0)

Answered(cmd, c, cr, s, sr, m, ph, n, l, i) ==
  /\ l = 0 /\ i = 0
  /\ \/ /\ cmd # "read" /\ ~n /\ ph = "complete" /\ s = "done" /\ ~sr /\ c = "last"
        /\ \/ ~cr /\ m = "toClient"
           \/ cr /\ m = "none"
     \/ /\ cmd = "read" /\ n /\ c = "last"
        /\ \/ ~cr /\ s = "readCompletion" /\ ~sr /\ m = "toClient" /\ ph = "bulk"
           \/ ~cr /\ s = "readCompletion" /\ sr /\ m = "atClient" /\ ph = "bulk"
           \/ ~cr /\ s = "done" /\ ~sr /\ m = "atClient" /\ ph = "rpc"
           \/ cr /\ s = "done" /\ ~sr /\ m = "none" /\ ph = "rpc"
     \/ c = "done" /\ ~cr /\ s = "done" /\ ~sr /\ m = "none"

Stage(cmd, c, cr, s, sr, m, ph, n, l, i) ==
  \/ Fresh(cmd, c, cr, s, sr, m, ph, n, l, i)
  \/ Asked(cmd, c, cr, s, sr, m, ph, n, l, i)
  \/ Bulk(cmd, c, cr, s, sr, m, ph, n, l, i)
  \/ AtDisk(cmd, c, cr, s, sr, m, ph, n, l, i)
  \/ Answered(cmd, c, cr, s, sr, m, ph, n, l, i)

StageOf(r) == Stage(r.cmd, cl[r], clrun[r], srv[r], srvrun[r], msg[r],
                    phase[r], nt[r], left[r], ioref[r])

(* Both ends of each RPC are in step, and a chunk that the server writes    *)
(* has its place.                                                           *)
RpcsInStep ==
  \A r \in Rpcs :
    /\ StageOf(r)
    /\ left[r] + ioref[r] <= MaxParts
    /\ r.cmd = "write" /\ srv[r] \in {"submit", "completion", "done"} =>
         Extent(r) \in extents

(* What user u waits for is what is under way for it.                       *)
Open(u) == [user |-> u, cmd |-> "open", off |-> 0]
Mine(u, cmd) == {r \in Rpcs : r.user = u /\ r.cmd = cmd}
InFlight(u) == {r \in Rpcs : /\ r.user = u /\ r.cmd # "open"
                             /\ cl[r] \notin {"none", "done"}}

Waiting(u) ==
  /\ IsFiniteSet(InFlight(u)) /\ ref[u] = Cardinality(InFlight(u))
  /\ urun[u] => ref[u] = 0
  /\ ~urun[u] /\ ustate[u] # "last" =>
       ref[u] > 0 \/ u \in rwQ \/ ustate[u] = "initRW"
  /\ u \in rwQ => ~urun[u] /\ ustate[u] = "readStart"
  /\ ustate[u] \in {"open", "initRW", "readStart", "last"} => ref[u] = 0
  /\ ustate[u] = "open" => cl[Open(u)] = "none"
  /\ cl[Open(u)] \notin {"none", "done"} => ustate[u] = "initRW" /\ ~urun[u]

(* How far user u is with its writes and with its reads: the chunks before  *)
(* rw.off are handed over, those from there on are not.                     *)
In(r, range) == range.off <= r.off /\ r.off < range.off + range.count
RangeLeft(u, range) ==
  /\ params.xfer # 0 /\ range.off <= rw[u].off
  /\ rw[u].off + rw[u].count = range.off + range.count
After == {"readStart", "readXfer", "readCompletion", "last"}

WritesOf(u) ==
  /\ ustate[u] \in {"open", "initRW"} => \A r \in Mine(u, "write") : cl[r] = "none"
  /\ ustate[u] \in {"writeXfer", "writeInterval"} =>
       /\ RangeLeft(u, WriteRange(u))
       /\ \A r \in Mine(u, "write") :
            /\ rw[u].off <= r.off => cl[r] = "none"
            /\ In(r, WriteRange(u)) /\ r.off < rw[u].off => cl[r] # "none"
  /\ ustate[u] = "writeCompletion" =>
       \A r \in Mine(u, "write") : In(r, WriteRange(u)) => cl[r] # "none"
  /\ ustate[u] \in After /\ u < params.wtnr =>
       \A r \in Mine(u, "write") : In(r, WriteRange(u)) => cl[r] = "done"

ReadsOf(u) ==
  /\ ustate[u] \notin {"readXfer", "readCompletion", "last"} =>
       \A r \in Mine(u, "read") : cl[r] = "none"
  /\ ustate[u] = "readXfer" =>
       /\ RangeLeft(u, ReadRange(u))
       /\ \A r \in Mine(u, "read") : rw[u].off <= r.off => cl[r] = "none"
  /\ \A r \in Mine(u, "read") : cl[r] # "none" =>
       /\ In(r, ReadRange(u))
       /\ params.share /\ params.wait => u < params.rdnr

(* Readers that wait are let go by the last writer.                         *)
Finished == {u \in 0..(params.wtnr - 1) : ustate[u] \in After}
Reading == {"readStart", "readXfer", "readCompletion"}
LetGo(u) ==
  \/ ustate[u] = "readStart" /\ u \notin rwQ
  \/ ustate[u] \in {"readXfer", "readCompletion"}
Barrier ==
  /\ finished = IF params.read /\ params.wait THEN Cardinality(Finished) ELSE 0
  /\ \A u \in Users :
       /\ ustate[u] = "readStart" => params.wait
       /\ ustate[u] \in Reading =>
           params.read /\ (params.share /\ params.wait => u < params.rdnr)
       /\ params.wait /\ LetGo(u) => finished = params.wtnr
  /\ \A r \in Rpcs : r.cmd = "read" /\ cl[r] # "none" =>
       params.read /\ (params.wait => finished = params.wtnr)

UsersInStep == \A u \in Users : Waiting(u) /\ WritesOf(u) /\ ReadsOf(u)

IInv ==
  /\ TypeOK /\ aborted # "assert"
  /\ aborted = "exit" => Misplaced \/ (params.share /\ ~params.wait)
  /\ RpcsInStep /\ UsersInStep /\ Barrier
-----------------------------------------------------------------------------
(* What the assumption says of the parameters of a simulation.             *)
LEMMA ParamsOK ==
  ASSUME params \in Configs
  PROVE  /\ params \in ParamsType
         /\ params.wtnr \in Nat \ {0} /\ params.rdnr \in Nat \ {0}
         /\ params.osts \in Nat \ {0} /\ params.stripes \in Nat \ {0}
         /\ params.size \in Nat \ {0} /\ params.xfer \in Nat
         /\ {params.share, params.read, params.wait, params.interval,
             params.mdt} \subseteq BOOLEAN
         /\ params.stripes <= params.osts
         /\ Clients \in Nat \ {0} /\ params.wtnr <= Clients /\ params.rdnr <= Clients
         /\ Clients \in {params.wtnr, params.rdnr}
         /\ params.share => params.size >= Clients
         /\ ~params.share => params.wtnr = params.rdnr
         /\ params.share /\ params.read /\ params.rdnr > params.wtnr => params.wait
         /\ Users = 0..(Clients - 1) /\ FileEnd \in Nat
<1>1. /\ params \in ParamsType /\ params.stripes <= params.osts
      /\ params.share => params.size >= Clients
      /\ ~params.share => params.wtnr = params.rdnr
      /\ params.share /\ params.read /\ params.rdnr > params.wtnr => params.wait
  BY ConfigsAssumption DEF Clients
<1>2. /\ params.wtnr \in Nat \ {0} /\ params.rdnr \in Nat \ {0}
      /\ params.osts \in Nat \ {0} /\ params.stripes \in Nat \ {0}
      /\ params.size \in Nat \ {0} /\ params.xfer \in Nat
      /\ {params.share, params.read, params.wait, params.interval,
          params.mdt} \subseteq BOOLEAN
  BY <1>1 DEF ParamsType
<1>3. /\ Clients \in Nat \ {0} /\ params.wtnr <= Clients /\ params.rdnr <= Clients
      /\ Clients \in {params.wtnr, params.rdnr}
  BY <1>2, MaxOfTwo DEF Clients
<1>4. params.size * 1 \in Nat /\ params.size * Clients \in Nat
  BY <1>2, <1>3
<1>5. Users = 0..(Clients - 1) /\ FileEnd \in Nat
  BY <1>4 DEF Users, FileEnd
<1>6. QED
  BY <1>1, <1>2, <1>3, <1>5

(* What depends on the parameters alone does not change.                   *)
LEMMA ParamsStay ==
  ASSUME UNCHANGED params
  PROVE  /\ Users' = Users /\ Rpcs' = Rpcs /\ FileEnd' = FileEnd
         /\ \A u : WriteRange(u)' = WriteRange(u) /\ ReadRange(u)' = ReadRange(u)
         /\ \A r : Extent(r)' = Extent(r)
         /\ Misplaced' = Misplaced
<1>1. Users' = Users /\ FileEnd' = FileEnd
  BY DEF Users, FileEnd, Clients
<1>2. Rpcs' = Rpcs
  BY <1>1 DEF Rpcs
<1>3. \A u : WriteRange(u)' = WriteRange(u) /\ ReadRange(u)' = ReadRange(u)
  BY DEF WriteRange, ReadRange
<1>4. \A r : ServerOf(r)' = ServerOf(r)
  BY DEF ServerOf
<1>5. \A r : Extent(r)' = Extent(r)
  BY <1>4 DEF Extent, StripeOffset
<1>6. QED
  BY <1>1, <1>2, <1>3, <1>5 DEF Misplaced

(* The RPCs of a user.                                                     *)
LEMMA RpcsOK ==
  /\ \A r \in Rpcs : /\ r.user \in Users /\ r.cmd \in {"write", "read", "open"}
                     /\ r.off \in 0..(FileEnd - 1) \/ r.off = 0
                     /\ r.cmd = "open" => r = Open(r.user)
                     /\ r.cmd # "open" => r.off \in 0..(FileEnd - 1)
                     /\ r = [user |-> r.user, cmd |-> r.cmd, off |-> r.off]
  /\ \A u \in Users : Open(u) \in Rpcs /\ Open(u).user = u /\ Open(u).cmd = "open"
  /\ \A u \in Users, cmd \in {"write", "read"}, off \in 0..(FileEnd - 1) :
       [user |-> u, cmd |-> cmd, off |-> off] \in Rpcs
BY DEF Rpcs, Open
-----------------------------------------------------------------------------
(* The handlers of an RPC change its own row only.                         *)
Row(r) ==
  /\ StageOf(r)
  /\ left[r] + ioref[r] <= MaxParts
  /\ r.cmd = "write" /\ srv[r] \in {"submit", "completion", "done"} =>
       Extent(r) \in extents

OthersStay(r) ==
  /\ \A q \in Rpcs \ {r} :
       /\ cl'[q] = cl[q] /\ clrun'[q] = clrun[q]
       /\ srv'[q] = srv[q] /\ srvrun'[q] = srvrun[q]
       /\ msg'[q] = msg[q] /\ phase'[q] = phase[q] /\ nt'[q] = nt[q]
       /\ left'[q] = left[q] /\ ioref'[q] = ioref[q]
  /\ extents \subseteq extents'

LEMMA RowsKept ==
  ASSUME RpcsInStep, UNCHANGED params, NEW r \in Rpcs, OthersStay(r), Row(r)'
  PROVE  RpcsInStep'
<1>1. Rpcs' = Rpcs /\ \A q : Extent(q)' = Extent(q)
  BY ParamsStay
<1>2. ASSUME NEW q \in Rpcs, q # r
      PROVE  Row(q)'
  <2>1. Row(q)
    BY DEF RpcsInStep, Row
  <2>2. /\ cl'[q] = cl[q] /\ clrun'[q] = clrun[q]
        /\ srv'[q] = srv[q] /\ srvrun'[q] = srvrun[q]
        /\ msg'[q] = msg[q] /\ phase'[q] = phase[q] /\ nt'[q] = nt[q]
        /\ left'[q] = left[q] /\ ioref'[q] = ioref[q]
        /\ extents \subseteq extents'
    BY <1>2 DEF OthersStay
  <2>3. StageOf(q)'
    BY <2>1, <2>2 DEF Row, StageOf
  <2>4. QED
    BY <1>1, <2>1, <2>2, <2>3 DEF Row
<1>3. \A q \in Rpcs : Row(q)'
  BY <1>2
<1>4. QED
  BY <1>1, <1>3 DEF RpcsInStep, Row

LEMMA RunOscOK ==
  ASSUME TypeOK, RpcsInStep, NEW r \in Rpcs, RunOsc(r)
  PROVE  TypeOK' /\ RpcsInStep' /\ UNCHANGED aborted
<1>1. UNCHANGED params /\ UNCHANGED aborted
  BY DEF RunOsc
<1>2. Rpcs' = Rpcs /\ Users' = Users /\ \A q : Extent(q)' = Extent(q)
  BY <1>1, ParamsStay
<1>3. TypeOK'
  BY <1>2 DEF TypeOK, RunOsc, userVars, serverVars, msgVars, Done
<1>4. OthersStay(r)
  BY DEF OthersStay, RunOsc, TypeOK, serverVars, msgVars
<1>5. Row(r)'
  <2>1. Row(r)
    BY DEF RpcsInStep, Row
  <2>2. cl[r] = "queued" /\ cl'[r] = "start" /\ clrun'[r] = TRUE
    BY DEF RunOsc, TypeOK
  <2>3. /\ srv'[r] = srv[r] /\ srvrun'[r] = srvrun[r]
        /\ msg'[r] = msg[r] /\ phase'[r] = phase[r] /\ nt'[r] = nt[r]
        /\ left'[r] = left[r] /\ ioref'[r] = ioref[r] /\ extents' = extents
    BY DEF RunOsc, serverVars, msgVars
  <2>4. StageOf(r)'
    BY <2>1, <2>2, <2>3
       DEF Row, StageOf, Stage, Fresh, Asked, Bulk, AtDisk, Answered, First,
           Talking
  <2>5. QED
    BY <1>2, <2>1, <2>3, <2>4 DEF Row
<1>6. QED
  BY <1>1, <1>3, <1>4, <1>5, RowsKept

LEMMA ServerRecvOK ==
  ASSUME TypeOK, RpcsInStep, NEW r \in Rpcs, ServerRecv(r)
  PROVE  TypeOK' /\ RpcsInStep' /\ UNCHANGED aborted
<1>1. UNCHANGED params
  BY DEF ServerRecv
<1>2. Rpcs' = Rpcs /\ Users' = Users /\ \A q : Extent(q)' = Extent(q)
  BY <1>1, ParamsStay
<1>3. Row(r)
  BY DEF RpcsInStep, Row
<1>4. UNCHANGED aborted
  BY <1>3
     DEF ServerRecv, SignalServer, TypeOK, Row, StageOf, Stage, Fresh, Asked,
         Bulk, AtDisk, Answered, First, Talking
<1>5. TypeOK'
  <2>1. srv' \in [Rpcs -> Done \cup {"first", "diskIO", "submit", "completion",
                                    "sendPut", "recvPutAck", "readCompletion"}]
    BY DEF ServerRecv, TypeOK, Done
  <2>2. srvrun' \in [Rpcs -> BOOLEAN]
    BY DEF ServerRecv, SignalServer, TypeOK
  <2>3. /\ UNCHANGED <<params, userVars, clientVars, left, ioref, extents, phase, nt>>
        /\ msg' = [msg EXCEPT ![r] = "none"]
    BY DEF ServerRecv
  <2>4. QED
    BY <1>2, <1>4, <2>1, <2>2, <2>3 DEF TypeOK, userVars, clientVars
<1>6. OthersStay(r)
  BY
     DEF OthersStay, ServerRecv, SignalServer, TypeOK, serverVars, msgVars,
         clientVars
<1>7. Row(r)'
  BY <1>2, <1>3
     DEF ServerRecv, SignalServer, TypeOK, serverVars, msgVars, clientVars, Row,
         StageOf, Stage, Fresh, Asked, Bulk, AtDisk, Answered, First, Talking
<1>8. QED
  BY <1>1, <1>4, <1>5, <1>6, <1>7, RowsKept

LEMMA RunServerOK ==
  ASSUME TypeOK, RpcsInStep, NEW r \in Rpcs, RunServer(r)
  PROVE  TypeOK' /\ RpcsInStep' /\ UNCHANGED aborted
<1>1. UNCHANGED params
  BY DEF RunServer
<1>2. Rpcs' = Rpcs /\ Users' = Users /\ \A q : Extent(q)' = Extent(q)
  BY <1>1, ParamsStay
<1>3. Row(r)
  BY DEF RpcsInStep, Row
<1>4. UNCHANGED aborted
  BY <1>3
     DEF RunServer, TypeOK, Row, StageOf, Stage, Fresh, Asked, Bulk, AtDisk,
         Answered, First, Talking
<1>5. TypeOK'
  BY <1>2, <1>3, <1>4
     DEF TypeOK, RunServer, userVars, serverVars, msgVars, clientVars, Done, Row
<1>6. OthersStay(r)
  BY DEF OthersStay, RunServer, TypeOK, serverVars, msgVars, clientVars
<1>7. Row(r)'
  BY <1>2, <1>3
     DEF RunServer, TypeOK, serverVars, msgVars, clientVars, Row, StageOf,
         Stage, Fresh, Asked, Bulk, AtDisk, Answered, First, Talking
<1>8. QED
  BY <1>1, <1>4, <1>5, <1>6, <1>7, RowsKept

LEMMA DiskCompletionOK ==
  ASSUME TypeOK, RpcsInStep, NEW r \in Rpcs, DiskCompletion(r)
  PROVE  TypeOK' /\ RpcsInStep' /\ UNCHANGED aborted
<1>1. UNCHANGED params
  BY DEF DiskCompletion
<1>2. Rpcs' = Rpcs /\ Users' = Users /\ \A q : Extent(q)' = Extent(q)
  BY <1>1, ParamsStay
<1>3. Row(r)
  BY DEF RpcsInStep, Row
<1>4. PICK l \in 0..MaxParts, i \in 0..MaxParts : l = left[r] /\ i = ioref[r]
  BY DEF TypeOK
<1>5. /\ i > 0 /\ MaxParts \in Nat /\ ioref'[r] = i - 1
      /\ ioref' = [ioref EXCEPT ![r] = i - 1]
      /\ cl' = cl /\ clrun' = clrun /\ srv' = srv /\ left' = left
      /\ msg' = msg /\ phase' = phase /\ nt' = nt /\ extents' = extents
  BY <1>4, ThreadsAssumption DEF DiskCompletion, TypeOK, clientVars, msgVars
<1>6. ~srvrun[r] \/ (srv[r] = "submit" /\ l > 0)
  BY <1>3, <1>4, <1>5
     DEF Row, StageOf, Stage, Fresh, Asked, Bulk, AtDisk, Answered
<1>7. /\ UNCHANGED aborted
      /\ srvrun' = IF i = 1 /\ l = 0 THEN [srvrun EXCEPT ![r] = TRUE] ELSE srvrun
  BY <1>4, <1>5, <1>6 DEF DiskCompletion, SignalServer
<1>8. TypeOK'
  <2>1. ioref' \in [Rpcs -> 0..MaxParts] /\ srvrun' \in [Rpcs -> BOOLEAN]
    BY <1>5, <1>7 DEF TypeOK
  <2>2. QED
    BY <1>1, <1>2, <1>5, <1>7, <2>1 DEF TypeOK, DiskCompletion, userVars
<1>9. OthersStay(r)
  BY <1>5, <1>7 DEF OthersStay, TypeOK
<1>10. Row(r)'
  <2>1. srvrun'[r] <=> srvrun[r] \/ (i = 1 /\ l = 0)
    BY <1>7 DEF TypeOK
  <2>2. StageOf(r)'
    BY <1>3, <1>4, <1>5, <2>1
       DEF Row, StageOf, Stage, Fresh, Asked, Bulk, AtDisk, Answered
  <2>3. QED
    BY <1>2, <1>3, <1>4, <1>5, <2>2 DEF Row
<1>11. QED
  BY <1>1, <1>7, <1>8, <1>9, <1>10, RowsKept

LEMMA NotifySenderOK ==
  ASSUME TypeOK, RpcsInStep, NEW r \in Rpcs, NotifySender(r)
  PROVE  TypeOK' /\ RpcsInStep' /\ UNCHANGED aborted
<1>1. UNCHANGED params
  BY DEF NotifySender
<1>2. Rpcs' = Rpcs /\ Users' = Users /\ \A q : Extent(q)' = Extent(q)
  BY <1>1, ParamsStay
<1>3. Row(r)
  BY DEF RpcsInStep, Row
<1>4. UNCHANGED aborted
  BY <1>3
     DEF NotifySender, SignalServer, TypeOK, Row, StageOf, Stage, Fresh, Asked,
         Bulk, AtDisk, Answered, First, Talking
<1>5. TypeOK'
  BY <1>2, <1>3, <1>4
     DEF TypeOK, NotifySender, SignalServer, userVars, serverVars, msgVars,
         clientVars, Done, Row
<1>6. OthersStay(r)
  BY
     DEF OthersStay, NotifySender, SignalServer, TypeOK, serverVars, msgVars,
         clientVars
<1>7. Row(r)'
  BY <1>2, <1>3
     DEF NotifySender, SignalServer, TypeOK, serverVars, msgVars, clientVars,
         Row, StageOf, Stage, Fresh, Asked, Bulk, AtDisk, Answered, First,
         Talking
<1>8. QED
  BY <1>1, <1>4, <1>5, <1>6, <1>7, RowsKept

LEMMA ClientRecvOK ==
  ASSUME TypeOK, RpcsInStep, NEW r \in Rpcs, ClientRecv(r)
  PROVE  TypeOK' /\ RpcsInStep' /\ UNCHANGED aborted
<1>1. UNCHANGED params
  BY DEF ClientRecv
<1>2. Rpcs' = Rpcs /\ Users' = Users /\ \A q : Extent(q)' = Extent(q)
  BY <1>1, ParamsStay
<1>3. Row(r)
  BY DEF RpcsInStep, Row
<1>4. UNCHANGED aborted
  BY <1>3
     DEF ClientRecv, TypeOK, Row, StageOf, Stage, Fresh, Asked, Bulk, AtDisk,
         Answered, First, Talking
<1>5. TypeOK'
  BY <1>2, <1>3, <1>4
     DEF TypeOK, ClientRecv, userVars, serverVars, msgVars, clientVars, Done,
         Row
<1>6. OthersStay(r)
  BY DEF OthersStay, ClientRecv, TypeOK, serverVars, msgVars, clientVars
<1>7. Row(r)'
  BY <1>2, <1>3
     DEF ClientRecv, TypeOK, serverVars, msgVars, clientVars, Row, StageOf,
         Stage, Fresh, Asked, Bulk, AtDisk, Answered, First, Talking
<1>8. QED
  BY <1>1, <1>4, <1>5, <1>6, <1>7, RowsKept

(* What a handler of the server does to an RPC.                            *)
LEMMA ServerHandleOK ==
  ASSUME TypeOK, RpcsInStep, NEW r \in Rpcs, ServerHandle(r)
  PROVE  /\ TypeOK' /\ RpcsInStep'
         /\ \/ UNCHANGED aborted
            \/ /\ aborted' = "exit" /\ r.cmd = "read" /\ Extent(r) \notin extents
               /\ cl[r] \notin {"none", "done"}
<1> DEFINE Kept == /\ TypeOK' /\ OthersStay(r) /\ Row(r)'
                   /\ \/ UNCHANGED aborted
                      \/ /\ aborted' = "exit" /\ r.cmd = "read"
                         /\ Extent(r) \notin extents
                         /\ cl[r] \notin {"none", "done"}
<1>1. UNCHANGED <<params, userVars, clientVars>> /\ srvrun[r]
  BY DEF ServerHandle
<1>2. Rpcs' = Rpcs /\ Users' = Users /\ \A q : Extent(q)' = Extent(q)
  BY <1>1, ParamsStay
<1>3. Row(r)
  BY DEF RpcsInStep, Row
<1>4. PICK l \in 0..MaxParts, i \in 0..MaxParts : l = left[r] /\ i = ioref[r]
  BY DEF TypeOK
<1>5. MaxParts \in Nat \ {0} /\ l + i <= MaxParts
  BY <1>3, <1>4, ThreadsAssumption DEF Row
<1>6. ASSUME srv[r] = "first", r.cmd = "write", SendAndGo(r, "diskIO", "rpc"), UNCHANGED nt
      PROVE  Kept
  <2>1. /\ srv' = [srv EXCEPT ![r] = "diskIO"] /\ srvrun' = [srvrun EXCEPT ![r] = FALSE]
        /\ msg' = [msg EXCEPT ![r] = "toClient"]
        /\ phase' = [phase EXCEPT ![r] = "rpc"]
        /\ UNCHANGED <<left, ioref, extents, aborted>>
    BY <1>6 DEF SendAndGo
  <2>2. TypeOK'
    BY <1>1, <1>2, <1>6, <2>1 DEF TypeOK, userVars, clientVars, Done
  <2>3. OthersStay(r)
    BY <1>1, <1>6, <2>1 DEF TypeOK, OthersStay, clientVars
  <2>4. StageOf(r)'
    BY <1>1, <1>3, <1>6, <2>1
       DEF TypeOK, clientVars, Row, StageOf, Stage, Fresh, Asked, Bulk, AtDisk,
           Answered, First, Talking
  <2>5. Row(r)'
    BY <1>1, <1>2, <1>3, <1>6, <2>1, <2>4 DEF TypeOK, Row
  <2>6. QED
    BY <2>1, <2>2, <2>3, <2>5
<1>7. ASSUME \/ srv[r] = "diskIO"
             \/ srv[r] = "first" /\ r.cmd = "read",
             StartIO(r), UNCHANGED nt
      PROVE  Kept
  <2>1. PICK parts \in 1..MaxParts : left' = [left EXCEPT ![r] = parts]
    BY <1>7 DEF StartIO
  <2>2. /\ srv' = [srv EXCEPT ![r] = "submit"] /\ phase' = [phase EXCEPT ![r] = "rpc"]
        /\ UNCHANGED <<srvrun, ioref, msg>>
    BY <1>7 DEF StartIO
  <2>3. /\ extents' = extents \cup (IF r.cmd = "write" THEN {Extent(r)} ELSE {})
        /\ aborted' = IF r.cmd = "write" \/ Extent(r) \in extents THEN aborted
                      ELSE "exit"
    BY <1>7 DEF StartIO
  <2>4. i = 0 /\ parts \in 0..MaxParts /\ parts > 0 /\ parts + i <= MaxParts
    BY <1>3, <1>4, <1>5, <1>7
       DEF Row, StageOf, Stage, Fresh, Asked, Bulk, AtDisk, Answered
  <2>5. TypeOK'
    <3>1. left' \in [Rpcs -> 0..MaxParts]
      BY <2>1, <2>4 DEF TypeOK
    <3>2. extents' \subseteq {Extent(q) : q \in Rpcs}
      BY <2>3 DEF TypeOK
    <3>3. extents' \subseteq {Extent(q)' : q \in Rpcs'}
      BY <1>2, <3>2
    <3>4. aborted' \in {"no", "assert", "exit"}
      BY <2>3 DEF TypeOK
    <3>5. QED
      BY <1>1, <1>2, <1>7, <2>2, <3>1, <3>3, <3>4
         DEF TypeOK, userVars, clientVars, Done
  <2>6. OthersStay(r)
    BY <1>1, <1>7, <2>1, <2>2, <2>3 DEF TypeOK, OthersStay, clientVars
  <2>7. left'[r] = parts /\ ioref'[r] = i /\ srv'[r] = "submit" /\ phase'[r] = "rpc"
    BY <1>4, <2>1, <2>2 DEF TypeOK
  <2>8. StageOf(r)'
    BY <1>1, <1>3, <1>7, <2>2, <2>4, <2>7
       DEF TypeOK, clientVars, Row, StageOf, Stage, Fresh, Asked, Bulk, AtDisk,
           Answered, First, Talking
  <2>9. Row(r)'
    BY <1>2, <2>3, <2>4, <2>7, <2>8 DEF Row
  <2>10. r.cmd = "write" \/ (r.cmd = "read" /\ cl[r] \notin {"none", "done"})
    BY <1>3, <1>7
       DEF Row, StageOf, Stage, Fresh, Asked, Bulk, AtDisk, Answered, First
  <2>11. QED
    BY <2>3, <2>5, <2>6, <2>9, <2>10
<1>8. ASSUME srv[r] = "submit", Submit(r), UNCHANGED nt
      PROVE  Kept
  <2>1. l > 0 /\ r.cmd # "open"
    BY <1>1, <1>3, <1>4, <1>8
       DEF Row, StageOf, Stage, Fresh, Asked, Bulk, AtDisk, Answered
  <2> DEFINE next == IF l > 1 THEN "submit"
                     ELSE IF r.cmd = "write" THEN "completion" ELSE "sendPut"
  <2>2. /\ ioref' = [ioref EXCEPT ![r] = i + 1] /\ left' = [left EXCEPT ![r] = l - 1]
        /\ srv' = [srv EXCEPT ![r] = next]
        /\ srvrun' = [srvrun EXCEPT ![r] = l > 1]
        /\ UNCHANGED <<extents, msg, phase, aborted>>
    BY <1>4, <1>8 DEF Submit, TypeOK
  <2>3. i + 1 \in 0..MaxParts /\ l - 1 \in 0..MaxParts /\ (l - 1) + (i + 1) <= MaxParts
    BY <1>5, <2>1
  <2>4. TypeOK'
    <3>1. ioref' \in [Rpcs -> 0..MaxParts] /\ left' \in [Rpcs -> 0..MaxParts]
      BY <2>2, <2>3 DEF TypeOK
    <3>2. srvrun' \in [Rpcs -> BOOLEAN]
      BY <2>2 DEF TypeOK
    <3>3. QED
      BY <1>1, <1>2, <1>8, <2>2, <3>1, <3>2
         DEF TypeOK, userVars, clientVars, Done
  <2>5. OthersStay(r)
    BY <1>1, <1>8, <2>2 DEF TypeOK, OthersStay, clientVars
  <2>6. left'[r] = l - 1 /\ ioref'[r] = i + 1 /\ srv'[r] = next /\ (srvrun'[r] <=> l > 1)
    BY <2>2 DEF TypeOK
  <2>7. StageOf(r)'
    <3>1. /\ phase[r] = "rpc" /\ ~nt[r] /\ ~clrun[r] /\ msg[r] = "none"
          /\ cl[r] = IF r.cmd = "read" THEN "recvPut" ELSE "last"
      BY <1>3, <1>8
         DEF Row, StageOf, Stage, Fresh, Asked, Bulk, AtDisk, Answered
    <3>2. r.cmd \in {"write", "read"}
      BY <2>1, RpcsOK
    <3>3. /\ phase'[r] = phase[r] /\ nt'[r] = nt[r] /\ clrun'[r] = clrun[r]
          /\ msg'[r] = msg[r] /\ cl'[r] = cl[r]
      BY <1>1, <1>8, <2>2 DEF clientVars
    <3>4. /\ l > 1 => srv'[r] = "submit" /\ srvrun'[r]
          /\ ~(l > 1) => /\ srv'[r] = IF r.cmd = "read" THEN "sendPut" ELSE "completion"
                        /\ ~srvrun'[r] /\ left'[r] = 0
          /\ left'[r] = l - 1 /\ ioref'[r] = i + 1
      BY <2>1, <2>6, <3>2
    <3>5. AtDisk(r.cmd, cl'[r], clrun'[r], srv'[r], srvrun'[r], msg'[r], phase'[r],
                 nt'[r], left'[r], ioref'[r])
      BY <2>1, <3>1, <3>3, <3>4 DEF AtDisk
    <3>6. QED
      BY <3>5 DEF StageOf, Stage
  <2>8. Row(r)'
    BY <1>2, <1>3, <1>8, <2>2, <2>3, <2>6, <2>7 DEF Row
  <2>9. QED
    BY <2>2, <2>4, <2>5, <2>8
<1>9. ASSUME srv[r] = "completion", SendAndGo(r, "done", "complete"), UNCHANGED nt
      PROVE  Kept
  <2>1. /\ srv' = [srv EXCEPT ![r] = "done"] /\ srvrun' = [srvrun EXCEPT ![r] = FALSE]
        /\ msg' = [msg EXCEPT ![r] = "toClient"]
        /\ phase' = [phase EXCEPT ![r] = "complete"]
        /\ UNCHANGED <<left, ioref, extents, aborted>>
    BY <1>9 DEF SendAndGo
  <2>2. TypeOK'
    BY <1>1, <1>2, <1>9, <2>1 DEF TypeOK, userVars, clientVars, Done
  <2>3. OthersStay(r)
    BY <1>1, <1>9, <2>1 DEF TypeOK, OthersStay, clientVars
  <2>4. StageOf(r)'
    BY <1>1, <1>3, <1>9, <2>1
       DEF TypeOK, clientVars, Row, StageOf, Stage, Fresh, Asked, Bulk, AtDisk,
           Answered, First, Talking
  <2>5. Row(r)'
    BY <1>1, <1>2, <1>3, <1>9, <2>1, <2>4 DEF TypeOK, Row
  <2>6. QED
    BY <2>1, <2>2, <2>3, <2>5
<1>10. ASSUME srv[r] = "sendPut", SendAndGo(r, "recvPutAck", "rpc"), UNCHANGED nt
      PROVE  Kept
  <2>1. /\ srv' = [srv EXCEPT ![r] = "recvPutAck"] /\ srvrun' = [srvrun EXCEPT ![r] = FALSE]
        /\ msg' = [msg EXCEPT ![r] = "toClient"]
        /\ phase' = [phase EXCEPT ![r] = "rpc"]
        /\ UNCHANGED <<left, ioref, extents, aborted>>
    BY <1>10 DEF SendAndGo
  <2>2. TypeOK'
    BY <1>1, <1>2, <1>10, <2>1 DEF TypeOK, userVars, clientVars, Done
  <2>3. OthersStay(r)
    BY <1>1, <1>10, <2>1 DEF TypeOK, OthersStay, clientVars
  <2>4. StageOf(r)'
    BY <1>1, <1>3, <1>10, <2>1
       DEF TypeOK, clientVars, Row, StageOf, Stage, Fresh, Asked, Bulk, AtDisk,
           Answered, First, Talking
  <2>5. Row(r)'
    BY <1>1, <1>2, <1>3, <1>10, <2>1, <2>4 DEF TypeOK, Row
  <2>6. QED
    BY <2>1, <2>2, <2>3, <2>5
<1>11. ASSUME srv[r] = "first", r.cmd = "open", srv' = [srv EXCEPT ![r] = "completion"],
              phase' = [phase EXCEPT ![r] = "rpc"],
              UNCHANGED <<srvrun, left, ioref, extents, msg, aborted, nt>>
       PROVE  Kept
  <2>1. TypeOK'
    BY <1>1, <1>2, <1>11 DEF TypeOK, userVars, clientVars, Done
  <2>2. OthersStay(r)
    BY <1>1, <1>11 DEF TypeOK, OthersStay, clientVars
  <2>3. StageOf(r)'
    BY <1>1, <1>3, <1>11
       DEF TypeOK, clientVars, Row, StageOf, Stage, Fresh, Asked, Bulk, AtDisk,
           Answered, First
  <2>4. Row(r)'
    BY <1>2, <1>3, <1>11, <2>3 DEF Row
  <2>5. QED
    BY <1>11, <2>1, <2>2, <2>4
<1>12. ASSUME srv[r] = "readCompletion", srv' = [srv EXCEPT ![r] = "done"],
              srvrun' = [srvrun EXCEPT ![r] = FALSE],
              phase' = [phase EXCEPT ![r] = "rpc"],
              UNCHANGED <<left, ioref, extents, msg, aborted, nt>>
       PROVE  Kept
  <2>1. TypeOK'
    BY <1>1, <1>2, <1>12 DEF TypeOK, userVars, clientVars, Done
  <2>2. OthersStay(r)
    BY <1>1, <1>12 DEF TypeOK, OthersStay, clientVars
  <2>3. StageOf(r)' /\ r.cmd = "read"
    BY <1>1, <1>3, <1>12
       DEF TypeOK, clientVars, Row, StageOf, Stage, Fresh, Asked, Bulk, AtDisk,
           Answered, First
  <2>4. Row(r)'
    BY <1>2, <1>3, <1>12, <2>3 DEF Row
  <2>5. QED
    BY <1>12, <2>1, <2>2, <2>4
<1>13. ASSUME srv[r] = "recvPutAck", SendAndGo(r, "readCompletion", "bulk"), nt' = [nt EXCEPT ![r] = TRUE]
      PROVE  Kept
  <2>1. /\ srv' = [srv EXCEPT ![r] = "readCompletion"] /\ srvrun' = [srvrun EXCEPT ![r] = FALSE]
        /\ msg' = [msg EXCEPT ![r] = "toClient"]
        /\ phase' = [phase EXCEPT ![r] = "bulk"]
        /\ UNCHANGED <<left, ioref, extents, aborted>>
    BY <1>13 DEF SendAndGo
  <2>2. TypeOK'
    BY <1>1, <1>2, <1>13, <2>1 DEF TypeOK, userVars, clientVars, Done
  <2>3. OthersStay(r)
    BY <1>1, <1>13, <2>1 DEF TypeOK, OthersStay, clientVars
  <2>4. StageOf(r)'
    BY <1>1, <1>3, <1>13, <2>1
       DEF TypeOK, clientVars, Row, StageOf, Stage, Fresh, Asked, Bulk, AtDisk,
           Answered, First, Talking
  <2>5. Row(r)'
    BY <1>1, <1>2, <1>3, <1>13, <2>1, <2>4 DEF TypeOK, Row
  <2>6. QED
    BY <2>1, <2>2, <2>3, <2>5
<1>14. Kept
  BY <1>6, <1>7, <1>8, <1>9, <1>10, <1>11, <1>12, <1>13 DEF ServerHandle
<1>15. QED
  BY <1>1, <1>14, RowsKept

(* The client's thread of an RPC that is not answered yet sends a message. *)
LEMMA ClientSendsOK ==
  ASSUME TypeOK, RpcsInStep, NEW r \in Rpcs, ClientHandle(r), cl[r] # "last"
  PROVE  /\ TypeOK' /\ RpcsInStep' /\ UNCHANGED <<userVars, aborted>>
         /\ cl[r] \notin {"none", "done"}
         /\ \E next \in {"recvGet", "recvPut", "last"} : cl' = [cl EXCEPT ![r] = next]
<1>1. UNCHANGED <<params, ustate, rw, rwQ, finished, serverVars, phase, nt>>
  BY DEF ClientHandle
<1>2. Rpcs' = Rpcs /\ Users' = Users /\ \A q : Extent(q)' = Extent(q)
  BY <1>1, ParamsStay
<1>3. Row(r) /\ r.cmd \in {"write", "read", "open"}
  BY RpcsOK DEF RpcsInStep, Row
<1>4. /\ clrun[r] /\ clrun' = [clrun EXCEPT ![r] = FALSE]
      /\ msg' = [msg EXCEPT ![r] = "toServer"] /\ UNCHANGED <<ref, urun, aborted>>
  BY DEF ClientHandle, Handle
<1>5. PICK next \in {"recvGet", "recvPut", "last"} :
         /\ cl' = [cl EXCEPT ![r] = next]
         /\ IF cl[r] = "start" THEN /\ r.cmd \in {"write", "read"}
                                    /\ next = IF r.cmd = "write" THEN "recvGet" ELSE "recvPut"
            ELSE cl[r] \in {"recvGet", "recvPut"} /\ next = "last"
  BY DEF ClientHandle, Handle
<1>6. TypeOK'
  BY <1>1, <1>2, <1>4, <1>5 DEF TypeOK, serverVars, Done
<1>7. OthersStay(r)
  BY <1>1, <1>4, <1>5 DEF TypeOK, OthersStay, serverVars
<1>8. StageOf(r)'
  <2>1. cl'[r] = next /\ clrun'[r] = FALSE /\ msg'[r] = "toServer"
    BY <1>4, <1>5 DEF TypeOK
  <2>2. QED
    BY <1>1, <1>3, <1>4, <1>5, <2>1
       DEF serverVars, Row, StageOf, Stage, Fresh, Asked, Bulk, AtDisk,
           Answered, First, Talking
<1>9. Row(r)'
  BY <1>1, <1>2, <1>3, <1>8 DEF Row, serverVars
<1>10. RpcsInStep'
  BY <1>1, <1>7, <1>9, RowsKept
<1>11. QED
  BY <1>1, <1>4, <1>5, <1>6, <1>10 DEF userVars

(* How far the users are does not change when RPCs neither begin nor are   *)
(* forgotten.                                                              *)
LEMMA ProgressKept ==
  ASSUME UsersInStep, Barrier, UNCHANGED <<params, ustate, rw, rwQ, finished>>,
         \A q \in Rpcs : /\ cl'[q] = "none" <=> cl[q] = "none"
                         /\ cl[q] = "done" => cl'[q] = "done"
  PROVE  (\A u \in Users : WritesOf(u)' /\ ReadsOf(u)') /\ Barrier'
<1>1. /\ Users' = Users /\ Rpcs' = Rpcs
      /\ \A u : WriteRange(u)' = WriteRange(u) /\ ReadRange(u)' = ReadRange(u)
  BY ParamsStay
<1>2. ASSUME NEW u \in Users
      PROVE  WritesOf(u)' /\ ReadsOf(u)'
  <2>1. WritesOf(u) /\ ReadsOf(u)
    BY DEF UsersInStep
  <2>2. \A cmd : Mine(u, cmd)' = Mine(u, cmd) /\ Mine(u, cmd) \subseteq Rpcs
    BY <1>1 DEF Mine
  <2>3. WritesOf(u)'
    BY <1>1, <2>1, <2>2 DEF WritesOf, RangeLeft, In, After
  <2>4. ReadsOf(u)'
    BY <1>1, <2>1, <2>2 DEF ReadsOf, RangeLeft, In
  <2>5. QED
    BY <2>3, <2>4
<1>3. Barrier'
  <2>1. Finished' = Finished
    BY DEF Finished, After
  <2>2. QED
    BY <1>1, <2>1 DEF Barrier, LetGo
<1>4. QED
  BY <1>2, <1>3

(* A user notices of its RPCs only that they begin and that they end.      *)
LEMMA UsersUnaffected ==
  ASSUME UsersInStep, Barrier, UNCHANGED <<params, userVars>>,
         \A q \in Rpcs : /\ cl'[q] = "none" <=> cl[q] = "none"
                         /\ cl'[q] = "done" <=> cl[q] = "done"
  PROVE  UsersInStep' /\ Barrier'
<1>1. /\ ustate' = ustate /\ urun' = urun /\ rw' = rw /\ ref' = ref /\ rwQ' = rwQ
      /\ finished' = finished /\ params' = params
  BY DEF userVars
<1>2. Users' = Users /\ Rpcs' = Rpcs
  BY <1>1, ParamsStay
<1>3. (\A u \in Users : WritesOf(u)' /\ ReadsOf(u)') /\ Barrier'
  BY <1>1, ProgressKept
<1>4. ASSUME NEW u \in Users
      PROVE  Waiting(u)'
  <2>1. InFlight(u)' = InFlight(u)
    BY <1>2 DEF InFlight
  <2>2. Open(u)' = Open(u) /\ Open(u) \in Rpcs
    BY RpcsOK DEF Open
  <2>3. Waiting(u)
    BY DEF UsersInStep
  <2>4. QED
    BY <1>1, <2>1, <2>2, <2>3 DEF Waiting
<1>5. QED
  BY <1>2, <1>3, <1>4 DEF UsersInStep

(* The client's thread ends with its RPC: the user has one chunk less to   *)
(* wait for, and goes on after the last one.                               *)
LEMMA CompleteOK ==
  ASSUME TypeOK, RpcsInStep, UsersInStep, Barrier, NEW r \in Rpcs,
         ClientHandle(r), cl[r] = "last"
  PROVE  /\ TypeOK' /\ RpcsInStep' /\ UsersInStep' /\ Barrier'
         /\ UNCHANGED aborted
<1>1. UNCHANGED <<params, ustate, rw, rwQ, finished, serverVars, phase, nt>>
  BY DEF ClientHandle
<1>2. /\ Rpcs' = Rpcs /\ Users' = Users /\ \A q : Extent(q)' = Extent(q)
      /\ \A u : Open(u)' = Open(u)
  BY <1>1, ParamsStay DEF Open
<1>3. Row(r) /\ r.cmd \in {"write", "read", "open"}
  BY RpcsOK DEF RpcsInStep, Row
<1>4. PICK u \in Users : u = r.user
  BY RpcsOK
<1>5. clrun[r] /\ clrun' = [clrun EXCEPT ![r] = FALSE] /\ Complete(r)
  BY DEF ClientHandle, Handle
<1>6. cl' = [cl EXCEPT ![r] = "done"] /\ msg' = msg
  BY <1>5 DEF Complete
<1>7. Waiting(u)
  BY DEF UsersInStep
<1>8. PICK n \in Nat : n = ref[u]
  BY DEF TypeOK
<1>9. /\ ~urun[u] /\ u \notin rwQ
      /\ r.cmd = "open" => ustate[u] = "initRW" /\ n = 0
      /\ r.cmd # "open" => /\ r \in InFlight(u) /\ n > 0
                           /\ cl[Open(u)] \in {"none", "done"}
                           /\ ustate[u] \notin {"open", "initRW", "readStart", "last"}
  <2>1. CASE r.cmd = "open"
    <3>1. cl[Open(u)] = "last"
      BY <1>4, <2>1, RpcsOK
    <3>2. QED
      BY <1>7, <1>8, <2>1, <3>1 DEF Waiting
  <2>2. CASE r.cmd # "open"
    <3>1. r \in InFlight(u)
      BY <1>4, <2>2 DEF InFlight
    <3>2. n # 0
      BY <1>7, <1>8, <3>1, FS_EmptySet DEF Waiting
    <3>3. QED
      BY <1>7, <1>8, <2>2, <3>1, <3>2 DEF Waiting
  <2>3. QED
    BY <2>1, <2>2
<1>10. /\ UNCHANGED aborted
       /\ ref' = IF r.cmd = "open" THEN ref ELSE [ref EXCEPT ![u] = n - 1]
       /\ urun' = IF n = 1 \/ r.cmd = "open" THEN [urun EXCEPT ![u] = TRUE] ELSE urun
  BY <1>4, <1>5, <1>8, <1>9 DEF Complete
<1>11. TypeOK'
  <2>1. n > 0 => n - 1 \in Nat
    OBVIOUS
  <2>2. ref' \in [Users -> Nat] /\ urun' \in [Users -> BOOLEAN]
    BY <1>9, <1>10, <2>1 DEF TypeOK
  <2>3. QED
    BY <1>1, <1>2, <1>5, <1>6, <1>10, <2>2 DEF TypeOK, serverVars, Done
<1>12. RpcsInStep'
  <2>1. OthersStay(r)
    BY <1>1, <1>5, <1>6 DEF TypeOK, OthersStay, serverVars
  <2>2. cl'[r] = "done" /\ clrun'[r] = FALSE
    BY <1>5, <1>6 DEF TypeOK
  <2>3. StageOf(r)'
    BY <1>1, <1>3, <1>5, <1>6, <2>2
       DEF serverVars, Row, StageOf, Stage, Fresh, Asked, Bulk, AtDisk,
           Answered, First, Talking
  <2>4. Row(r)'
    BY <1>1, <1>2, <1>3, <2>3 DEF Row, serverVars
  <2>5. QED
    BY <1>1, <2>1, <2>4, RowsKept
<1>13. (\A v \in Users : WritesOf(v)' /\ ReadsOf(v)') /\ Barrier'
  <2>1. \A q \in Rpcs : /\ cl'[q] = "none" <=> cl[q] = "none"
                        /\ cl[q] = "done" => cl'[q] = "done"
    BY <1>6 DEF TypeOK
  <2>2. QED
    BY <1>1, <2>1, ProgressKept
<1>14. ASSUME NEW v \in Users, v # u
       PROVE  Waiting(v)'
  <2>1. Waiting(v) /\ Open(v) \in Rpcs /\ Open(v).user = v
    BY RpcsOK DEF UsersInStep
  <2>2. InFlight(v)' = InFlight(v)
    BY <1>2, <1>4, <1>6, <1>14 DEF InFlight, TypeOK
  <2>3. ref'[v] = ref[v] /\ urun'[v] = urun[v]
    BY <1>10, <1>14 DEF TypeOK
  <2>4. cl'[Open(v)] = cl[Open(v)] /\ Open(v)' = Open(v)
    BY <1>2, <1>4, <1>6, <1>14, <2>1 DEF TypeOK
  <2>5. QED
    BY <1>1, <2>1, <2>2, <2>3, <2>4 DEF Waiting
<1>15. Waiting(u)'
  <2>1. Open(u)' = Open(u) /\ Open(u) \in Rpcs /\ Open(u).cmd = "open"
    BY <1>2, RpcsOK
  <2>2. CASE r.cmd = "open"
    <3>1. r = Open(u)
      BY <1>4, <2>2, RpcsOK
    <3>2. InFlight(u)' = InFlight(u)
      BY <1>2, <1>6, <2>2 DEF InFlight, TypeOK
    <3>3. ref'[u] = ref[u] /\ urun'[u]
      BY <1>10, <2>2 DEF TypeOK
    <3>4. cl'[Open(u)] = "done"
      BY <1>6, <3>1 DEF TypeOK
    <3>5. QED
      BY <1>1, <1>7, <1>8, <1>9, <2>1, <2>2, <3>2, <3>3, <3>4 DEF Waiting
  <2>3. CASE r.cmd # "open"
    <3>1. InFlight(u)' = InFlight(u) \ {r}
      BY <1>2, <1>6, <2>3 DEF InFlight, TypeOK
    <3>2. IsFiniteSet(InFlight(u)') /\ Cardinality(InFlight(u)') = n - 1
      <4>1. IsFiniteSet(InFlight(u)) /\ Cardinality(InFlight(u)) = n /\ r \in InFlight(u)
        BY <1>7, <1>8, <1>9, <2>3 DEF Waiting
      <4>2. QED
        BY <3>1, <4>1, FS_RemoveElement, SMTT(60)
    <3>3. ref'[u] = n - 1 /\ (urun'[u] <=> n = 1)
      BY <1>9, <1>10, <2>3 DEF TypeOK
    <3>4. cl'[Open(u)] = cl[Open(u)]
      BY <1>6, <2>1, <2>3 DEF TypeOK
    <3>5. QED
      BY <1>1, <1>8, <1>9, <2>1, <2>3, <3>2, <3>3, <3>4 DEF Waiting
  <2>4. QED
    BY <2>2, <2>3
<1>16. UsersInStep'
  BY <1>2, <1>13, <1>14, <1>15 DEF UsersInStep
<1>17. QED
  BY <1>10, <1>11, <1>12, <1>13, <1>16
-----------------------------------------------------------------------------
(* The shares of a file.                                                   *)
LEMMA ShareOK ==
  ASSUME NEW s \in Nat \ {0}, NEW n \in Nat \ {0}, n <= s
  PROVE  /\ s \div n \in Nat \ {0} /\ s % n \in Nat /\ s \div n <= s
         /\ s = (s \div n) * n + (s % n)
<1>1. /\ s \div n \in Nat
      /\ s = n * (s \div n) + (s % n)
      /\ s % n \in 0..(n - 1)
  OBVIOUS
<1>2. PICK d \in Nat : d = s \div n
  BY <1>1
<1>3. n * d = d * n /\ n * d \in Nat /\ (d = 0 => n * d = 0)
  OBVIOUS
<1>4. d # 0
  BY <1>1, <1>2, <1>3
<1>5. d * 1 <= d * n
  BY <1>4
<1>6. QED
  BY <1>1, <1>2, <1>3, <1>4, <1>5

LEMMA RangesOK ==
  ASSUME params \in Configs, NEW u \in Users
  PROVE  /\ WriteRange(u) \in [off : Nat, count : Nat \ {0}]
         /\ WriteRange(u).off + WriteRange(u).count <= FileEnd
         /\ ReadRange(u) \in [off : Nat, count : Nat \ {0}]
         /\ ReadRange(u).off + ReadRange(u).count <= FileEnd
         /\ u < params.rdnr => ReadRange(u).off + ReadRange(u).count <= params.size
<1>1. /\ params.size \in Nat \ {0} /\ params.wtnr \in Nat \ {0}
      /\ params.rdnr \in Nat \ {0} /\ params.share \in BOOLEAN
      /\ Clients \in Nat \ {0} /\ params.wtnr <= Clients /\ params.rdnr <= Clients
      /\ params.share => params.size >= Clients
      /\ u \in 0..(Clients - 1)
  BY ParamsOK
<1>2. CASE ~params.share
  <2>1. params.size * 1 = params.size
    BY <1>1
  <2>2. FileEnd = params.size
    BY <1>2, <2>1 DEF FileEnd
  <2>3. /\ WriteRange(u) = [off |-> 0, count |-> params.size]
        /\ ReadRange(u) = [off |-> 0, count |-> params.size]
    BY <1>2 DEF WriteRange, ReadRange
  <2>4. QED
    BY <1>1, <2>2, <2>3
<1>3. CASE params.share
  <2>1. PICK s \in Nat \ {0}, c \in Nat \ {0}, w \in Nat \ {0}, d \in Nat \ {0} :
           s = params.size /\ c = Clients /\ w = params.wtnr /\ d = params.rdnr
    BY <1>1
  <2>2. w <= c /\ d <= c /\ c <= s /\ w <= s /\ d <= s /\ u \in 0..(c - 1)
    BY <1>1, <1>3, <2>1
  <2>3. PICK sw \in Nat \ {0}, mw \in Nat :
           sw = s \div w /\ mw = s % w /\ sw <= s /\ s = sw * w + mw
    BY <2>2, ShareOK
  <2>4. PICK sd \in Nat \ {0}, md \in Nat :
           sd = s \div d /\ md = s % d /\ sd <= s /\ s = sd * d + md
    <3>1. /\ s \div d \in Nat \ {0} /\ s % d \in Nat /\ s \div d <= s
          /\ s = (s \div d) * d + (s % d)
      BY <2>2, ShareOK
    <3>2. QED
      BY <3>1
  <2>5. FileEnd = s * c
    BY <1>3, <2>1 DEF FileEnd
  <2>6. PICK count \in Nat \ {0} : /\ u = w - 1 => count = sw + mw
                                   /\ u # w - 1 => count = sw + 0
    <3>1. CASE u = w - 1
      <4>1. sw + mw \in Nat \ {0}
        BY <2>3
      <4>2. QED
        BY <3>1, <4>1
    <3>2. CASE u # w - 1
      <4>1. sw + 0 \in Nat \ {0}
        BY <2>3
      <4>2. QED
        BY <3>2, <4>1
    <3>3. QED
      BY <3>1, <3>2
  <2>7. /\ WriteRange(u) = [off |-> sw * u, count |-> count]
        /\ ReadRange(u) = [off |-> sd * u, count |-> sd]
    <3>1. count = sw + (IF u = w - 1 THEN mw ELSE 0)
      <4>1. CASE u = w - 1
        BY <2>6, <4>1
      <4>2. CASE u # w - 1
        BY <2>6, <4>2
      <4>3. QED
        BY <4>1, <4>2
    <3>2. QED
      BY <1>3, <2>1, <2>3, <2>4, <3>1, Zenon DEF WriteRange, ReadRange
  <2>8. /\ sw * u \in Nat /\ sd * u \in Nat /\ s * c \in Nat
        /\ sw * u + sw = sw * (u + 1) /\ sd * u + sd = sd * (u + 1)
        /\ u + 1 \in Nat /\ u + 1 <= c
    BY <2>2
  <2>9. sw * (u + 1) <= s * c /\ sd * (u + 1) <= s * c /\ s <= s * c
    <3>1. sw * (u + 1) <= s * (u + 1) /\ sd * (u + 1) <= s * (u + 1)
      BY <2>3, <2>4, <2>8, ProductMonotone
    <3>2. (u + 1) * s <= c * s /\ 1 * s <= c * s
      BY <2>8, ProductMonotone
    <3>3. s * (u + 1) = (u + 1) * s /\ s * c = c * s /\ 1 * s = s
      BY <2>8
    <3>4. s * (u + 1) \in Nat /\ sw * (u + 1) \in Nat /\ sd * (u + 1) \in Nat
      BY <2>8
    <3>5. QED
      BY <2>8, <3>1, <3>2, <3>3, <3>4
  <2>10. sw * u + count <= s * c
    <3>1. CASE u = w - 1
      <4>1. u + 1 = w /\ sw * (u + 1) = sw * w /\ count = sw + mw
        <5>1. u + 1 = w
          BY <2>2, <3>1
        <5>2. sw * (u + 1) = sw * w
          BY <5>1, Zenon
        <5>3. QED
          BY <2>6, <3>1, <5>1, <5>2, Zenon
      <4>2. sw * u + count = s
        BY <2>3, <2>8, <4>1
      <4>3. QED
        BY <2>9, <4>2
    <3>2. CASE u # w - 1
      BY <2>2, <2>6, <2>8, <2>9, <3>2
    <3>3. QED
      BY <3>1, <3>2
  <2>11. u < d => sd * u + sd <= s
    <3>1. SUFFICES ASSUME u < d
                   PROVE  sd * u + sd <= s
      OBVIOUS
    <3>2. (u + 1) * sd <= d * sd /\ (u + 1) * sd \in Nat /\ d * sd \in Nat
      BY <2>2, <2>8, <3>1, ProductMonotone
    <3>3. (u + 1) * sd = sd * (u + 1) /\ d * sd = sd * d
      BY <2>8
    <3>4. QED
      BY <2>4, <2>8, <3>2, <3>3
  <2>12. QED
    <3>1. /\ WriteRange(u).off = sw * u /\ WriteRange(u).count = count
          /\ ReadRange(u).off = sd * u /\ ReadRange(u).count = sd
          /\ WriteRange(u) \in [off : Nat, count : Nat \ {0}]
          /\ ReadRange(u) \in [off : Nat, count : Nat \ {0}]
      BY <2>4, <2>6, <2>7, <2>8
    <3>2. QED
      BY <2>1, <2>5, <2>8, <2>9, <2>10, <2>11, <3>1
<1>4. QED
  BY <1>1, <1>2, <1>3

(* Every stripe of a shared file is in the share of a writer.              *)
LEMMA WriterOf ==
  ASSUME params \in Configs, params.share, NEW off \in 0..(params.size - 1)
  PROVE  \E v \in 0..(params.wtnr - 1) :
           WriteRange(v).off <= off /\ off < WriteRange(v).off + WriteRange(v).count
<1>1. PICK s \in Nat \ {0}, w \in Nat \ {0} : s = params.size /\ w = params.wtnr
  BY ParamsOK
<1>2. w <= s /\ off \in 0..(s - 1)
  BY <1>1, ParamsOK
<1>3. PICK sw \in Nat \ {0}, mw \in Nat :
         sw = s \div w /\ mw = s % w /\ s = sw * w + mw
  BY <1>2, ShareOK
<1>4. \A v : WriteRange(v) = [off |-> sw * v,
                              count |-> sw + (IF v = w - 1 THEN mw ELSE 0)]
  BY <1>1, <1>3 DEF WriteRange
<1>5. PICK k \in Nat : sw * k <= off /\ off < sw * k + sw
  <2>1. off \in Nat
    BY <1>2
  <2>2. /\ off \div sw \in Nat /\ sw * (off \div sw) <= off
        /\ off < sw * (off \div sw) + sw
    BY <2>1, DivBounds
  <2>3. QED
    BY <2>2
<1>6. CASE k < w - 1
  <2>1. k \in 0..(w - 1) /\ k # w - 1
    BY <1>6
  <2>2. QED
    BY <1>1, <1>4, <1>5, <2>1
<1>7. CASE k >= w - 1
  <2>1. w - 1 \in Nat /\ w - 1 <= k
    BY <1>7
  <2>2. (w - 1) * sw <= k * sw /\ (w - 1) * sw \in Nat
    BY <2>1, ProductMonotone
  <2>3. sw * (w - 1) = (w - 1) * sw /\ k * sw = sw * k /\ sw * w = (w - 1) * sw + sw
    BY <2>1
  <2>4. sw * (w - 1) <= off /\ off < sw * (w - 1) + (sw + mw)
    BY <1>2, <1>3, <1>5, <2>2, <2>3
  <2>5. WriteRange(w - 1) = [off |-> sw * (w - 1), count |-> sw + mw]
    BY <1>4
  <2>6. w - 1 \in 0..(w - 1)
    BY <2>1
  <2>7. QED
    BY <1>1, <2>4, <2>5, <2>6
<1>8. QED
  BY <1>5, <1>6, <1>7

LEMMA FirstNumbers ==
  ASSUME NEW n \in Nat
  PROVE  IsFiniteSet(0..(n - 1)) /\ Cardinality(0..(n - 1)) = n
<1>1. PICK a \in Int, b \in Int : a = 0 /\ b = n - 1
  OBVIOUS
<1>2. IsFiniteSet(a..b) /\ Cardinality(a..b) = IF a > b THEN 0 ELSE b - a + 1
  BY FS_Interval, Zenon
<1>3. QED
  BY <1>1, <1>2

(* When a read that waits for all writes has begun, so it was: every       *)
(* writer is past its writes.                                              *)
LEMMA AllFinished ==
  ASSUME TypeOK, Barrier, NEW r \in Rpcs, r.cmd = "read", cl[r] # "none",
         params.wait, NEW v \in 0..(params.wtnr - 1)
  PROVE  ustate[v] \in After
<1>1. params.read /\ finished = params.wtnr
  BY DEF Barrier
<1>2. Cardinality(Finished) = params.wtnr
  BY <1>1 DEF Barrier
<1>3. PICK n \in Nat \ {0} : n = params.wtnr
  BY ParamsOK DEF TypeOK
<1>4. IsFiniteSet(0..(n - 1)) /\ Cardinality(0..(n - 1)) = n
  BY FirstNumbers
<1>5. Finished \in SUBSET (0..(n - 1))
  BY <1>3 DEF Finished
<1>6. Finished = 0..(n - 1)
  BY <1>2, <1>3, <1>4, <1>5, FS_Subset, Zenon
<1>7. QED
  BY <1>3, <1>6 DEF Finished

(* A read that has begun finds what was written, where the stripes of the  *)
(* file begin at the same server for all clients.                          *)
LEMMA ReadsFind ==
  ASSUME TypeOK, RpcsInStep, UsersInStep, Barrier, NEW r \in Rpcs,
         r.cmd = "read", cl[r] # "none",
         ~Misplaced, ~(params.share /\ ~params.wait)
  PROVE  Extent(r) \in extents
<1>1. /\ params \in Configs /\ params.wtnr \in Nat \ {0} /\ params.rdnr \in Nat \ {0}
      /\ params.size \in Nat \ {0} /\ params.osts \in Nat \ {0}
      /\ params.stripes \in Nat \ {0} /\ params.stripes <= params.osts
      /\ params.wtnr <= Clients /\ params.share \in BOOLEAN
      /\ ~params.share => params.wtnr = params.rdnr
      /\ Clients \in Nat \ {0} /\ Clients \in {params.wtnr, params.rdnr}
      /\ Users = 0..(Clients - 1)
  BY ParamsOK DEF TypeOK
<1>2. PICK u \in Users, off \in 0..(FileEnd - 1) :
         u = r.user /\ off = r.off /\ r = [user |-> u, cmd |-> "read", off |-> off]
  BY RpcsOK
<1>3. /\ In(r, ReadRange(u))
      /\ params.share /\ params.wait => u < params.rdnr
      /\ ustate[u] \in After
  <2>1. ReadsOf(u) /\ r \in Mine(u, "read")
    BY <1>2 DEF UsersInStep, Mine
  <2>2. QED
    BY <2>1 DEF ReadsOf, After
(* A stripe that a writer has written is mapped.                           *)
<1>4. ASSUME NEW v \in 0..(params.wtnr - 1), ustate[v] \in After,
             NEW w, w = [user |-> v, cmd |-> "write", off |-> off],
             In(w, WriteRange(v))
      PROVE  Extent(w) \in extents
  <2>1. v \in Users /\ v < params.wtnr
    BY <1>1
  <2>2. w \in Rpcs
    BY <1>4, <2>1, RpcsOK
  <2>3. w \in Mine(v, "write") /\ WritesOf(v)
    BY <1>4, <2>1, <2>2 DEF Mine, UsersInStep
  <2>4. cl[w] = "done"
    BY <1>4, <2>1, <2>3 DEF WritesOf
  <2>5. Row(w) /\ w.cmd = "write"
    BY <1>4, <2>2 DEF RpcsInStep, Row
  <2>6. srv[w] = "done"
    BY <2>4, <2>5
       DEF Row, StageOf, Stage, Fresh, Asked, Bulk, AtDisk, Answered, First
  <2>7. QED
    BY <2>5, <2>6 DEF Row
<1>5. CASE params.wtnr = params.rdnr
  <2>1. u \in 0..(params.wtnr - 1)
    BY <1>1, <1>2, <1>5
  <2>2. PICK s \in Nat, n \in Nat \ {0} : s = params.size /\ n = params.wtnr
    BY <1>1
  <2>3. PICK m \in Nat : /\ WriteRange(u).off = ReadRange(u).off
                       /\ \/ WriteRange(u).count = ReadRange(u).count
                          \/ WriteRange(u).count = ReadRange(u).count + m
    <3>1. PICK d \in Nat, m \in Nat : d = s \div n /\ m = s % n
      <4>1. s \div n \in Nat /\ s % n \in 0..(n - 1)
        BY DivBounds, ModBounds, Zenon
      <4>2. QED
        BY <4>1
    <3>2. d + 0 = d
      OBVIOUS
    <3>3. QED
      BY <1>5, <2>2, <3>1, <3>2 DEF WriteRange, ReadRange
  <2>4. PICK w : w = [user |-> u, cmd |-> "write", off |-> off]
    OBVIOUS
  <2>5. In(w, WriteRange(u))
    <3>1. /\ ReadRange(u) \in [off : Nat, count : Nat \ {0}]
          /\ WriteRange(u) \in [off : Nat, count : Nat \ {0}]
      BY <1>1, RangesOK
    <3>2. w.off = off /\ r.off = off /\ off \in Int
      BY <1>2, <2>4
    <3>3. QED
      BY <1>3, <2>3, <3>1, <3>2 DEF In
  <2>6. Extent(w) = Extent(r)
    <3>1. w.user = r.user /\ w.off = r.off /\ w.cmd # "open" /\ r.cmd # "open"
      BY <1>2, <2>4
    <3>2. ServerOf(w) = ServerOf(r)
      BY <3>1 DEF ServerOf
    <3>3. QED
      BY <3>1, <3>2 DEF Extent
  <2>7. QED
    BY <1>3, <1>4, <2>1, <2>4, <2>5, <2>6
<1>6. CASE params.wtnr # params.rdnr
  <2>1. params.share /\ params.wait /\ u < params.rdnr /\ params.osts = 1
    BY <1>1, <1>3, <1>6 DEF Misplaced
  <2>2. params.stripes = 1
    BY <1>1, <2>1
  <2>3. off \in 0..(params.size - 1)
    <3>1. /\ ReadRange(u) \in [off : Nat, count : Nat \ {0}]
          /\ ReadRange(u).off + ReadRange(u).count <= params.size
      BY <1>1, <2>1, RangesOK
    <3>2. QED
      BY <1>1, <1>2, <1>3, <3>1 DEF In
  <2>4. PICK v \in 0..(params.wtnr - 1) :
           /\ WriteRange(v).off <= off
           /\ off < WriteRange(v).off + WriteRange(v).count
    BY <1>1, <2>1, <2>3, WriterOf
  <2>5. ustate[v] \in After
    BY <2>1, <2>4, AllFinished
  <2>6. PICK w : w = [user |-> v, cmd |-> "write", off |-> off]
    OBVIOUS
  <2>7. In(w, WriteRange(v))
    BY <2>4, <2>6 DEF In
  <2>8. Extent(w) = Extent(r)
    <3>1. /\ w.user \in Nat /\ r.user \in Nat /\ w.off = off /\ r.off = off
          /\ w.cmd # "open" /\ r.cmd # "open" /\ off \in Nat
      BY <1>1, <1>2, <2>3, <2>6
    <3>2. \A x \in Nat : x % 1 = 0
      OBVIOUS
    <3>3. ServerOf(w) = 0 /\ ServerOf(r) = 0
      <4>1. off % 1 = 0
        BY <3>1, <3>2
      <4>2. (w.user + 1 + 0) % 1 = 0 /\ (r.user + 1 + 0) % 1 = 0
        BY <3>1, <3>2
      <4>3. QED
        BY <2>1, <2>2, <3>1, <4>1, <4>2 DEF ServerOf
    <3>4. QED
      BY <2>1, <3>1, <3>3 DEF Extent
  <2>9. QED
    BY <1>4, <2>5, <2>6, <2>7, <2>8
<1>7. QED
  BY <1>5, <1>6

(* Every step of an RPC keeps the invariant.                               *)
RpcStep(r) ==
  \/ RunOsc(r) \/ ClientHandle(r) \/ ClientRecv(r)
  \/ ServerRecv(r) \/ RunServer(r) \/ ServerHandle(r)
  \/ DiskCompletion(r) \/ NotifySender(r)

LEMMA RpcStepOK ==
  ASSUME IInv, aborted = "no", NEW r \in Rpcs, RpcStep(r)
  PROVE  IInv'
<1>1. TypeOK /\ RpcsInStep /\ UsersInStep /\ Barrier
  BY DEF IInv
<1>2. CASE ClientHandle(r) /\ cl[r] = "last"
  <2>1. /\ TypeOK' /\ RpcsInStep' /\ UsersInStep' /\ Barrier'
        /\ UNCHANGED aborted
    BY <1>1, <1>2, CompleteOK
  <2>2. QED
    BY <2>1 DEF IInv
<1>3. CASE ~(ClientHandle(r) /\ cl[r] = "last")
  <2>1. UNCHANGED <<params, userVars>>
    <3>1. UNCHANGED params
      BY DEF RpcStep, RunOsc, ClientHandle, ClientRecv, ServerRecv, RunServer,
             ServerHandle, DiskCompletion, NotifySender
    <3>2. CASE ClientHandle(r)
      BY <1>1, <1>3, <3>1, <3>2, ClientSendsOK
    <3>3. CASE ~ClientHandle(r)
      BY <3>1, <3>3 DEF RpcStep, RunOsc, ClientRecv, ServerRecv, RunServer,
                        ServerHandle, DiskCompletion, NotifySender
    <3>4. QED
      BY <3>2, <3>3
  <2>2. \A q \in Rpcs : /\ cl'[q] = "none" <=> cl[q] = "none"
                        /\ cl'[q] = "done" <=> cl[q] = "done"
    <3>1. CASE UNCHANGED cl
      BY <3>1
    <3>2. CASE RunOsc(r)
      BY <1>1, <3>2 DEF RunOsc, TypeOK
    <3>3. CASE ClientHandle(r)
      <4>1. PICK next \in {"recvGet", "recvPut", "last"} :
               cl' = [cl EXCEPT ![r] = next] /\ cl[r] \notin {"none", "done"}
        BY <1>1, <1>3, <3>3, ClientSendsOK
      <4>2. QED
        BY <1>1, <4>1 DEF TypeOK
    <3>4. QED
      BY <3>1, <3>2, <3>3 DEF RpcStep, ClientRecv, ServerRecv, RunServer,
           ServerHandle, DiskCompletion, NotifySender, clientVars
  <2>3. UsersInStep' /\ Barrier'
    BY <1>1, <2>1, <2>2, UsersUnaffected
  <2>4. CASE ServerHandle(r)
    <3>1. TypeOK' /\ RpcsInStep'
      BY <1>1, <2>4, ServerHandleOK
    <3>2. CASE UNCHANGED aborted
      BY <2>3, <3>1, <3>2 DEF IInv
    <3>3. CASE aborted' # aborted
      <4>1. /\ aborted' = "exit" /\ r.cmd = "read" /\ cl[r] \notin {"none", "done"}
            /\ Extent(r) \notin extents
        BY <1>1, <2>4, <3>3, ServerHandleOK
      <4>2. Misplaced \/ (params.share /\ ~params.wait)
        BY <1>1, <4>1, ReadsFind
      <4>3. Misplaced' \/ (params.share /\ ~params.wait)'
        BY <2>1, <4>2, ParamsStay
      <4>4. QED
        BY <2>3, <3>1, <4>1, <4>3 DEF IInv
    <3>4. QED
      BY <3>2, <3>3
  <2>5. CASE ~ServerHandle(r)
    <3>1. TypeOK' /\ RpcsInStep' /\ UNCHANGED aborted
      BY <1>1, <1>3, <2>5, RunOscOK, ClientSendsOK, ClientRecvOK, ServerRecvOK,
         RunServerOK, DiskCompletionOK, NotifySenderOK DEF RpcStep
    <3>2. QED
      BY <2>3, <3>1 DEF IInv
  <2>6. QED
    BY <2>4, <2>5
<1>4. QED
  BY <1>2, <1>3
-----------------------------------------------------------------------------
(* The step of a user changes its own state only, apart from waking others *)
(* that wait for all writes.                                               *)
OnlyUser(u) ==
  /\ \A v \in Users \ {u} :
       /\ ustate'[v] = ustate[v] /\ rw'[v] = rw[v] /\ ref'[v] = ref[v]
       /\ \/ (urun'[v] <=> urun[v]) /\ (v \in rwQ' <=> v \in rwQ)
          \/ v \in rwQ /\ urun'[v] /\ v \notin rwQ'
  /\ \A q \in Rpcs : q.user # u => cl'[q] = cl[q]

LEMMA OthersKept ==
  ASSUME UsersInStep, UNCHANGED params, NEW u \in Users, OnlyUser(u),
         Waiting(u)', WritesOf(u)', ReadsOf(u)'
  PROVE  UsersInStep'
<1>1. /\ Users' = Users /\ Rpcs' = Rpcs
      /\ \A w : WriteRange(w)' = WriteRange(w) /\ ReadRange(w)' = ReadRange(w)
  BY ParamsStay
<1>2. ASSUME NEW v \in Users, v # u
      PROVE  Waiting(v)' /\ WritesOf(v)' /\ ReadsOf(v)'
  <2>1. Waiting(v) /\ WritesOf(v) /\ ReadsOf(v)
    BY DEF UsersInStep
  <2>2. /\ ustate'[v] = ustate[v] /\ rw'[v] = rw[v] /\ ref'[v] = ref[v]
        /\ \/ (urun'[v] <=> urun[v]) /\ (v \in rwQ' <=> v \in rwQ)
           \/ v \in rwQ /\ urun'[v] /\ v \notin rwQ'
    BY <1>2 DEF OnlyUser
  <2>3. \A q \in Rpcs : q.user = v => cl'[q] = cl[q]
    BY <1>2 DEF OnlyUser
  <2>4. InFlight(v)' = InFlight(v)
    BY <1>1, <2>3 DEF InFlight
  <2>5. Open(v)' = Open(v) /\ cl'[Open(v)] = cl[Open(v)]
    BY <2>3, RpcsOK DEF Open
  <2>6. Waiting(v)'
    BY <2>1, <2>2, <2>4, <2>5 DEF Waiting
  <2>7. /\ \A cmd : Mine(v, cmd)' = Mine(v, cmd)
        /\ \A cmd : \A q \in Mine(v, cmd) : cl'[q] = cl[q]
    BY <1>1, <2>3 DEF Mine
  <2>8. WritesOf(v)'
    BY <1>1, <2>1, <2>2, <2>7 DEF WritesOf, RangeLeft, In, After
  <2>9. ReadsOf(v)'
    BY <1>1, <2>1, <2>2, <2>7 DEF ReadsOf, RangeLeft, In
  <2>10. QED
    BY <2>6, <2>8, <2>9
<1>3. QED
  BY <1>1, <1>2 DEF UsersInStep

LEMMA BarrierKept ==
  ASSUME Barrier, UNCHANGED <<params, finished>>, NEW u \in Users, OnlyUser(u),
         rwQ' \ {u} = rwQ \ {u},
         params.read /\ params.wait => Finished' = Finished,
         ustate'[u] = "readStart" => params.wait,
         ustate'[u] \in Reading =>
           params.read /\ (params.share /\ params.wait => u < params.rdnr),
         params.wait /\ LetGo(u)' => finished = params.wtnr,
         \A r \in Rpcs : r.cmd = "read" /\ cl'[r] # "none" =>
           \/ cl[r] # "none"
           \/ params.read /\ (params.wait => finished = params.wtnr)
  PROVE  Barrier'
<1>1. Users' = Users /\ Rpcs' = Rpcs
  BY ParamsStay
<1>2. finished' = IF params.read /\ params.wait THEN Cardinality(Finished') ELSE 0
  BY DEF Barrier
<1>3. ASSUME NEW v \in Users, v # u
      PROVE  /\ ustate'[v] = ustate[v] /\ (v \in rwQ' <=> v \in rwQ)
             /\ LetGo(v)' <=> LetGo(v)
  <2>1. ustate'[v] = ustate[v] /\ (v \in rwQ' <=> v \in rwQ)
    BY <1>3 DEF OnlyUser
  <2>2. QED
    BY <2>1 DEF LetGo
<1>4. \A v \in Users :
        /\ ustate'[v] = "readStart" => params.wait
        /\ ustate'[v] \in Reading =>
           params.read /\ (params.share /\ params.wait => v < params.rdnr)
        /\ params.wait /\ LetGo(v)' => finished = params.wtnr
  BY <1>3 DEF Barrier
<1>5. \A r \in Rpcs : r.cmd = "read" /\ cl'[r] # "none" =>
        params.read /\ (params.wait => finished = params.wtnr)
  BY DEF Barrier
<1>6. params' = params /\ finished' = finished
  OBVIOUS
<1>7. QED
  BY <1>1, <1>2, <1>4, <1>5, <1>6 DEF Barrier

LEMMA SleepOK ==
  ASSUME TypeOK, NEW u \in Users, SleepAndWake(u, {})
  PROVE  /\ urun' \in [Users -> BOOLEAN] /\ ~urun'[u]
         /\ \A v \in Users \ {u} : urun'[v] <=> urun[v]
         /\ UNCHANGED aborted
BY DEF TypeOK, SleepAndWake

(* RPCs that a user hands over to the OSC have not begun.                  *)
LEMMA RpcsBegin ==
  ASSUME RpcsInStep, UNCHANGED <<params, clrun, serverVars, msgVars>>,
         \A q \in Rpcs : \/ cl'[q] = cl[q]
                         \/ cl[q] = "none" /\ cl'[q] = "queued" /\ q.cmd # "open"
  PROVE  RpcsInStep'
<1>1. Rpcs' = Rpcs /\ \A q : Extent(q)' = Extent(q)
  BY ParamsStay
<1>2. ASSUME NEW q \in Rpcs
      PROVE  Row(q)'
  <2>1. Row(q)
    BY DEF RpcsInStep, Row
  <2>2. StageOf(q)'
    <3>1. CASE cl'[q] = cl[q]
      BY <2>1, <3>1 DEF Row, StageOf, serverVars, msgVars
    <3>2. CASE cl[q] = "none" /\ cl'[q] = "queued" /\ q.cmd # "open"
      BY <2>1, <3>2 DEF Row, StageOf, serverVars, msgVars, Stage, Fresh, Asked,
                        Bulk, AtDisk, Answered, First, Talking
    <3>3. QED
      BY <3>1, <3>2
  <2>3. QED
    BY <1>1, <2>1, <2>2 DEF Row, serverVars
<1>3. QED
  BY <1>1, <1>2 DEF RpcsInStep, Row

(* LOV::ReadWrite: a user that waits for nothing waits for count chunks.   *)
Chunks(u, cmd, off, count) ==
  {r \in Rpcs : r.user = u /\ r.cmd = cmd /\ r.off \in off..(off + count - 1)}

LEMMA ChunksOK ==
  ASSUME params \in Configs, NEW u \in Users, NEW cmd \in {"write", "read"},
         NEW off \in Nat, NEW count \in Nat \ {0}, off + count <= FileEnd
  PROVE  /\ IsFiniteSet(Chunks(u, cmd, off, count))
         /\ Cardinality(Chunks(u, cmd, off, count)) = count
<1> DEFINE I == off..(off + count - 1)
           C == Chunks(u, cmd, off, count)
           f == [i \in I |-> [user |-> u, cmd |-> cmd, off |-> i]]
<1>1. FileEnd \in Nat /\ I \subseteq 0..(FileEnd - 1)
  BY ParamsOK
<1>2. \A i \in I : f[i] \in C
  BY <1>1, RpcsOK DEF Chunks
<1>3. \A r \in C : r.off \in I /\ f[r.off] = r
  BY RpcsOK DEF Chunks
<1>4. \A i, j \in I : f[i] = f[j] => i = j
  OBVIOUS
<1>5. f \in Bijection(I, C)
  <2>1. f \in [I -> C]
    BY <1>2
  <2> HIDE DEF f, C, I
  <2>2. QED
    BY <2>1, <1>3, <1>4 DEF Bijection, Injection, Surjection, IsInjective
<1>6. IsFiniteSet(I) /\ Cardinality(I) = count
  <2>1. PICK a \in Int, b \in Int : a = off /\ b = off + count - 1
    OBVIOUS
  <2>2. IsFiniteSet(a..b) /\ Cardinality(a..b) = IF a > b THEN 0 ELSE b - a + 1
    BY FS_Interval, Zenon
  <2>3. QED
    BY <2>1, <2>2
<1> HIDE DEF f, C, I
<1>7. ExistsBijection(I, C)
  BY <1>5 DEF ExistsBijection
<1>8. IsFiniteSet(C) /\ Cardinality(C) = count
  BY <1>6, <1>7, FS_Bijection
<1>9. QED
  BY <1>8 DEF C

LEMMA ReadWriteOK ==
  ASSUME TypeOK, RpcsInStep, UsersInStep,
         NEW u \in Users, NEW cmd \in {"write", "read"},
         NEW off \in Nat, NEW count \in Nat \ {0}, off + count <= FileEnd, ref[u] = 0,
         \A r \in Mine(u, cmd) : off <= r.off => cl[r] = "none",
         ReadWrite(u, cmd, off, count),
         UNCHANGED <<params, clrun, serverVars, msgVars>>
  PROVE  /\ cl' \in [Rpcs -> Done \cup {"start", "recvGet", "recvPut", "last"}]
         /\ ref' \in [Users -> Nat] /\ ref'[u] = count
         /\ \A v \in Users \ {u} : ref'[v] = ref[v]
         /\ \A r \in Rpcs : IF r \in Chunks(u, cmd, off, count)
                            THEN cl[r] = "none" /\ cl'[r] = "queued"
                            ELSE cl'[r] = cl[r]
         /\ IsFiniteSet(InFlight(u)') /\ Cardinality(InFlight(u)') = count
         /\ RpcsInStep'
<1>1. params \in Configs /\ Rpcs' = Rpcs
  BY ParamsStay DEF TypeOK
<1> DEFINE C == Chunks(u, cmd, off, count)
<1>2. \A r \in Rpcs : /\ r \in C <=> r.user = u /\ r.cmd = cmd
                                       /\ r.off \in off..(off + count - 1)
                      /\ r \in C => r \in Mine(u, cmd) /\ off <= r.off /\ r.cmd # "open"
  BY DEF Chunks, Mine
<1> HIDE DEF C
<1>3. /\ cl' = [r \in Rpcs |-> IF r \in C THEN "queued" ELSE cl[r]]
      /\ ref' = [ref EXCEPT ![u] = count]
  <2>1. cl' = [r \in Rpcs |-> IF r \in C THEN "queued" ELSE cl[r]]
    BY <1>2 DEF ReadWrite
  <2>2. ref' = [ref EXCEPT ![u] = 0 + count] /\ 0 + count = count
    BY DEF ReadWrite, TypeOK
  <2>3. QED
    BY <2>1, <2>2
<1>4. \A r \in Rpcs : IF r \in C THEN cl[r] = "none" /\ cl'[r] = "queued"
                      ELSE cl'[r] = cl[r]
  BY <1>2, <1>3
<1>5. /\ cl' \in [Rpcs -> Done \cup {"start", "recvGet", "recvPut", "last"}]
      /\ ref' \in [Users -> Nat] /\ ref'[u] = count
      /\ \A v \in Users \ {u} : ref'[v] = ref[v]
  BY <1>3 DEF TypeOK, Done
<1>6. InFlight(u)' = C
  <2>1. InFlight(u) = {}
    BY FS_EmptySet DEF UsersInStep, Waiting
  <2>2. \A r \in Rpcs : r.user = u /\ r.cmd # "open" => cl[r] \in {"none", "done"}
    BY <2>1 DEF InFlight
  <2>3. \A r \in C : r \in Rpcs
    BY DEF C, Chunks
  <2>4. \A r \in InFlight(u)' : r \in C
    BY <1>1, <1>4, <2>2 DEF InFlight
  <2>5. \A r \in C : r \in InFlight(u)'
    BY <1>1, <1>2, <1>4, <2>3 DEF InFlight
  <2>6. QED
    BY <2>4, <2>5
<1>7. IsFiniteSet(C) /\ Cardinality(C) = count
  BY <1>1, ChunksOK DEF C
<1>8. RpcsInStep'
  BY <1>2, <1>4, RpcsBegin
<1>9. QED
  BY <1>4, <1>5, <1>6, <1>7, <1>8 DEF C

(* A step in which user u only moves on, without an RPC of another one.    *)
LEMMA StepOfUser ==
  ASSUME IInv, aborted = "no", NEW u \in Users, UNCHANGED <<params, aborted>>,
         TypeOK', RpcsInStep', Barrier', OnlyUser(u),
         Waiting(u)', WritesOf(u)', ReadsOf(u)'
  PROVE  IInv'
BY OthersKept DEF IInv

(* The next chunks are written.                                            *)
LEMMA WriteStepOK ==
  ASSUME IInv, aborted = "no", NEW u \in Users, urun[u],
         ustate[u] \in {"open", "initRW", "writeXfer"},
         NEW off \in Nat, NEW count \in Nat \ {0}, NEW n \in 1..count,
         WriteRange(u).off <= off,
         off + count = WriteRange(u).off + WriteRange(u).count,
         \A r \in Mine(u, "write") :
           /\ off <= r.off => cl[r] = "none"
           /\ In(r, WriteRange(u)) /\ r.off < off => cl[r] # "none",
         NEW next \in {"writeXfer", "writeInterval", "writeCompletion"},
         next = "writeCompletion" => n = count,
         NEW x \in [off : Nat, count : Nat],
         next # "writeCompletion" =>
           params.xfer # 0 /\ x = [off |-> off + n, count |-> count - n],
         ustate' = [ustate EXCEPT ![u] = next], rw' = [rw EXCEPT ![u] = x],
         ReadWrite(u, "write", off, n), SleepAndWake(u, {}),
         UNCHANGED <<rwQ, finished, params, clrun, serverVars, msg, phase, nt>>
  PROVE  IInv'
<1>1. /\ TypeOK /\ RpcsInStep /\ UsersInStep /\ Barrier
      /\ Waiting(u) /\ WritesOf(u) /\ ReadsOf(u)
  BY DEF IInv, UsersInStep
<1>2. /\ Users' = Users /\ Rpcs' = Rpcs /\ params \in Configs
      /\ WriteRange(u)' = WriteRange(u) /\ ReadRange(u)' = ReadRange(u)
      /\ \A r : Extent(r)' = Extent(r)
  BY <1>1, ParamsStay DEF TypeOK
<1>3. /\ WriteRange(u) \in [off : Nat, count : Nat \ {0}]
      /\ WriteRange(u).off + WriteRange(u).count <= FileEnd /\ FileEnd \in Nat
      /\ n \in Nat \ {0} /\ off + n <= FileEnd
  <2>1. /\ WriteRange(u) \in [off : Nat, count : Nat \ {0}]
        /\ WriteRange(u).off + WriteRange(u).count <= FileEnd /\ FileEnd \in Nat
    BY <1>2, RangesOK, ParamsOK
  <2>2. off + count <= FileEnd
    BY <2>1
  <2>3. n \in Nat \ {0} /\ n <= count
    OBVIOUS
  <2>4. off + n <= FileEnd
    BY <2>1, <2>2, <2>3
  <2>5. QED
    BY <2>1, <2>3, <2>4
<1>4. ref[u] = 0 /\ u \notin rwQ
  BY <1>1 DEF Waiting
<1> DEFINE C == Chunks(u, "write", off, n)
<1>5. /\ cl' \in [Rpcs -> Done \cup {"start", "recvGet", "recvPut", "last"}]
      /\ ref' \in [Users -> Nat] /\ ref'[u] = n
      /\ \A v \in Users \ {u} : ref'[v] = ref[v]
      /\ \A r \in Rpcs : IF r \in C THEN cl[r] = "none" /\ cl'[r] = "queued"
                         ELSE cl'[r] = cl[r]
      /\ IsFiniteSet(InFlight(u)') /\ Cardinality(InFlight(u)') = n
      /\ RpcsInStep'
  BY <1>1, <1>3, <1>4, ReadWriteOK DEF msgVars
<1>6. \A r \in Rpcs : /\ r \in C <=> r.user = u /\ r.cmd = "write" /\ r.off \in off..(off + n - 1)
                      /\ r.off \in Nat
  BY <1>3, RpcsOK DEF Chunks
<1> HIDE DEF C
<1>7. /\ urun' \in [Users -> BOOLEAN] /\ ~urun'[u]
      /\ \A v \in Users \ {u} : urun'[v] <=> urun[v]
      /\ UNCHANGED aborted
  BY <1>1, SleepOK
<1>8. TypeOK'
  BY <1>1, <1>2, <1>5, <1>7 DEF TypeOK, serverVars
<1>9. /\ ustate'[u] = next /\ rw'[u] = x
      /\ \A v \in Users \ {u} : ustate'[v] = ustate[v] /\ rw'[v] = rw[v]
  BY <1>1 DEF TypeOK
<1>10. OnlyUser(u)
  BY <1>5, <1>6, <1>7, <1>9 DEF OnlyUser
<1>11. Waiting(u)'
  <2>1. Open(u)' = Open(u) /\ cl'[Open(u)] = cl[Open(u)]
    BY <1>5, <1>6, RpcsOK DEF Open
  <2>2. cl[Open(u)] \in {"none", "done"}
    BY <1>1 DEF Waiting
  <2>3. n > 0
    OBVIOUS
  <2>4. QED
    BY <1>4, <1>5, <1>7, <1>9, <2>1, <2>2, <2>3 DEF Waiting
<1>12. \A cmd : Mine(u, cmd)' = Mine(u, cmd) /\ Mine(u, cmd) \subseteq Rpcs
  BY <1>2 DEF Mine
<1>13. WritesOf(u)'
  <2>1. ASSUME NEW r \in Mine(u, "write")
        PROVE  /\ off + n <= r.off => cl'[r] = "none"
               /\ In(r, WriteRange(u)) /\ r.off < off + n => cl'[r] # "none"
    <3>1. /\ r \in Rpcs /\ r.off \in Nat /\ r.user = u /\ r.cmd = "write"
          /\ r \in C <=> r.off \in off..(off + n - 1)
      BY <1>6 DEF Mine
    <3>2. CASE r \in C
      BY <1>5, <3>1, <3>2
    <3>3. CASE r \notin C
      <4>1. cl'[r] = cl[r] /\ (r.off < off \/ off + n <= r.off)
        BY <1>5, <3>1, <3>3
      <4>2. QED
        BY <3>1, <4>1
    <3>4. QED
      BY <3>2, <3>3
  <2>2. CASE next = "writeCompletion"
    <3>1. \A r \in Mine(u, "write") : In(r, WriteRange(u)) => cl'[r] # "none"
      BY <1>3, <1>6, <1>12, <2>1, <2>2 DEF In
    <3>2. QED
      BY <1>2, <1>9, <1>12, <2>2, <3>1 DEF WritesOf, After, In
  <2>3. CASE next # "writeCompletion"
    <3>1. x.off = off + n /\ x.count = count - n /\ params.xfer # 0
      BY <2>3
    <3>2. RangeLeft(u, WriteRange(u))'
      BY <1>2, <1>3, <1>9, <3>1 DEF RangeLeft
    <3>3. QED
      BY <1>2, <1>9, <1>12, <2>1, <2>3, <3>1, <3>2 DEF WritesOf, After, In
  <2>4. QED
    BY <2>2, <2>3
<1>14. ReadsOf(u)'
  <2>1. \A r \in Mine(u, "read") : cl'[r] = cl[r] /\ cl[r] = "none"
    BY <1>1, <1>5, <1>6 DEF Mine, ReadsOf
  <2>2. QED
    BY <1>9, <1>12, <2>1 DEF ReadsOf
<1>15. Barrier'
  <2>1. Finished' = Finished
    <3>1. \A v \in 0..(params.wtnr - 1) : ustate'[v] \in After <=> ustate[v] \in After
      <4>1. 0..(params.wtnr - 1) \subseteq Users
        BY <1>2, ParamsOK
      <4>2. QED
        BY <1>9, <4>1 DEF After
    <3>2. QED
      BY <3>1 DEF Finished, After
  <2>2. ~LetGo(u)'
    BY <1>9 DEF LetGo
  <2>3. \A r \in Rpcs : r.cmd = "read" => cl'[r] = cl[r]
    BY <1>5, <1>6
  <2>4. QED
    BY <1>1, <1>9, <1>10, <2>1, <2>2, <2>3, BarrierKept DEF Reading
<1>16. QED
  BY <1>5, <1>7, <1>8, <1>10, <1>11, <1>13, <1>14, <1>15, StepOfUser

(* The next chunks are read.                                               *)
AllWritten(u) ==
  u < params.wtnr =>
    \A r \in Mine(u, "write") : In(r, WriteRange(u)) => cl[r] = "done"

LEMMA ReadStepOK ==
  ASSUME IInv, aborted = "no", NEW u \in Users, urun[u],
         ustate[u] \in {"writeXfer", "writeCompletion", "readStart", "readXfer"},
         AllWritten(u), params.read,
         params.share /\ params.wait => u < params.rdnr,
         params.wait => ustate[u] \in After /\ finished = params.wtnr,
         NEW off \in Nat, NEW count \in Nat \ {0}, NEW n \in 1..count,
         ReadRange(u).off <= off,
         off + count = ReadRange(u).off + ReadRange(u).count,
         \A r \in Mine(u, "read") : off <= r.off => cl[r] = "none",
         NEW next \in {"readXfer", "readCompletion"},
         NEW x \in [off : Nat, count : Nat],
         next = "readXfer" =>
           params.xfer # 0 /\ x = [off |-> off + n, count |-> count - n],
         ustate' = [ustate EXCEPT ![u] = next], rw' = [rw EXCEPT ![u] = x],
         ReadWrite(u, "read", off, n), SleepAndWake(u, {}),
         UNCHANGED <<rwQ, finished, params, clrun, serverVars, msg, phase, nt>>
  PROVE  IInv'
<1>1. /\ TypeOK /\ RpcsInStep /\ UsersInStep /\ Barrier
      /\ Waiting(u) /\ WritesOf(u) /\ ReadsOf(u)
  BY DEF IInv, UsersInStep
<1>2. /\ Users' = Users /\ Rpcs' = Rpcs /\ params \in Configs
      /\ WriteRange(u)' = WriteRange(u) /\ ReadRange(u)' = ReadRange(u)
      /\ \A r : Extent(r)' = Extent(r)
  BY <1>1, ParamsStay DEF TypeOK
<1>3. /\ ReadRange(u) \in [off : Nat, count : Nat \ {0}]
      /\ ReadRange(u).off + ReadRange(u).count <= FileEnd /\ FileEnd \in Nat
      /\ n \in Nat \ {0} /\ off + n <= FileEnd
  <2>1. /\ ReadRange(u) \in [off : Nat, count : Nat \ {0}]
        /\ ReadRange(u).off + ReadRange(u).count <= FileEnd /\ FileEnd \in Nat
    BY <1>2, RangesOK, ParamsOK
  <2>2. off + count <= FileEnd
    BY <2>1
  <2>3. n \in Nat \ {0} /\ n <= count
    OBVIOUS
  <2>4. off + n <= FileEnd
    BY <2>1, <2>2, <2>3
  <2>5. QED
    BY <2>1, <2>3, <2>4
<1>4. ref[u] = 0 /\ u \notin rwQ
  BY <1>1 DEF Waiting
<1> DEFINE C == Chunks(u, "read", off, n)
<1>5. /\ cl' \in [Rpcs -> Done \cup {"start", "recvGet", "recvPut", "last"}]
      /\ ref' \in [Users -> Nat] /\ ref'[u] = n
      /\ \A v \in Users \ {u} : ref'[v] = ref[v]
      /\ \A r \in Rpcs : IF r \in C THEN cl[r] = "none" /\ cl'[r] = "queued"
                         ELSE cl'[r] = cl[r]
      /\ IsFiniteSet(InFlight(u)') /\ Cardinality(InFlight(u)') = n
      /\ RpcsInStep'
  BY <1>1, <1>3, <1>4, ReadWriteOK DEF msgVars
<1>6. \A r \in Rpcs : /\ r \in C <=> r.user = u /\ r.cmd = "read" /\ r.off \in off..(off + n - 1)
                      /\ r.off \in Nat
  BY <1>3, RpcsOK DEF Chunks
<1> HIDE DEF C
<1>7. /\ urun' \in [Users -> BOOLEAN] /\ ~urun'[u]
      /\ \A v \in Users \ {u} : urun'[v] <=> urun[v]
      /\ UNCHANGED aborted
  BY <1>1, SleepOK
<1>8. TypeOK'
  BY <1>1, <1>2, <1>5, <1>7 DEF TypeOK, serverVars
<1>9. /\ ustate'[u] = next /\ rw'[u] = x
      /\ \A v \in Users \ {u} : ustate'[v] = ustate[v] /\ rw'[v] = rw[v]
  BY <1>1 DEF TypeOK
<1>10. OnlyUser(u)
  BY <1>5, <1>6, <1>7, <1>9 DEF OnlyUser
<1>11. Waiting(u)'
  <2>1. Open(u)' = Open(u) /\ cl'[Open(u)] = cl[Open(u)]
    BY <1>5, <1>6, RpcsOK DEF Open
  <2>2. cl[Open(u)] \in {"none", "done"}
    BY <1>1 DEF Waiting
  <2>3. n > 0
    OBVIOUS
  <2>4. QED
    BY <1>4, <1>5, <1>7, <1>9, <2>1, <2>2, <2>3 DEF Waiting
<1>12. \A cmd : Mine(u, cmd)' = Mine(u, cmd) /\ Mine(u, cmd) \subseteq Rpcs
  BY <1>2 DEF Mine
<1>13. WritesOf(u)'
  <2>1. \A r \in Mine(u, "write") : cl'[r] = cl[r]
    BY <1>5, <1>6 DEF Mine
  <2>2. QED
    BY <1>2, <1>9, <1>12, <2>1 DEF WritesOf, AllWritten, After, In
<1>14. ReadsOf(u)'
  <2>1. ASSUME NEW r \in Mine(u, "read")
        PROVE  /\ off + n <= r.off => cl'[r] = "none"
               /\ cl'[r] # "none" => In(r, ReadRange(u))
    <3>1. /\ r \in Rpcs /\ r.off \in Nat /\ r.user = u /\ r.cmd = "read"
          /\ r \in C <=> r.off \in off..(off + n - 1)
      BY <1>6 DEF Mine
    <3>2. CASE r \in C
      <4>1. off <= r.off /\ r.off < off + n /\ n <= count
        BY <3>1, <3>2
      <4>2. In(r, ReadRange(u))
        BY <1>3, <3>1, <4>1 DEF In
      <4>3. QED
        BY <1>5, <3>1, <4>1, <4>2
    <3>3. CASE r \notin C
      <4>1. cl'[r] = cl[r] /\ (r.off < off \/ off + n <= r.off)
        BY <1>5, <3>1, <3>3
      <4>2. QED
        BY <1>1, <3>1, <4>1 DEF ReadsOf
    <3>4. QED
      BY <3>2, <3>3
  <2>2. CASE next = "readCompletion"
    BY <1>2, <1>9, <1>12, <2>1, <2>2 DEF ReadsOf, In
  <2>3. CASE next = "readXfer"
    <3>1. x.off = off + n /\ x.count = count - n /\ params.xfer # 0
      BY <2>3
    <3>2. RangeLeft(u, ReadRange(u))'
      BY <1>2, <1>3, <1>9, <3>1 DEF RangeLeft
    <3>3. QED
      BY <1>2, <1>9, <1>12, <2>1, <2>3, <3>1, <3>2 DEF ReadsOf, In
  <2>4. QED
    BY <2>2, <2>3
<1>15. Barrier'
  <2>1. params.read /\ params.wait => Finished' = Finished
    <3>1. SUFFICES ASSUME params.wait
                   PROVE  Finished' = Finished
      OBVIOUS
    <3>2. \A v \in 0..(params.wtnr - 1) : ustate'[v] \in After <=> ustate[v] \in After
      <4>1. 0..(params.wtnr - 1) \subseteq Users
        BY <1>2, ParamsOK
      <4>2. QED
        BY <1>9, <3>1, <4>1 DEF After
    <3>3. QED
      BY <3>2 DEF Finished, After
  <2>2. QED
    BY <1>1, <1>5, <1>9, <1>10, <2>1, BarrierKept DEF Reading
<1>16. QED
  BY <1>5, <1>7, <1>8, <1>10, <1>11, <1>13, <1>14, <1>15, StepOfUser

(* The user has nothing to do any more.                                    *)
LEMMA LastStepOK ==
  ASSUME IInv, aborted = "no", NEW u \in Users, urun[u],
         ustate[u] \in {"writeXfer", "writeCompletion", "readStart", "readXfer",
                        "readCompletion"},
         AllWritten(u), params.read /\ params.wait => ustate[u] \in After,
         ustate' = [ustate EXCEPT ![u] = "last"], SleepAndWake(u, {}),
         UNCHANGED <<rw, cl, ref, rwQ, finished, params, clrun, serverVars, msg,
                     phase, nt>>
  PROVE  IInv'
<1>1. /\ TypeOK /\ RpcsInStep /\ UsersInStep /\ Barrier
      /\ Waiting(u) /\ WritesOf(u) /\ ReadsOf(u)
  BY DEF IInv, UsersInStep
<1>2. /\ Users' = Users /\ Rpcs' = Rpcs /\ params \in Configs
      /\ WriteRange(u)' = WriteRange(u) /\ ReadRange(u)' = ReadRange(u)
      /\ \A r : Extent(r)' = Extent(r)
      /\ \A cmd : Mine(u, cmd)' = Mine(u, cmd) /\ Mine(u, cmd) \subseteq Rpcs
      /\ InFlight(u)' = InFlight(u) /\ Open(u)' = Open(u)
  BY <1>1, ParamsStay DEF TypeOK, Mine, InFlight, Open
<1>3. ref[u] = 0 /\ u \notin rwQ /\ cl[Open(u)] \in {"none", "done"}
  BY <1>1 DEF Waiting
<1>4. /\ urun' \in [Users -> BOOLEAN] /\ ~urun'[u]
      /\ \A v \in Users \ {u} : urun'[v] <=> urun[v]
      /\ UNCHANGED aborted
  BY <1>1, SleepOK
<1>5. TypeOK'
  BY <1>1, <1>2, <1>4 DEF TypeOK, serverVars
<1>6. /\ ustate'[u] = "last"
      /\ \A v \in Users \ {u} : ustate'[v] = ustate[v]
  BY <1>1 DEF TypeOK
<1>7. OnlyUser(u)
  BY <1>4, <1>6 DEF OnlyUser
<1>8. RpcsInStep'
  BY <1>1, RpcsBegin DEF msgVars
<1>9. Waiting(u)'
  BY <1>1, <1>2, <1>3, <1>4, <1>6 DEF Waiting
<1>10. WritesOf(u)' /\ ReadsOf(u)'
  BY <1>1, <1>2, <1>6 DEF WritesOf, ReadsOf, AllWritten, After, In
<1>11. Barrier'
  <2>1. params.read /\ params.wait => Finished' = Finished
    <3>1. SUFFICES ASSUME params.read, params.wait
                   PROVE  Finished' = Finished
      OBVIOUS
    <3>2. \A v \in 0..(params.wtnr - 1) : ustate'[v] \in After <=> ustate[v] \in After
      <4>1. 0..(params.wtnr - 1) \subseteq Users
        BY <1>2, ParamsOK
      <4>2. QED
        BY <1>6, <3>1, <4>1 DEF After
    <3>3. QED
      BY <3>2 DEF Finished, After
  <2>2. ~LetGo(u)'
    BY <1>6 DEF LetGo
  <2>3. QED
    BY <1>1, <1>6, <1>7, <2>1, <2>2, BarrierKept DEF Reading
<1>12. QED
  BY <1>4, <1>5, <1>7, <1>8, <1>9, <1>10, <1>11, StepOfUser

(* The open request is on its way to the metadata server.                  *)
LEMMA OpenStepOK ==
  ASSUME IInv, aborted = "no", NEW u \in Users, urun[u], ustate[u] = "open",
         ustate' = [ustate EXCEPT ![u] = "initRW"],
         cl' = [cl EXCEPT ![Open(u)] = "last"],
         msg' = [msg EXCEPT ![Open(u)] = "toServer"], SleepAndWake(u, {}),
         UNCHANGED <<rw, ref, rwQ, finished, params, clrun, serverVars, phase, nt>>
  PROVE  IInv'
<1>1. /\ TypeOK /\ RpcsInStep /\ UsersInStep /\ Barrier
      /\ Waiting(u) /\ WritesOf(u) /\ ReadsOf(u)
  BY DEF IInv, UsersInStep
<1>2. /\ Users' = Users /\ Rpcs' = Rpcs /\ params \in Configs
      /\ WriteRange(u)' = WriteRange(u) /\ ReadRange(u)' = ReadRange(u)
      /\ \A r : Extent(r)' = Extent(r)
      /\ \A cmd : Mine(u, cmd)' = Mine(u, cmd) /\ Mine(u, cmd) \subseteq Rpcs
      /\ Open(u)' = Open(u)
  BY <1>1, ParamsStay DEF TypeOK, Mine, Open
<1>3. /\ ref[u] = 0 /\ u \notin rwQ /\ cl[Open(u)] = "none"
      /\ Open(u) \in Rpcs /\ Open(u).user = u /\ Open(u).cmd = "open"
  BY <1>1, RpcsOK DEF Waiting
<1>4. /\ urun' \in [Users -> BOOLEAN] /\ ~urun'[u]
      /\ \A v \in Users \ {u} : urun'[v] <=> urun[v]
      /\ UNCHANGED aborted
  BY <1>1, SleepOK
<1>5. TypeOK'
  BY <1>1, <1>2, <1>4, ZenonT(60) DEF TypeOK, serverVars, Done
<1>6. /\ ustate'[u] = "initRW" /\ cl'[Open(u)] = "last" /\ msg'[Open(u)] = "toServer"
      /\ \A v \in Users \ {u} : ustate'[v] = ustate[v]
      /\ \A r \in Rpcs \ {Open(u)} : cl'[r] = cl[r] /\ msg'[r] = msg[r]
  BY <1>1, <1>3 DEF TypeOK
<1>7. OnlyUser(u)
  BY <1>3, <1>4, <1>6 DEF OnlyUser
<1>8. RpcsInStep'
  <2>1. Row(Open(u))
    BY <1>1, <1>3 DEF RpcsInStep, Row
  <2>2. StageOf(Open(u))'
    BY <1>2, <1>3, <1>6, <2>1
       DEF Row, StageOf, serverVars, Stage, Fresh, Asked, Bulk, AtDisk,
           Answered, First, Talking
  <2>3. Row(Open(u))'
    BY <1>2, <1>3, <2>1, <2>2 DEF Row, serverVars
  <2>4. OthersStay(Open(u))
    BY <1>6 DEF OthersStay, serverVars
  <2>5. QED
    BY <1>1, <1>3, <2>3, <2>4, RowsKept
<1>9. Waiting(u)'
  <2>1. InFlight(u)' = InFlight(u)
    BY <1>2, <1>3, <1>6 DEF InFlight
  <2>2. QED
    BY <1>1, <1>2, <1>3, <1>4, <1>6, <2>1 DEF Waiting
<1>10. WritesOf(u)' /\ ReadsOf(u)'
  <2>1. \A cmd \in {"write", "read"} : \A r \in Mine(u, cmd) : cl'[r] = cl[r]
    BY <1>3, <1>6 DEF Mine
  <2>2. QED
    BY <1>1, <1>2, <1>6, <2>1 DEF WritesOf, ReadsOf, After
<1>11. Barrier'
  <2>1. Finished' = Finished
    <3>1. \A v \in 0..(params.wtnr - 1) : ustate'[v] \in After <=> ustate[v] \in After
      <4>1. /\ 0..(params.wtnr - 1) \subseteq Users
            /\ u >= params.wtnr => u \notin 0..(params.wtnr - 1)
        BY <1>2, ParamsOK
      <4>2. QED
        BY <1>6, <4>1 DEF After
    <3>2. QED
      BY <3>1 DEF Finished, After
  <2>2. ~LetGo(u)'
    BY <1>6 DEF LetGo
  <2>3. QED
    BY <1>1, <1>3, <1>6, <1>7, <2>1, <2>2, BarrierKept DEF Reading
<1>12. QED
  BY <1>4, <1>5, <1>7, <1>8, <1>9, <1>10, <1>11, StepOfUser

(* A client that only reads waits for all writes.                          *)
LEMMA ReaderStepOK ==
  ASSUME IInv, aborted = "no", NEW u \in Users, urun[u],
         ustate[u] \in {"open", "initRW"},
         params.share, params.read, params.rdnr > params.wtnr, u >= params.wtnr,
         ustate' = [ustate EXCEPT ![u] = "readStart"], rwQ' = rwQ \cup {u},
         SleepAndWake(u, {}),
         UNCHANGED <<rw, cl, ref, finished, params, clrun, serverVars, msg, phase, nt>>
  PROVE  IInv'
<1>1. /\ TypeOK /\ RpcsInStep /\ UsersInStep /\ Barrier
      /\ Waiting(u) /\ WritesOf(u) /\ ReadsOf(u)
  BY DEF IInv, UsersInStep
<1>2. /\ Users' = Users /\ Rpcs' = Rpcs /\ params \in Configs
      /\ WriteRange(u)' = WriteRange(u) /\ ReadRange(u)' = ReadRange(u)
      /\ \A r : Extent(r)' = Extent(r)
      /\ \A cmd : Mine(u, cmd)' = Mine(u, cmd) /\ Mine(u, cmd) \subseteq Rpcs
      /\ Open(u)' = Open(u)
  BY <1>1, ParamsStay DEF TypeOK, Mine, Open
<1>3. /\ ref[u] = 0 /\ cl[Open(u)] \in {"none", "done"}
      /\ params.wait /\ u < params.rdnr /\ ~(u < params.wtnr)
  <2>1. params.wait /\ u < params.rdnr /\ ~(u < params.wtnr)
    BY <1>2, ParamsOK
  <2>2. QED
    BY <1>1, <2>1 DEF Waiting
<1>4. /\ urun' \in [Users -> BOOLEAN] /\ ~urun'[u]
      /\ \A v \in Users \ {u} : urun'[v] <=> urun[v]
      /\ UNCHANGED aborted
  BY <1>1, SleepOK
<1>5. TypeOK'
  BY <1>1, <1>2, <1>4 DEF TypeOK, serverVars
<1>6. /\ ustate'[u] = "readStart" /\ u \in rwQ'
      /\ \A v \in Users \ {u} : ustate'[v] = ustate[v]
  BY <1>1 DEF TypeOK
<1>7. OnlyUser(u)
  BY <1>4, <1>6 DEF OnlyUser
<1>8. RpcsInStep'
  BY <1>1, RpcsBegin DEF msgVars
<1>9. Waiting(u)'
  <2>1. InFlight(u)' = InFlight(u)
    BY <1>2 DEF InFlight
  <2>2. QED
    BY <1>1, <1>2, <1>3, <1>4, <1>6, <2>1 DEF Waiting
<1>10. WritesOf(u)' /\ ReadsOf(u)'
  BY <1>1, <1>2, <1>3, <1>6 DEF WritesOf, ReadsOf, After
<1>11. Barrier'
  <2>1. Finished' = Finished
    <3>1. \A v \in 0..(params.wtnr - 1) : ustate'[v] \in After <=> ustate[v] \in After
      <4>1. /\ 0..(params.wtnr - 1) \subseteq Users
            /\ u >= params.wtnr => u \notin 0..(params.wtnr - 1)
        BY <1>2, ParamsOK
      <4>2. QED
        BY <1>6, <4>1 DEF After
    <3>2. QED
      BY <3>1 DEF Finished, After
  <2>2. ~LetGo(u)'
    BY <1>6 DEF LetGo
  <2>3. QED
    BY <1>1, <1>3, <1>6, <1>7, <2>1, <2>2, BarrierKept DEF Reading
<1>12. QED
  BY <1>4, <1>5, <1>7, <1>8, <1>9, <1>10, <1>11, StepOfUser

(* The interval between two transfers is over.                             *)
LEMMA IntervalStepOK ==
  ASSUME IInv, aborted = "no", NEW u \in Users, urun[u], ustate[u] = "writeInterval",
         ustate' = [ustate EXCEPT ![u] = "writeXfer"],
         UNCHANGED <<urun, rw, cl, ref, rwQ, finished, aborted, params, clrun,
                     serverVars, msg, phase, nt>>
  PROVE  IInv'
<1>1. /\ TypeOK /\ RpcsInStep /\ UsersInStep /\ Barrier
      /\ Waiting(u) /\ WritesOf(u) /\ ReadsOf(u)
  BY DEF IInv, UsersInStep
<1>2. /\ Users' = Users /\ Rpcs' = Rpcs /\ params \in Configs
      /\ WriteRange(u)' = WriteRange(u) /\ ReadRange(u)' = ReadRange(u)
      /\ \A r : Extent(r)' = Extent(r)
      /\ \A cmd : Mine(u, cmd)' = Mine(u, cmd) /\ Mine(u, cmd) \subseteq Rpcs
      /\ Open(u)' = Open(u)
  BY <1>1, ParamsStay DEF TypeOK, Mine, Open
<1>3. TypeOK'
  BY <1>1, <1>2 DEF TypeOK, serverVars
<1>6. /\ ustate'[u] = "writeXfer"
      /\ \A v \in Users \ {u} : ustate'[v] = ustate[v]
  BY <1>1 DEF TypeOK
<1>7. OnlyUser(u)
  BY <1>6 DEF OnlyUser
<1>8. RpcsInStep'
  BY <1>1, RpcsBegin DEF msgVars
<1>9. Waiting(u)'
  <2>1. InFlight(u)' = InFlight(u)
    BY <1>2 DEF InFlight
  <2>2. QED
    BY <1>1, <1>2, <1>6, <2>1 DEF Waiting
<1>10. WritesOf(u)' /\ ReadsOf(u)'
  BY <1>1, <1>2, <1>6 DEF WritesOf, ReadsOf, After, RangeLeft, In
<1>11. Barrier'
  <2>1. Finished' = Finished
    <3>1. \A v \in 0..(params.wtnr - 1) : ustate'[v] \in After <=> ustate[v] \in After
      <4>1. /\ 0..(params.wtnr - 1) \subseteq Users
            /\ u >= params.wtnr => u \notin 0..(params.wtnr - 1)
        BY <1>2, ParamsOK
      <4>2. QED
        BY <1>6, <4>1 DEF After
    <3>2. QED
      BY <3>1 DEF Finished, After
  <2>2. ~LetGo(u)'
    BY <1>6 DEF LetGo
  <2>3. QED
    BY <1>1, <1>6, <1>7, <2>1, <2>2, BarrierKept DEF Reading
<1>12. QED
  BY <1>3, <1>7, <1>8, <1>9, <1>10, <1>11, StepOfUser

(* The user waits for all writes, or lets those go on that do if it is the *)
(* last writer.                                                            *)
LEMMA WaitStepOK ==
  ASSUME IInv, aborted = "no", NEW u \in Users, urun[u],
         ustate[u] \in {"writeXfer", "writeCompletion"}, AllWritten(u),
         params.read, params.wait, WriteCompletion(u),
         UNCHANGED <<params, clrun, serverVars, msg, phase, nt>>
  PROVE  IInv'
<1>1. /\ TypeOK /\ RpcsInStep /\ UsersInStep /\ Barrier
      /\ Waiting(u) /\ WritesOf(u) /\ ReadsOf(u)
  BY DEF IInv, UsersInStep
<1>2. /\ Users' = Users /\ Rpcs' = Rpcs /\ params \in Configs
      /\ WriteRange(u)' = WriteRange(u) /\ ReadRange(u)' = ReadRange(u)
      /\ \A r : Extent(r)' = Extent(r)
      /\ \A cmd : Mine(u, cmd)' = Mine(u, cmd) /\ Mine(u, cmd) \subseteq Rpcs
      /\ Open(u)' = Open(u)
  BY <1>1, ParamsStay DEF TypeOK, Mine, Open
<1> DEFINE leaves == params.share /\ params.wtnr > params.rdnr /\ u >= params.rdnr
           waiting == IF leaves THEN rwQ ELSE rwQ \cup {u}
           n == IF u < params.wtnr THEN finished + 1 ELSE finished
           all == LastWriter(u, n)
<1>3. /\ ref[u] = 0 /\ u \notin rwQ /\ cl[Open(u)] \in {"none", "done"}
      /\ \A v \in rwQ : ~urun[v]
  BY <1>1 DEF Waiting, UsersInStep, TypeOK
<1>4. /\ ustate' = [ustate EXCEPT ![u] = IF leaves THEN "last" ELSE "readStart"]
      /\ finished' = n /\ rwQ' = IF all THEN {} ELSE waiting
      /\ SleepAndWake(u, IF all THEN waiting ELSE {})
      /\ UNCHANGED <<rw, cl, ref>>
  BY DEF WriteCompletion
<1>5. PICK w \in Nat \ {0}, d \in Nat \ {0}, k \in Nat, f \in Nat :
         /\ w = params.wtnr /\ d = params.rdnr /\ k = u /\ f = finished
         /\ f <= w /\ (w > d => k < w)
         /\ ~(w > d) => k < d
  <2>1. /\ params.wtnr \in Nat \ {0} /\ params.rdnr \in Nat \ {0}
        /\ Clients \in {params.wtnr, params.rdnr} /\ params.wtnr <= Clients
        /\ params.rdnr <= Clients /\ u \in 0..(Clients - 1)
    BY <1>2, ParamsOK
  <2>2. finished \in 0..params.wtnr
    BY <1>1 DEF TypeOK
  <2>3. u \in Nat /\ (params.wtnr > params.rdnr => u < params.wtnr)
                  /\ (~(params.wtnr > params.rdnr) => u < params.rdnr)
    BY <2>1
  <2>4. QED
    BY <2>1, <2>2, <2>3
(* The count of the writers that are finished.                             *)
<1>6. /\ Finished' = IF u < params.wtnr THEN Finished \cup {u} ELSE Finished
      /\ n = Cardinality(Finished')
      /\ n \in 0..params.wtnr
      /\ finished = params.wtnr => n = params.wtnr /\ ~all
      /\ all => n = params.wtnr
  <2>1. /\ finished = Cardinality(Finished) /\ u \notin Finished
        /\ Finished \in SUBSET (0..(w - 1))
    BY <1>1, <1>5 DEF Barrier, Finished, After
  <2>2. IsFiniteSet(0..(w - 1)) /\ Cardinality(0..(w - 1)) = w
    BY FirstNumbers
  <2>3. IsFiniteSet(Finished)
    BY <2>1, <2>2, FS_Subset, Zenon
  <2>4. CASE u < params.wtnr
    <3>1. Finished' = Finished \cup {u}
      <4>1. \A v \in 0..(w - 1) :
              ustate'[v] \in After <=> ustate[v] \in After \/ v = u
        <5>1. 0..(w - 1) \subseteq Users
          BY <1>2, <1>5, ParamsOK
        <5>2. QED
          BY <1>1, <1>4, <5>1 DEF After, TypeOK
      <4>2. Finished' = {v \in 0..(w - 1) : ustate'[v] \in After}
        BY <1>5 DEF Finished, After
      <4>3. Finished = {v \in 0..(w - 1) : ustate[v] \in After}
        BY <1>5 DEF Finished, After
      <4>4. u \in 0..(w - 1)
        BY <1>5, <2>4
      <4>5. QED
        BY <4>1, <4>2, <4>3, <4>4
    <3>2. Finished \cup {u} \in SUBSET (0..(w - 1))
      BY <1>5, <2>1, <2>4
    <3>3. Cardinality(Finished \cup {u}) = Cardinality(Finished) + 1
      BY <2>1, <2>3, FS_AddElement, Zenon
    <3>4. Cardinality(Finished \cup {u}) <= w
      BY <2>2, <3>2, FS_Subset, Zenon
    <3>5. n = f + 1 /\ f + 1 <= w
      BY <1>5, <2>1, <2>4, <3>3, <3>4
    <3>6. finished # params.wtnr /\ n \in 0..params.wtnr
      BY <1>5, <3>5
    <3>7. all => n = params.wtnr
      BY <1>5, <3>5 DEF LastWriter
    <3>8. n = Cardinality(Finished')
      BY <1>5, <2>1, <3>1, <3>3, <3>5
    <3> HIDE DEF n, all
    <3>9. QED
      BY <2>4, <3>1, <3>6, <3>7, <3>8
  <2>5. CASE ~(u < params.wtnr)
    <3>1. Finished' = Finished
      <4>1. \A v \in 0..(w - 1) : ustate'[v] = ustate[v]
        <5>1. 0..(w - 1) \subseteq Users /\ u \notin 0..(w - 1)
          BY <1>2, <1>5, <2>5, ParamsOK
        <5>2. QED
          BY <1>1, <1>4, <5>1 DEF TypeOK
      <4>2. QED
        BY <1>5, <4>1 DEF Finished, After
    <3>2. n = f /\ ~all
      BY <1>5, <2>5 DEF LastWriter
    <3> HIDE DEF n, all
    <3>3. QED
      BY <1>5, <2>1, <2>5, <3>1, <3>2
  <2>6. QED
    BY <2>4, <2>5
<1> HIDE DEF n, all
<1>7. /\ \A v \in Users : urun'[v] <=> (v # u /\ urun[v]) \/ (all /\ v \in waiting)
      /\ urun' \in [Users -> BOOLEAN]
  BY <1>1, <1>4 DEF SleepAndWake, TypeOK
<1>8. UNCHANGED aborted
  BY <1>1, <1>3, <1>4 DEF SleepAndWake, TypeOK
<1>9. TypeOK'
  <2>1. rwQ' \subseteq Users
    BY <1>1, <1>4 DEF TypeOK
  <2>2. finished' \in 0..params'.wtnr
    BY <1>4, <1>6
  <2>3. ustate' \in [Users -> {"open", "initRW", "writeXfer", "writeInterval",
                              "writeCompletion", "readStart", "readXfer",
                              "readCompletion", "last"}]
    BY <1>1, <1>4 DEF TypeOK
  <2>4. QED
    BY <1>1, <1>2, <1>4, <1>7, <1>8, <2>1, <2>2, <2>3 DEF TypeOK, serverVars
<1>10. /\ ustate'[u] = IF leaves THEN "last" ELSE "readStart"
       /\ \A v \in Users \ {u} : ustate'[v] = ustate[v]
  BY <1>1, <1>4 DEF TypeOK
<1>11. OnlyUser(u)
  BY <1>3, <1>4, <1>7, <1>10 DEF OnlyUser
<1>12. RpcsInStep'
  BY <1>1, <1>4, RpcsBegin DEF msgVars
<1>13. Waiting(u)'
  <2>1. InFlight(u)' = InFlight(u)
    BY <1>2, <1>4 DEF InFlight
  <2>2. IF leaves THEN ~urun'[u] /\ u \notin rwQ'
        ELSE urun'[u] <=> u \notin rwQ'
    BY <1>3, <1>4, <1>7
  <2>3. /\ ref'[u] = 0 /\ cl'[Open(u)] \in {"none", "done"}
        /\ IsFiniteSet(InFlight(u)) /\ Cardinality(InFlight(u)) = 0
        /\ urun'[u] \in BOOLEAN
    BY <1>1, <1>3, <1>4, <1>7 DEF Waiting
  <2>4. CASE leaves
    <3>1. ustate'[u] = "last" /\ ~urun'[u] /\ u \notin rwQ'
      BY <1>10, <2>2, <2>4
    <3>2. QED
      BY <1>2, <2>1, <2>3, <3>1 DEF Waiting
  <2>5. CASE ~leaves
    <3>1. ustate'[u] = "readStart" /\ (urun'[u] <=> u \notin rwQ')
      BY <1>10, <2>2, <2>5
    <3>2. QED
      BY <1>2, <2>1, <2>3, <3>1 DEF Waiting
  <2>6. QED
    BY <2>4, <2>5
<1>14. WritesOf(u)' /\ ReadsOf(u)'
  BY <1>1, <1>2, <1>4, <1>10 DEF WritesOf, ReadsOf, AllWritten, After, In
<1>15. Barrier'
  <2>1. finished' = Cardinality(Finished') /\ params' = params
    BY <1>4, <1>6
  <2>2. ustate'[u] = "readStart" /\ params.share => u < params.rdnr
    BY <1>5, <1>10
  <2>3. ASSUME NEW v \in Users, LetGo(v)'
        PROVE  finished' = params.wtnr
    <3>1. CASE all
      BY <1>4, <1>6, <3>1
    <3>2. CASE ~all
      <4>1. v # u
        BY <1>4, <1>10, <2>3, <3>2 DEF LetGo
      <4>2. LetGo(v)
        BY <1>4, <1>10, <2>3, <3>2, <4>1 DEF LetGo
      <4>3. finished = params.wtnr
        BY <1>1, <4>2 DEF Barrier
      <4>4. QED
        BY <1>4, <1>6, <4>3
    <3>3. QED
      BY <3>1, <3>2
  <2>4. ASSUME NEW r \in Rpcs, r.cmd = "read", cl'[r] # "none"
        PROVE  finished' = params.wtnr
    <3>1. finished = params.wtnr
      BY <1>1, <1>4, <2>4 DEF Barrier
    <3>2. QED
      BY <1>4, <1>6, <3>1
  <2>5. \A v \in Users :
          /\ ustate'[v] = "readStart" => params.wait
          /\ ustate'[v] \in Reading =>
           params.read /\ (params.share /\ params.wait => v < params.rdnr)
    BY <1>1, <1>10, <2>2 DEF Barrier, Reading
  <2>6. QED
    BY <1>2, <2>1, <2>3, <2>4, <2>5 DEF Barrier, Reading
<1>16. QED
  BY <1>8, <1>9, <1>11, <1>12, <1>13, <1>14, <1>15, StepOfUser

(* Transfers: user_WriteXferState and user_ReadXferState.                  *)
LEMMA TransferOK ==
  ASSUME NEW count \in Nat \ {0}, NEW xfer \in Nat \ {0}
  PROVE  Min({count, xfer}) \in 1..count
BY MinOfTwo

LEMMA ReadXferOK ==
  ASSUME IInv, aborted = "no", NEW u \in Users, urun[u],
         ustate[u] \in {"writeXfer", "writeCompletion", "readStart", "readXfer"},
         AllWritten(u), params.read, params.xfer # 0,
         params.share /\ params.wait => u < params.rdnr,
         params.wait => ustate[u] \in After /\ finished = params.wtnr,
         NEW off \in Nat, NEW count \in Nat, ReadRange(u).off <= off,
         off + count = ReadRange(u).off + ReadRange(u).count,
         \A r \in Mine(u, "read") : off <= r.off => cl[r] = "none",
         ReadXfer(u, off, count), SleepAndWake(u, {}),
         UNCHANGED <<rwQ, finished, params, clrun, serverVars, msg, phase, nt>>
  PROVE  IInv'
<1>1. CASE count = 0
  BY <1>1, LastStepOK DEF ReadXfer, ReadCompletion
<1>2. CASE count # 0
  <2>1. params.xfer \in Nat \ {0}
    BY ParamsOK DEF IInv, TypeOK
  <2>2. PICK n \in 1..count : n = Min({count, params.xfer})
    BY <1>2, <2>1, TransferOK
  <2>3. PICK x \in [off : Nat, count : Nat] : x = [off |-> off + n, count |-> count - n]
    <3>1. off + n \in Nat /\ count - n \in Nat
      OBVIOUS
    <3>2. QED
      BY <3>1
  <2>4. /\ ustate' = [ustate EXCEPT ![u] = "readXfer"]
        /\ rw' = [rw EXCEPT ![u] = x] /\ ReadWrite(u, "read", off, n)
    BY <1>2, <2>2, <2>3 DEF ReadXfer
  <2>5. count \in Nat \ {0}
    BY <1>2
  <2>6. QED
    BY <2>1, <2>3, <2>4, <2>5, ReadStepOK
<1>3. QED
  BY <1>1, <1>2

LEMMA ReadStartOK ==
  ASSUME IInv, aborted = "no", NEW u \in Users, urun[u],
         ustate[u] \in {"writeXfer", "writeCompletion", "readStart"},
         AllWritten(u), params.read,
         params.share /\ params.wait => u < params.rdnr,
         params.wait => ustate[u] \in After /\ finished = params.wtnr,
         ReadStart(u), SleepAndWake(u, {}),
         UNCHANGED <<rwQ, finished, params, clrun, serverVars, msg, phase, nt>>
  PROVE  IInv'
<1>1. ReadRange(u) \in [off : Nat, count : Nat \ {0}]
  BY RangesOK DEF IInv, TypeOK
<1>2. PICK off \in Nat, count \in Nat \ {0} :
         /\ off = ReadRange(u).off /\ count = ReadRange(u).count
         /\ ReadRange(u).off <= off
         /\ off + count = ReadRange(u).off + ReadRange(u).count
  BY <1>1
<1>3. \A r \in Mine(u, "read") : cl[r] = "none"
  BY DEF IInv, UsersInStep, ReadsOf
<1>4. CASE params.xfer # 0
  <2>1. ReadXfer(u, off, count)
    BY <1>2, <1>4 DEF ReadStart
  <2>2. QED
    BY <1>2, <1>3, <1>4, <2>1, ReadXferOK
<1>5. CASE params.xfer = 0
  <2>1. PICK x \in [off : Nat, count : Nat] : x = ReadRange(u)
    BY <1>1
  <2>2. /\ ustate' = [ustate EXCEPT ![u] = "readCompletion"]
        /\ rw' = [rw EXCEPT ![u] = x] /\ ReadWrite(u, "read", off, count)
    BY <1>2, <1>5, <2>1 DEF ReadStart
  <2>3. count \in 1..count
    OBVIOUS
  <2>4. QED
    BY <1>2, <1>3, <2>2, <2>3, ReadStepOK
<1>6. QED
  BY <1>4, <1>5

(* A user that waits for no chunk and has handed over all its chunks has   *)
(* written all its range.                                                  *)
LEMMA AllWrittenOK ==
  ASSUME IInv, NEW u \in Users, urun[u],
         \/ ustate[u] \in {"writeCompletion"} \cup After
         \/ ustate[u] = "writeXfer" /\ rw[u].count = 0
  PROVE  AllWritten(u)
<1>1. /\ TypeOK /\ Waiting(u) /\ WritesOf(u)
      /\ WriteRange(u) \in [off : Nat, count : Nat \ {0}]
  BY RangesOK DEF IInv, UsersInStep, TypeOK
<1>2. InFlight(u) = {}
  BY <1>1, FS_EmptySet DEF Waiting
<1>3. \A r \in Mine(u, "write") : cl[r] \in {"none", "done"}
  BY <1>2 DEF Mine, InFlight
<1>4. CASE ustate[u] \in After
  BY <1>1, <1>4 DEF WritesOf, AllWritten
<1>5. CASE ustate[u] = "writeCompletion"
  BY <1>1, <1>3, <1>5 DEF WritesOf, AllWritten
<1>6. CASE ustate[u] = "writeXfer" /\ rw[u].count = 0
  <2>1. PICK x \in Nat : x = rw[u].off
    BY <1>1 DEF TypeOK
  <2>2. x + 0 = WriteRange(u).off + WriteRange(u).count
    BY <1>1, <1>6, <2>1 DEF WritesOf, RangeLeft
  <2>3. \A r \in Mine(u, "write") : In(r, WriteRange(u)) => r.off < rw[u].off
    BY <1>1, <2>1, <2>2 DEF In
  <2>4. QED
    BY <1>1, <1>3, <1>6, <2>3 DEF WritesOf, AllWritten
<1>7. QED
  BY <1>4, <1>5, <1>6

LEMMA WriteCompletionOK ==
  ASSUME IInv, aborted = "no", NEW u \in Users, urun[u],
         ustate[u] \in {"writeXfer", "writeCompletion"}, AllWritten(u),
         WriteCompletion(u),
         UNCHANGED <<params, clrun, serverVars, msg, phase, nt>>
  PROVE  IInv'
<1>1. CASE ~params.read
  BY <1>1, LastStepOK DEF WriteCompletion
<1>2. CASE params.read /\ params.wait
  BY <1>2, WaitStepOK
<1>3. CASE params.read /\ ~params.wait
  <2>1. ReadStart(u) /\ SleepAndWake(u, {}) /\ UNCHANGED <<rwQ, finished>>
    BY <1>3 DEF WriteCompletion
  <2>2. QED
    BY <1>3, <2>1, ReadStartOK
<1>4. QED
  BY <1>1, <1>2, <1>3

LEMMA WriteXferOK ==
  ASSUME IInv, aborted = "no", NEW u \in Users, urun[u], params.xfer # 0,
         ustate[u] \in {"open", "initRW", "writeXfer"},
         NEW off \in Nat, NEW count \in Nat \ {0}, WriteRange(u).off <= off,
         off + count = WriteRange(u).off + WriteRange(u).count,
         \A r \in Mine(u, "write") :
           /\ off <= r.off => cl[r] = "none"
           /\ In(r, WriteRange(u)) /\ r.off < off => cl[r] # "none",
         WriteXfer(u, off, count),
         UNCHANGED <<params, clrun, serverVars, msg, phase, nt>>
  PROVE  IInv'
<1>1. params.xfer \in Nat \ {0}
  BY ParamsOK DEF IInv, TypeOK
<1>2. PICK n \in 1..count : n = Min({count, params.xfer})
  BY <1>1, TransferOK
<1>3. PICK x \in [off : Nat, count : Nat] : x = [off |-> off + n, count |-> count - n]
  <2>1. off + n \in Nat /\ count - n \in Nat
    OBVIOUS
  <2>2. QED
    BY <2>1
<1>4. PICK next \in {"writeXfer", "writeInterval", "writeCompletion"} :
         /\ next = "writeCompletion" => n = count
         /\ ustate' = [ustate EXCEPT ![u] = next]
  BY <1>2 DEF WriteXfer
<1>5. /\ rw' = [rw EXCEPT ![u] = x] /\ ReadWrite(u, "write", off, n)
      /\ SleepAndWake(u, {}) /\ UNCHANGED <<rwQ, finished>>
  BY <1>2, <1>3 DEF WriteXfer
<1>6. QED
  BY <1>1, <1>3, <1>4, <1>5, WriteStepOK

LEMMA InitRWOK ==
  ASSUME IInv, aborted = "no", NEW u \in Users, urun[u],
         ustate[u] \in {"open", "initRW"}, InitRW(u),
         UNCHANGED <<params, clrun, serverVars, msg, phase, nt>>
  PROVE  IInv'
<1>1. WriteRange(u) \in [off : Nat, count : Nat \ {0}]
  BY RangesOK DEF IInv, TypeOK
<1>2. PICK off \in Nat, count \in Nat \ {0} :
         /\ off = WriteRange(u).off /\ count = WriteRange(u).count
         /\ WriteRange(u).off <= off
         /\ off + count = WriteRange(u).off + WriteRange(u).count
  BY <1>1
<1>3. \A r \in Mine(u, "write") :
        /\ off <= r.off => cl[r] = "none"
        /\ In(r, WriteRange(u)) /\ r.off < off => cl[r] # "none"
  <2>1. ASSUME NEW r \in Mine(u, "write")
        PROVE  cl[r] = "none" /\ r.off \in Nat
    <3>1. r.off \in 0..(FileEnd - 1) \/ r.off = 0
      BY RpcsOK DEF Mine
    <3>2. FileEnd \in Nat
      BY ParamsOK DEF IInv, TypeOK
    <3>3. WritesOf(u)
      BY DEF IInv, UsersInStep
    <3>4. QED
      BY <3>1, <3>2, <3>3 DEF WritesOf
  <2>2. QED
    BY <1>2, <2>1 DEF In
<1>4. CASE params.share /\ params.read /\ params.rdnr > params.wtnr /\ u >= params.wtnr
  <2>1. /\ ustate' = [ustate EXCEPT ![u] = "readStart"] /\ rwQ' = rwQ \cup {u}
        /\ SleepAndWake(u, {}) /\ UNCHANGED <<rw, cl, ref, finished>>
    BY <1>4 DEF InitRW
  <2>2. QED
    BY <1>4, <2>1, ReaderStepOK
<1>5. CASE ~(params.share /\ params.read /\ params.rdnr > params.wtnr /\ u >= params.wtnr)
  <2>1. CASE params.xfer # 0
    <3>1. WriteXfer(u, off, count)
      BY <1>2, <1>5, <2>1 DEF InitRW
    <3>2. QED
      BY <1>2, <1>3, <2>1, <3>1, WriteXferOK
  <2>2. CASE params.xfer = 0
    <3>1. PICK x \in [off : Nat, count : Nat] : x = WriteRange(u)
      BY <1>1
    <3>2. /\ ustate' = [ustate EXCEPT ![u] = "writeCompletion"]
          /\ rw' = [rw EXCEPT ![u] = x] /\ ReadWrite(u, "write", off, count)
          /\ SleepAndWake(u, {}) /\ UNCHANGED <<rwQ, finished>>
      BY <1>2, <1>5, <2>2, <3>1 DEF InitRW
    <3>3. count \in 1..count
      OBVIOUS
    <3>4. QED
      BY <1>2, <1>3, <3>2, <3>3, WriteStepOK
  <2>3. QED
    BY <2>1, <2>2
<1>6. QED
  BY <1>4, <1>5

(* Every step of a user keeps the invariant.                               *)
LEMMA UserStepOK ==
  ASSUME IInv, aborted = "no", NEW u \in Users, UserStateMachine(u)
  PROVE  IInv'
<1>1. urun[u] /\ UNCHANGED <<params, clrun, serverVars, phase, nt>>
  BY DEF UserStateMachine
<1>2. /\ TypeOK /\ UsersInStep /\ Barrier /\ Waiting(u) /\ WritesOf(u) /\ ReadsOf(u)
      /\ u \notin rwQ
  BY <1>1 DEF IInv, UsersInStep, Waiting
<1>3. PICK off \in Nat, count \in Nat : off = rw[u].off /\ count = rw[u].count
  BY <1>2 DEF TypeOK
<1>4. CASE ustate[u] = "open" /\ params.mdt
  BY <1>1, <1>4, OpenStepOK DEF UserStateMachine, Open
<1>5. CASE \/ ustate[u] = "open" /\ ~params.mdt
           \/ ustate[u] = "initRW"
  <2>1. InitRW(u) /\ UNCHANGED msg
    BY <1>5 DEF UserStateMachine
  <2>2. QED
    BY <1>1, <1>5, <2>1, InitRWOK
<1>6. CASE ustate[u] = "writeXfer"
  <2>1. WriteXfer(u, off, count) /\ UNCHANGED msg
    BY <1>3, <1>6 DEF UserStateMachine
  <2>2. CASE count = 0
    <3>1. WriteCompletion(u)
      BY <2>1, <2>2 DEF WriteXfer
    <3>2. AllWritten(u)
      BY <1>1, <1>3, <1>6, <2>2, AllWrittenOK
    <3>3. QED
      BY <1>1, <1>6, <2>1, <3>1, <3>2, WriteCompletionOK
  <2>3. CASE count # 0
    <3>1. /\ params.xfer # 0 /\ WriteRange(u).off <= off
          /\ off + count = WriteRange(u).off + WriteRange(u).count
          /\ \A r \in Mine(u, "write") :
               /\ off <= r.off => cl[r] = "none"
               /\ In(r, WriteRange(u)) /\ r.off < off => cl[r] # "none"
      BY <1>2, <1>3, <1>6 DEF WritesOf, RangeLeft
    <3>2. count \in Nat \ {0}
      BY <2>3
    <3>3. QED
      BY <1>1, <1>6, <2>1, <3>1, <3>2, WriteXferOK
  <2>4. QED
    BY <2>2, <2>3
<1>7. CASE ustate[u] = "writeInterval"
  <2>1. /\ ustate' = [ustate EXCEPT ![u] = "writeXfer"]
        /\ UNCHANGED <<urun, rw, cl, ref, rwQ, finished, msg, aborted>>
    BY <1>7 DEF UserStateMachine
  <2>2. QED
    BY <1>1, <1>7, <2>1, IntervalStepOK
<1>8. CASE ustate[u] = "writeCompletion"
  <2>1. WriteCompletion(u) /\ UNCHANGED msg
    BY <1>8 DEF UserStateMachine
  <2>2. AllWritten(u)
    BY <1>1, <1>8, AllWrittenOK
  <2>3. QED
    BY <1>1, <1>8, <2>1, <2>2, WriteCompletionOK
<1>9. CASE ustate[u] \in {"readStart", "readXfer", "readCompletion"}
  <2>1. SleepAndWake(u, {}) /\ UNCHANGED <<rwQ, finished, msg>>
    BY <1>9 DEF UserStateMachine
  <2>2. AllWritten(u) /\ ustate[u] \in After
    BY <1>1, <1>9, AllWrittenOK DEF After
  <2>3. LetGo(u)
    BY <1>2, <1>9 DEF LetGo
  <2>4. CASE ustate[u] = "readStart"
    <3>1. ReadStart(u)
      BY <2>4 DEF UserStateMachine
    <3>2. /\ params.read /\ params.wait /\ finished = params.wtnr
          /\ params.share => u < params.rdnr
      BY <1>2, <2>3, <2>4 DEF Barrier, Reading
    <3>3. QED
      BY <1>1, <2>1, <2>2, <2>4, <3>1, <3>2, ReadStartOK
  <2>5. CASE ustate[u] = "readXfer"
    <3>1. ReadXfer(u, off, count)
      BY <1>3, <2>5 DEF UserStateMachine
    <3>2. CASE count = 0
      <4>1. ReadCompletion(u)
        BY <3>1, <3>2 DEF ReadXfer
      <4>2. QED
        BY <1>1, <2>1, <2>2, <2>5, <4>1, LastStepOK DEF ReadCompletion
    <3>3. CASE count # 0
      <4>1. /\ params.xfer # 0 /\ ReadRange(u).off <= off
            /\ off + count = ReadRange(u).off + ReadRange(u).count
            /\ \A r \in Mine(u, "read") : off <= r.off => cl[r] = "none"
        BY <1>2, <1>3, <2>5 DEF ReadsOf, RangeLeft
      <4>2. /\ params.read /\ (params.share /\ params.wait => u < params.rdnr)
            /\ params.wait => finished = params.wtnr
        BY <1>2, <2>3, <2>5 DEF Barrier, Reading
      <4>3. QED
        BY <1>1, <2>1, <2>2, <2>5, <3>1, <4>1, <4>2, ReadXferOK
    <3>4. QED
      BY <3>2, <3>3
  <2>6. CASE ustate[u] = "readCompletion"
    <3>1. ReadCompletion(u)
      BY <2>6 DEF UserStateMachine
    <3>2. QED
      BY <1>1, <2>1, <2>2, <2>6, <3>1, LastStepOK DEF ReadCompletion
  <2>7. QED
    BY <1>9, <2>4, <2>5, <2>6
<1>10. QED
  BY <1>4, <1>5, <1>6, <1>7, <1>8, <1>9 DEF UserStateMachine
-----------------------------------------------------------------------------
LEMMA InitOK ==
  ASSUME Init
  PROVE  IInv
<1>1. /\ params \in Configs /\ params.wtnr \in Nat \ {0}
      /\ 0..(params.wtnr - 1) \subseteq Users
  <2>1. params \in Configs
    BY DEF Init
  <2>2. /\ params.wtnr \in Nat \ {0} /\ params.wtnr <= Clients /\ Clients \in Nat
        /\ Users = 0..(Clients - 1)
    BY <2>1, ParamsOK
  <2>3. QED
    BY <2>1, <2>2
<1>2. MaxParts \in Nat
  BY ThreadsAssumption
<1>3. TypeOK
  BY <1>1, <1>2 DEF Init, TypeOK, Done
<1>4. RpcsInStep
  BY <1>2 DEF Init, RpcsInStep, StageOf, Stage, Fresh
<1>5. ASSUME NEW u \in Users
      PROVE  Waiting(u) /\ WritesOf(u) /\ ReadsOf(u)
  <2>1. InFlight(u) = {}
    BY DEF Init, InFlight
  <2>2. IsFiniteSet(InFlight(u)) /\ Cardinality(InFlight(u)) = 0
    BY <2>1, FS_EmptySet
  <2>3. cl[Open(u)] = "none"
    BY RpcsOK DEF Init
  <2>4. Waiting(u)
    BY <2>2, <2>3 DEF Init, Waiting
  <2>5. WritesOf(u) /\ ReadsOf(u)
    BY DEF Init, WritesOf, ReadsOf, Mine, After
  <2>6. QED
    BY <2>4, <2>5
<1>6. Barrier
  <2>1. Finished = {}
    BY <1>1 DEF Init, Finished, After
  <2>2. Cardinality(Finished) = 0
    BY <2>1, FS_EmptySet
  <2>3. QED
    BY <2>2 DEF Init, Barrier, LetGo, Reading
<1>7. QED
  BY <1>3, <1>4, <1>5, <1>6 DEF Init, IInv, UsersInStep

LEMMA StutterOK ==
  ASSUME IInv, UNCHANGED vars
  PROVE  IInv'
<1>1. /\ UNCHANGED <<params, userVars, clrun, serverVars, msgVars, aborted>>
      /\ \A q \in Rpcs : cl'[q] = cl[q]
  BY DEF vars, clientVars
<1>2. Rpcs' = Rpcs /\ Users' = Users /\ Misplaced' = Misplaced /\ \A r : Extent(r)' = Extent(r)
  BY <1>1, ParamsStay
<1>3. RpcsInStep'
  BY <1>1, RpcsBegin DEF IInv
<1>4. UsersInStep' /\ Barrier'
  BY <1>1, UsersUnaffected DEF IInv
<1>5. TypeOK'
  BY <1>1, <1>2
     DEF IInv, TypeOK, vars, clientVars, userVars, serverVars, msgVars
<1>6. QED
  BY <1>1, <1>2, <1>3, <1>4, <1>5 DEF IInv

(* The invariant holds for any number of clients and servers, whatever the *)
(* sizes and the flags.                                                    *)
THEOREM Invariance == Spec => []IInv
<1>1. Init => IInv
  BY InitOK
<1>2. IInv /\ [Next]_vars => IInv'
  <2> SUFFICES ASSUME IInv, [Next]_vars
               PROVE  IInv'
    OBVIOUS
  <2>1. CASE Next
    <3>1. aborted = "no"
      BY <2>1 DEF Next
    <3>2. CASE \E u \in Users : UserStateMachine(u)
      BY <3>1, <3>2, UserStepOK
    <3>3. CASE \E r \in Rpcs : RpcStep(r)
      BY <3>1, <3>3, RpcStepOK
    <3>4. QED
      BY <2>1, <3>2, <3>3 DEF Next, RpcStep
  <2>2. CASE UNCHANGED vars
    BY <2>2, StutterOK
  <2>3. QED
    BY <2>1, <2>2
<1>3. QED
  BY <1>1, <1>2, PTL DEF Spec

(* The threads at both ends of an RPC and the disk hand over to each other *)
(* without losing step, and a user waits for as many chunks as are under   *)
(* way (client.cpp:546-676, ost.cpp:125-260, event.cpp:236).               *)
THEOREM HandlersCorrect == Spec => []HandlersInStep
<1>1. IInv => HandlersInStep
  <2> SUFFICES ASSUME IInv
               PROVE  HandlersInStep
    OBVIOUS
  <2>1. ASSUME NEW r \in Rpcs
        PROVE  /\ cl[r] \in {"recvGet", "recvPut", "last"} /\ ~clrun[r] =>
                    msg[r] # "none" \/ srvrun[r] \/ srv[r] = "queued" \/ ioref[r] > 0
               /\ srv[r] \notin Done /\ ~srvrun[r] =>
                    msg[r] # "none" \/ clrun[r] \/ ioref[r] > 0
               /\ clrun[r] => msg[r] = "none" /\ ~srvrun[r] /\ ioref[r] = 0
               /\ cl[r] = "done" => srv[r] = "done" /\ ~srvrun[r] /\ msg[r] = "none"
    <3>1. Row(r) /\ r.cmd \in {"write", "read", "open"}
      BY RpcsOK DEF IInv, RpcsInStep, Row
    <3>2. PICK i \in Nat : i = ioref[r] /\ (i # 0 => i > 0)
      BY ThreadsAssumption DEF IInv, TypeOK
    <3>3. QED
      BY <3>1, <3>2
         DEF Row, StageOf, Stage, Fresh, Asked, Bulk, AtDisk, Answered, 
                        First, Talking, Done
  <2>2. ASSUME NEW u \in Users
        PROVE  /\ ref[u] = Cardinality({r \in Rpcs : /\ r.user = u /\ r.cmd # "open"
                                                     /\ cl[r] \notin {"none", "done"}})
               /\ urun[u] => ref[u] = 0
               /\ ~urun[u] /\ ustate[u] # "last" =>
                    ref[u] > 0 \/ u \in rwQ \/ ustate[u] = "initRW"
    BY DEF IInv, UsersInStep, Waiting, InFlight
  <2>3. QED
    BY <2>1, <2>2 DEF IInv, HandlersInStep
<1>2. QED
  BY <1>1, Invariance, PTL

(* What a user was told to be written is on the disk, and a user that is   *)
(* past its writes has written all of its range (client.cpp:538-597).      *)
THEOREM WritesCorrect == Spec => []WritesDurable
<1>1. IInv => WritesDurable
  <2> SUFFICES ASSUME IInv
               PROVE  WritesDurable
    OBVIOUS
  <2>1. ASSUME NEW r \in Rpcs, r.cmd = "write", cl[r] = "done"
        PROVE  Extent(r) \in extents /\ left[r] = 0 /\ ioref[r] = 0
    <3>1. Row(r)
      BY DEF IInv, RpcsInStep, Row
    <3>2. srv[r] = "done" /\ left[r] = 0 /\ ioref[r] = 0
      BY <2>1, <3>1
         DEF Row, StageOf, Stage, Fresh, Asked, Bulk, AtDisk, Answered, 
                        First
    <3>3. QED
      BY <2>1, <3>1, <3>2 DEF Row
  <2>2. ASSUME NEW u \in 0..(params.wtnr - 1),
               ustate[u] \in {"readStart", "readXfer", "readCompletion", "last"},
               NEW r \in Rpcs, r.user = u, r.cmd = "write",
               WriteRange(u).off <= r.off,
               r.off < WriteRange(u).off + WriteRange(u).count
        PROVE  cl[r] = "done"
    <3>1. u \in Users /\ u < params.wtnr
      BY ParamsOK DEF IInv, TypeOK
    <3>2. WritesOf(u) /\ r \in Mine(u, "write") /\ In(r, WriteRange(u))
      BY <2>2, <3>1 DEF IInv, UsersInStep, Mine, In
    <3>3. QED
      BY <2>2, <3>1, <3>2 DEF WritesOf, After
  <2>3. QED
    BY <2>1, <2>2 DEF WritesDurable
<1>2. QED
  BY <1>1, Invariance, PTL

(* Readers start after the last writer, and where the stripes of the file  *)
(* begin at the same server for all clients they find what was written     *)
(* (client.cpp:438-455, filesystem.cpp:440).                               *)
THEOREM ReadsCorrect == Spec => []ReadsSeeWrites
<1>1. IInv => ReadsSeeWrites
  <2> SUFFICES ASSUME IInv
               PROVE  ReadsSeeWrites
    OBVIOUS
  <2>1. ASSUME NEW r \in Rpcs, r.cmd = "read", cl[r] # "none", params.wait,
               NEW u \in 0..(params.wtnr - 1)
        PROVE  ref[u] = 0 \/ ustate[u] \in {"readXfer", "readCompletion"}
    <3>1. ustate[u] \in After
      BY <2>1, AllFinished DEF IInv
    <3>2. u \in Users
      BY ParamsOK DEF IInv, TypeOK
    <3>3. QED
      BY <3>1, <3>2 DEF IInv, UsersInStep, Waiting, After
  <2>2. QED
    BY <2>1 DEF IInv, ReadsSeeWrites
<1>2. QED
  BY <1>1, Invariance, PTL
=============================================================================
