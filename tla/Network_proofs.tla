--------------------------- MODULE Network_proofs ---------------------------
(***************************************************************************)
(* The safety of Network for every set of interfaces and messages, every   *)
(* number of packets and every capacity.  That a place is counted once,    *)
(* and a message raised when its last packet has been taken in, rests on   *)
(* the order of the packets: those of one message follow each other from   *)
(* the sender over the air and the receiver's queue to the receiver, none  *)
(* missing and none twice.  InOrder says so, and IInv is inductive.        *)
(***************************************************************************)
EXTENDS Network, TLAPS, FiniteSetTheorems, SequenceTheorems

\* A NIC has a packet that it sends, or that waits in blkQ.
Active(s) == s.state \in {"TxPacket", "Congest"}

\* How many packets of message m have left the NIC of its sender.
Launched(m) ==
  LET s == snd[Src[m]]
  IN  IF m \notin sent \/ m \in ToSet(s.msgQ) THEN 0
      ELSE IF Active(s) /\ s.txp[1] = m THEN s.txp[2] - 1
      ELSE Packets[m]

Air(n) == ToSet(air[n])
Queued(n) == ToSet(rcv[n].inQ)
Received(n) == IF rcv[n].state = "RxDone" THEN {rcv[n].rxp} ELSE {}

\* A message waits in the queue of its sender or is the one it sends; what a
\* NIC blocked on is in blkQ.
SendersConsistent ==
  /\ \A n \in Nics :
       /\ Active(snd[n]) => snd[n].txp \in PacketSet /\ snd[n].txp[1] \in sent
                            /\ snd[n].txp[1] \notin ToSet(snd[n].msgQ)
       /\ snd[n].txp \in PacketSet => Src[snd[n].txp[1]] = n
       /\ IsInjective(snd[n].msgQ)
       /\ \A m \in ToSet(snd[n].msgQ) : m \in sent /\ Src[m] = n
       /\ snd[n].state = "Congest" => snd[n].txp \in ToSet(blkQ)
  /\ \A p \in ToSet(blkQ) : LET s == snd[Src[p[1]]]
                            IN  s.state = "Congest" /\ s.txp = p

\* Packets are where their message takes them.
PacketsRouted ==
  \A n \in Nics :
    /\ \A p \in Air(n) : Src[p[1]] = n
    /\ \A p \in Queued(n) \cup Received(n) : p \in PacketSet /\ Dst[p[1]] = n

\* The packets of one message in a queue stand in the order of their numbers.
Ascending(q) ==
  \A i, j \in 1..Len(q) : i < j /\ q[i][1] = q[j][1] => q[i][2] < q[j][2]

Before(P, Q) == \A p \in P, q \in Q : p[1] = q[1] => p[2] < q[2]

InOrder ==
  /\ \A n \in Nics : /\ Ascending(air[n]) /\ Ascending(rcv[n].inQ)
                     /\ Before(Received(n), Queued(n))
  /\ \A n, k \in Nics : Before(Queued(n) \cup Received(n), Air(k))

\* Exactly the packets that have left the sender and have not been taken in
\* are on their way.
Underway(p) == p \in UNION {Air(n) \cup Queued(n) \cup Received(n) : n \in Nics}

NoneMissing ==
  \A m \in Messages :
    /\ taken[m] <= Launched(m)
    /\ \A k \in 1..Packets[m] :
         Underway(<<m, k>>) <=> taken[m] < k /\ k <= Launched(m)

SenderState ==
  [state : {"Idle", "PostMessage", "TxPacket", "Congest"},
   msgQ : Seq(Messages), txp : PacketSet \cup {NoPacket}]

ReceiverState ==
  [state : {"Idle", "RxPacket", "RxDone"},
   inQ : Seq(PacketSet), rxp : PacketSet \cup {NoPacket}]

\* The senders and what waits in blkQ.
SenderInv ==
  /\ snd \in [Nics -> SenderState] /\ blkQ \in Seq(PacketSet)
  /\ inflight \in 0..Capacity
  /\ blkQ # <<>> => inflight = Capacity
  /\ SendersConsistent /\ CongestedIffBlocked

\* The packets between the sender and the receiver.
PathInv ==
  /\ rcv \in [Nics -> ReceiverState] /\ air \in [Nics -> Seq(PacketSet)]
  /\ taken \in [Messages -> Nat]
  /\ PacketsRouted /\ InOrder /\ NoneMissing

Accounted == IsFiniteSet(Inside) /\ inflight = Cardinality(Inside)

Raised ==
  /\ {interrupts, delivered, sent} \subseteq SUBSET Messages
  /\ WholeMessages /\ interrupts \cap delivered = {}

IInv == SenderInv /\ PathInv /\ Accounted /\ Raised

-----------------------------------------------------------------------------
(* What Append and Tail do to the elements of a queue and to their order.  *)
LEMMA PacketShape ==
  ASSUME NEW p
  PROVE  p \in PacketSet <=>
           \E m \in Messages : \E k \in 1..Packets[m] : p = <<m, k>>
BY DEF PacketSet

LEMMA AppendElements ==
  ASSUME NEW S, NEW q \in Seq(S), NEW x \in S
  PROVE  /\ Append(q, x) \in Seq(S) /\ Append(q, x) # <<>>
         /\ ToSet(Append(q, x)) = ToSet(q) \cup {x}
         /\ IsInjective(q) /\ x \notin ToSet(q) => IsInjective(Append(q, x))
<1>1. /\ Append(q, x) \in Seq(S) /\ Len(Append(q, x)) = Len(q) + 1
      /\ \A i \in 1..Len(q) : Append(q, x)[i] = q[i]
      /\ Append(q, x)[Len(q) + 1] = x
  OBVIOUS
<1>2. /\ DOMAIN q = 1..Len(q) /\ DOMAIN Append(q, x) = 1..(Len(q) + 1)
      /\ Len(q) \in Nat
  BY <1>1
<1>3. \A i \in 1..(Len(q) + 1) : i \in 1..Len(q) \/ i = Len(q) + 1
  BY <1>2
<1>4. ToSet(Append(q, x)) = ToSet(q) \cup {x}
  BY <1>1, <1>2, <1>3 DEF ToSet
<1>5. IsInjective(q) /\ x \notin ToSet(q) => IsInjective(Append(q, x))
  BY <1>1, <1>2, <1>3 DEF ToSet, IsInjective
<1>6. QED
  BY <1>1, <1>4, <1>5

LEMMA TailElements ==
  ASSUME NEW S, NEW q \in Seq(S), q # <<>>
  PROVE  /\ Head(q) \in S /\ Tail(q) \in Seq(S)
         /\ ToSet(q) = {Head(q)} \cup ToSet(Tail(q))
         /\ IsInjective(q) => IsInjective(Tail(q)) /\ Head(q) \notin ToSet(Tail(q))
<1>1. /\ Tail(q) \in Seq(S) /\ Len(Tail(q)) = Len(q) - 1
      /\ \A i \in 1..Len(Tail(q)) : Tail(q)[i] = q[i + 1]
      /\ Head(q) = q[1] /\ Len(q) \in Nat \ {0} /\ Head(q) \in S
  BY HeadTailProperties, LenProperties, EmptySeq
<1>2. DOMAIN q = 1..Len(q) /\ DOMAIN Tail(q) = 1..(Len(q) - 1)
  BY <1>1
<1>3. \A i \in 1..Len(q) : i = 1 \/ (i - 1 \in 1..(Len(q) - 1) /\ q[i] = Tail(q)[i - 1])
  BY <1>1
<1>4. ToSet(q) = {Head(q)} \cup ToSet(Tail(q))
  <2>1. \A i \in 1..(Len(q) - 1) : i + 1 \in 1..Len(q) /\ Tail(q)[i] = q[i + 1]
    BY <1>1
  <2>2. 1 \in 1..Len(q)
    BY <1>1
  <2>3. ToSet(Tail(q)) \subseteq ToSet(q) /\ Head(q) \in ToSet(q)
    BY <1>1, <1>2, <2>1, <2>2 DEF ToSet
  <2>4. ToSet(q) \subseteq {Head(q)} \cup ToSet(Tail(q))
    <3>1. \A i \in 1..Len(q) : q[i] \in {Head(q)} \cup ToSet(Tail(q))
      BY <1>1, <1>2, <1>3 DEF ToSet
    <3>2. QED
      BY <1>2, <3>1 DEF ToSet
  <2>5. QED
    BY <2>3, <2>4
<1>5. ASSUME IsInjective(q)
      PROVE  IsInjective(Tail(q)) /\ Head(q) \notin ToSet(Tail(q))
  BY <1>1, <1>2, <1>5 DEF ToSet, IsInjective
<1>6. QED
  BY <1>1, <1>4, <1>5

LEMMA AscendingAppend ==
  ASSUME NEW q \in Seq(PacketSet), NEW p \in PacketSet,
         Ascending(q), Before(ToSet(q), {p})
  PROVE  Ascending(Append(q, p))
<1>1. /\ Len(Append(q, p)) = Len(q) + 1 /\ Len(q) \in Nat
      /\ \A i \in 1..Len(q) : Append(q, p)[i] = q[i]
      /\ Append(q, p)[Len(q) + 1] = p
  OBVIOUS
<1>2. \A i \in 1..Len(q) : q[i][1] = p[1] => q[i][2] < p[2]
  BY DEF Before, ToSet
<1>3. SUFFICES ASSUME NEW i \in 1..(Len(q) + 1), NEW j \in 1..(Len(q) + 1), i < j
               PROVE  LET r == Append(q, p)
                      IN  r[i][1] = r[j][1] => r[i][2] < r[j][2]
  BY <1>1 DEF Ascending
<1>4. i \in 1..Len(q) /\ (j \in 1..Len(q) \/ j = Len(q) + 1)
  BY <1>1, <1>3
<1>5. QED
  BY <1>1, <1>2, <1>3, <1>4 DEF Ascending

LEMMA AscendingTail ==
  ASSUME NEW q \in Seq(PacketSet), q # <<>>, Ascending(q)
  PROVE  Ascending(Tail(q)) /\ Before({Head(q)}, ToSet(Tail(q)))
<1>1. /\ Len(Tail(q)) = Len(q) - 1 /\ Tail(q) \in Seq(PacketSet)
      /\ \A i \in 1..Len(Tail(q)) : Tail(q)[i] = q[i + 1]
      /\ Head(q) = q[1] /\ Len(q) \in Nat \ {0}
  BY HeadTailProperties, LenProperties, EmptySeq
<1>2. Ascending(Tail(q))
  BY <1>1 DEF Ascending
<1>3. \A i \in 1..Len(Tail(q)) :
        Head(q)[1] = Tail(q)[i][1] => Head(q)[2] < Tail(q)[i][2]
  BY <1>1 DEF Ascending
<1>4. DOMAIN Tail(q) = 1..Len(Tail(q))
  BY <1>1
<1>5. QED
  BY <1>2, <1>3, <1>4 DEF Before, ToSet

-----------------------------------------------------------------------------
(* What the steps of a NIC's send thread do to the senders and to blkQ.    *)
\* What NIC n may send: messages of its own that wait, and the packet p.
MaySend(n, s, p) ==
  /\ IsInjective(s.msgQ) /\ \A m \in ToSet(s.msgQ) : m \in sent /\ Src[m] = n
  /\ Src[p[1]] = n /\ p[1] \in sent /\ p[1] \notin ToSet(s.msgQ)

LEMMA NoPacketIsNone == NoPacket \notin PacketSet
<1>1. SUFFICES ASSUME <<>> \in PacketSet PROVE FALSE
  BY DEF NoPacket
<1>2. PICK m \in Messages, k \in Nat : <<>> = <<m, k>>
  BY <1>1, PacketShape, PacketsAssumption
<1>3. QED
  BY <1>2

LEMMA BlockedSenders ==
  ASSUME SenderInv
  PROVE  \A q \in ToSet(blkQ) :
           LET n == Src[q[1]]
           IN  /\ q \in PacketSet /\ n \in Nics
               /\ snd[n].state = "Congest" /\ snd[n].txp = q
<1>1. \A q \in PacketSet : Src[q[1]] \in Nics
  BY PacketShape, TopologyAssumption, PacketsAssumption
<1>2. ToSet(blkQ) \subseteq PacketSet
  BY DEF SenderInv, ToSet
<1>3. QED
  BY <1>1, <1>2 DEF SenderInv, SendersConsistent

LEMMA TransmitEffect ==
  ASSUME SenderInv, NEW n \in Nics, snd[n].state # "Congest",
         NEW s \in SenderState, NEW p \in PacketSet, MaySend(n, s, p),
         Transmit(n, s, p), UNCHANGED sent
  PROVE  /\ SenderInv'
         /\ \A k \in Nics \ {n} : snd'[k] = snd[k]
         /\ snd'[n].msgQ = s.msgQ /\ snd'[n].txp = p
         /\ \/ snd'[n].state = "TxPacket" /\ blkQ = <<>> /\ inflight' = inflight + 1
            \/ snd'[n].state = "Congest" /\ inflight' = inflight
<1>0. Capacity \in Nat /\ inflight \in Nat /\ p # NoPacket
  BY PacketsAssumption, NoPacketIsNone DEF SenderInv
<1>1. CASE inflight < Capacity
  <2>1. /\ inflight' = inflight + 1 /\ blkQ' = blkQ
        /\ snd' = [snd EXCEPT ![n] = [s EXCEPT !.state = "TxPacket", !.txp = p]]
    BY <1>1 DEF Transmit
  <2>2. /\ snd' \in [Nics -> SenderState]
        /\ \A k \in Nics \ {n} : snd'[k] = snd[k]
        /\ snd'[n].state = "TxPacket" /\ snd'[n].msgQ = s.msgQ /\ snd'[n].txp = p
    BY <2>1 DEF SenderInv, SenderState
  <2>3. blkQ = <<>> /\ blkQ' = <<>> /\ inflight' \in 0..Capacity
    BY <1>0, <1>1, <2>1 DEF SenderInv
  <2>4. ToSet(blkQ) = {} /\ ToSet(blkQ') = {}
    BY <2>3 DEF ToSet
  <2>5. SendersConsistent'
    BY <2>2, <2>4 DEF SenderInv, SendersConsistent, MaySend, Active
  <2>6. CongestedIffBlocked'
    BY <2>2, <2>3, <2>4 DEF SenderInv, CongestedIffBlocked, IsInjective
  <2>7. QED
    BY <2>1, <2>2, <2>3, <2>5, <2>6 DEF SenderInv
<1>2. CASE ~(inflight < Capacity)
  <2>1. /\ inflight' = inflight /\ blkQ' = Append(blkQ, p) /\ inflight = Capacity
        /\ snd' = [snd EXCEPT ![n] = [s EXCEPT !.txp = p, !.state = "Congest"]]
    <3>1. Notify([s EXCEPT !.txp = p], "NET_PKT_BLK")
            = [s EXCEPT !.txp = p, !.state = "Congest"]
      BY DEF Notify, SenderState
    <3>2. QED
      BY <1>0, <1>2, <3>1 DEF Transmit, SenderInv
  <2>2. /\ snd' \in [Nics -> SenderState]
        /\ \A k \in Nics \ {n} : snd'[k] = snd[k]
        /\ snd'[n].state = "Congest" /\ snd'[n].msgQ = s.msgQ /\ snd'[n].txp = p
    BY <2>1 DEF SenderInv, SenderState
  <2>3. p \notin ToSet(blkQ)
    BY DEF SenderInv, SendersConsistent, MaySend
  <2>4. /\ blkQ' \in Seq(PacketSet) /\ ToSet(blkQ') = ToSet(blkQ) \cup {p}
        /\ IsInjective(blkQ')
    BY <2>1, <2>3, AppendElements DEF SenderInv, CongestedIffBlocked
  <2>5. SendersConsistent'
    <3>1. \A q \in ToSet(blkQ) : q \in PacketSet /\ Src[q[1]] \in Nics \ {n}
      BY BlockedSenders
    <3>2. \A q \in ToSet(blkQ') : LET r == snd'[Src[q[1]]]
                                  IN  r.state = "Congest" /\ r.txp = q
      BY <2>2, <2>4, <3>1 DEF SenderInv, SendersConsistent, MaySend
    <3>3. \A k \in Nics \ {n} : snd'[k].state = "Congest" => snd'[k].txp \in ToSet(blkQ')
      BY <2>2, <2>4 DEF SenderInv, SendersConsistent
    <3>4. QED
      BY <2>2, <2>4, <3>2, <3>3
         DEF SenderInv, SendersConsistent, MaySend, Active
  <2>6. CongestedIffBlocked'
    <3>1. \A k \in Nics \ {n} : snd[k].txp # p
      BY DEF SenderInv, SendersConsistent, MaySend
    <3>2. \A k \in Nics : snd'[k].state = "Congest" <=> snd'[k].txp \in ToSet(blkQ')
      BY <2>2, <2>4, <3>1 DEF SenderInv, CongestedIffBlocked
    <3>3. QED
      BY <2>4, <3>2 DEF CongestedIffBlocked
  <2>7. QED
    BY <2>1, <2>2, <2>4, <2>5, <2>6 DEF SenderInv
<1>3. QED
  BY <1>1, <1>2

\* What the send thread of NIC n leaves: at most one packet more is sent, and
\* none if some are blocked.
PostEffect(n) ==
  /\ SenderInv'
  /\ \A k \in Nics \ {n} : snd'[k] = snd[k]
  /\ \/ snd'[n].state = "TxPacket" /\ blkQ = <<>> /\ inflight' = inflight + 1
     \/ snd'[n].state # "TxPacket" /\ inflight' = inflight

LEMMA PostMessageEffect ==
  ASSUME SenderInv, NEW n \in Nics, snd[n].state # "Congest",
         PostMessage(n), UNCHANGED sent
  PROVE  /\ PostEffect(n)
         /\ \/ ToSet(snd[n].msgQ) = {} /\ ToSet(snd'[n].msgQ) = {} /\ ~Active(snd'[n])
            \/ \E m \in Messages :
                 /\ ToSet(snd[n].msgQ) = {m} \cup ToSet(snd'[n].msgQ)
                 /\ m \notin ToSet(snd'[n].msgQ)
                 /\ Active(snd'[n]) /\ snd'[n].txp = <<m, 1>>
<1> DEFINE s == snd[n]
<1>0. s \in SenderState /\ s.msgQ \in Seq(Messages)
  BY DEF SenderInv, SenderState
<1>1. CASE s.msgQ = <<>>
  <2>1. /\ snd' = [snd EXCEPT ![n].state = "Idle"] /\ UNCHANGED <<inflight, blkQ>>
    BY <1>1 DEF PostMessage
  <2>2. /\ snd' \in [Nics -> SenderState] /\ \A k \in Nics \ {n} : snd'[k] = snd[k]
        /\ snd'[n].state = "Idle" /\ snd'[n].msgQ = s.msgQ /\ snd'[n].txp = s.txp
    BY <2>1 DEF SenderInv, SenderState
  <2>3. ToSet(s.msgQ) = {}
    BY <1>1 DEF ToSet
  <2>4. s.txp \notin ToSet(blkQ)
    BY DEF SenderInv, CongestedIffBlocked
  <2>5. SendersConsistent'
    <3>1. \A q \in ToSet(blkQ) : q \in PacketSet /\ Src[q[1]] \in Nics \ {n}
      BY BlockedSenders
    <3>2. \A q \in ToSet(blkQ') : LET r == snd'[Src[q[1]]]
                                  IN  r.state = "Congest" /\ r.txp = q
      BY <2>1, <2>2, <3>1 DEF SenderInv, SendersConsistent
    <3>3. QED
      BY <2>1, <2>2, <3>2 DEF SenderInv, SendersConsistent, Active
  <2>6. CongestedIffBlocked'
    BY <2>1, <2>2, <2>4 DEF SenderInv, CongestedIffBlocked
  <2>7. QED
    BY <2>1, <2>2, <2>3, <2>5, <2>6 DEF SenderInv, PostEffect, Active
<1>2. CASE s.msgQ # <<>>
  <2> DEFINE m == Head(s.msgQ)
             r == [s EXCEPT !.msgQ = Tail(@)]
  <2>1. /\ m \in Messages /\ Tail(s.msgQ) \in Seq(Messages)
        /\ ToSet(s.msgQ) = {m} \cup ToSet(Tail(s.msgQ))
        /\ IsInjective(Tail(s.msgQ)) /\ m \notin ToSet(Tail(s.msgQ))
    BY <1>0, <1>2, TailElements DEF SenderInv, SendersConsistent
  <2>2. r \in SenderState /\ r.msgQ = Tail(s.msgQ) /\ Transmit(n, r, <<m, 1>>)
    BY <1>0, <1>2, <2>1 DEF PostMessage, SenderState
  <2>3. <<m, 1>> \in PacketSet
    BY <2>1, PacketShape, PacketsAssumption
  <2>4. MaySend(n, r, <<m, 1>>)
    BY <2>1, <2>2 DEF MaySend, SenderInv, SendersConsistent
  <2> HIDE DEF r
  <2>5. QED
    BY <2>1, <2>2, <2>3, <2>4, TransmitEffect DEF PostEffect, Active
<1>3. QED
  BY <1>1, <1>2

LEMMA LaunchedType ==
  ASSUME SenderInv, NEW m \in Messages
  PROVE  /\ Launched(m) \in 0..Packets[m] /\ Packets[m] \in Nat \ {0}
         /\ Launched(m) # 0 => m \in sent
<1>1. Packets[m] \in Nat \ {0} /\ Src[m] \in Nics
  BY PacketsAssumption, TopologyAssumption
<1>2. ASSUME Active(snd[Src[m]]), snd[Src[m]].txp[1] = m
      PROVE  snd[Src[m]].txp[2] \in 1..Packets[m]
  BY <1>1, <1>2, PacketShape DEF SenderInv, SendersConsistent
<1>3. QED
  BY <1>1, <1>2 DEF Launched

\* What a step of the sender does to the counters of the other messages.
LEMMA LaunchedElsewhere ==
  ASSUME NEW n \in Nics, \A k \in Nics \ {n} : snd'[k] = snd[k], UNCHANGED sent,
         NEW m \in Messages, Src[m] # n
  PROVE  Launched(m)' = Launched(m)
<1>1. Src[m] \in Nics
  BY TopologyAssumption
<1>2. QED
  BY <1>1 DEF Launched

LEMMA StartSendEffect ==
  ASSUME SenderInv, NEW n \in Nics, StartSend(n)
  PROVE  PostEffect(n) /\ \A m \in Messages : Launched(m)' = Launched(m)
<1>1. snd[n].state = "PostMessage" /\ PostMessage(n) /\ sent' = sent
  BY DEF StartSend
<1>2. PostEffect(n)
  BY <1>1, PostMessageEffect
<1>3. ASSUME NEW m \in Messages, Src[m] = n PROVE Launched(m)' = Launched(m)
  <2>1. CASE ToSet(snd[n].msgQ) = {} /\ ToSet(snd'[n].msgQ) = {} /\ ~Active(snd'[n])
    BY <1>1, <1>3, <2>1 DEF Launched, Active
  <2>2. CASE \E h \in Messages :
               /\ ToSet(snd[n].msgQ) = {h} \cup ToSet(snd'[n].msgQ)
               /\ h \notin ToSet(snd'[n].msgQ)
               /\ Active(snd'[n]) /\ snd'[n].txp = <<h, 1>>
    BY <1>1, <1>3, <2>2 DEF Launched, Active
  <2>3. QED
    BY <1>1, <2>1, <2>2, PostMessageEffect
<1>4. \A k \in Nics \ {n} : snd'[k] = snd[k]
  BY <1>2 DEF PostEffect
<1>5. QED
  BY <1>1, <1>2, <1>3, <1>4, LaunchedElsewhere

LEMMA TxDoneEffect ==
  ASSUME SenderInv, NEW n \in Nics, TxDone(n)
  PROVE  LET p == snd[n].txp
         IN  /\ PostEffect(n)
             /\ p \in PacketSet /\ Src[p[1]] = n /\ Launched(p[1]) = p[2] - 1
             /\ \A m \in Messages :
                  Launched(m)' = IF m = p[1] THEN p[2] ELSE Launched(m)
<1> DEFINE s == snd[n]
           p == s.txp
<1>1. s.state = "TxPacket" /\ sent' = sent /\ Active(s)
  BY DEF TxDone, Active
<1>2. p \in PacketSet /\ p[1] \in sent /\ p[1] \notin ToSet(s.msgQ) /\ Src[p[1]] = n
  BY <1>1 DEF SenderInv, SendersConsistent
<1>3. PICK m0 \in Messages : \E k \in 1..Packets[m0] : p = <<m0, k>>
  BY <1>2, PacketShape
<1>4. p[1] = m0 /\ p[2] \in 1..Packets[m0] /\ Packets[m0] \in Nat \ {0}
  BY <1>3, PacketsAssumption
<1>5. Launched(m0) = p[2] - 1
  BY <1>1, <1>2, <1>4 DEF Launched
<1>6. Notify(s, "NET_PKT_TXDONE").state = "PostMessage" <=> IsLast(p)
  BY DEF Notify, SenderInv, SenderState
<1>7. CASE IsLast(p)
  <2>1. PostMessage(n) /\ p[2] = Packets[m0]
    BY <1>4, <1>6, <1>7 DEF TxDone, IsLast
  <2>2. PostEffect(n)
    BY <1>1, <2>1, PostMessageEffect
  <2>3. ASSUME NEW m \in Messages, Src[m] = n
        PROVE  Launched(m)' = IF m = m0 THEN p[2] ELSE Launched(m)
    <3>1. CASE ToSet(s.msgQ) = {} /\ ToSet(snd'[n].msgQ) = {} /\ ~Active(snd'[n])
      BY <1>1, <1>2, <1>4, <2>1, <2>3, <3>1 DEF Launched
    <3>2. CASE \E h \in Messages :
                 /\ ToSet(s.msgQ) = {h} \cup ToSet(snd'[n].msgQ)
                 /\ h \notin ToSet(snd'[n].msgQ)
                 /\ Active(snd'[n]) /\ snd'[n].txp = <<h, 1>>
      BY <1>1, <1>2, <1>4, <2>1, <2>3, <3>2 DEF Launched
    <3>3. QED
      BY <1>1, <2>1, <3>1, <3>2, PostMessageEffect
  <2>4. \A k \in Nics \ {n} : snd'[k] = snd[k]
    BY <2>2 DEF PostEffect
  <2>5. QED
    BY <1>1, <1>2, <1>4, <1>5, <2>2, <2>3, <2>4, LaunchedElsewhere
<1>8. CASE ~IsLast(p)
  <2> DEFINE q == <<p[1], p[2] + 1>>
  <2>1. Transmit(n, s, q)
    BY <1>6, <1>8 DEF TxDone
  <2>2. p[2] + 1 \in 1..Packets[m0]
    BY <1>4, <1>8 DEF IsLast
  <2>3. q \in PacketSet /\ q[1] = m0 /\ q[2] = p[2] + 1
    BY <1>4, <2>2, PacketShape
  <2>4. MaySend(n, s, q) /\ s \in SenderState
    BY <1>2, <1>4, <2>3 DEF MaySend, SenderInv, SendersConsistent
  <2> HIDE DEF q
  <2>5. /\ SenderInv' /\ \A k \in Nics \ {n} : snd'[k] = snd[k]
        /\ snd'[n].msgQ = s.msgQ /\ snd'[n].txp = q /\ Active(snd'[n])
        /\ \/ snd'[n].state = "TxPacket" /\ blkQ = <<>> /\ inflight' = inflight + 1
           \/ snd'[n].state = "Congest" /\ inflight' = inflight
    BY <1>1, <2>1, <2>3, <2>4, TransmitEffect DEF Active
  <2>6. PostEffect(n)
    BY <2>5 DEF PostEffect
  <2>7. ASSUME NEW m \in Messages, Src[m] = n
        PROVE  Launched(m)' = IF m = m0 THEN p[2] ELSE Launched(m)
    BY <1>1, <1>2, <1>4, <2>3, <2>5, <2>7 DEF Launched
  <2>8. QED
    BY <1>1, <1>2, <1>4, <1>5, <2>5, <2>6, <2>7, LaunchedElsewhere
<1>9. QED
  BY <1>7, <1>8

\* The packet that has waited longest takes the place that becomes free.
LEMMA ReleaseEffect ==
  ASSUME SenderInv, Release, UNCHANGED sent, inflight # 0
  PROVE  /\ SenderInv'
         /\ \A m \in Messages : Launched(m)' = Launched(m)
         /\ \/ blkQ = <<>> /\ snd' = snd /\ inflight' = inflight - 1
            \/ \E n \in Nics :
                 /\ blkQ # <<>> /\ inflight' = inflight
                 /\ \A k \in Nics \ {n} : snd'[k] = snd[k]
                 /\ snd[n].state = "Congest" /\ snd'[n].state = "TxPacket"
                 /\ snd[n].txp = Head(blkQ) /\ snd'[n].txp = Head(blkQ)
                 /\ Head(blkQ) \in PacketSet
<1>0. inflight \in 1..Capacity
  BY PacketsAssumption DEF SenderInv
<1>1. CASE blkQ = <<>>
  <2>1. inflight' = inflight - 1 /\ snd' = snd /\ blkQ' = blkQ
    BY <1>1 DEF Release
  <2>2. SendersConsistent' /\ CongestedIffBlocked'
    BY <2>1 DEF SenderInv, SendersConsistent, CongestedIffBlocked
  <2>3. \A m \in Messages : Launched(m)' = Launched(m)
    BY <2>1 DEF Launched
  <2>4. inflight' \in 0..Capacity
    BY <1>0, <2>1, PacketsAssumption
  <2>5. SenderInv'
    BY <1>1, <2>1, <2>2, <2>4 DEF SenderInv
  <2>6. QED
    BY <1>1, <2>1, <2>3, <2>5
<1>2. CASE blkQ # <<>>
  <2> DEFINE p == Head(blkQ)
             n == Src[p[1]]
  <2>1. /\ p \in PacketSet /\ Tail(blkQ) \in Seq(PacketSet)
        /\ ToSet(blkQ) = {p} \cup ToSet(Tail(blkQ))
        /\ IsInjective(Tail(blkQ)) /\ p \notin ToSet(Tail(blkQ))
    BY <1>2, TailElements DEF SenderInv, CongestedIffBlocked
  <2>2. /\ n \in Nics /\ snd[n].state = "Congest" /\ snd[n].txp = p
        /\ n = Src[p[1]] /\ p = Head(blkQ)
    <3>1. n \in Nics
      BY <2>1, PacketShape, TopologyAssumption
    <3>2. QED
      BY <2>1, <3>1 DEF SenderInv, SendersConsistent
  <2>3. /\ snd' = [snd EXCEPT ![n] = [snd[n] EXCEPT !.state = "TxPacket"]]
        /\ inflight' = inflight /\ blkQ' = Tail(blkQ)
    <3>1. /\ snd' = [snd EXCEPT ![n] = Notify(snd[n], "NET_PKT_RETX")]
          /\ inflight' = inflight /\ blkQ' = Tail(blkQ)
      BY <1>2 DEF Release
    <3>2. Notify(snd[n], "NET_PKT_RETX") = [snd[n] EXCEPT !.state = "TxPacket"]
      BY DEF Notify
    <3>3. QED
      BY <3>1, <3>2
  <2> HIDE DEF n, p
  <2>4. /\ snd' \in [Nics -> SenderState] /\ \A k \in Nics \ {n} : snd'[k] = snd[k]
        /\ snd'[n].state = "TxPacket" /\ snd'[n].msgQ = snd[n].msgQ
        /\ snd'[n].txp = p
    BY <2>2, <2>3 DEF SenderInv, SenderState
  <2>5. SendersConsistent'
    <3>1. \A q \in ToSet(blkQ') : LET r == snd'[Src[q[1]]]
                                  IN  r.state = "Congest" /\ r.txp = q
      BY <2>1, <2>2, <2>3, <2>4, BlockedSenders, SMTT(60)
    <3>2. \A k \in Nics \ {n} : snd[k].txp # p
      BY <2>1, <2>2 DEF SenderInv, SendersConsistent
    <3>3. \A k \in Nics : snd'[k].state = "Congest" => snd'[k].txp \in ToSet(blkQ')
      BY <2>1, <2>3, <2>4, <3>2 DEF SenderInv, SendersConsistent
    <3>4. QED
      BY <2>2, <2>4, <3>1, <3>3 DEF SenderInv, SendersConsistent, Active
  <2>6. CongestedIffBlocked'
    BY <2>1, <2>2, <2>3, <2>4, SMTT(60)
       DEF SenderInv, CongestedIffBlocked, SendersConsistent
  <2>7. ASSUME NEW m \in Messages PROVE Launched(m)' = Launched(m)
    BY <2>2, <2>4, TopologyAssumption DEF Launched, Active
  <2>8. SenderInv'
    BY <1>0, <1>2, <2>1, <2>3, <2>4, <2>5, <2>6 DEF SenderInv
  <2>9. QED
    BY <1>2, <2>1, <2>2, <2>3, <2>4, <2>7, <2>8
<1>3. QED
  BY <1>1, <1>2

-----------------------------------------------------------------------------
(* The way of the packets from the air to the receiver.                    *)
LEMMA UnderwayIs ==
  ASSUME PathInv, NEW q \in PacketSet
  PROVE  /\ q[1] \in Messages /\ q[2] \in 1..Packets[q[1]] /\ q = <<q[1], q[2]>>
         /\ Underway(q) <=> taken[q[1]] < q[2] /\ q[2] <= Launched(q[1])
<1>1. PICK m \in Messages : \E k \in 1..Packets[m] : q = <<m, k>>
  BY PacketShape
<1>2. q[1] = m /\ q[2] \in 1..Packets[m] /\ q = <<q[1], q[2]>>
  BY <1>1
<1>3. QED
  BY <1>2 DEF PathInv, NoneMissing

LEMMA OnTheirWay ==
  ASSUME PathInv, NEW n \in Nics
  PROVE  \A q \in Air(n) \cup Queued(n) \cup Received(n) : q \in PacketSet /\ Underway(q)
<1>1. Air(n) \subseteq PacketSet
  BY DEF PathInv, Air, ToSet
<1>2. QED
  BY <1>1 DEF PathInv, PacketsRouted, Underway

LEMMA PathUnchanged ==
  ASSUME PathInv, UNCHANGED <<air, rcv, taken>>,
         \A m \in Messages : Launched(m)' = Launched(m)
  PROVE  PathInv' /\ \A q \in PacketSet : Underway(q)' <=> Underway(q)
<1>1. \A n : Air(n)' = Air(n) /\ Queued(n)' = Queued(n) /\ Received(n)' = Received(n)
  BY DEF Air, Queued, Received
<1>2. \A q : Underway(q)' <=> Underway(q)
  BY <1>1 DEF Underway
<1>3. PacketsRouted' /\ InOrder' /\ NoneMissing'
  BY <1>1, <1>2 DEF PathInv, PacketsRouted, InOrder, NoneMissing, Before
<1>4. QED
  BY <1>2, <1>3 DEF PathInv

LEMMA TxDonePath ==
  ASSUME PathInv, SenderInv, NEW n \in Nics, TxDone(n)
  PROVE  PathInv' /\ \A q \in PacketSet : Underway(q)' <=> Underway(q) \/ q = snd[n].txp
<1> DEFINE p == snd[n].txp
<1>1. /\ p \in PacketSet /\ Src[p[1]] = n /\ Launched(p[1]) = p[2] - 1
      /\ \A m \in Messages : Launched(m)' = IF m = p[1] THEN p[2] ELSE Launched(m)
  BY TxDoneEffect
<1>2. /\ air' = [air EXCEPT ![n] = Append(air[n], p)]
      /\ rcv' = rcv /\ taken' = taken
  BY DEF TxDone
<1> HIDE DEF p
<1>3. /\ p[1] \in Messages /\ p[2] \in Nat /\ p = <<p[1], p[2]>>
      /\ p[2] \in 1..Packets[p[1]]
  BY <1>1, UnderwayIs, PacketsAssumption
<1>4. /\ air' \in [Nics -> Seq(PacketSet)] /\ Air(n)' = Air(n) \cup {p}
      /\ \A k \in Nics \ {n} : air'[k] = air[k]
      /\ air'[n] = Append(air[n], p)
  BY <1>1, <1>2, AppendElements DEF PathInv, Air
<1>5. /\ \A k \in Nics \ {n} : Air(k)' = Air(k)
      /\ \A k \in Nics : Queued(k)' = Queued(k) /\ Received(k)' = Received(k)
  BY <1>2, <1>4 DEF Air, Queued, Received
<1>6. \A q : Underway(q)' <=> Underway(q) \/ q = p
  BY <1>4, <1>5 DEF Underway
<1>7. \A k \in Nics : Before(Air(k) \cup Queued(k) \cup Received(k), {p})
  <2>1. \A q \in PacketSet : Underway(q) /\ q[1] = p[1] => q[2] < p[2]
    BY <1>1, <1>3, UnderwayIs, PacketsAssumption
  <2>2. QED
    BY <2>1, OnTheirWay DEF Before
<1>8. PacketsRouted'
  <2>1. ASSUME NEW k \in Nics
        PROVE  \A q \in Air(k)' : Src[q[1]] = k
    BY <1>1, <1>4, <1>5, SMTT(30) DEF PathInv, PacketsRouted
  <2>2. ASSUME NEW k \in Nics
        PROVE  \A q \in Queued(k)' \cup Received(k)' : q \in PacketSet /\ Dst[q[1]] = k
    BY <1>5 DEF PathInv, PacketsRouted
  <2>3. QED
    BY <2>1, <2>2 DEF PacketsRouted
<1>9. InOrder'
  <2>1. \A k \in Nics : Ascending(air[k])'
    <3>1. Ascending(Append(air[n], p))
      BY <1>1, <1>7, AscendingAppend DEF PathInv, InOrder, Air, Before
    <3>2. QED
      BY <1>4, <3>1 DEF PathInv, InOrder
  <2>2. \A k \in Nics : Ascending(rcv[k].inQ)' /\ Before(Received(k), Queued(k))'
    BY <1>2, <1>5 DEF PathInv, InOrder, Before
  <2>3. \A j, k \in Nics : Before(Queued(j) \cup Received(j), Air(k))'
    BY <1>4, <1>5, <1>7, ZenonT(60) DEF PathInv, InOrder, Before
  <2>4. QED
    BY <2>1, <2>2, <2>3 DEF InOrder
<1>10. NoneMissing'
  <2>1. SUFFICES ASSUME NEW m \in Messages
                 PROVE  /\ taken[m] <= Launched(m)'
                        /\ \A k \in 1..Packets[m] :
                             Underway(<<m, k>>)' <=> taken[m] < k /\ k <= Launched(m)'
    BY <1>2 DEF NoneMissing
  <2>2. taken[m] \in Nat /\ Packets[m] \in Nat
    BY PacketsAssumption DEF PathInv
  <2>3. CASE m = p[1]
    <3>1. Launched(m)' = p[2] /\ Launched(m) = p[2] - 1 /\ taken[m] <= p[2] - 1
      BY <1>1, <1>3, <2>3 DEF PathInv, NoneMissing
    <3>2. \A k \in 1..Packets[m] :
            Underway(<<m, k>>)' <=> (taken[m] < k /\ k <= p[2] - 1) \/ k = p[2]
      BY <1>3, <1>6, <2>3, <3>1 DEF PathInv, NoneMissing
    <3>3. QED
      BY <1>3, <2>2, <3>1, <3>2
  <2>4. CASE m # p[1]
    BY <1>1, <1>3, <1>6, <2>2, <2>4 DEF PathInv, NoneMissing
  <2>5. QED
    BY <2>3, <2>4
<1>11. QED
  BY <1>2, <1>4, <1>6, <1>8, <1>9, <1>10 DEF PathInv, p

LEMMA TraversedPath ==
  ASSUME PathInv, NEW n \in Nics, NetTraversed(n)
  PROVE  PathInv' /\ \A q \in PacketSet : Underway(q)' <=> Underway(q)
<1>a. PICK p : p = Head(air[n])
  OBVIOUS
<1>b. PICK d : d = Dst[p[1]]
  OBVIOUS
<1>1. /\ air[n] # <<>> /\ air' = [air EXCEPT ![n] = Tail(@)]
      /\ rcv' = [rcv EXCEPT ![d].inQ = Append(@, p),
                            ![d].state = IF @ = "Idle" THEN "RxPacket" ELSE @]
      /\ UNCHANGED <<taken, snd, sent>>
  BY <1>a, <1>b, Zenon DEF NetTraversed
<1>2. /\ p \in PacketSet /\ Tail(air[n]) \in Seq(PacketSet)
      /\ ToSet(air[n]) = {p} \cup ToSet(Tail(air[n]))
      /\ Ascending(Tail(air[n])) /\ Before({p}, ToSet(Tail(air[n])))
  BY <1>a, <1>1, TailElements, AscendingTail DEF PathInv, InOrder
<1>3. p \in Air(n) /\ Src[p[1]] = n /\ d \in Nics /\ d = Dst[p[1]]
  BY <1>b, <1>2, UnderwayIs, TopologyAssumption DEF Air, PathInv, PacketsRouted
<1>4. /\ air' \in [Nics -> Seq(PacketSet)] /\ air'[n] = Tail(air[n])
      /\ \A k \in Nics \ {n} : air'[k] = air[k]
  BY <1>1, <1>2 DEF PathInv
<1>5. /\ Append(rcv[d].inQ, p) \in Seq(PacketSet)
      /\ ToSet(Append(rcv[d].inQ, p)) = ToSet(rcv[d].inQ) \cup {p}
  BY <1>2, <1>3, AppendElements DEF PathInv, ReceiverState
<1>6. /\ rcv' \in [Nics -> ReceiverState] /\ rcv'[d].inQ = Append(rcv[d].inQ, p)
      /\ rcv'[d].state = "RxDone" <=> rcv[d].state = "RxDone"
      /\ rcv'[d].rxp = rcv[d].rxp
      /\ \A k \in Nics \ {d} : rcv'[k] = rcv[k]
  BY <1>1, <1>3, <1>5, ZenonT(120) DEF PathInv, ReceiverState
<1>7. /\ Air(n) = {p} \cup Air(n)' /\ \A k \in Nics \ {n} : Air(k)' = Air(k)
      /\ Queued(d)' = Queued(d) \cup {p}
      /\ \A k \in Nics \ {d} : Queued(k)' = Queued(k)
      /\ \A k \in Nics : Received(k)' = Received(k)
  BY <1>2, <1>4, <1>5, <1>6 DEF Air, Queued, Received
<1>8. \A q : Underway(q)' <=> Underway(q)
  BY <1>3, <1>7 DEF Underway
<1>9. PacketsRouted'
  <2>1. ASSUME NEW k \in Nics
        PROVE  \A q \in Air(k)' : Src[q[1]] = k
    BY <1>7 DEF PathInv, PacketsRouted
  <2>2. ASSUME NEW k \in Nics
        PROVE  \A q \in Queued(k)' \cup Received(k)' : q \in PacketSet /\ Dst[q[1]] = k
    <3>1. Received(k)' = Received(k) /\ Queued(k)' \subseteq Queued(k) \cup {p}
      BY <1>7
    <3>2. p \in Queued(k)' => k = d \/ p \in Queued(k)
      BY <1>7
    <3>3. QED
      BY <1>2, <1>3, <3>1, <3>2 DEF PathInv, PacketsRouted
  <2>3. QED
    BY <2>1, <2>2 DEF PacketsRouted
<1>10. InOrder'
  <2>1. \A k \in Nics : Before(Queued(k) \cup Received(k), {p})
    BY <1>3 DEF PathInv, InOrder, Before
  <2>2. \A k \in Nics : Before({p}, Air(k)')
    <3>1. Before({p}, Air(n)')
      BY <1>2, <1>4 DEF Air
    <3>2. ASSUME NEW k \in Nics \ {n} PROVE Before({p}, Air(k)')
      BY <1>3, <1>7 DEF PathInv, PacketsRouted, Before
    <3>3. QED
      BY <3>1, <3>2
  <2>3. Ascending(Append(rcv[d].inQ, p))
    <3>1. Before(ToSet(rcv[d].inQ), {p})
      BY <1>3, <2>1 DEF Queued, Before
    <3>2. QED
      BY <1>2, <1>3, <3>1, AscendingAppend DEF PathInv, InOrder, ReceiverState
  <2>4. \A k \in Nics : Ascending(air[k])' /\ Ascending(rcv[k].inQ)'
    BY <1>2, <1>4, <1>6, <2>3 DEF PathInv, InOrder
  <2>5. \A k \in Nics : Before(Received(k), Queued(k))'
    BY <1>7, <2>1 DEF PathInv, InOrder, Before
  <2>6. ASSUME NEW j \in Nics, NEW k \in Nics
        PROVE  Before(Queued(j) \cup Received(j), Air(k))'
    <3>1. Air(k)' \subseteq Air(k)
      BY <1>7
    <3>2. Queued(j)' \subseteq Queued(j) \cup {p} /\ Received(j)' = Received(j)
      BY <1>7
    <3>3. QED
      BY <2>2, <3>1, <3>2 DEF PathInv, InOrder, Before
  <2>7. QED
    BY <2>4, <2>5, <2>6 DEF InOrder
<1>11. NoneMissing'
  BY <1>1, <1>8 DEF PathInv, NoneMissing, Launched
<1>12. QED
  BY <1>1, <1>4, <1>6, <1>8, <1>9, <1>10, <1>11 DEF PathInv

\* What the receiver does when it turns to the next packet of its queue.
LEMMA NextRxEffect ==
  ASSUME NEW r \in ReceiverState, Ascending(r.inQ)
  PROVE  LET t == NextRx(r)
             R == IF t.state = "RxDone" THEN {t.rxp} ELSE {}
         IN  /\ t \in ReceiverState /\ Ascending(t.inQ)
             /\ ToSet(t.inQ) \cup R = ToSet(r.inQ)
             /\ Before(R, ToSet(t.inQ))
<1>1. r.inQ \in Seq(PacketSet)
  BY DEF ReceiverState
<1>2. CASE r.inQ = <<>>
  <2>1. /\ NextRx(r) \in ReceiverState /\ NextRx(r).inQ = r.inQ
        /\ NextRx(r).state = "Idle"
    BY <1>2 DEF NextRx, ReceiverState
  <2>2. QED
    BY <2>1 DEF Before
<1>3. CASE r.inQ # <<>>
  <2> DEFINE h == Head(r.inQ)
             u == Tail(r.inQ)
  <2>1. /\ h \in PacketSet /\ u \in Seq(PacketSet) /\ ToSet(r.inQ) = {h} \cup ToSet(u)
        /\ Ascending(u) /\ Before({h}, ToSet(u))
    BY <1>1, <1>3, TailElements, AscendingTail
  <2>2. NextRx(r) = [state |-> "RxDone", inQ |-> u, rxp |-> h]
    BY <1>3 DEF NextRx
  <2> HIDE DEF h, u
  <2>3. QED
    BY <2>1, <2>2 DEF ReceiverState
<1>4. QED
  BY <1>2, <1>3

\* The order of the packets survives a step that takes packets of one
\* receiver out of the way and puts none in.
LEMMA ReceiverStep ==
  ASSUME PathInv, NEW n \in Nics, NEW r \in ReceiverState, Ascending(r.inQ),
         rcv' = [rcv EXCEPT ![n] = NextRx(r)], air' = air,
         ToSet(r.inQ) = Queued(n) \/ ToSet(r.inQ) = Queued(n) \cup Received(n)
  PROVE  /\ rcv' \in [Nics -> ReceiverState]
         /\ PacketsRouted' /\ InOrder'
         /\ Queued(n)' \cup Received(n)' = ToSet(r.inQ)
         /\ \A k \in Nics \ {n} : Queued(k)' = Queued(k) /\ Received(k)' = Received(k)
         /\ \A k \in Nics : Air(k)' = Air(k)
<1>1. PICK t : t = NextRx(r)
  OBVIOUS
<1>2. /\ t \in ReceiverState /\ Ascending(t.inQ)
      /\ ToSet(t.inQ) \cup (IF t.state = "RxDone" THEN {t.rxp} ELSE {}) = ToSet(r.inQ)
      /\ Before(IF t.state = "RxDone" THEN {t.rxp} ELSE {}, ToSet(t.inQ))
  BY <1>1, NextRxEffect
<1>3. /\ rcv' \in [Nics -> ReceiverState] /\ rcv'[n] = t
      /\ \A k \in Nics \ {n} : rcv'[k] = rcv[k]
  BY <1>1, <1>2 DEF PathInv
<1>4. /\ Queued(n)' \cup Received(n)' = ToSet(r.inQ)
      /\ Before(Received(n), Queued(n))'
      /\ \A k \in Nics \ {n} : Queued(k)' = Queued(k) /\ Received(k)' = Received(k)
      /\ \A k \in Nics : Air(k)' = Air(k)
  BY <1>2, <1>3 DEF Queued, Received, Air, Before
<1>5. \A k \in Nics : Queued(k)' \cup Received(k)' \subseteq Queued(k) \cup Received(k)
  BY <1>4
<1>6. PacketsRouted'
  BY <1>4, <1>5 DEF PathInv, PacketsRouted
<1>7. InOrder'
  <2>1. \A k \in Nics : Ascending(air[k])' /\ Ascending(rcv[k].inQ)'
    BY <1>2, <1>3 DEF PathInv, InOrder
  <2>2. \A k \in Nics : Before(Received(k), Queued(k))'
    BY <1>4 DEF PathInv, InOrder, Before
  <2>3. \A j, k \in Nics : Before(Queued(j) \cup Received(j), Air(k))'
    BY <1>4, <1>5 DEF PathInv, InOrder, Before
  <2>4. QED
    BY <2>1, <2>2, <2>3 DEF InOrder
<1>8. QED
  BY <1>3, <1>4, <1>6, <1>7

LEMMA StartRecvPath ==
  ASSUME PathInv, NEW n \in Nics, StartRecv(n)
  PROVE  PathInv' /\ \A q \in PacketSet : Underway(q)' <=> Underway(q)
<1>1. /\ rcv[n].state = "RxPacket" /\ rcv[n] \in ReceiverState /\ Ascending(rcv[n].inQ)
      /\ rcv' = [rcv EXCEPT ![n] = NextRx(rcv[n])]
      /\ air' = air /\ taken' = taken /\ snd' = snd /\ sent' = sent
  BY DEF StartRecv, PathInv, InOrder
<1>2. ToSet(rcv[n].inQ) = Queued(n) /\ Received(n) = {}
  BY <1>1 DEF Queued, Received
<1>3. /\ rcv' \in [Nics -> ReceiverState] /\ PacketsRouted' /\ InOrder'
      /\ Queued(n)' \cup Received(n)' = Queued(n)
      /\ \A k \in Nics \ {n} : Queued(k)' = Queued(k) /\ Received(k)' = Received(k)
      /\ \A k \in Nics : Air(k)' = Air(k)
  BY <1>1, <1>2, ReceiverStep
<1>4. \A q : Underway(q)' <=> Underway(q)
  BY <1>2, <1>3 DEF Underway
<1>5. NoneMissing'
  BY <1>1, <1>4 DEF PathInv, NoneMissing, Launched
<1>6. QED
  BY <1>1, <1>3, <1>4, <1>5 DEF PathInv

\* The packet that is taken in is the first of its message that was not.
LEMMA RxIsNext ==
  ASSUME PathInv, SenderInv, NEW n \in Nics, rcv[n].state = "RxDone"
  PROVE  LET p == rcv[n].rxp
         IN  /\ p \in PacketSet /\ Underway(p) /\ p[2] = taken[p[1]] + 1
             /\ p \notin Queued(n) /\ \A k \in Nics : p \notin Air(k)
             /\ \A k \in Nics \ {n} : p \notin Queued(k) \cup Received(k)
<1>1. PICK p : p = rcv[n].rxp
  OBVIOUS
<1>2. p \in Received(n) /\ Received(n) = {p}
  BY <1>1 DEF Received
<1>3. p \in PacketSet /\ Underway(p) /\ Dst[p[1]] = n
  BY <1>2, OnTheirWay DEF PathInv, PacketsRouted
<1>4. PICK m \in Messages : \E k \in 1..Packets[m] : p = <<m, k>>
  BY <1>3, PacketShape
<1>5. /\ p[1] = m /\ p[2] \in 1..Packets[m] /\ taken[m] \in Nat /\ Packets[m] \in Nat
      /\ taken[m] < p[2] /\ p[2] <= Launched(m)
  BY <1>3, <1>4, UnderwayIs, PacketsAssumption DEF PathInv
<1>6. /\ \A q \in Queued(n) : q[1] = m => p[2] < q[2]
      /\ \A k \in Nics : \A q \in Air(k) : q[1] = m => p[2] < q[2]
  BY <1>2, <1>5 DEF PathInv, InOrder, Before
<1>7. \A k \in Nics \ {n} : \A q \in Queued(k) \cup Received(k) : q[1] # m
  BY <1>3, <1>5 DEF PathInv, PacketsRouted
<1>8. p[2] = taken[m] + 1
  <2> DEFINE q == <<m, taken[m] + 1>>
  <2>1. SUFFICES ASSUME taken[m] + 1 < p[2] PROVE FALSE
    BY <1>5
  <2>2. taken[m] + 1 \in 1..Packets[m] /\ taken[m] + 1 <= Launched(m)
    <3>1. Launched(m) \in 0..Packets[m]
      BY LaunchedType
    <3>2. QED
      BY <1>5, <2>1, <3>1
  <2>3. Underway(q) /\ q[1] = m /\ q[2] = taken[m] + 1
    BY <1>5, <2>2 DEF PathInv, NoneMissing
  <2> HIDE DEF q
  <2>4. PICK k \in Nics : q \in Air(k) \cup Queued(k) \cup Received(k)
    BY <2>3 DEF Underway
  <2>5. q \in Received(n)
    BY <1>5, <1>6, <1>7, <2>1, <2>3, <2>4
  <2>6. QED
    BY <1>2, <1>5, <2>1, <2>3, <2>5
<1>9. QED
  BY <1>1, <1>3, <1>5, <1>6, <1>7, <1>8

LEMMA RxDonePath ==
  ASSUME PathInv, SenderInv, NEW n \in Nics, RxDone(n),
         \A m \in Messages : Launched(m)' = Launched(m)
  PROVE  PathInv' /\ \A q \in PacketSet :
                       Underway(q)' <=> Underway(q) /\ q # rcv[n].rxp
<1>1. PICK p : p = rcv[n].rxp
  OBVIOUS
<1>2. PICK r : r = [rcv[n] EXCEPT !.state = "RxPacket"]
  OBVIOUS
<1>3. /\ rcv[n].state = "RxDone" /\ rcv[n] \in ReceiverState /\ Ascending(rcv[n].inQ)
      /\ rcv' = [rcv EXCEPT ![n] = NextRx(r)]
      /\ taken' = [taken EXCEPT ![p[1]] = taken[p[1]] + 1]
      /\ air' = air /\ sent' = sent
  BY <1>1, <1>2 DEF RxDone, PathInv, InOrder
<1>4. r \in ReceiverState /\ r.inQ = rcv[n].inQ
  BY <1>2, <1>3 DEF ReceiverState
<1>5. /\ p \in PacketSet /\ Underway(p) /\ p[2] = taken[p[1]] + 1
      /\ p \notin Queued(n) /\ \A k \in Nics : p \notin Air(k)
      /\ \A k \in Nics \ {n} : p \notin Queued(k) \cup Received(k)
  BY <1>1, <1>3, RxIsNext
<1>6. ToSet(r.inQ) = Queued(n) /\ Received(n) = {p}
  BY <1>1, <1>3, <1>4 DEF Queued, Received
<1>7. /\ rcv' \in [Nics -> ReceiverState] /\ PacketsRouted' /\ InOrder'
      /\ Queued(n)' \cup Received(n)' = Queued(n)
      /\ \A k \in Nics \ {n} : Queued(k)' = Queued(k) /\ Received(k)' = Received(k)
      /\ \A k \in Nics : Air(k)' = Air(k)
  BY <1>3, <1>4, <1>6, ReceiverStep
<1>8. \A q : Underway(q)' <=> Underway(q) /\ q # p
  BY <1>5, <1>6, <1>7 DEF Underway
<1>9. PICK m0 \in Messages : \E k \in 1..Packets[m0] : p = <<m0, k>>
  BY <1>5, PacketShape
<1>10. /\ p[1] = m0 /\ p[2] \in 1..Packets[m0] /\ p = <<m0, p[2]>>
       /\ p[2] <= Launched(m0) /\ taken' \in [Messages -> Nat] /\ taken'[m0] = p[2]
       /\ \A m \in Messages \ {m0} : taken'[m] = taken[m]
  BY <1>3, <1>5, <1>9, UnderwayIs DEF PathInv
<1>11. NoneMissing'
  <2>1. SUFFICES ASSUME NEW m \in Messages
                 PROVE  /\ taken'[m] <= Launched(m)
                        /\ \A k \in 1..Packets[m] :
                             Underway(<<m, k>>)' <=> taken'[m] < k /\ k <= Launched(m)
    BY DEF NoneMissing
  <2>2. taken[m] \in Nat /\ Packets[m] \in Nat /\ Launched(m) \in Nat
    BY LaunchedType DEF PathInv
  <2>3. CASE m = m0
    <3>1. p[2] = taken[m] + 1 /\ taken'[m] = p[2] /\ p[2] <= Launched(m)
      BY <1>5, <1>10, <2>3
    <3>2. \A k \in 1..Packets[m] :
            Underway(<<m, k>>)' <=> taken[m] < k /\ k <= Launched(m) /\ k # p[2]
      <4>1. \A k : <<m, k>> = p <=> k = p[2]
        BY <1>10, <2>3
      <4>2. QED
        BY <1>8, <4>1 DEF PathInv, NoneMissing
    <3>3. QED
      BY <2>2, <3>1, <3>2
  <2>4. CASE m # m0
    BY <1>8, <1>10, <2>4 DEF PathInv, NoneMissing
  <2>5. QED
    BY <2>3, <2>4
<1>12. QED
  BY <1>1, <1>3, <1>7, <1>8, <1>10, <1>11 DEF PathInv

-----------------------------------------------------------------------------
(* The places in the network.                                              *)
Sends(p) == \E n \in Nics : snd[n].state = "TxPacket" /\ snd[n].txp = p

LEMMA InsideIs == \A p : p \in Inside <=> Sends(p) \/ Underway(p)
BY DEF Inside, Sends, Underway, Air, Queued, Received

LEMMA InsideTyped == SenderInv /\ PathInv => Inside \subseteq PacketSet
<1>1. SUFFICES ASSUME SenderInv, PathInv PROVE Inside \subseteq PacketSet
  OBVIOUS
<1>2. \A p : Sends(p) => p \in PacketSet
  BY <1>1 DEF Sends, SenderInv, SendersConsistent, Active
<1>3. \A p : Underway(p) => p \in PacketSet
  BY <1>1, OnTheirWay DEF Underway
<1>4. QED
  BY <1>2, <1>3, InsideIs

\* A packet that a NIC sends or is blocked on is the next of its message.
CurrentIsNext ==
  \A n \in Nics : Active(snd[n]) =>
    LET p == snd[n].txp
    IN  /\ p \in PacketSet /\ ~Underway(p)
        /\ \A k \in Nics \ {n} : snd[k].txp # p

LEMMA PacketsNext == SenderInv /\ PathInv => CurrentIsNext
<1>1. SUFFICES ASSUME SenderInv, PathInv, NEW n \in Nics, Active(snd[n])
               PROVE  LET p == snd[n].txp
                      IN  /\ p \in PacketSet /\ ~Underway(p)
                          /\ \A k \in Nics \ {n} : snd[k].txp # p
  BY DEF CurrentIsNext
<1>2. PICK p : p = snd[n].txp
  OBVIOUS
<1>3. p \in PacketSet /\ Src[p[1]] = n /\ p[1] \in sent /\ p[1] \notin ToSet(snd[n].msgQ)
  BY <1>1, <1>2 DEF SenderInv, SendersConsistent
<1>4. p[1] \in Messages /\ p[2] \in 1..Packets[p[1]] /\ Packets[p[1]] \in Nat
  BY <1>1, <1>3, UnderwayIs, PacketsAssumption
<1>5. Launched(p[1]) = p[2] - 1
  BY <1>1, <1>2, <1>3, <1>4 DEF Launched
<1>6. ~Underway(p)
  BY <1>1, <1>3, <1>4, <1>5, UnderwayIs
<1>7. \A k \in Nics \ {n} : snd[k].txp # p
  BY <1>1, <1>3 DEF SenderInv, SendersConsistent
<1>8. QED
  BY <1>2, <1>3, <1>6, <1>7

LEMMA AccountedSame ==
  ASSUME Accounted, Inside' = Inside, inflight' = inflight
  PROVE  Accounted'
BY DEF Accounted

LEMMA AccountedMore ==
  ASSUME Accounted, NEW p, p \notin Inside, Inside' = Inside \cup {p},
         inflight' = inflight + 1
  PROVE  Accounted'
BY FS_AddElement DEF Accounted

\* After its thread has run, NIC n sends a packet that was not inside, or none.
LEMMA PostedPlaces ==
  ASSUME SenderInv, PathInv, SenderInv', PathInv', Accounted, NEW n \in Nics,
         PostEffect(n),
         \A q \in PacketSet : Underway(q)' <=>
           Underway(q) \/ (snd[n].state = "TxPacket" /\ q = snd[n].txp)
  PROVE  Accounted' /\ (blkQ # <<>> => Inside' = Inside)
<1> DEFINE Old(q) == snd[n].state = "TxPacket" /\ q = snd[n].txp
           New(q) == snd'[n].state = "TxPacket" /\ q = snd'[n].txp
<1>1. /\ CurrentIsNext /\ CurrentIsNext'
      /\ Inside \subseteq PacketSet /\ Inside' \subseteq PacketSet
  <2>1. CurrentIsNext /\ Inside \subseteq PacketSet
    BY PacketsNext, InsideTyped
  <2>2. (SenderInv /\ PathInv => CurrentIsNext /\ Inside \subseteq PacketSet)'
    BY PacketsNext, InsideTyped, PTL
  <2>3. QED
    BY <2>1, <2>2
<1>2. \A q : q \in Inside' <=> Sends(q)' \/ Underway(q)'
  <2>1. (\A p : p \in Inside <=> Sends(p) \/ Underway(p))'
    BY InsideIs, PTL
  <2>2. QED
    BY <2>1
<1>3. \A k \in Nics \ {n} : snd'[k] = snd[k]
  BY DEF PostEffect
<1>4. \A q : Sends(q) \/ Old(q) <=> Sends(q)
  BY DEF Sends
<1>5. \A q : Sends(q)' <=> (Sends(q) /\ ~Old(q)) \/ New(q)
  <2>1. \A q : Sends(q) /\ ~Old(q) <=>
                 \E k \in Nics \ {n} : snd[k].state = "TxPacket" /\ snd[k].txp = q
    BY <1>1 DEF Sends, CurrentIsNext, Active
  <2>2. \A q : Sends(q)' <=>
                 New(q) \/ \E k \in Nics \ {n} : snd[k].state = "TxPacket" /\ snd[k].txp = q
    BY <1>3 DEF Sends
  <2>3. QED
    BY <2>1, <2>2
<1>6. \A q \in PacketSet : q \in Inside' <=> q \in Inside \/ New(q)
  BY <1>2, <1>4, <1>5, InsideIs
<1>7. CASE snd'[n].state = "TxPacket" /\ blkQ = <<>> /\ inflight' = inflight + 1
  <2>1. PICK x : x = snd'[n].txp
    OBVIOUS
  <2>2. x \in PacketSet /\ ~Underway(x)'
    BY <1>1, <1>7, <2>1 DEF CurrentIsNext, Active
  <2>3. \A k \in Nics \ {n} : snd[k].txp # x
    BY <1>1, <1>3, <1>7, <2>1 DEF CurrentIsNext, Active
  <2>4. x \notin Inside
    BY <2>2, <2>3, InsideIs DEF Sends
  <2>5. Inside' = Inside \cup {x}
    BY <1>1, <1>6, <1>7, <2>1, <2>2
  <2>6. QED
    BY <1>7, <2>4, <2>5, AccountedMore
<1>8. CASE snd'[n].state # "TxPacket" /\ inflight' = inflight
  <2>1. Inside' = Inside
    BY <1>1, <1>6, <1>8
  <2>2. QED
    BY <1>8, <2>1, AccountedSame
<1>9. QED
  BY <1>7, <1>8 DEF PostEffect

\* A received packet gives its place back or to the one that waited longest.
LEMMA ReleasedPlaces ==
  ASSUME SenderInv, PathInv, Accounted, NEW n \in Nics, RxDone(n)
  PROVE  /\ SenderInv' /\ PathInv' /\ Accounted'
         /\ \A q \in Inside' \ Inside : blkQ # <<>> /\ q = Head(blkQ)
<1>1. PICK p : p = rcv[n].rxp
  OBVIOUS
<1>2. p \in PacketSet /\ Underway(p)
  BY <1>1, RxIsNext DEF RxDone
<1>3. CurrentIsNext /\ Inside \subseteq PacketSet
  BY PacketsNext, InsideTyped
<1>4. p \in Inside /\ ~Sends(p)
  BY <1>2, <1>3, InsideIs DEF CurrentIsNext, Sends, Active
<1>5. inflight # 0
  BY <1>4, FS_EmptySet DEF Accounted
<1>6. /\ SenderInv'
      /\ \A m \in Messages : Launched(m)' = Launched(m)
      /\ \/ blkQ = <<>> /\ snd' = snd /\ inflight' = inflight - 1
         \/ \E k \in Nics :
              /\ blkQ # <<>> /\ inflight' = inflight
              /\ \A j \in Nics \ {k} : snd'[j] = snd[j]
              /\ snd[k].state = "Congest" /\ snd'[k].state = "TxPacket"
              /\ snd[k].txp = Head(blkQ) /\ snd'[k].txp = Head(blkQ)
              /\ Head(blkQ) \in PacketSet
  BY <1>5, ReleaseEffect DEF RxDone
<1>7. /\ PathInv'
      /\ \A q \in PacketSet : Underway(q)' <=> Underway(q) /\ q # p
  BY <1>1, <1>6, RxDonePath
<1>8. Inside' \subseteq PacketSet
  <2>1. (SenderInv /\ PathInv => Inside \subseteq PacketSet)'
    BY InsideTyped, PTL
  <2>2. QED
    BY <1>6, <1>7, <2>1
<1>9. \A q : q \in Inside' <=> Sends(q)' \/ Underway(q)'
  BY DEF Inside, Sends, Underway, Air, Queued, Received
<1>10. /\ IsFiniteSet(Inside \ {p})
       /\ Cardinality(Inside \ {p}) = inflight - 1
  BY <1>4, FS_RemoveElement DEF Accounted
<1>11. CASE blkQ = <<>> /\ snd' = snd /\ inflight' = inflight - 1
  <2>1. \A q : Sends(q)' <=> Sends(q)
    BY <1>11 DEF Sends
  <2>2. Inside' = Inside \ {p}
    BY <1>3, <1>4, <1>7, <1>8, <1>9, <2>1, InsideIs
  <2>3. QED
    BY <1>6, <1>7, <1>10, <1>11, <2>2 DEF Accounted
<1>12. ASSUME NEW k \in Nics, blkQ # <<>>, inflight' = inflight,
              \A j \in Nics \ {k} : snd'[j] = snd[j],
              snd[k].state = "Congest", snd'[k].state = "TxPacket",
              snd[k].txp = Head(blkQ), snd'[k].txp = Head(blkQ)
       PROVE  Accounted' /\ \A q \in Inside' \ Inside : q = Head(blkQ)
  <2>1. PICK h : h = Head(blkQ)
    OBVIOUS
  <2>2. /\ h \in PacketSet /\ ~Underway(h) /\ h # p
        /\ \A j \in Nics \ {k} : snd[j].txp # h
    BY <1>2, <1>3, <1>12, <2>1 DEF CurrentIsNext, Active
  <2>3. h \notin Inside
    BY <1>12, <2>2, InsideIs DEF Sends
  <2>4. \A q : Sends(q)' <=> Sends(q) \/ q = h
    BY <1>12, <2>1 DEF Sends
  <2>5. Inside' = (Inside \ {p}) \cup {h}
    BY <1>3, <1>4, <1>7, <1>8, <1>9, <2>2, <2>4, InsideIs
  <2>6. /\ IsFiniteSet(Inside') /\ Cardinality(Inside') = (inflight - 1) + 1
    BY <1>10, <2>3, <2>5, FS_AddElement
  <2>7. inflight \in Nat
    BY PacketsAssumption DEF SenderInv
  <2>8. QED
    BY <1>12, <2>1, <2>5, <2>6, <2>7 DEF Accounted
<1>13. QED
  BY <1>6, <1>7, <1>11, <1>12
-----------------------------------------------------------------------------
(* The steps.                                                              *)
LEMMA InitInv == Init => IInv
<1>1. SUFFICES ASSUME Init PROVE IInv
  OBVIOUS
<1>2. Capacity \in Nat /\ \A m \in Messages : Packets[m] \in Nat \ {0} /\ Src[m] \in Nics
  BY PacketsAssumption, TopologyAssumption
<1>3. <<>> \in Seq(Messages) /\ <<>> \in Seq(PacketSet) /\ ToSet(<<>>) = {}
      /\ IsInjective(<<>>) /\ Ascending(<<>>)
  BY DEF ToSet, IsInjective, Ascending
<1>4. /\ \A n \in Nics : /\ snd[n].state = "Idle" /\ snd[n].msgQ = <<>>
                         /\ snd[n].txp = NoPacket /\ snd[n] \in SenderState
                         /\ rcv[n].state = "Idle" /\ rcv[n].inQ = <<>>
                         /\ rcv[n] \in ReceiverState /\ air[n] = <<>>
      /\ snd \in [Nics -> SenderState] /\ rcv \in [Nics -> ReceiverState]
      /\ air \in [Nics -> Seq(PacketSet)]
  BY <1>1, <1>3 DEF Init, SenderState, ReceiverState
<1>5. \A n \in Nics : Air(n) = {} /\ Queued(n) = {} /\ Received(n) = {} /\ ~Active(snd[n])
  BY <1>3, <1>4 DEF Air, Queued, Received, Active
<1>6. SenderInv
  <2>1. SendersConsistent
    BY <1>1, <1>3, <1>4, <1>5, NoPacketIsNone DEF SendersConsistent, Init
  <2>2. CongestedIffBlocked
    BY <1>1, <1>3, <1>4 DEF CongestedIffBlocked, Init
  <2>3. QED
    BY <1>1, <1>2, <1>3, <1>4, <2>1, <2>2 DEF SenderInv, Init
<1>7. PathInv
  <2>1. \A q : ~Underway(q)
    BY <1>5 DEF Underway
  <2>2. \A m \in Messages : Launched(m) = 0
    BY <1>1 DEF Launched, Init
  <2>3. NoneMissing
    BY <1>1, <1>2, <2>1, <2>2 DEF NoneMissing, Init
  <2>4. PacketsRouted /\ InOrder
    BY <1>3, <1>4, <1>5 DEF PacketsRouted, InOrder, Before
  <2>5. QED
    BY <1>1, <1>4, <2>3, <2>4 DEF PathInv, Init
<1>8. Accounted
  <2>1. Inside = {}
    BY <1>4, <1>5, InsideIs DEF Sends, Underway
  <2>2. QED
    BY <1>1, <2>1, FS_EmptySet DEF Accounted, Init
<1>9. Raised
  BY <1>1, <1>2 DEF Raised, WholeMessages, Init
<1>10. QED
  BY <1>6, <1>7, <1>8, <1>9 DEF IInv

\* While packets wait, only the first of them enters the network.
FirstEnters == blkQ # <<>> => \A p \in Inside' \ Inside : p = Head(blkQ)

LEMMA RaisedSame ==
  ASSUME Raised, UNCHANGED <<interrupts, delivered, taken>>, sent' \subseteq Messages
  PROVE  Raised'
BY DEF Raised, WholeMessages

\* A step that moves no packet in or out of the network.
LEMMA PlacesSame ==
  ASSUME Accounted, inflight' = inflight,
         \A k \in Nics : /\ snd'[k].state = "TxPacket" <=> snd[k].state = "TxPacket"
                         /\ snd'[k].txp = snd[k].txp,
         SenderInv, PathInv, SenderInv', PathInv',
         \A q \in PacketSet : Underway(q)' <=> Underway(q)
  PROVE  Accounted' /\ FirstEnters
<1>1. \A q : Sends(q)' <=> Sends(q)
  BY DEF Sends
<1>2. /\ \A q : q \in Inside' <=> Sends(q)' \/ Underway(q)'
      /\ Inside \subseteq PacketSet /\ Inside' \subseteq PacketSet
  <2>1. (\A p : p \in Inside <=> Sends(p) \/ Underway(p))'
    BY InsideIs, PTL
  <2>2. (SenderInv /\ PathInv => Inside \subseteq PacketSet)'
    BY InsideTyped, PTL
  <2>3. QED
    BY <2>1, <2>2, InsideTyped
<1>3. Inside' = Inside
  BY <1>1, <1>2, InsideIs
<1>4. QED
  BY <1>3, AccountedSame DEF FirstEnters

LEMMA SendStep ==
  ASSUME IInv, NEW m \in Messages, Send(m)
  PROVE  IInv' /\ FirstEnters
<1>1. PICK n \in Nics : n = Src[m]
  BY TopologyAssumption
<1>2. /\ m \notin sent /\ sent' = sent \cup {m}
      /\ snd' = [snd EXCEPT ![n].msgQ = Append(@, m),
                            ![n].state = IF @ = "Idle" THEN "PostMessage" ELSE @]
      /\ UNCHANGED <<rcv, air, inflight, blkQ, interrupts, delivered, taken>>
  BY <1>1 DEF Send
<1>3. /\ SenderInv /\ PathInv /\ Accounted /\ Raised
      /\ snd[n] \in SenderState /\ m \notin ToSet(snd[n].msgQ)
  BY <1>2 DEF IInv, SenderInv, SendersConsistent
<1>4. /\ Append(snd[n].msgQ, m) \in Seq(Messages)
      /\ ToSet(Append(snd[n].msgQ, m)) = ToSet(snd[n].msgQ) \cup {m}
      /\ IsInjective(Append(snd[n].msgQ, m))
  BY <1>3, AppendElements DEF SenderState, SenderInv, SendersConsistent
<1>5. /\ snd' \in [Nics -> SenderState] /\ \A k \in Nics \ {n} : snd'[k] = snd[k]
      /\ snd'[n].msgQ = Append(snd[n].msgQ, m) /\ snd'[n].txp = snd[n].txp
      /\ snd'[n].state = IF snd[n].state = "Idle" THEN "PostMessage" ELSE snd[n].state
  BY <1>2, <1>3, <1>4 DEF SenderInv, SenderState
<1>6. \A k \in Nics : /\ snd'[k].txp = snd[k].txp
                      /\ \A s \in {"TxPacket", "Congest"} :
                           snd'[k].state = s <=> snd[k].state = s
                      /\ Active(snd'[k]) <=> Active(snd[k])
                      /\ ToSet(snd'[k].msgQ) \subseteq ToSet(snd[k].msgQ) \cup {m}
  <2>1. \A k \in Nics : ToSet(snd'[k].msgQ) \subseteq ToSet(snd[k].msgQ) \cup {m}
    BY <1>4, <1>5
  <2>2. QED
    BY <1>5, <2>1 DEF Active
<1>7. SenderInv'
  <2>1. SendersConsistent'
    <3>1. \A q \in ToSet(blkQ') : LET r == snd'[Src[q[1]]]
                                  IN  r.state = "Congest" /\ r.txp = q
      BY <1>2, <1>3, <1>6, BlockedSenders
    <3>2. ASSUME NEW k \in Nics
          PROVE  /\ IsInjective(snd'[k].msgQ)
                 /\ \A h \in ToSet(snd'[k].msgQ) : h \in sent' /\ Src[h] = k
      BY <1>1, <1>2, <1>3, <1>4, <1>5, SMTT(60) DEF SenderInv, SendersConsistent
    <3>3. ASSUME NEW k \in Nics, Active(snd'[k])
          PROVE  /\ snd'[k].txp \in PacketSet /\ snd'[k].txp[1] \in sent'
                 /\ snd'[k].txp[1] \notin ToSet(snd'[k].msgQ)
      <4>1. /\ snd[k].txp \in PacketSet /\ snd[k].txp[1] \in sent
            /\ snd[k].txp[1] \notin ToSet(snd[k].msgQ)
        BY <1>3, <1>6, <3>3 DEF SenderInv, SendersConsistent
      <4>2. snd'[k].txp = snd[k].txp
            /\ ToSet(snd'[k].msgQ) \subseteq ToSet(snd[k].msgQ) \cup {m}
        BY <1>6
      <4>3. m \notin sent /\ sent' = sent \cup {m}
        BY <1>2
      <4>4. QED
        BY <4>1, <4>2, <4>3
    <3>4. \A k \in Nics : /\ snd'[k].txp \in PacketSet => Src[snd'[k].txp[1]] = k
                          /\ snd'[k].state = "Congest" => snd'[k].txp \in ToSet(blkQ')
      BY <1>2, <1>3, <1>6 DEF SenderInv, SendersConsistent
    <3>5. QED
      BY <3>1, <3>2, <3>3, <3>4 DEF SendersConsistent
  <2>2. CongestedIffBlocked'
    BY <1>2, <1>3, <1>6 DEF SenderInv, CongestedIffBlocked
  <2>3. QED
    BY <1>2, <1>3, <1>5, <2>1, <2>2 DEF SenderInv
<1>8. ASSUME NEW h \in Messages PROVE Launched(h)' = Launched(h)
  <2>1. CASE Src[h] # n
    BY <1>1, <1>2, <1>5, <2>1, TopologyAssumption DEF Launched
  <2>2. CASE Src[h] = n
    <3>1. /\ m \notin sent /\ sent' = sent \cup {m}
          /\ Active(snd'[n]) <=> Active(snd[n])
          /\ snd'[n].txp = snd[n].txp
          /\ ToSet(snd'[n].msgQ) = ToSet(snd[n].msgQ) \cup {m}
      BY <1>2, <1>4, <1>5, <1>6
    <3>2. QED
      BY <2>2, <3>1 DEF Launched
  <2>3. QED
    BY <2>1, <2>2
<1>9. PathInv' /\ \A q \in PacketSet : Underway(q)' <=> Underway(q)
  BY <1>2, <1>3, <1>8, PathUnchanged
<1>10. Accounted' /\ FirstEnters
  BY <1>2, <1>3, <1>6, <1>7, <1>9, PlacesSame
<1>11. Raised'
  BY <1>2, <1>3, RaisedSame DEF Raised
<1>12. QED
  BY <1>7, <1>9, <1>10, <1>11 DEF IInv

LEMMA StartSendStep ==
  ASSUME IInv, NEW n \in Nics, StartSend(n)
  PROVE  IInv' /\ FirstEnters
<1>1. SenderInv /\ PathInv /\ Accounted /\ Raised /\ sent \subseteq Messages
  BY DEF IInv, Raised
<1>2. /\ snd[n].state = "PostMessage"
      /\ UNCHANGED <<rcv, air, interrupts, delivered, sent, taken>>
  BY DEF StartSend
<1>3. /\ PostEffect(n) /\ SenderInv'
      /\ \A m \in Messages : Launched(m)' = Launched(m)
  BY <1>1, StartSendEffect DEF PostEffect
<1>4. PathInv' /\ \A q \in PacketSet : Underway(q)' <=> Underway(q)
  BY <1>1, <1>2, <1>3, PathUnchanged
<1>5. Accounted' /\ FirstEnters
  BY <1>1, <1>2, <1>3, <1>4, PostedPlaces DEF FirstEnters
<1>6. Raised'
  BY <1>1, <1>2, RaisedSame
<1>7. QED
  BY <1>3, <1>4, <1>5, <1>6 DEF IInv

LEMMA TxDoneStep ==
  ASSUME IInv, NEW n \in Nics, TxDone(n)
  PROVE  IInv' /\ FirstEnters
<1>1. SenderInv /\ PathInv /\ Accounted /\ Raised /\ sent \subseteq Messages
  BY DEF IInv, Raised
<1>2. /\ snd[n].state = "TxPacket"
      /\ UNCHANGED <<rcv, interrupts, delivered, sent, taken>>
  BY DEF TxDone
<1>3. PostEffect(n) /\ SenderInv'
  BY <1>1, TxDoneEffect DEF PostEffect
<1>4. PathInv' /\ \A q \in PacketSet : Underway(q)' <=> Underway(q) \/ q = snd[n].txp
  BY <1>1, TxDonePath
<1>5. Accounted' /\ FirstEnters
  BY <1>1, <1>2, <1>3, <1>4, PostedPlaces DEF FirstEnters
<1>6. Raised'
  BY <1>1, <1>2, RaisedSame
<1>7. QED
  BY <1>3, <1>4, <1>5, <1>6 DEF IInv

\* The steps of a receiver leave the senders alone.
LEMMA SendersSame ==
  ASSUME SenderInv, UNCHANGED <<snd, inflight, blkQ, sent>>
  PROVE  SenderInv' /\ \A m \in Messages : Launched(m)' = Launched(m)
BY DEF SenderInv, SendersConsistent, CongestedIffBlocked, Launched

LEMMA NetTraversedStep ==
  ASSUME IInv, NEW n \in Nics, NetTraversed(n)
  PROVE  IInv' /\ FirstEnters
<1>1. SenderInv /\ PathInv /\ Accounted /\ Raised /\ sent \subseteq Messages
  BY DEF IInv, Raised
<1>2. UNCHANGED <<snd, inflight, blkQ, interrupts, delivered, sent, taken>>
  BY Zenon DEF NetTraversed
<1>3. SenderInv'
  BY <1>1, <1>2, SendersSame
<1>4. PathInv' /\ \A q \in PacketSet : Underway(q)' <=> Underway(q)
  BY <1>1, TraversedPath
<1>5. Accounted' /\ FirstEnters
  BY <1>1, <1>2, <1>3, <1>4, PlacesSame
<1>6. Raised'
  BY <1>1, <1>2, RaisedSame
<1>7. QED
  BY <1>3, <1>4, <1>5, <1>6, Zenon DEF IInv

LEMMA StartRecvStep ==
  ASSUME IInv, NEW n \in Nics, StartRecv(n)
  PROVE  IInv' /\ FirstEnters
<1>1. SenderInv /\ PathInv /\ Accounted /\ Raised /\ sent \subseteq Messages
  BY DEF IInv, Raised
<1>2. UNCHANGED <<snd, air, inflight, blkQ, interrupts, delivered, sent, taken>>
  BY DEF StartRecv
<1>3. SenderInv'
  BY <1>1, <1>2, SendersSame
<1>4. PathInv' /\ \A q \in PacketSet : Underway(q)' <=> Underway(q)
  BY <1>1, StartRecvPath
<1>5. Accounted' /\ FirstEnters
  BY <1>1, <1>2, <1>3, <1>4, PlacesSame
<1>6. Raised'
  BY <1>1, <1>2, RaisedSame
<1>7. QED
  BY <1>3, <1>4, <1>5, <1>6 DEF IInv

LEMMA RxDoneStep ==
  ASSUME IInv, NEW n \in Nics, RxDone(n)
  PROVE  IInv' /\ FirstEnters
<1>1. SenderInv /\ PathInv /\ Accounted /\ Raised
  BY DEF IInv
<1>2. SenderInv' /\ PathInv' /\ Accounted' /\ FirstEnters
  BY <1>1, ReleasedPlaces DEF FirstEnters
<1>3. PICK p : p = rcv[n].rxp
  OBVIOUS
<1>4. /\ taken' = [taken EXCEPT ![p[1]] = @ + 1]
      /\ interrupts' = IF IsLast(p) THEN interrupts \cup {p[1]} ELSE interrupts
      /\ delivered' = delivered /\ sent' = sent
  BY <1>3 DEF RxDone
<1>5. p \in PacketSet /\ p[2] = taken[p[1]] + 1
  BY <1>1, <1>3, RxIsNext DEF RxDone
<1>6. PICK m \in Messages : m = p[1]
  BY <1>1, <1>5, UnderwayIs
<1>7. /\ p[2] \in 1..Packets[m] /\ taken[m] \in Nat /\ Packets[m] \in Nat \ {0}
      /\ taken'[m] = p[2] /\ taken[m] # Packets[m]
      /\ \A h \in Messages \ {m} : taken'[h] = taken[h]
  <2>1. p[2] \in 1..Packets[m] /\ taken \in [Messages -> Nat] /\ p[2] = taken[m] + 1
    BY <1>1, <1>5, <1>6, UnderwayIs DEF PathInv
  <2>2. Packets[m] \in Nat \ {0} /\ taken[m] \in Nat
    BY <2>1, PacketsAssumption
  <2>3. taken'[m] = p[2] /\ \A h \in Messages \ {m} : taken'[h] = taken[h]
    BY <1>4, <1>6, <2>1
  <2>4. QED
    BY <2>1, <2>2, <2>3
<1>8. m \notin interrupts \cup delivered
  BY <1>1, <1>7 DEF Raised, WholeMessages
<1>9. Raised'
  <2>1. IsLast(p) <=> taken'[m] = Packets[m]
    BY <1>6, <1>7 DEF IsLast
  <2>2. ASSUME NEW h \in Messages
        PROVE  /\ taken'[h] <= Packets[h]
               /\ h \in interrupts' \cup delivered' <=> taken'[h] = Packets[h]
    <3>1. CASE h = m
      BY <1>4, <1>6, <1>7, <1>8, <2>1, <3>1
    <3>2. CASE h # m
      BY <1>1, <1>4, <1>6, <1>7, <3>2 DEF Raised, WholeMessages
    <3>3. QED
      BY <3>1, <3>2
  <2>3. WholeMessages'
    BY <2>2 DEF WholeMessages
  <2>4. interrupts' \cap delivered' = {} /\ interrupts' \subseteq Messages
    BY <1>1, <1>4, <1>6, <1>8 DEF Raised
  <2>5. QED
    BY <1>1, <1>4, <2>3, <2>4 DEF Raised
<1>10. QED
  BY <1>2, <1>9 DEF IInv

LEMMA MessageInterruptStep ==
  ASSUME IInv, NEW m \in Messages, MessageInterrupt(m)
  PROVE  IInv' /\ FirstEnters
<1>1. SenderInv /\ PathInv /\ Accounted /\ Raised
  BY DEF IInv
<1>2. /\ m \in interrupts /\ interrupts' = interrupts \ {m}
      /\ delivered' = delivered \cup {m}
      /\ UNCHANGED <<snd, rcv, air, inflight, blkQ, sent, taken>>
  BY DEF MessageInterrupt
<1>3. SenderInv' /\ \A h \in Messages : Launched(h)' = Launched(h)
  BY <1>1, <1>2, SendersSame
<1>4. PathInv' /\ \A q \in PacketSet : Underway(q)' <=> Underway(q)
  BY <1>1, <1>2, <1>3, PathUnchanged
<1>5. Accounted' /\ FirstEnters
  BY <1>1, <1>2, <1>3, <1>4, PlacesSame
<1>6. Raised'
  BY <1>1, <1>2 DEF Raised, WholeMessages
<1>7. QED
  BY <1>3, <1>4, <1>5, <1>6 DEF IInv

LEMMA Stutter ==
  ASSUME IInv, UNCHANGED vars
  PROVE  IInv' /\ FirstEnters
<1>1. SenderInv /\ PathInv /\ Accounted /\ Raised /\ sent \subseteq Messages
  BY DEF IInv, Raised
<1>2. SenderInv' /\ \A m \in Messages : Launched(m)' = Launched(m)
  BY <1>1, SendersSame DEF vars
<1>3. PathInv' /\ \A q \in PacketSet : Underway(q)' <=> Underway(q)
  BY <1>1, <1>2, PathUnchanged DEF vars
<1>4. Accounted' /\ FirstEnters
  BY <1>1, <1>2, <1>3, PlacesSame DEF vars
<1>5. Raised'
  BY <1>1, RaisedSame DEF vars
<1>6. QED
  BY <1>2, <1>3, <1>4, <1>5 DEF IInv

LEMMA NextInv == IInv /\ [Next]_vars => IInv' /\ FirstEnters
BY SendStep, MessageInterruptStep, StartSendStep, TxDoneStep, NetTraversedStep,
   StartRecvStep, RxDoneStep, Stutter DEF Next
-----------------------------------------------------------------------------
(* The state of the network is consistent in every reachable state, for    *)
(* any topology, messages of any number of packets and any capacity.       *)
THEOREM Invariance == Spec => []IInv
BY InitInv, NextInv, PTL DEF Spec

(* Network::inflight counts each packet between the start of its           *)
(* transmission and the end of its receipt once, and only a full network   *)
(* blocks a sender (network.cpp:58-83).                                    *)
THEOREM PlacesCorrect == Spec => []PlacesAccounted
<1>1. IInv => PlacesAccounted
  BY DEF IInv, SenderInv, PathInv, Accounted, Raised, PlacesAccounted, TypeOK,
         SenderState, ReceiverState
<1>2. QED
  BY <1>1, Invariance, PTL

(* A NIC is congested exactly while its packet waits in Network::blkQ, so  *)
(* that the notification meets the state NIC::Notify asserts               *)
(* (nic.cpp:99-108).                                                       *)
THEOREM CongestionCorrect == Spec => []CongestedIffBlocked
<1>1. IInv => CongestedIffBlocked
  BY DEF IInv, SenderInv
<1>2. QED
  BY <1>1, Invariance, PTL

(* A message is raised to its node when its last packet has been taken in, *)
(* and by then all of them have been (nic.cpp:153-184).                    *)
THEOREM MessagesWhole == Spec => []WholeMessages
<1>1. IInv => WholeMessages
  BY DEF IInv, Raised
<1>2. QED
  BY <1>1, Invariance, PTL

(* No sender overtakes the blocked ones: while packets wait in blkQ, the   *)
(* only one that enters the network is the first (network.cpp:74-82).      *)
THEOREM BlockedFirst == Spec => BlockedGoFirst
<1>1. IInv /\ [Next]_vars =>
        [blkQ # <<>> => \A p \in Inside' \ Inside : p = Head(blkQ)]_vars
  BY NextInv DEF FirstEnters
<1>2. QED
  BY <1>1, Invariance, PTL DEF Spec, BlockedGoFirst

\* A message that is raised or delivered has been handed to its NIC.
LEMMA RaisedWereSent ==
  ASSUME IInv
  PROVE  interrupts \cup delivered \subseteq sent
<1>1. SUFFICES ASSUME NEW m \in Messages, taken[m] = Packets[m] PROVE m \in sent
  BY DEF IInv, Raised, WholeMessages
<1>2. taken[m] <= Launched(m)
  BY DEF IInv, PathInv, NoneMissing
<1>3. QED
  BY <1>1, <1>2, LaunchedType DEF IInv

(* The network refines a transport that delivers each message that is sent *)
(* at most once, in any order: a packet more or less in the network is a   *)
(* stuttering step of it.                                                  *)
THEOREM Refinement == Spec => Medium!Spec
<1> USE DEF Medium!Init, Medium!Next, Medium!Send, Medium!Deliver, Medium!vars
<1>1. Init => Medium!Init
  BY DEF Init
<1>2. ASSUME IInv, [Next]_vars PROVE [Medium!Next]_(Medium!vars)
  <2>1. interrupts \cup delivered \subseteq sent /\ interrupts \cap delivered = {}
    BY <1>2, RaisedWereSent DEF IInv, Raised
  <2>2. ASSUME NEW m \in Messages, Send(m) PROVE Medium!Next
    BY <2>1, <2>2 DEF Send
  <2>3. ASSUME NEW m \in Messages, MessageInterrupt(m) PROVE Medium!Next
    BY <2>1, <2>3, Zenon DEF MessageInterrupt
  <2>4. ASSUME NEW n \in Nics,
               \/ StartSend(n) \/ TxDone(n) \/ NetTraversed(n)
               \/ StartRecv(n) \/ RxDone(n)
        PROVE  UNCHANGED <<sent, delivered>>
    BY <2>4, Zenon DEF StartSend, TxDone, NetTraversed, StartRecv, RxDone
  <2>5. CASE UNCHANGED vars
    BY <2>5 DEF vars
  <2>6. QED
    BY <1>2, <2>2, <2>3, <2>4, <2>5 DEF Next
<1>3. QED
  BY <1>1, <1>2, Invariance, PTL DEF Spec, Medium!Spec
=============================================================================
