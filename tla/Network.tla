------------------------------ MODULE Network ------------------------------
(***************************************************************************)
(* The network interfaces and the network between them (nic.cpp,           *)
(* network.cpp, message.cpp).  A message is cut into packets, sent one     *)
(* after the other.  The network holds at most Capacity packets, from the  *)
(* start of their transmission until the receiver has taken them in; a     *)
(* packet that finds it full waits in blkQ, its NIC congested, until the   *)
(* receipt of some packet makes room.                                      *)
(*                                                                         *)
(* The latency of the network varies by less than the transmission time of *)
(* a packet of full size, and messages are made of such packets            *)
(* (DEFAULT_MSG_SIZE and the sizes of the bulk I/O), so the packets of one *)
(* sender arrive in order; the interrupts that deliver messages, whose     *)
(* latency varies more, need not.  A message that is sent back             *)
(* (ReverseChannel) is another member of Messages.                         *)
(***************************************************************************)
EXTENDS Naturals, Sequences, SequencesExt, FiniteSets

CONSTANTS Nics,      \* the network interfaces
          Messages,  \* the messages that may be sent
          Src, Dst,  \* the sender and the receiver of each message
          Packets,   \* the number of packets of each message
          Capacity   \* Network::capacity

ASSUME TopologyAssumption ==
  /\ IsFiniteSet(Nics) /\ IsFiniteSet(Messages)
  /\ Src \in [Messages -> Nics] /\ Dst \in [Messages -> Nics]
ASSUME PacketsAssumption ==
  Packets \in [Messages -> Nat \ {0}] /\ Capacity \in Nat \ {0}

VARIABLES snd,        \* per NIC: sendState, msgQ and the packet txp
          rcv,        \* per NIC: recvState, inQ and the packet rxp
          air,        \* per sender: packets that traverse the network
          inflight,   \* Network::inflight
          blkQ,       \* Network::blkQ
          interrupts, \* messages whose delivery interrupt is pending
          delivered,  \* messages handed to Node::Recv
          sent,       \* history: messages handed to NIC::Send
          taken       \* history: packets of each message taken in

vars == <<snd, rcv, air, inflight, blkQ, interrupts, delivered, sent, taken>>

\* A packet is its message and its number in it (Packet::id).
PacketSet == UNION {{m} \X (1..Packets[m]) : m \in Messages}
\* Wrong: the last packet but one is taken for the last.
IsLastEarly(p) == p[2] + 1 >= Packets[p[1]]
IsLast(p) == p[2] = Packets[p[1]]   \* NET_PKT_MSG
NoPacket == <<>>

Init ==
  /\ snd = [n \in Nics |-> [state |-> "Idle", msgQ |-> <<>>, txp |-> NoPacket]]
  /\ rcv = [n \in Nics |-> [state |-> "Idle", inQ |-> <<>>, rxp |-> NoPacket]]
  /\ air = [n \in Nics |-> <<>>]
  /\ inflight = 0 /\ blkQ = <<>>
  /\ interrupts = {} /\ delivered = {} /\ sent = {}
  /\ taken = [m \in Messages |-> 0]
-----------------------------------------------------------------------------
(* NIC::Send: the message is queued and the send thread of an idle NIC is  *)
(* signalled.                                                              *)
Send(m) ==
  LET n == Src[m]
  IN  /\ m \notin sent
      /\ sent' = sent \cup {m}
      /\ snd' = [snd EXCEPT ![n].msgQ = Append(@, m),
                            ![n].state = IF @ = "Idle" THEN "PostMessage" ELSE @]
      /\ UNCHANGED <<rcv, air, inflight, blkQ, interrupts, delivered, taken>>

(* NIC::Notify: what the network tells a NIC in the state s of its packet. *)
Notify(s, event) ==
  [s EXCEPT !.state =
     CASE event = "NET_PKT_TXDONE" ->
            IF IsLast(s.txp) THEN "PostMessage" ELSE "PostPacket"
       [] event = "NET_PKT_RETX" -> "TxPacket"
       [] event = "NET_PKT_BLK"  -> "Congest"]

(* Network::Recv of the packet p that NIC n, in the state s, sends next:   *)
(* it is accepted or the NIC is told that it is blocked.                   *)
Transmit(n, s, p) ==
  IF inflight < Capacity
  THEN /\ inflight' = inflight + 1
       /\ snd' = [snd EXCEPT ![n] = [s EXCEPT !.state = "TxPacket", !.txp = p]]
       /\ UNCHANGED blkQ
  ELSE /\ blkQ' = Append(blkQ, p)
       /\ snd' = [snd EXCEPT ![n] = Notify([s EXCEPT !.txp = p], "NET_PKT_BLK")]
       /\ UNCHANGED inflight

(* SendStateMachine between messages. *)
PostMessage(n) ==
  IF snd[n].msgQ = <<>>
  THEN /\ snd' = [snd EXCEPT ![n].state = "Idle"]
       /\ UNCHANGED <<inflight, blkQ>>
  ELSE Transmit(n, [snd[n] EXCEPT !.msgQ = Tail(@)], <<Head(snd[n].msgQ), 1>>)

(* The send thread of an idle NIC runs. *)
StartSend(n) ==
  /\ snd[n].state = "PostMessage"
  /\ PostMessage(n)
  /\ UNCHANGED <<rcv, air, interrupts, delivered, sent, taken>>

(* Network::TxDone: the packet goes on its way and its NIC is notified,    *)
(* which posts the next packet or the next message at once.                *)
TxDone(n) ==
  LET p == snd[n].txp
  IN  /\ snd[n].state = "TxPacket"
      /\ air' = [air EXCEPT ![n] = Append(@, p)]
      /\ IF Notify(snd[n], "NET_PKT_TXDONE").state = "PostMessage"
         THEN PostMessage(n)
         ELSE Transmit(n, snd[n], <<p[1], p[2] + 1>>)
      /\ UNCHANGED <<rcv, interrupts, delivered, sent, taken>>

(* Network::NetTraversed and NIC::Recv. *)
NetTraversed(n) ==
  LET p == Head(air[n])
      d == Dst[p[1]]
  IN  /\ air[n] # <<>>
      /\ air' = [air EXCEPT ![n] = Tail(@)]
      /\ rcv' = [rcv EXCEPT ![d].inQ = Append(@, p),
                            ![d].state = IF @ = "Idle" THEN "RxPacket" ELSE @]
      /\ UNCHANGED <<snd, inflight, blkQ, interrupts, delivered, sent, taken>>

(* RecvStateMachine in the state RxPacket. *)
NextRx(r) ==
  IF r.inQ = <<>> THEN [r EXCEPT !.state = "Idle"]
  ELSE [state |-> "RxDone", inQ |-> Tail(r.inQ), rxp |-> Head(r.inQ)]

StartRecv(n) ==
  /\ rcv[n].state = "RxPacket"
  /\ rcv' = [rcv EXCEPT ![n] = NextRx(@)]
  /\ UNCHANGED <<snd, air, inflight, blkQ, interrupts, delivered, sent, taken>>

(* Wrong: the place is given back although a blocked packet takes it. *)
ReleaseTwice ==
  /\ inflight' = inflight - 1
  /\ IF blkQ = <<>> THEN UNCHANGED <<blkQ, snd>>
     ELSE /\ blkQ' = Tail(blkQ)
          /\ snd' = [snd EXCEPT ![Src[Head(blkQ)[1]]].state = "TxPacket"]

(* Wrong: the blocked packet is notified and stays in blkQ. *)
ReleaseKeep ==
  IF blkQ = <<>>
  THEN inflight' = inflight - 1 /\ UNCHANGED <<blkQ, snd>>
  ELSE /\ snd' = [snd EXCEPT ![Src[Head(blkQ)[1]]].state = "TxPacket"]
       /\ UNCHANGED <<blkQ, inflight>>

(* Wrong: the packet that was blocked last goes first. *)
ReleaseNewest ==
  IF blkQ = <<>>
  THEN inflight' = inflight - 1 /\ UNCHANGED <<blkQ, snd>>
  ELSE /\ blkQ' = Front(blkQ)
       /\ snd' = [snd EXCEPT ![Src[Last(blkQ)[1]]].state = "TxPacket"]
       /\ UNCHANGED inflight

(* Wrong: nobody is notified. *)
ReleaseSilent == inflight' = inflight - 1 /\ UNCHANGED <<blkQ, snd>>

(* Network::Notify(NET_PKT_RXDONE): the place of the received packet goes  *)
(* to the packet that has been blocked longest, which its NIC sends again. *)
Release ==
  IF blkQ = <<>>
  THEN /\ inflight' = inflight - 1
       /\ UNCHANGED <<blkQ, snd>>
  ELSE /\ blkQ' = Tail(blkQ)
       /\ snd' = [snd EXCEPT ![Src[Head(blkQ)[1]]] = Notify(@, "NET_PKT_RETX")]
       /\ UNCHANGED inflight

(* A packet has been taken in.  With the last one the message is raised to *)
(* the node by an interrupt.                                               *)
RxDone(n) ==
  LET p == rcv[n].rxp
  IN  /\ rcv[n].state = "RxDone"
      /\ Release
      /\ taken' = [taken EXCEPT ![p[1]] = @ + 1]
      /\ interrupts' = IF IsLast(p) THEN interrupts \cup {p[1]} ELSE interrupts
      /\ rcv' = [rcv EXCEPT ![n] = NextRx([@ EXCEPT !.state = "RxPacket"])]
      /\ UNCHANGED <<air, delivered, sent>>

(* NIC::MessageInterrupt: interrupts fire in any order. *)
MessageInterrupt(m) ==
  /\ m \in interrupts
  /\ interrupts' = interrupts \ {m}
  /\ delivered' = delivered \cup {m}
  /\ UNCHANGED <<snd, rcv, air, inflight, blkQ, sent, taken>>

Next ==
  \/ \E m \in Messages : Send(m) \/ MessageInterrupt(m)
  \/ \E n \in Nics : \/ StartSend(n) \/ TxDone(n) \/ NetTraversed(n)
                     \/ StartRecv(n) \/ RxDone(n)

Spec == Init /\ [][Next]_vars

(* Each of these is an event in the event queue once it is enabled. *)
Fairness ==
  /\ \A m \in Messages : WF_vars(MessageInterrupt(m))
  /\ \A n \in Nics : /\ WF_vars(StartSend(n)) /\ WF_vars(TxDone(n))
                     /\ WF_vars(NetTraversed(n))
                     /\ WF_vars(StartRecv(n)) /\ WF_vars(RxDone(n))

FairSpec == Spec /\ Fairness
-----------------------------------------------------------------------------
TypeOK ==
  /\ snd \in [Nics -> [state : {"Idle", "PostMessage", "TxPacket", "Congest"},
                       msgQ : Seq(Messages), txp : PacketSet \cup {NoPacket}]]
  /\ rcv \in [Nics -> [state : {"Idle", "RxPacket", "RxDone"},
                       inQ : Seq(PacketSet), rxp : PacketSet \cup {NoPacket}]]
  /\ air \in [Nics -> Seq(PacketSet)]
  /\ inflight \in 0..Capacity
  /\ blkQ \in Seq(PacketSet)
  /\ {interrupts, delivered, sent} \subseteq SUBSET Messages
  /\ taken \in [Messages -> Nat]

\* The packets that hold a place in the network, from their transmission
\* until the receiver is done with them.
Inside ==
  {snd[n].txp : n \in {k \in Nics : snd[k].state = "TxPacket"}}
    \cup {rcv[n].rxp : n \in {k \in Nics : rcv[k].state = "RxDone"}}
    \cup UNION {ToSet(air[n]) \cup ToSet(rcv[n].inQ) : n \in Nics}

(* The network accounts for each packet once: a place that is not given    *)
(* back blocks every sender for good, one given back twice lets the        *)
(* network overflow (network.cpp:58-83).  Only a full network blocks.      *)
PlacesAccounted ==
  /\ TypeOK
  /\ inflight = Cardinality(Inside)
  /\ blkQ # <<>> => inflight = Capacity

(* A NIC is congested if and only if exactly its current packet waits in   *)
(* blkQ, so that the notification meets the state NIC::Notify asserts      *)
(* (nic.cpp:99-108).                                                       *)
CongestedIffBlocked ==
  /\ \A n \in Nics : snd[n].state = "Congest" <=> snd[n].txp \in ToSet(blkQ)
  /\ IsInjective(blkQ)

(* A message is raised to its node when all of its packets have been taken *)
(* in, none of them twice, whatever the packets of other messages between  *)
(* them (nic.cpp:153-184).                                                 *)
WholeMessages ==
  \A m \in Messages :
    /\ taken[m] <= Packets[m]
    /\ m \in interrupts \cup delivered <=> taken[m] = Packets[m]

(* No sender overtakes those that are blocked: while packets wait, the     *)
(* only one to enter the network is the one that has waited longest        *)
(* (network.cpp:74-82).                                                    *)
BlockedGoFirst ==
  [][blkQ # <<>> =>
       \A p \in Inside' \ Inside : p = Head(blkQ)]_vars

Medium == INSTANCE Transport WITH transit <- sent \ delivered

(* The network is a reliable transport that may reorder messages.          *)
ImplementsTransport == Medium!FairSpec
=============================================================================
