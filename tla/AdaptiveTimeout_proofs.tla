----------------------- MODULE AdaptiveTimeout_proofs -----------------------
(***************************************************************************)
(* Early replies keep their promise, for any number of RPCs, any length of *)
(* a second, any margin, slack and history: no RPC in service times out at *)
(* the client, the assertions on timers and deadlines hold, and timers     *)
(* follow the deadlines.                                                   *)
(*                                                                         *)
(* The argument is about who is ahead of whom.  A request arrives before   *)
(* its deadline comes within the margin; the server's timer is never later *)
(* than the margin before the first deadline; an early reply that it sends *)
(* then arrives before the client's old timer fires, since the network is  *)
(* faster than the margin; and the answer does, for the same reason.       *)
(***************************************************************************)
EXTENDS AdaptiveTimeout, CommonLemmas

Messages == [type : {"request", "early", "complete"}, rpc : Rpcs,
             sent : 0..now, est : Nat]

(* A history that begins in the past and whose estimate covers the latest  *)
(* window.                                                                 *)
SoundHistory(at) ==
  /\ at \in Windows
  /\ at.hist[0] <= at.max
  /\ at.start <= Seconds(now)

Histories ==
  /\ SoundHistory(EST) /\ SoundHistory(serv)
  /\ serv.max > 0

(* Each RPC has the messages that its phase calls for, one request or one  *)
(* answer, and no message is late.                                         *)
MessagesFit ==
  /\ \A m \in net :
       /\ now <= m.sent + NetMax
       /\ m.type = "request" => phase[m.rpc] = "sent"
       /\ m.type = "early" => phase[m.rpc] \in {"arrived", "replied", "done"}
       /\ m.type = "complete" => phase[m.rpc] = "replied"
  /\ \A m, n \in net :
       m.rpc = n.rpc /\ m.type = n.type /\ m.type # "early" => m = n
  /\ \A r \in Rpcs :
       /\ phase[r] = "sent" => \E m \in net : m.type = "request" /\ m.rpc = r
       /\ phase[r] = "replied" => \E m \in net : m.type = "complete" /\ m.rpc = r

(* A message arrives ahead of the deadline of its RPC.                     *)
DeadlinesAhead ==
  \A m \in net :
    /\ m.type = "request" => deadline[m.rpc] > m.sent + NetMax + Margin
    /\ m.type = "early" => deadline[m.rpc] > m.sent + Margin
    /\ m.type = "complete" => deadline[m.rpc] >= m.sent + Margin

ServerTimer ==
  /\ epQ = {r \in Rpcs : phase[r] = "arrived"}
  /\ \A r \in Rpcs : arrival[r] <= now
  /\ epTimer # 0 => now <= epTimer
  /\ epQ # {} => epTimer # 0 /\ epTimer = Expire(epQ, deadline)

(* A timer that is behind its deadline has an early reply under way that   *)
(* arrives before it fires.                                                *)
ClientTimers ==
  \A r \in Rpcs :
    /\ phase[r] = "new" => timer[r] = 0 /\ ~timedout[r]
    /\ phase[r] \in {"sent", "arrived", "replied"} =>
         /\ ~timedout[r]
         /\ \/ timer[r] = deadline[r]
            \/ \E m \in net : /\ m.type = "early" /\ m.rpc = r
                              /\ timer[r] >= m.sent + Margin

IInv ==
  /\ TypeOK /\ ~aborted
  /\ Histories /\ MessagesFit /\ DeadlinesAhead /\ ServerTimer /\ ClientTimers
-----------------------------------------------------------------------------
LEMMA ConstantTypes ==
  /\ TimeUnit \in Nat /\ TimeUnit > 0 /\ AtExtra \in Nat /\ AtMax \in Nat
  /\ AtMax > 0 /\ SubWnds \in Nat /\ SubWnds > 0 /\ Step \in Nat /\ Step > 0
  /\ NetMax \in Nat /\ NetMax > 0 /\ ServSlack \in Nat /\ AtEpMargin \in Nat
  /\ LastTick \in Nat /\ Initial \in Nat /\ Initial > 0 /\ Fits \subseteq Nat
BY NumbersAssumption

(* The margin in ticks exceeds what a message takes.                       *)
LEMMA MarginOK ==
  Margin \in Nat /\ NetMax \in Nat /\ NetMax < Margin /\ NetMax < TimeUnit
BY ConstantTypes, NetAssumption DEF Margin

(* More seconds than the slack, and what an early reply asks for, exceed   *)
(* the margin by a second.                                                 *)
LEMMA ExtraOK ==
  ASSUME NEW k \in Nat
  PROVE  /\ k * TimeUnit \in Nat
         /\ k >= AtExtra => k * TimeUnit >= Margin + TimeUnit
         /\ k > ServSlack => k * TimeUnit >= Margin + TimeUnit
<1>1. k >= AtEpMargin + 1 => k * TimeUnit >= AtEpMargin * TimeUnit + TimeUnit
  BY ConstantTypes, ProductMonotone
<1>2. k * TimeUnit \in Nat
  BY ConstantTypes
<1>3. QED
  BY <1>1, <1>2, ConstantTypes, MarginAssumption DEF Margin

LEMMA SecondsOK ==
  ASSUME NEW t \in Nat
  PROVE  /\ Seconds(t) \in Nat
         /\ Seconds(t) * TimeUnit <= t
         /\ t < Seconds(t) * TimeUnit + TimeUnit
         /\ Seconds(t) <= Seconds(t + 1)
BY ConstantTypes, DivBounds, DivMonotone DEF Seconds

(* at_add keeps a history sound, and the estimate covers the new value.    *)
LEMMA AtAddOK ==
  ASSUME now \in Nat, NEW at, SoundHistory(at), NEW v \in Nat
  PROVE  /\ SoundHistory(AtAdd(at, v))
         /\ AtAdd(at, v).max >= v
         /\ at.max > 0 => AtAdd(at, v).max > 0
<1> DEFINE s == Seconds(now)
           shift == (s - at.start) \div Step
           h == [i \in 0..(SubWnds - 1) |->
                   IF i = 0 THEN v ELSE IF i >= shift THEN at.hist[i - shift] ELSE 0]
           new == AtAdd(at, v)
<1>1. /\ at.start \in Nat /\ at.hist \in [0..(SubWnds - 1) -> Nat] /\ at.max \in Nat
      /\ at = [start |-> at.start, hist |-> at.hist, max |-> at.max]
      /\ at.hist[0] <= at.max /\ at.start <= s
  BY DEF SoundHistory, Windows
<1>2. s \in Nat /\ SubWnds - 1 \in Nat /\ 0 \in 0..(SubWnds - 1)
  BY SecondsOK, ConstantTypes
<1>3. at.hist[0] \in Nat
  BY <1>1, <1>2
<1> HIDE DEF s
<1>4. shift \in Nat /\ at.start + shift * Step \in Nat /\ at.start + shift * Step <= s
  <2>1. s - at.start \in Nat /\ Step \in Nat \ {0}
    BY <1>1, <1>2, ConstantTypes, SMTT(60)
  <2>2. shift \in Nat /\ Step * shift <= s - at.start
    BY <2>1, DivBounds
  <2> HIDE DEF shift
  <2>3. Step * shift \in Nat /\ shift * Step = Step * shift
    BY <2>1, <2>2
  <2>4. QED
    BY <1>1, <1>2, <2>2, <2>3
<1> HIDE DEF shift
<1>5. CASE v = 0
  BY <1>1, <1>5 DEF AtAdd
<1>6. CASE v # 0 /\ at.start = 0
  <2>1. new = [start |-> s, hist |-> [at.hist EXCEPT ![0] = v], max |-> v]
    BY <1>6 DEF AtAdd, s
  <2>2. [at.hist EXCEPT ![0] = v] \in [0..(SubWnds - 1) -> Nat]
    BY <1>1
  <2>3. [at.hist EXCEPT ![0] = v][0] = v
    BY <1>1, <1>2
  <2>4. new.start = s /\ new.max = v /\ new.hist[0] = v
    BY <2>1, <2>3
  <2>5. new \in Windows
    BY <1>2, <2>1, <2>2 DEF Windows
  <2> HIDE DEF new
  <2>6. SoundHistory(new)
    BY <1>2, <2>4, <2>5 DEF SoundHistory, s
  <2>7. QED
    BY <1>6, <2>4, <2>6 DEF new
<1>7. CASE v # 0 /\ at.start # 0 /\ shift = 0
  <2>1. CASE v > at.hist[0]
    <3>1. new = [at EXCEPT !.hist[0] = v, !.max = Max({v, @})]
      BY <1>7, <2>1 DEF AtAdd, shift, s
    <3>2. new = [start |-> at.start, hist |-> [at.hist EXCEPT ![0] = v],
                 max |-> Max({v, at.max})]
      BY <1>1, <3>1
    <3>3. /\ [at.hist EXCEPT ![0] = v] \in [0..(SubWnds - 1) -> Nat]
          /\ [at.hist EXCEPT ![0] = v][0] = v
      BY <1>1, <1>2
    <3>4. Max({v, at.max}) \in Nat /\ Max({v, at.max}) >= v
      BY <1>1, MaxOfTwo
    <3>5. /\ new \in Windows /\ new.start = at.start /\ new.hist[0] = v
          /\ new.max \in Nat /\ new.max >= v
      BY <1>1, <3>2, <3>3, <3>4 DEF Windows
    <3> HIDE DEF new
    <3>6. SoundHistory(new)
      BY <1>1, <3>5 DEF SoundHistory, s
    <3>7. QED
      BY <1>7, <3>5, <3>6 DEF new
  <2>2. CASE ~(v > at.hist[0])
    <3>1. new = at
      BY <1>7, <2>2 DEF AtAdd, shift, s
    <3>2. QED
      BY <1>1, <1>3, <2>2, <3>1
  <2>3. QED
    BY <2>1, <2>2
<1>8. CASE v # 0 /\ at.start # 0 /\ shift # 0
  <2>1. h \in [0..(SubWnds - 1) -> Nat] /\ h[0] = v
    BY <1>1, <1>2, <1>4, SMTT(60)
  <2>2. new = [start |-> at.start + shift * Step, hist |-> h,
               max |-> Max({h[i] : i \in 0..(SubWnds - 1)})]
    BY <1>8 DEF AtAdd, shift, s
  <2> HIDE DEF h
  <2>3. /\ Max({h[i] : i \in 0..(SubWnds - 1)}) \in Nat
        /\ Max({h[i] : i \in 0..(SubWnds - 1)}) >= v
    BY <1>2, <2>1, MaxOfFunction
  <2>4. /\ new \in Windows /\ new.start = at.start + shift * Step
        /\ new.hist[0] = v /\ new.max \in Nat /\ new.max >= v
    BY <1>4, <2>1, <2>2, <2>3 DEF Windows
  <2> HIDE DEF new
  <2>5. SoundHistory(new)
    BY <1>4, <2>4 DEF SoundHistory, s
  <2>6. QED
    BY <1>8, <2>4, <2>5 DEF new
<1>9. QED
  BY <1>5, <1>6, <1>7, <1>8

(* The server's timer is set a margin before the first of the deadlines.   *)
LEMMA ExpireOK ==
  ASSUME NEW R \in SUBSET Rpcs, R # {}, NEW dl \in [Rpcs -> Nat]
  PROVE  /\ Expire(R, dl) \in Int
         /\ \A r \in R : Expire(R, dl) + Margin <= dl[r]
         /\ \E r \in R : Expire(R, dl) + Margin = dl[r]
<1> DEFINE D == {dl[r] : r \in R}
<1>1. D \in SUBSET Nat /\ D # {}
  OBVIOUS
<1>2. \A r \in R : dl[r] \in D
  OBVIOUS
<1>3. \A d \in D : \E r \in R : d = dl[r]
  OBVIOUS
<1> HIDE DEF D
<1>4. Min(D) \in D /\ \A d \in D : Min(D) <= d
  BY <1>1, MinOfNats
<1>5. Expire(R, dl) = Min(D) - Margin
  BY DEF Expire, D
<1>6. Min(D) \in Nat /\ Margin \in Nat
  BY <1>1, <1>4, MarginOK
<1>7. Expire(R, dl) \in Int /\ Expire(R, dl) + Margin = Min(D)
  BY <1>5, <1>6
<1>8. QED
  BY <1>2, <1>3, <1>4, <1>7
-----------------------------------------------------------------------------
(* The states of the server that early replies pass through, and what is   *)
(* true once those of the RPCs R have been sent from s0.                   *)
ServerStates ==
  {s \in [EST : Windows, deadline : [Rpcs -> Nat], net : SUBSET Messages,
          top : Nat, ok : BOOLEAN] : SoundHistory(s.EST)}

RepliesSent(s0, s, R) ==
  /\ s \in ServerStates /\ s.ok
  /\ \A r \in Rpcs :
       IF r \in R THEN s.deadline[r] > now + Margin
       ELSE s.deadline[r] = s0.deadline[r]
  /\ s0.net \subseteq s.net
  /\ \A m \in s.net : m \in s0.net \/ /\ m.type = "early" /\ m.rpc \in R
                                      /\ m.sent = now
  /\ \A r \in R : \E m \in s.net : /\ m.type = "early" /\ m.rpc = r
                                   /\ m.sent = now

(* ptlrpc_at_send_early_reply gives a deadline more than the margin ahead. *)
LEMMA EarlyReplyOK ==
  ASSUME now \in Nat, arrival \in [Rpcs -> Nat],
         NEW s \in ServerStates, NEW r \in Rpcs, arrival[r] <= now
  PROVE  /\ SendEarlyReply(s, r) \in ServerStates
         /\ \E d, e \in Nat :
              /\ d > now + Margin
              /\ SendEarlyReply(s, r).deadline = [s.deadline EXCEPT ![r] = d]
              /\ SendEarlyReply(s, r).net =
                   s.net \cup {[type |-> "early", rpc |-> r, sent |-> now, est |-> e]}
              /\ s.ok /\ s.deadline[r] <= now + Margin => SendEarlyReply(s, r).ok
<1> DEFINE elapsed == Seconds(now - arrival[r])
           e == AtAdd(s.EST, AtExtra + elapsed)
           d == arrival[r] + e.max * TimeUnit
           m == [type |-> "early", rpc |-> r, sent |-> now, est |-> e.max]
           t == SendEarlyReply(s, r)
<1>1. /\ arrival[r] \in Nat /\ now - arrival[r] \in Nat
      /\ s.deadline \in [Rpcs -> Nat] /\ s.net \in SUBSET Messages
      /\ s.top \in Nat /\ s.ok \in BOOLEAN /\ SoundHistory(s.EST)
  BY DEF ServerStates
<1>2. /\ elapsed \in Nat /\ AtExtra + elapsed \in Nat
      /\ now - arrival[r] < elapsed * TimeUnit + TimeUnit
  BY <1>1, SecondsOK, ConstantTypes
<1> HIDE DEF elapsed
<1>3. SoundHistory(e) /\ e.max >= AtExtra + elapsed
  BY <1>1, <1>2, AtAddOK
<1>4. e \in Windows /\ e.max \in Nat
  BY <1>3 DEF SoundHistory, Windows
<1>5. t = [EST |-> e, deadline |-> [s.deadline EXCEPT ![r] = d],
           net |-> s.net \cup {m}, top |-> Max({s.top, AtExtra + elapsed}),
           ok |-> s.ok /\ d > s.deadline[r] /\ d > now + Margin]
  BY DEF SendEarlyReply, elapsed
<1> HIDE DEF e
<1>6. d \in Nat /\ d > now + Margin
  <2>1. e.max - elapsed \in Nat /\ e.max - elapsed >= AtExtra
    BY <1>2, <1>3, <1>4, ConstantTypes
  <2>2. (e.max - elapsed) * TimeUnit >= Margin + TimeUnit
    BY <2>1, ExtraOK
  <2>3. e.max * TimeUnit = (e.max - elapsed) * TimeUnit + elapsed * TimeUnit
    BY <1>2, <1>4, ConstantTypes
  <2>4. /\ e.max * TimeUnit \in Nat /\ elapsed * TimeUnit \in Nat
        /\ (e.max - elapsed) * TimeUnit \in Nat
    BY <1>2, <1>4, <2>1, ExtraOK
  <2>5. QED
    BY <1>1, <1>2, <2>2, <2>3, <2>4, ConstantTypes, MarginOK
<1> HIDE DEF d
<1>7. m \in Messages
  BY <1>4 DEF Messages
<1>8. Max({s.top, AtExtra + elapsed}) \in Nat
  BY <1>1, <1>2, MaxOfTwo
<1>9. [s.deadline EXCEPT ![r] = d] \in [Rpcs -> Nat]
  BY <1>1, <1>6
<1>10. (s.ok /\ d > s.deadline[r] /\ d > now + Margin) \in BOOLEAN
  OBVIOUS
<1>11. t \in [EST : Windows, deadline : [Rpcs -> Nat], net : SUBSET Messages,
              top : Nat, ok : BOOLEAN]
  <2>1. s.net \cup {m} \in SUBSET Messages
    BY <1>1, <1>7
  <2>2. QED
    BY <1>4, <1>5, <1>8, <1>9, <1>10, <2>1
<1>12. /\ t.EST = e /\ t.deadline = [s.deadline EXCEPT ![r] = d]
       /\ t.net = s.net \cup {m}
       /\ t.ok = (s.ok /\ d > s.deadline[r] /\ d > now + Margin)
  BY <1>5
<1> HIDE DEF t
<1>13. t \in ServerStates
  BY <1>3, <1>11, <1>12 DEF ServerStates
<1>14. s.ok /\ s.deadline[r] <= now + Margin => t.ok
  <2>1. s.deadline[r] \in Nat
    BY <1>1
  <2>2. s.deadline[r] <= now + Margin => d > s.deadline[r]
    BY <1>6, <2>1, MarginOK
  <2>3. QED
    BY <1>6, <1>12, <2>2
<1>15. QED
  BY <1>4, <1>6, <1>12, <1>13, <1>14 DEF t

(* Everyone expiring soon gets one, and with it a new deadline.            *)
LEMMA EarlyRepliesOK ==
  ASSUME now \in Nat, arrival \in [Rpcs -> Nat],
         NEW s0 \in ServerStates, s0.ok,
         NEW R \in SUBSET Rpcs,
         \A r \in R : arrival[r] <= now /\ s0.deadline[r] <= now + Margin,
         NEW n \in Nat, NEW q \in [1..n -> R],
         \A i, j \in 1..n : i # j => q[i] # q[j],
         \A r \in R : \E i \in 1..n : q[i] = r
  PROVE  RepliesSent(s0, SendEarlyReplies(s0, q), R)
<1> DEFINE f[k \in 0..n] == IF k = 0 THEN s0 ELSE SendEarlyReply(f[k - 1], q[k])
           step == [k \in 1..n |->
                      [s \in ServerStates |-> SendEarlyReply(s, q[k])]]
           Sent(k) == {q[i] : i \in 1..k}
           S == {k \in 0..n : RepliesSent(s0, f[k], Sent(k))}
<1>1. q \in Seq(R) /\ Len(q) = n
  OBVIOUS
<1>2. f = [k \in 0..n |-> IF k = 0 THEN s0 ELSE SendEarlyReply(f[k - 1], q[k])]
  <2>1. \A k \in 1..n : \A s \in ServerStates : SendEarlyReply(s, q[k]) \in ServerStates
    BY EarlyReplyOK
  <2>2. step \in [1..n -> [ServerStates -> ServerStates]]
    BY <2>1
  <2>3. PICK g \in [0..n -> ServerStates] : IsIteration(g, n, s0, step)
    BY <2>2, IterationExists
  <2>4. \A k \in 0..n : k # 0 => k \in 1..n /\ k - 1 \in 0..n
    OBVIOUS
  <2>5. \A k \in 0..n : k # 0 => step[k][g[k - 1]] = SendEarlyReply(g[k - 1], q[k])
    BY <2>3, <2>4
  <2> HIDE DEF step
  <2>6. \A k \in 0..n : g[k] = IF k = 0 THEN s0 ELSE step[k][g[k - 1]]
    BY <2>3 DEF IsIteration
  <2>7. \A k \in 0..n : g[k] = IF k = 0 THEN s0 ELSE SendEarlyReply(g[k - 1], q[k])
    BY <2>5, <2>6
  <2>8. g = [k \in 0..n |-> IF k = 0 THEN s0 ELSE SendEarlyReply(g[k - 1], q[k])]
    BY <2>3, <2>7
  <2>9. QED
    BY <2>8
<1>3. SendEarlyReplies(s0, q) = f[n]
  BY <1>1 DEF SendEarlyReplies
<1> HIDE DEF f, step
<1>4. 0 \in S
  <2>1. f[0] = s0 /\ Sent(0) = {}
    BY <1>2
  <2>2. RepliesSent(s0, s0, {})
    BY DEF RepliesSent
  <2> HIDE DEF Sent
  <2>3. RepliesSent(s0, f[0], Sent(0))
    BY <2>1, <2>2
  <2>4. QED
    BY <2>3, 0 \in 0..n
<1>5. ASSUME NEW k \in 1..n, k - 1 \in S
      PROVE  k \in S
  <2> DEFINE s == f[k - 1]
             r == q[k]
             t == f[k]
  <2>1. t = SendEarlyReply(s, r) /\ k \in 0..n /\ k # 0
    BY <1>2
  <2>2. RepliesSent(s0, s, Sent(k - 1))
    BY <1>5
  <2>3. r \in R /\ r \in Rpcs /\ r \notin Sent(k - 1)
    OBVIOUS
  <2>4. Sent(k) = Sent(k - 1) \cup {r}
    BY \A i \in 1..k : i \in 1..(k - 1) \/ i = k, k \in 1..k,
       \A i \in 1..(k - 1) : i \in 1..k
  <2>5. s \in ServerStates /\ s.ok /\ s.deadline[r] <= now + Margin
    BY <2>2, <2>3 DEF RepliesSent
  <2> HIDE DEF s, t, r
  <2>6. PICK d, e \in Nat :
          /\ d > now + Margin
          /\ t.deadline = [s.deadline EXCEPT ![r] = d]
          /\ t.net = s.net \cup {[type |-> "early", rpc |-> r, sent |-> now, est |-> e]}
          /\ s.ok /\ s.deadline[r] <= now + Margin => t.ok
    BY <2>1, <2>3, <2>5, EarlyReplyOK, ZenonT(120)
  <2>7. t \in ServerStates
    BY <2>1, <2>3, <2>5, EarlyReplyOK
  <2>8. s.deadline \in [Rpcs -> Nat]
    BY <2>5 DEF ServerStates
  <2>9. t.ok
    BY <2>5, <2>6
  <2>10. \A x \in Rpcs :
           IF x \in Sent(k - 1) \cup {r} THEN t.deadline[x] > now + Margin
           ELSE t.deadline[x] = s0.deadline[x]
    <3>1. ASSUME NEW x \in Rpcs, x # r
          PROVE  t.deadline[x] = s.deadline[x]
      BY <2>6, <2>8, <3>1
    <3>2. t.deadline[r] = d
      BY <2>3, <2>6, <2>8
    <3>3. \A x \in Rpcs : IF x \in Sent(k - 1) THEN s.deadline[x] > now + Margin
                         ELSE s.deadline[x] = s0.deadline[x]
      BY <2>2 DEF RepliesSent
    <3> HIDE DEF Sent
    <3>4. QED
      BY <2>6, <3>1, <3>2, <3>3
  <2> DEFINE m == [type |-> "early", rpc |-> r, sent |-> now, est |-> e]
  <2>11. t.net = s.net \cup {m} /\ m.type = "early" /\ m.rpc = r /\ m.sent = now
    BY <2>6
  <2> HIDE DEF m
  <2>12. /\ s0.net \subseteq t.net
         /\ \A x \in t.net : x \in s0.net \/ /\ x.type = "early"
                                             /\ x.rpc \in Sent(k - 1) \cup {r}
                                             /\ x.sent = now
         /\ \A y \in Sent(k - 1) \cup {r} :
              \E x \in t.net : x.type = "early" /\ x.rpc = y /\ x.sent = now
    BY <2>2, <2>11, ZenonT(120) DEF RepliesSent
  <2>13. RepliesSent(s0, t, Sent(k))
    BY <2>4, <2>7, <2>9, <2>10, <2>12 DEF RepliesSent
  <2>14. QED
    BY <2>13 DEF t
<1> HIDE DEF S
<1>6. n \in S
  BY <1>4, <1>5, UpTo, n \in 0..n
<1>7. Sent(n) = R
  OBVIOUS
<1>8. QED
  BY <1>3, <1>6, <1>7 DEF S
-----------------------------------------------------------------------------
LEMMA ExpireSame ==
  ASSUME NEW R, NEW dl, NEW dk, \A r \in R : dl[r] = dk[r]
  PROVE  Expire(R, dl) = Expire(R, dk)
<1>1. {dl[r] : r \in R} = {dk[r] : r \in R}
  OBVIOUS
<1>2. QED
  BY <1>1 DEF Expire

\* What the type invariant says, in the form that the proofs use.
LEMMA Types ==
  ASSUME TypeOK
  PROVE  /\ now \in Nat /\ now <= LastTick
         /\ phase \in [Rpcs -> {"new", "sent", "arrived", "replied", "done"}]
         /\ deadline \in [Rpcs -> Nat] /\ arrival \in [Rpcs -> Nat]
         /\ timer \in [Rpcs -> Nat] /\ timedout \in [Rpcs -> BOOLEAN]
         /\ epQ \in SUBSET Rpcs /\ epTimer \in Nat
         /\ net \in SUBSET Messages
         /\ \A m \in net : /\ m.rpc \in Rpcs /\ m.sent \in Nat /\ m.sent <= now
                           /\ m.type \in {"request", "early", "complete"}
                           /\ m.est \in Nat
         /\ added \in [0..Seconds(LastTick) -> Nat]
         /\ netlat \in [start : Nat, est : 0..AtMax]
<1>1. now \in Nat /\ now <= LastTick
  BY ConstantTypes DEF TypeOK
<1>2. net \in SUBSET Messages
  BY DEF TypeOK, Messages
<1>3. \A m \in Messages : /\ m.rpc \in Rpcs /\ m.sent \in Nat /\ m.sent <= now
                          /\ m.type \in {"request", "early", "complete"}
                          /\ m.est \in Nat
  BY <1>1 DEF Messages
<1>4. {deadline, arrival, timer} \subseteq [Rpcs -> Nat]
  BY DEF TypeOK
<1>5. QED
  BY <1>1, <1>2, <1>3, <1>4 DEF TypeOK

\* The RPCs of Q that are in the server and expire soon, in any order.
LEMMA OrderedOnce ==
  ASSUME NEW R \in SUBSET Rpcs, NEW q \in Orders(R)
  PROVE  LET n == Cardinality(R)
         IN  /\ n \in Nat /\ q \in [1..n -> R]
             /\ \A i, j \in 1..n : i # j => q[i] # q[j]
             /\ \A r \in R : \E i \in 1..n : q[i] = r
<1> DEFINE n == Cardinality(R)
<1>1. IsFiniteSet(R) /\ n \in Nat
  BY RpcsAssumption, FS_Subset, FS_CardinalityType
<1>2. q \in [1..n -> R] /\ \A i, j \in 1..n : i # j => q[i] # q[j]
  BY DEF Orders, SetToSeqs
<1> HIDE DEF n
<1>3. q \in Seq(R) /\ Len(q) = n /\ DOMAIN q = 1..n
  BY <1>1, <1>2
<1>4. Distinct(q)
  BY <1>2, <1>3 DEF Distinct
<1>5. /\ IsFiniteSet(Prefix(q, n)) /\ Cardinality(Prefix(q, n)) = n
      /\ Prefix(q, n) \subseteq R
  BY <1>1, <1>2, <1>3, <1>4, PrefixOfInjective DEF Elements
<1>6. Prefix(q, n) = R
  BY <1>1, <1>5, FS_Subset DEF n
<1>7. QED
  BY <1>1, <1>2, <1>6 DEF Prefix, n

(* ptlrpc_at_check_timed never aborts: the RPCs that expire soon get a new *)
(* deadline and an early reply, and the timer is ahead of all the others.  *)
LEMMA CheckTimedOK ==
  ASSUME IInv, NEW Q \in SUBSET epQ, NEW e, SoundHistory(e),
         NEW v \in Nat, NEW t \in Nat, NEW msgs \in SUBSET Messages,
         CheckTimed(Q, e, v, t, msgs)
  PROVE  /\ aborted' = FALSE /\ epQ' = Q /\ SoundHistory(EST')
         /\ added' \in [0..Seconds(LastTick) -> Nat]
         /\ deadline' \in [Rpcs -> Nat]
         /\ \A r \in Q : deadline'[r] > now + Margin
         /\ \A r \in Rpcs :
              \/ deadline'[r] = deadline[r]
              \/ /\ deadline'[r] > deadline[r] /\ deadline[r] = now + Margin
                 /\ r \in Q
                 /\ \E m \in net' : m.type = "early" /\ m.rpc = r /\ m.sent = now
         /\ net' \in SUBSET Messages /\ msgs \subseteq net'
         /\ \A m \in net' : m \in msgs \/ /\ m.type = "early" /\ m.rpc \in Q
                                          /\ m.sent = now
         /\ epTimer' = IF Q = {} THEN t ELSE Expire(Q, deadline')
<1>1. /\ now \in Nat /\ arrival \in [Rpcs -> Nat] /\ deadline \in [Rpcs -> Nat]
      /\ epTimer \in Nat /\ epQ \in SUBSET Rpcs
      /\ added \in [0..Seconds(LastTick) -> Nat]
  BY Types DEF IInv
<1>2. \A r \in epQ : arrival[r] <= now /\ deadline[r] >= now + Margin
  <2>1. ASSUME NEW r \in epQ
        PROVE  deadline[r] >= now + Margin
    <3>1. epQ # {} /\ now <= epTimer /\ epTimer = Expire(epQ, deadline)
      BY DEF IInv, ServerTimer
    <3>2. Expire(epQ, deadline) + Margin <= deadline[r]
      BY <1>1, <3>1, ExpireOK
    <3>3. QED
      BY <1>1, <3>1, <3>2, MarginOK
  <2>2. QED
    BY <1>1, <2>1 DEF IInv, ServerTimer
<1>3. PICK q \in Orders(Near(Q)) :
        LET s == SendEarlyReplies(
                   [EST |-> e, deadline |-> deadline, net |-> msgs, top |-> v,
                    ok |-> \A r \in Q : deadline[r] >= now], q)
        IN  /\ epQ' = Q
            /\ EST' = s.EST
            /\ added' = [added EXCEPT ![Seconds(now)] = Max({@, s.top})]
            /\ deadline' = s.deadline
            /\ net' = s.net
            /\ aborted' = ~(s.ok /\ CanSetTimer(Q, s.deadline))
            /\ epTimer' = IF Q = {} \/ aborted' THEN t ELSE Expire(Q, s.deadline)
  BY DEF CheckTimed
<1> DEFINE R == Near(Q)
<1>4. /\ R \in SUBSET Rpcs /\ R \subseteq Q
      /\ \A r \in R : arrival[r] <= now /\ deadline[r] <= now + Margin
      /\ \A r \in Q \ R : deadline[r] > now + Margin
  <2>1. R \subseteq Q
    BY DEF Near
  <2>2. \A r \in Q : deadline[r] \in Nat
    BY <1>1
  <2>3. \A r \in Q \ R : deadline[r] > now + Margin
    BY <1>1, <2>2, MarginOK DEF Near
  <2>4. \A r \in R : deadline[r] <= now + Margin
    BY DEF Near
  <2>5. QED
    BY <1>1, <1>2, <2>1, <2>3, <2>4
<1>5. (\A r \in Q : deadline[r] >= now) = TRUE
  BY <1>1, <1>2, MarginOK
<1>6. PICK s0 : s0 = [EST |-> e, deadline |-> deadline, net |-> msgs,
                      top |-> v, ok |-> TRUE]
  OBVIOUS
<1>7. /\ s0 \in ServerStates /\ s0.ok /\ s0.deadline = deadline /\ s0.net = msgs
  <2>1. e \in Windows
    BY DEF SoundHistory
  <2>2. s0 \in [EST : Windows, deadline : [Rpcs -> Nat], net : SUBSET Messages,
                top : Nat, ok : BOOLEAN]
    BY <1>1, <1>6, <2>1
  <2>3. s0.EST = e /\ s0.ok /\ s0.deadline = deadline /\ s0.net = msgs
    BY <1>6
  <2>4. QED
    BY <2>2, <2>3 DEF ServerStates
<1>8. PICK s : s = SendEarlyReplies(s0, q)
  OBVIOUS
<1>9. /\ epQ' = Q /\ EST' = s.EST /\ deadline' = s.deadline /\ net' = s.net
      /\ added' = [added EXCEPT ![Seconds(now)] = Max({@, s.top})]
      /\ aborted' = ~(s.ok /\ CanSetTimer(Q, s.deadline))
      /\ epTimer' = IF Q = {} \/ aborted' THEN t ELSE Expire(Q, s.deadline)
  BY <1>3, <1>5, <1>6, <1>8
<1> HIDE DEF R
<1>10. RepliesSent(s0, s, R)
  <2>1. q \in Orders(R)
    BY <1>3 DEF R
  <2>2. /\ Cardinality(R) \in Nat /\ q \in [1..Cardinality(R) -> R]
        /\ \A i, j \in 1..Cardinality(R) : i # j => q[i] # q[j]
        /\ \A r \in R : \E i \in 1..Cardinality(R) : q[i] = r
    BY <1>4, <2>1, OrderedOnce
  <2>3. QED
    BY <1>1, <1>4, <1>7, <1>8, <2>2, EarlyRepliesOK
<1>11. /\ s.ok /\ SoundHistory(s.EST) /\ s.top \in Nat
       /\ s.deadline \in [Rpcs -> Nat] /\ s.net \in SUBSET Messages
  BY <1>10 DEF RepliesSent, ServerStates
<1>12. \A r \in Rpcs : IF r \in R THEN s.deadline[r] > now + Margin
                       ELSE s.deadline[r] = deadline[r]
  BY <1>7, <1>10 DEF RepliesSent
<1>13. \A r \in Q : s.deadline[r] > now + Margin
  BY <1>1, <1>4, <1>12
<1>14. CanSetTimer(Q, s.deadline)
  BY <1>13 DEF CanSetTimer, Margin
<1>15. aborted' = FALSE
  BY <1>9, <1>11, <1>14
<1>16. added' \in [0..Seconds(LastTick) -> Nat]
  <2>1. \A x \in Nat : Max({x, s.top}) \in Nat
    BY <1>11, MaxOfTwo
  <2>2. added' = [added EXCEPT ![Seconds(now)] = Max({added[Seconds(now)], s.top})]
    BY <1>9
  <2>3. Seconds(now) \in 0..Seconds(LastTick) =>
          Max({added[Seconds(now)], s.top}) \in Nat
    BY <1>1, <2>1
  <2> DEFINE x == Seconds(now)
             y == Max({added[Seconds(now)], s.top})
  <2>4. added' = [added EXCEPT ![x] = y] /\ (x \in 0..Seconds(LastTick) => y \in Nat)
    BY <2>2, <2>3
  <2> HIDE DEF x, y
  <2>5. QED
    BY <1>1, <2>4
<1>17. /\ msgs \subseteq s.net
       /\ \A m \in s.net : m \in msgs \/ /\ m.type = "early" /\ m.rpc \in Q
                                         /\ m.sent = now
       /\ \A r \in R : \E m \in s.net : m.type = "early" /\ m.rpc = r /\ m.sent = now
  BY <1>4, <1>7, <1>10 DEF RepliesSent
<1>18. ASSUME NEW r \in R
       PROVE  s.deadline[r] > deadline[r] /\ deadline[r] = now + Margin /\ r \in Q
  <2>1. r \in Rpcs /\ r \in Q /\ r \in epQ
    BY <1>4
  <2>2. deadline[r] \in Nat /\ s.deadline[r] \in Nat
    BY <1>1, <1>11, <2>1
  <2>3. deadline[r] <= now + Margin /\ deadline[r] >= now + Margin
    BY <1>2, <1>4, <2>1
  <2>4. s.deadline[r] > now + Margin
    BY <1>12, <2>1
  <2>5. QED
    BY <1>1, <2>1, <2>2, <2>3, <2>4, MarginOK, SMTT(60)
<1>19. \A r \in Rpcs :
         \/ deadline'[r] = deadline[r]
         \/ /\ deadline'[r] > deadline[r] /\ deadline[r] = now + Margin
            /\ r \in Q
            /\ \E m \in net' : m.type = "early" /\ m.rpc = r /\ m.sent = now
  BY <1>9, <1>12, <1>17, <1>18
<1>20. QED
  BY <1>9, <1>11, <1>13, <1>15, <1>16, <1>17, <1>19
-----------------------------------------------------------------------------
LEMMA InitInv == Init => IInv
<1> SUFFICES ASSUME Init
             PROVE  IInv
  OBVIOUS
<1>1. 0 \in 0..(SubWnds - 1)
  BY ConstantTypes
<1>2. EST \in Windows /\ EST.start = 0 /\ EST.max = 0 /\ EST.hist[0] = 0
  BY <1>1 DEF Init, Windows
<1>3. serv = [start |-> EST.start, hist |-> EST.hist, max |-> Initial]
  BY <1>2 DEF Init, Windows
<1>4. serv \in Windows /\ serv.start = 0 /\ serv.max = Initial /\ serv.hist[0] = 0
  BY <1>2, <1>3, ConstantTypes DEF Windows
<1>5. Seconds(now) \in Nat
  BY SecondsOK DEF Init
<1>6. Histories
  BY <1>2, <1>4, <1>5, ConstantTypes DEF Histories, SoundHistory
<1>7. TypeOK
  <2>1. now \in 0..LastTick /\ epQ \subseteq Rpcs /\ epTimer \in Nat
    BY ConstantTypes DEF Init
  <2>2. /\ phase \in [Rpcs -> {"new", "sent", "arrived", "replied", "done"}]
        /\ timedout \in [Rpcs -> BOOLEAN]
    BY DEF Init
  <2>3. deadline \in [Rpcs -> Nat] /\ arrival \in [Rpcs -> Nat]
    BY DEF Init
  <2>4. timer \in [Rpcs -> Nat]
    BY DEF Init
  <2>5. aborted \in BOOLEAN /\ net = {}
    BY DEF Init
  <2>6. netlat \in [start : Nat, est : 0..AtMax]
    BY ConstantTypes DEF Init
  <2>7. added \in [0..Seconds(LastTick) -> Nat]
    BY DEF Init
  <2>8. QED
    BY <1>2, <1>4, <2>1, <2>2, <2>3, <2>4, <2>5, <2>6, <2>7 DEF TypeOK
<1>8. MessagesFit /\ DeadlinesAhead /\ ServerTimer /\ ClientTimers /\ ~aborted
  BY DEF Init, MessagesFit, DeadlinesAhead, ServerTimer, ClientTimers
<1>9. QED
  BY <1>6, <1>7, <1>8 DEF IInv

LEMMA ClientSendInv ==
  ASSUME IInv, NEW r \in Rpcs, ClientSend(r)
  PROVE  IInv'
<1> DEFINE m0 == [type |-> "request", rpc |-> r, sent |-> now, est |-> 0]
           K == ServEstimate + ServEstimate \div 4 + ServSlack + netlat.est
           d == now + K * TimeUnit
<1>1. /\ now \in Nat /\ now <= LastTick
      /\ phase \in [Rpcs -> {"new", "sent", "arrived", "replied", "done"}]
      /\ deadline \in [Rpcs -> Nat] /\ timer \in [Rpcs -> Nat]
      /\ net \in SUBSET Messages
      /\ \A m \in net : /\ m.rpc \in Rpcs /\ m.sent \in Nat /\ m.sent <= now
                        /\ m.type \in {"request", "early", "complete"}
      /\ netlat.est \in Nat
  BY Types, ConstantTypes DEF IInv
<1>2. /\ phase[r] = "new" /\ phase' = [phase EXCEPT ![r] = "sent"]
      /\ deadline' = [deadline EXCEPT ![r] = d]
      /\ timer' = [timer EXCEPT ![r] = d]
      /\ aborted' = (d <= now + Margin)
      /\ net' = net \cup {m0}
      /\ UNCHANGED <<now, arrival, timedout, serv, netlat, epQ, epTimer, EST, added>>
  BY DEF ClientSend, clientVars, serverVars, Margin
<1>3. d \in Nat /\ d > now + NetMax + Margin
  <2>1. serv.max \in Nat /\ serv.max > 0
    BY DEF IInv, Histories, SoundHistory, Windows
  <2>2. ServEstimate \in Nat /\ ServEstimate > 0
    BY <2>1, ConstantTypes, MinOfTwo DEF ServEstimate
  <2>3. ServEstimate \div 4 \in Nat
    BY <2>2, DivBounds
  <2>4. K \in Nat /\ K > ServSlack
    BY <1>1, <2>2, <2>3, ConstantTypes
  <2> HIDE DEF K
  <2>5. K * TimeUnit \in Nat /\ K * TimeUnit >= Margin + TimeUnit
    BY <2>4, ExtraOK
  <2>6. PICK k : k = K * TimeUnit
    OBVIOUS
  <2>7. k \in Nat /\ k >= Margin + TimeUnit /\ d = now + k
    BY <2>5, <2>6
  <2> HIDE DEF d
  <2>8. QED
    BY <1>1, <2>7, MarginOK, ConstantTypes
<1> HIDE DEF d, K
<1>4. ~aborted'
  <2>1. aborted' = (d <= now + Margin)
    BY <1>2
  <2>2. now \in Nat /\ ~(d <= now + Margin)
    BY <1>1, <1>3, MarginOK
  <2>3. QED
    BY <2>1, <2>2
<1>5. /\ m0.type = "request" /\ m0.rpc = r /\ m0.sent = now /\ m0 \in Messages
  BY <1>1 DEF Messages
<1> HIDE DEF m0
<1>6. \A m \in net : m.rpc # r
  BY <1>1, <1>2 DEF IInv, MessagesFit
<1>7. /\ \A x \in Rpcs : x # r => /\ phase'[x] = phase[x]
                                  /\ deadline'[x] = deadline[x]
                                  /\ timer'[x] = timer[x]
      /\ phase'[r] = "sent" /\ deadline'[r] = d /\ timer'[r] = d
  BY <1>1, <1>2
<1>8. TypeOK'
  <2>1. phase' \in [Rpcs -> {"new", "sent", "arrived", "replied", "done"}]
    BY <1>1, <1>2
  <2>2. deadline' \in [Rpcs -> Nat] /\ timer' \in [Rpcs -> Nat]
    BY <1>1, <1>2, <1>3
  <2>3. arrival' \in [Rpcs -> Nat]
    BY <1>2, Types DEF IInv
  <2>4. net' \subseteq Messages /\ Messages' = Messages
    BY <1>1, <1>2, <1>5 DEF Messages
  <2>5. QED
    BY <1>2, <1>4, <2>1, <2>2, <2>3, <2>4 DEF IInv, TypeOK, Messages
<1>9. Histories'
  BY <1>2 DEF IInv, Histories, SoundHistory, Seconds
<1>10. MessagesFit'
  <2>1. ASSUME NEW m \in net'
        PROVE  /\ now' <= m.sent + NetMax
               /\ m.type = "request" => phase'[m.rpc] = "sent"
               /\ m.type = "early" => phase'[m.rpc] \in {"arrived", "replied", "done"}
               /\ m.type = "complete" => phase'[m.rpc] = "replied"
    <3>1. CASE m \in net
      BY <1>1, <1>2, <1>6, <1>7, <3>1 DEF IInv, MessagesFit
    <3>2. CASE m = m0
      BY <1>1, <1>2, <1>5, <1>7, <3>2, MarginOK
    <3>3. QED
      BY <1>2, <3>1, <3>2
  <2>2. ASSUME NEW m \in net', NEW n \in net',
               m.rpc = n.rpc /\ m.type = n.type /\ m.type # "early"
        PROVE  m = n
    BY <1>2, <1>5, <1>6, <2>2 DEF IInv, MessagesFit
  <2>3. ASSUME NEW x \in Rpcs
        PROVE  /\ phase'[x] = "sent" => \E m \in net' : m.type = "request" /\ m.rpc = x
               /\ phase'[x] = "replied" => \E m \in net' : m.type = "complete" /\ m.rpc = x
    <3>1. CASE x = r
      BY <1>2, <1>5, <1>7, <3>1
    <3>2. CASE x # r
      BY <1>2, <1>7, <3>2 DEF IInv, MessagesFit
    <3>3. QED
      BY <3>1, <3>2
  <2>4. QED
    BY <2>1, <2>2, <2>3 DEF MessagesFit
<1>11. DeadlinesAhead'
  <2> SUFFICES ASSUME NEW m \in net'
               PROVE  /\ m.type = "request" => deadline'[m.rpc] > m.sent + NetMax + Margin
                      /\ m.type = "early" => deadline'[m.rpc] > m.sent + Margin
                      /\ m.type = "complete" => deadline'[m.rpc] >= m.sent + Margin
    BY DEF DeadlinesAhead, Margin
  <2>1. CASE m \in net
    BY <1>1, <1>6, <1>7, <2>1 DEF IInv, DeadlinesAhead
  <2>2. CASE m = m0
    BY <1>3, <1>5, <1>7, <2>2
  <2>3. QED
    BY <1>2, <2>1, <2>2
<1>12. ServerTimer'
  <2>1. epQ' = {x \in Rpcs : phase'[x] = "arrived"}
    BY <1>2, <1>7 DEF IInv, ServerTimer
  <2>2. \A x \in epQ : deadline'[x] = deadline[x]
    BY <1>2, <1>7 DEF IInv, ServerTimer
  <2>3. Expire(epQ, deadline') = Expire(epQ, deadline)
    BY <2>2, ExpireSame
  <2>4. Expire(epQ, deadline)' = Expire(epQ, deadline')
    BY <1>2 DEF Expire, Margin
  <2>5. QED
    BY <1>2, <2>1, <2>3, <2>4 DEF IInv, ServerTimer
<1>13. ClientTimers'
  <2> SUFFICES ASSUME NEW x \in Rpcs
               PROVE  /\ phase'[x] = "new" => timer'[x] = 0 /\ ~timedout'[x]
                      /\ phase'[x] \in {"sent", "arrived", "replied"} =>
                           /\ ~timedout'[x]
                           /\ \/ timer'[x] = deadline'[x]
                              \/ \E m \in net' : /\ m.type = "early" /\ m.rpc = x
                                                 /\ timer'[x] >= m.sent + Margin
    BY DEF ClientTimers, Margin
  <2>1. CASE x = r
    BY <1>2, <1>7, <2>1 DEF IInv, ClientTimers
  <2>2. CASE x # r
    BY <1>2, <1>7, <2>2 DEF IInv, ClientTimers
  <2>3. QED
    BY <2>1, <2>2
<1>14. QED
  BY <1>4, <1>8, <1>9, <1>10, <1>11, <1>12, <1>13 DEF IInv

LEMMA ServerRecvInv ==
  ASSUME IInv, NEW m0 \in net, ServerRecv(m0)
  PROVE  IInv'
<1> DEFINE r == m0.rpc
<1>1. /\ now \in Nat /\ now <= LastTick /\ epTimer \in Nat /\ epQ \in SUBSET Rpcs
      /\ phase \in [Rpcs -> {"new", "sent", "arrived", "replied", "done"}]
      /\ deadline \in [Rpcs -> Nat] /\ arrival \in [Rpcs -> Nat]
      /\ timer \in [Rpcs -> Nat] /\ net \in SUBSET Messages
      /\ \A m \in net : /\ m.rpc \in Rpcs /\ m.sent \in Nat /\ m.sent <= now
                        /\ m.type \in {"request", "early", "complete"}
  BY Types DEF IInv
<1>2. /\ m0.type = "request" /\ now > m0.sent /\ r \in Rpcs
      /\ phase' = [phase EXCEPT ![r] = "arrived"]
      /\ arrival' = [arrival EXCEPT ![r] = now]
      /\ epQ' = epQ \cup {r}
      /\ aborted' = ~CanSetTimer(epQ', deadline)
      /\ epTimer' = IF aborted' THEN epTimer ELSE Expire(epQ', deadline)
      /\ net' = net \ {m0}
      /\ UNCHANGED <<now, deadline, timer, timedout, serv, netlat, EST, added>>
  BY <1>1 DEF ServerRecv, clientVars
<1>3. phase[r] = "sent" /\ m0.sent \in Nat
  BY <1>1, <1>2 DEF IInv, MessagesFit
<1>4. deadline[r] \in Nat /\ deadline[r] > now + Margin
  <2>1. deadline[r] > m0.sent + NetMax + Margin /\ now <= m0.sent + NetMax
    BY <1>2 DEF IInv, DeadlinesAhead, MessagesFit
  <2>2. deadline[r] \in Nat
    BY <1>1, <1>2
  <2>3. QED
    BY <1>1, <1>3, <2>1, <2>2, MarginOK
<1>5. ASSUME NEW x \in epQ
      PROVE  deadline[x] > now + Margin \/ (deadline[x] = now + Margin /\ epTimer = now)
  <2>1. now <= epTimer /\ epTimer = Expire(epQ, deadline)
    BY DEF IInv, ServerTimer
  <2>2. Expire(epQ, deadline) + Margin <= deadline[x] /\ deadline[x] \in Nat
    BY <1>1, ExpireOK
  <2>3. QED
    BY <1>1, <2>1, <2>2, MarginOK
<1>6. CanSetTimer(epQ', deadline)
  BY <1>2, <1>4, <1>5 DEF CanSetTimer, Margin
<1>7. ~aborted' /\ epTimer' = Expire(epQ', deadline)
  BY <1>2, <1>6
<1>8. epTimer' \in Nat /\ epTimer' >= now /\ now > 0
  <2>1. epQ' \in SUBSET Rpcs /\ epQ' # {}
    BY <1>1, <1>2
  <2>2. /\ Expire(epQ', deadline) \in Int
        /\ \E x \in epQ' : Expire(epQ', deadline) + Margin = deadline[x]
    BY <1>1, <2>1, ExpireOK
  <2>3. \A x \in epQ' : deadline[x] \in Nat /\ deadline[x] >= now + Margin
    BY <1>1, <1>2, <1>4, <1>5, MarginOK
  <2>4. QED
    BY <1>1, <1>2, <1>3, <1>7, <2>2, <2>3, MarginOK
<1>9. /\ \A x \in Rpcs : x # r => phase'[x] = phase[x] /\ arrival'[x] = arrival[x]
      /\ phase'[r] = "arrived" /\ arrival'[r] = now
  BY <1>1, <1>2
<1>10. TypeOK'
  <2>1. phase' \in [Rpcs -> {"new", "sent", "arrived", "replied", "done"}]
    BY <1>1, <1>2
  <2>2. arrival' \in [Rpcs -> Nat]
    BY <1>1, <1>2
  <2>3. net' \subseteq net /\ epQ' \subseteq Rpcs
    BY <1>1, <1>2
  <2>4. QED
    BY <1>1, <1>2, <1>7, <1>8, <2>1, <2>2, <2>3 DEF IInv, TypeOK
<1>11. Histories'
  BY <1>2 DEF IInv, Histories, SoundHistory, Seconds
<1>12. \A m \in net' : m \in net /\ (m.type = "request" => m.rpc # r)
  BY <1>2 DEF IInv, MessagesFit
<1>13. MessagesFit'
  <2>1. ASSUME NEW m \in net'
        PROVE  /\ now' <= m.sent + NetMax
               /\ m.type = "request" => phase'[m.rpc] = "sent"
               /\ m.type = "early" => phase'[m.rpc] \in {"arrived", "replied", "done"}
               /\ m.type = "complete" => phase'[m.rpc] = "replied"
    <3>1. m \in net /\ (m.rpc = r => m.type \notin {"request", "early", "complete"})
      BY <1>3, <1>12 DEF IInv, MessagesFit
    <3>2. m.rpc # r /\ m.rpc \in Rpcs
      BY <1>1, <3>1
    <3>3. QED
      BY <1>2, <1>9, <3>1, <3>2 DEF IInv, MessagesFit
  <2>2. ASSUME NEW m \in net', NEW n \in net',
               m.rpc = n.rpc /\ m.type = n.type /\ m.type # "early"
        PROVE  m = n
    BY <1>12, <2>2 DEF IInv, MessagesFit
  <2>3. ASSUME NEW x \in Rpcs
        PROVE  /\ phase'[x] = "sent" => \E m \in net' : m.type = "request" /\ m.rpc = x
               /\ phase'[x] = "replied" => \E m \in net' : m.type = "complete" /\ m.rpc = x
    <3>1. CASE x = r
      BY <1>9, <3>1
    <3>2. CASE x # r
      BY <1>2, <1>9, <3>2 DEF IInv, MessagesFit
    <3>3. QED
      BY <3>1, <3>2
  <2>4. QED
    BY <2>1, <2>2, <2>3 DEF MessagesFit
<1>14. DeadlinesAhead'
  BY <1>2, <1>12 DEF IInv, DeadlinesAhead, Margin
<1>15. ServerTimer'
  <2>1. epQ' = {x \in Rpcs : phase'[x] = "arrived"}
    BY <1>2, <1>9 DEF IInv, ServerTimer
  <2>2. \A x \in Rpcs : arrival'[x] <= now'
    BY <1>1, <1>2, <1>9 DEF IInv, ServerTimer
  <2>3. Expire(epQ, deadline)' = Expire(epQ', deadline)
    BY <1>2 DEF Expire, Margin
  <2>4. QED
    BY <1>1, <1>2, <1>7, <1>8, <2>1, <2>2, <2>3 DEF ServerTimer
<1>16. ClientTimers'
  <2> SUFFICES ASSUME NEW x \in Rpcs
               PROVE  /\ phase'[x] = "new" => timer[x] = 0 /\ ~timedout[x]
                      /\ phase'[x] \in {"sent", "arrived", "replied"} =>
                           /\ ~timedout[x]
                           /\ \/ timer[x] = deadline[x]
                              \/ \E m \in net' : /\ m.type = "early" /\ m.rpc = x
                                                 /\ timer[x] >= m.sent + Margin
    BY <1>2 DEF ClientTimers, Margin
  <2>1. \A m \in net : m.type = "early" => m \in net'
    BY <1>2
  <2>2. /\ phase'[x] = "new" => phase[x] = "new"
        /\ phase'[x] \in {"sent", "arrived", "replied"} =>
             phase[x] \in {"sent", "arrived", "replied"}
    BY <1>3, <1>9
  <2>3. QED
    BY <2>1, <2>2 DEF IInv, ClientTimers
<1>17. QED
  BY <1>7, <1>10, <1>11, <1>13, <1>14, <1>15, <1>16 DEF IInv

(* What the two steps that look for RPCs expiring soon have in common: the *)
(* server's timer, and an answer, which takes an RPC out of the queue.     *)
LEMMA CheckTimedInv ==
  ASSUME IInv, NEW Q \in SUBSET epQ, NEW e, SoundHistory(e),
         NEW v \in Nat, NEW t \in Nat, NEW msgs \in SUBSET Messages,
         CheckTimed(Q, e, v, t, msgs),
         UNCHANGED <<now, arrival, timer, clientVars>>,
         phase' \in [Rpcs -> {"new", "sent", "arrived", "replied", "done"}],
         Q = {x \in Rpcs : phase'[x] = "arrived"},
         t # 0 => now <= t,
         net \subseteq msgs,
         \A x \in Rpcs :
           \/ phase'[x] = phase[x]
           \/ /\ phase[x] = "arrived" /\ phase'[x] = "replied"
              /\ \E m \in msgs : m.type = "complete" /\ m.rpc = x,
         \A m \in msgs :
           \/ m \in net
           \/ /\ m.type = "complete" /\ m.sent = now
              /\ phase[m.rpc] = "arrived" /\ phase'[m.rpc] = "replied",
         \A m, n \in msgs : m \notin net /\ n \notin net => m = n
  PROVE  IInv'
<1>1. /\ now \in Nat /\ now <= LastTick /\ epTimer \in Nat /\ epQ \in SUBSET Rpcs
      /\ phase \in [Rpcs -> {"new", "sent", "arrived", "replied", "done"}]
      /\ deadline \in [Rpcs -> Nat] /\ arrival \in [Rpcs -> Nat]
      /\ timer \in [Rpcs -> Nat] /\ net \in SUBSET Messages
      /\ \A m \in Messages : /\ m.rpc \in Rpcs /\ m.sent \in Nat /\ m.sent <= now
                             /\ m.type \in {"request", "early", "complete"}
  BY Types DEF IInv, Messages
<1>2. /\ aborted' = FALSE /\ epQ' = Q /\ SoundHistory(EST')
      /\ added' \in [0..Seconds(LastTick) -> Nat]
      /\ deadline' \in [Rpcs -> Nat]
      /\ \A r \in Q : deadline'[r] > now + Margin
      /\ \A r \in Rpcs :
           \/ deadline'[r] = deadline[r]
           \/ /\ deadline'[r] > deadline[r] /\ deadline[r] = now + Margin
              /\ r \in Q
              /\ \E m \in net' : m.type = "early" /\ m.rpc = r /\ m.sent = now
      /\ net' \in SUBSET Messages /\ msgs \subseteq net'
      /\ \A m \in net' : m \in msgs \/ /\ m.type = "early" /\ m.rpc \in Q
                                       /\ m.sent = now
      /\ epTimer' = IF Q = {} THEN t ELSE Expire(Q, deadline')
  BY CheckTimedOK
<1>3. /\ now' = now /\ arrival' = arrival /\ timer' = timer
      /\ timedout' = timedout /\ serv' = serv /\ netlat' = netlat
  BY DEF clientVars
<1>4. \A r \in epQ : deadline[r] \in Nat /\ deadline[r] >= now + Margin
  <2> SUFFICES ASSUME NEW r \in epQ
               PROVE  deadline[r] \in Nat /\ deadline[r] >= now + Margin
    OBVIOUS
  <2>1. now <= epTimer /\ epTimer = Expire(epQ, deadline)
    BY DEF IInv, ServerTimer
  <2>2. Expire(epQ, deadline) + Margin <= deadline[r] /\ deadline[r] \in Nat
    BY <1>1, ExpireOK
  <2>3. QED
    BY <1>1, <2>1, <2>2, MarginOK
<1>5. \A r \in Rpcs : deadline[r] \in Nat /\ deadline'[r] \in Nat /\ deadline'[r] >= deadline[r]
  BY <1>1, <1>2
<1>6. epTimer' \in Nat /\ (epTimer' # 0 => now <= epTimer')
      /\ (Q # {} => epTimer' # 0 /\ epTimer' = Expire(Q, deadline'))
  <2>1. CASE Q = {}
    BY <1>2, <2>1
  <2>2. CASE Q # {}
    <3>1. Q \in SUBSET Rpcs
      BY <1>1
    <3>2. /\ Expire(Q, deadline') \in Int
          /\ \E r \in Q : Expire(Q, deadline') + Margin = deadline'[r]
      BY <1>2, <2>2, <3>1, ExpireOK
    <3>3. epTimer' = Expire(Q, deadline')
      BY <1>2, <2>2
    <3>4. \A r \in Q : deadline'[r] \in Nat /\ deadline'[r] > now + Margin
      BY <1>2, <3>1
    <3>5. epTimer' \in Int /\ epTimer' > now
      BY <1>1, <3>2, <3>3, <3>4, MarginOK
    <3>6. QED
      BY <1>1, <2>2, <3>3, <3>5
  <2>3. QED
    BY <2>1, <2>2
<1>7. TypeOK'
  <2>1. EST' \in Windows /\ Messages' = Messages
    BY <1>2, <1>3 DEF SoundHistory, Messages
  <2>2. {deadline', arrival', timer'} \subseteq [Rpcs -> Nat]
    BY <1>1, <1>2, <1>3
  <2>3. {EST', serv'} \subseteq Windows
    BY <1>3, <2>1 DEF IInv, TypeOK
  <2>4. net' \subseteq [type : {"request", "early", "complete"}, rpc : Rpcs,
                        sent : 0..now', est : Nat]
    BY <1>2, <1>3 DEF Messages
  <2>5. /\ now' \in 0..LastTick /\ timedout' \in [Rpcs -> BOOLEAN]
        /\ netlat' \in [start : Nat, est : 0..AtMax] /\ epQ' \subseteq Rpcs
        /\ aborted' \in BOOLEAN
    BY <1>1, <1>2, <1>3, ZenonT(60) DEF IInv, TypeOK
  <2>6. QED
    BY <1>2, <1>6, <2>2, <2>3, <2>4, <2>5 DEF TypeOK
<1>8. Histories'
  <2>1. SoundHistory(EST)' /\ SoundHistory(serv)' /\ serv'.max > 0
    BY <1>2, <1>3 DEF IInv, Histories, SoundHistory, Seconds
  <2>2. QED
    BY <2>1 DEF Histories
<1>9. \A m \in net' :
        \/ m \in net
        \/ /\ m \in msgs \ net /\ m.type = "complete" /\ m.sent = now
           /\ phase[m.rpc] = "arrived" /\ phase'[m.rpc] = "replied"
        \/ m.type = "early" /\ m.rpc \in Q /\ m.sent = now
  BY <1>2
<1>10. \A m \in net' : m.rpc \in Rpcs
  BY <1>1, <1>2
<1>11. MessagesFit'
  <2>1. ASSUME NEW m \in net'
        PROVE  /\ now' <= m.sent + NetMax
               /\ m.type = "request" => phase'[m.rpc] = "sent"
               /\ m.type = "early" => phase'[m.rpc] \in {"arrived", "replied", "done"}
               /\ m.type = "complete" => phase'[m.rpc] = "replied"
    <3>1. CASE m \in net
      <4>1. \/ phase'[m.rpc] = phase[m.rpc]
            \/ phase[m.rpc] = "arrived" /\ phase'[m.rpc] = "replied"
        BY <1>10
      <4>2. QED
        BY <1>3, <3>1, <4>1 DEF IInv, MessagesFit
    <3>2. CASE m.sent = now /\ m.type = "complete" /\ phase'[m.rpc] = "replied"
      BY <1>1, <1>3, <3>2, MarginOK
    <3>3. CASE m.sent = now /\ m.type = "early" /\ m.rpc \in Q
      BY <1>1, <1>3, <3>3, MarginOK
    <3>4. QED
      BY <1>9, <3>1, <3>2, <3>3
  <2>2. ASSUME NEW m \in net', NEW n \in net',
               m.rpc = n.rpc /\ m.type = n.type /\ m.type # "early"
        PROVE  m = n
    <3>1. /\ m \in net \/ (m \in msgs \ net /\ m.type = "complete" /\ phase[m.rpc] = "arrived")
          /\ n \in net \/ (n \in msgs \ net /\ n.type = "complete" /\ phase[n.rpc] = "arrived")
      BY <1>9, <2>2
    <3>2. \A x \in net : x.type = "complete" => phase[x.rpc] = "replied"
      BY DEF IInv, MessagesFit
    <3>3. CASE m \in net /\ n \in net
      BY <2>2, <3>3 DEF IInv, MessagesFit
    <3>4. QED
      BY <2>2, <3>1, <3>2, <3>3
  <2>3. ASSUME NEW x \in Rpcs
        PROVE  /\ phase'[x] = "sent" => \E m \in net' : m.type = "request" /\ m.rpc = x
               /\ phase'[x] = "replied" => \E m \in net' : m.type = "complete" /\ m.rpc = x
    BY <1>2 DEF IInv, MessagesFit
  <2>4. QED
    BY <2>1, <2>2, <2>3 DEF MessagesFit
<1>12. DeadlinesAhead'
  <2> SUFFICES ASSUME NEW m \in net'
               PROVE  /\ m.type = "request" => deadline'[m.rpc] > m.sent + NetMax + Margin
                      /\ m.type = "early" => deadline'[m.rpc] > m.sent + Margin
                      /\ m.type = "complete" => deadline'[m.rpc] >= m.sent + Margin
    BY DEF DeadlinesAhead, Margin
  <2>1. CASE m \in net
    <3>1. m.rpc \in Rpcs /\ m.sent \in Nat
      BY <1>1, <2>1
    <3>2. /\ m.type = "request" => deadline[m.rpc] > m.sent + NetMax + Margin
          /\ m.type = "early" => deadline[m.rpc] > m.sent + Margin
          /\ m.type = "complete" => deadline[m.rpc] >= m.sent + Margin
      BY <2>1 DEF IInv, DeadlinesAhead
    <3>3. QED
      BY <1>5, <3>1, <3>2, MarginOK
  <2>2. CASE m.type = "complete" /\ m.sent = now /\ phase[m.rpc] = "arrived"
    <3>1. m.rpc \in Rpcs /\ m.rpc \in epQ
      BY <1>10, <2>2 DEF IInv, ServerTimer
    <3>2. QED
      BY <1>1, <1>4, <1>5, <2>2, <3>1, MarginOK
  <2>3. CASE m.type = "early" /\ m.rpc \in Q /\ m.sent = now
    BY <1>2, <2>3
  <2>4. QED
    BY <1>9, <2>1, <2>2, <2>3
<1>13. ServerTimer'
  <2>1. Expire(epQ, deadline)' = Expire(Q, deadline')
    BY <1>2 DEF Expire, Margin
  <2>2. \A x \in Rpcs : arrival'[x] <= now'
    BY <1>3 DEF IInv, ServerTimer
  <2>3. QED
    BY <1>2, <1>3, <1>6, <2>1, <2>2 DEF ServerTimer
<1>14. ClientTimers'
  <2> SUFFICES ASSUME NEW x \in Rpcs
               PROVE  /\ phase'[x] = "new" => timer[x] = 0 /\ ~timedout[x]
                      /\ phase'[x] \in {"sent", "arrived", "replied"} =>
                           /\ ~timedout[x]
                           /\ \/ timer[x] = deadline'[x]
                              \/ \E m \in net' : /\ m.type = "early" /\ m.rpc = x
                                                 /\ timer[x] >= m.sent + Margin
    BY <1>3 DEF ClientTimers, Margin
  <2>1. phase'[x] = "new" => timer[x] = 0 /\ ~timedout[x]
    BY DEF IInv, ClientTimers
  <2>2. ASSUME phase'[x] \in {"sent", "arrived", "replied"}
        PROVE  /\ ~timedout[x]
               /\ \/ timer[x] = deadline[x]
                  \/ \E m \in net : /\ m.type = "early" /\ m.rpc = x
                                    /\ timer[x] >= m.sent + Margin
    BY <2>2 DEF IInv, ClientTimers
  <2>3. ASSUME timer[x] = deadline[x]
        PROVE  \/ timer[x] = deadline'[x]
               \/ \E m \in net' : /\ m.type = "early" /\ m.rpc = x
                                  /\ timer[x] >= m.sent + Margin
    <3>1. CASE deadline'[x] = deadline[x]
      BY <2>3, <3>1
    <3>2. CASE /\ deadline[x] = now + Margin
               /\ \E m \in net' : m.type = "early" /\ m.rpc = x /\ m.sent = now
      <4>1. PICK m \in net' : m.type = "early" /\ m.rpc = x /\ m.sent = now
        BY <3>2
      <4>2. timer[x] >= m.sent + Margin
        BY <1>1, <2>3, <3>2, <4>1, MarginOK
      <4>3. QED
        BY <4>1, <4>2
    <3>3. QED
      BY <1>2, <3>1, <3>2
  <2>4. net \subseteq net'
    BY <1>2
  <2>5. QED
    BY <2>1, <2>2, <2>3, <2>4
<1>15. QED
  BY <1>2, <1>7, <1>8, <1>11, <1>12, <1>13, <1>14 DEF IInv

LEMMA CheckEarlyReplyInv ==
  ASSUME IInv, CheckEarlyReply
  PROVE  IInv'
<1>1. net \in SUBSET Messages /\ SoundHistory(EST)
      /\ phase \in [Rpcs -> {"new", "sent", "arrived", "replied", "done"}]
      /\ epQ = {x \in Rpcs : phase[x] = "arrived"}
  BY Types DEF IInv, Histories, ServerTimer
<1>2. /\ CheckTimed(epQ, EST, 0, 0, net) /\ phase' = phase
      /\ UNCHANGED <<now, arrival, timer, clientVars>>
  BY DEF CheckEarlyReply
<1>3. QED
  BY <1>1, <1>2, CheckTimedInv

LEMMA ServerSendInv ==
  ASSUME IInv, NEW r \in Rpcs, ServerSend(r)
  PROVE  IInv'
<1> DEFINE v == Max({1, Seconds(now - arrival[r])})
           m0(e) == [type |-> "complete", rpc |-> r, sent |-> now, est |-> e]
<1>1. /\ now \in Nat /\ epTimer \in Nat /\ arrival[r] \in Nat /\ arrival[r] <= now
      /\ phase \in [Rpcs -> {"new", "sent", "arrived", "replied", "done"}]
      /\ net \in SUBSET Messages /\ SoundHistory(EST)
      /\ epQ = {x \in Rpcs : phase[x] = "arrived"}
      /\ epTimer # 0 => now <= epTimer
  BY Types DEF IInv, Histories, ServerTimer
<1>2. PICK e \in Fits :
        CheckTimed(epQ \ {r}, AtAdd(EST, v), v, epTimer, net \cup {m0(e)})
  BY DEF ServerSend
<1>3. /\ phase[r] = "arrived" /\ phase' = [phase EXCEPT ![r] = "replied"]
      /\ UNCHANGED <<now, arrival, timer, clientVars>>
  BY DEF ServerSend
<1>4. v \in Nat
  <2>1. now - arrival[r] \in Nat
    BY <1>1
  <2>2. QED
    BY <2>1, SecondsOK, MaxOfTwo
<1> HIDE DEF v
<1>5. SoundHistory(AtAdd(EST, v))
  BY <1>1, <1>4, AtAddOK
<1>6. PICK m : m = m0(e)
  OBVIOUS
<1>7. /\ m \in Messages /\ m.type = "complete" /\ m.rpc = r /\ m.sent = now
      /\ CheckTimed(epQ \ {r}, AtAdd(EST, v), v, epTimer, net \cup {m})
  BY <1>1, <1>2, <1>6, ConstantTypes DEF Messages
<1>8. /\ phase' \in [Rpcs -> {"new", "sent", "arrived", "replied", "done"}]
      /\ epQ \ {r} = {x \in Rpcs : phase'[x] = "arrived"}
      /\ \A x \in Rpcs : phase'[x] = phase[x] \/ x = r
      /\ phase'[r] = "replied"
  BY <1>1, <1>3
<1>9. QED
  BY <1>1, <1>3, <1>4, <1>5, <1>7, <1>8, CheckTimedInv

(* Either reply keeps the client's estimates sound.                        *)
LEMMA LearnOK ==
  ASSUME IInv, NEW m \in net, Learn(m)
  PROVE  /\ SoundHistory(serv') /\ serv'.max > 0
         /\ netlat' \in [start : Nat, est : 0..AtMax]
<1>1. /\ now \in Nat /\ m.sent \in Nat /\ m.sent <= now /\ m.est \in Nat
      /\ netlat \in [start : Nat, est : 0..AtMax]
  BY Types DEF IInv
<1>2. SoundHistory(serv') /\ serv'.max > 0
  BY <1>1, AtAddOK DEF Learn, IInv, Histories
<1> DEFINE v == Seconds(now - m.sent) + 1
<1>3. v \in Nat /\ Seconds(now) \in Nat
  <2>1. now - m.sent \in Nat
    BY <1>1
  <2>2. QED
    BY <1>1, <2>1, SecondsOK
<1>4. Min({v, AtMax}) \in 0..AtMax
  BY <1>3, ConstantTypes, MinOfTwo
<1>5. netlat' = IF netlat.start = 0 THEN [start |-> Seconds(now), est |-> Min({v, AtMax})]
                ELSE netlat
  BY DEF Learn, AddLatency
<1> HIDE DEF v
<1>6. QED
  BY <1>1, <1>2, <1>3, <1>4, <1>5

LEMMA ClientRecvInv ==
  ASSUME IInv, NEW m0 \in net, ClientRecv(m0)
  PROVE  IInv'
<1> DEFINE r == m0.rpc
<1>1. /\ now \in Nat /\ now <= LastTick /\ epTimer \in Nat /\ epQ \in SUBSET Rpcs
      /\ phase \in [Rpcs -> {"new", "sent", "arrived", "replied", "done"}]
      /\ deadline \in [Rpcs -> Nat] /\ arrival \in [Rpcs -> Nat]
      /\ timer \in [Rpcs -> Nat] /\ net \in SUBSET Messages
      /\ \A m \in net : /\ m.rpc \in Rpcs /\ m.sent \in Nat /\ m.sent <= now
                        /\ m.type \in {"request", "early", "complete"}
  BY Types DEF IInv
<1>2. /\ m0.type = "complete" /\ r \in Rpcs
      /\ phase' = [phase EXCEPT ![r] = "done"]
      /\ timer' = [timer EXCEPT ![r] = IF timedout[r] THEN timer[r] ELSE 0]
      /\ net' = net \ {m0}
      /\ UNCHANGED <<now, deadline, arrival, timedout, epQ, epTimer, EST, added, aborted>>
  BY <1>1 DEF ClientRecv, serverVars
<1>3. /\ SoundHistory(serv') /\ serv'.max > 0
      /\ netlat' \in [start : Nat, est : 0..AtMax]
  BY LearnOK DEF ClientRecv
<1>4. phase[r] = "replied" /\ phase'[r] = "done"
      /\ \A x \in Rpcs : x # r => phase'[x] = phase[x] /\ timer'[x] = timer[x]
  BY <1>1, <1>2 DEF IInv, MessagesFit
<1>5. TypeOK'
  <2>1. phase' \in [Rpcs -> {"new", "sent", "arrived", "replied", "done"}]
    BY <1>1, <1>2
  <2>2. timer' \in [Rpcs -> Nat]
    BY <1>1, <1>2
  <2>3. serv' \in Windows
    BY <1>3 DEF SoundHistory
  <2>4. QED
    BY <1>1, <1>2, <1>3, <2>1, <2>2, <2>3 DEF IInv, TypeOK
<1>6. Histories'
  BY <1>2, <1>3 DEF IInv, Histories, SoundHistory, Seconds
<1>7. \A m \in net' : m \in net /\ m.rpc \in Rpcs /\ (m.rpc = r => m.type = "early")
  <2> SUFFICES ASSUME NEW m \in net', m.rpc = r
               PROVE  m.type = "early"
    BY <1>1, <1>2
  <2>1. m \in net /\ m # m0 /\ m.type \in {"request", "early", "complete"}
    BY <1>1, <1>2
  <2>2. QED
    BY <1>2, <1>4, <2>1 DEF IInv, MessagesFit
<1>8. MessagesFit'
  <2>1. ASSUME NEW m \in net'
        PROVE  /\ now' <= m.sent + NetMax
               /\ m.type = "request" => phase'[m.rpc] = "sent"
               /\ m.type = "early" => phase'[m.rpc] \in {"arrived", "replied", "done"}
               /\ m.type = "complete" => phase'[m.rpc] = "replied"
    <3>1. CASE m.rpc = r
      BY <1>2, <1>4, <1>7, <3>1 DEF IInv, MessagesFit
    <3>2. CASE m.rpc # r
      BY <1>2, <1>4, <1>7, <3>2 DEF IInv, MessagesFit
    <3>3. QED
      BY <3>1, <3>2
  <2>2. ASSUME NEW m \in net', NEW n \in net',
               m.rpc = n.rpc /\ m.type = n.type /\ m.type # "early"
        PROVE  m = n
    BY <1>7, <2>2 DEF IInv, MessagesFit
  <2>3. ASSUME NEW x \in Rpcs
        PROVE  /\ phase'[x] = "sent" => \E m \in net' : m.type = "request" /\ m.rpc = x
               /\ phase'[x] = "replied" => \E m \in net' : m.type = "complete" /\ m.rpc = x
    <3>1. CASE x = r
      BY <1>4, <3>1
    <3>2. CASE x # r
      BY <1>2, <1>4, <3>2 DEF IInv, MessagesFit
    <3>3. QED
      BY <3>1, <3>2
  <2>4. QED
    BY <2>1, <2>2, <2>3 DEF MessagesFit
<1>9. DeadlinesAhead'
  BY <1>2, <1>7 DEF IInv, DeadlinesAhead, Margin
<1>10. ServerTimer'
  <2>1. epQ' = {x \in Rpcs : phase'[x] = "arrived"}
    BY <1>2, <1>4 DEF IInv, ServerTimer
  <2>2. Expire(epQ, deadline)' = Expire(epQ, deadline)
    BY <1>2 DEF Expire, Margin
  <2>3. QED
    BY <1>2, <2>1, <2>2 DEF IInv, ServerTimer
<1>11. ClientTimers'
  <2> SUFFICES ASSUME NEW x \in Rpcs
               PROVE  /\ phase'[x] = "new" => timer'[x] = 0 /\ ~timedout[x]
                      /\ phase'[x] \in {"sent", "arrived", "replied"} =>
                           /\ ~timedout[x]
                           /\ \/ timer'[x] = deadline[x]
                              \/ \E m \in net' : /\ m.type = "early" /\ m.rpc = x
                                                 /\ timer'[x] >= m.sent + Margin
    BY <1>2 DEF ClientTimers, Margin
  <2>1. CASE x = r
    BY <1>4, <2>1
  <2>2. CASE x # r
    <3>1. phase'[x] = phase[x] /\ timer'[x] = timer[x]
      BY <1>4, <2>2
    <3>2. \A m \in net : m.type = "early" => m \in net'
      BY <1>2
    <3>3. QED
      BY <3>1, <3>2 DEF IInv, ClientTimers
  <2>3. QED
    BY <2>1, <2>2
<1>12. QED
  BY <1>2, <1>5, <1>6, <1>8, <1>9, <1>10, <1>11 DEF IInv

LEMMA ClientRecvEarlyReplyInv ==
  ASSUME IInv, NEW m0 \in net, ClientRecvEarlyReply(m0)
  PROVE  IInv'
<1> DEFINE r == m0.rpc
<1>1. /\ now \in Nat /\ now <= LastTick /\ epTimer \in Nat /\ epQ \in SUBSET Rpcs
      /\ phase \in [Rpcs -> {"new", "sent", "arrived", "replied", "done"}]
      /\ deadline \in [Rpcs -> Nat] /\ arrival \in [Rpcs -> Nat]
      /\ timer \in [Rpcs -> Nat] /\ net \in SUBSET Messages
      /\ \A m \in net : /\ m.rpc \in Rpcs /\ m.sent \in Nat /\ m.sent <= now
                        /\ m.type \in {"request", "early", "complete"}
  BY Types DEF IInv
<1>2. /\ m0.type = "early" /\ r \in Rpcs
      /\ aborted' = (timer[r] # deadline[r] /\ deadline[r] <= now)
      /\ timer' = [timer EXCEPT ![r] = deadline[r]]
      /\ net' = net \ {m0}
      /\ UNCHANGED <<now, phase, deadline, arrival, timedout, epQ, epTimer, EST, added>>
  BY <1>1 DEF ClientRecvEarlyReply, serverVars
<1>3. /\ SoundHistory(serv') /\ serv'.max > 0
      /\ netlat' \in [start : Nat, est : 0..AtMax]
  BY LearnOK DEF ClientRecvEarlyReply
<1>4. aborted' = FALSE
  <2>1. deadline[r] > m0.sent + Margin /\ now <= m0.sent + NetMax
    BY <1>2 DEF IInv, DeadlinesAhead, MessagesFit
  <2>2. deadline[r] > now
    BY <1>1, <1>2, <2>1, MarginOK
  <2>3. ~(deadline[r] <= now)
    BY <1>1, <1>2, <2>2
  <2>4. QED
    BY <1>2, <2>3
<1>5. /\ timer'[r] = deadline[r] /\ phase[r] \in {"arrived", "replied", "done"}
      /\ \A x \in Rpcs : x # r => timer'[x] = timer[x]
  BY <1>1, <1>2 DEF IInv, MessagesFit
<1>6. TypeOK'
  <2>1. timer' \in [Rpcs -> Nat]
    BY <1>1, <1>2
  <2>2. serv' \in Windows
    BY <1>3 DEF SoundHistory
  <2>3. QED
    BY <1>1, <1>2, <1>3, <1>4, <2>1, <2>2 DEF IInv, TypeOK
<1>7. Histories'
  BY <1>2, <1>3 DEF IInv, Histories, SoundHistory, Seconds
<1>8. /\ \A m \in net' : m \in net
      /\ \A m \in net : m.type # "early" => m \in net'
  BY <1>2
<1>9. MessagesFit'
  BY <1>2, <1>8 DEF IInv, MessagesFit
<1>10. DeadlinesAhead'
  BY <1>2, <1>8 DEF IInv, DeadlinesAhead, Margin
<1>11. ServerTimer'
  <2>1. Expire(epQ, deadline)' = Expire(epQ, deadline)
    BY <1>2 DEF Expire, Margin
  <2>2. QED
    BY <1>2, <2>1 DEF IInv, ServerTimer
<1>12. ClientTimers'
  <2> SUFFICES ASSUME NEW x \in Rpcs
               PROVE  /\ phase[x] = "new" => timer'[x] = 0 /\ ~timedout[x]
                      /\ phase[x] \in {"sent", "arrived", "replied"} =>
                           /\ ~timedout[x]
                           /\ \/ timer'[x] = deadline[x]
                              \/ \E m \in net' : /\ m.type = "early" /\ m.rpc = x
                                                 /\ timer'[x] >= m.sent + Margin
    BY <1>2 DEF ClientTimers, Margin
  <2>1. CASE x = r
    BY <1>5, <2>1 DEF IInv, ClientTimers
  <2>2. CASE x # r
    <3>1. timer'[x] = timer[x]
      BY <1>5, <2>2
    <3>2. \A m \in net : m.rpc = x => m \in net'
      BY <1>2, <2>2
    <3>3. QED
      BY <3>1, <3>2 DEF IInv, ClientTimers
  <2>3. QED
    BY <2>1, <2>2
<1>13. QED
  BY <1>4, <1>6, <1>7, <1>9, <1>10, <1>11, <1>12 DEF IInv

(* The heart of it: the client's timer fires only when the RPC is done.    *)
LEMMA TimeoutIsLate ==
  ASSUME IInv, NEW r \in Rpcs, timer[r] # 0, now = timer[r]
  PROVE  phase[r] = "done"
<1> SUFFICES ASSUME phase[r] # "done"
             PROVE  FALSE
  OBVIOUS
<1>1. /\ now \in Nat /\ epTimer \in Nat /\ epQ \in SUBSET Rpcs
      /\ phase[r] \in {"new", "sent", "arrived", "replied"}
      /\ deadline \in [Rpcs -> Nat] /\ deadline[r] \in Nat
      /\ \A m \in net : m.sent \in Nat /\ m.sent <= now /\ now <= m.sent + NetMax
  BY Types DEF IInv, MessagesFit
<1>2. phase[r] \in {"sent", "arrived", "replied"}
  BY <1>1 DEF IInv, ClientTimers
<1>3. CASE \E m \in net : m.type = "early" /\ m.rpc = r /\ timer[r] >= m.sent + Margin
  BY <1>1, <1>3, MarginOK
<1>4. CASE timer[r] = deadline[r]
  <2>1. CASE phase[r] = "sent"
    <3>1. PICK m \in net : m.type = "request" /\ m.rpc = r
      BY <2>1 DEF IInv, MessagesFit
    <3>2. deadline[r] > m.sent + NetMax + Margin
      BY <3>1 DEF IInv, DeadlinesAhead
    <3>3. QED
      BY <1>1, <1>4, <3>2, MarginOK
  <2>2. CASE phase[r] = "arrived"
    <3>1. r \in epQ /\ now <= epTimer /\ epTimer = Expire(epQ, deadline)
      BY <2>2 DEF IInv, ServerTimer
    <3>2. Expire(epQ, deadline) + Margin <= deadline[r]
      BY <1>1, <3>1, ExpireOK
    <3>3. QED
      BY <1>1, <1>4, <3>1, <3>2, MarginOK
  <2>3. CASE phase[r] = "replied"
    <3>1. PICK m \in net : m.type = "complete" /\ m.rpc = r
      BY <2>3 DEF IInv, MessagesFit
    <3>2. deadline[r] >= m.sent + Margin
      BY <3>1 DEF IInv, DeadlinesAhead
    <3>3. QED
      BY <1>1, <1>4, <3>1, <3>2, MarginOK
  <2>4. QED
    BY <1>2, <2>1, <2>2, <2>3
<1>5. QED
  BY <1>2, <1>3, <1>4 DEF IInv, ClientTimers

LEMMA TimeoutEventInv ==
  ASSUME IInv, NEW r \in Rpcs, TimeoutEvent(r)
  PROVE  IInv'
<1>1. /\ timer \in [Rpcs -> Nat] /\ timedout \in [Rpcs -> BOOLEAN]
  BY Types DEF IInv
<1>2. /\ timer' = [timer EXCEPT ![r] = 0] /\ timedout' = [timedout EXCEPT ![r] = TRUE]
      /\ UNCHANGED <<now, phase, deadline, arrival, serv, netlat, epQ, epTimer,
                     EST, added, net, aborted>>
  BY DEF TimeoutEvent, serverVars
<1>3. phase[r] = "done"
  BY TimeoutIsLate DEF TimeoutEvent
<1>4. TypeOK'
  <2>1. timer' \in [Rpcs -> Nat] /\ timedout' \in [Rpcs -> BOOLEAN]
    BY <1>1, <1>2
  <2>2. QED
    BY <1>2, <2>1 DEF IInv, TypeOK
<1>5. Histories'
  BY <1>2 DEF IInv, Histories, SoundHistory, Seconds
<1>6. MessagesFit' /\ DeadlinesAhead'
  BY <1>2 DEF IInv, MessagesFit, DeadlinesAhead, Margin
<1>7. ServerTimer'
  <2>1. Expire(epQ, deadline)' = Expire(epQ, deadline)
    BY <1>2 DEF Expire, Margin
  <2>2. QED
    BY <1>2, <2>1 DEF IInv, ServerTimer
<1>8. ClientTimers'
  <2> SUFFICES ASSUME NEW x \in Rpcs
               PROVE  /\ phase[x] = "new" => timer'[x] = 0 /\ ~timedout'[x]
                      /\ phase[x] \in {"sent", "arrived", "replied"} =>
                           /\ ~timedout'[x]
                           /\ \/ timer'[x] = deadline[x]
                              \/ \E m \in net : /\ m.type = "early" /\ m.rpc = x
                                                /\ timer'[x] >= m.sent + Margin
    BY <1>2 DEF ClientTimers, Margin
  <2>1. CASE x = r
    BY <1>3, <2>1
  <2>2. CASE x # r
    <3>1. timer'[x] = timer[x] /\ timedout'[x] = timedout[x]
      BY <1>1, <1>2, <2>2
    <3>2. QED
      BY <3>1 DEF IInv, ClientTimers
  <2>3. QED
    BY <2>1, <2>2
<1>9. QED
  BY <1>2, <1>4, <1>5, <1>6, <1>7, <1>8 DEF IInv

LEMMA TickInv ==
  ASSUME IInv, Tick
  PROVE  IInv'
<1>1. /\ now \in Nat /\ epTimer \in Nat /\ arrival \in [Rpcs -> Nat]
      /\ net \in SUBSET Messages
      /\ \A m \in net : m.sent \in Nat /\ m.sent <= now
  BY Types DEF IInv
<1>2. /\ now < LastTick /\ now' = now + 1
      /\ epTimer # now \/ now = 0
      /\ \A m \in net : now < m.sent + NetMax
      /\ UNCHANGED <<phase, deadline, arrival, timer, timedout, serv, netlat,
                     epQ, epTimer, EST, added, net, aborted>>
  BY DEF Tick, clientVars, serverVars
<1>3. TypeOK'
  <2>1. now' \in 0..LastTick
    BY <1>1, <1>2, ConstantTypes
  <2>2. net' \subseteq [type : {"request", "early", "complete"}, rpc : Rpcs,
                        sent : 0..now', est : Nat]
    <3>1. \A k \in 0..now : k \in 0..now'
      BY <1>1, <1>2
    <3>2. QED
      BY <1>1, <1>2, <3>1 DEF Messages
  <2>3. QED
    BY <1>2, <2>1, <2>2 DEF IInv, TypeOK
<1>4. Histories'
  <2>1. Seconds(now) \in Nat /\ Seconds(now') \in Nat /\ Seconds(now) <= Seconds(now')
    BY <1>1, <1>2, SecondsOK
  <2>2. \A at : SoundHistory(at) =>
          at \in Windows /\ at.hist[0] <= at.max /\ at.start <= Seconds(now')
    BY <2>1 DEF SoundHistory, Windows
  <2>3. SoundHistory(EST)' /\ SoundHistory(serv)'
    BY <1>2, <2>2 DEF IInv, Histories, SoundHistory, Seconds
  <2>4. QED
    BY <1>2, <2>3 DEF IInv, Histories
<1>5. MessagesFit'
  <2>1. \A m \in net' : now' <= m.sent + NetMax
    BY <1>1, <1>2, MarginOK
  <2>2. QED
    BY <1>2, <2>1 DEF IInv, MessagesFit
<1>6. DeadlinesAhead' /\ ClientTimers'
  BY <1>2 DEF IInv, DeadlinesAhead, ClientTimers, Margin
<1>7. ServerTimer'
  <2>1. Expire(epQ, deadline)' = Expire(epQ, deadline)
    BY <1>2 DEF Expire, Margin
  <2>2. \A r \in Rpcs : arrival[r] <= now'
    BY <1>1, <1>2 DEF IInv, ServerTimer
  <2>3. epTimer # 0 => now' <= epTimer
    BY <1>1, <1>2 DEF IInv, ServerTimer
  <2>4. QED
    BY <1>2, <2>1, <2>2, <2>3 DEF IInv, ServerTimer
<1>8. QED
  BY <1>2, <1>3, <1>4, <1>5, <1>6, <1>7 DEF IInv
-----------------------------------------------------------------------------
(* The invariant that everything rests on: sound histories, messages that  *)
(* fit the phases and arrive ahead of the deadlines, and both timers.      *)
THEOREM Invariance == Spec => []IInv
<1>1. Init => IInv
  BY InitInv
<1>2. IInv /\ [Next]_vars => IInv'
  <2> SUFFICES ASSUME IInv, [Next]_vars
               PROVE  IInv'
    OBVIOUS
  <2>1. ASSUME NEW r \in Rpcs, ClientSend(r)
        PROVE  IInv'
    BY <2>1, ClientSendInv
  <2>2. ASSUME NEW r \in Rpcs, ServerSend(r)
        PROVE  IInv'
    BY <2>2, ServerSendInv
  <2>3. ASSUME NEW r \in Rpcs, TimeoutEvent(r)
        PROVE  IInv'
    BY <2>3, TimeoutEventInv
  <2>4. ASSUME NEW m \in net, ServerRecv(m)
        PROVE  IInv'
    BY <2>4, ServerRecvInv
  <2>5. ASSUME NEW m \in net, ClientRecv(m)
        PROVE  IInv'
    BY <2>5, ClientRecvInv
  <2>6. ASSUME NEW m \in net, ClientRecvEarlyReply(m)
        PROVE  IInv'
    BY <2>6, ClientRecvEarlyReplyInv
  <2>7. CASE CheckEarlyReply
    BY <2>7, CheckEarlyReplyInv
  <2>8. CASE Tick
    BY <2>8, TickInv
  <2>9. CASE UNCHANGED vars
    <3>1. TypeOK' /\ Histories' /\ aborted' = aborted
      BY <2>9 DEF vars, clientVars, serverVars, IInv, TypeOK, Histories,
                  SoundHistory, Seconds
    <3>2. MessagesFit' /\ DeadlinesAhead' /\ ClientTimers'
      BY <2>9 DEF vars, clientVars, serverVars, IInv, MessagesFit,
                  DeadlinesAhead, ClientTimers, Margin
    <3>3. ServerTimer'
      BY <2>9
         DEF vars, clientVars, serverVars, IInv, ServerTimer, Expire, Margin
    <3>4. QED
      BY <3>1, <3>2, <3>3 DEF IInv
  <2>10. QED
    BY <2>1, <2>2, <2>3, <2>4, <2>5, <2>6, <2>7, <2>8, <2>9 DEF Next
<1>3. QED
  BY <1>1, <1>2, PTL DEF Spec

(* No RPC that the server works on, for however long, times out at the     *)
(* client (ptlrpc.cpp:459-511, 533-573, 864-877).                          *)
THEOREM NoTimeoutInService == Spec => []NoFalseTimeout
<1>1. IInv => NoFalseTimeout
  <2> SUFFICES ASSUME IInv, NEW r \in Rpcs, timedout[r]
               PROVE  phase[r] = "done"
    BY DEF NoFalseTimeout
  <2>1. phase[r] \in {"new", "sent", "arrived", "replied", "done"}
    BY Types DEF IInv
  <2>2. QED
    BY <2>1 DEF IInv, ClientTimers
<1>2. QED
  BY <1>1, Invariance, PTL

(* The types, and the two timers follow the deadlines, which both sides    *)
(* write (ptlrpc.cpp:433-457, 646-660, 864-877).                           *)
THEOREM TimersCorrect == Spec => []TimersMatchDeadlines
<1>1. IInv => TimersMatchDeadlines
  <2> SUFFICES ASSUME IInv
               PROVE  TimersMatchDeadlines
    OBVIOUS
  <2>1. TypeOK /\ epQ = {r \in Rpcs : phase[r] = "arrived"}
        /\ (epQ # {} => epTimer = Expire(epQ, deadline))
    BY DEF IInv, ServerTimer
  <2>2. \A r \in Rpcs : phase[r] \in {"sent", "arrived", "replied"} =>
          timer[r] = deadline[r] \/ \E m \in net : m.type = "early" /\ m.rpc = r
    BY DEF IInv, ClientTimers
  <2>3. QED
    BY <2>1, <2>2 DEF TimersMatchDeadlines
<1>2. QED
  BY <1>1, Invariance, PTL

(* The assertions on deadlines and timers hold: a timer is never set to a  *)
(* moment that has passed, and an early reply always extends the deadline  *)
(* (ptlrpc.cpp:440, 453, 483, 552, 654, event.cpp:89).                     *)
THEOREM AssertionsHold == Spec => []NeverAborts
<1>1. IInv => NeverAborts
  BY DEF IInv, NeverAborts
<1>2. QED
  BY <1>1, Invariance, PTL
-----------------------------------------------------------------------------
(* The history of the server.  The largest value a[s] added to it in each  *)
(* second s is what its windows at hold: hist[i] is the largest of the     *)
(* Step seconds of window i, and max the largest of all.                   *)
Window(start, i) ==
  {s \in 0..Seconds(LastTick) : /\ s >= 1 /\ s >= start - i * Step
                                /\ s < start - i * Step + Step}

HoldsLargest(at, a, i) ==
  /\ \A s \in Window(at.start, i) : a[s] <= at.hist[i]
  /\ at.hist[i] > 0 => \E s \in Window(at.start, i) : a[s] = at.hist[i]
  /\ at.hist[i] <= at.max

Remembers(at, a) ==
  /\ \A s \in 0..Seconds(LastTick) : s > Seconds(now) => a[s] = 0
  /\ at.start = 0 =>
       /\ \A i \in 1..(SubWnds - 1) : at.hist[i] = 0
       /\ \A s \in 0..Seconds(LastTick) : s >= 1 => a[s] = 0
  /\ at.start > 0 =>
       /\ at.hist[0] > 0
       /\ \A s \in 0..Seconds(LastTick) : s >= at.start + Step => a[s] = 0
       /\ \A i \in 0..(SubWnds - 1) : HoldsLargest(at, a, i)
       /\ \E i \in 0..(SubWnds - 1) : at.hist[i] = at.max

HistInv == Remembers(EST, added)

LEMMA PresentOK ==
  ASSUME now \in 0..LastTick
  PROVE  /\ Seconds(now) \in 0..Seconds(LastTick)
         /\ Seconds(now) \in Nat /\ Seconds(LastTick) \in Nat
<1>1. now \in Nat /\ LastTick \in Nat /\ now <= LastTick /\ TimeUnit \in Nat \ {0}
  BY ConstantTypes
<1>2. now \div TimeUnit <= LastTick \div TimeUnit
  BY <1>1, DivMonotone
<1>3. now \div TimeUnit \in Nat /\ LastTick \div TimeUnit \in Nat
  BY <1>1, DivBounds
<1>4. QED
  BY <1>2, <1>3 DEF Seconds

\* Where the windows lie.
LEMMA WindowOK ==
  ASSUME NEW start \in Nat, NEW i \in 0..(SubWnds - 1)
  PROVE  /\ i * Step \in Nat /\ (i >= 1 => i * Step >= Step)
         /\ i >= 1 => \A s \in Window(start, i) : s < start
         /\ i = 0 => \A s : s \in Window(start, i) <=>
                       s \in 0..Seconds(LastTick) /\ s >= 1 /\ s >= start /\ s < start + Step
<1>1. i \in Nat /\ SubWnds \in Nat /\ Step \in Nat /\ Step > 0
  BY ConstantTypes
<1>2. i * Step \in Nat /\ (i >= 1 => i * Step >= Step)
  <2>1. i >= 1 => 1 * Step <= i * Step
    BY <1>1, ProductMonotone
  <2>2. QED
    BY <1>1, <2>1
<1>3. PICK n : n = i * Step
  OBVIOUS
<1>4. Seconds(LastTick) \in Nat
  BY ConstantTypes, SecondsOK
<1>5. ASSUME i >= 1, NEW s \in Window(start, i)
      PROVE  s < start
  <2>1. s \in Nat /\ s < start - n + Step
    BY <1>3, <1>4, <1>5 DEF Window
  <2>2. QED
    BY <1>1, <1>2, <1>3, <1>5, <2>1
<1>6. ASSUME i = 0
      PROVE  \A s : s \in Window(start, i) <=>
               s \in 0..Seconds(LastTick) /\ s >= 1 /\ s >= start /\ s < start + Step
  <2>1. start - i * Step = start
    BY <1>1, <1>6
  <2>2. QED
    BY <2>1 DEF Window
<1>7. QED
  BY <1>2, <1>5, <1>6

\* What is to be shown of a window.
LEMMA HoldsIntro ==
  ASSUME NEW at, NEW b \in [0..Seconds(LastTick) -> Nat], NEW i, NEW u \in Nat,
         Seconds(LastTick) \in Nat, at.hist[i] = u, u <= at.max,
         \A x \in Window(at.start, i) : b[x] <= u,
         u = 0 \/ \E x \in Window(at.start, i) : b[x] = u
  PROVE  HoldsLargest(at, b, i)
<1>1. u > 0 => u # 0
  OBVIOUS
<1>2. QED
  BY <1>1 DEF HoldsLargest

(* at_add of a value v in the present second: the windows slide to it, and *)
(* each still holds the largest value of its seconds (ptlrpc.cpp:218-300). *)
LEMMA AtAddRemembers ==
  ASSUME now \in 0..LastTick, NEW at, SoundHistory(at), NEW v \in Nat \ {0},
         NEW a \in [0..Seconds(LastTick) -> Nat], Remembers(at, a),
         NEW b, b = [a EXCEPT ![Seconds(now)] = Max({a[Seconds(now)], v})]
  PROVE  Remembers(AtAdd(at, v), b)
<1>1. PICK s, L, m, new : /\ s = Seconds(now) /\ L = Seconds(LastTick)
                          /\ m = Max({a[s], v}) /\ new = AtAdd(at, v)
  OBVIOUS
<1>2. /\ L \in Nat /\ s \in 0..L /\ s \in Nat /\ a \in [0..L -> Nat] /\ b = [a EXCEPT ![s] = m]
      /\ \A x \in 0..L : x \in Nat
  BY <1>1, PresentOK
<1>3. m \in Nat /\ m = IF a[s] <= v THEN v ELSE a[s]
  <2>1. a[s] \in Nat
    BY <1>2
  <2>2. QED
    BY <1>1, <2>1, MaxIs
<1>4. b \in [0..L -> Nat] /\ b[s] = m /\ \A x \in 0..L : x # s => b[x] = a[x]
  BY <1>2, <1>3, ZenonT(60)
<1>5. /\ \A x \in 0..L : x > s => a[x] = 0
      /\ at.start = 0 =>
           /\ \A i \in 1..(SubWnds - 1) : at.hist[i] = 0
           /\ \A x \in 0..L : x >= 1 => a[x] = 0
      /\ at.start > 0 =>
           /\ at.hist[0] > 0
           /\ \A x \in 0..L : x >= at.start + Step => a[x] = 0
           /\ \A i \in 0..(SubWnds - 1) : HoldsLargest(at, a, i)
           /\ \E i \in 0..(SubWnds - 1) : at.hist[i] = at.max
  BY <1>1 DEF Remembers
<1>6. /\ at.start \in Nat /\ at.hist \in [0..(SubWnds - 1) -> Nat] /\ at.max \in Nat
      /\ at = [start |-> at.start, hist |-> at.hist, max |-> at.max]
      /\ at.start <= s
  BY <1>1 DEF SoundHistory, Windows
<1>7. /\ SubWnds - 1 \in Nat /\ 0 \in 0..(SubWnds - 1) /\ Step \in Nat /\ Step > 0
      /\ \A i \in 1..(SubWnds - 1) : i \in 0..(SubWnds - 1)
      /\ \A i \in 0..(SubWnds - 1) : i \in Nat /\ (i # 0 => i >= 1)
  BY ConstantTypes
<1>8. \A st, i : Window(st, i) \subseteq 0..L
  BY <1>1 DEF Window
<1>9. ASSUME NEW x \in 0..L, x > s
      PROVE  b[x] = 0
  BY <1>2, <1>4, <1>5, <1>9
\* It is enough to show what is known of the windows of the new history.
<1>10. ASSUME new.start > 0, new.hist[0] > 0,
              \A x \in 0..L : x >= new.start + Step => b[x] = 0,
              \A i \in 0..(SubWnds - 1) : HoldsLargest(new, b, i),
              \E i \in 0..(SubWnds - 1) : new.hist[i] = new.max
       PROVE  Remembers(new, b)
  <2>1. new.start # 0
    BY <1>10
  <2>2. QED
    BY <1>1, <1>9, <1>10, <2>1 DEF Remembers
<1>11. CASE at.start = 0
  <2>1. PICK h : h = [at.hist EXCEPT ![0] = v]
    OBVIOUS
  <2>2. new = [start |-> s, hist |-> h, max |-> v]
    BY <1>1, <1>11, <2>1 DEF AtAdd
  <2>3. new.start = s /\ new.hist = h /\ new.max = v
    BY <2>2
  <2>4. h[0] = v /\ \A i \in 1..(SubWnds - 1) : h[i] = 0
    BY <1>5, <1>6, <1>7, <1>11, <2>1
  <2>5. CASE s = 0
    <3>1. ASSUME NEW x \in 0..L, x >= 1
          PROVE  b[x] = 0
      <4>1. x > s
        BY <1>2, <2>5, <3>1
      <4>2. QED
        BY <1>9, <4>1
    <3>2. QED
      BY <1>1, <1>9, <2>3, <2>4, <2>5, <3>1 DEF Remembers
  <2>6. CASE s # 0
    <3>1. m = v /\ \A x \in 0..L : x # s /\ x >= 1 => b[x] = 0
      BY <1>2, <1>3, <1>4, <1>5, <1>11, <2>6
    <3>2. ASSUME NEW i \in 0..(SubWnds - 1)
          PROVE  HoldsLargest(new, b, i)
      <4>1. CASE i = 0
        <5>1. s \in Window(s, 0) /\ \A x \in Window(s, 0) : x \in 0..L /\ x >= 1
          BY <1>1, <1>2, <1>7, <2>6, WindowOK
        <5>2. ASSUME NEW x \in Window(s, 0)
              PROVE  b[x] <= v
          <6>1. x = s \/ b[x] = 0
            BY <3>1, <5>1
          <6>2. b[x] = v \/ b[x] = 0
            BY <1>4, <3>1, <6>1
          <6>3. QED
            BY <6>2
        <5>3. new.hist[0] = v /\ v <= new.max /\ v \in Nat /\ b[s] = v
          BY <1>4, <2>3, <2>4, <3>1
        <5>4. HoldsLargest(new, b, 0)
          BY <1>1, <1>2, <1>4, <2>3, <5>1, <5>2, <5>3, HoldsIntro
        <5>5. QED
          BY <4>1, <5>4
      <4>2. CASE i # 0
        <5>1. \A x \in Window(s, i) : x \in 0..L /\ x >= 1 /\ x # s
          <6>1. \A x \in Window(s, i) : x < s
            BY <1>2, <1>7, <4>2, WindowOK
          <6>2. \A x \in Window(s, i) : x \in 0..L /\ x >= 1
            BY <1>1 DEF Window
          <6>3. QED
            BY <1>2, <6>1, <6>2
        <5>2. h[i] = 0
          BY <1>7, <2>4, <4>2
        <5>3. ASSUME NEW x \in Window(s, i)
              PROVE  b[x] <= 0
          <6>1. b[x] = 0
            BY <3>1, <5>1
          <6>2. QED
            BY <6>1
        <5>4. new.hist[i] = 0 /\ 0 <= new.max
          BY <2>3, <5>2
        <5>5. new.start = s /\ 0 \in Nat
          BY <2>3
        <5>6. HoldsLargest(new, b, i)
          <6>1. \A x \in Window(new.start, i) : b[x] <= 0
            BY <5>3, <5>5
          <6>2. b \in [0..Seconds(LastTick) -> Nat] /\ Seconds(LastTick) \in Nat
            BY <1>1, <1>2, <1>4
          <6>3. QED
            BY <5>4, <5>5, <6>1, <6>2, HoldsIntro
        <5>7. QED
          BY <5>6
      <4>3. QED
        BY <4>1, <4>2
    <3>3. ASSUME NEW x \in 0..L, x >= s + Step
          PROVE  b[x] = 0
      <4>1. x # s /\ x >= 1
        BY <1>2, <1>7, <2>6, <3>3
      <4>2. QED
        BY <3>1, <4>1
    <3>4. \E i \in 0..(SubWnds - 1) : new.hist[i] = new.max
      BY <1>7, <2>3, <2>4
    <3>5. s > 0 /\ v > 0
      BY <1>2, <2>6
    <3>6. new.start > 0 /\ new.hist[0] > 0
      BY <2>3, <2>4, <3>5
    <3>7. \A x \in 0..L : x >= new.start + Step => b[x] = 0
      BY <2>3, <3>3
    <3>8. QED
      BY <1>1, <1>10, <3>2, <3>4, <3>6, <3>7
  <2>7. QED
    BY <2>5, <2>6
<1>12. PICK k : k = (s - at.start) \div Step
  OBVIOUS
<1>13. PICK n : n = k * Step
  OBVIOUS
<1>14. k \in Nat /\ n \in Nat /\ at.start + n <= s /\ s < at.start + n + Step
       /\ (k # 0 => n >= Step) /\ (k = 0 => n = 0)
  <2>1. s - at.start \in Nat /\ Step \in Nat \ {0}
    BY <1>2, <1>6, <1>7
  <2>2. k \in Nat /\ Step * k <= s - at.start /\ s - at.start < Step * k + Step
    BY <1>12, <2>1, DivBounds
  <2>3. Step * k = n /\ n \in Nat
    BY <1>7, <1>13, <2>2
  <2>4. k # 0 => 1 * Step <= k * Step
    BY <1>7, <2>2, ProductMonotone
  <2>5. k # 0 => n >= Step
    BY <1>7, <1>13, <2>3, <2>4
  <2>6. k = 0 => n = 0
    BY <1>7, <1>13
  <2>7. n <= s - at.start /\ s - at.start < n + Step
    BY <2>2, <2>3
  <2>8. QED
    BY <1>2, <1>6, <1>7, <2>2, <2>3, <2>5, <2>6, <2>7, SMTT(30)
<1>15. CASE at.start # 0 /\ k = 0
  <2>1. s >= at.start /\ s < at.start + Step /\ s >= 1 /\ at.start > 0
    BY <1>2, <1>6, <1>14, <1>15
  <2>2. s \in Window(at.start, 0) /\ \A x \in Window(at.start, 0) : x \in 0..L
    BY <1>1, <1>2, <1>6, <1>7, <2>1, WindowOK
  <2>3. \A x \in 0..L : x >= at.start + Step => b[x] = 0
    BY <1>2, <1>4, <1>5, <1>6, <1>7, <2>1, SMTT(60)
  <2>4. ASSUME NEW i \in 0..(SubWnds - 1), i # 0
        PROVE  \A x \in Window(at.start, i) : x \in 0..L /\ b[x] = a[x]
    <3>1. \A x \in Window(at.start, i) : x < at.start /\ x \in 0..L
      BY <1>6, <1>7, <1>8, <2>4, WindowOK
    <3>2. QED
      BY <1>2, <1>4, <1>6, <2>1, <3>1
  <2>5. PICK w : w = at.hist[0]
    OBVIOUS
  <2>6. /\ w \in Nat /\ w > 0 /\ \A x \in Window(at.start, 0) : a[x] <= w
        /\ \E x \in Window(at.start, 0) : a[x] = w
        /\ w <= at.max /\ a[s] \in Nat /\ a[s] <= w
    BY <1>2, <1>5, <1>6, <1>7, <2>1, <2>2, <2>5 DEF HoldsLargest
  <2>7. CASE v > w
    <3>1. PICK h, c : h = [at.hist EXCEPT ![0] = v] /\ c = Max({v, at.max})
      OBVIOUS
    <3>2. new = [start |-> at.start, hist |-> h, max |-> c]
      <4>1. new = [at EXCEPT !.hist[0] = v, !.max = Max({v, @})]
        BY <1>1, <1>12, <1>15, <2>5, <2>7 DEF AtAdd
      <4>2. QED
        BY <1>6, <3>1, <4>1
    <3>3. new.start = at.start /\ new.hist = h /\ new.max = c
      BY <3>2
    <3>4. h[0] = v /\ \A i \in 0..(SubWnds - 1) : i # 0 => h[i] = at.hist[i]
      BY <1>6, <1>7, <3>1
    <3>5. c \in Nat /\ c = IF v <= at.max THEN at.max ELSE v
      BY <1>6, <3>1, MaxIs
    <3>6. m = v
      BY <1>3, <2>6, <2>7
    <3>7. ASSUME NEW i \in 0..(SubWnds - 1)
          PROVE  HoldsLargest(new, b, i)
      <4>1. CASE i = 0
        <5>1. \A x \in Window(at.start, 0) : b[x] <= v
          <6>1. ASSUME NEW x \in Window(at.start, 0)
                PROVE  b[x] <= v
            <7>1. x \in 0..L /\ a[x] \in Nat /\ a[x] <= w
              BY <1>2, <2>2, <2>6, <6>1
            <7>2. QED
              BY <1>4, <2>6, <2>7, <3>6, <7>1
          <6>2. QED
            BY <6>1
        <5>2. v <= c
          BY <1>6, <3>5
        <5>3. QED
          BY <1>4, <2>2, <3>3, <3>4, <3>6, <4>1, <5>1, <5>2 DEF HoldsLargest
      <4>2. CASE i # 0
        <5>1. HoldsLargest(at, a, i) /\ h[i] = at.hist[i] /\ at.hist[i] \in Nat
          BY <1>5, <1>6, <2>1, <3>4, <4>2
        <5>2. at.hist[i] <= c
          BY <1>6, <3>5, <5>1 DEF HoldsLargest
        <5>3. QED
          BY <2>4, <3>3, <4>2, <5>1, <5>2 DEF HoldsLargest
      <4>3. QED
        BY <4>1, <4>2
    <3>8. \E i \in 0..(SubWnds - 1) : new.hist[i] = new.max
      <4>1. CASE c = v
        BY <1>7, <3>3, <3>4, <4>1
      <4>2. CASE c # v
        <5>1. c = at.max /\ v <= at.max
          BY <3>5, <4>2
        <5>2. PICK i \in 0..(SubWnds - 1) : at.hist[i] = at.max
          BY <1>5, <2>1
        <5>3. i # 0
          BY <1>6, <2>5, <2>6, <2>7, <5>1, <5>2
        <5>4. QED
          BY <3>3, <3>4, <5>1, <5>2, <5>3
      <4>3. QED
        BY <4>1, <4>2
    <3>9. Remembers(new, b)
      <4>1. new.start > 0 /\ new.hist[0] > 0
        BY <2>1, <3>3, <3>4
      <4>2. \A x \in 0..L : x >= new.start + Step => b[x] = 0
        BY <2>3, <3>3
      <4>3. QED
        BY <1>10, <3>7, <3>8, <4>1, <4>2
    <3>10. QED
      BY <1>1, <3>9
  <2>8. CASE ~(v > w)
    <3>1. new = at
      BY <1>1, <1>12, <1>15, <2>5, <2>8 DEF AtAdd
    <3>2. m <= w /\ a[s] <= m
      BY <1>3, <2>6, <2>8
    <3>3. ASSUME NEW i \in 0..(SubWnds - 1)
          PROVE  HoldsLargest(at, b, i)
      <4>1. CASE i = 0
        <5>1. ASSUME NEW x \in Window(at.start, 0)
              PROVE  b[x] <= w
          BY <1>4, <2>2, <2>6, <3>2, <5>1
        <5>2. PICK x \in Window(at.start, 0) : a[x] = w
          BY <2>6
        <5>3. b[x] = w
          <6>1. CASE x = s
            BY <1>3, <1>4, <2>6, <3>2, <5>2, <6>1
          <6>2. CASE x # s
            BY <1>4, <2>2, <5>2, <6>2
          <6>3. QED
            BY <6>1, <6>2
        <5>4. QED
          BY <2>5, <2>6, <4>1, <5>1, <5>3 DEF HoldsLargest
      <4>2. CASE i # 0
        BY <1>5, <2>1, <2>4, <4>2, ZenonT(60) DEF HoldsLargest
      <4>3. QED
        BY <4>1, <4>2
    <3>4. Remembers(new, b)
      BY <1>5, <1>10, <2>1, <2>3, <3>1, <3>3
    <3>5. QED
      BY <1>1, <3>4
  <2>9. QED
    BY <2>7, <2>8
<1>16. CASE at.start # 0 /\ k # 0
  <2>1. PICK h, c : /\ h = [i \in 0..(SubWnds - 1) |->
                              IF i = 0 THEN v ELSE IF i >= k THEN at.hist[i - k] ELSE 0]
                    /\ c = Max({h[i] : i \in 0..(SubWnds - 1)})
    OBVIOUS
  <2>2. new = [start |-> at.start + n, hist |-> h, max |-> c]
    BY <1>1, <1>12, <1>13, <1>16, <2>1 DEF AtAdd
  <2>3. new.start = at.start + n /\ new.hist = h /\ new.max = c
    BY <2>2
  <2>4. h \in [0..(SubWnds - 1) -> Nat] /\ h[0] = v
    <3>1. ASSUME NEW i \in 0..(SubWnds - 1), i >= k
          PROVE  i - k \in 0..(SubWnds - 1)
      BY <1>7, <1>14, <3>1
    <3>2. ASSUME NEW i \in 0..(SubWnds - 1)
          PROVE  (IF i = 0 THEN v ELSE IF i >= k THEN at.hist[i - k] ELSE 0) \in Nat
      BY <1>6, <3>1
    <3>3. QED
      BY <1>7, <2>1, <3>2
  <2>5. /\ c \in Nat /\ \A i \in 0..(SubWnds - 1) : h[i] <= c
        /\ \E i \in 0..(SubWnds - 1) : h[i] = c
    BY <1>7, <2>1, <2>4, MaxOfFunction
  <2>6. at.start > 0 /\ n >= Step /\ \A x \in 0..L : x >= at.start + Step => a[x] = 0
    BY <1>5, <1>6, <1>14, <1>16
  <2>7. s >= at.start + Step /\ m = v
    <3>1. s >= at.start + Step
      BY <1>2, <1>6, <1>7, <1>14, <2>6
    <3>2. QED
      BY <1>2, <1>3, <2>6, <3>1
  <2>8. \A x \in 0..L : x >= at.start + Step /\ x # s => b[x] = 0
    BY <1>4, <2>6
  <2>9. ASSUME NEW i \in 0..(SubWnds - 1)
        PROVE  HoldsLargest(new, b, i)
    <3>1. PICK st : st = at.start + n
      OBVIOUS
    <3>2. st \in Nat /\ st <= s /\ s < st + Step /\ st >= at.start + Step /\ st >= 1
      BY <1>2, <1>6, <1>7, <1>14, <2>6, <3>1
    <3>3. CASE i = 0
      <4>1. s \in Window(st, 0) /\ \A x \in Window(st, 0) : x \in 0..L /\ x >= st
        BY <1>1, <1>2, <1>7, <3>2, WindowOK
      <4>2. \A x \in Window(st, 0) : b[x] <= v
        <5>1. ASSUME NEW x \in Window(st, 0), x # s
              PROVE  b[x] = 0
          <6>1. x \in 0..L /\ x >= st /\ x \in Nat
            BY <1>2, <4>1, <5>1
          <6>2. x >= at.start + Step
            BY <1>6, <1>7, <3>2, <6>1
          <6>3. QED
            BY <2>8, <5>1, <6>1, <6>2
        <5>2. ASSUME NEW x \in Window(st, 0)
              PROVE  b[x] <= v
          <6>1. b[x] = v \/ b[x] = 0
            BY <1>4, <2>7, <5>1
          <6>2. QED
            BY <6>1
        <5>3. QED
          BY <5>2
      <4>3. new.hist[0] = v /\ v <= new.max /\ v \in Nat /\ b[s] = v
        BY <1>4, <1>7, <2>3, <2>4, <2>5, <2>7
      <4>4. HoldsLargest(new, b, 0)
        <5>1. b \in [0..Seconds(LastTick) -> Nat] /\ Seconds(LastTick) \in Nat
          BY <1>1, <1>2, <1>4
        <5>2. new.start = st
          BY <2>3, <3>1
        <5>3. QED
          BY <4>1, <4>2, <4>3, <5>1, <5>2, HoldsIntro
      <4>5. QED
        BY <3>3, <4>4
    <3>4. CASE i # 0
      <4>1. PICK y : y = i * Step
        OBVIOUS
      <4>2. y \in Nat /\ y >= Step /\ i \in Nat
        BY <1>7, <3>4, <4>1, WindowOK, <1>6
      <4>3. \A x : x \in Window(st, i) <=> x \in 0..L /\ x >= 1 /\ x >= st - y
                                          /\ x < st - y + Step
        BY <1>1, <4>1 DEF Window
      <4>4. \A x \in Window(st, i) : x \in 0..L /\ x \in Nat /\ x # s
        BY <1>2, <1>7, <3>2, <4>2, <4>3
      <4>5. CASE i < k
        <5>1. h[i] = 0
          BY <1>7, <1>14, <2>1, <3>4, <4>2, <4>5
        <5>2. y + Step <= n
          <6>1. (i + 1) * Step <= k * Step
            BY <1>7, <1>14, <4>2, <4>5, ProductMonotone, i + 1 \in Nat
          <6>2. (i + 1) * Step = i * Step + Step
            BY <1>7, <4>2
          <6>3. QED
            BY <1>13, <4>1, <6>1, <6>2
        <5>3. \A x \in Window(st, i) : x >= at.start + Step
          BY <1>6, <1>7, <1>14, <3>1, <4>2, <4>3, <4>4, <5>2
        <5>4. ASSUME NEW x \in Window(st, i)
              PROVE  b[x] <= 0
          <6>1. b[x] = 0
            BY <2>8, <4>4, <5>3
          <6>2. QED
            BY <6>1
        <5>5. new.hist[i] = 0 /\ 0 <= new.max /\ new.start = st
          BY <2>3, <2>5, <3>1, <5>1
        <5>6. b \in [0..Seconds(LastTick) -> Nat] /\ Seconds(LastTick) \in Nat
          BY <1>1, <1>2, <1>4
        <5>7. HoldsLargest(new, b, i)
          BY <5>4, <5>5, <5>6, 0 \in Nat, HoldsIntro
        <5>8. QED
          BY <5>7
      <4>6. CASE ~(i < k)
        <5>1. PICK j : j = i - k
          OBVIOUS
        <5>2. j \in 0..(SubWnds - 1) /\ h[i] = at.hist[j]
          BY <1>7, <1>14, <2>1, <3>4, <4>2, <4>6, <5>1
        <5>3. j * Step = y - n
          <6>1. j \in Nat /\ i = j + k
            BY <1>14, <4>2, <4>6, <5>1
          <6>2. (j + k) * Step = j * Step + k * Step /\ j * Step \in Nat
            BY <1>7, <1>14, <6>1
          <6>3. QED
            BY <1>13, <1>14, <4>1, <4>2, <6>1, <6>2
        <5>4. st - y = at.start - (y - n)
          BY <1>6, <1>14, <3>1, <4>2
        <5>5. Window(st, i) = Window(at.start, j)
          BY <4>1, <5>3, <5>4 DEF Window
        <5>6. HoldsLargest(at, a, j)
          BY <1>5, <2>6, <5>2
        <5>7. \A x \in Window(st, i) : b[x] = a[x]
          BY <1>4, <4>4
        <5>8. QED
          BY <2>3, <2>5, <3>1, <5>2, <5>5, <5>6, <5>7 DEF HoldsLargest
      <4>7. QED
        BY <4>5, <4>6
    <3>5. QED
      BY <3>3, <3>4
  <2>10. \A x \in 0..L : x >= new.start + Step => b[x] = 0
    <3>1. ASSUME NEW x \in 0..L, x >= at.start + n + Step
          PROVE  x >= at.start + Step /\ x # s
      BY <1>2, <1>6, <1>7, <1>14, <3>1
    <3>2. QED
      BY <2>3, <2>8, <3>1
  <2>11. new.start > 0 /\ new.hist[0] > 0
    BY <1>6, <1>14, <2>3, <2>4, <2>6
  <2>12. Remembers(new, b)
    BY <1>10, <2>3, <2>5, <2>9, <2>10, <2>11
  <2>13. QED
    BY <1>1, <2>12
<1>17. QED
  BY <1>11, <1>15, <1>16
-----------------------------------------------------------------------------
\* What has been added when v joins the values of the present second.
WithAdded(v) == [added EXCEPT ![Seconds(now)] = Max({added[Seconds(now)], v})]

LEMMA WithAddedOK ==
  ASSUME now \in 0..LastTick, added \in [0..Seconds(LastTick) -> Nat],
         NEW v \in Nat, NEW w \in Nat
  PROVE  /\ WithAdded(v) \in [0..Seconds(LastTick) -> Nat]
         /\ [WithAdded(v) EXCEPT ![Seconds(now)] = Max({WithAdded(v)[Seconds(now)], w})]
              = WithAdded(Max({v, w}))
         /\ WithAdded(0) = added
<1>1. PICK s, L : s = Seconds(now) /\ L = Seconds(LastTick)
  OBVIOUS
<1>2. s \in 0..L /\ added \in [0..L -> Nat] /\ added[s] \in Nat
  BY <1>1, PresentOK
<1>3. \A u : WithAdded(u) = [added EXCEPT ![s] = Max({added[s], u})]
  BY <1>1 DEF WithAdded
<1>4. \A u \in Nat : Max({added[s], u}) \in Nat
  BY <1>2, MaxOfTwo
<1>5. WithAdded(v) \in [0..L -> Nat]
  BY <1>2, <1>3, <1>4
<1>6. [WithAdded(v) EXCEPT ![s] = Max({WithAdded(v)[s], w})] = WithAdded(Max({v, w}))
  <2>1. PICK x, y, z : x = Max({added[s], v}) /\ y = Max({x, w}) /\ z = Max({v, w})
    OBVIOUS
  <2>2. x \in Nat /\ y \in Nat /\ z \in Nat
    BY <1>2, <2>1, MaxOfTwo
  <2>3. y = Max({added[s], z})
    <3>1. Max({added[s], z}) = IF added[s] <= z THEN z ELSE added[s]
      BY <1>2, <2>2, MaxIs
    <3>2. z = IF v <= w THEN w ELSE v
      BY <2>1, MaxIs
    <3>3. x = IF added[s] <= v THEN v ELSE added[s]
      BY <1>2, <2>1, MaxIs
    <3>4. y = IF x <= w THEN w ELSE x
      BY <2>1, <2>2, MaxIs, SMTT(60)
    <3>5. QED
      BY <1>2, <2>2, <3>1, <3>2, <3>3, <3>4
  <2>4. WithAdded(v) = [added EXCEPT ![s] = x] /\ WithAdded(v)[s] = x
    BY <1>2, <1>3, <2>1
  <2>5. [WithAdded(v) EXCEPT ![s] = y] = [added EXCEPT ![s] = y]
    BY <1>2, <2>4
  <2>6. WithAdded(z) = [added EXCEPT ![s] = y]
    BY <1>3, <2>3
  <2>7. QED
    BY <2>1, <2>4, <2>5, <2>6
<1>7. WithAdded(0) = added
  <2>1. Max({added[s], 0}) = added[s]
    BY <1>2, MaxIs
  <2>2. QED
    BY <1>2, <1>3, <2>1
<1>8. QED
  BY <1>1, <1>5, <1>6, <1>7

\* The states of the server whose history remembers all that was added.
Remembering == {s \in ServerStates : Remembers(s.EST, WithAdded(s.top))}

(* An early reply adds what it asks for to the history.                    *)
LEMMA EarlyReplyRemembers ==
  ASSUME now \in 0..LastTick, added \in [0..Seconds(LastTick) -> Nat],
         arrival \in [Rpcs -> Nat],
         NEW s \in Remembering, NEW r \in Rpcs, arrival[r] <= now
  PROVE  SendEarlyReply(s, r) \in Remembering
<1>1. PICK v, e, t : /\ v = AtExtra + Seconds(now - arrival[r])
                     /\ e = AtAdd(s.EST, v) /\ t = SendEarlyReply(s, r)
  OBVIOUS
<1>2. now \in Nat /\ now - arrival[r] \in Nat
  BY ConstantTypes
<1>3. v \in Nat \ {0}
  <2>1. AtExtra \in Nat \ {0} /\ Seconds(now - arrival[r]) \in Nat
    BY <1>2, SecondsOK, NumbersAssumption
  <2>2. QED
    BY <1>1, <2>1
<1>4. s \in ServerStates /\ SoundHistory(s.EST) /\ s.top \in Nat
      /\ Remembers(s.EST, WithAdded(s.top))
  BY DEF Remembering, ServerStates
<1>5. t.EST = e /\ t.top = Max({s.top, v})
  BY <1>1 DEF SendEarlyReply
<1>6. Remembers(e, WithAdded(t.top))
  <2>1. PICK a, b : a = WithAdded(s.top) /\ b = WithAdded(t.top)
    OBVIOUS
  <2>2. /\ a \in [0..Seconds(LastTick) -> Nat] /\ Remembers(s.EST, a)
        /\ b = [a EXCEPT ![Seconds(now)] = Max({a[Seconds(now)], v})]
    BY <1>3, <1>4, <1>5, <2>1, WithAddedOK, ZenonT(60)
  <2>3. Remembers(AtAdd(s.EST, v), b)
    BY <1>3, <1>4, <2>2, AtAddRemembers
  <2>4. QED
    BY <1>1, <2>1, <2>3
<1>7. t \in ServerStates
  BY <1>1, <1>2, <1>4, EarlyReplyOK
<1>8. QED
  BY <1>1, <1>5, <1>6, <1>7 DEF Remembering

LEMMA EarlyRepliesRemember ==
  ASSUME now \in 0..LastTick, added \in [0..Seconds(LastTick) -> Nat],
         arrival \in [Rpcs -> Nat],
         NEW s0 \in Remembering, NEW R \in SUBSET Rpcs,
         \A r \in R : arrival[r] <= now,
         NEW n \in Nat, NEW q \in [1..n -> R]
  PROVE  SendEarlyReplies(s0, q) \in Remembering
<1> DEFINE f[k \in 0..n] == IF k = 0 THEN s0 ELSE SendEarlyReply(f[k - 1], q[k])
           step == [k \in 1..n |->
                      [s \in Remembering |-> SendEarlyReply(s, q[k])]]
           S == {k \in 0..n : f[k] \in Remembering}
<1>1. q \in Seq(R) /\ Len(q) = n
  OBVIOUS
<1>2. \A k \in 1..n : \A s \in Remembering : SendEarlyReply(s, q[k]) \in Remembering
  BY EarlyReplyRemembers
<1>3. f = [k \in 0..n |-> IF k = 0 THEN s0 ELSE SendEarlyReply(f[k - 1], q[k])]
  <2>1. step \in [1..n -> [Remembering -> Remembering]]
    BY <1>2
  <2>2. PICK g \in [0..n -> Remembering] : IsIteration(g, n, s0, step)
    BY <2>1, IterationExists
  <2>3. \A k \in 0..n : k # 0 => k \in 1..n /\ k - 1 \in 0..n
    OBVIOUS
  <2>4. \A k \in 0..n : k # 0 => step[k][g[k - 1]] = SendEarlyReply(g[k - 1], q[k])
    BY <2>2, <2>3
  <2> HIDE DEF step
  <2>5. \A k \in 0..n : g[k] = IF k = 0 THEN s0 ELSE step[k][g[k - 1]]
    BY <2>2 DEF IsIteration
  <2>6. \A k \in 0..n : g[k] = IF k = 0 THEN s0 ELSE SendEarlyReply(g[k - 1], q[k])
    BY <2>4, <2>5
  <2>7. g = [k \in 0..n |-> IF k = 0 THEN s0 ELSE SendEarlyReply(g[k - 1], q[k])]
    BY <2>2, <2>6
  <2>8. QED
    BY <2>7
<1>4. SendEarlyReplies(s0, q) = f[n]
  BY <1>1 DEF SendEarlyReplies
<1> HIDE DEF f, step
<1>5. 0 \in S
  BY <1>3
<1>6. ASSUME NEW k \in 1..n, k - 1 \in S
      PROVE  k \in S
  <2>1. k \in 0..n /\ f[k] = SendEarlyReply(f[k - 1], q[k])
    BY <1>3
  <2>2. QED
    BY <1>2, <1>6, <2>1
<1> HIDE DEF S
<1>7. n \in S
  BY <1>5, <1>6, UpTo, n \in 0..n
<1>8. QED
  BY <1>4, <1>7 DEF S

LEMMA CheckTimedRemembers ==
  ASSUME IInv, NEW Q \in SUBSET epQ, NEW e, SoundHistory(e),
         NEW v \in Nat, Remembers(e, WithAdded(v)),
         NEW t, NEW msgs \in SUBSET Messages, CheckTimed(Q, e, v, t, msgs)
  PROVE  Remembers(EST', added')
<1>1. /\ now \in 0..LastTick /\ arrival \in [Rpcs -> Nat]
      /\ deadline \in [Rpcs -> Nat] /\ epQ \in SUBSET Rpcs
      /\ added \in [0..Seconds(LastTick) -> Nat]
  BY Types DEF IInv, TypeOK
<1>2. PICK q \in Orders(Near(Q)), ok \in BOOLEAN :
        LET s == SendEarlyReplies([EST |-> e, deadline |-> deadline,
                                   net |-> msgs, top |-> v, ok |-> ok], q)
        IN  /\ EST' = s.EST
            /\ added' = [added EXCEPT ![Seconds(now)] = Max({@, s.top})]
  BY DEF CheckTimed
<1>3. PICK s0, s, R : /\ s0 = [EST |-> e, deadline |-> deadline, net |-> msgs,
                               top |-> v, ok |-> ok]
                      /\ s = SendEarlyReplies(s0, q) /\ R = Near(Q)
  OBVIOUS
<1>4. EST' = s.EST /\ added' = WithAdded(s.top)
  BY <1>2, <1>3 DEF WithAdded
<1>5. s0 \in Remembering
  <2>1. e \in Windows
    BY DEF SoundHistory
  <2>2. s0 \in [EST : Windows, deadline : [Rpcs -> Nat], net : SUBSET Messages,
                top : Nat, ok : BOOLEAN]
    BY <1>1, <1>3, <2>1
  <2>3. s0.EST = e /\ s0.top = v
    BY <1>3
  <2>4. QED
    BY <2>2, <2>3 DEF ServerStates, Remembering
<1>6. R \in SUBSET Rpcs /\ \A r \in R : arrival[r] <= now
  <2>1. R \subseteq epQ
    BY <1>3 DEF Near
  <2>2. QED
    BY <1>1, <2>1 DEF IInv, ServerTimer
<1>7. Cardinality(R) \in Nat /\ q \in [1..Cardinality(R) -> R]
  BY <1>3, <1>6, OrderedOnce
<1>8. s \in Remembering
  BY <1>1, <1>3, <1>5, <1>6, <1>7, EarlyRepliesRemember
<1>9. QED
  BY <1>4, <1>8 DEF Remembering
-----------------------------------------------------------------------------
LEMMA InitHistory == Init => HistInv
<1> SUFFICES ASSUME Init
             PROVE  HistInv
  OBVIOUS
<1>1. EST.start = 0 /\ \A i \in 0..(SubWnds - 1) : EST.hist[i] = 0
  BY DEF Init
<1>2. \A i \in 1..(SubWnds - 1) : i \in 0..(SubWnds - 1)
  BY ConstantTypes
<1>3. \A s \in 0..Seconds(LastTick) : added[s] = 0
  BY DEF Init
<1>4. QED
  BY <1>1, <1>2, <1>3 DEF HistInv, Remembers

LEMMA NextHistory == IInv /\ HistInv /\ [Next]_vars => HistInv'
<1> SUFFICES ASSUME IInv, HistInv, [Next]_vars
             PROVE  HistInv'
  OBVIOUS
<1>1. /\ now \in 0..LastTick /\ added \in [0..Seconds(LastTick) -> Nat]
      /\ SoundHistory(EST) /\ net \in SUBSET Messages
      /\ arrival \in [Rpcs -> Nat] /\ now \in Nat /\ epTimer \in Nat
  BY Types DEF IInv, TypeOK, Histories
<1>2. CASE UNCHANGED <<now, EST, added>>
  BY <1>2 DEF HistInv, Remembers, HoldsLargest, Window, Seconds
<1>3. ASSUME Remembers(EST', added'), now' = now
      PROVE  HistInv'
  BY <1>3 DEF HistInv, Remembers, HoldsLargest, Window, Seconds
<1>4. ASSUME NEW r \in Rpcs, ServerSend(r)
      PROVE  HistInv'
  <2>1. PICK v : v = Max({1, Seconds(now - arrival[r])})
    OBVIOUS
  <2>2. PICK e \in Fits : CheckTimed(epQ \ {r}, AtAdd(EST, v), v, epTimer,
          net \cup {[type |-> "complete", rpc |-> r, sent |-> now, est |-> e]})
    BY <1>4, <2>1 DEF ServerSend
  <2>3. PICK Q, h, msgs :
          /\ Q = epQ \ {r} /\ h = AtAdd(EST, v)
          /\ msgs = net \cup {[type |-> "complete", rpc |-> r, sent |-> now, est |-> e]}
    OBVIOUS
  <2>4. msgs \in SUBSET Messages
    BY <1>1, <2>3, ConstantTypes DEF Messages
  <2>5. v \in Nat \ {0}
    <3>1. arrival[r] <= now /\ arrival[r] \in Nat
      BY <1>1 DEF IInv, ServerTimer
    <3>2. Seconds(now - arrival[r]) \in Nat
      BY <1>1, <3>1, now - arrival[r] \in Nat, SecondsOK
    <3>3. v \in Nat /\ v >= 1
      BY <2>1, <3>2, MaxOfTwo
    <3>4. QED
      BY <3>3
  <2>6. SoundHistory(h)
    BY <1>1, <2>3, <2>5, AtAddOK
  <2>7. Remembers(h, WithAdded(v))
    BY <1>1, <2>3, <2>5, AtAddRemembers DEF HistInv, WithAdded
  <2>8. Remembers(EST', added')
    BY <2>2, <2>3, <2>4, <2>5, <2>6, <2>7, CheckTimedRemembers
  <2>9. QED
    BY <1>3, <1>4, <2>8 DEF ServerSend
<1>5. ASSUME CheckEarlyReply
      PROVE  HistInv'
  <2>1. CheckTimed(epQ, EST, 0, 0, net) /\ now' = now
    BY <1>5 DEF CheckEarlyReply
  <2>2. Remembers(EST, WithAdded(0))
    BY <1>1, WithAddedOK DEF HistInv
  <2>3. Remembers(EST', added')
    BY <1>1, <2>1, <2>2, CheckTimedRemembers
  <2>4. QED
    BY <1>3, <2>1, <2>3
<1>6. ASSUME Tick
      PROVE  HistInv'
  <2>1. now' = now + 1 /\ EST' = EST /\ added' = added
    BY <1>6 DEF Tick, serverVars
  <2>2. Seconds(now)' = Seconds(now + 1) /\ Seconds(LastTick)' = Seconds(LastTick)
    BY <2>1 DEF Seconds
  <2>3. /\ Seconds(now) \in Nat /\ Seconds(now + 1) \in Nat
        /\ Seconds(now) <= Seconds(now + 1) /\ Seconds(LastTick) \in Nat
    BY <1>1, now + 1 \in Nat, SecondsOK, ConstantTypes
  <2>4. ASSUME NEW s \in 0..Seconds(LastTick), s > Seconds(now + 1)
        PROVE  added[s] = 0
    <3>1. s > Seconds(now)
      BY <2>3, <2>4
    <3>2. QED
      BY <3>1 DEF HistInv, Remembers
  <2>5. \A i : HoldsLargest(EST, added, i)' <=> HoldsLargest(EST, added, i)
    BY <2>1, <2>2 DEF HoldsLargest, Window
  <2>6. QED
    BY <2>1, <2>2, <2>4, <2>5 DEF HistInv, Remembers
<1>7. QED
  <2>1. ASSUME NEW r \in Rpcs, ClientSend(r) \/ TimeoutEvent(r)
        PROVE  UNCHANGED <<now, EST, added>>
    BY <2>1 DEF ClientSend, TimeoutEvent, serverVars
  <2>2. ASSUME NEW m \in net, ServerRecv(m) \/ ClientRecv(m) \/ ClientRecvEarlyReply(m)
        PROVE  UNCHANGED <<now, EST, added>>
    BY <2>2 DEF ServerRecv, ClientRecv, ClientRecvEarlyReply, serverVars
  <2>3. CASE UNCHANGED vars
    BY <1>2, <2>3 DEF vars, serverVars
  <2>4. CASE Next
    BY <1>2, <1>4, <1>5, <1>6, <2>1, <2>2, <2>4 DEF Next
  <2>5. QED
    BY <2>3, <2>4
-----------------------------------------------------------------------------
\* The window that a second before the last one remembered belongs to.
LEMMA InWindow ==
  ASSUME NEW start \in Nat, NEW s \in 0..Seconds(LastTick), s >= 1,
         Seconds(LastTick) \in Nat,
         s < start + Step, s >= start + Step - SubWnds * Step
  PROVE  \E i \in 0..(SubWnds - 1) : s \in Window(start, i)
<1>1. PICK b, i, n, w : /\ b = start + Step - 1 - s /\ i = b \div Step
                        /\ n = i * Step /\ w = SubWnds * Step
  OBVIOUS
<1>2. SubWnds \in Nat /\ Step \in Nat \ {0} /\ w \in Nat
  BY <1>1, ConstantTypes
<1>3. b \in Nat /\ b < w
  BY <1>1, <1>2
<1>4. i \in Nat /\ n <= b /\ b < n + Step /\ n \in Nat
  <2>1. i \in Nat /\ Step * i <= b /\ b < Step * i + Step
    BY <1>1, <1>2, <1>3, DivBounds
  <2>2. Step * i = n /\ n \in Nat
    BY <1>1, <1>2, <2>1
  <2>3. QED
    BY <2>1, <2>2
<1>5. i < SubWnds
  <2>1. SubWnds <= i => w <= n
    BY <1>1, <1>2, <1>4, ProductMonotone
  <2>2. QED
    BY <1>2, <1>3, <1>4, <2>1
<1>6. i \in 0..(SubWnds - 1)
  BY <1>2, <1>4, <1>5
<1>7. s >= start - n /\ s < start - n + Step
  BY <1>1, <1>2, <1>4
<1>8. QED
  BY <1>1, <1>6, <1>7 DEF Window

(* The history never forgets a service time early nor keeps one for too    *)
(* long: hist holds the largest values of the last SubWnds windows         *)
(* (at_add, ptlrpc.cpp:218-300).                                           *)
THEOREM EstimateCorrect == Spec => []EstimateIsWindowMax
<1>1. IInv /\ HistInv => EstimateIsWindowMax
  <2> SUFFICES ASSUME IInv, HistInv, EST.start > 0
               PROVE  LET first == Max({1, EST.start + Step - SubWnds * Step})
                          last == Max({s \in DOMAIN added : added[s] > 0})
                      IN  /\ last \in EST.start..(EST.start + Step - 1)
                          /\ EST.max = Max({added[s] : s \in first..last})
    BY DEF EstimateIsWindowMax
  <2>1. PICK L, st, c, w, P :
          /\ L = Seconds(LastTick) /\ st = EST.start /\ c = EST.max
          /\ w = SubWnds * Step /\ P = {s \in DOMAIN added : added[s] > 0}
    OBVIOUS
  <2>2. PICK first, last : first = Max({1, st + Step - w}) /\ last = Max(P)
    OBVIOUS
  <2>3. /\ L \in Nat /\ added \in [0..L -> Nat] /\ st \in Nat /\ st > 0
        /\ EST.hist \in [0..(SubWnds - 1) -> Nat] /\ c \in Nat
        /\ st <= Seconds(now) /\ Seconds(now) \in 0..L
    <3>1. now \in 0..LastTick
      BY DEF IInv, TypeOK
    <3>2. Seconds(LastTick) \in Nat /\ Seconds(now) \in 0..Seconds(LastTick)
      BY <3>1, PresentOK
    <3>3. SoundHistory(EST) /\ added \in [0..Seconds(LastTick) -> Nat]
      BY DEF IInv, TypeOK, Histories
    <3>4. QED
      BY <2>1, <3>2, <3>3 DEF SoundHistory, Windows
  <2>4. /\ SubWnds \in Nat /\ SubWnds - 1 \in Nat /\ Step \in Nat /\ Step > 0
        /\ 0 \in 0..(SubWnds - 1) /\ w \in Nat /\ SubWnds > 0
    BY <2>1, ConstantTypes
  <2>5. /\ EST.hist[0] > 0
        /\ \A s \in 0..L : s >= st + Step => added[s] = 0
        /\ \A i \in 0..(SubWnds - 1) :
             /\ \A s \in Window(st, i) : added[s] <= EST.hist[i]
             /\ EST.hist[i] > 0 => \E s \in Window(st, i) : added[s] = EST.hist[i]
             /\ EST.hist[i] <= c
        /\ \E i \in 0..(SubWnds - 1) : EST.hist[i] = c
    BY <2>1 DEF HistInv, Remembers, HoldsLargest
  <2>6. P \in SUBSET (0..L) /\ \A s \in 0..L : s \in P <=> added[s] > 0
    BY <2>1, <2>3
  <2>7. PICK z \in Window(st, 0) : added[z] = EST.hist[0]
    BY <2>4, <2>5
  <2>8. z \in 0..L /\ z >= st /\ z \in P
    <3>1. z \in 0..L /\ z >= st
      BY <2>1, <2>3, <2>4, WindowOK
    <3>2. QED
      BY <2>5, <2>6, <2>7, <3>1
  <2>9. last \in P /\ \A s \in P : s <= last
    <3>1. PICK m \in P : \A x \in P : x <= m
      BY <2>3, <2>6, <2>8, LargestExists
    <3>2. P \in SUBSET Nat
      BY <2>6
    <3>3. Max(P) = m
      BY <3>1, <3>2, MaxIsLargest
    <3>4. QED
      BY <2>2, <3>1, <3>3
  <2>10. last \in 0..L /\ added[last] > 0 /\ last >= st /\ last < st + Step
    <3>1. last \in 0..L /\ added[last] > 0
      BY <2>6, <2>9
    <3>2. z <= last
      BY <2>8, <2>9
    <3>3. last >= st
      BY <2>3, <2>8, <3>1, <3>2
    <3>4. ~(last >= st + Step)
      <4>1. last >= st + Step => added[last] = 0
        BY <2>5, <3>1
      <4>2. QED
        BY <3>1, <4>1
    <3>5. QED
      BY <2>3, <2>4, <3>1, <3>3, <3>4
  <2>11. last \in st..(st + Step - 1)
    BY <2>3, <2>4, <2>10
  <2>12. first \in Nat /\ first = IF 1 <= st + Step - w THEN st + Step - w ELSE 1
    BY <2>2, <2>3, <2>4, MaxIs, SMTT(30)
  <2>13. ASSUME NEW s \in first..last
         PROVE  s \in 0..L /\ added[s] \in Nat /\ added[s] <= c
    <3>1. s \in 0..L /\ s >= 1 /\ s < st + Step /\ s >= st + Step - w
      BY <2>3, <2>4, <2>10, <2>12, <2>13
    <3>2. PICK i \in 0..(SubWnds - 1) : s \in Window(st, i)
      BY <2>1, <2>3, <3>1, InWindow
    <3>3. added[s] <= EST.hist[i] /\ EST.hist[i] <= c
      BY <2>5, <3>2
    <3>4. EST.hist[i] \in Nat /\ added[s] \in Nat
      BY <2>3, <3>1, <3>2
    <3>5. QED
      BY <2>3, <3>1, <3>3, <3>4
  <2>14. PICK y \in first..last : added[y] = c
    <3>1. PICK i \in 0..(SubWnds - 1) : EST.hist[i] = c
      BY <2>5
    <3>2. c > 0
      <4>1. EST.hist[0] <= c /\ EST.hist[0] \in Nat
        BY <2>3, <2>4, <2>5
      <4>2. QED
        BY <2>3, <2>5, <4>1
    <3>3. PICK s \in Window(st, i) : added[s] = c
      BY <2>5, <3>1, <3>2
    <3>4. PICK n : n = i * Step
      OBVIOUS
    <3>5. s \in 0..L /\ s >= 1 /\ s >= st - n
      BY <2>1, <3>3, <3>4 DEF Window
    <3>6. n \in Nat /\ n + Step <= w
      <4>1. i \in Nat /\ i + 1 \in Nat /\ i + 1 <= SubWnds
        BY <2>4
      <4>2. (i + 1) * Step <= SubWnds * Step
        BY <2>4, <4>1, ProductMonotone
      <4>3. (i + 1) * Step = i * Step + Step /\ i * Step \in Nat
        BY <2>4, <4>1
      <4>4. QED
        BY <2>1, <3>4, <4>2, <4>3
    <3>7. s <= last
      BY <2>6, <2>9, <3>2, <3>3, <3>5
    <3>8. s >= first
      BY <2>3, <2>4, <2>12, <3>5, <3>6
    <3>9. QED
      BY <2>10, <2>12, <3>3, <3>5, <3>7, <3>8
  <2>15. c = Max({added[s] : s \in first..last})
    <3> DEFINE V == {added[s] : s \in first..last}
    <3>1. V \in SUBSET Nat /\ c \in V /\ \A x \in V : x <= c
      BY <2>13, <2>14
    <3> HIDE DEF V
    <3>2. Max(V) = c
      BY <3>1, MaxIsLargest
    <3>3. QED
      BY <3>2 DEF V
  <2>16. QED
    BY <2>1, <2>2, <2>11, <2>15
<1>2. Init => HistInv
  BY InitHistory
<1>3. IInv /\ HistInv /\ [Next]_vars => HistInv'
  BY NextHistory
<1>4. QED
  BY <1>1, <1>2, <1>3, Invariance, PTL DEF Spec
=============================================================================
