------------------------- MODULE Schedulers_proofs -------------------------
(***************************************************************************)
(* The safety of the request schedulers for every number of classes,       *)
(* requests and threads.  A step of Schedulers is a step of the scheduler  *)
(* that `algo` names, so that the invariant of each one is inductive by    *)
(* itself.                                                                 *)
(***************************************************************************)
EXTENDS Schedulers, CommonLemmas
-----------------------------------------------------------------------------
(* Token buckets.  The rate holds because each dispatch is paid for:       *)
(* TbfIInv relates the tokens of a bucket to all the dispatches since, so  *)
(* that what a bucket still holds and what it has handed out never add up  *)
(* to more than Depth and one token for each NSecs ticks.  The pool's      *)
(* event may dispatch several requests of several classes before it ends;  *)
(* TbfGoodStates are the states of the policy it goes through.             *)
TbfClients == [known : BOOLEAN, queue : Seq(T!Requests), ntoken : 0..Depth,
            check : 0..now]

\* The dispatches h of class c keep the rate of its rule.
WithinRate(c, h) ==
  \A i, j \in DOMAIN h : i <= j =>
    h[i] <= h[j] /\ j - i + 1 <= Depth + (h[j] - h[i]) \div NSecs[c]

\* The bucket k of class c pays for the dispatches since each of those in h,
\* with the tokens that it holds.
Paid(c, k, h) ==
  \A i \in DOMAIN h :
    /\ h[i] <= k.check
    /\ Len(h) - i + 1 + k.ntoken <= Depth + (k.check - h[i]) \div NSecs[c]

SoundBucket(c, k, h) ==
  /\ ~k.known => k.queue = <<>> /\ h = <<>>
  /\ WithinRate(c, h) /\ Paid(c, k, h)

\* The backlog of class c holds its own requests, none twice, none of o.
OwnRequests(c, k, o) ==
  /\ Distinct(k.queue)
  /\ Elements(k.queue) \subseteq {c} \X (1..TbfPerClass)
  /\ Elements(k.queue) \cap o = {}

SoundClasses(k, h, o) ==
  /\ k \in [TbfClasses -> TbfClients] /\ h \in [TbfClasses -> Seq(0..now)]
  /\ \A c \in TbfClasses : SoundBucket(c, k[c], h[c]) /\ OwnRequests(c, k[c], o)

\* The timer tm of a policy throttled (th) until time dl.
TimerSet(k, th, tm, dl) ==
  /\ th = tm /\ (th => dl >= now)
  /\ th => \A c \in TbfClasses :
             k[c].queue # <<>> /\ T!NextToken(k, c) >= now => dl <= T!NextToken(k, c)

TbfIInv ==
  /\ now \in Nat /\ deadline \in Nat
  /\ {throttling, timer, aborted} \subseteq BOOLEAN
  /\ busy \in SUBSET T!Requests /\ done \in SUBSET T!Requests
  /\ pool \in Pools(NumThreads) /\ ConsistentPool(pool) /\ pool.state # "Start"
  /\ pool.idle + Cardinality(busy) = NumThreads
  /\ SoundClasses(cli, hist, busy \cup done)
  /\ TimerSet(cli, throttling, timer, deadline)

TbfStates ==
  [pool : Pools(NumThreads), cli : [TbfClasses -> TbfClients], throttling : BOOLEAN,
   timer : BOOLEAN, deadline : Nat, hist : [TbfClasses -> Seq(0..now)],
   out : SUBSET T!Requests]

\* The pool's event has handed s.out out so far.
TbfGoodStates ==
  {s \in TbfStates :
     /\ s.pool.run = FALSE
     /\ s.pool.state = IF s.pool.idle = 0 THEN "FullLoad" ELSE "Run"
     /\ s.pool.idle + Cardinality(busy \cup s.out) = NumThreads
     /\ SoundClasses(s.cli, s.hist, busy \cup done \cup s.out)
     /\ TimerSet(s.cli, s.throttling, s.timer, s.deadline)}
-----------------------------------------------------------------------------
(* The pool of the scheduler is that of ThreadPool.                        *)
LEMMA TbfPool ==
  /\ \A n : T!Pools(n) = Pools(n)
  /\ T!Wakeup(pool) = Wakeup(pool)
  /\ T!SignalIfLoaded(T!AddThread(pool)) = SignalIfLoaded(AddThread(pool))
<1>1. \A n : T!Pools(n) = Pools(n)
  BY DEF T!Pools, Pools, T!PoolStates, PoolStates
<1>2. T!Wakeup(pool) = Wakeup(pool)
  BY DEF T!Wakeup, Wakeup, T!Signalled, Signalled
<1>3. T!SignalIfLoaded(T!AddThread(pool)) = SignalIfLoaded(AddThread(pool))
  BY DEF T!SignalIfLoaded, SignalIfLoaded, T!AddThread, AddThread, T!Signalled,
         Signalled
<1>4. QED
  BY <1>1, <1>2, <1>3

\* What the constants are.
LEMMA TbfConstants ==
  ASSUME T!NrsTbfAssumption
  PROVE  /\ Depth \in Nat \ {0} /\ NumThreads \in Nat \ {0} /\ TbfPerClass \in Nat
         /\ \A c \in TbfClasses : NSecs[c] \in Nat \ {0}
         /\ IsFiniteSet(T!Requests)
         /\ \A S \in SUBSET T!Requests : IsFiniteSet(S) /\ Cardinality(S) \in Nat
<1>1. IsFiniteSet(T!Requests)
  <2>1. IsFiniteSet(1..TbfPerClass)
    BY FS_Interval, 1 \in Int, TbfPerClass \in Int DEF T!NrsTbfAssumption
  <2>2. IsFiniteSet(TbfClasses)
    BY DEF T!NrsTbfAssumption, T!IsFiniteSet, IsFiniteSet
  <2>3. QED
    BY <2>1, <2>2, FS_Product DEF T!Requests
<1>2. \A S \in SUBSET T!Requests : IsFiniteSet(S) /\ Cardinality(S) \in Nat
  BY <1>1, FS_Subset, FS_CardinalityType
<1>3. QED
  BY <1>1, <1>2 DEF T!NrsTbfAssumption

LEMMA TokensOK ==
  ASSUME T!NrsTbfAssumption, now \in Nat, NEW k \in [TbfClasses -> TbfClients],
         NEW c \in TbfClasses
  PROVE  /\ T!Tokens(k, c) \in 0..Depth
         /\ T!Tokens(k, c) <= k[c].ntoken + (now - k[c].check) \div NSecs[c]
         /\ T!Tokens(k, c) = 0 => T!NextToken(k, c) > now
<1> DEFINE g == (now - k[c].check) \div NSecs[c]
<1>1. /\ now - k[c].check \in Nat /\ k[c].ntoken \in Nat /\ k[c].check \in Nat
      /\ NSecs[c] \in Nat \ {0} /\ Depth \in Nat \ {0}
  BY TbfConstants DEF TbfClients
<1>2. /\ g \in Nat
      /\ now - k[c].check < NSecs[c] * g + NSecs[c]
  BY <1>1, DivBounds
<1>3. g = 0 => NSecs[c] * g = 0
  BY <1>1
<1> HIDE DEF g
<1>4. T!Tokens(k, c) = IF Depth <= k[c].ntoken + g THEN Depth ELSE k[c].ntoken + g
  <2>1. T!Tokens(k, c) = Min({Depth, k[c].ntoken + g})
    BY DEF T!Tokens, T!Min, Min, g
  <2>2. Depth \in Int /\ k[c].ntoken + g \in Int
    BY <1>1, <1>2
  <2>3. QED
    BY <2>1, <2>2, MinOfTwo
<1>5. T!Tokens(k, c) \in 0..Depth /\ T!Tokens(k, c) <= k[c].ntoken + g
  BY <1>1, <1>2, <1>4
<1>6. T!Tokens(k, c) = 0 => g = 0
  BY <1>1, <1>2, <1>4
<1>7. g = 0 => now - k[c].check < NSecs[c]
  BY <1>1, <1>2, <1>3
<1>8. T!Tokens(k, c) = 0 => T!NextToken(k, c) > now
  BY <1>1, <1>6, <1>7 DEF T!NextToken
<1>9. QED
  BY <1>5, <1>8 DEF g

(* If b ticks ago a bucket paid for l dispatches with k tokens left, then  *)
(* now, g tokens later, it pays for them with no more than k + g left.     *)
LEMMA StillPaid ==
  ASSUME NEW n \in Nat \ {0}, NEW d \in Nat, NEW a \in Nat, NEW b \in Nat,
         NEW l \in Int, NEW k \in Nat, NEW t \in Nat,
         l + k <= d + a \div n, t <= k + b \div n
  PROVE  l + t <= d + (a + b) \div n
<1>1. (a \div n) + (b \div n) <= (a + b) \div n
  BY DivAdd
<1>2. a \div n \in Nat /\ b \div n \in Nat /\ (a + b) \div n \in Nat
  BY DivBounds
<1> DEFINE x == a \div n
           y == b \div n
           z == (a + b) \div n
<1> HIDE DEF x, y, z
<1>3. x \in Nat /\ y \in Nat /\ z \in Nat /\ x + y <= z /\ l + k <= d + x /\ t <= k + y
  BY <1>1, <1>2 DEF x, y, z
<1>4. l + t <= d + z
  BY <1>3
<1>5. QED
  BY <1>4 DEF z

(* A dispatch spends one of the tokens counted now: the bucket still pays  *)
(* for all dispatches, this one included.                                  *)
LEMMA DispatchPaid ==
  ASSUME T!NrsTbfAssumption, now \in Nat, NEW k \in TbfClients,
         NEW c \in TbfClasses, NEW h \in Seq(0..now), NEW t \in 1..Depth,
         SoundBucket(c, k, h), t <= k.ntoken + (now - k.check) \div NSecs[c],
         NEW l \in TbfClients, l.known, l.ntoken = t - 1, l.check = now
  PROVE  Append(h, now) \in Seq(0..now) /\ SoundBucket(c, l, Append(h, now))
<1> DEFINE H == Append(h, now)
<1>1. /\ NSecs[c] \in Nat \ {0} /\ Depth \in Nat
      /\ k.ntoken \in Nat /\ k.check \in Nat /\ k.check <= now /\ t \in Nat
  BY TbfConstants DEF TbfClients
<1>2. /\ Len(h) \in Nat /\ DOMAIN h = 1..Len(h) /\ \A i \in DOMAIN h : h[i] \in 0..now
  OBVIOUS
<1>3. /\ H \in Seq(0..now) /\ Len(H) = Len(h) + 1 /\ DOMAIN H = 1..(Len(h) + 1)
      /\ H[Len(h) + 1] = now /\ \A i \in DOMAIN h : H[i] = h[i]
  BY <1>2, AppendProperties, now \in 0..now
<1> HIDE DEF H
<1>4. ASSUME NEW i \in DOMAIN h
      PROVE  /\ h[i] \in Nat /\ h[i] <= k.check
             /\ Len(h) - i + 1 + t <= Depth + (now - h[i]) \div NSecs[c]
  <2>1. h[i] \in Nat /\ h[i] <= k.check
    BY <1>2 DEF SoundBucket, Paid
  <2>2. Len(h) - i + 1 + k.ntoken <= Depth + (k.check - h[i]) \div NSecs[c]
    BY DEF SoundBucket, Paid
  <2>3. PICK a, b : a = k.check - h[i] /\ b = now - k.check
    OBVIOUS
  <2>4. a \in Nat /\ b \in Nat /\ a + b = now - h[i]
    <3>1. k.check \in Nat /\ k.check <= now
      BY <1>1
    <3>2. QED
      BY <2>1, <2>3, <3>1, SMTT(60)
  <2>5. PICK m : m = Len(h) - i + 1
    OBVIOUS
  <2>6. m \in Int
    BY <1>2, <2>5
  <2>7. t <= k.ntoken + b \div NSecs[c]
    BY <2>3, Zenon
  <2>8. m + k.ntoken <= Depth + a \div NSecs[c]
    BY <2>2, <2>3, Zenon, <2>5
  <2>9. m + t <= Depth + (a + b) \div NSecs[c]
    BY <1>1, <2>4, <2>6, <2>7, <2>8, StillPaid
  <2>10. QED
    BY <2>1, <2>4, <2>5, <2>9
<1>5. (now - now) \div NSecs[c] = 0
  BY <1>1
<1>6. ASSUME NEW i \in DOMAIN H
      PROVE  /\ H[i] \in 0..now
             /\ Len(H) - i + 1 + (t - 1) <= Depth + (now - H[i]) \div NSecs[c]
  <2>1. CASE i \in DOMAIN h
    <3>1. PICK q : q = (now - H[i]) \div NSecs[c]
      OBVIOUS
    <3>2. Len(h) - i + 1 + t <= Depth + q /\ H[i] \in 0..now
      BY <1>1, <1>2, <1>3, <1>4, <2>1, <3>1
    <3>3. q \in Nat
      <4>1. now - H[i] \in Nat
        BY <3>2
      <4>2. QED
        BY <1>1, <3>1, <4>1, DivBounds
    <3>4. Len(H) - i + 1 + (t - 1) = Len(h) - i + 1 + t
      BY <1>1, <1>2, <1>3, <2>1
    <3>5. QED
      BY <3>1, <3>2, <3>4
  <2>2. CASE i = Len(h) + 1
    <3>1. Len(H) - i + 1 + (t - 1) = t /\ t <= Depth
      BY <1>1, <1>2, <1>3, <2>2
    <3>2. H[i] = now /\ (now - H[i]) \div NSecs[c] = 0
      BY <1>3, <1>5, <2>2
    <3>3. QED
      BY <1>1, <3>1, <3>2
  <2>3. QED
    BY <1>2, <1>3, <2>1, <2>2
<1>7. Paid(c, l, H)
  BY <1>6 DEF Paid
<1>8. ASSUME NEW i \in DOMAIN H, NEW j \in DOMAIN H, i <= j
      PROVE  H[i] <= H[j] /\ j - i + 1 <= Depth + (H[j] - H[i]) \div NSecs[c]
  <2>1. CASE j \in DOMAIN h
    <3>1. i \in DOMAIN h
      BY <1>2, <1>3, <1>8, <2>1
    <3>2. QED
      BY <1>3, <1>8, <2>1, <3>1 DEF SoundBucket, WithinRate
  <2>2. CASE j = Len(h) + 1
    <3>1. H[j] = now /\ H[i] <= now /\ Len(H) = j
      BY <1>3, <1>6, <2>2
    <3>2. PICK q : q = (now - H[i]) \div NSecs[c]
      OBVIOUS
    <3>3. Len(H) - i + 1 + (t - 1) <= Depth + q
      BY <1>6, <3>2
    <3>4. q \in Nat
      <4>1. now - H[i] \in Nat
        BY <1>6, SMTT(30)
      <4>2. QED
        BY <1>1, <3>2, <4>1, DivBounds
    <3>5. j - i + 1 <= Depth + q
      BY <1>1, <1>2, <1>3, <2>2, <3>1, <3>3, <3>4
    <3>6. QED
      BY <3>1, <3>2, <3>5
  <2>3. QED
    BY <1>2, <1>3, <2>1, <2>2
<1>9. WithinRate(c, H)
  BY <1>8 DEF WithinRate
<1>10. QED
  BY <1>3, <1>7, <1>9 DEF SoundBucket, H
-----------------------------------------------------------------------------
(* The root of the heap has the first token of all backlogged classes.     *)
LEMMA RootIsFirst ==
  ASSUME T!NrsTbfAssumption, now \in Nat, NEW k \in [TbfClasses -> TbfClients],
         NEW c \in T!Roots(k)
  PROVE  /\ c \in TbfClasses /\ k[c].queue # <<>> /\ T!NextToken(k, c) \in Nat
         /\ \A d \in TbfClasses : k[d].queue # <<>> => T!NextToken(k, c) <= T!NextToken(k, d)
<1>1. \A d \in TbfClasses : T!NextToken(k, d) \in Nat
  BY TbfConstants DEF T!NextToken, TbfClients
<1>2. /\ c \in TbfClasses /\ k[c].queue # <<>>
      /\ \A d \in TbfClasses : k[d].queue # <<>> => T!Before(k, c, d)
  BY DEF T!Roots
<1>3. QED
  BY <1>1, <1>2 DEF T!Before

\* The assumptions about the state that the dispatches of one event keep.
TbfPolicy ==
  /\ T!NrsTbfAssumption /\ now \in Nat
  /\ busy \in SUBSET T!Requests /\ done \in SUBSET T!Requests

(* The root has no token: the policy sleeps until it gets one.             *)
LEMMA ThrottleOK ==
  ASSUME TbfPolicy, NEW s \in TbfGoodStates, NEW c \in T!Roots(s.cli),
         ~(T!Tokens(s.cli, c) > 0)
  PROVE  T!Dequeue(s, c) \in TbfGoodStates
<1> DEFINE t == T!Dequeue(s, c)
<1>1. t = [s EXCEPT !.throttling = TRUE, !.timer = TRUE,
                    !.deadline = T!NextToken(s.cli, c)]
  BY DEF T!Dequeue
<1>2. s \in TbfStates /\ s.cli \in [TbfClasses -> TbfClients] /\ c \in TbfClasses
  BY DEF TbfGoodStates, TbfStates, T!Roots
<1>3. T!Tokens(s.cli, c) = 0
  BY <1>2, TokensOK DEF TbfPolicy
<1>4. T!NextToken(s.cli, c) > now /\ T!NextToken(s.cli, c) \in Nat
  BY <1>2, <1>3, TokensOK, RootIsFirst DEF TbfPolicy
<1> HIDE DEF t
<1>5. /\ t.pool = s.pool /\ t.cli = s.cli /\ t.hist = s.hist /\ t.out = s.out
      /\ t.throttling = TRUE /\ t.timer = TRUE /\ t.deadline = T!NextToken(s.cli, c)
      /\ t \in TbfStates
  BY <1>1, <1>2, <1>4 DEF TbfStates
<1>6. TimerSet(t.cli, t.throttling, t.timer, t.deadline)
  <2>1. T!NextToken(s.cli, c) >= now
    BY <1>4 DEF TbfPolicy
  <2>2. QED
    BY <1>2, <1>5, <2>1, RootIsFirst DEF TimerSet, TbfPolicy
<1>7. QED
  BY <1>5, <1>6 DEF TbfGoodStates, t

(* The root has a token: its oldest request goes to a thread.              *)
LEMMA TbfDispatchOK ==
  ASSUME TbfPolicy, NEW s \in TbfGoodStates, s.pool.state = "Run", ~s.throttling,
         NEW c \in T!Roots(s.cli), T!Tokens(s.cli, c) > 0
  PROVE  T!Dequeue(s, c) \in TbfGoodStates
<1> DEFINE t == T!Dequeue(s, c)
           r == Head(s.cli[c].queue)
           l == [s.cli[c] EXCEPT !.queue = Tail(s.cli[c].queue),
                                 !.ntoken = T!Tokens(s.cli, c) - 1, !.check = now]
           o == busy \cup done \cup s.out
<1>1. t = [s EXCEPT !.out = @ \cup {r}, !.pool = T!TakeThreads(@, 1),
                    !.hist[c] = Append(@, now), !.cli[c] = l]
  BY DEF T!Dequeue
<1>2. /\ s \in TbfStates /\ s.cli \in [TbfClasses -> TbfClients] /\ c \in TbfClasses
      /\ s.hist \in [TbfClasses -> Seq(0..now)] /\ s.pool \in Pools(NumThreads)
      /\ s.out \in SUBSET T!Requests /\ now \in Nat
      /\ s.cli[c].queue # <<>> /\ s.cli[c].queue \in Seq(T!Requests)
  BY DEF TbfGoodStates, TbfStates, TbfClients, TbfPolicy, T!Roots
<1>3. /\ SoundBucket(c, s.cli[c], s.hist[c]) /\ OwnRequests(c, s.cli[c], o)
      /\ SoundClasses(s.cli, s.hist, o)
  BY <1>2 DEF TbfGoodStates, SoundClasses
<1>4. /\ r \in T!Requests /\ r \in Elements(s.cli[c].queue)
      /\ Tail(s.cli[c].queue) \in Seq(T!Requests) /\ Distinct(Tail(s.cli[c].queue))
      /\ Elements(Tail(s.cli[c].queue)) = Elements(s.cli[c].queue) \ {r}
  BY <1>2, <1>3, TailOfDistinct DEF OwnRequests
<1>5. /\ T!Tokens(s.cli, c) \in 1..Depth /\ Depth \in Nat
      /\ T!Tokens(s.cli, c) <= s.cli[c].ntoken + (now - s.cli[c].check) \div NSecs[c]
  <2>1. /\ T!Tokens(s.cli, c) \in 0..Depth /\ Depth \in Nat
        /\ T!Tokens(s.cli, c) <= s.cli[c].ntoken + (now - s.cli[c].check) \div NSecs[c]
    BY <1>2, TokensOK, TbfConstants DEF TbfPolicy
  <2>2. QED
    BY <2>1
<1>6. /\ l \in TbfClients /\ l.known = s.cli[c].known /\ l.queue = Tail(s.cli[c].queue)
      /\ l.ntoken = T!Tokens(s.cli, c) - 1 /\ l.check = now
  <2>1. /\ s.cli[c] \in TbfClients /\ T!Tokens(s.cli, c) - 1 \in 0..Depth /\ now \in 0..now
    BY <1>2, <1>5
  <2>2. QED
    BY <1>4, <2>1 DEF TbfClients
<1> HIDE DEF t, l
<1>7. /\ t.out = s.out \cup {r} /\ t.pool = T!TakeThreads(s.pool, 1)
      /\ t.hist = [s.hist EXCEPT ![c] = Append(@, now)]
      /\ t.cli = [s.cli EXCEPT ![c] = l]
      /\ t.throttling = s.throttling /\ t.timer = s.timer /\ t.deadline = s.deadline
      /\ t = [pool |-> t.pool, cli |-> t.cli, throttling |-> t.throttling,
              timer |-> t.timer, deadline |-> t.deadline, hist |-> t.hist,
              out |-> t.out]
  <2>1. PICK u : u = [s EXCEPT !.out = s.out \cup {r}, !.pool = T!TakeThreads(s.pool, 1)]
    OBVIOUS
  <2>2. u = [pool |-> T!TakeThreads(s.pool, 1), cli |-> s.cli,
             throttling |-> s.throttling, timer |-> s.timer,
             deadline |-> s.deadline, hist |-> s.hist, out |-> s.out \cup {r}]
    BY <1>2, <2>1 DEF TbfStates
  <2>3. PICK v : v = [u EXCEPT !.hist[c] = Append(@, now)]
    OBVIOUS
  <2>4. v = [pool |-> T!TakeThreads(s.pool, 1), cli |-> s.cli,
             throttling |-> s.throttling, timer |-> s.timer,
             deadline |-> s.deadline,
             hist |-> [s.hist EXCEPT ![c] = Append(@, now)],
             out |-> s.out \cup {r}]
    BY <2>2, <2>3
  <2>5. t = [v EXCEPT !.cli[c] = l]
    BY <1>1, <2>1, <2>3
  <2>6. QED
    BY <2>4, <2>5
<1>8. s.cli[c].known
  BY <1>2, <1>3 DEF SoundBucket, TbfClients
<1>9. /\ Append(s.hist[c], now) \in Seq(0..now)
      /\ SoundBucket(c, l, Append(s.hist[c], now))
  <2>1. s.cli[c] \in TbfClients /\ s.hist[c] \in Seq(0..now)
    BY <1>2
  <2> HIDE DEF o, r
  <2>2. QED
    BY <1>2, <1>3, <1>5, <1>6, <1>8, <2>1, DispatchPaid DEF TbfPolicy
<1>10. OwnRequests(c, l, o \cup {r})
  BY <1>3, <1>4, <1>6 DEF OwnRequests
<1>11. ASSUME NEW d \in TbfClasses, d # c
       PROVE  SoundBucket(d, s.cli[d], s.hist[d]) /\ OwnRequests(d, s.cli[d], o \cup {r})
  <2>1. SoundBucket(d, s.cli[d], s.hist[d]) /\ OwnRequests(d, s.cli[d], o)
    BY <1>3 DEF SoundClasses
  <2>2. r \in {c} \X (1..TbfPerClass)
    BY <1>3, <1>4 DEF OwnRequests
  <2>3. r \notin Elements(s.cli[d].queue)
    BY <1>11, <2>1, <2>2 DEF OwnRequests
  <2>4. QED
    BY <2>1, <2>3 DEF OwnRequests
<1>12. busy \cup done \cup t.out = o \cup {r}
  BY <1>7
<1>13. SoundClasses(t.cli, t.hist, busy \cup done \cup t.out)
  <2>1. /\ t.cli \in [TbfClasses -> TbfClients] /\ t.hist \in [TbfClasses -> Seq(0..now)]
        /\ t.cli[c] = l /\ t.hist[c] = Append(s.hist[c], now)
        /\ \A d \in TbfClasses : d # c => t.cli[d] = s.cli[d] /\ t.hist[d] = s.hist[d]
    BY <1>2, <1>6, <1>7, <1>9
  <2>2. QED
    BY <1>9, <1>10, <1>11, <1>12, <2>1 DEF SoundClasses
<1>14. r \notin busy \cup s.out
  BY <1>3, <1>4 DEF OwnRequests
<1>15. Cardinality(busy \cup t.out) = Cardinality(busy \cup s.out) + 1
  <2>1. busy \cup t.out = (busy \cup s.out) \cup {r}
    BY <1>7
  <2>2. IsFiniteSet(busy \cup s.out)
    BY <1>2, TbfConstants DEF TbfPolicy
  <2>3. QED
    BY <1>14, <2>1, <2>2, FS_AddElement, ZenonT(30)
<1>16. /\ s.pool.idle \in Nat /\ s.pool.idle # 0 /\ s.pool.run = FALSE
       /\ s.pool.idle <= NumThreads /\ s.pool.idle + Cardinality(busy \cup s.out) = NumThreads
       /\ Cardinality(busy \cup s.out) \in Nat
  BY <1>2, TbfConstants DEF TbfGoodStates, Pools, TbfPolicy
<1>17. /\ t.pool \in Pools(NumThreads) /\ t.pool.run = FALSE
       /\ t.pool.idle = s.pool.idle - 1
       /\ t.pool.state = IF t.pool.idle = 0 THEN "FullLoad" ELSE "Run"
  <2>1. s.pool.state = "Run"
    OBVIOUS
  <2>2. t.pool = [state |-> IF s.pool.idle = 1 THEN "FullLoad" ELSE "Run",
                  run |-> FALSE, idle |-> s.pool.idle - 1]
    <3>1. t.pool = [state |-> IF 1 > 0 /\ 1 = s.pool.idle THEN "FullLoad"
                             ELSE s.pool.state,
                    run |-> s.pool.run, idle |-> s.pool.idle - 1]
      BY <1>7 DEF T!TakeThreads
    <3>2. (1 > 0 /\ 1 = s.pool.idle) <=> s.pool.idle = 1
      OBVIOUS
    <3>3. QED
      BY <1>16, <2>1, <3>1, <3>2
  <2>3. s.pool.idle - 1 \in 0..NumThreads
    BY <1>16, TbfConstants DEF TbfPolicy
  <2>4. QED
    BY <1>16, <2>2, <2>3 DEF Pools, PoolStates
<1>18. t.pool.idle + Cardinality(busy \cup t.out) = NumThreads
  BY <1>15, <1>16, <1>17
<1>19. TimerSet(t.cli, t.throttling, t.timer, t.deadline)
  BY <1>7 DEF TimerSet, TbfGoodStates
<1>20. t \in TbfStates
  BY <1>2, <1>4, <1>7, <1>13, <1>17 DEF TbfStates, SoundClasses
<1>21. QED
  BY <1>13, <1>17, <1>18, <1>19, <1>20 DEF TbfGoodStates, t

(* One recursion of PoolStateMachine.                                      *)
LEMMA TbfStepOK ==
  ASSUME TbfPolicy, NEW s \in TbfGoodStates
  PROVE  T!MachineStep(s) \in SUBSET TbfGoodStates
<1>1. CASE s.pool.state # "Run" \/ s.throttling \/ T!Roots(s.cli) = {}
  BY <1>1 DEF T!MachineStep
<1>2. CASE ~(s.pool.state # "Run" \/ s.throttling \/ T!Roots(s.cli) = {})
  <2>1. \A c \in T!Roots(s.cli) : T!Dequeue(s, c) \in TbfGoodStates
    BY <1>2, TbfDispatchOK, ThrottleOK
  <2>2. QED
    BY <1>2, <2>1 DEF T!MachineStep
<1>3. QED
  BY <1>1, <1>2

(* The states that the pool's event reaches, from a good one.              *)
LEMMA TbfReachOK ==
  ASSUME TbfPolicy, NEW s0 \in TbfGoodStates, NEW n \in Nat,
         NEW reach, reach = CHOOSE f : f = [k \in 0..n |->
                      IF k = 0 THEN {s0} ELSE UNION {T!MachineStep(s) : s \in f[k - 1]}]
  PROVE  reach[n] \in SUBSET TbfGoodStates
<1> DEFINE D == SUBSET TbfGoodStates
           next(S) == UNION {T!MachineStep(s) : s \in S}
           step == [k \in 1..n |-> [S \in D |-> next(S)]]
           G == {k \in 0..n : reach[k] \in D}
<1>1. \A S \in D : next(S) \in D
  BY TbfStepOK
<1> HIDE DEF next
<1>2. \E f : f = [k \in 0..n |-> IF k = 0 THEN {s0} ELSE next(f[k - 1])]
  <2>1. step \in [1..n -> [D -> D]] /\ {s0} \in D
    BY <1>1
  <2>2. PICK g \in [0..n -> D] : IsIteration(g, n, {s0}, step)
    <3> HIDE DEF step, D
    <3>1. QED
      BY <2>1, IterationExists
  <2>3. \A k \in 0..n : k # 0 => k \in 1..n /\ k - 1 \in 0..n
    OBVIOUS
  <2>4. \A k \in 0..n : k # 0 => step[k][g[k - 1]] = next(g[k - 1])
    BY <2>2, <2>3
  <2> HIDE DEF step
  <2>5. \A k \in 0..n : g[k] = IF k = 0 THEN {s0} ELSE step[k][g[k - 1]]
    BY <2>2 DEF IsIteration
  <2>6. \A k \in 0..n : g[k] = IF k = 0 THEN {s0} ELSE next(g[k - 1])
    BY <2>4, <2>5
  <2>7. g = [k \in 0..n |-> IF k = 0 THEN {s0} ELSE next(g[k - 1])]
    BY <2>2, <2>6
  <2>8. QED
    BY <2>7
<1>3. reach = [k \in 0..n |-> IF k = 0 THEN {s0} ELSE next(reach[k - 1])]
  BY <1>2 DEF next
<1>4. \A k \in 0..n : reach[k] = IF k = 0 THEN {s0} ELSE next(reach[k - 1])
  BY <1>3
<1> HIDE DEF D
<1>5. 0 \in G
  <2>1. reach[0] = {s0} /\ {s0} \in SUBSET TbfGoodStates
    BY <1>4, 0 \in 0..n
  <2>2. reach[0] \in SUBSET TbfGoodStates
    BY <2>1, Zenon
  <2>3. QED
    BY <2>2, 0 \in 0..n DEF D
<1>6. ASSUME NEW k \in 1..n, k - 1 \in G
      PROVE  k \in G
  <2>1. k \in 0..n /\ k # 0
    OBVIOUS
  <2>2. reach[k] = next(reach[k - 1])
    BY <1>4, <2>1
  <2>3. QED
    BY <1>1, <1>6, <2>1, <2>2
<1> HIDE DEF G
<1>7. n \in G
  BY <1>5, <1>6, UpTo, n \in 0..n
<1>8. QED
  BY <1>7 DEF G, D
-----------------------------------------------------------------------------
LEMMA TbfInitInv ==
  ASSUME T!NrsTbfAssumption, T!Init
  PROVE  TbfIInv
<1>1. NumThreads \in Nat \ {0} /\ Depth \in Nat
  BY TbfConstants
<1>2. pool = [state |-> "Idle", run |-> FALSE, idle |-> NumThreads]
  BY DEF T!Init, T!StartedPool
<1>3. /\ pool \in Pools(NumThreads) /\ ConsistentPool(pool) /\ pool.state # "Start"
      /\ pool.idle = NumThreads
  BY <1>1, <1>2 DEF Pools, PoolStates, ConsistentPool
<1>4. Cardinality(busy) = 0
  BY FS_EmptySet DEF T!Init
<1>5. SoundClasses(cli, hist, busy \cup done)
  <2>1. <<>> \in Seq(T!Requests) /\ <<>> \in Seq(0..now) /\ Elements(<<>>) = {}
        /\ Distinct(<<>>) /\ now = 0
    BY DEF T!Init, Elements, Distinct
  <2>2. cli \in [TbfClasses -> TbfClients] /\ hist \in [TbfClasses -> Seq(0..now)]
    BY <1>1, <2>1 DEF T!Init, TbfClients
  <2>3. ASSUME NEW c \in TbfClasses
        PROVE  SoundBucket(c, cli[c], hist[c]) /\ OwnRequests(c, cli[c], busy \cup done)
    BY <2>1 DEF T!Init, SoundBucket, WithinRate, Paid, OwnRequests
  <2>4. QED
    BY <2>2, <2>3 DEF SoundClasses
<1>6. TimerSet(cli, throttling, timer, deadline)
  BY DEF T!Init, TimerSet
<1>7. pool.idle + Cardinality(busy) = NumThreads
  BY <1>1, <1>3, <1>4
<1>8. /\ now \in Nat /\ deadline \in Nat
      /\ {throttling, timer, aborted} \subseteq BOOLEAN
      /\ busy \in SUBSET T!Requests /\ done \in SUBSET T!Requests
  BY DEF T!Init
<1>9. QED
  BY <1>3, <1>5, <1>6, <1>7, <1>8 DEF TbfIInv

(* A request of class c arrives.                                           *)
LEMMA TbfAddInv ==
  ASSUME T!NrsTbfAssumption, TbfIInv, NEW r \in T!Requests, T!AddNewTask(r)
  PROVE  TbfIInv'
<1> DEFINE c == r[1]
           k == T!FindClient(c)
           l == [k EXCEPT !.queue = Append(@, r)]
           d == k.check + NSecs[c]
           sooner == k.queue = <<>> /\ throttling /\ d >= now /\ deadline > d
<1>1. /\ now \in Nat /\ deadline \in Nat /\ {throttling, timer, aborted} \subseteq BOOLEAN
      /\ c \in TbfClasses /\ r \in {c} \X (1..TbfPerClass)
      /\ NSecs[c] \in Nat \ {0} /\ Depth \in Nat
      /\ cli \in [TbfClasses -> TbfClients] /\ hist \in [TbfClasses -> Seq(0..now)]
  BY TbfConstants DEF TbfIInv, T!Requests, SoundClasses
<1>2. /\ cli' = [cli EXCEPT ![c] = l] /\ hist' = hist /\ throttling' = throttling
      /\ aborted' = (sooner /\ d <= now)
      /\ deadline' = IF sooner THEN d ELSE deadline
      /\ timer' = (timer \/ sooner)
      /\ pool' = Wakeup(pool) /\ now' = now /\ busy' = busy /\ done' = done
      /\ r \notin T!Queued \cup busy \cup done
  BY TbfPool DEF T!AddNewTask, T!Enqueue
<1>3. /\ SoundBucket(c, cli[c], hist[c]) /\ OwnRequests(c, cli[c], busy \cup done)
      /\ TimerSet(cli, throttling, timer, deadline)
  BY <1>1 DEF TbfIInv, SoundClasses
<1>4. r \notin Elements(cli[c].queue)
  BY <1>1, <1>2 DEF T!Queued, T!Backlog, Elements
<1>5. /\ k \in TbfClients /\ k.known /\ k.queue = cli[c].queue
      /\ SoundBucket(c, k, hist[c])
  <2>1. CASE cli[c].known
    BY <1>1, <1>3, <2>1 DEF T!FindClient, TbfClients
  <2>2. CASE ~cli[c].known
    <3>1. /\ k = [known |-> TRUE, queue |-> <<>>, ntoken |-> Depth, check |-> now]
          /\ cli[c].queue = <<>> /\ hist[c] = <<>> /\ <<>> \in Seq(T!Requests)
      BY <1>3, <2>2 DEF T!FindClient, SoundBucket
    <3>2. QED
      BY <1>1, <3>1 DEF TbfClients, SoundBucket, WithinRate, Paid
  <2>3. QED
    BY <2>1, <2>2
<1> HIDE DEF k
<1>6. /\ Append(k.queue, r) \in Seq(T!Requests) /\ Distinct(Append(k.queue, r))
      /\ Elements(Append(k.queue, r)) = Elements(k.queue) \cup {r}
  <2>1. k.queue \in Seq(T!Requests) /\ Distinct(k.queue) /\ r \notin Elements(k.queue)
    BY <1>3, <1>4, <1>5 DEF TbfClients, OwnRequests
  <2>2. QED
    BY <2>1, AppendToDistinct
<1>7. /\ l \in TbfClients /\ l.queue = Append(k.queue, r)
      /\ l.known = k.known /\ l.ntoken = k.ntoken /\ l.check = k.check
  BY <1>5, <1>6 DEF TbfClients
<1> HIDE DEF l
<1>8. SoundBucket(c, l, hist[c])
  BY <1>5, <1>7 DEF SoundBucket, Paid
<1>9. OwnRequests(c, l, busy \cup done)
  BY <1>1, <1>2, <1>3, <1>5, <1>6, <1>7 DEF OwnRequests
<1>10. /\ cli' \in [TbfClasses -> TbfClients] /\ cli'[c] = l
       /\ \A e \in TbfClasses : e # c => cli'[e] = cli[e]
  BY <1>1, <1>2, <1>7
<1>11. SoundClasses(cli', hist', busy' \cup done')
  BY <1>1, <1>2, <1>8, <1>9, <1>10 DEF SoundClasses, TbfIInv
<1>12. SoundClasses(cli, hist, busy \cup done)'
  BY <1>2, <1>11
     DEF SoundClasses, SoundBucket, Paid, WithinRate, OwnRequests, TbfClients
<1>13. /\ pool' \in Pools(NumThreads) /\ ConsistentPool(pool') /\ pool'.state # "Start"
       /\ pool'.idle = pool.idle
  BY <1>2, WakeupOK, TbfConstants DEF TbfIInv
<1>14. d \in Nat /\ sooner \in BOOLEAN
  BY <1>1, <1>5 DEF TbfClients
<1>15. /\ deadline' \in Nat /\ timer' \in BOOLEAN /\ throttling' = timer'
       /\ throttling' => deadline' >= now
  BY <1>1, <1>2, <1>3, <1>14 DEF TimerSet
<1>16. ASSUME throttling', NEW e \in TbfClasses, cli'[e].queue # <<>>,
              cli'[e].check + NSecs[e] >= now
       PROVE  deadline' <= cli'[e].check + NSecs[e]
  <2>1. CASE e # c
    <3>1. deadline <= cli[e].check + NSecs[e]
      BY <1>2, <1>3, <1>10, <1>16, <2>1 DEF TimerSet, T!NextToken
    <3>2. cli[e].check + NSecs[e] \in Nat
      BY <1>1, TbfConstants, SMTT(60) DEF TbfClients
    <3>3. QED
      BY <1>1, <1>2, <1>10, <1>14, <2>1, <3>1, <3>2
  <2>2. CASE e = c /\ k.queue # <<>>
    <3>1. cli[c].known
      BY <1>3, <1>5, <2>2 DEF SoundBucket
    <3>2. k = cli[c]
      BY <3>1 DEF k, T!FindClient
    <3>3. deadline <= d /\ ~sooner
      BY <1>2, <1>3, <1>7, <1>10, <1>16, <2>2, <3>2 DEF TimerSet, T!NextToken
    <3>4. QED
      BY <1>2, <1>7, <1>10, <2>2, <3>3
  <2>3. CASE e = c /\ k.queue = <<>>
    BY <1>1, <1>2, <1>7, <1>10, <1>14, <1>16, <2>3
  <2>4. QED
    BY <2>1, <2>2, <2>3
<1>17. TimerSet(cli, throttling, timer, deadline)'
  BY <1>2, <1>15, <1>16 DEF TimerSet, T!NextToken
<1>18. QED
  BY <1>1, <1>2, <1>12, <1>13, <1>14, <1>15, <1>17 DEF TbfIInv

(* The pool's event: whatever it has reached when it stops, the policy is  *)
(* as it should be, and the pool is idle or fully loaded.                  *)
LEMMA TbfRunPoolInv ==
  ASSUME T!NrsTbfAssumption, TbfIInv, T!RunPool
  PROVE  TbfIInv'
<1> DEFINE s0 == [pool |-> [pool EXCEPT !.run = FALSE], cli |-> cli,
                  throttling |-> throttling, timer |-> timer,
                  deadline |-> deadline, hist |-> hist, out |-> {}]
           reach[n \in 0..(NumThreads + 1)] ==
             IF n = 0 THEN {s0} ELSE UNION {T!MachineStep(s) : s \in reach[n - 1]}
<1>1. TbfPolicy /\ NumThreads + 1 \in Nat
  BY TbfConstants DEF TbfIInv, TbfPolicy
<1>2. s0 \in TbfGoodStates
  <2>1. /\ pool \in Pools(NumThreads) /\ pool.state = "Run" /\ pool.idle # 0
    BY DEF T!RunPool, TbfIInv, ConsistentPool
  <2>2. /\ s0.pool \in Pools(NumThreads) /\ s0.pool.run = FALSE
        /\ s0.pool.state = "Run" /\ s0.pool.idle = pool.idle
    BY <2>1 DEF Pools
  <2>3. /\ s0.cli = cli /\ s0.hist = hist /\ s0.out = {} /\ s0.throttling = throttling
        /\ s0.timer = timer /\ s0.deadline = deadline
    OBVIOUS
  <2>4. s0 \in TbfStates
    BY <2>2 DEF TbfStates, TbfIInv, SoundClasses
  <2> HIDE DEF s0
  <2>5. busy \cup s0.out = busy /\ busy \cup done \cup s0.out = busy \cup done
    BY <2>3
  <2>6. QED
    BY <2>1, <2>2, <2>3, <2>4, <2>5 DEF TbfGoodStates, TbfIInv
<1>3. reach[NumThreads + 1] \in SUBSET TbfGoodStates
  <2> HIDE DEF s0
  <2>1. QED
    BY <1>1, <1>2, TbfReachOK
<1>4. PICK s \in reach[NumThreads + 1] :
           /\ pool' = IF s.pool.state = "FullLoad" THEN s.pool
                      ELSE [s.pool EXCEPT !.state = "Idle"]
           /\ cli' = s.cli
           /\ throttling' = s.throttling
           /\ timer' = s.timer
           /\ deadline' = s.deadline
           /\ hist' = s.hist
           /\ busy' = busy \cup s.out
  BY DEF T!RunPool
<1>5. now' = now /\ done' = done /\ aborted' = aborted
  BY DEF T!RunPool
<1> HIDE DEF s0, reach
<1>6. s \in TbfGoodStates /\ s \in TbfStates
  BY <1>3, <1>4 DEF TbfGoodStates
<1>7. /\ s.pool \in Pools(NumThreads) /\ s.pool.run = FALSE
      /\ s.pool.state = IF s.pool.idle = 0 THEN "FullLoad" ELSE "Run"
      /\ s.pool.idle + Cardinality(busy \cup s.out) = NumThreads
      /\ SoundClasses(s.cli, s.hist, busy \cup done \cup s.out)
      /\ TimerSet(s.cli, s.throttling, s.timer, s.deadline)
      /\ s.throttling \in BOOLEAN /\ s.timer \in BOOLEAN /\ s.deadline \in Nat
      /\ s.out \in SUBSET T!Requests
  BY <1>6 DEF TbfGoodStates, TbfStates
<1>8. /\ pool' \in Pools(NumThreads) /\ ConsistentPool(pool') /\ pool'.state # "Start"
      /\ pool'.idle = s.pool.idle
  <2>1. CASE s.pool.idle = 0
    BY <1>4, <1>7, <2>1 DEF ConsistentPool
  <2>2. CASE s.pool.idle # 0
    BY <1>4, <1>7, <2>2 DEF ConsistentPool, Pools, PoolStates
  <2>3. QED
    BY <2>1, <2>2
<1>9. busy' \cup done' = busy \cup done \cup s.out
  BY <1>4, <1>5
<1>10. SoundClasses(cli, hist, busy \cup done)'
  <2>1. SoundClasses(cli', hist', busy' \cup done')
    BY <1>4, <1>7, <1>9
  <2>2. QED
    BY <1>5, <2>1
       DEF SoundClasses, SoundBucket, Paid, WithinRate, OwnRequests, TbfClients
<1>11. TimerSet(cli, throttling, timer, deadline)'
  BY <1>4, <1>5, <1>7 DEF TimerSet, T!NextToken
<1>12. /\ now' \in Nat /\ deadline' \in Nat /\ aborted' \in BOOLEAN
       /\ throttling' \in BOOLEAN /\ timer' \in BOOLEAN
       /\ busy' \in SUBSET T!Requests /\ done' \in SUBSET T!Requests
       /\ pool'.idle + Cardinality(busy') = NumThreads
  BY <1>4, <1>5, <1>7, <1>8 DEF TbfIInv
<1>13. QED
  BY <1>8, <1>10, <1>11, <1>12 DEF TbfIInv

LEMMA TbfTimerInv ==
  ASSUME T!NrsTbfAssumption, TbfIInv, T!TimerCallback
  PROVE  TbfIInv'
<1>1. /\ timer' = FALSE /\ throttling' = FALSE /\ pool' = Wakeup(pool)
      /\ UNCHANGED <<now, cli, deadline, hist, busy, done, aborted>>
  BY TbfPool DEF T!TimerCallback
<1>2. /\ pool' \in Pools(NumThreads) /\ ConsistentPool(pool') /\ pool'.state # "Start"
      /\ pool'.idle = pool.idle
  BY <1>1, WakeupOK, TbfConstants DEF TbfIInv
<1>3. SoundClasses(cli, hist, busy \cup done)'
  BY <1>1
     DEF TbfIInv, SoundClasses, SoundBucket, Paid, WithinRate, OwnRequests, TbfClients
<1>4. TimerSet(cli, throttling, timer, deadline)'
  BY <1>1 DEF TimerSet
<1>5. QED
  BY <1>1, <1>2, <1>3, <1>4 DEF TbfIInv

(* A thread completes its request: the request stays accounted for.        *)
LEMMA TbfCompletionInv ==
  ASSUME T!NrsTbfAssumption, TbfIInv, NEW r \in T!Requests, T!TaskCompletion(r)
  PROVE  TbfIInv'
<1>1. /\ r \in busy /\ pool' = SignalIfLoaded(AddThread(pool))
      /\ busy' = busy \ {r} /\ done' = done \cup {r}
      /\ UNCHANGED <<now, cli, throttling, timer, deadline, hist, aborted>>
  BY TbfPool DEF T!TaskCompletion, T!tbfVars
<1>2. IsFiniteSet(busy) /\ Cardinality(busy) \in Nat /\ Cardinality(busy) # 0
      /\ Cardinality(busy') = Cardinality(busy) - 1
  <2>1. IsFiniteSet(busy) /\ Cardinality(busy) \in Nat
    BY TbfConstants DEF TbfIInv
  <2>2. QED
    BY <1>1, <2>1, FS_RemoveElement, FS_EmptySet
<1>3. pool.idle \in Nat /\ pool.idle < NumThreads /\ NumThreads \in Nat
  BY <1>2, TbfConstants DEF TbfIInv, Pools
<1>4. /\ pool' \in Pools(NumThreads) /\ ConsistentPool(pool') /\ pool'.state # "Start"
      /\ pool'.idle = pool.idle + 1
  BY <1>1, <1>3, ReturnThreadOK DEF TbfIInv
<1>5. pool'.idle + Cardinality(busy') = NumThreads
  BY <1>2, <1>3, <1>4 DEF TbfIInv
<1>6. busy' \cup done' = busy \cup done
  BY <1>1
<1>7. SoundClasses(cli, hist, busy \cup done)'
  BY <1>1, <1>6
     DEF TbfIInv, SoundClasses, SoundBucket, Paid, WithinRate, OwnRequests, TbfClients
<1>8. TimerSet(cli, throttling, timer, deadline)'
  BY <1>1 DEF TbfIInv, TimerSet, T!NextToken
<1>9. QED
  BY <1>1, <1>4, <1>5, <1>7, <1>8 DEF TbfIInv

(* Time never passes a timer that is due.                                  *)
LEMMA TbfTickInv ==
  ASSUME T!NrsTbfAssumption, TbfIInv, T!Tick
  PROVE  TbfIInv'
<1>1. /\ IF timer THEN now < deadline ELSE now < TbfLastArrival
      /\ now' = now + 1 /\ now \in Nat /\ deadline \in Nat /\ throttling = timer
      /\ UNCHANGED <<pool, cli, throttling, timer, deadline, hist, busy, done, aborted>>
  BY DEF T!Tick, T!tbfVars, TbfIInv, TimerSet
<1>2. SoundClasses(cli, hist, busy \cup done)'
  <2>1. 0..now \subseteq 0..now'
    BY <1>1
  <2>2. cli' \in [TbfClasses -> TbfClients']
    BY <1>1, <2>1 DEF TbfIInv, SoundClasses, TbfClients
  <2>3. hist' \in [TbfClasses -> Seq(0..now')]
    <3>1. \A c \in TbfClasses : hist[c] \in Seq(0..now')
      BY <2>1, SeqMonotonic DEF TbfIInv, SoundClasses
    <3>2. QED
      BY <1>1, <3>1 DEF TbfIInv, SoundClasses
  <2>4. QED
    BY <1>1, <2>2, <2>3
       DEF TbfIInv, SoundClasses, SoundBucket, Paid, WithinRate, OwnRequests
<1>3. TimerSet(cli, throttling, timer, deadline)'
  <2>1. \A c \in TbfClasses : T!NextToken(cli, c) \in Nat
    BY TbfConstants DEF T!NextToken, TbfIInv, SoundClasses, TbfClients
  <2>2. \A c \in TbfClasses : T!NextToken(cli, c)' = T!NextToken(cli, c)
    BY <1>1 DEF T!NextToken
  <2>3. throttling => deadline >= now + 1
    BY <1>1
  <2>4. ASSUME throttling, NEW c \in TbfClasses, cli[c].queue # <<>>, T!NextToken(cli, c) >= now + 1
        PROVE  deadline <= T!NextToken(cli, c)
    <3>1. T!NextToken(cli, c) >= now
      BY <1>1, <2>1, <2>4
    <3>2. QED
      BY <2>4, <3>1 DEF TbfIInv, TimerSet
  <2>5. QED
    BY <1>1, <2>2, <2>3, <2>4 DEF TimerSet
<1>4. QED
  BY <1>1, <1>2, <1>3 DEF TbfIInv

LEMMA TbfNextInv ==
  ASSUME T!NrsTbfAssumption, TbfIInv, [T!Next]_(T!vars)
  PROVE  TbfIInv'
<1>1. ASSUME NEW r \in T!Requests, T!AddNewTask(r)
      PROVE  TbfIInv'
  BY <1>1, TbfAddInv
<1>2. ASSUME NEW r \in T!Requests, T!TaskCompletion(r)
      PROVE  TbfIInv'
  BY <1>2, TbfCompletionInv
<1>3. CASE T!RunPool
  BY <1>3, TbfRunPoolInv
<1>4. CASE T!TimerCallback
  BY <1>4, TbfTimerInv
<1>5. CASE T!Tick
  BY <1>5, TbfTickInv
<1>6. CASE UNCHANGED T!vars
  <2>1. SoundClasses(cli, hist, busy \cup done)'
    BY <1>6 DEF T!vars, T!tbfVars, TbfIInv, SoundClasses, SoundBucket, Paid,
                WithinRate, OwnRequests, TbfClients
  <2>2. TimerSet(cli, throttling, timer, deadline)'
    BY <1>6 DEF T!vars, T!tbfVars, TbfIInv, TimerSet, T!NextToken
  <2>3. QED
    BY <1>6, <2>1, <2>2 DEF T!vars, T!tbfVars, TbfIInv
<1>7. QED
  BY <1>1, <1>2, <1>3, <1>4, <1>5, <1>6 DEF T!Next

(* The inductive invariant gives the properties of the scheduler.          *)
LEMMA TbfInvImplies ==
  ASSUME TbfIInv
  PROVE  T!TypeOK /\ T!AssertionsHold /\ T!WakesForNextToken /\ T!RateRespected
<1>1. T!TypeOK
  BY TbfPool DEF TbfIInv, SoundClasses, TbfClients, T!TypeOK
<1>2. T!AssertionsHold
  BY
     DEF TbfIInv, ConsistentPool, Pools, T!AssertionsHold, T!MayWakeup, T!MayDispatch,
         T!MaySignal
<1>3. T!WakesForNextToken
  BY DEF TbfIInv, TimerSet, T!WakesForNextToken
<1>4. T!RateRespected
  BY DEF TbfIInv, SoundClasses, SoundBucket, WithinRate, T!RateRespected
<1>5. QED
  BY <1>1, <1>2, <1>3, <1>4

TbfInv == algo = "tbf" => TbfIInv

THEOREM TbfInvariance == Spec => []TbfInv
<1>1. T!NrsTbfAssumption
  BY SchedulersAssumption DEF SchedulersAssumption
<1>2. Init => TbfInv
  BY <1>1, TbfInitInv DEF Init, TbfInv
<1>3. TbfInv /\ [Next]_vars => TbfInv'
  <2> SUFFICES ASSUME TbfInv, [Next]_vars, algo' = "tbf"
               PROVE  TbfIInv'
    BY DEF TbfInv
  <2>1. algo = "tbf"
    BY DEF Next, Tbf, TbfRule, Frr, Epoch, Prio, vars
  <2>2. [T!Next]_(T!vars)
    <3>1. CASE Next
      BY <2>1, <3>1 DEF Next, Tbf, TbfRule, Frr, Epoch, Prio
    <3>2. CASE UNCHANGED vars
      BY <3>2 DEF vars, poolVars, timerVars, tbfVars, T!vars, T!tbfVars
    <3>3. QED
      BY <3>1, <3>2
  <2>3. QED
    BY <1>1, <2>1, <2>2, TbfNextInv DEF TbfInv
<1>4. QED
  BY <1>2, <1>3, PTL DEF Spec

(* A throttled policy never sleeps past the next token of a backlogged     *)
(* class, and the assertions of the pool hold (nrstbf.cpp:843-987).        *)
THEOREM TbfWakeup == Spec => []WakesForNextToken
<1>1. TbfInv => WakesForNextToken
  BY TbfInvImplies DEF TbfInv, WakesForNextToken
<1>2. QED
  BY <1>1, TbfInvariance, PTL

(* No class is served faster than its rule allows (nrstbf.cpp:948-983).    *)
THEOREM TbfRates == Spec => []RateRespected
<1>1. TbfInv => RateRespected
  BY TbfInvImplies DEF TbfInv, RateRespected
<1>2. QED
  BY <1>1, TbfInvariance, PTL
-----------------------------------------------------------------------------
RateInv == algo = "rate" => R!TypeOK /\ R!StaleOnlyAtStart

(* Dependent rules.  The rate in force and its token time, for a new       *)
(* speedup s: a change of the rate sets the token time, and no speedup or  *)
(* a speedup of 1 does not overflow.                                       *)
LEMMA SetRateOK ==
  ASSUME RateInv, algo = "rate", NEW s \in Nat, speedup' = s, R!SetRate
  PROVE  /\ rpc_rate' \in 0..(R!W - 1) /\ rpc_rate' <= Upper
         /\ nsecs' \in Nat /\ aborted' \in BOOLEAN
         /\ rpc_rate' # rpc_rate /\ ~aborted' => nsecs' = Sec \div rpc_rate'
         /\ rpc_rate' = rpc_rate => nsecs' = nsecs
         /\ s = 0 => rpc_rate' = Lower
         /\ s = 1 => rpc_rate' = Lower + 1
<1>1. /\ Lower \in Nat \ {0} /\ Upper \in Nat /\ Sec \in Nat
      /\ R!W \in Nat \ {0} /\ Lower < Upper /\ Upper < R!W
  BY SchedulersAssumption DEF SchedulersAssumption, R!TbfRateAssumption
<1>2. PICK r, m : m = (s + Lower) % R!W /\ r = R!Smaller(Upper, m)
  OBVIOUS
<1>3. m \in 0..(R!W - 1)
  BY <1>1, <1>2, ModBounds, s + Lower \in Nat
<1>4. r = IF Upper < m THEN Upper ELSE m
  BY <1>2 DEF R!Smaller
<1>5. r \in Nat /\ r <= Upper
  BY <1>1, <1>3, <1>4
<1>6. /\ rpc_rate' = r /\ aborted' = (r = 0)
      /\ nsecs' = IF r = rpc_rate \/ r = 0 THEN nsecs ELSE Sec \div r
  BY <1>2 DEF R!SetRate
<1>7. nsecs' \in Nat
  <2>1. nsecs \in Nat
    BY DEF RateInv, R!TypeOK
  <2>2. r # 0 => Sec \div r \in Nat
    BY <1>1, <1>5, DivBounds
  <2>3. QED
    BY <1>6, <2>1, <2>2
<1>8. ASSUME NEW k \in 0..1, s = k
      PROVE  r = Lower + k
  <2>1. s + Lower = Lower + k /\ Lower + k <= Upper /\ Lower + k \in 0..(R!W - 1)
    BY <1>1, <1>8
  <2>2. m = Lower + k
    BY <1>1, <1>2, <2>1, ModWraps
  <2>3. QED
    BY <1>1, <1>4, <2>1, <2>2
<1>9. (s = 0 => r = Lower) /\ (s = 1 => r = Lower + 1)
  BY <1>1, <1>8
<1>10. rpc_rate' \in 0..(R!W - 1) /\ rpc_rate' <= Upper /\ aborted' \in BOOLEAN
  BY <1>1, <1>5, <1>6
<1>11. /\ rpc_rate' # rpc_rate /\ ~aborted' => nsecs' = Sec \div rpc_rate'
       /\ rpc_rate' = rpc_rate => nsecs' = nsecs
  BY <1>6
<1>12. QED
  BY <1>6, <1>7, <1>9, <1>10, <1>11

(* An update of a dependent rule keeps the invariant, and the token time   *)
(* of a rule in step: a rule not yet raised gets a speedup of 1, and with  *)
(* it another rate, or stays as it was configured.                         *)
LEMMA UpdateInStep ==
  ASSUME RateInv, algo = "rate", ~aborted, R!SetRate,
         NEW s \in 0..(R!W - 1), NEW l \in 0..(R!W - 1),
         speedup' = s, last_round' = l,
         R!NotYetRaised => \/ s = 1
                           \/ s = 0 /\ l = 0
  PROVE  (R!TypeOK /\ R!StaleOnlyAtStart)' /\ R!StaysInStep
<1>1. Lower \in Nat \ {0} /\ R!W \in Nat
  BY SchedulersAssumption DEF SchedulersAssumption, R!TbfRateAssumption
<1>2. s \in Nat
  BY <1>1
<1>3. /\ rpc_rate' \in 0..(R!W - 1) /\ rpc_rate' <= Upper
      /\ nsecs' \in Nat /\ aborted' \in BOOLEAN
      /\ rpc_rate' # rpc_rate /\ ~aborted' => nsecs' = Sec \div rpc_rate'
      /\ rpc_rate' = rpc_rate => nsecs' = nsecs
      /\ s = 0 => rpc_rate' = Lower
      /\ s = 1 => rpc_rate' = Lower + 1
  BY <1>2, SetRateOK
<1>4. R!TypeOK'
  BY <1>3 DEF R!TypeOK
<1>5. R!StaysInStep
  BY <1>3 DEF R!StaysInStep, R!TokenTimeMatchesRate
<1>6. CASE R!TokenTimeMatchesRate
  BY <1>3, <1>4, <1>5, <1>6 DEF R!StaleOnlyAtStart, R!StaysInStep
<1>7. CASE ~R!TokenTimeMatchesRate
  <2>1. R!NotYetRaised
    BY <1>7 DEF RateInv, R!StaleOnlyAtStart
  <2>2. rpc_rate = Lower /\ nsecs = Sec \div Rate
    BY <2>1 DEF R!NotYetRaised
  <2>3. CASE s = 1
    <3>1. rpc_rate' # rpc_rate
      BY <1>1, <1>3, <2>2, <2>3
    <3>2. R!TokenTimeMatchesRate'
      BY <1>3, <3>1 DEF R!TokenTimeMatchesRate
    <3>3. QED
      BY <1>3, <1>4, <1>5, <3>2 DEF R!StaleOnlyAtStart
  <2>4. CASE s = 0 /\ l = 0
    <3>1. rpc_rate' = Lower /\ nsecs' = Sec \div Rate
      BY <1>3, <2>2, <2>4
    <3>2. R!NotYetRaised'
      BY <2>4, <3>1 DEF R!NotYetRaised
    <3>3. QED
      BY <1>3, <1>4, <1>5, <3>2 DEF R!StaleOnlyAtStart
  <2>5. QED
    BY <2>1, <2>3, <2>4
<1>8. QED
  BY <1>6, <1>7

(* Whatever rate is configured for a dependent rule, its token time is     *)
(* that of the rate in force from the first raise on, and a rule in step   *)
(* stays in step (nrstbf.cpp:823-840, 1028-1059).                          *)
THEOREM RateFollowed == Spec => TokenTimeFollowsRate
<1>1. /\ Lower \in Nat \ {0} /\ Upper \in Nat /\ Sec \in Nat
      /\ Rate \in Nat \ {0}
      /\ R!W \in Nat \ {0} /\ Lower < Upper /\ 2 * Upper < R!W
  BY SchedulersAssumption DEF SchedulersAssumption, R!TbfRateAssumption
<1>2. Init => RateInv
  <2> SUFFICES ASSUME R!Init
               PROVE  R!TypeOK /\ R!StaleOnlyAtStart
    BY DEF Init, RateInv
  <2>1. Sec \div Rate \in Nat
    BY <1>1, DivBounds
  <2>2. /\ speedup = 0 /\ last_round = 0 /\ rpc_rate = Lower
        /\ nsecs = Sec \div Rate /\ aborted = FALSE
    BY DEF R!Init
  <2>3. 0 \in 0..(R!W - 1) /\ Lower \in 0..(R!W - 1) /\ Lower <= Upper
    BY <1>1
  <2>4. R!TypeOK
    BY <2>1, <2>2, <2>3 DEF R!TypeOK
  <2>5. R!StaleOnlyAtStart
    BY <2>2, <2>3 DEF R!StaleOnlyAtStart, R!NotYetRaised
  <2>6. QED
    BY <2>4, <2>5
<1>3. RateInv /\ [Next]_vars => RateInv' /\ (algo = "rate" => R!StaysInStep)
  <2> SUFFICES ASSUME RateInv, [Next]_vars, algo = "rate"
               PROVE  (R!TypeOK /\ R!StaleOnlyAtStart)' /\ R!StaysInStep
    BY DEF RateInv, Next, Tbf, TbfRule, Frr, Epoch, Prio, vars
  <2>1. /\ speedup \in 0..(R!W - 1) /\ last_round \in 0..(R!W - 1)
        /\ rpc_rate \in 0..(R!W - 1) /\ nsecs \in Nat /\ aborted \in BOOLEAN
    BY DEF RateInv, R!TypeOK
  <2>2. CASE R!Increase
    <3>1. PICK l, s : l = last_round' /\ s = speedup'
      OBVIOUS
    <3>2. /\ ~aborted /\ R!SetRate /\ s = (speedup + l) % R!W
          /\ l = IF last_round = 0 THEN 1
                 ELSE R!Smaller((2 * last_round) % R!W,
                                (R!W + Upper - Lower - speedup) % R!W)
      BY <2>2, <3>1 DEF R!Increase
    <3>3. l \in 0..(R!W - 1)
      <4>1. 2 * last_round \in Nat /\ R!W + Upper - Lower - speedup \in Nat
        BY <1>1, <2>1
      <4>2. /\ (2 * last_round) % R!W \in 0..(R!W - 1)
            /\ (R!W + Upper - Lower - speedup) % R!W \in 0..(R!W - 1)
        BY <1>1, <4>1, ModBounds
      <4>3. 1 \in 0..(R!W - 1)
        BY <1>1
      <4>4. QED
        BY <3>2, <4>2, <4>3 DEF R!Smaller
    <3>4. s \in 0..(R!W - 1)
      <4>1. PICK x : x = speedup + l
        OBVIOUS
      <4>2. x \in Nat
        BY <1>1, <2>1, <3>3, <4>1
      <4>3. x % R!W \in 0..(R!W - 1)
        BY <1>1, <4>2, ModBounds
      <4>4. QED
        BY <3>2, <4>1, <4>3
    <3>5. R!NotYetRaised => s = 1
      <4>1. SUFFICES ASSUME R!NotYetRaised
                     PROVE  s = 1
        OBVIOUS
      <4>2. l = 1 /\ speedup + l = 1
        BY <3>2, <4>1 DEF R!NotYetRaised
      <4>3. 1 \in 0..(R!W - 1)
        BY <1>1
      <4>4. QED
        BY <1>1, <3>2, <4>2, <4>3, ModWraps
    <3>6. QED
      BY <3>1, <3>2, <3>3, <3>4, <3>5, UpdateInStep
  <2>3. CASE R!Decrease
    <3>1. PICK s : s = speedup'
      OBVIOUS
    <3>2. /\ ~aborted /\ R!SetRate /\ last_round <= speedup /\ last_round' = 0
          /\ s = IF last_round = 0 THEN speedup \div 2 ELSE speedup - last_round
      BY <2>3, <3>1 DEF R!Decrease
    <3>3. s \in 0..(R!W - 1) /\ 0 \in 0..(R!W - 1)
      BY <1>1, <2>1, <3>2
    <3>4. R!NotYetRaised => s = 0
      BY <3>2 DEF R!NotYetRaised
    <3>5. QED
      BY <3>1, <3>2, <3>3, <3>4, UpdateInStep
  <2>4. CASE R!DecreaseAborts
    BY <2>1, <2>4
       DEF R!DecreaseAborts, R!TypeOK, R!StaleOnlyAtStart, R!StaysInStep,
           R!TokenTimeMatchesRate
  <2>5. CASE UNCHANGED vars
    BY <2>5
       DEF vars, rateVars, RateInv, R!TypeOK, R!StaleOnlyAtStart,
           R!StaysInStep, R!NotYetRaised, R!TokenTimeMatchesRate
  <2>6. QED
    BY <2>2, <2>3, <2>4, <2>5
       DEF Next, Tbf, TbfRule, Frr, Epoch, Prio, R!Next
<1>4. RateInv => (algo = "rate" => R!TypeOK /\ R!StaleOnlyAtStart)
  BY DEF RateInv
<1>5. QED
  BY <1>2, <1>3, <1>4, PTL DEF Spec, TokenTimeFollowsRate
-----------------------------------------------------------------------------
(* Epochs.                                                                 *)

\* The queues q hold requests of their classes, none twice, none of o.
EpochQueues(q, o) ==
  /\ q \in [E!Classes -> Seq(E!Requests)]
  /\ \A c \in E!Classes :
       /\ Distinct(q[c])
       /\ Elements(q[c]) \subseteq {c} \X (1..EpochPerClass)
       /\ Elements(q[c]) \cap o = {}

\* The slice of class c began at t; its end is timed (tm), for time d.
SliceTimed(c, t, tm, d) == tm => d = t + Quota[c] /\ now <= d

EpochSlice ==
  /\ now \in Nat /\ deadline \in Nat /\ cur \in E!Classes
  /\ start \in [E!Classes -> Nat] /\ {on, timer, calm} \subseteq BOOLEAN
  /\ on => timer \/ calm
  /\ SliceTimed(cur, start[cur], timer, deadline)

EpochIInv ==
  /\ EpochSlice
  /\ pool \in [state : PoolStates, run : BOOLEAN, idle : Nat]
  /\ EpochQueues(qvec, busy \cup done)
  /\ E!Queued # {} => timer \/ on

EpochInv == algo = "epoch" => EpochIInv

LEMMA EpochConstants ==
  /\ Num \in Nat \ {0} /\ E!Classes = 0..(Num - 1)
  /\ \A c \in E!Classes : Quota[c] \in Nat \ {0}
  /\ IsFiniteSet(E!Requests)
<1>1. Num \in Nat \ {0} /\ E!Classes = 0..(Num - 1) /\ EpochPerClass \in Nat
  BY SchedulersAssumption
     DEF SchedulersAssumption, E!NrsEpochAssumption, E!Classes
<1>2. \A c \in E!Classes : Quota[c] \in Nat \ {0}
  BY SchedulersAssumption
     DEF SchedulersAssumption, E!NrsEpochAssumption, E!Classes
<1>3. IsFiniteSet(E!Classes) /\ IsFiniteSet(1..EpochPerClass)
  BY <1>1, FS_Interval
<1>4. QED
  BY <1>1, <1>2, <1>3, FS_Product DEF E!Requests

(* The end of a slice begins that of the next class, which is timed if a   *)
(* request is waiting (nrsepoch.cpp:48-63).                                *)
LEMMA SwitchQueueOK ==
  ASSUME EpochSlice, NEW waiting \in BOOLEAN, E!SwitchQueue(waiting), now' = now
  PROVE  EpochSlice' /\ (waiting => timer')
<1>1. PICK c : c = (cur + 1) % Num
  OBVIOUS
<1>2. /\ cur' = c /\ start' = [start EXCEPT ![c] = now]
      /\ calm' = ~waiting /\ on' = (on \/ waiting) /\ timer' = waiting
      /\ deadline' = IF waiting THEN now + Quota[c] ELSE deadline
  BY <1>1 DEF E!SwitchQueue
<1>3. cur + 1 \in Nat /\ Num \in Nat \ {0} /\ E!Classes = 0..(Num - 1)
  BY EpochConstants DEF EpochSlice
<1>4. c \in E!Classes /\ Quota[c] \in Nat
  BY <1>1, <1>3, ModBounds, EpochConstants
<1>5. now \in Nat /\ deadline \in Nat /\ start \in [E!Classes -> Nat]
  BY DEF EpochSlice
<1>6. PICK st : st = [start EXCEPT ![c] = now]
  OBVIOUS
<1>7. st \in [E!Classes -> Nat] /\ st[c] = now
  BY <1>4, <1>5, <1>6
<1>8. start' = st /\ start'[cur'] = now
  BY <1>2, <1>6, <1>7
<1>9. deadline' \in Nat /\ (timer' => deadline' = now + Quota[c] /\ now <= now + Quota[c])
  BY <1>2, <1>4, <1>5
<1>10. SliceTimed(cur, start[cur], timer, deadline)'
  BY <1>2, <1>8, <1>9 DEF SliceTimed
<1>11. /\ {on, timer, calm}' \subseteq BOOLEAN /\ (on' => timer' \/ calm')
  BY <1>2 DEF EpochSlice
<1>12. QED
  BY <1>2, <1>4, <1>5, <1>7, <1>8, <1>9, <1>10, <1>11 DEF EpochSlice

(* The first request that waits begins to time the slices, unless they are *)
(* timed already (nrsepoch.cpp:38-46).                                     *)
LEMMA StartTimerOK ==
  ASSUME EpochSlice, E!StartTimer, now' = now
  PROVE  EpochSlice' /\ (timer' \/ on')
<1>1. CASE on /\ UNCHANGED <<E!sliceVars, aborted>>
  BY <1>1 DEF EpochSlice, SliceTimed, E!sliceVars
<1>2. CASE E!SwitchQueue(TRUE)
  BY <1>2, SwitchQueueOK
<1>3. CASE /\ now - start[cur] <= Quota[cur]
           /\ E!ModTimer(start[cur] + Quota[cur])
           /\ UNCHANGED <<cur, start, on, calm>>
  <2>1. PICK d : d = start[cur] + Quota[cur]
    OBVIOUS
  <2>2. start[cur] \in Nat /\ Quota[cur] \in Nat /\ now \in Nat
    BY EpochConstants DEF EpochSlice
  <2>3. d \in Nat /\ now <= d
    BY <1>3, <2>1, <2>2
  <2>4. timer' = TRUE /\ deadline' = d
    BY <1>3, <2>1 DEF E!ModTimer
  <2>5. QED
    BY <1>3, <2>1, <2>3, <2>4 DEF EpochSlice, SliceTimed
<1>4. QED
  BY <1>1, <1>2, <1>3 DEF E!StartTimer

(* The search finds the current class, or one that has requests.           *)
LEMMA ServedClassOK ==
  ASSUME cur \in E!Classes, NEW q \in [E!Classes -> Seq(E!Requests)],
         NEW d \in E!Classes, q[d] # <<>>
  PROVE  /\ E!ServedClass(q) \in E!Classes /\ q[E!ServedClass(q)] # <<>>
         /\ q[cur] # <<>> => E!ServedClass(q) = cur
<1> DEFINE N == 0..(Num - 1)
           turn(k) == (cur + k) % Num
           First(k) == /\ q[turn(k)] # <<>>
                       /\ \A j \in 0..(k - 1) : q[turn(j)] = <<>>
           B == {k \in N : q[turn(k)] # <<>>}
<1>1. Num \in Nat \ {0} /\ E!Classes = N /\ cur \in N /\ d \in N
  BY EpochConstants
<1>2. turn(0) = cur /\ \E k \in N : turn(k) = d
  BY <1>1, AllTurns, ZenonT(120)
<1>3. \A k \in N : turn(k) \in N
  <2> SUFFICES ASSUME NEW k \in N
               PROVE  turn(k) \in N
    OBVIOUS
  <2>1. cur + k \in Nat
    BY <1>1
  <2>2. QED
    BY <1>1, <2>1, ModBounds
<1>4. E!ServedClass(q) = turn(CHOOSE k \in N : First(k))
  BY <1>1 DEF E!ServedClass
<1> HIDE DEF turn
<1>5. B \in SUBSET Nat /\ B # {}
  <2>1. PICK k \in N : turn(k) = d
    BY <1>2
  <2>2. k \in B
    BY <2>1
  <2>3. N \subseteq Nat
    BY <1>1
  <2>4. QED
    BY <2>2, <2>3
<1>6. PICK b \in B : \A j \in B : b <= j
  BY <1>5, LeastNat
<1>7. First(b)
  <2>1. b \in N /\ q[turn(b)] # <<>>
    OBVIOUS
  <2>2. ASSUME NEW j \in 0..(b - 1)
        PROVE  q[turn(j)] = <<>>
    <3>1. j \in N /\ ~(b <= j)
      BY <1>1, <2>1
    <3>2. QED
      BY <1>6, <3>1
  <2>3. QED
    BY <2>1, <2>2
<1>8. PICK k \in N : First(k) /\ E!ServedClass(q) = turn(k)
  <2>1. b \in N
    BY <1>6
  <2>2. (CHOOSE k \in N : First(k)) \in N /\ First(CHOOSE k \in N : First(k))
    <3> HIDE DEF First, N, B
    <3>1. QED
      BY <1>7, <2>1
  <2>3. QED
    BY <1>4, <2>2
<1>9. ASSUME q[cur] # <<>>
      PROVE  k = 0
  <2>1. k # 0 => 0 \in 0..(k - 1)
    BY <1>1
  <2>2. QED
    BY <1>2, <1>8, <1>9, <2>1
<1>10. QED
  BY <1>1, <1>2, <1>3, <1>8, <1>9

\* What the pool's event may leave: of each class the first requests have
\* been handed out, and of another class than the current one only with all
\* those of the current one.
Handed(s, c) == {r \in s.out : r[1] = c}

EpochStates ==
  {s \in [qvec : [E!Classes -> Seq(E!Requests)], out : SUBSET E!Queued] :
     \A c \in E!Classes :
       /\ \E n \in 0..Len(qvec[c]) : /\ s.qvec[c] = Left(qvec[c], n)
                                     /\ Handed(s, c) = Prefix(qvec[c], n)
       /\ c # cur /\ Handed(s, c) # {} => s.qvec[cur] = <<>>}

LEMMA QueuedRequests ==
  ASSUME EpochQueues(qvec, busy \cup done)
  PROVE  /\ E!Queued = UNION {Elements(qvec[c]) : c \in E!Classes}
         /\ IsFiniteSet(E!Queued) /\ Cardinality(E!Queued) \in Nat
         /\ \A r \in E!Queued : /\ r[1] \in E!Classes /\ r \in Elements(qvec[r[1]])
                                /\ r \notin busy \cup done
<1>1. E!Queued = UNION {Elements(qvec[c]) : c \in E!Classes}
  BY DEF E!Queued, E!ToSet, Elements
<1>2. ASSUME NEW r \in E!Queued
      PROVE  /\ r[1] \in E!Classes /\ r \in Elements(qvec[r[1]]) /\ r \in E!Requests
             /\ r \notin busy \cup done
  <2>1. PICK c \in E!Classes : r \in Elements(qvec[c])
    BY <1>1
  <2>2. r \in {c} \X (1..EpochPerClass) /\ r \notin busy \cup done
    BY <2>1 DEF EpochQueues
  <2>3. QED
    BY <2>1, <2>2 DEF E!Requests
<1>3. IsFiniteSet(E!Queued) /\ Cardinality(E!Queued) \in Nat
  BY <1>2, EpochConstants, FS_Subset, FS_CardinalityType, E!Queued \subseteq E!Requests
<1>4. QED
  BY <1>1, <1>2, <1>3

(* While not all have been handed out, Dequeue hands out one more.         *)
LEMMA EpochDequeueOK ==
  ASSUME EpochQueues(qvec, busy \cup done), cur \in E!Classes,
         NEW s \in EpochStates, s.out # E!Queued
  PROVE  /\ E!Dequeue(s) \in EpochStates
         /\ Cardinality(E!Dequeue(s).out) = Cardinality(s.out) + 1
<1>1. /\ s.qvec \in [E!Classes -> Seq(E!Requests)] /\ s.out \in SUBSET E!Queued
      /\ \A c \in E!Classes :
           /\ \E n \in 0..Len(qvec[c]) : /\ s.qvec[c] = Left(qvec[c], n)
                                         /\ Handed(s, c) = Prefix(qvec[c], n)
           /\ c # cur /\ Handed(s, c) # {} => s.qvec[cur] = <<>>
  BY DEF EpochStates
<1>2. \A c \in E!Classes : qvec[c] \in Seq(E!Requests) /\ Distinct(qvec[c])
  BY DEF EpochQueues
<1>3. \E d \in E!Classes : s.qvec[d] # <<>>
  <2> SUFFICES ASSUME \A d \in E!Classes : s.qvec[d] = <<>>
               PROVE  E!Queued \subseteq s.out
    BY <1>1
  <2>1. ASSUME NEW c \in E!Classes
        PROVE  Elements(qvec[c]) \subseteq s.out
    <3>1. PICK n \in 0..Len(qvec[c]) : /\ Left(qvec[c], n) = <<>>
                                       /\ Handed(s, c) = Prefix(qvec[c], n)
      BY <1>1
    <3>2. Elements(Left(qvec[c], n)) = Elements(qvec[c]) \ Prefix(qvec[c], n)
      BY <1>2, PrefixOfInjective DEF Left
    <3>3. Elements(<<>>) = {}
      BY DEF Elements
    <3>4. QED
      BY <3>1, <3>2, <3>3 DEF Handed
  <2>2. QED
    BY <2>1, QueuedRequests
<1>4. PICK c : c = E!ServedClass(s.qvec)
  OBVIOUS
<1>5. /\ c \in E!Classes /\ s.qvec[c] # <<>>
      /\ s.qvec[cur] # <<>> => c = cur
  BY <1>1, <1>3, <1>4, ServedClassOK
<1>6. PICK n \in 0..Len(qvec[c]) : /\ s.qvec[c] = Left(qvec[c], n)
                                   /\ Handed(s, c) = Prefix(qvec[c], n)
  BY <1>1, <1>5
<1>7. PICK r : r = Head(s.qvec[c])
  OBVIOUS
<1>8. /\ n + 1 \in 0..Len(qvec[c]) /\ r = qvec[c][n + 1] /\ r \in E!Requests
      /\ Tail(s.qvec[c]) = Left(qvec[c], n + 1)
      /\ Prefix(qvec[c], n + 1) = Prefix(qvec[c], n) \cup {r}
      /\ r \notin Prefix(qvec[c], n)
  BY <1>2, <1>5, <1>6, <1>7, TakeNext
<1>9. /\ r \in Prefix(qvec[c], n + 1) /\ r \in Elements(qvec[c])
      /\ Left(qvec[c], n + 1) \in Seq(E!Requests)
  BY <1>2, <1>5, <1>8, PrefixOfInjective DEF Left
<1>10. r[1] = c /\ r \in E!Queued /\ r \notin s.out
  <2>1. r[1] = c
    BY <1>5, <1>9 DEF EpochQueues
  <2>2. QED
    BY <1>5, <1>6, <1>8, <1>9, <2>1, QueuedRequests DEF Handed
<1>11. PICK t : t = E!Dequeue(s)
  OBVIOUS
<1>12. /\ t = [qvec |-> t.qvec, out |-> t.out] /\ t.out = s.out \cup {r}
       /\ t.qvec = [s.qvec EXCEPT ![c] = Left(qvec[c], n + 1)]
  <2>1. t = [qvec |-> [s.qvec EXCEPT ![c] = Tail(s.qvec[c])], out |-> s.out \cup {r}]
    BY <1>4, <1>7, <1>11 DEF E!Dequeue
  <2>2. QED
    BY <1>8, <2>1
<1>13. /\ t.qvec \in [E!Classes -> Seq(E!Requests)] /\ t.out \in SUBSET E!Queued
       /\ t.qvec[c] = Left(qvec[c], n + 1)
       /\ \A d \in E!Classes : d # c => t.qvec[d] = s.qvec[d]
  BY <1>1, <1>5, <1>9, <1>10, <1>12
<1>14. /\ Handed(t, c) = Handed(s, c) \cup {r}
       /\ \A d \in E!Classes : d # c => Handed(t, d) = Handed(s, d)
  BY <1>10, <1>12 DEF Handed
<1>15. ASSUME NEW d \in E!Classes
       PROVE  /\ \E m \in 0..Len(qvec[d]) : /\ t.qvec[d] = Left(qvec[d], m)
                                            /\ Handed(t, d) = Prefix(qvec[d], m)
              /\ d # cur /\ Handed(t, d) # {} => t.qvec[cur] = <<>>
  <2>1. CASE d = c
    <3>1. \E m \in 0..Len(qvec[d]) : /\ t.qvec[d] = Left(qvec[d], m)
                                     /\ Handed(t, d) = Prefix(qvec[d], m)
      BY <1>6, <1>8, <1>13, <1>14, <2>1
    <3>2. QED
      BY <1>5, <1>13, <2>1, <3>1
  <2>2. CASE d # c
    <3>1. \E m \in 0..Len(qvec[d]) : /\ t.qvec[d] = Left(qvec[d], m)
                                     /\ Handed(t, d) = Prefix(qvec[d], m)
      BY <1>1, <1>13, <1>14, <2>2
    <3>2. d # cur /\ Handed(t, d) # {} => c # cur /\ s.qvec[cur] = <<>>
      BY <1>1, <1>5, <1>14, <2>2
    <3>3. QED
      BY <1>13, <3>1, <3>2
  <2>3. QED
    BY <2>1, <2>2
<1>16. t \in EpochStates
  <2>1. t \in [qvec : [E!Classes -> Seq(E!Requests)], out : SUBSET E!Queued]
    BY <1>12, <1>13
  <2>2. QED
    BY <1>15, <2>1 DEF EpochStates
<1>17. Cardinality(t.out) = Cardinality(s.out) + 1
  BY <1>1, <1>10, <1>12, QueuedRequests, FS_Subset, FS_AddElement, ZenonT(60)
<1>18. QED
  BY <1>11, <1>16, <1>17

(* The pool's event hands out requests as long as there are threads for    *)
(* them, one after the other.                                              *)
LEMMA EpochRunPoolOK ==
  ASSUME EpochIInv, E!RunPool
  PROVE  \E s \in EpochStates : qvec' = s.qvec /\ busy' = busy \cup s.out
<1> DEFINE n == E!Dispatchable(pool, E!Cardinality(E!Queued))
           a == [qvec |-> qvec, out |-> {}]
           G == [k \in 0..n |-> {s \in EpochStates : Cardinality(s.out) = k}]
           step == [k \in 1..n |-> [s \in EpochStates |->
                      IF E!Dequeue(s) \in EpochStates THEN E!Dequeue(s) ELSE s]]
           after[k \in 0..n] == IF k = 0 THEN a ELSE E!Dequeue(after[k - 1])
<1>1. E!Cardinality(E!Queued) = Cardinality(E!Queued)
  BY DEF E!Cardinality, Cardinality
<1>2. n \in 0..Cardinality(E!Queued) /\ Cardinality(E!Queued) \in Nat
  <2>1. Cardinality(E!Queued) \in Nat /\ pool.idle \in Nat
    BY QueuedRequests DEF EpochIInv
  <2>2. QED
    BY <1>1, <2>1 DEF E!Dispatchable
<1>3. qvec' = after[n].qvec /\ busy' = busy \cup after[n].out
  BY DEF E!RunPool
<1>4. cur \in E!Classes /\ EpochQueues(qvec, busy \cup done)
  BY DEF EpochIInv, EpochSlice
<1> HIDE DEF n
<1>5. a \in G[0]
  <2>1. ASSUME NEW c \in E!Classes
        PROVE  /\ 0 \in 0..Len(qvec[c]) /\ qvec[c] = Left(qvec[c], 0)
               /\ Prefix(qvec[c], 0) = {}
    <3>1. qvec[c] \in Seq(E!Requests)
      BY <1>4 DEF EpochQueues
    <3>2. Prefix(qvec[c], 0) = {}
      BY DEF Prefix
    <3>3. QED
      BY <3>1, <3>2, SubSeqFull DEF Left
  <2>2. Handed(a, 1) = {} /\ \A c \in E!Classes : Handed(a, c) = {}
    BY DEF Handed
  <2>3. a \in EpochStates
    BY <1>4, <2>1, <2>2 DEF EpochStates, EpochQueues
  <2>4. Cardinality({}) = 0
    BY FS_EmptySet
  <2>5. QED
    BY <1>2, <2>3, <2>4
<1>6. ASSUME NEW k \in 1..n, NEW s \in G[k - 1]
      PROVE  /\ E!Dequeue(s) \in G[k] /\ step[k][s] = E!Dequeue(s)
  <2>1. k - 1 \in 0..n /\ k \in 0..n /\ k - 1 < n
    BY <1>2
  <2>2. s \in EpochStates /\ Cardinality(s.out) = k - 1
    BY <2>1
  <2>3. s.out # E!Queued
    BY <1>2, <2>1, <2>2
  <2>4. E!Dequeue(s) \in EpochStates /\ Cardinality(E!Dequeue(s).out) = (k - 1) + 1
    BY <1>4, <2>2, <2>3, EpochDequeueOK
  <2>5. QED
    BY <2>1, <2>2, <2>4
<1>7. G \in [0..n -> SUBSET EpochStates] /\ step \in [1..n -> [EpochStates -> EpochStates]]
  OBVIOUS
<1> HIDE DEF a, G, step
<1>8. PICK f \in [0..n -> EpochStates] :
        IsIteration(f, n, a, step) /\ \A k \in 0..n : f[k] \in G[k]
  <2>1. n \in Nat /\ \A k \in 1..n : \A s \in G[k - 1] : step[k][s] \in G[k]
    BY <1>2, <1>6
  <2>2. QED
    BY <1>5, <1>7, <2>1, IterationStays
<1>9. f = [k \in 0..n |-> IF k = 0 THEN a ELSE E!Dequeue(f[k - 1])]
  <2>1. \A k \in 0..n : k # 0 => k \in 1..n /\ k - 1 \in 0..n
    BY <1>2
  <2>2. \A k \in 0..n : f[k] = IF k = 0 THEN a ELSE E!Dequeue(f[k - 1])
    BY <1>6, <1>8, <2>1 DEF IsIteration
  <2>3. QED
    BY <2>2
<1>10. after = [k \in 0..n |-> IF k = 0 THEN a ELSE E!Dequeue(after[k - 1])]
  BY <1>9
<1> HIDE DEF after
<1>11. after[n] \in EpochStates
  <2> DEFINE S == {k \in 0..n : after[k] \in G[k]}
  <2>1. 0 \in S
    BY <1>2, <1>5, <1>10
  <2>2. ASSUME NEW k \in 1..n, k - 1 \in S
        PROVE  k \in S
    <3>1. k \in 0..n /\ k # 0 /\ k - 1 \in 0..n
      BY <1>2
    <3>2. after[k] = E!Dequeue(after[k - 1])
      BY <1>10, <3>1
    <3>3. QED
      BY <1>6, <2>2, <3>1, <3>2
  <2> HIDE DEF S
  <2>3. 0..n \subseteq S
    BY <1>2, <2>1, <2>2, UpTo, SMTT(60)
  <2>4. QED
    BY <1>2, <2>3 DEF S, G
<1>12. QED
  BY <1>3, <1>11

(* What it leaves is in order, and the class whose slice it is went first. *)
LEMMA EpochStatesOK ==
  ASSUME EpochQueues(qvec, busy \cup done), cur \in E!Classes, NEW s \in EpochStates
  PROVE  /\ EpochQueues(s.qvec, busy \cup s.out \cup done)
         /\ UNION {Elements(s.qvec[c]) : c \in E!Classes} \subseteq E!Queued
         /\ \A c \in E!Classes :
              /\ Handed(s, c) = {r \in (busy \cup s.out) \ busy : r[1] = c}
              /\ Handed(s, c) = E!ToSet(SubSeq(qvec[c], 1, Cardinality(Handed(s, c))))
              /\ Handed(s, c) # {} /\ c # cur => Handed(s, cur) = E!ToSet(qvec[cur])
<1>1. /\ s.qvec \in [E!Classes -> Seq(E!Requests)] /\ s.out \in SUBSET E!Queued
      /\ \A c \in E!Classes :
           /\ \E n \in 0..Len(qvec[c]) : /\ s.qvec[c] = Left(qvec[c], n)
                                         /\ Handed(s, c) = Prefix(qvec[c], n)
           /\ c # cur /\ Handed(s, c) # {} => s.qvec[cur] = <<>>
  BY DEF EpochStates
<1>2. ASSUME NEW c \in E!Classes
      PROVE  /\ Distinct(s.qvec[c])
             /\ Elements(s.qvec[c]) = Elements(qvec[c]) \ Handed(s, c)
             /\ Handed(s, c) \subseteq Elements(qvec[c])
             /\ Handed(s, c) = E!ToSet(SubSeq(qvec[c], 1, Cardinality(Handed(s, c))))
  <2>1. qvec[c] \in Seq(E!Requests) /\ Distinct(qvec[c])
    BY DEF EpochQueues
  <2>2. PICK n \in 0..Len(qvec[c]) : /\ s.qvec[c] = Left(qvec[c], n)
                                     /\ Handed(s, c) = Prefix(qvec[c], n)
    BY <1>1
  <2>3. /\ Distinct(s.qvec[c]) /\ Elements(s.qvec[c]) = Elements(qvec[c]) \ Handed(s, c)
        /\ Handed(s, c) \subseteq Elements(qvec[c]) /\ Cardinality(Handed(s, c)) = n
    BY <2>1, <2>2, PrefixOfInjective DEF Left
  <2>4. PICK p : p = SubSeq(qvec[c], 1, n)
    OBVIOUS
  <2>5. p \in Seq(E!Requests) /\ Len(p) = n /\ \A i \in 1..n : p[i] = qvec[c][i]
    <3>1. \A i \in 1..n : qvec[c][i] \in E!Requests
      BY <2>1
    <3>2. QED
      BY <2>1, <2>4, <3>1, SubSeqProperties
  <2>6. E!ToSet(p) = Prefix(qvec[c], n)
    BY <2>5, LenProperties DEF E!ToSet, Prefix
  <2>7. QED
    BY <2>2, <2>3, <2>4, <2>6
<1>3. ASSUME NEW c \in E!Classes
      PROVE  Elements(s.qvec[c]) \cap (busy \cup s.out \cup done) = {}
  <2>1. Elements(qvec[c]) \subseteq {c} \X (1..EpochPerClass)
    BY DEF EpochQueues
  <2>2. \A r \in Elements(s.qvec[c]) : r[1] = c /\ r \notin Handed(s, c)
                                       /\ r \in Elements(qvec[c])
    BY <1>2, <2>1
  <2>3. \A r \in Elements(qvec[c]) : r \notin busy \cup done
    BY DEF EpochQueues
  <2>4. QED
    BY <2>2, <2>3 DEF Handed
<1>4. EpochQueues(s.qvec, busy \cup s.out \cup done)
  <2>1. \A c \in E!Classes : Elements(s.qvec[c]) \subseteq {c} \X (1..EpochPerClass)
    BY <1>2 DEF EpochQueues
  <2>2. QED
    BY <1>1, <1>2, <1>3, <2>1 DEF EpochQueues
<1>5. UNION {Elements(s.qvec[c]) : c \in E!Classes} \subseteq E!Queued
  BY <1>2, QueuedRequests
<1>6. ASSUME NEW c \in E!Classes
      PROVE  Handed(s, c) = {r \in (busy \cup s.out) \ busy : r[1] = c}
  BY <1>1, QueuedRequests DEF Handed
<1>7. ASSUME NEW c \in E!Classes, Handed(s, c) # {}, c # cur
      PROVE  Handed(s, cur) = E!ToSet(qvec[cur])
  <2>1. Elements(<<>>) = {}
    BY DEF Elements
  <2>2. s.qvec[cur] = <<>>
    BY <1>1, <1>7
  <2>3. /\ Elements(s.qvec[cur]) = Elements(qvec[cur]) \ Handed(s, cur)
        /\ Handed(s, cur) \subseteq Elements(qvec[cur])
    BY <1>2
  <2>4. QED
    BY <2>1, <2>2, <2>3 DEF E!ToSet, Elements
<1>8. QED
  BY <1>2, <1>4, <1>5, <1>6, <1>7

LEMMA EpochRunPoolInv ==
  ASSUME EpochIInv, E!RunPool
  PROVE  EpochIInv' /\ E!CurrentGoesFirst
<1>1. PICK s \in EpochStates : qvec' = s.qvec /\ busy' = busy \cup s.out
  BY EpochRunPoolOK
<1>2. /\ pool' = E!PoolStateMachine(pool, E!Cardinality(E!Queued))
      /\ UNCHANGED <<now, E!sliceVars, done, aborted>>
  BY DEF E!RunPool
<1>3. EpochQueues(qvec, busy \cup done) /\ cur \in E!Classes
  BY DEF EpochIInv, EpochSlice
<1>4. EpochQueues(qvec, busy \cup done)'
  BY <1>1, <1>2, <1>3, EpochStatesOK DEF EpochQueues
<1>5. EpochSlice'
  BY <1>2 DEF EpochIInv, EpochSlice, SliceTimed, E!sliceVars
<1>6. pool' \in [state : PoolStates, run : BOOLEAN, idle : Nat]
  <2>1. E!Cardinality(E!Queued) \in Nat
    <3>1. E!Cardinality(E!Queued) = Cardinality(E!Queued)
      BY DEF E!Cardinality, Cardinality
    <3>2. QED
      BY <1>3, <3>1, QueuedRequests
  <2>2. PICK k : k = E!Dispatchable(pool, E!Cardinality(E!Queued))
    OBVIOUS
  <2>3. pool.idle \in Nat /\ k \in Nat /\ k <= pool.idle
    BY <2>1, <2>2 DEF EpochIInv, E!Dispatchable
  <2>4. PICK q : q = E!TakeThreads(pool, k)
    OBVIOUS
  <2>5. q.idle = pool.idle - k
    BY <2>4 DEF E!TakeThreads
  <2>6. pool' = [state |-> IF q.state = "FullLoad" THEN "FullLoad" ELSE "Idle",
                 run |-> FALSE, idle |-> q.idle]
    BY <1>2, <2>2, <2>4 DEF E!PoolStateMachine
  <2>7. q.idle \in Nat
    BY <2>3, <2>5
  <2>8. QED
    BY <2>6, <2>7 DEF PoolStates
<1>7. E!Queued' # {} => timer' \/ on'
  <2>1. E!Queued' = UNION {Elements(s.qvec[c]) : c \in E!Classes}
    BY <1>1 DEF E!Queued, E!ToSet, Elements
  <2>2. E!Queued' \subseteq E!Queued
    BY <1>3, <2>1, EpochStatesOK
  <2>3. QED
    BY <1>2, <2>2 DEF EpochIInv, E!sliceVars
<1>8. E!CurrentGoesFirst
  <2>1. \A c \in E!Classes : {r \in busy' \ busy : r[1] = c} = Handed(s, c)
    BY <1>1, <1>3, EpochStatesOK
  <2>2. \A c \in E!Classes : E!Cardinality(Handed(s, c)) = Cardinality(Handed(s, c))
    BY DEF E!Cardinality, Cardinality
  <2>3. \A c \in E!Classes :
          /\ Handed(s, c) = E!ToSet(SubSeq(qvec[c], 1, E!Cardinality(Handed(s, c))))
          /\ Handed(s, c) # {} /\ c # cur => Handed(s, cur) = E!ToSet(qvec[cur])
    BY <1>3, <2>2, EpochStatesOK
  <2>4. QED
    BY <1>3, <2>1, <2>3, Zenon DEF E!CurrentGoesFirst
<1>9. QED
  BY <1>4, <1>5, <1>6, <1>7, <1>8 DEF EpochIInv

LEMMA EpochNothingHanded ==
  ASSUME EpochIInv, busy' \subseteq busy
  PROVE  E!CurrentGoesFirst
<1>1. E!Cardinality({}) = 0
  BY FS_EmptySet DEF E!Cardinality, Cardinality
<1>2. ASSUME NEW c \in E!Classes
      PROVE  E!ToSet(SubSeq(qvec[c], 1, 0)) = {}
  <2>1. qvec[c] \in Seq(E!Requests)
    BY DEF EpochIInv, EpochQueues
  <2>2. PICK q : q = SubSeq(qvec[c], 1, 0)
    OBVIOUS
  <2>3. q \in Seq(E!Requests) /\ Len(q) = 0
    BY <2>1, <2>2, SubSeqProperties
  <2>4. QED
    BY <2>2, <2>3 DEF E!ToSet
<1>3. \A c : {r \in busy' \ busy : r[1] = c} = {}
  OBVIOUS
<1>4. QED
  BY <1>1, <1>2, <1>3 DEF E!CurrentGoesFirst

(* A request arrives.                                                      *)
LEMMA EpochAddInv ==
  ASSUME EpochIInv, NEW r \in E!Requests, E!AddNewTask(r)
  PROVE  EpochIInv'
<1>1. /\ r \notin E!Queued \cup busy \cup done
      /\ qvec' = [qvec EXCEPT ![r[1]] = Append(qvec[r[1]], r)]
      /\ IF E!Queued = {} THEN E!StartTimer ELSE UNCHANGED <<E!sliceVars, aborted>>
      /\ pool' = E!Wakeup(pool)
      /\ UNCHANGED <<now, busy, done>>
  BY DEF E!AddNewTask
<1>2. PICK c : c = r[1]
  OBVIOUS
<1>3. /\ c \in E!Classes /\ r \in {c} \X (1..EpochPerClass)
      /\ qvec \in [E!Classes -> Seq(E!Requests)] /\ Distinct(qvec[c])
      /\ EpochQueues(qvec, busy \cup done)
  BY <1>2 DEF EpochIInv, EpochQueues, E!Requests
<1>4. r \notin Elements(qvec[c])
  BY <1>1, <1>3, QueuedRequests
<1>5. PICK q : q = Append(qvec[c], r)
  OBVIOUS
<1>6. /\ q \in Seq(E!Requests) /\ Distinct(q)
      /\ Elements(q) = Elements(qvec[c]) \cup {r}
  BY <1>3, <1>4, <1>5, AppendToDistinct
<1>7. /\ qvec' \in [E!Classes -> Seq(E!Requests)] /\ qvec'[c] = q
      /\ \A d \in E!Classes : d # c => qvec'[d] = qvec[d]
  BY <1>1, <1>2, <1>3, <1>5, <1>6
<1>8. EpochQueues(qvec, busy \cup done)'
  <2>1. ASSUME NEW d \in E!Classes
        PROVE  /\ Distinct(qvec'[d])
               /\ Elements(qvec'[d]) \subseteq {d} \X (1..EpochPerClass)
               /\ Elements(qvec'[d]) \cap (busy \cup done) = {}
    <3>1. CASE d = c
      BY <1>1, <1>3, <1>6, <1>7, <3>1, ZenonT(120) DEF EpochQueues
    <3>2. CASE d # c
      BY <1>3, <1>7, <3>2 DEF EpochQueues
    <3>3. QED
      BY <3>1, <3>2
  <2>2. QED
    BY <1>1, <1>7, <2>1 DEF EpochQueues
<1>9. EpochSlice' /\ (timer' \/ on')
  <2>1. CASE E!Queued = {}
    BY <1>1, <2>1, StartTimerOK DEF EpochIInv
  <2>2. CASE E!Queued # {}
    BY <1>1, <2>2 DEF EpochIInv, EpochSlice, SliceTimed, E!sliceVars
  <2>3. QED
    BY <2>1, <2>2
<1>10. pool' \in [state : PoolStates, run : BOOLEAN, idle : Nat]
  BY <1>1 DEF EpochIInv, E!Wakeup, E!Signalled, PoolStates
<1>11. QED
  BY <1>8, <1>9, <1>10 DEF EpochIInv

(* Everything else that happens leaves the queues alone.                   *)
LEMMA EpochQueuesKept ==
  ASSUME EpochIInv, qvec' = qvec, busy' \cup done' = busy \cup done
  PROVE  EpochQueues(qvec, busy \cup done)' /\ E!Queued' = E!Queued
<1>1. EpochQueues(qvec, busy \cup done)'
  BY DEF EpochIInv, EpochQueues
<1>2. E!Queued' = E!Queued
  BY DEF E!Queued, E!ToSet
<1>3. QED
  BY <1>1, <1>2

LEMMA EpochNextInv ==
  ASSUME EpochIInv, E!Next
  PROVE  EpochIInv'
<1>1. ASSUME NEW r \in E!Requests, E!TaskCompletion(r)
      PROVE  EpochIInv'
  <2>1. /\ pool' = E!SignalIfLoaded(E!AddThread(pool)) /\ r \in busy
        /\ busy' = busy \ {r} /\ done' = done \cup {r}
        /\ UNCHANGED <<now, qvec, E!sliceVars, aborted>>
    BY <1>1 DEF E!TaskCompletion
  <2>2. busy' \cup done' = busy \cup done
    BY <2>1
  <2>3. EpochQueues(qvec, busy \cup done)' /\ E!Queued' = E!Queued
    BY <2>1, <2>2, EpochQueuesKept
  <2>4. pool' \in [state : PoolStates, run : BOOLEAN, idle : Nat]
    <3>1. PICK p : p = E!AddThread(pool)
      OBVIOUS
    <3>2. p \in [state : PoolStates, run : BOOLEAN, idle : Nat]
      BY <3>1 DEF EpochIInv, E!AddThread
    <3>3. pool' = E!SignalIfLoaded(p)
      BY <2>1, <3>1
    <3>4. QED
      BY <3>2, <3>3 DEF E!SignalIfLoaded, E!Signalled, PoolStates
  <2>5. EpochSlice' /\ timer' = timer /\ on' = on
    BY <2>1 DEF EpochIInv, EpochSlice, SliceTimed, E!sliceVars
  <2>6. QED
    BY <2>3, <2>4, <2>5 DEF EpochIInv
<1>2. CASE E!TimeSliceExpire
  <2>1. /\ E!SwitchQueue(E!Queued # {}) /\ (E!Queued # {}) \in BOOLEAN
        /\ UNCHANGED <<now, pool, qvec, busy, done>>
    BY <1>2 DEF E!TimeSliceExpire
  <2>2. EpochSlice' /\ (E!Queued # {} => timer')
    BY <2>1, SwitchQueueOK DEF EpochIInv
  <2>3. EpochQueues(qvec, busy \cup done)' /\ E!Queued' = E!Queued
    BY <2>1, EpochQueuesKept
  <2>4. QED
    BY <2>1, <2>2, <2>3 DEF EpochIInv
<1>3. CASE E!Tick
  <2>1. /\ timer => now < deadline
        /\ now' = now + 1 /\ now \in Nat
        /\ UNCHANGED <<pool, qvec, E!sliceVars, busy, done, aborted>>
    BY <1>3 DEF E!Tick, EpochIInv, EpochSlice
  <2>2. SliceTimed(cur, start[cur], timer, deadline)'
    <3>1. timer => now + 1 <= deadline
      BY <2>1 DEF EpochIInv, EpochSlice
    <3>2. timer => deadline = start[cur] + Quota[cur]
      BY DEF EpochIInv, EpochSlice, SliceTimed
    <3>3. QED
      BY <2>1, <3>1, <3>2 DEF SliceTimed, E!sliceVars
  <2>3. EpochSlice'
    BY <2>1, <2>2 DEF EpochIInv, EpochSlice, E!sliceVars
  <2>4. EpochQueues(qvec, busy \cup done)' /\ E!Queued' = E!Queued
    BY <2>1, EpochQueuesKept
  <2>5. QED
    BY <2>1, <2>3, <2>4 DEF EpochIInv, E!sliceVars
<1>4. QED
  BY <1>1, <1>2, <1>3, EpochAddInv, EpochRunPoolInv DEF E!Next

LEMMA EpochInitInv ==
  ASSUME E!Init
  PROVE  EpochIInv
<1>1. /\ now = 0 /\ qvec = [c \in E!Classes |-> <<>>] /\ cur = 0 /\ deadline = 0
      /\ start = [c \in E!Classes |-> 0] /\ on = FALSE /\ timer = FALSE
      /\ calm = FALSE /\ busy = {} /\ done = {}
      /\ pool = [E!StartedPool(NumThreads) EXCEPT !.run = FALSE, !.state = "Idle"]
  BY DEF E!Init
<1>2. 0 \in E!Classes
  BY EpochConstants
<1>3. pool \in [state : PoolStates, run : BOOLEAN, idle : Nat]
  <2>1. NumThreads \in Nat
    BY SchedulersAssumption DEF SchedulersAssumption, E!NrsEpochAssumption
  <2>2. pool = [state |-> "Idle", run |-> FALSE, idle |-> NumThreads]
    BY <1>1 DEF E!StartedPool
  <2>3. QED
    BY <2>1, <2>2 DEF PoolStates
<1>4. EpochSlice
  BY <1>1, <1>2 DEF EpochSlice, SliceTimed
<1>5. EpochQueues(qvec, busy \cup done)
  <2>1. <<>> \in Seq(E!Requests) /\ Distinct(<<>>) /\ Elements(<<>>) = {}
    BY DEF Distinct, Elements
  <2>2. QED
    BY <1>1, <2>1 DEF EpochQueues
<1>6. E!Queued = {}
  BY <1>1 DEF E!Queued, E!ToSet
<1>7. QED
  BY <1>3, <1>4, <1>5, <1>6 DEF EpochIInv

(* The inductive invariant of the epochs: what SlicesEnd says of the timer *)
(* holds for whatever the queues hold.                                     *)
THEOREM EpochInvariance == Spec => []EpochInv
<1>1. Init => EpochInv
  BY EpochInitInv DEF Init, EpochInv
<1>2. EpochInv /\ [Next]_vars => EpochInv'
  <2> SUFFICES ASSUME EpochInv, [Next]_vars, algo' = "epoch"
               PROVE  EpochIInv'
    BY DEF EpochInv
  <2>1. algo = "epoch" /\ EpochIInv
    BY DEF Next, Tbf, TbfRule, Frr, Epoch, Prio, vars, EpochInv
  <2>2. CASE Next
    BY <2>1, <2>2, EpochNextInv DEF Next, Tbf, TbfRule, Frr, Epoch, Prio
  <2>3. CASE UNCHANGED vars
    <3>1. UNCHANGED <<now, pool, busy, done, timer, deadline, qvec, cur, start, on, calm>>
      BY <2>3 DEF vars, poolVars, timerVars, epochVars
    <3>2. EpochQueues(qvec, busy \cup done)' /\ E!Queued' = E!Queued
      BY <2>1, <3>1, EpochQueuesKept
    <3>3. QED
      BY <2>1, <3>1, <3>2 DEF EpochIInv, EpochSlice, SliceTimed
  <2>4. QED
    BY <2>2, <2>3
<1>3. QED
  BY <1>1, <1>2, PTL DEF Spec

(* A slice ends with its quota, whatever arrives and is served in it       *)
(* (nrsepoch.cpp:38-63).                                                   *)
THEOREM EpochSlicesEnd == Spec => []SlicesEnd
<1>1. EpochInv => SlicesEnd
  BY DEF EpochInv, EpochIInv, EpochSlice, SliceTimed, SlicesEnd, E!SlicesEnd
<1>2. QED
  BY <1>1, EpochInvariance, PTL
-----------------------------------------------------------------------------
(* Priorities.  The requests that a queue q holds, and those of all queues *)
(* f; an entry is a request with its deadline.                             *)
PrioEntries == [req : P!Requests, deadline : Nat]
Asked(q) == {q[i].req : i \in DOMAIN q}
AskedIn(f) == UNION {Asked(f[p]) : p \in P!Priorities}

\* The queue q of priority p holds its requests, none twice, by deadline.
PrioQueue(p, q) ==
  /\ q \in Seq(PrioEntries)
  /\ \A i \in DOMAIN q : q[i].req[1] = p
  /\ \A i, j \in DOMAIN q : q[i].req = q[j].req => i = j
  /\ \A i, j \in DOMAIN q : i <= j => q[i].deadline <= q[j].deadline

\* The queues f hold no request of o.
PrioQueues(f, o) ==
  /\ f \in [P!Priorities -> Seq(PrioEntries)]
  /\ \A p \in P!Priorities : PrioQueue(p, f[p])
  /\ AskedIn(f) \cap o = {}

IO(S) == P!FoldSet(LAMBDA r, n : n + Count[r[2]], 0, S)

LoadOf(S, B) == [num_queued  |-> Cardinality(S), num_serviced |-> Cardinality(B),
                 io_queued   |-> IO(S),          io_serviced  |-> IO(B)]

PoolRecords == [state : PoolStates, run : BOOLEAN, idle : Nat]

PrioIInv ==
  /\ now \in Nat /\ pool \in PoolRecords
  /\ busy \in SUBSET P!Requests
  /\ PrioQueues(pq, busy \cup done)
  /\ \A p \in P!Priorities : \A i \in DOMAIN pq[p] :
       p # P!Dynamic => pq[p][i].deadline <= now + Wait
  /\ load = LoadOf(AskedIn(pq), busy)

PrioInv == algo = "prio" => PrioIInv

LEMMA PrioConstants ==
  /\ {NumThreads, Bandwidth} \subseteq Nat \ {0}
  /\ {Coef, Delta, Wait} \subseteq Nat
  /\ IsFiniteSet(P!Requests) /\ P!Priorities = {0, 1}
  /\ \A r \in P!Requests : r[1] \in P!Priorities /\ Count[r[2]] \in Nat
<1>1. P!NrsPrioAssumption
  BY SchedulersAssumption DEF SchedulersAssumption
<1>2. P!Priorities = {0, 1} /\ IsFiniteSet(P!Priorities)
  <2>1. P!Priorities = {0, 1}
    BY DEF P!Priorities
  <2>2. IsFiniteSet(0..1)
    BY FS_Interval, 0 \in Int, 1 \in Int, Zenon
  <2>3. QED
    BY <2>1, <2>2 DEF P!Priorities
<1>3. IsFiniteSet(1..PrioPerClass)
  BY <1>1, FS_Interval DEF P!NrsPrioAssumption
<1>4. IsFiniteSet(P!Requests)
  BY <1>2, <1>3, FS_Product DEF P!Requests
<1>5. QED
  BY <1>1, <1>2, <1>4 DEF P!NrsPrioAssumption, P!Requests

(* The sum that the fold computes.                                         *)
LEMMA IoOfAny ==
  ASSUME NEW S \in SUBSET P!Requests
  PROVE  \E g : /\ IsSum(g, S, [r \in P!Requests |-> Count[r[2]]])
                /\ IO(S) = g[S]
<1> DEFINE v == [r \in P!Requests |-> Count[r[2]]]
           w == [r \in S |-> Count[r[2]]]
           g == CHOOSE g : g = [s \in SUBSET S |-> IF s = {} THEN 0
                   ELSE g[s \ {CHOOSE x \in s : TRUE}] + Count[(CHOOSE x \in s : TRUE)[2]]]
<1>1. IsFiniteSet(S) /\ w \in [S -> Nat]
  BY PrioConstants, FS_Subset
<1>2. PICK f \in [SUBSET S -> Nat] : IsSum(f, S, w)
  BY <1>1, SumExists
<1>3. \A s \in SUBSET S : s # {} => AnyOf(s) \in S /\ w[AnyOf(s)] = Count[AnyOf(s)[2]]
                                    /\ v[AnyOf(s)] = Count[AnyOf(s)[2]]
  BY DEF AnyOf
<1>4. f = [s \in SUBSET S |-> IF s = {} THEN 0
                   ELSE f[s \ {CHOOSE x \in s : TRUE}] + Count[(CHOOSE x \in s : TRUE)[2]]]
  BY <1>2, <1>3, ZenonT(60) DEF IsSum, AnyOf
<1>5. g = [s \in SUBSET S |-> IF s = {} THEN 0
                   ELSE g[s \ {CHOOSE x \in s : TRUE}] + Count[(CHOOSE x \in s : TRUE)[2]]]
  BY <1>4
<1>6. IO(S) = g[S]
  BY DEF IO, P!FoldSet, P!MapThenFoldSet
<1> HIDE DEF g
<1>7. IsSum(g, S, v)
  BY <1>3, <1>5, SMTT(30) DEF IsSum, AnyOf
<1>8. QED
  BY <1>6, <1>7

LEMMA IoCounts ==
  /\ IO({}) = 0
  /\ \A S \in SUBSET P!Requests :
       /\ IO(S) \in Nat
       /\ \A x \in S : IO(S) = IO(S \ {x}) + Count[x[2]]
       /\ \A x \in P!Requests \ S : IO(S \cup {x}) = IO(S) + Count[x[2]]
<1> DEFINE v == [r \in P!Requests |-> Count[r[2]]]
<1>1. v \in [P!Requests -> Nat] /\ IsFiniteSet(P!Requests)
  BY PrioConstants
<1>2. \A x \in P!Requests : v[x] = Count[x[2]]
  OBVIOUS
<1>3. \A S \in SUBSET P!Requests : \E g : IsSum(g, S, v) /\ IO(S) = g[S]
  BY IoOfAny
<1> HIDE DEF v
<1>4. PICK f \in [SUBSET P!Requests -> Nat] : IsSum(f, P!Requests, v)
  BY <1>1, SumExists
<1>5. ASSUME NEW S \in SUBSET P!Requests
      PROVE  IO(S) = f[S]
  <2>1. PICK g : IsSum(g, S, v) /\ IO(S) = g[S]
    BY <1>3
  <2>2. g[S] = f[S]
    <3>1. \A x \in S : v[x] = v[x]
      OBVIOUS
    <3>2. QED
      BY <1>1, <1>4, <2>1, <3>1, SumAgrees
  <2>3. QED
    BY <2>1, <2>2
<1>6. f[{}] = 0 /\ \A s \in SUBSET P!Requests : \A x \in s : f[s] = f[s \ {x}] + v[x]
  BY <1>1, <1>4, SumAdds
<1>7. ASSUME NEW S \in SUBSET P!Requests, NEW x \in P!Requests \ S
      PROVE  IO(S \cup {x}) = IO(S) + Count[x[2]]
  <2>1. (S \cup {x}) \ {x} = S /\ S \cup {x} \in SUBSET P!Requests /\ x \in S \cup {x}
    OBVIOUS
  <2>2. QED
    BY <1>2, <1>5, <1>6, <2>1
<1>8. ASSUME NEW S \in SUBSET P!Requests, NEW x \in S
      PROVE  IO(S) = IO(S \ {x}) + Count[x[2]]
  <2>1. S \ {x} \in SUBSET P!Requests /\ x \in P!Requests
    OBVIOUS
  <2>2. QED
    BY <1>2, <1>5, <1>6, <2>1
<1>9. QED
  BY <1>5, <1>6, <1>7, <1>8

(* What the scheduler makes of its queues.                                 *)
LEMMA PrioSame ==
  /\ P!Queued = AskedIn(pq)
  /\ \A p : P!Waiting(p) = Asked(pq[p])
  /\ \A S : P!Cardinality(S) = Cardinality(S)
<1>1. \A p : P!Waiting(p) = Asked(pq[p])
  BY DEF P!Waiting, P!ToSet, Asked
<1>2. P!Queued = AskedIn(pq)
  BY <1>1 DEF P!Queued, AskedIn
<1>3. \A S : P!Cardinality(S) = Cardinality(S)
  BY DEF P!Cardinality, Cardinality
<1>4. QED
  BY <1>1, <1>2, <1>3

LEMMA AskedTyped ==
  ASSUME NEW f, NEW o, PrioQueues(f, o)
  PROVE  /\ AskedIn(f) \in SUBSET P!Requests
         /\ \A p \in P!Priorities : \A r \in AskedIn(f) : r \in Asked(f[p]) <=> r[1] = p
<1>1. ASSUME NEW p \in P!Priorities, NEW r \in Asked(f[p])
      PROVE  r \in P!Requests /\ r[1] = p
  <2>1. /\ f[p] \in Seq(PrioEntries)
        /\ \A i \in DOMAIN f[p] : f[p][i].req[1] = p
    BY DEF PrioQueues, PrioQueue
  <2>2. PICK i \in DOMAIN f[p] : r = f[p][i].req
    BY DEF Asked
  <2>3. f[p][i] \in PrioEntries
    BY <2>1, <2>2
  <2>4. QED
    BY <2>1, <2>2, <2>3 DEF PrioEntries
<1>2. QED
  BY <1>1 DEF AskedIn

(* A request joins the queue of its priority, with a deadline that is not  *)
(* before those of the requests already there.                             *)
LEMMA PrioAppend ==
  ASSUME NEW p, NEW q, PrioQueue(p, q), NEW e \in PrioEntries, e.req[1] = p,
         e.req \notin Asked(q), \A i \in DOMAIN q : q[i].deadline <= e.deadline
  PROVE  PrioQueue(p, Append(q, e)) /\ Asked(Append(q, e)) = Asked(q) \cup {e.req}
<1>1. q \in Seq(PrioEntries)
  BY DEF PrioQueue
<1>2. PICK t : t = Append(q, e)
  OBVIOUS
<1>3. /\ t \in Seq(PrioEntries) /\ Len(t) = Len(q) + 1 /\ t[Len(q) + 1] = e
      /\ \A i \in 1..Len(q) : t[i] = q[i]
  BY <1>1, <1>2, AppendProperties
<1>4. /\ Len(q) \in Nat /\ DOMAIN q = 1..Len(q) /\ DOMAIN t = 1..(Len(q) + 1)
      /\ \A i \in 1..(Len(q) + 1) : i \in 1..Len(q) \/ i = Len(q) + 1
  BY <1>1, <1>3
<1>5. Asked(t) = Asked(q) \cup {e.req}
  BY <1>3, <1>4 DEF Asked
<1>6. \A i \in DOMAIN t : t[i].req[1] = p
  BY <1>3, <1>4 DEF PrioQueue
<1>7. \A i, j \in DOMAIN t : t[i].req = t[j].req => i = j
  BY <1>3, <1>4 DEF PrioQueue, Asked
<1>8. ASSUME NEW i \in DOMAIN t, NEW j \in DOMAIN t, i <= j
      PROVE  t[i].deadline <= t[j].deadline
  <2>1. CASE j \in 1..Len(q)
    <3>1. i \in 1..Len(q)
      BY <1>4, <1>8, <2>1
    <3>2. QED
      BY <1>3, <1>4, <1>8, <2>1, <3>1 DEF PrioQueue
  <2>2. CASE j = Len(q) + 1 /\ i \in 1..Len(q)
    BY <1>3, <1>4, <2>2
  <2>3. CASE j = Len(q) + 1 /\ i = j
    <3>1. e.deadline \in Nat
      BY DEF PrioEntries
    <3>2. QED
      BY <1>3, <2>3, <3>1
  <2>4. QED
    BY <1>4, <2>1, <2>2, <2>3
<1>9. QED
  BY <1>2, <1>3, <1>5, <1>6, <1>7, <1>8 DEF PrioQueue

LEMMA PrioTail ==
  ASSUME NEW p, NEW q, PrioQueue(p, q), q # <<>>
  PROVE  /\ PrioQueue(p, Tail(q)) /\ Head(q).req \in Asked(q)
         /\ Asked(Tail(q)) = Asked(q) \ {Head(q).req}
         /\ \A i \in DOMAIN Tail(q) : i + 1 \in DOMAIN q /\ Tail(q)[i] = q[i + 1]
<1>1. q \in Seq(PrioEntries)
  BY DEF PrioQueue
<1>2. /\ Len(q) \in Nat /\ Len(q) >= 1 /\ DOMAIN q = 1..Len(q) /\ Head(q) = q[1]
  BY <1>1, EmptySeq
<1>3. PICK t : t = Tail(q)
  OBVIOUS
<1>4. /\ t \in Seq(PrioEntries) /\ DOMAIN t = 1..(Len(q) - 1)
      /\ \A i \in 1..(Len(q) - 1) : t[i] = q[i + 1]
  BY <1>1, <1>2, <1>3, HeadTailProperties
<1>5. \A i \in DOMAIN t : i + 1 \in DOMAIN q /\ i + 1 # 1 /\ t[i] = q[i + 1]
  BY <1>2, <1>4
<1>6. \A i \in DOMAIN t : t[i].req[1] = p
  BY <1>5 DEF PrioQueue
<1>7. ASSUME NEW i \in DOMAIN t, NEW j \in DOMAIN t, t[i].req = t[j].req
      PROVE  i = j
  <2>1. i + 1 = j + 1
    BY <1>5, <1>7 DEF PrioQueue
  <2>2. QED
    BY <1>4, <2>1
<1>8. ASSUME NEW i \in DOMAIN t, NEW j \in DOMAIN t, i <= j
      PROVE  t[i].deadline <= t[j].deadline
  <2>1. i + 1 <= j + 1
    BY <1>4, <1>8
  <2>2. QED
    BY <1>5, <2>1 DEF PrioQueue
<1>9. ASSUME NEW i \in DOMAIN t
      PROVE  t[i].req \in Asked(q) \ {q[1].req}
  <2>1. i + 1 \in DOMAIN q /\ 1 \in DOMAIN q /\ i + 1 # 1 /\ t[i] = q[i + 1]
    BY <1>2, <1>5
  <2>2. q[i + 1].req # q[1].req
    BY <2>1 DEF PrioQueue
  <2>3. QED
    BY <2>1, <2>2 DEF Asked
<1>10. ASSUME NEW i \in DOMAIN q, q[i].req # q[1].req
       PROVE  q[i].req \in Asked(t)
  <2>1. i - 1 \in DOMAIN t /\ t[i - 1] = q[i]
    BY <1>2, <1>4, <1>10
  <2>2. QED
    BY <2>1 DEF Asked
<1>11. Asked(t) = Asked(q) \ {q[1].req}
  BY <1>9, <1>10 DEF Asked
<1>12. q[1].req \in Asked(q)
  BY <1>2 DEF Asked
<1>13. QED
  BY <1>2, <1>3, <1>4, <1>5, <1>6, <1>7, <1>8, <1>11, <1>12 DEF PrioQueue

(* The queues with q as that of priority p.                                *)
WithQueue(f, p, q) == [f EXCEPT ![p] = q]

LEMMA WithQueueOK ==
  ASSUME NEW f, NEW o, PrioQueues(f, o), NEW p \in P!Priorities,
         NEW q, PrioQueue(p, q)
  PROVE  /\ WithQueue(f, p, q) \in [P!Priorities -> Seq(PrioEntries)]
         /\ \A d \in P!Priorities : PrioQueue(d, WithQueue(f, p, q)[d])
         /\ WithQueue(f, p, q)[p] = q
         /\ \A d \in P!Priorities : d # p => WithQueue(f, p, q)[d] = f[d]
         /\ \A r : r \in AskedIn(WithQueue(f, p, q)) <=>
              \/ r \in Asked(q)
              \/ r \in AskedIn(f) /\ r[1] # p
<1> DEFINE g == WithQueue(f, p, q)
<1> USE DEF WithQueue
<1>1. f \in [P!Priorities -> Seq(PrioEntries)] /\ q \in Seq(PrioEntries)
  BY DEF PrioQueues, PrioQueue
<1>2. g \in [P!Priorities -> Seq(PrioEntries)]
  BY <1>1
<1>3. g[p] = q /\ \A d \in P!Priorities : d # p => g[d] = f[d]
  BY <1>1
<1>4. \A d \in P!Priorities : PrioQueue(d, g[d])
  BY <1>3 DEF PrioQueues
<1>5. \A d \in P!Priorities : \A r \in Asked(f[d]) : r[1] = d
  BY DEF PrioQueues, PrioQueue, Asked
<1> HIDE DEF g
<1>6. ASSUME NEW r
      PROVE  r \in AskedIn(g) <=> (r \in Asked(q) \/ (r \in AskedIn(f) /\ r[1] # p))
  <2>1. r \in AskedIn(g) <=> \E d \in P!Priorities : r \in Asked(g[d])
    BY DEF AskedIn
  <2>2. r \in AskedIn(f) <=> \E d \in P!Priorities : r \in Asked(f[d])
    BY DEF AskedIn
  <2>3. QED
    BY <1>3, <1>5, <2>1, <2>2
<1>7. QED
  BY <1>2, <1>3, <1>4, <1>6, Zenon DEF g

(* The queue that hands out next holds a request, and those of a higher    *)
(* priority hold none.                                                     *)
LEMMA ServedQueueOK ==
  ASSUME NEW f, \E p \in P!Priorities : f[p] # <<>>
  PROVE  /\ P!ServedQueue(f) \in P!Priorities /\ f[P!ServedQueue(f)] # <<>>
         /\ \A d \in P!Priorities : d > P!ServedQueue(f) => f[d] = <<>>
<1> DEFINE S == {p \in P!Priorities : f[p] # <<>>}
<1>1. S \in SUBSET {0, 1} /\ S # {}
  BY PrioConstants
<1> HIDE DEF S
<1>2. \E x \in S : \A y \in S : x >= y
  <2>1. CASE 1 \in S
    BY <1>1, <2>1, \A y \in S : 1 >= y
  <2>2. CASE 1 \notin S
    BY <1>1, <2>2, 0 \in S /\ \A y \in S : y = 0
  <2>3. QED
    BY <2>1, <2>2
<1>3. PICK m : m = P!ServedQueue(f)
  OBVIOUS
<1>4. m \in S /\ \A y \in S : m >= y
  BY <1>2, <1>3 DEF P!ServedQueue, P!Max, S
<1>5. \A y \in S : ~(y > m)
  BY <1>1, <1>4
<1>6. \A y \in P!Priorities : y > m => f[y] = <<>>
  BY <1>5 DEF S
<1>7. QED
  BY <1>3, <1>4, <1>6 DEF S

(* What the event of the pool makes of the queues: it has handed out, of   *)
(* what waits in pq, s.out, and of a priority only after those above it.   *)
PrioDeadlines(f) ==
  \A p \in P!Priorities : \A i \in DOMAIN f[p] :
    p # P!Dynamic => f[p][i].deadline <= now + Wait

LoadRecords == [num_queued : Nat, num_serviced : Nat, io_queued : Nat, io_serviced : Nat]

PrioStates ==
  {s \in [pq : [P!Priorities -> Seq(PrioEntries)], load : LoadRecords,
          out : SUBSET P!Requests] :
     /\ PrioQueues(s.pq, busy \cup s.out \cup done)
     /\ PrioDeadlines(s.pq)
     /\ s.load = LoadOf(AskedIn(s.pq), busy \cup s.out)
     /\ AskedIn(s.pq) \cup s.out = AskedIn(pq)
     /\ \A r \in s.out : \A p \in P!Priorities : p > r[1] => s.pq[p] = <<>>}

LEMMA LoadTyped ==
  ASSUME NEW S \in SUBSET P!Requests, NEW B \in SUBSET P!Requests
  PROVE  LoadOf(S, B) \in LoadRecords /\ IsFiniteSet(S) /\ IsFiniteSet(B)
<1>1. IsFiniteSet(S) /\ IsFiniteSet(B)
  BY PrioConstants, FS_Subset
<1>2. Cardinality(S) \in Nat /\ Cardinality(B) \in Nat
  BY <1>1, FS_CardinalityType
<1>3. QED
  BY <1>1, <1>2, IoCounts DEF LoadOf, LoadRecords

\* A request r of S goes into service.
LEMMA LoadMoves ==
  ASSUME NEW S \in SUBSET P!Requests, NEW B \in SUBSET P!Requests, NEW r \in S, r \notin B
  PROVE  LoadOf(S \ {r}, B \cup {r})
           = [num_queued   |-> Cardinality(S) - 1,
              num_serviced |-> Cardinality(B) + 1,
              io_queued    |-> IO(S) - Count[r[2]],
              io_serviced  |-> IO(B) + Count[r[2]]]
<1>1. IsFiniteSet(S) /\ IsFiniteSet(B)
  BY LoadTyped
<1>2. Cardinality(S \ {r}) = Cardinality(S) - 1 /\ Cardinality(B \cup {r}) = Cardinality(B) + 1
  BY <1>1, FS_RemoveElement, FS_AddElement
<1>3. PICK c : c = Count[r[2]]
  OBVIOUS
<1>4. c \in Nat /\ IO(S \ {r}) \in Nat /\ IO(S) = IO(S \ {r}) + c
  BY <1>3, PrioConstants, IoCounts, S \ {r} \in SUBSET P!Requests
<1>5. IO(S \ {r}) = IO(S) - c
  BY <1>4
<1>6. IO(B \cup {r}) = IO(B) + c
  BY <1>3, IoCounts, r \in P!Requests \ B
<1>7. QED
  BY <1>2, <1>3, <1>5, <1>6 DEF LoadOf

(* While requests are waiting, Dequeue hands out one of them.              *)
LEMMA PrioDequeueOK ==
  ASSUME busy \in SUBSET P!Requests, NEW s \in PrioStates, AskedIn(s.pq) # {}
  PROVE  /\ P!Dequeue(s) \in PrioStates
         /\ Cardinality(AskedIn(P!Dequeue(s).pq)) = Cardinality(AskedIn(s.pq)) - 1
<1>1. /\ s.pq \in [P!Priorities -> Seq(PrioEntries)] /\ s.out \in SUBSET P!Requests
      /\ PrioQueues(s.pq, busy \cup s.out \cup done) /\ PrioDeadlines(s.pq)
      /\ s.load = LoadOf(AskedIn(s.pq), busy \cup s.out)
      /\ AskedIn(s.pq) \cup s.out = AskedIn(pq)
      /\ \A r \in s.out : \A p \in P!Priorities : p > r[1] => s.pq[p] = <<>>
  BY DEF PrioStates
<1>2. PICK p : p = P!ServedQueue(s.pq)
  OBVIOUS
<1>3. /\ p \in P!Priorities /\ s.pq[p] # <<>>
      /\ \A d \in P!Priorities : d > p => s.pq[d] = <<>>
  <2>1. \E d \in P!Priorities : s.pq[d] # <<>>
    <3>1. PICK d \in P!Priorities : Asked(s.pq[d]) # {}
      BY DEF AskedIn
    <3>2. s.pq[d] # <<>>
      BY <3>1 DEF Asked
    <3>3. QED
      BY <3>2
  <2>2. QED
    BY <1>2, <2>1, ServedQueueOK
<1>4. PICK q : q = s.pq[p]
  OBVIOUS
<1>5. PrioQueue(p, q) /\ q # <<>>
  BY <1>1, <1>3, <1>4 DEF PrioQueues
<1>6. PICK r : r = Head(q).req
  OBVIOUS
<1>7. /\ PrioQueue(p, Tail(q)) /\ r \in Asked(q) /\ Asked(Tail(q)) = Asked(q) \ {r}
      /\ \A i \in DOMAIN Tail(q) : i + 1 \in DOMAIN q /\ Tail(q)[i] = q[i + 1]
  BY <1>5, <1>6, PrioTail
<1>8. PICK A : A = AskedIn(s.pq)
  OBVIOUS
<1>9. /\ A \in SUBSET P!Requests /\ r \in A /\ r[1] = p
      /\ r \notin busy \cup s.out \cup done
      /\ \A x \in A : x \in Asked(q) <=> x[1] = p
  <2>1. A \in SUBSET P!Requests /\ \A x \in A : x \in Asked(q) <=> x[1] = p
    BY <1>1, <1>3, <1>4, <1>8, AskedTyped
  <2>2. r \in A
    BY <1>3, <1>4, <1>7, <1>8 DEF AskedIn
  <2>3. A \cap (busy \cup s.out \cup done) = {}
    BY <1>1, <1>8 DEF PrioQueues
  <2>4. QED
    BY <1>7, <2>1, <2>2, <2>3
<1>10. PICK t : t = P!Dequeue(s)
  OBVIOUS
<1>11. /\ t = [pq |-> t.pq, load |-> t.load, out |-> t.out]
       /\ t.pq = [s.pq EXCEPT ![p] = Tail(q)]
       /\ t.load = [num_queued   |-> s.load.num_queued - 1,
                    num_serviced |-> s.load.num_serviced + 1,
                    io_queued    |-> s.load.io_queued - Count[r[2]],
                    io_serviced  |-> s.load.io_serviced + Count[r[2]]]
       /\ t.out = s.out \cup {r}
  <2>1. t = [pq   |-> [s.pq EXCEPT ![p] = Tail(s.pq[p])],
             load |-> [num_queued   |-> s.load.num_queued - 1,
                       num_serviced |-> s.load.num_serviced + 1,
                       io_queued    |-> s.load.io_queued - Count[r[2]],
                       io_serviced  |-> s.load.io_serviced + Count[r[2]]],
             out  |-> s.out \cup {r}]
    BY <1>2, <1>4, <1>6, <1>10 DEF P!Dequeue
  <2>2. QED
    BY <1>4, <2>1
<1>12. /\ t.pq \in [P!Priorities -> Seq(PrioEntries)]
       /\ \A d \in P!Priorities : PrioQueue(d, t.pq[d])
       /\ t.pq[p] = Tail(q) /\ \A d \in P!Priorities : d # p => t.pq[d] = s.pq[d]
       /\ \A x : x \in AskedIn(t.pq) <=>
            \/ x \in Asked(Tail(q))
            \/ x \in AskedIn(s.pq) /\ x[1] # p
  <2>1. t.pq = WithQueue(s.pq, p, Tail(q))
    BY <1>11 DEF WithQueue
  <2>2. p \in P!Priorities /\ PrioQueue(p, Tail(q))
    BY <1>3, <1>7
  <2>3. PrioQueues(s.pq, busy \cup s.out \cup done)
    BY <1>1
  <2>4. \A x : x \in AskedIn(WithQueue(s.pq, p, Tail(q))) <=>
            \/ x \in Asked(Tail(q))
            \/ x \in AskedIn(s.pq) /\ x[1] # p
    BY <2>2, <2>3, WithQueueOK
  <2>5. /\ WithQueue(s.pq, p, Tail(q)) \in [P!Priorities -> Seq(PrioEntries)]
       /\ \A d \in P!Priorities : PrioQueue(d, WithQueue(s.pq, p, Tail(q))[d])
    BY <2>2, <2>3, WithQueueOK
  <2>6. WithQueue(s.pq, p, Tail(q))[p] = Tail(q)
    BY <2>2, <1>1 DEF WithQueue
  <2>7. \A d \in P!Priorities : d # p => WithQueue(s.pq, p, Tail(q))[d] = s.pq[d]
    BY <2>2, <1>1 DEF WithQueue
  <2>8. QED
    BY <2>1, <2>4, <2>5, <2>6, <2>7
<1>13. AskedIn(t.pq) = A \ {r}
  <2>1. Asked(q) \subseteq A
    BY <1>3, <1>4, <1>8 DEF AskedIn
  <2>2. QED
    BY <1>7, <1>8, <1>9, <1>12, <2>1
<1>14. PrioQueues(t.pq, busy \cup t.out \cup done)
  <2>1. AskedIn(t.pq) \cap (busy \cup t.out \cup done) = {}
    BY <1>1, <1>8, <1>9, <1>11, <1>13 DEF PrioQueues
  <2>2. QED
    BY <1>12, <2>1 DEF PrioQueues
<1>15. PrioDeadlines(t.pq)
  <2>1. ASSUME NEW d \in P!Priorities, NEW i \in DOMAIN t.pq[d], d # P!Dynamic
        PROVE  t.pq[d][i].deadline <= now + Wait
    <3>1. CASE d = p
      <4>1. i + 1 \in DOMAIN q /\ t.pq[d][i] = q[i + 1]
        BY <1>7, <1>12, <2>1, <3>1
      <4>2. \A j \in DOMAIN q : q[j].deadline <= now + Wait
        BY <1>1, <1>3, <1>4, <2>1, <3>1 DEF PrioDeadlines
      <4>3. QED
        BY <4>1, <4>2
    <3>2. CASE d # p
      BY <1>1, <1>12, <2>1, <3>2 DEF PrioDeadlines
    <3>3. QED
      BY <3>1, <3>2
  <2>2. QED
    BY <2>1 DEF PrioDeadlines
<1>16. t.load = LoadOf(AskedIn(t.pq), busy \cup t.out)
  <2>1. PICK B : B = busy \cup s.out
    OBVIOUS
  <2>2. B \in SUBSET P!Requests /\ r \notin B /\ busy \cup t.out = B \cup {r}
    BY <1>1, <1>9, <1>11, <2>1
  <2>3. s.load = [num_queued |-> Cardinality(A), num_serviced |-> Cardinality(B),
                  io_queued |-> IO(A), io_serviced |-> IO(B)]
    BY <1>1, <1>8, <2>1 DEF LoadOf
  <2>4. t.load = [num_queued |-> Cardinality(A) - 1, num_serviced |-> Cardinality(B) + 1,
                  io_queued |-> IO(A) - Count[r[2]], io_serviced |-> IO(B) + Count[r[2]]]
    BY <1>11, <2>3
  <2>5. QED
    BY <1>9, <1>13, <2>2, <2>4, LoadMoves
<1>17. AskedIn(t.pq) \cup t.out = AskedIn(pq)
  BY <1>1, <1>8, <1>9, <1>11, <1>13
<1>18. \A x \in t.out : \A d \in P!Priorities : d > x[1] => t.pq[d] = <<>>
  BY <1>1, <1>3, <1>9, <1>11, <1>12
<1>19. t \in PrioStates
  <2>1. t.out \in SUBSET P!Requests /\ busy \cup t.out \in SUBSET P!Requests
    BY <1>1, <1>9, <1>11
  <2>2. t.load \in LoadRecords
    BY <1>9, <1>13, <1>16, <2>1, LoadTyped
  <2>3. t \in [pq : [P!Priorities -> Seq(PrioEntries)], load : LoadRecords,
               out : SUBSET P!Requests]
    BY <1>11, <1>12, <2>1, <2>2
  <2>4. QED
    BY <1>14, <1>15, <1>16, <1>17, <1>18, <2>3 DEF PrioStates
<1>20. Cardinality(AskedIn(t.pq)) = Cardinality(A) - 1
  BY <1>9, <1>13, LoadTyped, FS_RemoveElement
<1>21. QED
  BY <1>8, <1>10, <1>19, <1>20

(* The event of the pool dequeues as often as it has threads and requests. *)
LEMMA PrioRunPoolOK ==
  ASSUME PrioIInv, P!RunPool
  PROVE  \E s \in PrioStates : pq' = s.pq /\ load' = s.load /\ busy' = busy \cup s.out
<1> DEFINE n == P!Dispatchable(pool, load.num_queued)
           a == [pq |-> pq, load |-> load, out |-> {}]
           c == Cardinality(AskedIn(pq))
           G == [k \in 0..n |-> {s \in PrioStates : Cardinality(AskedIn(s.pq)) = c - k}]
           step == [k \in 1..n |-> [s \in PrioStates |->
                      IF P!Dequeue(s) \in PrioStates THEN P!Dequeue(s) ELSE s]]
           after[k \in 0..n] == IF k = 0 THEN a ELSE P!Dequeue(after[k - 1])
<1>1. /\ AskedIn(pq) \in SUBSET P!Requests /\ busy \in SUBSET P!Requests
      /\ PrioQueues(pq, busy \cup done) /\ load = LoadOf(AskedIn(pq), busy)
      /\ PrioDeadlines(pq)
  BY AskedTyped DEF PrioIInv, PrioDeadlines
<1>2. c \in Nat /\ n \in 0..c
  <2>1. c \in Nat /\ load.num_queued = c /\ pool.idle \in Nat
    BY <1>1, LoadTyped, FS_CardinalityType DEF LoadOf, PrioIInv, PoolRecords
  <2>2. QED
    BY <2>1 DEF P!Dispatchable
<1>3. pq' = after[n].pq /\ load' = after[n].load /\ busy' = busy \cup after[n].out
  BY DEF P!RunPool
<1> HIDE DEF n, c
<1>4. a \in G[0]
  <2>1. busy \cup {} \cup done = busy \cup done /\ busy \cup {} = busy
    OBVIOUS
  <2>2. load \in LoadRecords /\ pq \in [P!Priorities -> Seq(PrioEntries)]
    BY <1>1, LoadTyped DEF PrioQueues
  <2>3. a \in PrioStates
    BY <1>1, <2>1, <2>2 DEF PrioStates
  <2>4. QED
    BY <1>2, <2>3 DEF c
<1>5. ASSUME NEW k \in 1..n, NEW s \in G[k - 1]
      PROVE  /\ P!Dequeue(s) \in G[k] /\ step[k][s] = P!Dequeue(s)
  <2>1. k - 1 \in 0..n /\ k \in 0..n /\ c - (k - 1) # 0
    BY <1>2
  <2>2. s \in PrioStates /\ Cardinality(AskedIn(s.pq)) = c - (k - 1)
    BY <2>1
  <2>3. AskedIn(s.pq) # {}
    BY <2>1, <2>2, FS_EmptySet
  <2>4. /\ P!Dequeue(s) \in PrioStates
        /\ Cardinality(AskedIn(P!Dequeue(s).pq)) = (c - (k - 1)) - 1
    BY <1>1, <2>2, <2>3, PrioDequeueOK
  <2>5. (c - (k - 1)) - 1 = c - k
    BY <1>2
  <2>6. QED
    BY <2>1, <2>2, <2>4, <2>5
<1>6. G \in [0..n -> SUBSET PrioStates] /\ step \in [1..n -> [PrioStates -> PrioStates]]
  OBVIOUS
<1> HIDE DEF a, G, step
<1>7. PICK f \in [0..n -> PrioStates] :
        IsIteration(f, n, a, step) /\ \A k \in 0..n : f[k] \in G[k]
  <2>1. n \in Nat /\ \A k \in 1..n : \A s \in G[k - 1] : step[k][s] \in G[k]
    BY <1>2, <1>5
  <2>2. QED
    BY <1>4, <1>6, <2>1, IterationStays
<1>8. f = [k \in 0..n |-> IF k = 0 THEN a ELSE P!Dequeue(f[k - 1])]
  <2>1. \A k \in 0..n : k # 0 => k \in 1..n /\ k - 1 \in 0..n
    BY <1>2
  <2>2. \A k \in 0..n : f[k] = IF k = 0 THEN a ELSE P!Dequeue(f[k - 1])
    BY <1>5, <1>7, <2>1 DEF IsIteration
  <2>3. QED
    BY <2>2
<1>9. after = [k \in 0..n |-> IF k = 0 THEN a ELSE P!Dequeue(after[k - 1])]
  BY <1>8
<1> HIDE DEF after
<1>10. after[n] \in PrioStates
  <2> DEFINE S == {k \in 0..n : after[k] \in G[k]}
  <2>1. 0 \in S
    BY <1>2, <1>4, <1>9
  <2>2. ASSUME NEW k \in 1..n, k - 1 \in S
        PROVE  k \in S
    <3>1. k \in 0..n /\ k # 0 /\ k - 1 \in 0..n
      BY <1>2
    <3>2. after[k] = P!Dequeue(after[k - 1])
      BY <1>9, <3>1
    <3>3. QED
      BY <1>5, <2>2, <3>1, <3>2
  <2> HIDE DEF S
  <2>3. 0..n \subseteq S
    BY <1>2, <2>1, <2>2, UpTo, SMTT(60)
  <2>4. QED
    BY <1>2, <2>3 DEF S, G
<1>11. QED
  BY <1>3, <1>10

(* What the primitives of the pool make of its record.                     *)
LEMMA PrioPool ==
  ASSUME pool \in PoolRecords
  PROVE  /\ P!Wakeup(pool) \in PoolRecords
         /\ P!SignalIfLoaded(P!AddThread(pool)) \in PoolRecords
         /\ \A n \in Nat : P!PoolStateMachine(pool, n) \in PoolRecords
<1>1. P!Wakeup(pool) \in PoolRecords
  BY DEF P!Wakeup, P!Signalled, PoolRecords, PoolStates
<1>2. P!SignalIfLoaded(P!AddThread(pool)) \in PoolRecords
  <2>1. PICK p : p = P!AddThread(pool)
    OBVIOUS
  <2>2. p \in PoolRecords
    BY <2>1 DEF P!AddThread, PoolRecords
  <2>3. QED
    BY <2>1, <2>2 DEF P!SignalIfLoaded, P!Signalled, PoolRecords, PoolStates
<1>3. ASSUME NEW n \in Nat
      PROVE  P!PoolStateMachine(pool, n) \in PoolRecords
  <2>1. PICK k : k = P!Dispatchable(pool, n)
    OBVIOUS
  <2>2. pool.idle \in Nat /\ k \in Nat /\ k <= pool.idle
    BY <2>1 DEF PoolRecords, P!Dispatchable
  <2>3. PICK q : q = P!TakeThreads(pool, k)
    OBVIOUS
  <2>4. q.idle \in Nat
    BY <2>2, <2>3 DEF P!TakeThreads
  <2>5. P!PoolStateMachine(pool, n)
          = [state |-> IF q.state = "FullLoad" THEN "FullLoad" ELSE "Idle",
             run |-> FALSE, idle |-> q.idle]
    BY <2>1, <2>3 DEF P!PoolStateMachine
  <2>6. QED
    BY <2>4, <2>5 DEF PoolRecords, PoolStates
<1>4. QED
  BY <1>1, <1>2, <1>3

LEMMA PrioRunPoolInv ==
  ASSUME PrioIInv, P!RunPool
  PROVE  PrioIInv' /\ P!HighestGoesFirst
<1>1. PICK s \in PrioStates : pq' = s.pq /\ load' = s.load /\ busy' = busy \cup s.out
  BY PrioRunPoolOK
<1>2. /\ s.out \in SUBSET P!Requests
      /\ PrioQueues(s.pq, busy \cup s.out \cup done) /\ PrioDeadlines(s.pq)
      /\ s.load = LoadOf(AskedIn(s.pq), busy \cup s.out)
      /\ AskedIn(s.pq) \cup s.out = AskedIn(pq)
      /\ \A r \in s.out : \A p \in P!Priorities : p > r[1] => s.pq[p] = <<>>
  BY DEF PrioStates
<1>3. /\ pool' = P!PoolStateMachine(pool, load.num_queued)
      /\ UNCHANGED <<now, done>>
  BY DEF P!RunPool
<1>4. /\ PrioQueues(pq, busy \cup done) /\ busy \in SUBSET P!Requests /\ now \in Nat
      /\ pool \in PoolRecords /\ load = LoadOf(AskedIn(pq), busy)
      /\ AskedIn(pq) \in SUBSET P!Requests
  BY AskedTyped DEF PrioIInv
<1>5. pool' \in PoolRecords
  <2>1. load.num_queued \in Nat
    BY <1>4, LoadTyped DEF LoadRecords
  <2>2. QED
    BY <1>3, <1>4, <2>1, PrioPool
<1>6. PrioIInv'
  <2>1. now' \in Nat /\ busy' \in SUBSET P!Requests
    BY <1>1, <1>2, <1>3, <1>4
  <2>2. PrioQueues(pq', busy' \cup done')
    BY <1>1, <1>2, <1>3
  <2>3. load' = LoadOf(AskedIn(pq'), busy')
    BY <1>1, <1>2
  <2>4. \A p \in P!Priorities : \A i \in DOMAIN pq'[p] :
          p # P!Dynamic => pq'[p][i].deadline <= now' + Wait
    BY <1>1, <1>2, <1>3 DEF PrioDeadlines
  <2>5. QED
    BY <1>5, <2>1, <2>2, <2>3, <2>4 DEF PrioIInv
<1>7. P!HighestGoesFirst
  <2>1. ASSUME NEW r \in busy' \ busy, NEW p \in P!Priorities, p > r[1]
        PROVE  Asked(pq[p]) \subseteq busy'
    <3>1. r \in s.out /\ s.pq[p] = <<>>
      BY <1>1, <1>2, <2>1
    <3>2. ASSUME NEW x \in Asked(pq[p])
          PROVE  x \in s.out
      <4>1. x \in AskedIn(pq) /\ x[1] = p
        BY <1>4, <3>2, AskedTyped DEF AskedIn
      <4>2. x \notin Asked(s.pq[p])
        BY <3>1 DEF Asked
      <4>3. QED
        BY <1>2, <4>1, <4>2, AskedTyped
    <3>3. QED
      BY <1>1, <3>2
  <2>2. QED
    BY <2>1, PrioSame DEF P!HighestGoesFirst
<1>8. QED
  BY <1>6, <1>7

(* The deadline of a request is not before those of the queue it joins     *)
(* (nrsprio.cpp:61-129).                                                   *)
LEMMA DeadlineOK ==
  ASSUME PrioIInv, NEW p \in P!Priorities
  PROVE  /\ P!Deadline(p) \in Nat
         /\ \A i \in DOMAIN pq[p] : pq[p][i].deadline <= P!Deadline(p)
         /\ p # P!Dynamic => P!Deadline(p) = now + Wait
<1>1. PICK q : q = pq[p]
  OBVIOUS
<1>2. /\ now \in Nat /\ q \in Seq(PrioEntries) /\ PrioQueue(p, q)
      /\ load \in LoadRecords
      /\ p # P!Dynamic => \A i \in DOMAIN q : q[i].deadline <= now + Wait
  BY <1>1, LoadTyped, AskedTyped DEF PrioIInv, PrioQueues
<1>3. Wait \in Nat /\ Delta \in Nat /\ Coef \in Nat /\ Bandwidth \in Nat \ {0}
  BY PrioConstants
<1>4. CASE p # P!Dynamic
  <2>1. P!Deadline(p) = now + Wait
    BY <1>4 DEF P!Deadline
  <2>2. QED
    BY <1>1, <1>2, <1>3, <1>4, <2>1
<1>5. CASE p = P!Dynamic
  <2>1. PICK dl : dl = now + ((load.io_queued + load.io_serviced) \div Bandwidth) * Coef
    OBVIOUS
  <2>2. dl \in Nat
    <3>1. load.io_queued + load.io_serviced \in Nat
      BY <1>2 DEF LoadRecords
    <3>2. PICK k : k = (load.io_queued + load.io_serviced) \div Bandwidth
      OBVIOUS
    <3>3. k \in Nat
      BY <1>3, <3>1, <3>2, DivBounds
    <3>4. k * Coef \in Nat
      BY <1>3, <3>3, ProductMonotone
    <3>5. QED
      BY <1>2, <2>1, <3>2, <3>4
  <2>3. P!Deadline(p) = IF q # <<>> /\ P!Last(q).deadline > dl
                        THEN P!Last(q).deadline + Delta ELSE dl
    BY <1>1, <1>5, <2>1 DEF P!Deadline, P!DynamicDeadline
  <2>4. CASE q = <<>>
    BY <1>1, <1>5, <2>2, <2>3, <2>4, DOMAIN <<>> = {}
  <2>5. CASE q # <<>>
    <3>1. Len(q) \in DOMAIN q /\ DOMAIN q = 1..Len(q) /\ Len(q) \in Nat
      BY <1>2, <2>5, EmptySeq
    <3>2. PICK l : l = q[Len(q)].deadline
      OBVIOUS
    <3>3. l \in Nat
      <4>1. q[Len(q)] \in PrioEntries
        BY <1>2, <3>1
      <4>2. QED
        BY <3>2, <4>1 DEF PrioEntries
    <3>4. ASSUME NEW i \in DOMAIN q
          PROVE  q[i].deadline <= l /\ q[i].deadline \in Nat
      <4>1. i <= Len(q) /\ q[i] \in PrioEntries
        BY <1>2, <3>1
      <4>2. QED
        BY <1>2, <3>1, <3>2, <4>1 DEF PrioQueue, PrioEntries
    <3>5. P!Deadline(p) = IF l > dl THEN l + Delta ELSE dl
      BY <2>3, <2>5, <3>2 DEF P!Last
    <3>6. P!Deadline(p) \in Nat /\ l <= P!Deadline(p)
      BY <1>3, <2>2, <3>3, <3>5
    <3>7. \A i \in DOMAIN q : q[i].deadline <= P!Deadline(p)
      BY <3>3, <3>4, <3>6
    <3>8. QED
      BY <1>1, <1>5, <3>6, <3>7
  <2>6. QED
    BY <2>4, <2>5
<1>6. QED
  BY <1>4, <1>5

(* A request arrives.                                                      *)
LEMMA PrioAddInv ==
  ASSUME PrioIInv, NEW r \in P!Requests, P!AddNewTask(r)
  PROVE  PrioIInv'
<1>1. PICK p, e : p = r[1] /\ e = [req |-> r, deadline |-> P!Deadline(p)]
  OBVIOUS
<1>2. PICK A : A = AskedIn(pq)
  OBVIOUS
<1>3. /\ r \notin A \cup busy \cup done
      /\ pq' = WithQueue(pq, p, Append(pq[p], e))
      /\ load' = [load EXCEPT !.num_queued = @ + 1, !.io_queued = @ + Count[r[2]]]
      /\ pool' = P!Wakeup(pool)
      /\ UNCHANGED <<now, busy, done>>
  BY <1>1, <1>2, PrioSame DEF P!AddNewTask, WithQueue
<1>4. /\ now \in Nat /\ pool \in PoolRecords /\ busy \in SUBSET P!Requests
      /\ PrioQueues(pq, busy \cup done) /\ A \in SUBSET P!Requests
      /\ load = LoadOf(A, busy)
      /\ \A d \in P!Priorities : \A i \in DOMAIN pq[d] :
           d # P!Dynamic => pq[d][i].deadline <= now + Wait
  BY <1>2, AskedTyped DEF PrioIInv
<1>5. /\ p \in P!Priorities /\ PrioQueue(p, pq[p])
      /\ pq \in [P!Priorities -> Seq(PrioEntries)]
  BY <1>1, <1>4, PrioConstants DEF PrioQueues
<1>6. /\ e \in PrioEntries /\ e.req = r /\ r[1] = p
      /\ \A i \in DOMAIN pq[p] : pq[p][i].deadline <= e.deadline
      /\ p # P!Dynamic => e.deadline = now + Wait
  BY <1>1, <1>5, DeadlineOK DEF PrioEntries
<1>7. PICK q : q = Append(pq[p], e)
  OBVIOUS
<1>8. /\ PrioQueue(p, q) /\ Asked(q) = Asked(pq[p]) \cup {r}
  <2>1. r \notin Asked(pq[p])
    BY <1>2, <1>3, <1>5 DEF AskedIn
  <2>2. QED
    BY <1>5, <1>6, <1>7, <2>1, PrioAppend
<1>9. PICK g : g = WithQueue(pq, p, q)
  OBVIOUS
<1>10. pq' = g
  BY <1>3, <1>7, <1>9
<1>11. g \in [P!Priorities -> Seq(PrioEntries)] /\ \A d \in P!Priorities : PrioQueue(d, g[d])
  BY <1>4, <1>5, <1>8, <1>9, WithQueueOK
<1>12. \A x : x \in AskedIn(g) <=>
         \/ x \in Asked(q)
         \/ x \in A /\ x[1] # p
  BY <1>2, <1>4, <1>5, <1>8, <1>9, WithQueueOK
<1>13. AskedIn(g) = A \cup {r}
  <2>1. \A x \in A : x \in Asked(pq[p]) <=> x[1] = p
    BY <1>2, <1>4, <1>5, AskedTyped
  <2>2. Asked(pq[p]) \subseteq A
    BY <1>2, <1>5 DEF AskedIn
  <2>3. QED
    BY <1>8, <1>12, <2>1, <2>2
<1>14. PrioQueues(g, busy \cup done)
  <2>1. AskedIn(g) \cap (busy \cup done) = {}
    BY <1>2, <1>3, <1>4, <1>13 DEF PrioQueues
  <2>2. QED
    BY <1>11, <2>1 DEF PrioQueues
<1>15. ASSUME NEW d \in P!Priorities, NEW i \in DOMAIN g[d], d # P!Dynamic
       PROVE  g[d][i].deadline <= now + Wait
  <2>1. CASE d = p
    <3>1. g[d] = Append(pq[p], e)
      BY <1>5, <1>7, <1>9, <2>1 DEF WithQueue
    <3>2. pq[p] \in Seq(PrioEntries)
      BY <1>5
    <3>3. \/ i \in DOMAIN pq[p] /\ g[d][i] = pq[p][i]
          \/ g[d][i] = e
      <4>1. PICK s, t : s = pq[p] /\ t = Append(s, e)
        OBVIOUS
      <4>2. /\ s \in Seq(PrioEntries) /\ t \in Seq(PrioEntries) /\ Len(t) = Len(s) + 1
            /\ t[Len(s) + 1] = e /\ \A j \in 1..Len(s) : t[j] = s[j]
        BY <1>6, <3>2, <4>1, AppendProperties
      <4>3. i \in DOMAIN t /\ DOMAIN t = 1..(Len(s) + 1) /\ DOMAIN s = 1..Len(s)
        BY <1>15, <3>1, <4>1, <4>2
      <4>4. i \in 1..Len(s) \/ i = Len(s) + 1
        BY <4>2, <4>3
      <4>5. QED
        BY <3>1, <4>1, <4>2, <4>3, <4>4
    <3>4. now + Wait \in Nat
      BY <1>4, PrioConstants
    <3>5. QED
      BY <1>4, <1>5, <1>6, <1>15, <2>1, <3>3, <3>4
  <2>2. CASE d # p
    <3>1. g[d] = pq[d]
      BY <1>5, <1>9, <2>2 DEF WithQueue
    <3>2. QED
      BY <1>4, <1>15, <3>1
  <2>3. QED
    BY <2>1, <2>2
<1>16. load' = LoadOf(A \cup {r}, busy)
  <2>1. IsFiniteSet(A) /\ r \notin A
    BY <1>3, <1>4, LoadTyped
  <2>2. Cardinality(A \cup {r}) = Cardinality(A) + 1
    BY <2>1, FS_AddElement
  <2>3. IO(A \cup {r}) = IO(A) + Count[r[2]]
    BY <1>4, <2>1, IoCounts
  <2>4. load = [num_queued |-> Cardinality(A), num_serviced |-> Cardinality(busy),
                io_queued |-> IO(A), io_serviced |-> IO(busy)]
    BY <1>4 DEF LoadOf
  <2>5. load' = [num_queued |-> Cardinality(A) + 1, num_serviced |-> Cardinality(busy),
                 io_queued |-> IO(A) + Count[r[2]], io_serviced |-> IO(busy)]
    BY <1>3, <2>4
  <2>6. QED
    BY <2>2, <2>3, <2>5 DEF LoadOf
<1>17. pool' \in PoolRecords
  BY <1>3, <1>4, PrioPool
<1>18. PrioQueues(pq', busy' \cup done')
  BY <1>3, <1>10, <1>14
<1>19. load' = LoadOf(AskedIn(pq'), busy')
  BY <1>3, <1>10, <1>13, <1>16
<1>20. \A d \in P!Priorities : \A i \in DOMAIN pq'[d] :
         d # P!Dynamic => pq'[d][i].deadline <= now' + Wait
  BY <1>3, <1>10, <1>15
<1>21. now' \in Nat /\ busy' \in SUBSET P!Requests
  BY <1>3, <1>4
<1>22. QED
  BY <1>17, <1>18, <1>19, <1>20, <1>21 DEF PrioIInv

(* Everything else that happens.                                           *)
LEMMA PrioNextInv ==
  ASSUME PrioIInv, P!Next
  PROVE  PrioIInv'
<1>1. /\ now \in Nat /\ pool \in PoolRecords /\ busy \in SUBSET P!Requests
      /\ PrioQueues(pq, busy \cup done) /\ AskedIn(pq) \in SUBSET P!Requests
      /\ load = LoadOf(AskedIn(pq), busy)
      /\ \A d \in P!Priorities : \A i \in DOMAIN pq[d] :
           d # P!Dynamic => pq[d][i].deadline <= now + Wait
  BY AskedTyped DEF PrioIInv
<1>2. ASSUME NEW r \in P!Requests, P!TaskCompletion(r)
      PROVE  PrioIInv'
  <2>1. /\ r \in busy /\ pool' = P!SignalIfLoaded(P!AddThread(pool))
        /\ load' = [load EXCEPT !.num_serviced = @ - 1, !.io_serviced = @ - Count[r[2]]]
        /\ busy' = busy \ {r} /\ done' = done \cup {r} /\ UNCHANGED <<now, pq>>
    BY <1>2 DEF P!TaskCompletion
  <2>2. PICK b : b = busy'
    OBVIOUS
  <2>3. b = busy \ {r} /\ b \in SUBSET P!Requests /\ busy' \cup done' = busy \cup done
    BY <1>1, <2>1, <2>2
  <2>4. load' = LoadOf(AskedIn(pq), b)
    <3>1. PICK c : c = Count[r[2]]
      OBVIOUS
    <3>2. Cardinality(b) = Cardinality(busy) - 1
      BY <1>1, <2>1, <2>3, LoadTyped, FS_RemoveElement
    <3>3. IO(b) = IO(busy) - c
      <4>1. c \in Nat /\ IO(b) \in Nat /\ IO(busy) = IO(b) + c
        BY <1>1, <2>1, <2>3, <3>1, PrioConstants, IoCounts
      <4>2. QED
        BY <4>1
    <3>4. load = [num_queued |-> Cardinality(AskedIn(pq)),
                  num_serviced |-> Cardinality(busy),
                  io_queued |-> IO(AskedIn(pq)), io_serviced |-> IO(busy)]
      BY <1>1 DEF LoadOf
    <3>5. load' = [num_queued |-> Cardinality(AskedIn(pq)),
                   num_serviced |-> Cardinality(busy) - 1,
                   io_queued |-> IO(AskedIn(pq)), io_serviced |-> IO(busy) - c]
      BY <2>1, <3>1, <3>4
    <3>6. QED
      BY <3>2, <3>3, <3>5 DEF LoadOf
  <2>5. load' = LoadOf(AskedIn(pq'), busy')
    BY <2>1, <2>2, <2>4
  <2>6. PrioQueues(pq', busy' \cup done')
    BY <1>1, <2>1, <2>3
  <2>7. pool' \in PoolRecords
    BY <1>1, <2>1, PrioPool
  <2>8. QED
    BY <1>1, <2>1, <2>2, <2>3, <2>5, <2>6, <2>7 DEF PrioIInv
<1>3. CASE P!Tick
  <2>1. now' = now + 1 /\ UNCHANGED <<pool, pq, load, busy, done>>
    BY <1>3 DEF P!Tick
  <2>2. PICK n : n = now'
    OBVIOUS
  <2>3. n \in Nat /\ n = now + 1
    BY <1>1, <2>1, <2>2
  <2>4. \A d \in P!Priorities : \A i \in DOMAIN pq[d] :
          d # P!Dynamic => pq[d][i].deadline <= n + Wait
    <3>1. ASSUME NEW d \in P!Priorities, NEW i \in DOMAIN pq[d], d # P!Dynamic
          PROVE  pq[d][i].deadline <= n + Wait
      <4>1. PICK l : l = pq[d][i].deadline
        OBVIOUS
      <4>2. l \in Nat
        <5>1. pq[d] \in Seq(PrioEntries)
          BY <1>1 DEF PrioQueues
        <5>2. pq[d][i] \in PrioEntries
          BY <5>1
        <5>3. QED
          BY <4>1, <5>2 DEF PrioEntries
      <4>3. l <= now + Wait /\ Wait \in Nat
        BY <1>1, <3>1, <4>1, PrioConstants
      <4>4. l <= n + Wait
        BY <1>1, <2>3, <4>2, <4>3
      <4>5. QED
        BY <4>1, <4>4
    <3>2. QED
      BY <3>1
  <2>5. PrioQueues(pq', busy' \cup done') /\ load' = LoadOf(AskedIn(pq'), busy')
    BY <1>1, <2>1
  <2>6. \A d \in P!Priorities : \A i \in DOMAIN pq'[d] :
          d # P!Dynamic => pq'[d][i].deadline <= now' + Wait
    BY <2>1, <2>2, <2>4
  <2>7. now' \in Nat /\ pool' \in PoolRecords /\ busy' \in SUBSET P!Requests
    BY <1>1, <2>1, <2>2, <2>3
  <2>8. QED
    BY <2>5, <2>6, <2>7 DEF PrioIInv
<1>4. QED
  BY <1>2, <1>3, PrioAddInv, PrioRunPoolInv DEF P!Next

LEMMA PrioInitInv ==
  ASSUME P!Init
  PROVE  PrioIInv
<1>1. /\ now = 0 /\ pq = [p \in P!Priorities |-> <<>>] /\ busy = {} /\ done = {}
      /\ load = [num_queued |-> 0, num_serviced |-> 0, io_queued |-> 0, io_serviced |-> 0]
      /\ pool = [P!StartedPool(NumThreads) EXCEPT !.run = FALSE, !.state = "Idle"]
  BY DEF P!Init, P!NoLoad
<1>2. pool \in PoolRecords
  <2>1. pool = [state |-> "Idle", run |-> FALSE, idle |-> NumThreads]
    BY <1>1 DEF P!StartedPool
  <2>2. QED
    BY <2>1, PrioConstants DEF PoolRecords, PoolStates
<1>3. <<>> \in Seq(PrioEntries) /\ DOMAIN <<>> = {}
  OBVIOUS
<1>4. \A p \in P!Priorities : PrioQueue(p, pq[p]) /\ Asked(pq[p]) = {} /\ DOMAIN pq[p] = {}
  BY <1>1, <1>3 DEF PrioQueue, Asked
<1>5. AskedIn(pq) = {}
  BY <1>4 DEF AskedIn
<1>6. PrioQueues(pq, busy \cup done)
  BY <1>1, <1>3, <1>4, <1>5 DEF PrioQueues
<1>7. load = LoadOf(AskedIn(pq), busy)
  BY <1>1, <1>5, FS_EmptySet, IoCounts DEF LoadOf
<1>8. QED
  BY <1>1, <1>2, <1>4, <1>6, <1>7 DEF PrioIInv

(* The inductive invariant of the priorities.  The load follows from what  *)
(* waits and is in service only because no request is in two places, and   *)
(* the deadlines of the other queue are sorted because none is further     *)
(* ahead than its fixed time.                                              *)
THEOREM PrioInvariance == Spec => []PrioInv
<1>1. Init => PrioInv
  BY PrioInitInv DEF Init, PrioInv
<1>2. PrioInv /\ [Next]_vars => PrioInv'
  <2> SUFFICES ASSUME PrioInv, [Next]_vars, algo' = "prio"
               PROVE  PrioIInv'
    BY DEF PrioInv
  <2>1. algo = "prio" /\ PrioIInv
    BY DEF Next, Tbf, TbfRule, Frr, Epoch, Prio, vars, PrioInv
  <2>2. CASE Next
    BY <2>1, <2>2, PrioNextInv DEF Next, Tbf, TbfRule, Frr, Epoch, Prio
  <2>3. CASE UNCHANGED vars
    BY <2>1, <2>3 DEF vars, poolVars, prioVars, PrioIInv
  <2>4. QED
    BY <2>2, <2>3
<1>3. QED
  BY <1>1, <1>2, PTL DEF Spec

(* The load that deadlines are computed from is that of the requests which *)
(* wait and are in service, and the requests of a queue wait in the order  *)
(* of their deadlines (nrsprio.cpp:61-129, 240-266).                       *)
THEOREM PrioLoadCounted == Spec => []LoadCounted
<1>1. PrioInv => LoadCounted
  <2> SUFFICES ASSUME PrioInv, algo = "prio"
               PROVE  P!LoadCounted
    BY DEF LoadCounted
  <2>1. load = LoadOf(AskedIn(pq), busy) /\ PrioQueues(pq, busy \cup done)
    BY DEF PrioInv, PrioIInv
  <2>2. load = [num_queued   |-> P!Cardinality(P!Queued),
                num_serviced |-> P!Cardinality(busy),
                io_queued    |-> P!FoldSet(LAMBDA r, n : n + Count[r[2]], 0, P!Queued),
                io_serviced  |-> P!FoldSet(LAMBDA r, n : n + Count[r[2]], 0, busy)]
    BY <2>1, PrioSame DEF LoadOf, IO
  <2>3. \A p \in P!Priorities : \A i, j \in DOMAIN pq[p] :
          i <= j => pq[p][i].deadline <= pq[p][j].deadline
    BY <2>1 DEF PrioQueues, PrioQueue
  <2>4. QED
    BY <2>2, <2>3 DEF P!LoadCounted
<1>2. QED
  BY <1>1, PrioInvariance, PTL

(* In its slice a class goes first, and a request is handed out only with  *)
(* all those of a higher priority (nrsepoch.cpp:146-181,                   *)
(* nrsprio.cpp:136-144).                                                   *)
THEOREM PreferredGoesFirst == Spec => PreferredFirst
<1>1. EpochInv /\ PrioInv /\ [Next]_vars
        => [/\ algo = "epoch" => E!CurrentGoesFirst
            /\ algo = "prio" => P!HighestGoesFirst]_vars
  <2> SUFFICES ASSUME EpochInv, PrioInv, Next
               PROVE  /\ algo = "epoch" => E!CurrentGoesFirst
                      /\ algo = "prio" => P!HighestGoesFirst
    OBVIOUS
  <2>1. ASSUME algo = "epoch"
        PROVE  E!CurrentGoesFirst
    <3>1. E!Next /\ EpochIInv
      BY <2>1 DEF Next, Tbf, TbfRule, Frr, Epoch, Prio, EpochInv
    <3>2. CASE E!RunPool
      BY <3>1, <3>2, EpochRunPoolInv
    <3>3. CASE ~E!RunPool
      <4>1. busy' \subseteq busy
        BY <3>1, <3>3
           DEF E!Next, E!AddNewTask, E!TaskCompletion, E!TimeSliceExpire, E!Tick
      <4>2. QED
        BY <3>1, <4>1, EpochNothingHanded
    <3>4. QED
      BY <3>2, <3>3
  <2>2. ASSUME algo = "prio"
        PROVE  P!HighestGoesFirst
    <3>1. P!Next /\ PrioIInv
      BY <2>2 DEF Next, Tbf, TbfRule, Frr, Epoch, Prio, PrioInv
    <3>2. CASE P!RunPool
      BY <3>1, <3>2, PrioRunPoolInv
    <3>3. CASE ~P!RunPool
      BY <3>1, <3>3
         DEF P!Next, P!AddNewTask, P!TaskCompletion, P!Tick, P!HighestGoesFirst
    <3>4. QED
      BY <3>2, <3>3
  <2>3. QED
    BY <2>1, <2>2
<1>2. QED
  BY <1>1, EpochInvariance, PrioInvariance, PTL DEF Spec, PreferredFirst
-----------------------------------------------------------------------------
(* Round robin.  The state of the scheduler and of the pool, with the      *)
(* requests that a run of the pool has handed out.                         *)
FrrEntries == [req : F!Requests, deadline : Nat]

FrrRecords ==
  [pool : [state : PoolStates, run : BOOLEAN, idle : Nat],
   oq : [Objects -> SUBSET F!Requests], queued : [Objects -> BOOLEAN],
   Q : Seq(Objects), wq : Objects \cup {None}, quantum : Nat,
   dQ : Seq(FrrEntries), wait : [Objects -> Nat], out : SUBSET F!Requests]

IsFrrState(s) ==
  s = [pool |-> s.pool, oq |-> s.oq, queued |-> s.queued, Q |-> s.Q, wq |-> s.wq,
       quantum |-> s.quantum, dQ |-> s.dQ, wait |-> s.wait, out |-> s.out]

FrrNow == [pool |-> pool, oq |-> oq, queued |-> queued, Q |-> Q, wq |-> wq,
           quantum |-> quantum, dQ |-> dQ, wait |-> wait, out |-> {}]

\* The queue of deadlines q without request r.
Dropped(q, r) == F!RemoveFirstMatch(q, LAMBDA e : e.req = r)

\* A request waits at its object or is in service or completed, and the
\* threads of the pool are idle or serve one each.
FrrPlaces(s) ==
  /\ s \in FrrRecords
  /\ \A o \in Objects : /\ s.oq[o] \subseteq {o} \X (1..PerObject[o])
                        /\ s.oq[o] \cap (busy \cup s.out \cup done) = {}
  /\ s.pool.idle + Cardinality(busy \cup s.out) = FrrThreads
  /\ s.pool.idle = 0 <=> s.pool.state = "FullLoad"

\* An object in the global queue or with the turn has requests.
FrrTurn(s) ==
  /\ s.quantum <= Quantum
  /\ s.wq # None => s.quantum >= 1 /\ s.oq[s.wq] # {}
  /\ Distinct(s.Q)
  /\ \A o \in Elements(s.Q) : s.queued[o] /\ o # s.wq /\ s.oq[o] # {}

\* What is left of the turn.
TurnLeft(s) == IF s.wq = None THEN 0 ELSE s.quantum

\* Without deadlines every object with requests is in the global queue or has
\* the turn, and what it has waited for and the quanta of those before it in
\* the queue are no more than one quantum of each.
FrrWaits(s) ==
  /\ s.dQ = <<>>
  /\ \A o \in Objects : /\ s.queued[o] => o \in Elements(s.Q)
                        /\ s.oq[o] # {} => o \in Elements(s.Q) \cup {s.wq}
                        /\ s.oq[o] = {} => s.wait[o] = 0
  /\ \A i \in DOMAIN s.Q :
       s.wait[s.Q[i]] + TurnLeft(s) + i * Quantum <= Cardinality(Objects) * Quantum

FrrOff(s) == FrrWaits(s) /\ (s.wq # None => s.wait[s.wq] = 0)

\* With deadlines the queue d of deadlines holds the requests that wait in f,
\* each once, in the order of their deadlines.
FrrDeadlines(d, f) ==
  /\ \A i, j \in DOMAIN d : /\ d[i].req = d[j].req => i = j
                            /\ i <= j => d[i].deadline <= d[j].deadline
  /\ \A i \in DOMAIN d : \E o \in Objects : d[i].req \in f[o]
  /\ \A o \in Objects : \A r \in f[o] : \E i \in DOMAIN d : d[i].req = r

\* Nothing is left with an elapsed deadline before that of one handed out.
FrrExpired(d, out) ==
  /\ Elements(d) \subseteq Elements(dQ)
  /\ \A e, f \in Elements(dQ) : e.req = f.req => e = f
  /\ \A e \in Elements(dQ), f \in Elements(d) :
       e.req \in out /\ f.deadline <= now => e.deadline <= f.deadline

FrrModes(s) ==
  /\ mode \in {"OFF", "2L"}
  /\ mode = "OFF" => s.dQ = <<>>
  /\ mode = "2L" => FrrDeadlines(s.dQ, s.oq) /\ FrrExpired(s.dQ, s.out)

FrrStates ==
  {s \in FrrRecords : /\ FrrPlaces(s) /\ FrrTurn(s) /\ FrrModes(s)
                      /\ mode = "OFF" => FrrOff(s)}

FrrIInv ==
  /\ mode \in Modes /\ now \in 0..FrrLastTick
  /\ busy \in SUBSET F!Requests /\ done \in SUBSET F!Requests
  /\ FrrNow \in FrrStates

FrrInv == algo = "frr" => FrrIInv

LEMMA FrrConstants ==
  /\ IsFiniteSet(Objects) /\ None \notin Objects
  /\ {Quantum, FrrThreads} \subseteq Nat \ {0} /\ Slack \in Nat
  /\ IsFiniteSet(F!Requests)
  /\ \A o \in Objects : PerObject[o] \in Nat
  /\ \A r : r \in F!Requests <=> \E o \in Objects : r \in {o} \X (1..PerObject[o])
<1>1. /\ IsFiniteSet(Objects) /\ None \notin Objects /\ Slack \in Nat
      /\ {Quantum, FrrThreads} \subseteq Nat \ {0} /\ PerObject \in [Objects -> Nat]
  <2>1. IsFiniteSet(Objects) <=> F!IsFiniteSet(Objects)
    BY DEF F!IsFiniteSet, IsFiniteSet
  <2>2. QED
    BY <2>1, SchedulersAssumption DEF SchedulersAssumption, F!NrsFrrAssumption
<1>2. \A o \in Objects : PerObject[o] \in Nat
  BY <1>1
<1>3. \A r : r \in F!Requests <=> \E o \in Objects : r \in {o} \X (1..PerObject[o])
  BY DEF F!Requests
<1>4. IsFiniteSet(F!Requests)
  <2> DEFINE sets == {{o} \X (1..PerObject[o]) : o \in Objects}
  <2>1. IsFiniteSet(sets)
    <3>1. PICK f : f = [o \in Objects |-> {o} \X (1..PerObject[o])]
      OBVIOUS
    <3>2. f \in Surjection(Objects, sets)
      BY <3>1 DEF Surjection
    <3> HIDE DEF sets
    <3>3. QED
      BY <1>1, <3>2, FS_Surjection
  <2>2. \A o \in Objects : IsFiniteSet({o} \X (1..PerObject[o]))
    <3> SUFFICES ASSUME NEW o \in Objects
                 PROVE  IsFiniteSet({o} \X (1..PerObject[o]))
      OBVIOUS
    <3>1. PerObject[o] \in Int /\ 1 \in Int
      BY <1>2
    <3>2. IsFiniteSet(1..PerObject[o])
      BY <3>1, FS_Interval, Zenon
    <3>3. QED
      BY <3>2, FS_Singleton, FS_Product
  <2>3. F!Requests = UNION sets /\ \A S \in sets : IsFiniteSet(S)
    BY <2>2 DEF F!Requests
  <2> HIDE DEF sets
  <2>4. QED
    BY <2>1, <2>3, FS_UNION
<1>5. QED
  BY <1>1, <1>2, <1>3, <1>4

\* The state s with the request r handed out.
HandedOut(s, r, h) ==
  /\ IsFrrState(h)
  /\ h.oq = [s.oq EXCEPT ![r[1]] = s.oq[r[1]] \ {r}]
  /\ h.pool = F!TakeThreads(s.pool, 1)
  /\ h.dQ = Dropped(s.dQ, r)
  /\ h.wait = [o \in Objects |-> IF o = r[1] \/ s.oq[o] = {} THEN 0 ELSE s.wait[o] + 1]
  /\ h.out = s.out \cup {r}
  /\ h.queued = s.queued /\ h.Q = s.Q /\ h.wq = s.wq /\ h.quantum = s.quantum

LEMMA HandOutFields ==
  ASSUME NEW s \in FrrRecords, NEW r \in F!Requests, NEW h, h = F!HandOut(s, r),
         r[1] \in Objects
  PROVE  HandedOut(s, r, h)
<1>1. IsFrrState(h)
  BY DEF F!HandOut, FrrRecords, IsFrrState
<1>2. QED
  BY <1>1 DEF F!HandOut, FrrRecords, Dropped, HandedOut

(* A thread takes a waiting request.                                       *)
LEMMA HandOutOK ==
  ASSUME busy \in SUBSET F!Requests, NEW s, FrrPlaces(s), s.pool.state = "Run",
         NEW p \in Objects, NEW r \in s.oq[p], NEW h, h = F!HandOut(s, r),
         h.dQ \in Seq(FrrEntries)
  PROVE  /\ FrrPlaces(h) /\ r[1] = p /\ r \in F!Requests
         /\ h.oq[p] = s.oq[p] \ {r}
         /\ \A o \in Objects : o # p => h.oq[o] = s.oq[o]
         /\ \A o \in Objects : h.wait[o] = IF o = p \/ s.oq[o] = {} THEN 0
                                           ELSE s.wait[o] + 1
<1>1. s \in FrrRecords /\ r \in {p} \X (1..PerObject[p]) /\ r \notin busy \cup s.out \cup done
  BY DEF FrrPlaces
<1>2. r[1] = p /\ r \in F!Requests
  BY <1>1, FrrConstants
<1>3. /\ IsFrrState(h)
      /\ h.oq = [s.oq EXCEPT ![p] = s.oq[p] \ {r}]
      /\ h.pool = F!TakeThreads(s.pool, 1)
      /\ h.wait = [o \in Objects |-> IF o = p \/ s.oq[o] = {} THEN 0 ELSE s.wait[o] + 1]
      /\ h.out = s.out \cup {r}
      /\ h.queued = s.queued /\ h.Q = s.Q /\ h.wq = s.wq /\ h.quantum = s.quantum
  <2>1. r[1] \in Objects
    BY <1>2
  <2>2. HandedOut(s, r, h)
    BY <1>1, <1>2, <2>1, HandOutFields
  <2>3. QED
    BY <1>2, <2>2 DEF HandedOut
<1>4. /\ s.oq \in [Objects -> SUBSET F!Requests] /\ s.wait \in [Objects -> Nat]
      /\ s.pool \in [state : PoolStates, run : BOOLEAN, idle : Nat]
      /\ s.queued \in [Objects -> BOOLEAN] /\ s.Q \in Seq(Objects)
      /\ s.wq \in Objects \cup {None} /\ s.quantum \in Nat /\ s.out \in SUBSET F!Requests
  BY <1>1 DEF FrrRecords
<1>5. /\ h.oq \in [Objects -> SUBSET F!Requests]
      /\ h.oq[p] = s.oq[p] \ {r} /\ \A o \in Objects : o # p => h.oq[o] = s.oq[o]
  BY <1>3, <1>4
<1>6. /\ h.wait \in [Objects -> Nat]
      /\ \A o \in Objects : h.wait[o] = IF o = p \/ s.oq[o] = {} THEN 0 ELSE s.wait[o] + 1
  BY <1>3, <1>4
<1>7. /\ h.pool \in [state : PoolStates, run : BOOLEAN, idle : Nat]
      /\ h.pool.idle = s.pool.idle - 1
      /\ h.pool.idle = 0 <=> h.pool.state = "FullLoad"
  <2>1. s.pool.idle \in Nat /\ s.pool.idle >= 1 /\ s.pool.run \in BOOLEAN
    BY <1>4 DEF FrrPlaces
  <2>2. h.pool = [state |-> IF s.pool.idle = 1 THEN "FullLoad" ELSE "Run",
                  run |-> s.pool.run, idle |-> s.pool.idle - 1]
    BY <1>3, <2>1 DEF F!TakeThreads
  <2>3. QED
    BY <2>1, <2>2 DEF PoolStates
<1>8. h.pool.idle + Cardinality(busy \cup h.out) = FrrThreads
  <2>1. PICK B : B = busy \cup s.out
    OBVIOUS
  <2>2. IsFiniteSet(B) /\ r \notin B /\ busy \cup h.out = B \cup {r}
    BY <1>1, <1>3, <1>4, <2>1, FrrConstants, FS_Subset
  <2>3. Cardinality(B \cup {r}) = Cardinality(B) + 1 /\ Cardinality(B) \in Nat
    BY <2>2, FS_AddElement, FS_CardinalityType
  <2>4. s.pool.idle + Cardinality(B) = FrrThreads /\ s.pool.idle \in Nat
    BY <1>4, <2>1 DEF FrrPlaces
  <2>5. Cardinality(busy \cup h.out) = Cardinality(B) + 1
    BY <2>2, <2>3, Zenon
  <2>6. QED
    BY <1>7, <2>3, <2>4, <2>5
<1>9. ASSUME NEW o \in Objects
      PROVE  /\ h.oq[o] \subseteq {o} \X (1..PerObject[o])
             /\ h.oq[o] \cap (busy \cup h.out \cup done) = {}
  <2>1. /\ s.oq[o] \subseteq {o} \X (1..PerObject[o])
        /\ s.oq[o] \cap (busy \cup s.out \cup done) = {}
        /\ h.oq[o] \subseteq s.oq[o]
    BY <1>5 DEF FrrPlaces
  <2>2. r \notin h.oq[o]
    <3>1. CASE o = p
      BY <1>5, <3>1
    <3>2. CASE o # p
      BY <1>2, <2>1, <3>2
    <3>3. QED
      BY <3>1, <3>2
  <2>3. QED
    BY <1>3, <2>1, <2>2
<1>10. h \in FrrRecords
  <2>1. h.out \in SUBSET F!Requests
    BY <1>2, <1>3, <1>4
  <2>2. QED
    BY <1>3, <1>4, <1>5, <1>6, <1>7, <2>1 DEF FrrRecords, IsFrrState
<1>11. QED
  BY <1>2, <1>5, <1>6, <1>7, <1>8, <1>9, <1>10 DEF FrrPlaces

(* The first request of an object queue in the order of the offsets.       *)
LEMMA LowestOffsetOK ==
  ASSUME NEW p, NEW n, NEW S \in SUBSET ({p} \X (1..n)), S # {}, n \in Nat
  PROVE  F!LowestOffset(S) \in S
<1> DEFINE V == {r[2] : r \in S}
<1>1. V \in SUBSET Nat /\ V # {}
  OBVIOUS
<1>2. PICK v \in V : \A w \in V : v <= w
  <2> HIDE DEF V
  <2>1. QED
    BY <1>1, LeastNat
<1>3. PICK r \in S : r[2] = v
  BY <1>2
<1>4. \A t \in S \ {r} : F!OffsetLess(r, t)
  <2>1. \A t \in S : t = <<p, t[2]>> /\ t[2] \in V /\ t[2] \in Nat
    OBVIOUS
  <2>2. ASSUME NEW t \in S \ {r}
        PROVE  r[2] < t[2]
    <3>1. t[2] # r[2] /\ r[2] <= t[2]
      BY <1>2, <1>3, <2>1, <2>2
    <3>2. QED
      BY <2>1, <3>1
  <2>3. QED
    BY <2>2 DEF F!OffsetLess
<1>5. QED
  BY <1>4 DEF F!LowestOffset

(* A request that is in the queue of deadlines at place i leaves it.       *)
LEMMA DroppedOK ==
  ASSUME NEW q \in Seq(FrrEntries), NEW i \in DOMAIN q,
         \A j \in DOMAIN q : q[j].req = q[i].req => j = i
  PROVE  Dropped(q, q[i].req) = F!RemoveAt(q, i)
<1> DEFINE I == {j \in 1..Len(q) : q[j].req = q[i].req}
<1>1. DOMAIN q = 1..Len(q) /\ i \in 1..Len(q) /\ i \in Nat
  OBVIOUS
<1>2. I = {i}
  BY <1>1
<1>3. F!Min(I) = i
  BY <1>1, <1>2 DEF F!Min
<1>4. F!SelectInSeq(q, LAMBDA e : e.req = q[i].req) = IF I # {} THEN F!Min(I) ELSE 0
  BY DEF F!SelectInSeq
<1>5. F!SelectInSeq(q, LAMBDA e : e.req = q[i].req) = i
  BY <1>2, <1>3, <1>4
<1>6. \E j \in 1..Len(q) : q[j].req = q[i].req
  BY <1>1
<1>7. QED
  BY <1>5, <1>6 DEF Dropped, F!RemoveFirstMatch

(* What is left of a queue of deadlines without the entry at place i.      *)
LEMMA DeadlinesLeft ==
  ASSUME NEW d \in Seq(FrrEntries), NEW f, FrrDeadlines(d, f), NEW p \in Objects,
         NEW r \in f[p], NEW g, \A o \in Objects : g[o] = f[o] \ {r},
         NEW out, FrrExpired(d, out),
         \A e, x \in Elements(d) :
           e.req = r /\ x.deadline <= now => e.deadline <= x.deadline
  PROVE  /\ Dropped(d, r) \in Seq(FrrEntries)
         /\ FrrDeadlines(Dropped(d, r), g)
         /\ FrrExpired(Dropped(d, r), out \cup {r})
<1>1. PICK i \in DOMAIN d : d[i].req = r
  BY DEF FrrDeadlines
<1>2. DOMAIN d = 1..Len(d) /\ i \in 1..Len(d)
  OBVIOUS
<1>3. PICK t : t = F!RemoveAt(d, i)
  OBVIOUS
<1>4. Dropped(d, r) = t
  BY <1>1, <1>3, DroppedOK DEF FrrDeadlines
<1>5. t \in Seq(FrrEntries) /\ LeftOut(d, i, t)
  BY <1>2, <1>3, RemoveAtOK DEF F!RemoveAt, Without
<1>6. FrrDeadlines(t, g)
  <2>1. ASSUME NEW j \in DOMAIN t, NEW k \in DOMAIN t
        PROVE  /\ t[j].req = t[k].req => j = k
               /\ j <= k => t[j].deadline <= t[k].deadline
    BY <1>5, SMTT(60) DEF LeftOut, FrrDeadlines
  <2>2. ASSUME NEW j \in DOMAIN t
        PROVE  \E o \in Objects : t[j].req \in g[o]
    <3>1. Skip(i, j) \in DOMAIN d /\ Skip(i, j) # i /\ t[j] = d[Skip(i, j)]
      BY <1>5 DEF LeftOut
    <3>2. t[j].req # r
      BY <1>1, <3>1 DEF FrrDeadlines
    <3>3. QED
      BY <3>1, <3>2 DEF FrrDeadlines
  <2>3. ASSUME NEW o \in Objects, NEW x \in g[o]
        PROVE  \E j \in DOMAIN t : t[j].req = x
    <3>1. PICK k \in DOMAIN d : d[k].req = x
      BY <2>3 DEF FrrDeadlines
    <3>2. k # i
      BY <1>1, <2>3, <3>1
    <3>3. QED
      BY <1>5, <3>1, <3>2 DEF LeftOut
  <2>4. QED
    BY <2>1, <2>2, <2>3 DEF FrrDeadlines
<1>7. FrrExpired(t, out \cup {r})
  <2>1. Elements(t) \subseteq Elements(d)
    BY <1>5 DEF LeftOut, Elements
  <2>2. ASSUME NEW e \in Elements(dQ), NEW x \in Elements(t),
               e.req \in out \cup {r}, x.deadline <= now
        PROVE  e.deadline <= x.deadline
    <3>1. CASE e.req \in out
      BY <2>1, <2>2, <3>1 DEF FrrExpired
    <3>2. CASE e.req = r
      <4>1. d[i] \in Elements(d) /\ d[i] \in Elements(dQ)
        BY DEF Elements, FrrExpired
      <4>2. e = d[i]
        BY <1>1, <2>2, <3>2, <4>1 DEF FrrExpired
      <4>3. QED
        BY <2>1, <2>2, <3>2, <4>1, <4>2
    <3>3. QED
      BY <2>2, <3>1, <3>2
  <2>3. QED
    BY <2>1, <2>2 DEF FrrExpired
<1>8. QED
  BY <1>4, <1>5, <1>6, <1>7

LEMMA FrrTyped ==
  ASSUME NEW s \in FrrRecords
  PROVE  /\ IsFrrState(s)
         /\ s.oq \in [Objects -> SUBSET F!Requests] /\ s.queued \in [Objects -> BOOLEAN]
         /\ s.Q \in Seq(Objects) /\ s.wq \in Objects \cup {None} /\ s.quantum \in Nat
         /\ s.dQ \in Seq(FrrEntries) /\ s.wait \in [Objects -> Nat]
         /\ s.out \in SUBSET F!Requests
         /\ s.pool \in [state : PoolStates, run : BOOLEAN, idle : Nat]
BY DEF FrrRecords, IsFrrState

\* The state h after request r of p has been handed out in state s.
FrrServed(s, p, h) ==
  /\ FrrPlaces(h) /\ FrrModes(h)
  /\ h.oq[p] \subseteq s.oq[p]
  /\ \A o \in Objects : o # p => h.oq[o] = s.oq[o]
  /\ \A o \in Objects : h.wait[o] = IF o = p \/ s.oq[o] = {} THEN 0 ELSE s.wait[o] + 1
  /\ h.queued = s.queued /\ h.Q = s.Q /\ h.wq = s.wq /\ h.quantum = s.quantum

LEMMA HandOutGood ==
  ASSUME busy \in SUBSET F!Requests, NEW s, FrrPlaces(s), FrrModes(s),
         s.pool.state = "Run", NEW p \in Objects, NEW r \in s.oq[p],
         \A e, x \in Elements(s.dQ) :
           e.req = r /\ x.deadline <= now => e.deadline <= x.deadline,
         NEW h, h = F!HandOut(s, r)
  PROVE  FrrServed(s, p, h)
<1>1. s \in FrrRecords /\ \A o \in Objects : s.oq[o] \subseteq {o} \X (1..PerObject[o])
  BY DEF FrrPlaces
<1>2. r[1] = p /\ r \in F!Requests
  BY <1>1, FrrConstants
<1>3. HandedOut(s, r, h)
  <2>1. r[1] \in Objects
    BY <1>2
  <2>2. QED
    BY <1>1, <1>2, <2>1, HandOutFields
<1>4. /\ h.dQ = Dropped(s.dQ, r) /\ h.out = s.out \cup {r}
      /\ h.queued = s.queued /\ h.Q = s.Q /\ h.wq = s.wq /\ h.quantum = s.quantum
  BY <1>3 DEF HandedOut
<1>5. \A o \in Objects : h.oq[o] = s.oq[o] \ {r}
  <2>1. h.oq = [s.oq EXCEPT ![p] = s.oq[p] \ {r}]
    BY <1>2, <1>3 DEF HandedOut
  <2>2. s.oq \in [Objects -> SUBSET F!Requests]
    BY <1>1, FrrTyped
  <2>3. \A o \in Objects : o # p => r \notin s.oq[o]
    BY <1>1, <1>2
  <2>4. \A o \in Objects : o # p => h.oq[o] = s.oq[o] /\ s.oq[o] \ {r} = s.oq[o]
    BY <2>1, <2>2, <2>3
  <2>5. h.oq[p] = s.oq[p] \ {r}
    BY <2>1, <2>2
  <2>6. QED
    BY <2>4, <2>5
<1>6. h.dQ \in Seq(FrrEntries) /\ FrrModes(h)
  <2>1. s.dQ \in Seq(FrrEntries)
    BY <1>1, FrrTyped
  <2>2. CASE mode = "OFF"
    <3>1. s.dQ = <<>> /\ Len(<<>>) = 0
      BY <2>2 DEF FrrModes
    <3>2. Dropped(s.dQ, r) = s.dQ
      BY <3>1 DEF Dropped, F!RemoveFirstMatch
    <3>3. QED
      BY <1>4, <2>1, <2>2, <3>1, <3>2 DEF FrrModes
  <2>3. CASE mode = "2L"
    <3>1. FrrDeadlines(s.dQ, s.oq) /\ FrrExpired(s.dQ, s.out)
      BY <2>3 DEF FrrModes
    <3>2. /\ Dropped(s.dQ, r) \in Seq(FrrEntries)
          /\ FrrDeadlines(Dropped(s.dQ, r), h.oq)
          /\ FrrExpired(Dropped(s.dQ, r), s.out \cup {r})
      BY <1>5, <2>1, <3>1, DeadlinesLeft, ZenonT(60)
    <3>3. QED
      BY <1>4, <2>3, <3>2 DEF FrrModes
  <2>4. QED
    BY <2>2, <2>3 DEF FrrModes
<1>7. /\ FrrPlaces(h)
      /\ \A o \in Objects : o # p => h.oq[o] = s.oq[o]
      /\ \A o \in Objects : h.wait[o] = IF o = p \/ s.oq[o] = {} THEN 0
                                        ELSE s.wait[o] + 1
  BY <1>6, HandOutOK
<1>8. QED
  BY <1>4, <1>5, <1>6, <1>7 DEF FrrServed

(* The state h with the turn w, the global queue q and the flags f.        *)
Requeued(h, w, q, f) == [h EXCEPT !.wq = w, !.Q = q, !.queued = f]

OnlyRequeued(h, w, q, f, u) ==
  /\ u \in FrrRecords /\ FrrPlaces(u) /\ FrrModes(u)
  /\ u.wq = w /\ u.Q = q /\ u.queued = f
  /\ u.oq = h.oq /\ u.wait = h.wait /\ u.quantum = h.quantum /\ u.dQ = h.dQ

LEMMA RequeuedOK ==
  ASSUME NEW h, FrrPlaces(h), FrrModes(h), NEW w \in Objects \cup {None},
         NEW q \in Seq(Objects), NEW f \in [Objects -> BOOLEAN],
         NEW u, u = Requeued(h, w, q, f)
  PROVE  OnlyRequeued(h, w, q, f, u)
<1>1. h \in FrrRecords
  BY DEF FrrPlaces
<1>2. u = [pool |-> h.pool, oq |-> h.oq, queued |-> f, Q |-> q, wq |-> w,
           quantum |-> h.quantum, dQ |-> h.dQ, wait |-> h.wait, out |-> h.out]
  <2>1. IsFrrState(h)
    BY <1>1, FrrTyped
  <2>2. QED
    BY <2>1 DEF IsFrrState, Requeued
<1>3. u \in FrrRecords
  BY <1>1, <1>2, FrrTyped DEF FrrRecords
<1>4. /\ u.wq = w /\ u.Q = q /\ u.queued = f /\ u.pool = h.pool /\ u.out = h.out
      /\ u.oq = h.oq /\ u.wait = h.wait /\ u.quantum = h.quantum /\ u.dQ = h.dQ
  BY <1>2
<1>5. FrrPlaces(u) /\ FrrModes(u)
  BY <1>3, <1>4 DEF FrrPlaces, FrrModes
<1>6. QED
  BY <1>3, <1>4, <1>5 DEF OnlyRequeued

(* A queue of objects without repetitions is no longer than there are      *)
(* objects.                                                                *)
LEMMA DistinctLength ==
  ASSUME NEW q \in Seq(Objects), Distinct(q)
  PROVE  Cardinality(Objects) \in Nat /\ Len(q) <= Cardinality(Objects)
<1>1. IsFiniteSet(Objects)
  BY FrrConstants
<1>2. PICK z : z = Prefix(q, Len(q))
  OBVIOUS
<1>3. Cardinality(z) = Len(q) /\ z \subseteq Elements(q)
  BY <1>2, PrefixOfInjective, Len(q) \in 0..Len(q)
<1>4. Elements(q) \subseteq Objects
  BY DEF Elements
<1>5. QED
  BY <1>1, <1>3, <1>4, FS_Subset, FS_CardinalityType

(* A queue of objects that o joins.                                        *)
LEMMA JoinOK ==
  ASSUME NEW q \in Seq(Objects), Distinct(q), NEW o \in Objects \ Elements(q)
  PROVE  /\ Append(q, o) \in Seq(Objects) /\ Distinct(Append(q, o))
         /\ Elements(Append(q, o)) = Elements(q) \cup {o}
         /\ Len(q) + 1 <= Cardinality(Objects)
         /\ \A w \in Objects \ (Elements(q) \cup {o}) : Len(q) + 2 <= Cardinality(Objects)
<1>1. /\ Append(q, o) \in Seq(Objects) /\ Distinct(Append(q, o))
      /\ Elements(Append(q, o)) = Elements(q) \cup {o}
  BY AppendToDistinct
<1>2. Len(Append(q, o)) = Len(q) + 1 /\ Len(q) \in Nat
  OBVIOUS
<1>3. Len(q) + 1 <= Cardinality(Objects)
  BY <1>1, <1>2, DistinctLength
<1>4. ASSUME NEW w \in Objects \ (Elements(q) \cup {o})
      PROVE  Len(q) + 2 <= Cardinality(Objects)
  <2>1. PICK t : t = Append(q, o)
    OBVIOUS
  <2>2. t \in Seq(Objects) /\ Distinct(t) /\ w \notin Elements(t) /\ Len(t) = Len(q) + 1
    BY <1>1, <1>2, <1>4, <2>1
  <2>3. PICK v : v = Append(t, w)
    OBVIOUS
  <2>4. v \in Seq(Objects) /\ Distinct(v)
    BY <1>4, <2>2, <2>3, AppendToDistinct
  <2>5. Len(v) = Len(q) + 2
    BY <1>2, <2>2, <2>3
  <2>6. QED
    BY <2>4, <2>5, DistinctLength
<1>5. QED
  BY <1>1, <1>3, <1>4

\* The state g after a work queue has been chosen in state s.
FrrTurned(s, g) ==
  /\ FrrPlaces(g) /\ FrrModes(g) /\ FrrTurn(g) /\ g.pool = s.pool /\ g.dQ = s.dQ
  /\ mode = "OFF" => FrrWaits(g)
  /\ g.wq = None => g = s

(* The object that has waited longest has its turn.                        *)
LEMMA GetWorkQueueOK ==
  ASSUME NEW s \in FrrStates, NEW g, g = F!GetWorkQueue(s)
  PROVE  FrrTurned(s, g)
<1>1. /\ s \in FrrRecords /\ FrrPlaces(s) /\ FrrTurn(s) /\ FrrModes(s)
      /\ mode = "OFF" => FrrWaits(s)
  BY DEF FrrStates, FrrOff
<1>2. CASE s.wq # None \/ s.Q = <<>>
  BY <1>1, <1>2 DEF F!GetWorkQueue, FrrTurned
<1>3. CASE s.wq = None /\ s.Q # <<>>
  <2>1. PICK o, q : o = Head(s.Q) /\ q = Tail(s.Q)
    OBVIOUS
  <2>2. s.Q \in Seq(Objects) /\ Distinct(s.Q) /\ s.queued \in [Objects -> BOOLEAN]
    BY <1>1, FrrTyped DEF FrrTurn
  <2>3. /\ o \in Objects /\ o \in Elements(s.Q) /\ q \in Seq(Objects)
        /\ Distinct(q) /\ Elements(q) = Elements(s.Q) \ {o}
    BY <1>3, <2>1, <2>2, TailOfDistinct
  <2>4. PICK f : f = [s.queued EXCEPT ![o] = FALSE]
    OBVIOUS
  <2>5. /\ f \in [Objects -> BOOLEAN] /\ f[o] = FALSE
        /\ \A x \in Objects : x # o => f[x] = s.queued[x]
    BY <2>2, <2>3, <2>4
  <2>6. PICK h : h = [s EXCEPT !.quantum = Quantum]
    OBVIOUS
  <2>7. g = Requeued(h, o, q, f)
    <3>1. g = [s EXCEPT !.wq = o, !.Q = q, !.queued = f, !.quantum = Quantum]
      BY <1>1, <1>3, <2>1, <2>4, FrrTyped DEF F!GetWorkQueue, IsFrrState
    <3>2. QED
      BY <1>1, <2>6, <3>1, FrrTyped DEF Requeued, IsFrrState
  <2>8. /\ FrrPlaces(h) /\ FrrModes(h) /\ h.quantum = Quantum
        /\ h.pool = s.pool /\ h.oq = s.oq /\ h.wait = s.wait /\ h.dQ = s.dQ
    <3>1. h = [pool |-> s.pool, oq |-> s.oq, queued |-> s.queued, Q |-> s.Q,
               wq |-> s.wq, quantum |-> Quantum, dQ |-> s.dQ, wait |-> s.wait,
               out |-> s.out]
      BY <1>1, <2>6, FrrTyped DEF IsFrrState
    <3>2. h \in FrrRecords
      BY <1>1, <3>1, FrrTyped, FrrConstants DEF FrrRecords
    <3>3. QED
      BY <1>1, <3>1, <3>2 DEF FrrPlaces, FrrModes
  <2>9. /\ FrrPlaces(g) /\ FrrModes(g)
        /\ g.wq = o /\ g.Q = q /\ g.queued = f /\ g.quantum = Quantum
        /\ g.oq = s.oq /\ g.wait = s.wait /\ g.dQ = s.dQ
    <3>1. OnlyRequeued(h, o, q, f, g)
      BY <2>3, <2>5, <2>7, <2>8, RequeuedOK
    <3>2. QED
      BY <2>8, <3>1 DEF OnlyRequeued
  <2>10. g.pool = s.pool
    <3>1. h \in FrrRecords
      BY <2>8 DEF FrrPlaces
    <3>2. QED
      BY <2>7, <2>8, <3>1, FrrTyped DEF Requeued, IsFrrState
  <2>11. o # None /\ Quantum \in Nat \ {0}
    BY <2>3, FrrConstants
  <2>12. FrrTurn(g)
    <3>1. s.oq[o] # {} /\ \A x \in Elements(q) : x # o /\ s.oq[x] # {} /\ f[x]
      <4>1. Elements(q) \subseteq Objects
        BY <2>3 DEF Elements
      <4>2. QED
        BY <1>1, <2>3, <2>5, <4>1 DEF FrrTurn
    <3>2. QED
      BY <2>3, <2>9, <2>11, <3>1 DEF FrrTurn
  <2>13. ASSUME mode = "OFF"
         PROVE  FrrWaits(g)
    <3>1. FrrWaits(s)
      BY <1>1, <2>13
    <3>2. ASSUME NEW x \in Objects
          PROVE  /\ f[x] => x \in Elements(q)
                 /\ s.oq[x] # {} => x \in Elements(q) \cup {o}
                 /\ s.oq[x] = {} => s.wait[x] = 0
      BY <1>3, <2>3, <2>5, <2>11, <3>1, FrrConstants DEF FrrWaits
    <3>3. ASSUME NEW i \in DOMAIN q
          PROVE  s.wait[q[i]] + Quantum + i * Quantum <= Cardinality(Objects) * Quantum
      <4>1. i + 1 \in DOMAIN s.Q /\ q[i] = s.Q[i + 1] /\ i \in Nat /\ q[i] \in Objects
        BY <1>3, <2>1, <2>2, <2>3
      <4>2. s.wait[q[i]] \in Nat
        BY <1>1, <4>1, FrrTyped
      <4>3. s.wait[q[i]] + 0 + (i + 1) * Quantum <= Cardinality(Objects) * Quantum
        BY <1>3, <3>1, <4>1 DEF FrrWaits, TurnLeft
      <4>4. (i + 1) * Quantum = i * Quantum + Quantum /\ i * Quantum \in Nat
        BY <2>11, <4>1
      <4>5. QED
        BY <2>11, <4>2, <4>3, <4>4
    <3>4. TurnLeft(g) = Quantum
      BY <2>9, <2>11 DEF TurnLeft
    <3>5. QED
      BY <2>9, <3>1, <3>2, <3>3, <3>4 DEF FrrWaits
  <2>14. QED
    BY <2>9, <2>10, <2>11, <2>12, <2>13 DEF FrrTurned
<1>4. QED
  BY <1>2, <1>3

(* The object whose turn it is hands out a request, and its turn may end.  *)
LEMMA ServeWorkOK ==
  ASSUME busy \in SUBSET F!Requests, NEW g, FrrPlaces(g), FrrModes(g), FrrTurn(g),
         mode = "OFF" => FrrWaits(g), g.wq # None, g.pool.state = "Run",
         \A x \in Elements(g.dQ) : ~(x.deadline <= now)
  PROVE  F!ServeWork(g) \in FrrStates
<1>1. PICK o, k, u : o = g.wq /\ k = [g EXCEPT !.quantum = g.quantum - 1]
                     /\ u = F!ServeWork(g)
  OBVIOUS
<1>2. PICK r : r = F!LowestOffset(g.oq[o])
  OBVIOUS
<1>3. PICK h : h = F!HandOut(k, r)
  OBVIOUS
<1>4. u = IF h.oq[o] = {} THEN [h EXCEPT !.wq = None]
          ELSE IF h.quantum = 0
          THEN [h EXCEPT !.wq = None, !.Q = Append(h.Q, o), !.queued[o] = TRUE]
          ELSE h
  BY <1>1, <1>2, <1>3 DEF F!ServeWork
<1>5. g \in FrrRecords /\ o \in Objects /\ g.quantum \in Nat /\ g.quantum >= 1 /\ g.oq[o] # {}
      /\ g.quantum <= Quantum /\ Quantum \in Nat
  BY <1>1, FrrTyped, FrrConstants DEF FrrPlaces, FrrTurn
<1>6. r \in g.oq[o]
  <2>1. g.oq[o] \in SUBSET ({o} \X (1..PerObject[o])) /\ PerObject[o] \in Nat
    BY <1>5, FrrConstants DEF FrrPlaces
  <2>2. QED
    BY <1>2, <1>5, <2>1, LowestOffsetOK
<1>7. /\ FrrPlaces(k) /\ FrrModes(k) /\ k.quantum = g.quantum - 1
      /\ k.pool = g.pool /\ k.oq = g.oq /\ k.wait = g.wait /\ k.dQ = g.dQ
      /\ k.queued = g.queued /\ k.Q = g.Q /\ k.wq = g.wq
  <2>1. k = [pool |-> g.pool, oq |-> g.oq, queued |-> g.queued, Q |-> g.Q,
             wq |-> g.wq, quantum |-> g.quantum - 1, dQ |-> g.dQ, wait |-> g.wait,
             out |-> g.out]
    <3>1. IsFrrState(g) /\ k = [g EXCEPT !.quantum = g.quantum - 1]
      BY <1>1, <1>5, FrrTyped
    <3>2. QED
      BY <3>1 DEF IsFrrState
  <2>2. k \in FrrRecords
    BY <1>5, <2>1, FrrTyped DEF FrrRecords
  <2>3. QED
    BY <2>1, <2>2 DEF FrrPlaces, FrrModes
<1>8. FrrServed(k, o, h)
  <2>1. \A e, x \in Elements(k.dQ) :
          e.req = r /\ x.deadline <= now => e.deadline <= x.deadline
    BY <1>7
  <2>2. k.pool.state = "Run" /\ r \in k.oq[o]
    BY <1>6, <1>7
  <2>3. QED
    BY <1>3, <1>5, <1>7, <2>1, <2>2, HandOutGood
<1>9. /\ FrrPlaces(h) /\ FrrModes(h)
      /\ \A x \in Objects : x # o => h.oq[x] = g.oq[x]
      /\ \A x \in Objects : h.wait[x] = IF x = o \/ g.oq[x] = {} THEN 0 ELSE g.wait[x] + 1
      /\ h.queued = g.queued /\ h.Q = g.Q /\ h.wq = o /\ h.quantum = g.quantum - 1
  BY <1>1, <1>7, <1>8 DEF FrrServed
<1>10. /\ h \in FrrRecords /\ g.Q \in Seq(Objects) /\ Distinct(g.Q) /\ o \notin Elements(g.Q)
       /\ g.queued \in [Objects -> BOOLEAN] /\ Elements(g.Q) \subseteq Objects
       /\ \A x \in Elements(g.Q) : x # o /\ g.queued[x] /\ g.oq[x] # {} /\ h.oq[x] # {}
  <2>1. g.Q \in Seq(Objects) /\ g.queued \in [Objects -> BOOLEAN]
    BY <1>5, FrrTyped
  <2>2. Elements(g.Q) \subseteq Objects
    BY <2>1 DEF Elements
  <2>3. QED
    BY <1>1, <1>9, <2>1, <2>2 DEF FrrTurn, FrrPlaces
<1>11. h.quantum \in Nat /\ h.quantum <= Quantum /\ o # None /\ None \notin Objects
  BY <1>5, <1>9, FrrConstants
\* Those in the queue have waited for one more, of which there is one less.
<1>12. ASSUME mode = "OFF", NEW i \in DOMAIN g.Q
       PROVE  h.wait[g.Q[i]] + h.quantum + i * Quantum <= Cardinality(Objects) * Quantum
  <2>1. g.Q[i] \in Elements(g.Q) /\ g.Q[i] \in Objects /\ i \in Nat
    BY <1>10 DEF Elements
  <2>2. h.wait[g.Q[i]] = g.wait[g.Q[i]] + 1 /\ g.wait[g.Q[i]] \in Nat
    BY <1>5, <1>9, <1>10, <2>1, FrrTyped
  <2>3. g.wait[g.Q[i]] + g.quantum + i * Quantum <= Cardinality(Objects) * Quantum
    BY <1>1, <1>11, <1>12 DEF FrrWaits, TurnLeft
  <2>4. PICK m, n : m = i * Quantum /\ n = Cardinality(Objects) * Quantum
    OBVIOUS
  <2>5. m \in Nat /\ n \in Nat
    BY <1>5, <1>10, <2>1, <2>4, DistinctLength
  <2>6. QED
    BY <1>5, <1>9, <2>2, <2>3, <2>4, <2>5
\* What is known of the objects without deadlines.
<1>13. ASSUME mode = "OFF", NEW x \in Objects
       PROVE  /\ g.queued[x] => x \in Elements(g.Q)
              /\ h.oq[x] # {} => x \in Elements(g.Q) \cup {o}
              /\ h.oq[x] = {} => h.wait[x] = 0
              /\ h.wait[o] = 0
  BY <1>1, <1>5, <1>9, <1>13 DEF FrrWaits
<1>14. CASE h.oq[o] = {}
  <2>1. u = Requeued(h, None, g.Q, g.queued)
    <3>1. u = [h EXCEPT !.wq = None] /\ IsFrrState(h) /\ h.Q = g.Q /\ h.queued = g.queued
      BY <1>4, <1>9, <1>10, <1>14, FrrTyped
    <3>2. QED
      BY <3>1 DEF Requeued, IsFrrState
  <2>2. /\ u \in FrrRecords /\ FrrPlaces(u) /\ FrrModes(u)
        /\ u.wq = None /\ u.Q = g.Q /\ u.queued = g.queued
        /\ u.oq = h.oq /\ u.wait = h.wait /\ u.quantum = h.quantum /\ u.dQ = h.dQ
    <3>1. PICK q, f : q = g.Q /\ f = g.queued
      OBVIOUS
    <3>2. /\ FrrPlaces(h) /\ FrrModes(h) /\ None \in Objects \cup {None}
          /\ q \in Seq(Objects) /\ f \in [Objects -> BOOLEAN]
      BY <1>9, <1>10, <3>1
    <3>3. u = Requeued(h, None, q, f)
      BY <2>1, <3>1
    <3>4. OnlyRequeued(h, None, q, f, u)
      BY <3>2, <3>3, RequeuedOK
    <3>5. QED
      BY <3>1, <3>4 DEF OnlyRequeued
  <2>3. FrrTurn(u)
    BY <1>10, <1>11, <2>2 DEF FrrTurn
  <2>4. ASSUME mode = "OFF"
        PROVE  FrrOff(u)
    <3>1. ASSUME NEW i \in DOMAIN u.Q
          PROVE  u.wait[u.Q[i]] + TurnLeft(u) + i * Quantum <= Cardinality(Objects) * Quantum
      <4>1. u.wait[u.Q[i]] \in Nat /\ i \in Nat
        <5>1. u.Q[i] \in Objects /\ i \in Nat
          BY <1>10, <2>2
        <5>2. QED
          BY <2>2, <5>1, FrrTyped
      <4>2. u.wait[u.Q[i]] + h.quantum + i * Quantum <= Cardinality(Objects) * Quantum
        BY <1>12, <2>2, <2>4
      <4>3. PICK m, n : m = i * Quantum /\ n = Cardinality(Objects) * Quantum
        OBVIOUS
      <4>4. m \in Nat /\ n \in Nat
        BY <1>5, <1>10, <4>1, <4>3, DistinctLength
      <4>5. QED
        BY <1>11, <2>2, <4>1, <4>2, <4>3, <4>4 DEF TurnLeft
    <3>2. u.dQ = <<>>
      BY <2>2, <2>4 DEF FrrModes
    <3>3. ASSUME NEW x \in Objects
          PROVE  /\ u.queued[x] => x \in Elements(u.Q)
                 /\ u.oq[x] # {} => x \in Elements(u.Q) \cup {u.wq}
                 /\ u.oq[x] = {} => u.wait[x] = 0
      BY <1>13, <1>14, <2>2, <2>4
    <3>4. QED
      BY <2>2, <3>1, <3>2, <3>3 DEF FrrOff, FrrWaits
  <2>5. QED
    BY <1>1, <2>2, <2>3, <2>4 DEF FrrStates
<1>15. CASE h.oq[o] # {} /\ h.quantum = 0
  <2>1. PICK q, f : q = Append(g.Q, o) /\ f = [g.queued EXCEPT ![o] = TRUE]
    OBVIOUS
  <2>2. /\ q \in Seq(Objects) /\ Distinct(q) /\ Elements(q) = Elements(g.Q) \cup {o}
        /\ Len(g.Q) + 1 <= Cardinality(Objects)
    BY <1>5, <1>10, <2>1, JoinOK
  <2>3. /\ f \in [Objects -> BOOLEAN] /\ f[o]
        /\ \A x \in Objects : x # o => f[x] = g.queued[x]
    BY <1>5, <1>10, <2>1
  <2>4. u = Requeued(h, None, q, f)
    BY <1>4, <1>9, <1>10, <1>15, <2>1, FrrTyped, ZenonT(120)
       DEF Requeued, IsFrrState
  <2>5. /\ u \in FrrRecords /\ FrrPlaces(u) /\ FrrModes(u)
        /\ u.wq = None /\ u.Q = q /\ u.queued = f
        /\ u.oq = h.oq /\ u.wait = h.wait /\ u.quantum = h.quantum /\ u.dQ = h.dQ
    <3>1. /\ FrrPlaces(h) /\ FrrModes(h) /\ None \in Objects \cup {None}
          /\ q \in Seq(Objects) /\ f \in [Objects -> BOOLEAN]
      BY <1>9, <2>2, <2>3
    <3>2. OnlyRequeued(h, None, q, f, u)
      BY <2>4, <3>1, RequeuedOK
    <3>3. QED
      BY <3>2 DEF OnlyRequeued
  <2>6. FrrTurn(u)
    <3>1. \A x \in Elements(q) : f[x] /\ x # None /\ h.oq[x] # {}
      BY <1>10, <1>11, <1>15, <2>2, <2>3
    <3>2. QED
      BY <1>11, <2>2, <2>5, <3>1 DEF FrrTurn
  <2>7. ASSUME mode = "OFF"
        PROVE  FrrOff(u)
    <3>1. ASSUME NEW i \in DOMAIN u.Q
          PROVE  u.wait[u.Q[i]] + TurnLeft(u) + i * Quantum <= Cardinality(Objects) * Quantum
      <4>1. \/ i \in DOMAIN g.Q /\ u.Q[i] = g.Q[i]
            \/ i = Len(g.Q) + 1 /\ u.Q[i] = o
        BY <1>10, <2>1, <2>5
      <4>2. CASE i \in DOMAIN g.Q /\ u.Q[i] = g.Q[i]
        BY <1>12, <1>15, <2>5, <2>7, <4>2 DEF TurnLeft
      <4>3. CASE i = Len(g.Q) + 1 /\ u.Q[i] = o
        <5>1. i \in Nat /\ Cardinality(Objects) \in Nat /\ i <= Cardinality(Objects)
          BY <1>10, <2>2, <4>3, DistinctLength
        <5>2. i * Quantum \in Nat /\ i * Quantum <= Cardinality(Objects) * Quantum
          BY <1>5, <5>1, ProductMonotone
        <5>3. u.wait[u.Q[i]] = 0 /\ TurnLeft(u) = 0
          BY <1>5, <1>13, <2>5, <2>7, <4>3 DEF TurnLeft
        <5>4. QED
          BY <5>2, <5>3
      <4>4. QED
        BY <4>1, <4>2, <4>3
    <3>2. u.dQ = <<>>
      BY <2>5, <2>7 DEF FrrModes
    <3>3. ASSUME NEW x \in Objects
          PROVE  /\ u.queued[x] => x \in Elements(u.Q)
                 /\ u.oq[x] # {} => x \in Elements(u.Q) \cup {u.wq}
                 /\ u.oq[x] = {} => u.wait[x] = 0
      BY <1>13, <2>2, <2>3, <2>5, <2>7
    <3>4. QED
      BY <2>5, <3>1, <3>2, <3>3 DEF FrrOff, FrrWaits
  <2>8. QED
    BY <1>1, <2>5, <2>6, <2>7 DEF FrrStates
<1>16. CASE h.oq[o] # {} /\ h.quantum # 0
  <2>1. u = h
    BY <1>4, <1>16
  <2>2. FrrTurn(h)
    <3>1. h.quantum <= Quantum /\ h.quantum >= 1 /\ h.oq[h.wq] # {}
      <4>1. PICK n : n = h.quantum
        OBVIOUS
      <4>2. n \in Nat /\ n # 0 /\ n <= Quantum
        BY <1>11, <1>16, <4>1
      <4>3. n >= 1
        BY <4>2
      <4>4. h.wq = o /\ h.oq[o] # {}
        BY <1>9, <1>16
      <4>5. QED
        BY <4>1, <4>2, <4>3, <4>4
    <3>2. Distinct(h.Q) /\ \A x \in Elements(h.Q) : h.queued[x] /\ x # h.wq /\ h.oq[x] # {}
      BY <1>9, <1>10
    <3>3. QED
      BY <3>1, <3>2 DEF FrrTurn
  <2>3. ASSUME mode = "OFF"
        PROVE  FrrOff(h)
    <3>1. h.dQ = <<>> /\ TurnLeft(h) = h.quantum
      BY <1>9, <1>11, <2>3 DEF FrrModes, TurnLeft
    <3>2. QED
      BY <1>5, <1>9, <1>12, <1>13, <2>3, <3>1 DEF FrrOff, FrrWaits
  <2>4. QED
    BY <1>1, <1>9, <1>10, <2>1, <2>2, <2>3 DEF FrrStates
<1>17. QED
  BY <1>14, <1>15, <1>16

(* A queue without repetitions from which an object is taken out.          *)
LEMMA FirstRemovedOK ==
  ASSUME NEW q \in Seq(Objects), Distinct(q), NEW o, NEW t, t = F!RemoveFirst(q, o)
  PROVE  t \in Seq(Objects) /\ Distinct(t) /\ Elements(t) = Elements(q) \ {o}
<1>1. DOMAIN q = 1..Len(q)
  OBVIOUS
<1>2. CASE ~ \E i \in 1..Len(q) : q[i] = o
  <2>1. t = q
    BY <1>2 DEF F!RemoveFirst
  <2>2. o \notin Elements(q)
    BY <1>1, <1>2 DEF Elements
  <2>3. QED
    BY <2>1, <2>2
<1>3. CASE \E i \in 1..Len(q) : q[i] = o
  <2>1. PICK i \in 1..Len(q) : q[i] = o
    BY <1>3
  <2> DEFINE I == {j \in 1..Len(q) : q[j] = o}
  <2>2. I = {i} /\ i \in Nat
    BY <1>1, <2>1 DEF Distinct
  <2>3. F!Min(I) = i
    BY <2>2 DEF F!Min
  <2>4. F!SelectInSeq(q, LAMBDA v : v = o) = IF I # {} THEN F!Min(I) ELSE 0
    BY DEF F!SelectInSeq
  <2>5. F!SelectInSeq(q, LAMBDA v : v = o) = i
    BY <2>2, <2>3, <2>4
  <2>6. t = F!RemoveAt(q, i)
    BY <1>3, <2>5 DEF F!RemoveFirst
  <2>7. t \in Seq(Objects) /\ LeftOut(q, i, t)
    BY <2>6, RemoveAtOK DEF F!RemoveAt, Without
  <2>8. Distinct(t)
    <3>1. ASSUME NEW j \in DOMAIN t, NEW k \in DOMAIN t, t[j] = t[k]
          PROVE  j = k
      <4>1. /\ Skip(i, j) \in DOMAIN q /\ Skip(i, k) \in DOMAIN q
            /\ q[Skip(i, j)] = q[Skip(i, k)]
        BY <2>7, <3>1 DEF LeftOut
      <4>2. Skip(i, j) = Skip(i, k)
        BY <4>1 DEF Distinct
      <4>3. QED
        BY <2>7, <4>2 DEF LeftOut
    <3>2. QED
      BY <3>1 DEF Distinct
  <2>9. ASSUME NEW x \in Elements(t)
        PROVE  x \in Elements(q) \ {o}
    <3>1. PICK j \in DOMAIN t : x = t[j]
      BY <2>9 DEF Elements
    <3>2. Skip(i, j) \in DOMAIN q \ {i} /\ x = q[Skip(i, j)]
      BY <2>7, <3>1 DEF LeftOut
    <3>3. QED
      BY <1>1, <2>1, <3>2 DEF Elements, Distinct
  <2>10. ASSUME NEW x \in Elements(q) \ {o}
         PROVE  x \in Elements(t)
    <3>1. PICK k \in DOMAIN q : x = q[k]
      BY <2>10 DEF Elements
    <3>2. k \in DOMAIN q \ {i}
      BY <2>1, <2>10, <3>1
    <3>3. QED
      BY <2>7, <3>1, <3>2 DEF LeftOut, Elements
  <2>11. QED
    BY <2>7, <2>8, <2>9, <2>10
<1>4. QED
  BY <1>2, <1>3

(* The request with the first deadline goes first when that has elapsed.   *)
LEMMA ServeExpiredOK ==
  ASSUME busy \in SUBSET F!Requests, NEW s \in FrrStates, s.pool.state = "Run",
         F!IsExpired(s)
  PROVE  F!ServeExpired(s) \in FrrStates
<1>1. /\ s \in FrrRecords /\ FrrPlaces(s) /\ FrrTurn(s) /\ FrrModes(s)
      /\ s.dQ \in Seq(FrrEntries) /\ s.dQ # <<>>
  BY FrrTyped DEF FrrStates, F!IsExpired
<1>2. mode = "2L" /\ FrrDeadlines(s.dQ, s.oq) /\ FrrExpired(s.dQ, s.out)
  BY <1>1 DEF FrrModes
<1>3. PICK d : d = s.dQ
  OBVIOUS
<1>4. d \in Seq(FrrEntries) /\ 1 \in DOMAIN d /\ Head(d) = d[1] /\ DOMAIN d = 1..Len(d)
  BY <1>1, <1>3, EmptySeq
<1>5. PICK r, p : r = d[1].req /\ p \in Objects /\ r \in s.oq[p]
  BY <1>2, <1>3, <1>4 DEF FrrDeadlines
<1>6. PICK h, u : h = F!HandOut(s, r) /\ u = F!ServeExpired(s)
  OBVIOUS
<1>7. r[1] = p
  BY <1>1, <1>5 DEF FrrPlaces
<1>8. FrrServed(s, p, h)
  <2>1. ASSUME NEW e \in Elements(s.dQ), NEW x \in Elements(s.dQ), e.req = r
        PROVE  e.deadline <= x.deadline
    <3>1. PICK i \in DOMAIN d, j \in DOMAIN d : e = d[i] /\ x = d[j]
      BY <1>3 DEF Elements
    <3>2. i = 1 /\ 1 <= j
      BY <1>2, <1>3, <1>4, <1>5, <2>1, <3>1 DEF FrrDeadlines
    <3>3. QED
      BY <1>2, <1>3, <1>4, <3>1, <3>2 DEF FrrDeadlines
  <2>2. QED
    BY <1>1, <1>5, <1>6, <2>1, HandOutGood
<1>9. /\ FrrPlaces(h) /\ FrrModes(h) /\ h \in FrrRecords
      /\ \A x \in Objects : x # p => h.oq[x] = s.oq[x]
      /\ h.queued = s.queued /\ h.Q = s.Q /\ h.wq = s.wq /\ h.quantum = s.quantum
  BY <1>8 DEF FrrServed, FrrPlaces
<1>10. /\ s.Q \in Seq(Objects) /\ Distinct(s.Q) /\ Elements(s.Q) \subseteq Objects
       /\ s.queued \in [Objects -> BOOLEAN] /\ s.wq \in Objects \cup {None}
       /\ s.quantum <= Quantum /\ None \notin Objects
       /\ s.wq # None => s.quantum >= 1 /\ s.oq[s.wq] # {}
       /\ \A x \in Elements(s.Q) : s.queued[x] /\ x # s.wq /\ s.oq[x] # {}
  BY <1>1, FrrTyped, FrrConstants, SMTT(60) DEF FrrTurn, Elements
<1>11. u = IF h.oq[p] # {} THEN h
           ELSE [h EXCEPT !.wq = IF h.wq = p THEN None ELSE h.wq,
                          !.Q = IF h.queued[p] THEN F!RemoveFirst(h.Q, p) ELSE h.Q]
  BY <1>3, <1>4, <1>5, <1>6, <1>7 DEF F!ServeExpired
<1>12. CASE h.oq[p] # {}
  <2>1. \A x \in Objects : s.oq[x] # {} => h.oq[x] # {}
    BY <1>9, <1>12
  <2>2. FrrTurn(h)
    BY <1>9, <1>10, <2>1 DEF FrrTurn
  <2>3. QED
    BY <1>2, <1>6, <1>9, <1>11, <1>12, <2>2 DEF FrrStates
<1>13. CASE h.oq[p] = {}
  <2>1. PICK w, q, f : /\ w = IF s.wq = p THEN None ELSE s.wq
                       /\ q = IF s.queued[p] THEN F!RemoveFirst(s.Q, p) ELSE s.Q
                       /\ f = s.queued
    OBVIOUS
  <2>2. u = Requeued(h, w, q, f)
    <3>1. u = [h EXCEPT !.wq = w, !.Q = q] /\ IsFrrState(h) /\ h.queued = f
      BY <1>9, <1>11, <1>13, <2>1, FrrTyped
    <3>2. QED
      BY <3>1 DEF Requeued, IsFrrState
  <2>3. q \in Seq(Objects) /\ Distinct(q) /\ Elements(q) = Elements(s.Q) \ {p}
    <3>1. CASE s.queued[p]
      BY <1>10, <2>1, <3>1, FirstRemovedOK
    <3>2. CASE ~s.queued[p]
      BY <1>10, <2>1, <3>2
    <3>3. QED
      BY <3>1, <3>2
  <2>4. w \in Objects \cup {None} /\ f \in [Objects -> BOOLEAN]
    BY <1>10, <2>1
  <2>5. /\ u \in FrrRecords /\ FrrPlaces(u) /\ FrrModes(u)
        /\ u.wq = w /\ u.Q = q /\ u.queued = f /\ u.oq = h.oq /\ u.quantum = h.quantum
    <3>1. FrrPlaces(h) /\ FrrModes(h)
      BY <1>9
    <3>2. OnlyRequeued(h, w, q, f, u)
      BY <2>2, <2>3, <2>4, <3>1, RequeuedOK
    <3>3. QED
      BY <3>2 DEF OnlyRequeued
  <2>6. w # None => w = s.wq /\ w # p /\ w \in Objects
    BY <1>10, <2>1
  <2>7. FrrTurn(u)
    <3>1. u.quantum <= Quantum
      BY <1>9, <1>10, <2>5
    <3>2. ASSUME u.wq # None
          PROVE  u.quantum >= 1 /\ u.oq[u.wq] # {}
      BY <1>9, <1>10, <2>5, <2>6, <3>2
    <3>3. ASSUME NEW x \in Elements(u.Q)
          PROVE  u.queued[x] /\ x # u.wq /\ u.oq[x] # {}
      <4>1. x \in Elements(s.Q) /\ x # p /\ x \in Objects
        BY <1>10, <2>3, <2>5
      <4>2. QED
        BY <1>9, <1>10, <2>1, <2>5, <2>6, <4>1
    <3>4. QED
      BY <2>3, <2>5, <3>1, <3>2, <3>3 DEF FrrTurn
  <2>8. QED
    BY <1>2, <1>6, <2>5, <2>7 DEF FrrStates
<1>14. QED
  BY <1>12, <1>13

LEMMA FrrDequeueOK ==
  ASSUME busy \in SUBSET F!Requests, now \in Nat, NEW s \in FrrStates,
         s.pool.state = "Run"
  PROVE  F!Dequeue(s) \in FrrStates
<1>1. PICK g : g = F!GetWorkQueue(s)
  OBVIOUS
<1>2. FrrTurned(s, g)
  BY <1>1, GetWorkQueueOK
<1>3. F!Dequeue(s) = IF F!IsExpired(s) THEN F!ServeExpired(s)
                     ELSE IF g.wq = None THEN g ELSE F!ServeWork(g)
  BY <1>1 DEF F!Dequeue
<1>4. CASE F!IsExpired(s)
  BY <1>3, <1>4, ServeExpiredOK
<1>5. CASE ~F!IsExpired(s) /\ g.wq = None
  BY <1>2, <1>3, <1>5 DEF FrrTurned
<1>6. CASE ~F!IsExpired(s) /\ g.wq # None
  <2>1. \A x \in Elements(g.dQ) : ~(x.deadline <= now)
    <3>1. PICK d : d = s.dQ
      OBVIOUS
    <3>2. s \in FrrRecords /\ d \in Seq(FrrEntries) /\ FrrModes(s) /\ g.dQ = d
      BY <1>2, <3>1, FrrTyped DEF FrrStates, FrrTurned
    <3>3. CASE d = <<>>
      BY <3>2, <3>3, DOMAIN <<>> = {} DEF Elements
    <3>4. CASE d # <<>>
      <4>1. 1 \in DOMAIN d /\ Head(d) = d[1] /\ DOMAIN d = 1..Len(d)
        BY <3>2, <3>4, EmptySeq
      <4>2. d[1].deadline \in Nat /\ ~(d[1].deadline <= now)
        <5>1. d[1] \in FrrEntries
          BY <3>2, <4>1
        <5>2. QED
          BY <1>6, <3>1, <3>4, <4>1, <5>1 DEF F!IsExpired, FrrEntries
      <4>3. FrrDeadlines(d, s.oq)
        BY <3>1, <3>2, <3>4 DEF FrrModes
      <4>4. ASSUME NEW i \in DOMAIN d
            PROVE  ~(d[i].deadline <= now)
        <5>1. 1 <= i /\ d[i] \in FrrEntries
          BY <3>2, <4>1
        <5>2. d[1].deadline <= d[i].deadline
          BY <4>1, <4>3, <5>1 DEF FrrDeadlines
        <5>3. d[i].deadline \in Nat
          BY <5>1 DEF FrrEntries
        <5>4. QED
          BY <4>2, <5>2, <5>3
      <4>5. QED
        BY <3>2, <4>4 DEF Elements
    <3>5. QED
      BY <3>3, <3>4
  <2>2. /\ FrrPlaces(g) /\ FrrModes(g) /\ FrrTurn(g) /\ g.pool.state = "Run"
        /\ mode = "OFF" => FrrWaits(g)
    BY <1>2 DEF FrrTurned
  <2>3. QED
    BY <1>3, <1>6, <2>1, <2>2, ServeWorkOK
<1>7. QED
  BY <1>4, <1>5, <1>6

(* The states that the event of the pool reaches.                          *)
LEMMA FrrReachOK ==
  ASSUME busy \in SUBSET F!Requests, now \in Nat, NEW s0 \in FrrStates, NEW n \in Nat,
         NEW run, run = CHOOSE f : f = [k \in 0..n |->
                    IF k = 0 THEN {s0}
                    ELSE {IF s.pool.state = "Run" THEN F!Dequeue(s) ELSE s : s \in f[k - 1]}]
  PROVE  run[n] \in SUBSET FrrStates
<1> DEFINE D == SUBSET FrrStates
           next(S) == {IF s.pool.state = "Run" THEN F!Dequeue(s) ELSE s : s \in S}
           step == [k \in 1..n |-> [S \in D |-> next(S)]]
           G == {k \in 0..n : run[k] \in D}
<1>1. \A S \in D : next(S) \in D
  BY FrrDequeueOK
<1> HIDE DEF next
<1>2. \E f : f = [k \in 0..n |-> IF k = 0 THEN {s0} ELSE next(f[k - 1])]
  <2>1. step \in [1..n -> [D -> D]] /\ {s0} \in D
    BY <1>1
  <2>2. PICK g \in [0..n -> D] : IsIteration(g, n, {s0}, step)
    <3> HIDE DEF step, D
    <3>1. QED
      BY <2>1, IterationExists
  <2>3. \A k \in 0..n : k # 0 => k \in 1..n /\ k - 1 \in 0..n
    OBVIOUS
  <2>4. \A k \in 0..n : k # 0 => step[k][g[k - 1]] = next(g[k - 1])
    BY <2>2, <2>3
  <2> HIDE DEF step
  <2>5. \A k \in 0..n : g[k] = IF k = 0 THEN {s0} ELSE step[k][g[k - 1]]
    BY <2>2 DEF IsIteration
  <2>6. \A k \in 0..n : g[k] = IF k = 0 THEN {s0} ELSE next(g[k - 1])
    BY <2>4, <2>5
  <2>7. g = [k \in 0..n |-> IF k = 0 THEN {s0} ELSE next(g[k - 1])]
    BY <2>2, <2>6
  <2>8. QED
    BY <2>7
<1>3. run = [k \in 0..n |-> IF k = 0 THEN {s0} ELSE next(run[k - 1])]
  BY <1>2 DEF next
<1>4. \A k \in 0..n : run[k] = IF k = 0 THEN {s0} ELSE next(run[k - 1])
  BY <1>3
<1> HIDE DEF D
<1>5. 0 \in G
  <2>1. run[0] = {s0} /\ {s0} \in SUBSET FrrStates
    BY <1>4, 0 \in 0..n
  <2>2. run[0] \in SUBSET FrrStates
    BY <2>1, Zenon
  <2>3. QED
    BY <2>2, 0 \in 0..n DEF D
<1>6. ASSUME NEW k \in 1..n, k - 1 \in G
      PROVE  k \in G
  <2>1. k \in 0..n /\ k # 0
    OBVIOUS
  <2>2. run[k] = next(run[k - 1])
    BY <1>4, <2>1
  <2>3. QED
    BY <1>1, <1>6, <2>1, <2>2
<1> HIDE DEF G
<1>7. n \in G
  BY <1>5, <1>6, UpTo, n \in 0..n
<1>8. QED
  BY <1>7 DEF G, D

(* The next state t keeps the invariant.                                   *)
LEMMA FrrNextState ==
  ASSUME mode' \in Modes, now' \in 0..FrrLastTick,
         busy' \in SUBSET F!Requests, done' \in SUBSET F!Requests,
         NEW t \in FrrRecords, t = FrrNow', FrrTurn(t),
         \A o \in Objects : /\ t.oq[o] \subseteq {o} \X (1..PerObject[o])
                            /\ t.oq[o] \cap (busy' \cup done') = {},
         t.pool.idle + Cardinality(busy') = FrrThreads,
         t.pool.idle = 0 <=> t.pool.state = "FullLoad",
         mode' = "OFF" => FrrOff(t),
         mode' = "2L" => FrrDeadlines(t.dQ, t.oq)
  PROVE  FrrIInv'
<1>1. t.out = {} /\ t.dQ = dQ'
  BY DEF FrrNow
<1>2. FrrPlaces(t)'
  BY <1>1 DEF FrrPlaces
<1>3. mode' \in {"OFF", "2L"}
  BY SchedulersAssumption DEF SchedulersAssumption, F!NrsFrrAssumption
<1>4. FrrDeadlines(t.dQ, t.oq) => FrrExpired(t.dQ, t.out)'
  <2>1. ASSUME FrrDeadlines(t.dQ, t.oq)
        PROVE  \A e, f \in Elements(dQ') : e.req = f.req => e = f
    BY <1>1, <2>1 DEF FrrDeadlines, Elements
  <2>2. QED
    BY <1>1, <2>1 DEF FrrExpired
<1>5. FrrModes(t)'
  BY <1>3, <1>4 DEF FrrModes, FrrOff, FrrWaits
<1>6. t \in FrrStates'
  BY <1>2, <1>5 DEF FrrStates
<1>7. QED
  BY <1>6 DEF FrrIInv

\* What the invariant says of the variables.
LEMMA FrrFacts ==
  ASSUME FrrIInv
  PROVE  /\ mode \in Modes /\ mode \in {"OFF", "2L"} /\ now \in 0..FrrLastTick
         /\ now \in Nat /\ busy \in SUBSET F!Requests /\ done \in SUBSET F!Requests
         /\ pool \in [state : PoolStates, run : BOOLEAN, idle : Nat]
         /\ oq \in [Objects -> SUBSET F!Requests] /\ queued \in [Objects -> BOOLEAN]
         /\ Q \in Seq(Objects) /\ wq \in Objects \cup {None} /\ quantum \in Nat
         /\ dQ \in Seq(FrrEntries) /\ wait \in [Objects -> Nat]
         /\ \A o \in Objects : /\ oq[o] \subseteq {o} \X (1..PerObject[o])
                               /\ oq[o] \cap (busy \cup done) = {}
         /\ pool.idle + Cardinality(busy) = FrrThreads
         /\ pool.idle = 0 <=> pool.state = "FullLoad"
         /\ FrrTurn(FrrNow) /\ (mode = "OFF" => FrrOff(FrrNow))
         /\ mode = "2L" => FrrDeadlines(dQ, oq)
         /\ IsFiniteSet(busy) /\ Cardinality(busy) \in Nat
<1>1. PICK s : s = FrrNow
  OBVIOUS
<1>2. /\ s.pool = pool /\ s.oq = oq /\ s.queued = queued /\ s.Q = Q /\ s.wq = wq
      /\ s.quantum = quantum /\ s.dQ = dQ /\ s.wait = wait /\ s.out = {}
  BY <1>1 DEF FrrNow
<1>3. /\ s \in FrrRecords /\ FrrPlaces(s) /\ FrrTurn(s) /\ FrrModes(s)
      /\ mode = "OFF" => FrrOff(s)
  BY <1>1 DEF FrrIInv, FrrStates
<1>4. /\ s.pool \in [state : PoolStates, run : BOOLEAN, idle : Nat]
      /\ s.oq \in [Objects -> SUBSET F!Requests] /\ s.queued \in [Objects -> BOOLEAN]
      /\ s.Q \in Seq(Objects) /\ s.wq \in Objects \cup {None} /\ s.quantum \in Nat
      /\ s.dQ \in Seq(FrrEntries) /\ s.wait \in [Objects -> Nat]
  BY <1>3, FrrTyped
<1>5. busy \cup s.out = busy /\ busy \cup s.out \cup done = busy \cup done
  BY <1>2
<1>6. /\ \A o \in Objects : /\ oq[o] \subseteq {o} \X (1..PerObject[o])
                            /\ oq[o] \cap (busy \cup done) = {}
      /\ pool.idle + Cardinality(busy) = FrrThreads
      /\ pool.idle = 0 <=> pool.state = "FullLoad"
  BY <1>2, <1>3, <1>5 DEF FrrPlaces
<1>7. /\ mode \in {"OFF", "2L"} /\ (mode = "2L" => FrrDeadlines(dQ, oq))
  BY <1>2, <1>3 DEF FrrModes
<1>8. /\ mode \in Modes /\ now \in 0..FrrLastTick /\ busy \in SUBSET F!Requests
      /\ done \in SUBSET F!Requests
  BY DEF FrrIInv
<1>9. now \in Nat
  BY <1>8, SchedulersAssumption DEF SchedulersAssumption, F!NrsFrrAssumption
<1>10. IsFiniteSet(busy) /\ Cardinality(busy) \in Nat
  BY <1>8, FrrConstants, FS_Subset, FS_CardinalityType
<1>11. QED
  BY <1>1, <1>2, <1>3, <1>4, <1>6, <1>7, <1>8, <1>9, <1>10

LEMMA FrrRunPoolOK ==
  ASSUME FrrIInv, F!RunPool
  PROVE  \E s \in FrrStates :
           /\ pool' = IF s.pool.state = "FullLoad" THEN s.pool
                      ELSE [s.pool EXCEPT !.state = "Idle"]
           /\ oq' = s.oq /\ queued' = s.queued
           /\ Q' = s.Q /\ wq' = s.wq /\ quantum' = s.quantum
           /\ dQ' = s.dQ /\ wait' = s.wait
           /\ busy' = busy \cup s.out
<1> DEFINE s0 == [pool |-> [pool EXCEPT !.run = FALSE], oq |-> oq,
                  queued |-> queued, Q |-> Q, wq |-> wq, quantum |-> quantum,
                  dQ |-> dQ, wait |-> wait, out |-> {}]
           run[n \in 0..FrrThreads] ==
             IF n = 0 THEN {s0}
             ELSE {IF s.pool.state = "Run" THEN F!Dequeue(s) ELSE s : s \in run[n - 1]}
<1>1. s0 \in FrrStates
  <2>1. PICK t : t = FrrNow
    OBVIOUS
  <2>2. t \in FrrRecords /\ t \in FrrStates
    BY <2>1 DEF FrrIInv, FrrStates
  <2>3. PICK p : p = [pool EXCEPT !.run = FALSE]
    OBVIOUS
  <2>4. /\ p \in [state : PoolStates, run : BOOLEAN, idle : Nat]
        /\ p.idle = pool.idle /\ p.state = pool.state
    BY <2>3, FrrFacts
  <2>5. PICK v : v = [pool |-> p, oq |-> oq, queued |-> queued, Q |-> Q, wq |-> wq,
                      quantum |-> quantum, dQ |-> dQ, wait |-> wait, out |-> {}]
    OBVIOUS
  <2>6. v \in FrrRecords
    BY <2>4, <2>5, FrrFacts DEF FrrRecords
  <2>7. /\ v.oq = t.oq /\ v.queued = t.queued /\ v.Q = t.Q /\ v.wq = t.wq
        /\ v.quantum = t.quantum /\ v.dQ = t.dQ /\ v.wait = t.wait /\ v.out = t.out
        /\ v.pool = p /\ t.pool = pool
    BY <2>1, <2>5 DEF FrrNow
  <2>8. /\ FrrPlaces(t) /\ FrrTurn(t) /\ FrrModes(t) /\ (mode = "OFF" => FrrOff(t))
    BY <2>2 DEF FrrStates
  <2>9. FrrPlaces(v) /\ FrrTurn(v) /\ FrrModes(v)
    BY <2>4, <2>6, <2>7, <2>8 DEF FrrPlaces, FrrTurn, FrrModes
  <2>10. mode = "OFF" => FrrOff(v)
    BY <2>7, <2>8 DEF FrrOff, FrrWaits, TurnLeft
  <2>11. v \in FrrStates
    BY <2>6, <2>9, <2>10 DEF FrrStates
  <2>12. QED
    BY <2>3, <2>5, <2>11
<1>2. FrrThreads \in Nat /\ now \in Nat /\ busy \in SUBSET F!Requests
  BY FrrConstants, FrrFacts
<1>3. run[FrrThreads] \in SUBSET FrrStates
  <2> HIDE DEF s0
  <2>1. QED
    BY <1>1, <1>2, FrrReachOK
<1>4. PICK s \in run[FrrThreads] :
           /\ pool' = IF s.pool.state = "FullLoad" THEN s.pool
                      ELSE [s.pool EXCEPT !.state = "Idle"]
           /\ oq' = s.oq /\ queued' = s.queued
           /\ Q' = s.Q /\ wq' = s.wq /\ quantum' = s.quantum
           /\ dQ' = s.dQ /\ wait' = s.wait
           /\ busy' = busy \cup s.out
  BY DEF F!RunPool
<1> HIDE DEF s0, run
<1>5. QED
  BY <1>3, <1>4

(* What the scheduler makes of its queues.                                 *)
LEMMA FrrSame ==
  /\ \A r : r \in F!Queued <=> \E o \in Objects : r \in oq[o]
  /\ \A r : r \in F!Queued' <=> \E o \in Objects : r \in oq'[o]
  /\ \A q : F!ToSet(q) = Elements(q)
  /\ \A S : F!Cardinality(S) = Cardinality(S)
<1>1. /\ \A r : r \in F!Queued <=> \E o \in Objects : r \in oq[o]
      /\ \A r : r \in F!Queued' <=> \E o \in Objects : r \in oq'[o]
  BY DEF F!Queued
<1>2. \A q : F!ToSet(q) = Elements(q)
  BY DEF F!ToSet, Elements
<1>3. \A S : F!Cardinality(S) = Cardinality(S)
  BY DEF F!Cardinality, Cardinality
<1>4. QED
  BY <1>1, <1>2, <1>3

(* The requests that a run of the pool hands out go to threads.            *)
LEMMA FrrRunPoolInv ==
  ASSUME FrrIInv, F!RunPool
  PROVE  FrrIInv' /\ F!ExpiredGoesFirst
<1>1. PICK s \in FrrStates :
           /\ pool' = IF s.pool.state = "FullLoad" THEN s.pool
                      ELSE [s.pool EXCEPT !.state = "Idle"]
           /\ oq' = s.oq /\ queued' = s.queued
           /\ Q' = s.Q /\ wq' = s.wq /\ quantum' = s.quantum
           /\ dQ' = s.dQ /\ wait' = s.wait
           /\ busy' = busy \cup s.out
  BY FrrRunPoolOK
<1>2. UNCHANGED <<mode, now, done>>
  BY DEF F!RunPool
<1>3. /\ s \in FrrRecords /\ FrrPlaces(s) /\ FrrTurn(s) /\ FrrModes(s)
      /\ mode = "OFF" => FrrOff(s)
  BY DEF FrrStates
<1>4. /\ s.oq \in [Objects -> SUBSET F!Requests] /\ s.queued \in [Objects -> BOOLEAN]
      /\ s.Q \in Seq(Objects) /\ s.wq \in Objects \cup {None} /\ s.quantum \in Nat
      /\ s.dQ \in Seq(FrrEntries) /\ s.wait \in [Objects -> Nat]
      /\ s.out \in SUBSET F!Requests
      /\ s.pool \in [state : PoolStates, run : BOOLEAN, idle : Nat]
  BY <1>3, FrrTyped
<1>5. PICK p : p = pool'
  OBVIOUS
<1>6. /\ p \in [state : PoolStates, run : BOOLEAN, idle : Nat]
      /\ p.idle = s.pool.idle /\ (p.idle = 0 <=> p.state = "FullLoad")
  <2>1. s.pool.idle = 0 <=> s.pool.state = "FullLoad"
    BY <1>3 DEF FrrPlaces
  <2>2. CASE s.pool.state = "FullLoad"
    BY <1>1, <1>4, <1>5, <2>1, <2>2
  <2>3. CASE s.pool.state # "FullLoad"
    <3>1. p = [s.pool EXCEPT !.state = "Idle"]
      BY <1>1, <1>5, <2>3
    <3>2. p = [state |-> "Idle", run |-> s.pool.run, idle |-> s.pool.idle]
      BY <1>4, <3>1
    <3>3. QED
      BY <1>4, <2>1, <2>3, <3>2 DEF PoolStates
  <2>4. QED
    BY <2>2, <2>3
<1>7. PICK t : t = [pool |-> p, oq |-> s.oq, queued |-> s.queued, Q |-> s.Q,
                    wq |-> s.wq, quantum |-> s.quantum, dQ |-> s.dQ,
                    wait |-> s.wait, out |-> {}]
  OBVIOUS
<1>8. t \in FrrRecords /\ t = FrrNow'
  <2>1. t \in FrrRecords
    BY <1>4, <1>6, <1>7 DEF FrrRecords
  <2>2. t = FrrNow'
    BY <1>1, <1>5, <1>7 DEF FrrNow
  <2>3. QED
    BY <2>1, <2>2
<1>9. /\ t.pool = p /\ t.oq = s.oq /\ t.queued = s.queued /\ t.Q = s.Q /\ t.wq = s.wq
      /\ t.quantum = s.quantum /\ t.dQ = s.dQ /\ t.wait = s.wait
  BY <1>7
<1>10. FrrTurn(t) /\ (mode' = "OFF" => FrrOff(t))
  BY <1>2, <1>3, <1>9 DEF FrrTurn, FrrOff, FrrWaits, TurnLeft
<1>11. /\ \A o \in Objects : /\ t.oq[o] \subseteq {o} \X (1..PerObject[o])
                             /\ t.oq[o] \cap (busy' \cup done') = {}
       /\ t.pool.idle + Cardinality(busy') = FrrThreads
       /\ t.pool.idle = 0 <=> t.pool.state = "FullLoad"
  BY <1>1, <1>2, <1>3, <1>6, <1>9 DEF FrrPlaces
<1>12. mode' = "2L" => FrrDeadlines(t.dQ, t.oq)
  BY <1>2, <1>3, <1>9 DEF FrrModes
<1>13. /\ mode' \in Modes /\ now' \in 0..FrrLastTick
       /\ busy' \in SUBSET F!Requests /\ done' \in SUBSET F!Requests
  BY <1>1, <1>2, <1>4, FrrFacts
<1>14. FrrIInv'
  BY <1>8, <1>10, <1>11, <1>12, <1>13, FrrNextState
<1>15. F!ExpiredGoesFirst
  <2>1. ASSUME NEW e \in Elements(dQ), NEW f \in Elements(dQ), e.req \in busy',
               f.req \in F!Queued', f.deadline <= now
        PROVE  e.deadline <= f.deadline
    <3>1. mode = "2L"
      <4>1. ASSUME mode = "OFF"
            PROVE  FALSE
        <5>1. dQ = <<>>
          BY <4>1, FrrFacts DEF FrrOff, FrrWaits, FrrNow
        <5>2. DOMAIN dQ = {}
          BY <5>1
        <5>3. QED
          BY <2>1, <5>2 DEF Elements
      <4>2. QED
        BY <4>1, FrrFacts
    <3>2. FrrDeadlines(s.dQ, s.oq) /\ FrrExpired(s.dQ, s.out) /\ FrrDeadlines(dQ, oq)
      BY <1>3, <3>1, FrrFacts DEF FrrModes
    <3>3. e.req \in s.out
      <4>1. \E o \in Objects : e.req \in oq[o]
        BY <3>2 DEF FrrDeadlines, Elements
      <4>2. e.req \notin busy
        BY <4>1, FrrFacts
      <4>3. QED
        BY <1>1, <2>1, <4>2
    <3>4. f \in Elements(s.dQ)
      <4>1. PICK o \in Objects : f.req \in s.oq[o]
        BY <1>1, <2>1, FrrSame
      <4>2. PICK i \in DOMAIN s.dQ : s.dQ[i].req = f.req
        BY <3>2, <4>1 DEF FrrDeadlines
      <4>3. s.dQ[i] \in Elements(s.dQ) /\ s.dQ[i] \in Elements(dQ)
        BY <3>2 DEF Elements, FrrExpired
      <4>4. s.dQ[i] = f
        BY <3>2, <4>2, <4>3 DEF FrrExpired
      <4>5. QED
        BY <4>3, <4>4
    <3>5. QED
      BY <2>1, <3>2, <3>3, <3>4 DEF FrrExpired
  <2>2. QED
    BY <2>1, FrrSame DEF F!ExpiredGoesFirst
<1>16. QED
  BY <1>14, <1>15

(* The deadline of a request is not before any other                       *)
(* (nrsfrr.cpp:180-190).                                                   *)
LEMMA FrrDeadlineOK ==
  ASSUME FrrIInv, mode = "2L"
  PROVE  F!Deadline \in Nat /\ \A i \in DOMAIN dQ : dQ[i].deadline <= F!Deadline
<1>1. PICK dl : dl = now + Slack * (F!Cardinality(F!Queued) + 1 + F!Cardinality(busy))
  OBVIOUS
<1>2. F!Deadline = IF dQ # <<>> /\ F!Last(dQ).deadline > dl THEN F!Last(dQ).deadline ELSE dl
  BY <1>1 DEF F!Deadline
<1>3. dl \in Nat
  <2>1. F!Queued \in SUBSET F!Requests
    BY FrrSame, FrrFacts
  <2>2. IsFiniteSet(F!Queued)
    BY <2>1, FrrConstants, FS_Subset
  <2>3. PICK a, b : a = Cardinality(F!Queued) /\ b = Cardinality(busy)
    OBVIOUS
  <2>4. a \in Nat /\ b \in Nat
    BY <2>2, <2>3, FrrFacts, FS_CardinalityType
  <2>5. dl = now + Slack * (a + 1 + b)
    BY <1>1, <2>3, FrrSame
  <2>6. a + 1 + b \in Nat
    BY <2>4
  <2>7. Slack * (a + 1 + b) \in Nat
    BY <2>6, FrrConstants, ProductMonotone
  <2>8. QED
    BY <2>5, <2>7, FrrFacts
<1>4. dQ \in Seq(FrrEntries) /\ FrrDeadlines(dQ, oq)
  BY FrrFacts
<1>5. CASE dQ = <<>>
  BY <1>2, <1>3, <1>5, DOMAIN <<>> = {}
<1>6. CASE dQ # <<>>
  <2>1. Len(dQ) \in DOMAIN dQ /\ DOMAIN dQ = 1..Len(dQ) /\ Len(dQ) \in Nat
    BY <1>4, <1>6, EmptySeq
  <2>2. PICK l : l = dQ[Len(dQ)].deadline
    OBVIOUS
  <2>3. ASSUME NEW i \in DOMAIN dQ
        PROVE  dQ[i].deadline <= l /\ dQ[i].deadline \in Nat
    <3>1. i <= Len(dQ) /\ dQ[i] \in FrrEntries
      BY <1>4, <2>1
    <3>2. QED
      BY <1>4, <2>1, <2>2, <3>1 DEF FrrDeadlines, FrrEntries
  <2>4. l \in Nat
    BY <2>1, <2>2, <2>3
  <2>5. F!Deadline = IF l > dl THEN l ELSE dl
    BY <1>2, <1>6, <2>2 DEF F!Last
  <2>6. F!Deadline \in Nat /\ l <= F!Deadline
    BY <1>3, <2>4, <2>5
  <2>7. QED
    BY <2>3, <2>4, <2>6
<1>7. QED
  BY <1>5, <1>6

(* A request r joins the queue of its object o and that of the deadlines.  *)
LEMMA DeadlineAdded ==
  ASSUME NEW d \in Seq(FrrEntries), NEW f, FrrDeadlines(d, f), NEW o \in Objects,
         NEW e \in FrrEntries, \A x \in Objects : e.req \notin f[x],
         \A i \in DOMAIN d : d[i].deadline <= e.deadline,
         NEW g, \A x \in Objects : g[x] = IF x = o THEN f[x] \cup {e.req} ELSE f[x]
  PROVE  Append(d, e) \in Seq(FrrEntries) /\ FrrDeadlines(Append(d, e), g)
<1>1. PICK t : t = Append(d, e)
  OBVIOUS
<1>2. /\ t \in Seq(FrrEntries) /\ Len(t) = Len(d) + 1
      /\ t[Len(d) + 1] = e /\ \A j \in 1..Len(d) : t[j] = d[j]
  BY <1>1, AppendProperties
<1>3. /\ DOMAIN t = 1..(Len(d) + 1) /\ DOMAIN d = 1..Len(d) /\ Len(d) \in Nat
      /\ Len(d) + 1 \in DOMAIN t
      /\ \A j \in DOMAIN t : j \in DOMAIN d \/ j = Len(d) + 1
      /\ \A j \in DOMAIN d : j \in DOMAIN t /\ t[j] = d[j] /\ j <= Len(d)
  BY <1>2
<1>4. \A j \in DOMAIN d : d[j].req # e.req
  BY DEF FrrDeadlines
<1>5. e.deadline \in Nat
  BY DEF FrrEntries
<1>6. ASSUME NEW i \in DOMAIN t, NEW j \in DOMAIN t
      PROVE  /\ t[i].req = t[j].req => i = j
             /\ i <= j => t[i].deadline <= t[j].deadline
  <2>1. CASE i \in DOMAIN d /\ j \in DOMAIN d
    BY <1>3, <2>1 DEF FrrDeadlines
  <2>2. CASE i \in DOMAIN d /\ j = Len(d) + 1
    BY <1>2, <1>3, <1>4, <2>2
  <2>3. CASE i = Len(d) + 1 /\ j \in DOMAIN d
    BY <1>2, <1>3, <1>4, <2>3
  <2>4. CASE i = Len(d) + 1 /\ j = Len(d) + 1
    BY <1>2, <1>5, <2>4
  <2>5. QED
    BY <1>3, <2>1, <2>2, <2>3, <2>4
<1>7. ASSUME NEW i \in DOMAIN t
      PROVE  \E x \in Objects : t[i].req \in g[x]
  <2>1. CASE i \in DOMAIN d
    <3>1. PICK x \in Objects : d[i].req \in f[x]
      BY <2>1 DEF FrrDeadlines
    <3>2. QED
      BY <1>3, <2>1, <3>1
  <2>2. CASE i = Len(d) + 1
    BY <1>2, <2>2
  <2>3. QED
    BY <1>3, <2>1, <2>2
<1>8. ASSUME NEW x \in Objects, NEW r \in g[x]
      PROVE  \E i \in DOMAIN t : t[i].req = r
  <2>1. CASE r = e.req
    BY <1>2, <1>3, <2>1
  <2>2. CASE r # e.req
    <3>1. r \in f[x]
      BY <1>8, <2>2
    <3>2. PICK i \in DOMAIN d : d[i].req = r
      BY <3>1 DEF FrrDeadlines
    <3>3. QED
      BY <1>3, <3>2
  <2>3. QED
    BY <2>1, <2>2
<1>9. QED
  BY <1>1, <1>2, <1>6, <1>7, <1>8 DEF FrrDeadlines

\* The global queue q with the flags c, once object o has the requests f[o].
FrrJoined(q, c, f) ==
  /\ q \in Seq(Objects) /\ c \in [Objects -> BOOLEAN] /\ Distinct(q)
  /\ \A x \in Elements(q) : c[x] /\ x # wq /\ f[x] # {}
  /\ mode = "OFF" =>
       /\ \A x \in Objects : /\ c[x] => x \in Elements(q)
                             /\ f[x] # {} => x \in Elements(q) \cup {wq}
       /\ \A i \in DOMAIN q : wait[q[i]] + TurnLeft(FrrNow) + i * Quantum
                                <= Cardinality(Objects) * Quantum

(* An object that has requests again joins the global queue at its end:    *)
(* there is one place for each object, and the one that has the turn has   *)
(* left its own (nrsfrr.cpp:330-339).                                      *)
LEMMA FrrJoinOK ==
  ASSUME FrrIInv, NEW o \in Objects, NEW f, f[o] # {},
         \A x \in Objects : x # o => f[x] = oq[x]
  PROVE  /\ ~queued[o] /\ o # wq =>
              FrrJoined(Append(Q, o), [queued EXCEPT ![o] = TRUE], f)
         /\ queued[o] \/ o = wq => FrrJoined(Q, queued, f)
<1>1. /\ Q \in Seq(Objects) /\ queued \in [Objects -> BOOLEAN] /\ Distinct(Q)
      /\ wq \in Objects \cup {None} /\ quantum \in Nat /\ quantum <= Quantum
      /\ \A x \in Elements(Q) : queued[x] /\ x # wq /\ oq[x] # {}
      /\ wait \in [Objects -> Nat] /\ Quantum \in Nat \ {0} /\ None \notin Objects
  BY FrrFacts, FrrConstants DEF FrrTurn, FrrNow
<1>2. Elements(Q) \subseteq Objects
  BY <1>1 DEF Elements
<1>3. ASSUME mode = "OFF"
      PROVE  /\ \A x \in Objects : /\ queued[x] => x \in Elements(Q)
                                   /\ oq[x] # {} => x \in Elements(Q) \cup {wq}
                                   /\ oq[x] = {} => wait[x] = 0
             /\ \A i \in DOMAIN Q : wait[Q[i]] + TurnLeft(FrrNow) + i * Quantum
                                      <= Cardinality(Objects) * Quantum
  BY <1>3, FrrFacts DEF FrrOff, FrrWaits, FrrNow
<1>4. TurnLeft(FrrNow) = IF wq = None THEN 0 ELSE quantum
  BY DEF TurnLeft, FrrNow
<1>5. ASSUME queued[o] \/ o = wq
      PROVE  FrrJoined(Q, queued, f)
  <2>1. \A x \in Elements(Q) : f[x] # {}
    BY <1>1, <1>2
  <2>2. ASSUME mode = "OFF", NEW x \in Objects, f[x] # {}
        PROVE  x \in Elements(Q) \cup {wq}
    BY <1>3, <1>5, <2>2
  <2>3. QED
    BY <1>1, <1>3, <2>1, <2>2 DEF FrrJoined
<1>6. ASSUME ~queued[o], o # wq
      PROVE  FrrJoined(Append(Q, o), [queued EXCEPT ![o] = TRUE], f)
  <2>1. PICK q, c : q = Append(Q, o) /\ c = [queued EXCEPT ![o] = TRUE]
    OBVIOUS
  <2>2. o \in Objects \ Elements(Q)
    BY <1>1, <1>6
  <2>3. /\ q \in Seq(Objects) /\ Distinct(q) /\ Elements(q) = Elements(Q) \cup {o}
        /\ Len(Q) + 1 <= Cardinality(Objects)
        /\ \A w \in Objects \ (Elements(Q) \cup {o}) : Len(Q) + 2 <= Cardinality(Objects)
    BY <1>1, <2>1, <2>2, JoinOK
  <2>4. /\ c \in [Objects -> BOOLEAN] /\ c[o]
        /\ \A x \in Objects : x # o => c[x] = queued[x]
    BY <1>1, <2>1
  <2>5. \A x \in Elements(q) : c[x] /\ x # wq /\ f[x] # {}
    BY <1>1, <1>2, <1>6, <2>3, <2>4
  <2>6. ASSUME mode = "OFF", NEW x \in Objects
        PROVE  /\ c[x] => x \in Elements(q)
               /\ f[x] # {} => x \in Elements(q) \cup {wq}
    BY <1>3, <2>3, <2>4, <2>6
  <2>7. ASSUME mode = "OFF", NEW i \in DOMAIN q
        PROVE  wait[q[i]] + TurnLeft(FrrNow) + i * Quantum <= Cardinality(Objects) * Quantum
    <3>1. /\ Len(q) = Len(Q) + 1 /\ q[Len(Q) + 1] = o /\ \A j \in 1..Len(Q) : q[j] = Q[j]
      BY <1>1, <2>1, AppendProperties
    <3>2. /\ DOMAIN q = 1..(Len(Q) + 1) /\ DOMAIN Q = 1..Len(Q) /\ Len(Q) \in Nat
      BY <1>1, <2>3, <3>1
    <3>3. i \in DOMAIN Q \/ i = Len(Q) + 1
      BY <2>7, <3>2
    <3>4. CASE i \in DOMAIN Q
      BY <1>3, <2>7, <3>1, <3>2, <3>4
    <3>5. CASE i = Len(Q) + 1
      <4>1. wait[q[i]] = 0
        BY <1>3, <1>6, <2>2, <2>7, <3>1, <3>5
      <4>2. Cardinality(Objects) \in Nat
        BY <1>1, DistinctLength
      <4>3. PICK n, l : n = Cardinality(Objects) /\ l = Len(Q)
        OBVIOUS
      <4>4. n \in Nat /\ l \in Nat /\ l + 1 <= n /\ (wq # None => l + 2 <= n)
        <5>1. wq # None => wq \in Objects \ (Elements(Q) \cup {o})
          BY <1>1, <1>6
        <5>2. QED
          BY <2>3, <3>2, <4>2, <4>3, <5>1
      <4>5. CASE wq = None
        <5>1. (l + 1) * Quantum <= n * Quantum /\ (l + 1) * Quantum \in Nat
          BY <1>1, <4>4, ProductMonotone, l + 1 \in Nat
        <5>2. TurnLeft(FrrNow) = 0
          BY <1>4, <4>5
        <5>3. QED
          BY <3>5, <4>1, <4>3, <5>1, <5>2
      <4>6. CASE wq # None
        <5>1. (l + 2) * Quantum <= n * Quantum
          BY <1>1, <4>4, <4>6, ProductMonotone, l + 2 \in Nat
        <5>2. (l + 2) * Quantum = (l + 1) * Quantum + Quantum
          BY <1>1, <4>4
        <5>3. PICK a, b : a = (l + 1) * Quantum /\ b = n * Quantum
          OBVIOUS
        <5>4. a \in Nat /\ b \in Nat /\ a + Quantum <= b
          BY <1>1, <4>4, <5>1, <5>2, <5>3, ProductMonotone, l + 1 \in Nat
        <5>5. quantum + a <= b
          BY <1>1, <5>4
        <5>6. TurnLeft(FrrNow) = quantum
          BY <1>4, <4>6
        <5>7. 0 + quantum + a <= b
          BY <1>1, <5>4, <5>5
        <5>8. QED
          BY <3>5, <4>1, <4>3, <5>3, <5>6, <5>7
      <4>7. QED
        BY <4>5, <4>6
    <3>6. QED
      BY <3>3, <3>4, <3>5
  <2>8. QED
    BY <2>1, <2>3, <2>4, <2>5, <2>6, <2>7 DEF FrrJoined
<1>7. QED
  BY <1>5, <1>6

(* A request arrives.                                                      *)
LEMMA FrrAddInv ==
  ASSUME FrrIInv, NEW r \in F!Requests, F!AddNewTask(r)
  PROVE  FrrIInv'
<1>1. PICK o, e : o = r[1] /\ e = [req |-> r, deadline |-> F!Deadline]
  OBVIOUS
<1>2. PICK f, q, c, d, p : f = oq' /\ q = Q' /\ c = queued' /\ d = dQ' /\ p = pool'
  OBVIOUS
<1>3. /\ r \notin F!Queued \cup busy \cup done
      /\ f = [oq EXCEPT ![o] = oq[o] \cup {r}]
      /\ p = F!Wakeup(pool)
      /\ d = IF mode = "2L" THEN Append(dQ, e) ELSE dQ
      /\ UNCHANGED <<mode, now, busy, done, wq, quantum, wait>>
  BY <1>1, <1>2 DEF F!AddNewTask, F!Enqueue
<1>4. /\ ~queued[o] /\ o # wq =>
           q = Append(Q, o) /\ c = [queued EXCEPT ![o] = queued[o] \/ TRUE]
      /\ queued[o] \/ o = wq => q = Q /\ c = [queued EXCEPT ![o] = queued[o] \/ FALSE]
  BY <1>1, <1>2 DEF F!AddNewTask, F!Enqueue
<1>5. o \in Objects /\ r \in {o} \X (1..PerObject[o])
  BY <1>1, FrrConstants
<1>6. /\ mode \in Modes /\ mode \in {"OFF", "2L"} /\ now \in 0..FrrLastTick
      /\ busy \in SUBSET F!Requests /\ done \in SUBSET F!Requests
      /\ pool \in [state : PoolStates, run : BOOLEAN, idle : Nat]
      /\ oq \in [Objects -> SUBSET F!Requests] /\ queued \in [Objects -> BOOLEAN]
      /\ wq \in Objects \cup {None} /\ quantum \in Nat
      /\ dQ \in Seq(FrrEntries) /\ wait \in [Objects -> Nat]
  BY FrrFacts
<1>7. /\ f \in [Objects -> SUBSET F!Requests] /\ f[o] = oq[o] \cup {r} /\ f[o] # {}
      /\ \A x \in Objects : x # o => f[x] = oq[x]
  BY <1>3, <1>5, <1>6
<1>8. FrrJoined(q, c, f)
  <2>1. CASE ~queued[o] /\ o # wq
    <3>1. q = Append(Q, o) /\ c = [queued EXCEPT ![o] = TRUE]
      BY <1>4, <2>1
    <3>2. QED
      BY <1>5, <1>7, <2>1, <3>1, FrrJoinOK
  <2>2. CASE queued[o] \/ o = wq
    <3>1. [queued EXCEPT ![o] = queued[o] \/ FALSE] = queued
      <4>1. queued[o] \in BOOLEAN
        BY <1>5, <1>6
      <4>2. (queued[o] \/ FALSE) = queued[o]
        BY <4>1, Zenon
      <4>3. [queued EXCEPT ![o] = queued[o] \/ FALSE] = [queued EXCEPT ![o] = queued[o]]
        BY <4>2, Zenon
      <4>4. QED
        BY <1>6, <4>3
    <3>2. q = Q /\ c = queued
      BY <1>4, <2>2, <3>1
    <3>3. QED
      BY <1>5, <1>7, <2>2, <3>2, FrrJoinOK
  <2>3. QED
    BY <2>1, <2>2
<1>9. d \in Seq(FrrEntries) /\ (mode = "OFF" => d = <<>>) /\ (mode = "2L" => FrrDeadlines(d, f))
  <2>1. CASE mode = "OFF"
    <3>1. dQ = <<>>
      BY <2>1, FrrFacts DEF FrrOff, FrrWaits, FrrNow
    <3>2. QED
      BY <1>3, <1>6, <2>1, <3>1
  <2>2. CASE mode = "2L"
    <3>1. /\ e \in FrrEntries /\ e.req = r
          /\ \A i \in DOMAIN dQ : dQ[i].deadline <= e.deadline
      BY <1>1, <2>2, FrrDeadlineOK DEF FrrEntries
    <3>2. FrrDeadlines(dQ, oq)
      BY <2>2, FrrFacts
    <3>3. \A x \in Objects : e.req \notin oq[x]
      BY <1>3, <3>1, FrrSame
    <3>4. \A x \in Objects : f[x] = IF x = o THEN oq[x] \cup {e.req} ELSE oq[x]
      BY <1>7, <3>1
    <3>5. Append(dQ, e) \in Seq(FrrEntries) /\ FrrDeadlines(Append(dQ, e), f)
      BY <1>5, <1>6, <3>1, <3>2, <3>3, <3>4, DeadlineAdded
    <3>6. QED
      BY <1>3, <2>2, <3>5
  <2>3. QED
    BY <1>6, <2>1, <2>2
<1>10. /\ p \in [state : PoolStates, run : BOOLEAN, idle : Nat]
       /\ p.idle = pool.idle /\ (p.idle = 0 <=> p.state = "FullLoad")
  <2>1. pool.idle = 0 <=> pool.state = "FullLoad"
    BY FrrFacts
  <2>2. QED
    BY <1>3, <1>6, <2>1 DEF F!Wakeup, F!Signalled, PoolStates
<1>11. PICK t : t = [pool |-> p, oq |-> f, queued |-> c, Q |-> q, wq |-> wq,
                     quantum |-> quantum, dQ |-> d, wait |-> wait, out |-> {}]
  OBVIOUS
<1>12. q \in Seq(Objects) /\ c \in [Objects -> BOOLEAN]
  BY <1>8 DEF FrrJoined
<1>13. t \in FrrRecords
  BY <1>6, <1>7, <1>9, <1>10, <1>11, <1>12 DEF FrrRecords
<1>14. t = FrrNow'
  BY <1>2, <1>3, <1>11 DEF FrrNow
<1>15. /\ t.pool = p /\ t.oq = f /\ t.queued = c /\ t.Q = q /\ t.wq = wq
       /\ t.quantum = quantum /\ t.dQ = d /\ t.wait = wait
  BY <1>11
<1>16. FrrTurn(t)
  <2>1. quantum <= Quantum /\ (wq # None => quantum >= 1 /\ oq[wq] # {})
    BY FrrFacts DEF FrrTurn, FrrNow
  <2>2. wq # None => f[wq] # {}
    BY <1>6, <1>7, <2>1
  <2>3. QED
    BY <1>8, <1>15, <2>1, <2>2 DEF FrrTurn, FrrJoined
<1>17. ASSUME mode = "OFF"
       PROVE  FrrOff(t)
  <2>1. \A x \in Objects : oq[x] = {} => wait[x] = 0
    BY <1>17, FrrFacts DEF FrrOff, FrrWaits, FrrNow
  <2>2. \A x \in Objects : f[x] = {} => wait[x] = 0
    BY <1>7, <2>1
  <2>3. TurnLeft(t) = TurnLeft(FrrNow)
    BY <1>15 DEF TurnLeft, FrrNow
  <2>4. wq # None => wait[wq] = 0
    BY <1>17, FrrFacts DEF FrrOff, FrrNow
  <2>5. FrrWaits(t)
    BY <1>8, <1>9, <1>15, <1>17, <2>2, <2>3 DEF FrrWaits, FrrJoined
  <2>6. QED
    BY <1>15, <2>4, <2>5 DEF FrrOff
<1>18. ASSUME NEW x \in Objects
       PROVE  /\ t.oq[x] \subseteq {x} \X (1..PerObject[x])
              /\ t.oq[x] \cap (busy' \cup done') = {}
  <2>1. oq[x] \subseteq {x} \X (1..PerObject[x]) /\ oq[x] \cap (busy \cup done) = {}
    BY FrrFacts
  <2>2. CASE x = o
    BY <1>3, <1>5, <1>7, <1>15, <2>1, <2>2
  <2>3. CASE x # o
    BY <1>3, <1>7, <1>15, <2>1, <2>3
  <2>4. QED
    BY <2>2, <2>3
<1>19. t.pool.idle + Cardinality(busy') = FrrThreads
  BY <1>3, <1>10, <1>15, FrrFacts
<1>20. /\ mode' \in Modes /\ now' \in 0..FrrLastTick
       /\ busy' \in SUBSET F!Requests /\ done' \in SUBSET F!Requests
       /\ t.pool.idle = 0 <=> t.pool.state = "FullLoad"
       /\ mode' = "OFF" => FrrOff(t)
       /\ mode' = "2L" => FrrDeadlines(t.dQ, t.oq)
  BY <1>3, <1>6, <1>9, <1>10, <1>15, <1>17
<1>21. QED
  BY <1>13, <1>14, <1>16, <1>18, <1>19, <1>20, FrrNextState

(* Everything else that happens.                                           *)
LEMMA FrrNextInv ==
  ASSUME FrrIInv, F!Next
  PROVE  FrrIInv'
<1>1. ASSUME NEW r \in F!Requests, F!TaskCompletion(r)
      PROVE  FrrIInv'
  <2>1. /\ r \in busy /\ pool' = F!SignalIfLoaded(F!AddThread(pool))
        /\ busy' = busy \ {r} /\ done' = done \cup {r}
        /\ UNCHANGED <<mode, now, oq, queued, Q, wq, quantum, dQ, wait>>
    BY <1>1 DEF F!TaskCompletion, F!nrsVars
  <2>2. PICK b, p : b = busy' /\ p = pool'
    OBVIOUS
  <2>3. /\ b = busy \ {r} /\ b \in SUBSET F!Requests
        /\ busy' \cup done' = busy \cup done /\ done' \in SUBSET F!Requests
    BY <2>1, <2>2, FrrFacts
  <2>4. Cardinality(b) = Cardinality(busy) - 1 /\ Cardinality(busy) \in Nat
    BY <2>1, <2>3, FrrFacts, FS_RemoveElement
  <2>5. /\ p \in [state : PoolStates, run : BOOLEAN, idle : Nat]
        /\ p.idle = pool.idle + 1 /\ (p.idle = 0 <=> p.state = "FullLoad")
    <3>1. PICK a : a = F!AddThread(pool)
      OBVIOUS
    <3>2. /\ pool \in [state : PoolStates, run : BOOLEAN, idle : Nat]
          /\ p = F!SignalIfLoaded(a)
      BY <2>1, <2>2, <3>1, FrrFacts
    <3>3. a = [state |-> pool.state, run |-> pool.run, idle |-> pool.idle + 1]
      BY <3>1, <3>2 DEF F!AddThread
    <3>4. CASE a.state = "FullLoad"
      <4>1. p = [a EXCEPT !.run = TRUE, !.state = "Run"]
        BY <3>2, <3>3, <3>4 DEF F!SignalIfLoaded, F!Signalled
      <4>2. p = [state |-> "Run", run |-> TRUE, idle |-> pool.idle + 1]
        BY <3>3, <4>1
      <4>3. QED
        BY <3>2, <4>2 DEF PoolStates
    <3>5. CASE a.state # "FullLoad"
      <4>1. p = a
        BY <3>2, <3>5 DEF F!SignalIfLoaded
      <4>2. QED
        BY <3>2, <3>3, <3>5, <4>1
    <3>6. QED
      BY <3>4, <3>5
  <2>6. PICK t : t = [pool |-> p, oq |-> oq, queued |-> queued, Q |-> Q, wq |-> wq,
                      quantum |-> quantum, dQ |-> dQ, wait |-> wait, out |-> {}]
    OBVIOUS
  <2>7. t \in FrrRecords
    BY <2>5, <2>6, FrrFacts DEF FrrRecords
  <2>8. t = FrrNow'
    BY <2>1, <2>2, <2>6 DEF FrrNow
  <2>9. /\ t.pool = p /\ t.oq = oq /\ t.queued = queued /\ t.Q = Q /\ t.wq = wq
        /\ t.quantum = quantum /\ t.dQ = dQ /\ t.wait = wait
    BY <2>6
  <2>10. FrrTurn(t)
    BY <2>9, FrrFacts DEF FrrTurn, FrrNow
  <2>11. mode' = "OFF" => FrrOff(t)
    BY <2>1, <2>9, FrrFacts DEF FrrOff, FrrWaits, TurnLeft, FrrNow
  <2>12. t.pool.idle + Cardinality(busy') = FrrThreads
    BY <2>2, <2>4, <2>5, <2>9, FrrFacts
  <2>13. \A x \in Objects : /\ t.oq[x] \subseteq {x} \X (1..PerObject[x])
                            /\ t.oq[x] \cap (busy' \cup done') = {}
    BY <2>3, <2>9, FrrFacts
  <2>14. /\ mode' \in Modes /\ now' \in 0..FrrLastTick /\ busy' \in SUBSET F!Requests
         /\ t.pool.idle = 0 <=> t.pool.state = "FullLoad"
         /\ mode' = "2L" => FrrDeadlines(t.dQ, t.oq)
    BY <2>1, <2>2, <2>3, <2>5, <2>9, FrrFacts
  <2>15. QED
    BY <2>3, <2>7, <2>8, <2>10, <2>11, <2>12, <2>13, <2>14, FrrNextState
<1>2. CASE F!Tick
  <2>1. /\ mode = "2L" /\ now < FrrLastTick /\ now' = now + 1
        /\ UNCHANGED <<mode, pool, oq, queued, Q, wq, quantum, dQ, wait, busy, done>>
    BY <1>2 DEF F!Tick, F!nrsVars
  <2>2. now' \in 0..FrrLastTick
    <3>1. FrrLastTick \in Nat
      BY SchedulersAssumption DEF SchedulersAssumption, F!NrsFrrAssumption
    <3>2. PICK n : n = now'
      OBVIOUS
    <3>3. n \in 0..FrrLastTick
      BY <2>1, <3>1, <3>2, FrrFacts
    <3>4. QED
      BY <3>2, <3>3
  <2>3. PICK t : t = FrrNow
    OBVIOUS
  <2>4. t = FrrNow' /\ t \in FrrRecords /\ FrrTurn(t)
    BY <2>1, <2>3 DEF FrrNow, FrrIInv, FrrStates
  <2>5. t.pool = pool /\ t.oq = oq /\ t.dQ = dQ
    BY <2>3 DEF FrrNow
  <2>6. /\ \A x \in Objects : /\ t.oq[x] \subseteq {x} \X (1..PerObject[x])
                              /\ t.oq[x] \cap (busy' \cup done') = {}
        /\ t.pool.idle + Cardinality(busy') = FrrThreads
        /\ t.pool.idle = 0 <=> t.pool.state = "FullLoad"
        /\ mode' = "OFF" => FrrOff(t)
        /\ mode' = "2L" => FrrDeadlines(t.dQ, t.oq)
        /\ mode' \in Modes /\ busy' \in SUBSET F!Requests /\ done' \in SUBSET F!Requests
    BY <2>1, <2>5, FrrFacts
  <2>7. QED
    BY <2>2, <2>4, <2>6, FrrNextState
<1>3. QED
  BY <1>1, <1>2, FrrAddInv, FrrRunPoolInv DEF F!Next

LEMMA FrrInitInv ==
  ASSUME F!Init
  PROVE  FrrIInv
<1>1. /\ mode \in Modes /\ now = 0 /\ dQ = <<>> /\ busy = {} /\ done = {}
      /\ pool = [F!StartedPool(FrrThreads) EXCEPT !.run = FALSE, !.state = "Idle"]
      /\ oq = [o \in Objects |-> {}] /\ queued = [o \in Objects |-> FALSE]
      /\ Q = <<>> /\ wq = None /\ quantum = 0 /\ wait = [o \in Objects |-> 0]
  BY DEF F!Init
<1>2. pool = [state |-> "Idle", run |-> FALSE, idle |-> FrrThreads]
  BY <1>1 DEF F!StartedPool
<1>3. PICK t : t = FrrNow
  OBVIOUS
<1>4. /\ t.pool = pool /\ t.oq = oq /\ t.queued = queued /\ t.Q = Q /\ t.wq = wq
      /\ t.quantum = quantum /\ t.dQ = dQ /\ t.wait = wait /\ t.out = {}
  BY <1>3 DEF FrrNow
<1>5. /\ <<>> \in Seq(FrrEntries) /\ <<>> \in Seq(Objects)
      /\ DOMAIN <<>> = {} /\ Elements(<<>>) = {} /\ Distinct(<<>>)
  BY DOMAIN <<>> = {} DEF Elements, Distinct
<1>6. FrrThreads \in Nat \ {0} /\ FrrLastTick \in Nat /\ Modes \subseteq {"OFF", "2L"}
  BY FrrConstants, SchedulersAssumption
     DEF SchedulersAssumption, F!NrsFrrAssumption
<1>7. t \in FrrRecords
  BY <1>1, <1>2, <1>3, <1>5, <1>6 DEF FrrNow, FrrRecords, PoolStates
<1>8. FrrPlaces(t)
  <2>1. Cardinality(busy \cup t.out) = 0
    BY <1>1, <1>4, FS_EmptySet
  <2>2. QED
    BY <1>1, <1>2, <1>4, <1>6, <1>7, <2>1 DEF FrrPlaces
<1>9. FrrTurn(t)
  BY <1>1, <1>4, <1>5, FrrConstants DEF FrrTurn
<1>10. FrrModes(t)
  BY <1>1, <1>4, <1>5, <1>6 DEF FrrModes, FrrDeadlines, FrrExpired
<1>11. FrrOff(t)
  BY <1>1, <1>4, <1>5 DEF FrrOff, FrrWaits
<1>12. QED
  BY <1>1, <1>3, <1>6, <1>7, <1>8, <1>9, <1>10, <1>11 DEF FrrIInv, FrrStates

(* The inductive invariant of the round robin.  An object waits for no     *)
(* more than one quantum of each of the others because what it has waited  *)
(* for, what is left of the turn and one quantum for each of the objects   *)
(* before it in the queue are together no more than that.                  *)
THEOREM FrrInvariance == Spec => []FrrInv
<1>1. Init => FrrInv
  BY FrrInitInv DEF Init, FrrInv
<1>2. FrrInv /\ [Next]_vars => FrrInv'
  <2> SUFFICES ASSUME FrrInv, [Next]_vars, algo' = "frr"
               PROVE  FrrIInv'
    BY DEF FrrInv
  <2>1. algo = "frr" /\ FrrIInv
    BY DEF Next, Tbf, TbfRule, Frr, Epoch, Prio, vars, FrrInv
  <2>2. CASE Next
    BY <2>1, <2>2, FrrNextInv DEF Next, Tbf, TbfRule, Frr, Epoch, Prio
  <2>3. CASE UNCHANGED vars
    <3>1. UNCHANGED <<mode, now, busy, done, pool, oq, queued, Q, wq, quantum, dQ, wait>>
      BY <2>3 DEF vars, poolVars, frrVars
    <3>2. PICK t : t = FrrNow
      OBVIOUS
    <3>3. t = FrrNow' /\ t \in FrrRecords /\ FrrTurn(t)
      BY <2>1, <3>1, <3>2 DEF FrrNow, FrrIInv, FrrStates
    <3>4. t.pool = pool /\ t.oq = oq /\ t.dQ = dQ
      BY <3>2 DEF FrrNow
    <3>5. /\ \A x \in Objects : /\ t.oq[x] \subseteq {x} \X (1..PerObject[x])
                                /\ t.oq[x] \cap (busy' \cup done') = {}
          /\ t.pool.idle + Cardinality(busy') = FrrThreads
          /\ t.pool.idle = 0 <=> t.pool.state = "FullLoad"
          /\ mode' = "OFF" => FrrOff(t)
          /\ mode' = "2L" => FrrDeadlines(t.dQ, t.oq)
          /\ mode' \in Modes /\ now' \in 0..FrrLastTick
          /\ busy' \in SUBSET F!Requests /\ done' \in SUBSET F!Requests
      BY <2>1, <3>1, <3>2, <3>4, FrrFacts
    <3>6. QED
      BY <3>3, <3>5, FrrNextState
  <2>4. QED
    BY <2>2, <2>3
<1>3. QED
  BY <1>1, <1>2, PTL DEF Spec

(* An object queue is in the global queue or has the turn if and only if   *)
(* it has requests and waits no longer than one quantum of each other      *)
(* object, and the queue of deadlines holds the waiting requests, sorted   *)
(* (nrsfrr.cpp:131-145, 180-190, 298-339, 417-427).                        *)
THEOREM FrrTakesTurns == Spec => []ObjectsTakeTurns
<1> SUFFICES FrrInv => ObjectsTakeTurns
  BY FrrInvariance, PTL
<1> SUFFICES ASSUME FrrIInv
             PROVE  /\ F!TypeOK /\ F!ObjectsHaveTurn /\ F!RoundRobin
                    /\ F!DeadlinesSorted
  BY DEF FrrInv, ObjectsTakeTurns
<1>1. /\ Q \in Seq(Objects) /\ Distinct(Q) /\ quantum <= Quantum /\ quantum \in Nat
      /\ \A o \in Elements(Q) : o # wq /\ oq[o] # {}
      /\ wq # None => oq[wq] # {}
  BY FrrFacts DEF FrrTurn, FrrNow
<1>2. F!TypeOK
  <2>1. pool \in F!Pools(FrrThreads)
    <3>1. PICK c : c = Cardinality(busy)
      OBVIOUS
    <3>2. /\ pool \in [state : PoolStates, run : BOOLEAN, idle : Nat]
          /\ pool.idle + c = FrrThreads /\ c \in Nat
      BY <3>1, FrrFacts
    <3>3. pool.idle \in 0..FrrThreads
      BY <3>2, FrrConstants
    <3>4. QED
      BY <3>2, <3>3 DEF F!Pools, F!PoolStates, PoolStates
  <2>2. quantum \in 0..Quantum
    BY <1>1, FrrConstants
  <2>3. QED
    BY <2>1, <2>2, FrrFacts DEF F!TypeOK, FrrEntries
<1>3. ASSUME mode = "OFF"
      PROVE  /\ \A o \in Objects : /\ oq[o] # {} => o \in Elements(Q) \cup {wq}
                                   /\ oq[o] = {} => wait[o] = 0
             /\ \A i \in DOMAIN Q : wait[Q[i]] + TurnLeft(FrrNow) + i * Quantum
                                      <= Cardinality(Objects) * Quantum
             /\ wq # None => wait[wq] = 0
  BY <1>3, FrrFacts DEF FrrOff, FrrWaits, FrrNow
<1>4. F!ObjectsHaveTurn
  <2>1. F!IsInjective(Q)
    BY <1>1 DEF F!IsInjective, Distinct
  <2>2. QED
    BY <1>1, <1>3, <2>1, FrrSame, FrrConstants DEF F!ObjectsHaveTurn
<1>5. F!RoundRobin
  <2> SUFFICES ASSUME mode = "OFF", NEW o \in Objects
               PROVE  wait[o] <= (Cardinality(Objects) - 1) * Quantum
    BY FrrSame DEF F!RoundRobin
  <2>1. PICK n : n = Cardinality(Objects)
    OBVIOUS
  <2>2. n \in Nat /\ n >= 1 /\ Quantum \in Nat
    <3>1. n \in Nat /\ n # 0
      BY <2>1, FrrConstants, FS_CardinalityType, FS_EmptySet
    <3>2. QED
      BY <3>1, FrrConstants
  <2>3. (n - 1) * Quantum = n * Quantum - Quantum /\ (n - 1) * Quantum \in Nat
    BY <2>2
  <2>4. CASE o \in Elements(Q)
    <3>1. PICK i \in DOMAIN Q : Q[i] = o
      BY <2>4 DEF Elements
    <3>2. i \in Nat /\ i >= 1 /\ wait[o] \in Nat
      BY <1>1, FrrFacts
    <3>3. wait[o] + TurnLeft(FrrNow) + i * Quantum <= n * Quantum
      BY <1>3, <2>1, <3>1
    <3>4. PICK a, b, l, w : a = i * Quantum /\ b = n * Quantum
                           /\ l = TurnLeft(FrrNow) /\ w = wait[o]
      OBVIOUS
    <3>5. l \in Nat
      BY <1>1, <3>4 DEF TurnLeft, FrrNow
    <3>6. Quantum <= a /\ a \in Nat /\ b \in Nat
      <4>1. 1 * Quantum <= i * Quantum /\ i * Quantum \in Nat /\ n * Quantum \in Nat
        BY <2>2, <3>2, ProductMonotone
      <4>2. QED
        BY <2>2, <3>4, <4>1
    <3>7. w <= b - Quantum
      <4>1. w + l + a <= b
        BY <3>3, <3>4
      <4>2. QED
        BY <2>2, <3>2, <3>4, <3>5, <3>6, <4>1
    <3>8. QED
      BY <2>1, <2>3, <3>4, <3>7
  <2>5. CASE o \notin Elements(Q)
    <3>1. wait[o] = 0
      BY <1>3, <2>5, FrrConstants
    <3>2. QED
      BY <2>1, <2>3, <3>1
  <2>6. QED
    BY <2>4, <2>5
<1>6. F!DeadlinesSorted
  <2> SUFFICES ASSUME mode = "2L"
               PROVE  /\ Len(dQ) = Cardinality(F!Queued)
                      /\ {e.req : e \in F!ToSet(dQ)} = F!Queued
                      /\ \A i, j \in DOMAIN dQ : i <= j => dQ[i].deadline <= dQ[j].deadline
    BY FrrSame DEF F!DeadlinesSorted
  <2>1. dQ \in Seq(FrrEntries) /\ FrrDeadlines(dQ, oq) /\ Len(dQ) \in Nat
    BY FrrFacts
  <2>2. PICK q : q = [i \in 1..Len(dQ) |-> dQ[i].req]
    OBVIOUS
  <2>3. /\ q \in Seq(F!Requests) /\ Len(q) = Len(dQ) /\ DOMAIN q = DOMAIN dQ
        /\ \A i \in DOMAIN dQ : q[i] = dQ[i].req
    <3>1. ASSUME NEW i \in 1..Len(dQ)
          PROVE  dQ[i].req \in F!Requests
      <4>1. dQ[i] \in FrrEntries
        BY <2>1
      <4>2. QED
        BY <4>1 DEF FrrEntries
    <3>2. QED
      BY <2>1, <2>2, <3>1
  <2>4. Distinct(q)
    BY <2>1, <2>3 DEF Distinct, FrrDeadlines
  <2>5. Elements(q) = F!Queued
    <3>1. \A r : r \in Elements(q) <=> \E i \in DOMAIN dQ : dQ[i].req = r
      BY <2>3 DEF Elements
    <3>2. \A r : r \in F!Queued <=> \E o \in Objects : r \in oq[o]
      BY FrrSame
    <3>3. /\ \A i \in DOMAIN dQ : \E o \in Objects : dQ[i].req \in oq[o]
          /\ \A o \in Objects : \A r \in oq[o] : \E i \in DOMAIN dQ : dQ[i].req = r
      BY <2>1 DEF FrrDeadlines
    <3>4. \A r : r \in Elements(q) <=> r \in F!Queued
      BY <3>1, <3>2, <3>3
    <3>5. QED
      BY <3>4
  <2>6. {e.req : e \in F!ToSet(dQ)} = F!Queued
    <3>1. {e.req : e \in Elements(dQ)} = Elements(q)
      BY <2>3 DEF Elements
    <3>2. QED
      BY <2>5, <3>1, FrrSame
  <2>7. Len(q) = Cardinality(F!Queued)
    <3>1. PICK k, z : k = Len(q) /\ z = Prefix(q, k)
      OBVIOUS
    <3>2. Cardinality(z) = k
      BY <2>3, <2>4, <3>1, PrefixOfInjective, Len(q) \in 0..Len(q)
    <3>3. z = Elements(q)
      BY <2>3, <3>1 DEF Elements, Prefix
    <3>4. QED
      BY <2>5, <3>1, <3>2, <3>3
  <2>8. QED
    BY <2>1, <2>3, <2>6, <2>7 DEF FrrDeadlines
<1>7. QED
  BY <1>2, <1>4, <1>5, <1>6

(* A request whose deadline has passed gives way only to requests with a   *)
(* deadline as early (nrsfrr.cpp:235-277, 373-401).                        *)
THEOREM FrrExpiredGoesFirst == Spec => ExpiredFirst
<1>1. FrrInv /\ [Next]_vars => [algo = "frr" => F!ExpiredGoesFirst]_vars
  <2> SUFFICES ASSUME FrrInv, Next, algo = "frr"
               PROVE  F!ExpiredGoesFirst
    OBVIOUS
  <2>1. F!Next /\ FrrIInv
    BY DEF Next, Tbf, TbfRule, Frr, Epoch, Prio, FrrInv
  <2>2. CASE F!RunPool
    BY <2>1, <2>2, FrrRunPoolInv
  <2>3. CASE ~F!RunPool
    <3>1. busy' \subseteq busy
      BY <2>1, <2>3 DEF F!Next, F!AddNewTask, F!TaskCompletion, F!Tick
    <3>2. \A e \in Elements(dQ) : e.req \notin busy
      <4>1. CASE mode = "2L"
        <5>1. \A e \in Elements(dQ) : \E o \in Objects : e.req \in oq[o]
          BY <2>1, <4>1, FrrFacts DEF FrrDeadlines, Elements
        <5>2. QED
          BY <2>1, <5>1, FrrFacts
      <4>2. CASE mode = "OFF"
        <5>1. dQ = <<>>
          BY <2>1, <4>2, FrrFacts DEF FrrOff, FrrWaits, FrrNow
        <5>2. QED
          BY <5>1, DOMAIN dQ = {} DEF Elements
      <4>3. QED
        BY <2>1, <4>1, <4>2, FrrFacts
    <3>3. QED
      BY <3>1, <3>2, FrrSame DEF F!ExpiredGoesFirst
  <2>4. QED
    BY <2>2, <2>3
<1>2. QED
  BY <1>1, FrrInvariance, PTL DEF Spec, ExpiredFirst
=============================================================================
