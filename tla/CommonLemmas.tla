---------------------------- MODULE CommonLemmas ----------------------------
(***************************************************************************)
(* Lemmas that the proofs about several modules share: about natural       *)
(* numbers and functions defined by recursion on them, about queues, and   *)
(* about the thread pool, whose operators the proofs about the modules     *)
(* that use it never open.                                                 *)
(***************************************************************************)
EXTENDS ThreadPool, Integers, Sequences, FiniteSets, FiniteSetsExt, TLAPS,
        FiniteSetTheorems, SequenceTheorems, WellFoundedInduction

(* A set of natural numbers has a least element, which is its minimum.     *)
LEMMA LeastNat ==
  ASSUME NEW S \in SUBSET Nat, S # {}
  PROVE  \E n \in S : \A m \in S : n <= m
<1>1. PICK n \in S : \A m \in S : ~ (<<m, n>> \in OpToRel(<, Nat))
  BY WFMin, NatLessThanWellFounded
<1>2. \A m \in S : ~ (m < n)
  BY <1>1 DEF OpToRel
<1>3. QED
  BY <1>2

LEMMA MinOfNats ==
  ASSUME NEW S \in SUBSET Nat, S # {}
  PROVE  Min(S) \in S /\ \A m \in S : Min(S) <= m
BY LeastNat DEF Min

(* The induction that the proofs use: a set with 0 and the successors of   *)
(* its elements up to n holds every number up to n.                        *)
LEMMA UpTo ==
  ASSUME NEW n \in Nat, NEW S, 0 \in S,
         \A k \in 1..n : k - 1 \in S => k \in S
  PROVE  0..n \subseteq S
<1> SUFFICES ASSUME ~(0..n \subseteq S)
             PROVE  FALSE
  OBVIOUS
<1> DEFINE B == (0..n) \ S
<1>1. B \in SUBSET Nat /\ B # {}
  OBVIOUS
<1> HIDE DEF B
<1>2. PICK k \in B : \A m \in B : k <= m
  BY <1>1, LeastNat
<1>3. k \in 1..n /\ k - 1 \notin B
  BY <1>1, <1>2 DEF B
<1>4. QED
  BY <1>2, <1>3 DEF B

(* The largest value of a function on the first numbers.                   *)
LEMMA MaxOfFunction ==
  ASSUME NEW n \in Nat, NEW h \in [0..n -> Nat]
  PROVE  LET m == Max({h[i] : i \in 0..n})
         IN  /\ m \in Nat /\ \A i \in 0..n : h[i] <= m
             /\ \E i \in 0..n : h[i] = m
<1> DEFINE S == {k \in 0..n : \E j \in 0..k : \A i \in 0..k : h[i] <= h[j]}
<1>1. 0 \in S
  BY \A i \in 0..0 : i = 0
<1>2. ASSUME NEW k \in 1..n, k - 1 \in S
      PROVE  k \in S
  <2>1. PICK j \in 0..(k - 1) : \A i \in 0..(k - 1) : h[i] <= h[j]
    BY <1>2
  <2>2. /\ \A i \in 0..k : i \in 0..(k - 1) \/ i = k
        /\ k \in 0..k /\ j \in 0..k
        /\ \A i \in 0..k : h[i] \in Nat
    OBVIOUS
  <2>3. CASE h[k] <= h[j]
    <3>1. \A i \in 0..k : h[i] <= h[j]
      BY <2>1, <2>2, <2>3
    <3>2. QED
      BY <2>2, <3>1, SMTT(30)
  <2>4. CASE h[k] > h[j]
    <3>1. \A i \in 0..k : h[i] <= h[k]
      BY <2>1, <2>2, <2>4
    <3>2. QED
      BY <2>2, <3>1
  <2>5. QED
    BY <2>2, <2>3, <2>4
<1> HIDE DEF S
<1>3. 0..n \subseteq S
  BY <1>1, <1>2, UpTo
<1>4. PICK j \in 0..n : \A i \in 0..n : h[i] <= h[j]
  BY <1>3, n \in 0..n DEF S
<1> DEFINE V == {h[i] : i \in 0..n}
<1>5. V \in SUBSET Nat /\ h[j] \in V /\ \A v \in V : h[j] >= v
  BY <1>4
<1>6. /\ (\A i \in 0..n : h[i] \in V) /\ V \in SUBSET Nat
      /\ \A v \in V : \E i \in 0..n : h[i] = v
  OBVIOUS
<1> HIDE DEF V
<1>7. Max(V) \in V /\ \A v \in V : Max(V) >= v
  BY <1>5 DEF Max
<1>8. /\ Max(V) \in Nat /\ \A i \in 0..n : h[i] <= Max(V)
      /\ \E i \in 0..n : h[i] = Max(V)
  BY <1>6, <1>7
<1>9. QED
  BY <1>8 DEF V

LEMMA MaxOfTwo ==
  ASSUME NEW a \in Nat, NEW b \in Nat
  PROVE  /\ Max({a, b}) \in Nat /\ Max({a, b}) >= a /\ Max({a, b}) >= b
         /\ Max({a, b}) \in {a, b}
<1>1. \E x \in {a, b} : \A y \in {a, b} : x >= y
  OBVIOUS
<1>2. Max({a, b}) \in {a, b} /\ \A y \in {a, b} : Max({a, b}) >= y
  BY <1>1 DEF Max
<1>3. QED
  BY <1>2

LEMMA MaxIs ==
  ASSUME NEW a \in Int, NEW b \in Int
  PROVE  Max({a, b}) = IF a <= b THEN b ELSE a
BY DEF Max

LEMMA MaxIsLargest ==
  ASSUME NEW S \in SUBSET Nat, NEW m \in S, \A x \in S : x <= m
  PROVE  Max(S) = m
<1>1. \A x \in S : m >= x
  OBVIOUS
<1>2. Max(S) \in S /\ \A x \in S : Max(S) >= x
  BY <1>1 DEF Max
<1>3. Max(S) \in Nat /\ m \in Nat /\ Max(S) >= m /\ Max(S) <= m
  BY <1>2
<1>4. QED
  BY <1>3

LEMMA LargestExists ==
  ASSUME NEW n \in Nat, NEW S \in SUBSET (0..n), S # {}
  PROVE  \E m \in S : \A x \in S : x <= m
<1> DEFINE D == {d \in Nat : \E x \in S : d = n - x}
<1>1. D \in SUBSET Nat /\ D # {}
  <2>1. PICK x \in S : TRUE
    OBVIOUS
  <2>2. n - x \in D
    BY <2>1
  <2>3. QED
    BY <2>2
<1>2. \A x \in S : n - x \in D
  OBVIOUS
<1>3. PICK d \in D : \A y \in D : d <= y
  BY <1>1, LeastNat, Zenon
<1>4. PICK m \in S : d = n - m
  BY <1>3
<1>5. ASSUME NEW x \in S
      PROVE  x <= m
  <2>1. d <= n - x
    BY <1>2, <1>3
  <2>2. QED
    BY <1>4, <2>1
<1>6. QED
  BY <1>5

LEMMA MinOfTwo ==
  ASSUME NEW a \in Int, NEW b \in Int
  PROVE  Min({a, b}) = IF a <= b THEN a ELSE b
BY DEF Min

(* Division.                                                               *)
LEMMA DivBounds ==
  ASSUME NEW a \in Nat, NEW n \in Nat \ {0}
  PROVE  /\ a \div n \in Nat
         /\ n * (a \div n) <= a
         /\ a < n * (a \div n) + n
OBVIOUS

LEMMA ModBounds ==
  ASSUME NEW a \in Nat, NEW n \in Nat \ {0}
  PROVE  a % n \in 0..(n - 1)
OBVIOUS

LEMMA ModWraps ==
  ASSUME NEW n \in Nat \ {0}, NEW a \in 0..(n - 1)
  PROVE  a % n = a /\ (a + n) % n = a
<1>1. a % n = a
  OBVIOUS
<1>2. (a + n) % n = a
  OBVIOUS
<1>3. QED
  BY <1>1, <1>2

(* Counting on from c modulo n comes by every number below n, c first.     *)
LEMMA AllTurns ==
  ASSUME NEW n \in Nat \ {0}, NEW c \in 0..(n - 1), NEW d \in 0..(n - 1)
  PROVE  (c + 0) % n = c /\ \E k \in 0..(n - 1) : (c + k) % n = d
<1>1. (c + 0) % n = c
  BY ModWraps
<1>2. CASE c <= d
  <2>1. d - c \in 0..(n - 1) /\ c + (d - c) = d
    BY <1>2
  <2>2. QED
    BY <1>1, <2>1, ModWraps
<1>3. CASE d < c
  <2>1. d + n - c \in 0..(n - 1) /\ c + (d + n - c) = d + n
    BY <1>3
  <2>2. QED
    BY <1>1, <2>1, ModWraps
<1>4. QED
  BY <1>2, <1>3

LEMMA DivMonotone ==
  ASSUME NEW a \in Nat, NEW b \in Nat, NEW n \in Nat \ {0}, a <= b
  PROVE  a \div n <= b \div n
<1>1. /\ a \div n \in Nat /\ n * (a \div n) <= a
      /\ b \div n \in Nat /\ b < n * (b \div n) + n
  BY DivBounds
<1>2. QED
  BY <1>1

LEMMA DivAdd ==
  ASSUME NEW a \in Nat, NEW b \in Nat, NEW n \in Nat \ {0}
  PROVE  (a \div n) + (b \div n) <= (a + b) \div n
<1>1. /\ a \div n \in Nat /\ b \div n \in Nat /\ (a + b) \div n \in Nat
      /\ n * (a \div n) <= a /\ n * (b \div n) <= b
      /\ a + b < n * ((a + b) \div n) + n
  BY DivBounds
<1>2. QED
  BY <1>1

LEMMA ProductMonotone ==
  ASSUME NEW a \in Nat, NEW b \in Nat, NEW c \in Nat, a <= b
  PROVE  a * c \in Nat /\ b * c \in Nat /\ a * c <= b * c
OBVIOUS

(* A function that iterates a step exists, so that a definition by         *)
(* recursion denotes one.                                                  *)
IsIteration(f, n, a, step) ==
  f = [k \in 0..n |-> IF k = 0 THEN a ELSE step[k][f[k - 1]]]

LEMMA IterationExists ==
  ASSUME NEW n \in Nat, NEW D, NEW a \in D, NEW step \in [1..n -> [D -> D]]
  PROVE  \E f \in [0..n -> D] : IsIteration(f, n, a, step)
<1> DEFINE S == {m \in 0..n : \E f \in [0..m -> D] : IsIteration(f, m, a, step)}
<1>1. 0 \in S
  <2>1. [k \in 0..0 |-> a] \in [0..0 -> D]
    OBVIOUS
  <2>2. IsIteration([k \in 0..0 |-> a], 0, a, step)
    BY \A k \in 0..0 : k = 0 DEF IsIteration
  <2>3. QED
    BY <2>1, <2>2
<1>2. ASSUME NEW m \in 1..n, m - 1 \in S
      PROVE  m \in S
  <2>1. PICK f \in [0..(m - 1) -> D] : IsIteration(f, m - 1, a, step)
    BY <1>2
  <2> DEFINE g == [k \in 0..m |-> IF k = m THEN step[m][f[m - 1]] ELSE f[k]]
  <2>2. g \in [0..m -> D]
    OBVIOUS
  <2>3. \A k \in 0..(m - 1) : f[k] = IF k = 0 THEN a ELSE step[k][f[k - 1]]
    BY <2>1 DEF IsIteration
  <2>4. ASSUME NEW k \in 0..(m - 1)
        PROVE  g[k] = IF k = 0 THEN a ELSE step[k][g[k - 1]]
    <3>1. g[k] = f[k] /\ (k # 0 => g[k - 1] = f[k - 1])
      OBVIOUS
    <3>2. QED
      BY <2>3, <3>1
  <2>5. g[m] = step[m][g[m - 1]]
    OBVIOUS
  <2>6. \A k \in 0..m : g[k] = IF k = 0 THEN a ELSE step[k][g[k - 1]]
    BY <2>4, <2>5, \A k \in 0..m : k \in 0..(m - 1) \/ k = m, m # 0
  <2>7. IsIteration(g, m, a, step)
    BY <2>2, <2>6 DEF IsIteration
  <2>8. QED
    BY <2>2, <2>7
<1> HIDE DEF S
<1>3. 0..n \subseteq S
  BY <1>1, <1>2, UpTo
<1>4. QED
  BY <1>3 DEF S

(* If each step leads from a state of G[k - 1] to one of G[k], so does the *)
(* iteration.                                                              *)
LEMMA IterationStays ==
  ASSUME NEW n \in Nat, NEW D, NEW G \in [0..n -> SUBSET D], NEW a \in G[0],
         NEW step \in [1..n -> [D -> D]],
         \A k \in 1..n : \A s \in G[k - 1] : step[k][s] \in G[k]
  PROVE  \E f \in [0..n -> D] :
           IsIteration(f, n, a, step) /\ \A k \in 0..n : f[k] \in G[k]
<1>1. PICK f \in [0..n -> D] : IsIteration(f, n, a, step)
  BY IterationExists, a \in D
<1> DEFINE S == {k \in 0..n : f[k] \in G[k]}
<1>2. \A k \in 0..n : f[k] = IF k = 0 THEN a ELSE step[k][f[k - 1]]
  BY <1>1 DEF IsIteration
<1>3. 0 \in S
  BY <1>2
<1>4. ASSUME NEW k \in 1..n, k - 1 \in S
      PROVE  k \in S
  BY <1>2, <1>4
<1> HIDE DEF S
<1>5. 0..n \subseteq S
  BY <1>3, <1>4, UpTo
<1>6. QED
  BY <1>1, <1>5 DEF S
-----------------------------------------------------------------------------
(* The first k elements of a sequence without repetitions: how many there  *)
(* are, and that the others are exactly the elements of the rest.          *)
Elements(q) == {q[i] : i \in DOMAIN q}
Prefix(q, k) == {q[i] : i \in 1..k}
Distinct(q) == \A i, j \in DOMAIN q : q[i] = q[j] => i = j

LEMMA PrefixOfInjective ==
  ASSUME NEW S, NEW q \in Seq(S), NEW k \in 0..Len(q), Distinct(q)
  PROVE  /\ IsFiniteSet(Prefix(q, k)) /\ Cardinality(Prefix(q, k)) = k
         /\ Prefix(q, k) \subseteq Elements(q)
         /\ SubSeq(q, k + 1, Len(q)) \in Seq(S)
         /\ Elements(SubSeq(q, k + 1, Len(q))) = Elements(q) \ Prefix(q, k)
         /\ Distinct(SubSeq(q, k + 1, Len(q)))
         /\ k = Len(q) => SubSeq(q, k + 1, Len(q)) = <<>>
<1> DEFINE P == Prefix(q, k)
           r == SubSeq(q, k + 1, Len(q))
<1> USE DEF Prefix, Distinct
<1>1. IsFiniteSet(1..k) /\ Cardinality(1..k) = k
  BY FS_Interval
<1>2. ExistsBijection(1..k, P)
  <2> DEFINE f == [i \in 1..k |-> q[i]]
  <2>1. f \in [1..k -> P] /\ \A x \in P : \E i \in 1..k : f[i] = x
    OBVIOUS
  <2>2. \A i, j \in 1..k : f[i] = f[j] => i = j
    OBVIOUS
  <2>3. f \in Bijection(1..k, P)
    BY <2>1, <2>2 DEF Bijection, Injection, Surjection, IsInjective
  <2>4. QED
    BY <2>3 DEF ExistsBijection
<1>3. IsFiniteSet(P) /\ Cardinality(P) = k
  BY <1>1, <1>2, FS_Bijection
<1>4. \A i \in (k + 1)..Len(q) : q[i] \in S
  OBVIOUS
<1>5. /\ r \in Seq(S)
      /\ Len(r) = IF k + 1 <= Len(q) THEN Len(q) - (k + 1) + 1 ELSE 0
      /\ \A i \in 1..(Len(q) - (k + 1) + 1) : r[i] = q[k + 1 + i - 1]
  BY <1>4, SubSeqProperties, k + 1 \in Int, Len(q) \in Int
<1>6. /\ Len(r) = Len(q) - k
      /\ \A i \in 1..Len(r) : r[i] = q[k + i]
  BY <1>5
<1>7. Elements(r) = Elements(q) \ P
  <2>1. ASSUME NEW i \in DOMAIN r
        PROVE  r[i] \in {q[j] : j \in DOMAIN q} \ P
    BY <1>5, <1>6
  <2>2. ASSUME NEW j \in DOMAIN q, q[j] \notin P
        PROVE  \E i \in DOMAIN r : r[i] = q[j]
    <3>1. j \in (k + 1)..Len(q)
      BY <2>2
    <3>2. j - k \in DOMAIN r /\ r[j - k] = q[j]
      BY <1>5, <1>6, <3>1
    <3>3. QED
      BY <3>2
  <2>3. QED
    BY <2>1, <2>2 DEF Elements
<1>8. Distinct(r)
  <2> SUFFICES ASSUME NEW i \in DOMAIN r, NEW j \in DOMAIN r, r[i] = r[j]
               PROVE  i = j
    OBVIOUS
  <2>1. k + i \in DOMAIN q /\ k + j \in DOMAIN q
    BY <1>5, <1>6
  <2>2. q[k + i] = q[k + j]
    BY <1>5, <1>6
  <2>3. QED
    BY <1>5, <1>6, <2>1, <2>2
<1>9. k = Len(q) => r = <<>>
  BY <1>5, <1>6
<1>10. P \subseteq Elements(q)
  BY DEF Elements
<1>11. QED
  BY <1>3, <1>5, <1>7, <1>8, <1>9, <1>10

(* A task that is new to the queue joins it at its end.                    *)
LEMMA AppendToDistinct ==
  ASSUME NEW S, NEW q \in Seq(S), NEW x \in S, Distinct(q), x \notin Elements(q)
  PROVE  /\ Append(q, x) \in Seq(S) /\ Distinct(Append(q, x))
         /\ Elements(Append(q, x)) = Elements(q) \cup {x}
<1>1. /\ Append(q, x) \in Seq(S) /\ Len(Append(q, x)) = Len(q) + 1
      /\ \A i \in 1..Len(q) : Append(q, x)[i] = q[i]
      /\ Append(q, x)[Len(q) + 1] = x
  BY AppendProperties
<1>2. /\ DOMAIN q = 1..Len(q) /\ DOMAIN Append(q, x) = 1..(Len(q) + 1)
      /\ \A i \in 1..(Len(q) + 1) : i \in 1..Len(q) \/ i = Len(q) + 1
  BY <1>1
<1>3. Elements(Append(q, x)) = Elements(q) \cup {x}
  BY <1>1, <1>2 DEF Elements
<1>4. Distinct(Append(q, x))
  BY <1>1, <1>2 DEF Elements, Distinct
<1>5. QED
  BY <1>1, <1>3, <1>4

(* The first task leaves the queue.                                        *)
LEMMA TailOfDistinct ==
  ASSUME NEW S, NEW q \in Seq(S), q # <<>>, Distinct(q)
  PROVE  /\ Head(q) \in S /\ Head(q) \in Elements(q) /\ Tail(q) \in Seq(S)
         /\ Distinct(Tail(q)) /\ Elements(Tail(q)) = Elements(q) \ {Head(q)}
<1>1. /\ Len(q) \in Nat /\ Len(q) >= 1 /\ DOMAIN q = 1..Len(q)
      /\ Head(q) = q[1] /\ q[1] \in S
  BY EmptySeq
<1>2. /\ Tail(q) \in Seq(S) /\ DOMAIN Tail(q) = 1..(Len(q) - 1)
      /\ \A i \in 1..(Len(q) - 1) : Tail(q)[i] = q[i + 1]
  BY <1>1, HeadTailProperties
<1>3. Distinct(Tail(q))
  BY <1>1, <1>2 DEF Distinct
<1>4. ASSUME NEW i \in 1..(Len(q) - 1)
      PROVE  Tail(q)[i] \in Elements(q) \ {Head(q)}
  BY <1>1, <1>2 DEF Elements, Distinct
<1>5. ASSUME NEW i \in 1..Len(q), q[i] # q[1]
      PROVE  q[i] \in Elements(Tail(q))
  <2>1. i - 1 \in 1..(Len(q) - 1) /\ Tail(q)[i - 1] = q[i]
    BY <1>1, <1>2, <1>5
  <2>2. QED
    BY <1>2, <2>1 DEF Elements
<1>6. Elements(Tail(q)) = Elements(q) \ {Head(q)}
  BY <1>1, <1>2, <1>4, <1>5 DEF Elements
<1>7. Head(q) \in Elements(q)
  BY <1>1 DEF Elements
<1>8. QED
  BY <1>1, <1>2, <1>3, <1>6, <1>7

(* The queue that is left of q when its first k tasks have been taken, and *)
(* the next one.                                                           *)
Left(q, k) == SubSeq(q, k + 1, Len(q))

LEMMA TakeNext ==
  ASSUME NEW S, NEW q \in Seq(S), NEW k \in 0..Len(q), Left(q, k) # <<>>
  PROVE  /\ k + 1 \in 0..Len(q) /\ q[k + 1] \in S
         /\ Head(Left(q, k)) = q[k + 1] /\ Tail(Left(q, k)) = Left(q, k + 1)
         /\ Prefix(q, k + 1) = Prefix(q, k) \cup {q[k + 1]}
         /\ Distinct(q) => q[k + 1] \notin Prefix(q, k)
<1>1. /\ Left(q, k) \in Seq(S) /\ Len(Left(q, k)) = Len(q) - k
      /\ \A i \in 1..(Len(q) - k) : Left(q, k)[i] = q[k + i]
  BY SubSeqProperties DEF Left
<1>2. Len(q) - k # 0 /\ k + 1 \in 1..Len(q)
  BY <1>1, EmptySeq
<1>3. /\ Left(q, k + 1) \in Seq(S) /\ Len(Left(q, k + 1)) = Len(q) - (k + 1)
      /\ \A i \in 1..(Len(q) - (k + 1)) : Left(q, k + 1)[i] = q[k + 1 + i]
  BY <1>2, SubSeqProperties DEF Left
<1>4. Head(Left(q, k)) = q[k + 1]
  BY <1>1, <1>2, EmptySeq
<1>5. Tail(Left(q, k)) = Left(q, k + 1)
  <2>1. /\ Tail(Left(q, k)) \in Seq(S) /\ Len(Tail(Left(q, k))) = Len(q) - k - 1
        /\ \A i \in 1..(Len(q) - k - 1) : Tail(Left(q, k))[i] = Left(q, k)[i + 1]
    BY <1>1, <1>2, HeadTailProperties
  <2>2. /\ Len(Tail(Left(q, k))) = Len(Left(q, k + 1))
        /\ \A i \in 1..Len(Tail(Left(q, k))) : Tail(Left(q, k))[i] = Left(q, k + 1)[i]
    <3>1. Len(q) \in Nat /\ k \in Nat /\ Len(q) - k - 1 = Len(q) - (k + 1)
      OBVIOUS
    <3>2. ASSUME NEW i \in 1..(Len(q) - k - 1)
          PROVE  Tail(Left(q, k))[i] = Left(q, k + 1)[i]
      <4>1. i + 1 \in 1..(Len(q) - k) /\ k + (i + 1) = k + 1 + i
        BY <3>1
      <4>2. QED
        BY <1>1, <1>3, <2>1, <3>1, <4>1
    <3>3. QED
      BY <1>3, <2>1, <3>1, <3>2
  <2>3. QED
    BY <1>3, <2>1, <2>2, SeqEqual
<1>6. Prefix(q, k + 1) = Prefix(q, k) \cup {q[k + 1]}
  <2>1. 1..(k + 1) = (1..k) \cup {k + 1}
    OBVIOUS
  <2>2. QED
    BY <2>1 DEF Prefix
<1>7. Distinct(q) => q[k + 1] \notin Prefix(q, k)
  BY <1>2 DEF Prefix, Distinct
<1>8. QED
  BY <1>2, <1>4, <1>5, <1>6, <1>7
-----------------------------------------------------------------------------
(* The sum of a weight w over the subsets of a finite set, as a fold over  *)
(* the set computes it: any element may be taken out first.                *)
AnyOf(s) == CHOOSE x \in s : TRUE

IsSum(f, S, w) ==
  f = [s \in SUBSET S |-> IF s = {} THEN 0 ELSE f[s \ {AnyOf(s)}] + w[AnyOf(s)]]

\* The subsets of S, by their size.
OfSize(S, k) == {s \in SUBSET S : Cardinality(s) = k}

LEMMA SmallerSubset ==
  ASSUME NEW S, IsFiniteSet(S), NEW k \in Nat \ {0}, NEW s \in OfSize(S, k), NEW x \in s
  PROVE  s \ {x} \in OfSize(S, k - 1)
<1>1. IsFiniteSet(s) /\ s \ {x} \in SUBSET S
  BY FS_Subset DEF OfSize
<1>2. QED
  BY <1>1, FS_RemoveElement DEF OfSize

LEMMA SubsetSizes ==
  ASSUME NEW S, IsFiniteSet(S)
  PROVE  /\ Cardinality(S) \in Nat
         /\ \A s \in SUBSET S : \E k \in 0..Cardinality(S) : s \in OfSize(S, k)
         /\ \A s : s \in OfSize(S, 0) <=> s = {}
         /\ \A k \in 1..Cardinality(S) : \A s \in OfSize(S, k) :
              s # {} /\ AnyOf(s) \in s /\ s \in SUBSET S
<1>1. Cardinality(S) \in Nat
  BY FS_CardinalityType
<1>2. ASSUME NEW s \in SUBSET S
      PROVE  Cardinality(s) \in 0..Cardinality(S) /\ IsFiniteSet(s)
             /\ (Cardinality(s) = 0 <=> s = {})
  BY <1>1, FS_Subset, FS_CardinalityType, FS_EmptySet
<1>3. \A s : s \in OfSize(S, 0) <=> s = {}
  BY <1>2 DEF OfSize
<1>4. ASSUME NEW k \in 1..Cardinality(S), NEW s \in OfSize(S, k)
      PROVE  s # {} /\ AnyOf(s) \in s /\ s \in SUBSET S
  <2>1. s # {} /\ s \in SUBSET S
    BY <1>1, <1>2 DEF OfSize
  <2>2. QED
    BY <2>1 DEF AnyOf
<1>5. QED
  BY <1>1, <1>2, <1>3, <1>4 DEF OfSize

LEMMA SumExists ==
  ASSUME NEW S, IsFiniteSet(S), NEW w \in [S -> Nat]
  PROVE  \E f \in [SUBSET S -> Nat] : IsSum(f, S, w)
<1> DEFINE n == Cardinality(S)
           D == [SUBSET S -> Nat]
           Next(f) == [s \in SUBSET S |-> IF s = {} THEN 0
                                          ELSE f[s \ {AnyOf(s)}] + w[AnyOf(s)]]
           step == [k \in 1..(n + 1) |-> [f \in D |-> Next(f)]]
           a == [s \in SUBSET S |-> 0]
<1>1. n \in Nat /\ n + 1 \in Nat
  BY SubsetSizes
<1>2. ASSUME NEW f \in D
      PROVE  Next(f) \in D
  <2>1. \A s \in SUBSET S : s # {} => AnyOf(s) \in S /\ s \ {AnyOf(s)} \in SUBSET S
    BY DEF AnyOf
  <2>2. QED
    BY <2>1
<1>3. a \in D /\ step \in [1..(n + 1) -> [D -> D]]
  BY <1>2
<1> HIDE DEF a, n
<1>4. PICK F \in [0..(n + 1) -> D] : IsIteration(F, n + 1, a, step)
  <2> HIDE DEF D, step
  <2>1. QED
    BY <1>1, <1>3, IterationExists
<1>5. ASSUME NEW k \in 1..(n + 1)
      PROVE  F[k] = Next(F[k - 1]) /\ F[k - 1] \in D
  <2>1. k \in 0..(n + 1) /\ k - 1 \in 0..(n + 1) /\ k # 0
    BY <1>1
  <2>2. F[k] = step[k][F[k - 1]] /\ F[k - 1] \in D
    BY <1>4, <2>1 DEF IsIteration
  <2>3. QED
    BY <2>2
<1> HIDE DEF D, step
<1> DEFINE Good == {k \in 0..n : \A j \in 0..k : \A s \in OfSize(S, j) :
                                   F[k][s] = F[k + 1][s]}
<1>6. 0 \in Good
  <2>1. 1 \in 1..(n + 1) /\ 0 \in 0..n
    BY <1>1
  <2>2. F[1] = Next(F[0])
    <3> HIDE DEF Next
    <3>1. F[1] = Next(F[1 - 1])
      BY <1>5, <2>1
    <3>2. QED
      BY <3>1, 1 - 1 = 0
  <2>3. F[0] = a
    BY <1>1, <1>4, 0 \in 0..(n + 1) DEF IsIteration
  <2>4. \A s \in OfSize(S, 0) : s = {} /\ s \in SUBSET S
    BY SubsetSizes
  <2>5. \A s \in OfSize(S, 0) : F[0][s] = 0 /\ F[0 + 1][s] = 0
    <3>1. F[0 + 1] = F[1] /\ {} \in SUBSET S
      OBVIOUS
    <3>2. Next(F[0])[{}] = 0
      OBVIOUS
    <3>3. a[{}] = 0
      BY DEF a
    <3> HIDE DEF Next
    <3>4. QED
      BY <2>2, <2>3, <2>4, <3>1, <3>2, <3>3
  <2>6. ASSUME NEW j \in 0..0
        PROVE  \A s \in OfSize(S, j) : F[0][s] = F[0 + 1][s]
    BY <2>5, j = 0
  <2>7. QED
    BY <2>1, <2>6
<1>7. ASSUME NEW k \in 1..n, k - 1 \in Good
      PROVE  k \in Good
  <2>1. k \in 0..n /\ k \in 1..(n + 1) /\ k + 1 \in 1..(n + 1) /\ (k + 1) - 1 = k
        /\ (k - 1) + 1 = k
    BY <1>1
  <2>2. F[k] = Next(F[k - 1]) /\ F[k + 1] = Next(F[k])
    BY <1>5, <2>1
  <2>3. ASSUME NEW j \in 0..k, NEW s \in OfSize(S, j)
        PROVE  F[k][s] = F[k + 1][s]
    <3>1. s \in SUBSET S
      BY DEF OfSize
    <3>2. CASE s = {}
      <4>1. F[k][s] = 0 /\ F[k + 1][s] = 0
        BY <2>2, <3>1, <3>2
      <4>2. QED
        BY <4>1
    <3>3. CASE s # {}
      <4>1. j \in 1..n /\ j \in Nat \ {0} /\ j - 1 \in 0..(k - 1)
        <5>1. j # 0
          BY <2>3, <3>3, SubsetSizes
        <5>2. k \in Nat /\ k <= n /\ j \in Nat /\ j <= k
          BY <1>1
        <5>3. QED
          BY <1>1, <5>1, <5>2
      <4>2. AnyOf(s) \in s
        BY <4>1, SubsetSizes DEF n
      <4>3. s \ {AnyOf(s)} \in OfSize(S, j - 1)
        BY <4>1, <4>2, SmallerSubset
      <4>4. F[k - 1][s \ {AnyOf(s)}] = F[k][s \ {AnyOf(s)}]
        BY <1>7, <2>1, <4>1, <4>3
      <4>5. QED
        BY <2>2, <3>1, <3>3, <4>4
    <3>4. QED
      BY <3>2, <3>3
  <2>4. QED
    BY <2>1, <2>3
<1> HIDE DEF Good
<1>8. n \in Good
  BY <1>1, <1>6, <1>7, UpTo, SMTT(60)
<1>9. \A s \in SUBSET S : F[n][s] = F[n + 1][s]
  BY <1>8, SubsetSizes, ZenonT(120) DEF Good, n
<1>10. F[n] \in D /\ F[n + 1] = Next(F[n]) /\ F[n + 1] \in D
  <2>1. n + 1 \in 1..(n + 1) /\ (n + 1) - 1 = n /\ n + 1 \in 0..(n + 1)
    BY <1>1
  <2>2. QED
    BY <1>4, <1>5, <2>1
<1>11. F[n] = F[n + 1]
  BY <1>9, <1>10 DEF D
<1>12. QED
  BY <1>10, <1>11 DEF D, IsSum

LEMMA SumAdds ==
  ASSUME NEW S, IsFiniteSet(S), NEW w \in [S -> Nat],
         NEW f \in [SUBSET S -> Nat], IsSum(f, S, w)
  PROVE  f[{}] = 0 /\ \A s \in SUBSET S : \A x \in s : f[s] = f[s \ {x}] + w[x]
<1> DEFINE n == Cardinality(S)
           Good == {k \in 0..n : \A s \in OfSize(S, k) : \A x \in s :
                                   f[s] = f[s \ {x}] + w[x]}
<1>1. \A s \in SUBSET S : f[s] = IF s = {} THEN 0
                                 ELSE f[s \ {AnyOf(s)}] + w[AnyOf(s)]
  BY DEF IsSum
<1>2. n \in Nat /\ \A s \in SUBSET S : \E k \in 0..n : s \in OfSize(S, k)
  BY SubsetSizes, Zenon
<1>3. 0 \in Good
  BY <1>2, SubsetSizes
<1>4. ASSUME NEW k \in 1..n, k - 1 \in Good
      PROVE  k \in Good
  <2>1. k \in 0..n /\ k \in Nat \ {0}
    BY <1>2
  <2>2. ASSUME NEW s \in OfSize(S, k), NEW x \in s
        PROVE  f[s] = f[s \ {x}] + w[x]
    <3>1. PICK y : y = AnyOf(s)
      OBVIOUS
    <3>2. y \in s /\ s \in SUBSET S /\ s # {}
      BY <3>1, SubsetSizes
    <3>3. f[s] = f[s \ {y}] + w[y]
      BY <1>1, <3>1, <3>2
    <3>4. CASE x # y
      <4>1. s \ {y} \in OfSize(S, k - 1) /\ s \ {x} \in OfSize(S, k - 1)
        BY <2>1, <3>2, SmallerSubset
      <4>2. f[s \ {y}] = f[(s \ {y}) \ {x}] + w[x]
        BY <1>4, <3>4, <4>1
      <4>3. f[s \ {x}] = f[(s \ {x}) \ {y}] + w[y]
        BY <1>4, <3>2, <3>4, <4>1
      <4>4. (s \ {x}) \ {y} = (s \ {y}) \ {x}
        OBVIOUS
      <4>5. PICK m : m = f[(s \ {y}) \ {x}]
        OBVIOUS
      <4>6. m \in Nat /\ w[x] \in Nat /\ w[y] \in Nat
        BY <3>2, <4>5
      <4>7. f[s] = (m + w[x]) + w[y] /\ f[s \ {x}] = m + w[y]
        BY <3>3, <4>2, <4>3, <4>4, <4>5
      <4>8. QED
        BY <4>6, <4>7
    <3>5. QED
      BY <3>3, <3>4
  <2>3. QED
    BY <2>1, <2>2
<1> HIDE DEF Good, n
<1>5. 0..n \subseteq Good
  BY <1>2, <1>3, <1>4, UpTo
<1>6. f[{}] = 0
  BY <1>1
<1>7. ASSUME NEW s \in SUBSET S, NEW x \in s
      PROVE  f[s] = f[s \ {x}] + w[x]
  <2>1. PICK k \in 0..n : s \in OfSize(S, k)
    BY <1>2, Zenon
  <2>2. k \in Good
    BY <1>5
  <2>3. QED
    BY <2>1, <2>2, Zenon DEF Good
<1>8. QED
  BY <1>6, <1>7

(* The sum over a subset R does not depend on the set it is part of.       *)
LEMMA SumAgrees ==
  ASSUME NEW S, IsFiniteSet(S), NEW w \in [S -> Nat],
         NEW f \in [SUBSET S -> Nat], IsSum(f, S, w),
         NEW R \in SUBSET S, NEW v, \A x \in R : v[x] = w[x], NEW g, IsSum(g, R, v)
  PROVE  g[R] = f[R]
<1> DEFINE n == Cardinality(R)
           Good == {k \in 0..n : \A s \in OfSize(R, k) : g[s] = f[s]}
<1>1. /\ \A s \in SUBSET S : f[s] = IF s = {} THEN 0
                                    ELSE f[s \ {AnyOf(s)}] + w[AnyOf(s)]
      /\ \A s \in SUBSET R : g[s] = IF s = {} THEN 0
                                    ELSE g[s \ {AnyOf(s)}] + v[AnyOf(s)]
  <2>1. /\ f = [s \in SUBSET S |-> IF s = {} THEN 0
                                   ELSE f[s \ {AnyOf(s)}] + w[AnyOf(s)]]
        /\ g = [s \in SUBSET R |-> IF s = {} THEN 0
                                   ELSE g[s \ {AnyOf(s)}] + v[AnyOf(s)]]
    BY Zenon DEF IsSum
  <2>2. \A s \in SUBSET S : f[s] = IF s = {} THEN 0
                                   ELSE f[s \ {AnyOf(s)}] + w[AnyOf(s)]
    BY <2>1, Zenon
  <2>3. \A s \in SUBSET R : g[s] = IF s = {} THEN 0
                                   ELSE g[s \ {AnyOf(s)}] + v[AnyOf(s)]
    BY <2>1, Zenon
  <2>4. QED
    BY <2>2, <2>3
<1>2. IsFiniteSet(R) /\ n \in Nat
  BY FS_Subset, SubsetSizes
<1>3. 0 \in Good
  <2>1. g[{}] = 0 /\ f[{}] = 0
    BY <1>1
  <2>2. ASSUME NEW s \in OfSize(R, 0)
        PROVE  g[s] = f[s]
    <3>1. s = {}
      BY <1>2, SubsetSizes
    <3>2. QED
      BY <2>1, <3>1
  <2>3. QED
    BY <1>2, <2>2
<1>4. ASSUME NEW k \in 1..n, k - 1 \in Good
      PROVE  k \in Good
  <2>1. k \in 0..n /\ k \in Nat \ {0}
    BY <1>2
  <2>2. ASSUME NEW s \in OfSize(R, k)
        PROVE  g[s] = f[s]
    <3>1. PICK y : y = AnyOf(s)
      OBVIOUS
    <3>2. y \in s /\ s \in SUBSET R /\ s # {} /\ v[y] = w[y]
      BY <1>2, <3>1, SubsetSizes
    <3>3. g[s] = g[s \ {y}] + v[y] /\ f[s] = f[s \ {y}] + w[y]
      BY <1>1, <3>1, <3>2
    <3>4. s \ {y} \in OfSize(R, k - 1)
      BY <1>2, <2>1, <3>2, SmallerSubset
    <3>5. g[s \ {y}] = f[s \ {y}]
      BY <1>4, <3>4
    <3>6. QED
      BY <3>2, <3>3, <3>5
  <2>3. QED
    BY <2>1, <2>2
<1> HIDE DEF Good, n
<1>5. 0..n \subseteq Good
  BY <1>2, <1>3, <1>4, UpTo
<1>6. n \in 0..n /\ R \in OfSize(R, n)
  <2>1. Cardinality(R) = n /\ R \in SUBSET R
    BY DEF n
  <2>2. QED
    BY <1>2, <2>1 DEF OfSize
<1>7. QED
  BY <1>5, <1>6 DEF Good
-----------------------------------------------------------------------------
(* t is the sequence q without its place i.                                *)
Skip(i, j) == IF j < i THEN j ELSE j + 1

LeftOut(q, i, t) ==
  /\ \A j \in DOMAIN t : Skip(i, j) \in DOMAIN q \ {i} /\ t[j] = q[Skip(i, j)]
  /\ \A k \in DOMAIN q \ {i} : \E j \in DOMAIN t : t[j] = q[k]
  /\ \A j, k \in DOMAIN t : /\ j <= k => Skip(i, j) <= Skip(i, k)
                            /\ Skip(i, j) = Skip(i, k) => j = k

(* A sequence without its i-th element, as RemoveAt gives it.              *)
Without(q, i) == SubSeq(q, 1, i - 1) \o SubSeq(q, i + 1, Len(q))

LEMMA RemoveAtOK ==
  ASSUME NEW S, NEW q \in Seq(S), NEW i \in 1..Len(q), NEW t, t = Without(q, i)
  PROVE  t \in Seq(S) /\ Len(t) = Len(q) - 1 /\ LeftOut(q, i, t)
<1>1. PICK a, b : a = SubSeq(q, 1, i - 1) /\ b = SubSeq(q, i + 1, Len(q))
  OBVIOUS
<1>2. Len(q) \in Nat /\ DOMAIN q = 1..Len(q)
  OBVIOUS
<1>3. a \in Seq(S) /\ Len(a) = i - 1 /\ \A j \in 1..(i - 1) : a[j] = q[j]
  <2>1. \A j \in 1..(i - 1) : q[j] \in S
    BY <1>2
  <2>2. QED
    BY <1>1, <1>2, <2>1, SubSeqProperties
<1>4. b \in Seq(S) /\ Len(b) = Len(q) - i /\ \A j \in 1..(Len(q) - i) : b[j] = q[i + j]
  <2>1. \A j \in (i + 1)..Len(q) : q[j] \in S
    BY <1>2
  <2>2. /\ b \in Seq(S)
        /\ Len(b) = IF i + 1 <= Len(q) THEN Len(q) - (i + 1) + 1 ELSE 0
        /\ \A j \in 1..(Len(q) - (i + 1) + 1) : b[j] = q[i + 1 + j - 1]
    BY <1>1, <2>1, SubSeqProperties, i + 1 \in Int, Len(q) \in Int
  <2>3. Len(b) = Len(q) - i
    BY <1>2, <2>2
  <2>4. ASSUME NEW j \in 1..(Len(q) - i)
        PROVE  b[j] = q[i + j]
    <3>1. j \in 1..(Len(q) - (i + 1) + 1) /\ i + 1 + j - 1 = i + j
      BY <1>2
    <3>2. QED
      BY <2>2, <3>1
  <2>5. QED
    BY <2>2, <2>3, <2>4
<1>5. t = a \o b
  BY <1>1 DEF Without
<1>6. /\ t \in Seq(S) /\ Len(t) = Len(a) + Len(b)
      /\ \A j \in 1..(Len(a) + Len(b)) :
           t[j] = IF j <= Len(a) THEN a[j] ELSE b[j - Len(a)]
  <2>1. /\ a \o b \in Seq(S) /\ Len(a \o b) = Len(a) + Len(b)
        /\ \A j \in 1..(Len(a) + Len(b)) :
             (a \o b)[j] = IF j <= Len(a) THEN a[j] ELSE b[j - Len(a)]
    BY <1>3, <1>4, ConcatProperties
  <2>2. QED
    BY <1>5, <2>1
<1>7. Len(t) = Len(q) - 1 /\ DOMAIN t = 1..(Len(q) - 1)
  BY <1>2, <1>3, <1>4, <1>6
<1>8. ASSUME NEW j \in 1..(Len(q) - 1)
      PROVE  Skip(i, j) \in DOMAIN q \ {i} /\ t[j] = q[Skip(i, j)]
  <2>1. j \in 1..(Len(a) + Len(b)) /\ (j <= Len(a) <=> j < i)
    BY <1>2, <1>3, <1>4
  <2>2. CASE j < i
    BY <1>2, <1>3, <1>6, <2>1, <2>2 DEF Skip
  <2>3. CASE ~(j < i)
    <3>1. t[j] = b[j - (i - 1)]
      BY <1>3, <1>6, <2>1, <2>3
    <3>2. j - (i - 1) \in 1..(Len(q) - i) /\ i + (j - (i - 1)) = j + 1
      BY <1>2, <2>3
    <3>3. t[j] = q[j + 1]
      BY <1>4, <3>1, <3>2
    <3>4. QED
      BY <1>2, <2>3, <3>3 DEF Skip
  <2>4. QED
    BY <2>2, <2>3
<1>9. ASSUME NEW k \in DOMAIN q \ {i}
      PROVE  \E j \in DOMAIN t : t[j] = q[k]
  <2>1. CASE k < i
    <3>1. k \in 1..(Len(q) - 1) /\ Skip(i, k) = k
      BY <1>2, <2>1 DEF Skip
    <3>2. QED
      BY <1>7, <1>8, <3>1
  <2>2. CASE ~(k < i)
    <3>1. k - 1 \in 1..(Len(q) - 1) /\ Skip(i, k - 1) = k
      BY <1>2, <2>2 DEF Skip
    <3>2. QED
      BY <1>7, <1>8, <3>1
  <2>3. QED
    BY <2>1, <2>2
<1>10. ASSUME NEW j \in DOMAIN t, NEW k \in DOMAIN t
       PROVE  /\ j <= k => Skip(i, j) <= Skip(i, k)
              /\ Skip(i, j) = Skip(i, k) => j = k
  BY <1>2, <1>7 DEF Skip
<1>11. QED
  BY <1>6, <1>7, <1>8, <1>9, <1>10 DEF LeftOut

(* The sequence with a new i-th element, as InsertAt gives it: without     *)
(* that place, it is what it was.                                          *)
With(q, i, e) == SubSeq(q, 1, i - 1) \o <<e>> \o SubSeq(q, i, Len(q))

LEMMA InsertAtOK ==
  ASSUME NEW S, NEW q \in Seq(S), NEW i \in 1..(Len(q) + 1), NEW e \in S,
         NEW t, t = With(q, i, e)
  PROVE  /\ t \in Seq(S) /\ Len(t) = Len(q) + 1 /\ i \in DOMAIN t
         /\ t[i] = e /\ LeftOut(t, i, q)
<1>1. PICK a, b, c : /\ a = SubSeq(q, 1, i - 1) /\ b = SubSeq(q, i, Len(q))
                     /\ c = a \o <<e>>
  OBVIOUS
<1>2. Len(q) \in Nat /\ DOMAIN q = 1..Len(q)
  OBVIOUS
<1>3. a \in Seq(S) /\ Len(a) = i - 1 /\ \A j \in 1..(i - 1) : a[j] = q[j]
  <2>1. \A j \in 1..(i - 1) : q[j] \in S
    BY <1>2
  <2>2. QED
    BY <1>1, <1>2, <2>1, SubSeqProperties
<1>4. /\ b \in Seq(S) /\ Len(b) = Len(q) - i + 1
      /\ \A j \in 1..(Len(q) - i + 1) : b[j] = q[i + j - 1]
  <2>1. \A j \in i..Len(q) : q[j] \in S
    BY <1>2
  <2>2. /\ b \in Seq(S)
        /\ Len(b) = IF i <= Len(q) THEN Len(q) - i + 1 ELSE 0
        /\ \A j \in 1..(Len(q) - i + 1) : b[j] = q[i + j - 1]
    BY <1>1, <2>1, SubSeqProperties, i \in Int, Len(q) \in Int
  <2>3. Len(b) = Len(q) - i + 1
    BY <1>2, <2>2
  <2>4. QED
    BY <2>2, <2>3
<1>5. /\ c \in Seq(S) /\ Len(c) = i /\ c[i] = e
      /\ \A j \in 1..(i - 1) : c[j] = q[j]
  <2>1. <<e>> \in Seq(S) /\ Len(<<e>>) = 1 /\ <<e>>[1] = e
    OBVIOUS
  <2>2. /\ c \in Seq(S) /\ Len(c) = Len(a) + 1
        /\ \A j \in 1..(Len(a) + 1) :
             c[j] = IF j <= Len(a) THEN a[j] ELSE <<e>>[j - Len(a)]
    BY <1>1, <1>3, <2>1, ConcatProperties
  <2>3. Len(a) = i - 1 /\ i - 1 \in Nat
    BY <1>3
  <2>4. c[i] = e
    <3>1. i \in 1..(Len(a) + 1) /\ ~(i <= Len(a)) /\ i - Len(a) = 1
      BY <2>3
    <3>2. QED
      BY <2>1, <2>2, <3>1
  <2>5. ASSUME NEW j \in 1..(i - 1)
        PROVE  c[j] = q[j]
    <3>1. j \in 1..(Len(a) + 1) /\ j <= Len(a)
      BY <2>3
    <3>2. QED
      BY <1>3, <2>2, <3>1
  <2>6. Len(c) = i
    BY <2>2, <2>3
  <2>7. QED
    BY <2>2, <2>4, <2>5, <2>6
<1>6. /\ t \in Seq(S) /\ Len(t) = Len(c) + Len(b)
      /\ \A j \in 1..(Len(c) + Len(b)) :
           t[j] = IF j <= Len(c) THEN c[j] ELSE b[j - Len(c)]
  <2>1. t = c \o b
    BY <1>1 DEF With
  <2>2. /\ c \o b \in Seq(S) /\ Len(c \o b) = Len(c) + Len(b)
        /\ \A j \in 1..(Len(c) + Len(b)) :
             (c \o b)[j] = IF j <= Len(c) THEN c[j] ELSE b[j - Len(c)]
    BY <1>4, <1>5, ConcatProperties
  <2>3. QED
    BY <2>1, <2>2
<1>7. Len(t) = Len(q) + 1 /\ DOMAIN t = 1..(Len(q) + 1)
  BY <1>2, <1>4, <1>5, <1>6
<1>8. i \in DOMAIN t /\ t[i] = e
  BY <1>2, <1>4, <1>5, <1>6, <1>7
<1>9. ASSUME NEW j \in DOMAIN q
      PROVE  Skip(i, j) \in DOMAIN t \ {i} /\ q[j] = t[Skip(i, j)]
  <2>1. CASE j < i
    <3>1. j \in 1..(Len(c) + Len(b)) /\ j <= Len(c) /\ j \in 1..(i - 1)
      BY <1>2, <1>4, <1>5, <2>1
    <3>2. t[j] = q[j]
      BY <1>5, <1>6, <3>1
    <3>3. QED
      BY <1>2, <1>7, <2>1, <3>2 DEF Skip
  <2>2. CASE ~(j < i)
    <3>1. /\ j + 1 \in 1..(Len(c) + Len(b)) /\ ~(j + 1 <= Len(c))
          /\ j + 1 - Len(c) = j - i + 1 /\ j - i + 1 \in 1..(Len(q) - i + 1)
          /\ i + (j - i + 1) - 1 = j
      BY <1>2, <1>4, <1>5, <2>2
    <3>2. t[j + 1] = b[j - i + 1]
      <4>1. PICK k : k = j + 1
        OBVIOUS
      <4>2. /\ k \in 1..(Len(c) + Len(b)) /\ ~(k <= Len(c))
            /\ k - Len(c) = j - i + 1
        BY <1>2, <1>4, <1>5, <2>2, <4>1
      <4>3. t[k] = b[k - Len(c)]
        BY <1>6, <4>2
      <4>4. QED
        BY <4>1, <4>2, <4>3
    <3>3. b[j - i + 1] = q[j]
      BY <1>4, <3>1
    <3>4. QED
      BY <1>2, <1>7, <2>2, <3>2, <3>3 DEF Skip
  <2>3. QED
    BY <2>1, <2>2
<1>10. ASSUME NEW k \in DOMAIN t \ {i}
       PROVE  \E j \in DOMAIN q : q[j] = t[k]
  <2>1. CASE k < i
    <3>1. k \in DOMAIN q /\ Skip(i, k) = k
      BY <1>2, <1>7, <2>1 DEF Skip
    <3>2. QED
      BY <1>9, <3>1
  <2>2. CASE ~(k < i)
    <3>1. k - 1 \in DOMAIN q /\ Skip(i, k - 1) = k
      BY <1>2, <1>7, <2>2 DEF Skip
    <3>2. QED
      BY <1>9, <3>1
  <2>3. QED
    BY <2>1, <2>2
<1>11. ASSUME NEW j \in DOMAIN q, NEW k \in DOMAIN q
       PROVE  /\ j <= k => Skip(i, j) <= Skip(i, k)
              /\ Skip(i, j) = Skip(i, k) => j = k
  BY <1>2 DEF Skip
<1>12. QED
  BY <1>6, <1>7, <1>8, <1>9, <1>10, <1>11 DEF LeftOut
-----------------------------------------------------------------------------
(* A pool is consistent when its event is pending exactly in the states    *)
(* that need it and full load means that no thread is idle.                *)
ConsistentPool(p) ==
  /\ p.run <=> p.state \in {"Start", "Run"}
  /\ p.idle = 0 <=> p.state = "FullLoad"

(* InitThreadPool and Start of a pool with at least one thread.            *)
LEMMA StartedPoolOK ==
  ASSUME NEW n \in Nat \ {0}
  PROVE  /\ StartedPool(n) \in Pools(n)
         /\ ConsistentPool(StartedPool(n))
         /\ StartedPool(n).state = "Start"
         /\ StartedPool(n).idle = n
BY DEF StartedPool, Pools, PoolStates, ConsistentPool

(* Wakeup keeps a pool consistent, leaves the threads alone, and an idle   *)
(* pool is running afterwards (processor.cpp:118-125).                     *)
LEMMA WakeupOK ==
  ASSUME NEW n \in Nat, NEW p \in Pools(n), ConsistentPool(p)
  PROVE  /\ Wakeup(p) \in Pools(n)
         /\ ConsistentPool(Wakeup(p))
         /\ Wakeup(p).idle = p.idle
         /\ Wakeup(p).state = IF p.state = "Idle" THEN "Run" ELSE p.state
BY DEF Wakeup, Signalled, Pools, PoolStates, ConsistentPool

(* A thread comes back to the pool, which is signalled when it was fully   *)
(* loaded (processor.cpp:101-113).                                         *)
LEMMA ReturnThreadOK ==
  ASSUME NEW n \in Nat, NEW p \in Pools(n), ConsistentPool(p), p.idle < n
  PROVE  LET q == SignalIfLoaded(AddThread(p))
         IN  /\ q \in Pools(n)
             /\ ConsistentPool(q)
             /\ q.idle = p.idle + 1
             /\ q.state = IF p.state = "FullLoad" THEN "Run" ELSE p.state
<1> DEFINE r == AddThread(p)
           q == SignalIfLoaded(r)
<1>1. /\ r \in Pools(n) /\ r.run = p.run
      /\ r.state = p.state /\ r.idle = p.idle + 1
  BY DEF Pools, AddThread
<1>2. CASE p.state = "FullLoad"
  <2>1. q = [r EXCEPT !.run = TRUE, !.state = "Run"]
    BY <1>1, <1>2 DEF Signalled, SignalIfLoaded, Pools
  <2> HIDE DEF r, q
  <2>2. q \in Pools(n)
    BY <1>1, <2>1 DEF Pools, PoolStates
  <2>3. q.run /\ q.state = "Run" /\ q.idle = p.idle + 1
    BY <1>1, <2>1 DEF Pools
  <2>4. ConsistentPool(q)
    BY <2>2, <2>3 DEF Pools, ConsistentPool
  <2> USE DEF r, q
  <2>5. QED
    BY <1>2, <2>2, <2>3, <2>4
<1>3. CASE p.state # "FullLoad"
  <2>1. q = r
    BY <1>1, <1>3 DEF SignalIfLoaded
  <2> HIDE DEF r, q
  <2>2. ConsistentPool(q)
    BY <1>1, <1>3, <2>1 DEF Pools, PoolStates, ConsistentPool
  <2> USE DEF r, q
  <2>3. QED
    BY <1>1, <1>3, <2>1, <2>2
<1>4. QED
  BY <1>2, <1>3

(* The number of dispatched tasks is bounded by both the queue and the     *)
(* idle threads, and reaches one of the two bounds when the pool runs.     *)
LEMMA DispatchableOK ==
  ASSUME NEW n \in Nat, NEW p \in Pools(n), NEW m \in Nat
  PROVE  /\ Dispatchable(p, m) \in 0..m
         /\ Dispatchable(p, m) <= p.idle
         /\ p.state = "Run" => Dispatchable(p, m) = m \/ Dispatchable(p, m) = p.idle
         /\ p.state # "Run" => Dispatchable(p, m) = 0
BY DEF Dispatchable, Pools, PoolStates

(* The pool's event: the pool stays consistent, and it is idle only if it  *)
(* has taken the whole queue (processor.cpp:139-182).                      *)
LEMMA PoolStateMachineOK ==
  ASSUME NEW n \in Nat, NEW p \in Pools(n), ConsistentPool(p), p.run,
         NEW m \in Nat, p.state = "Start" => m = 0,
         NEW k, k = Dispatchable(p, m),
         NEW q, q = PoolStateMachine(p, m)
  PROVE  /\ q \in Pools(n)
         /\ ConsistentPool(q)
         /\ q.idle = p.idle - k
         /\ q.state \in {"Idle", "FullLoad"}
         /\ q.state = "Idle" => k = m
<1>1. /\ k \in 0..m /\ k <= p.idle
      /\ p.state = "Run" => k = m \/ k = p.idle
      /\ p.state # "Run" => k = 0
  BY DispatchableOK
<1>2. p.state \in {"Start", "Run"} /\ p.idle \in 1..n
  BY DEF ConsistentPool, Pools
<1>3. q = [state |-> IF k = p.idle THEN "FullLoad" ELSE "Idle",
           run |-> FALSE, idle |-> p.idle - k]
  <2>1. (k > 0 /\ k = p.idle) <=> k = p.idle
    BY <1>1, <1>2
  <2>2. p.state # "FullLoad"
    BY <1>2
  <2> DEFINE t == TakeThreads(p, k)
  <2>3. /\ t.state = "FullLoad" <=> k = p.idle
        /\ t.idle = p.idle - k
    BY <2>1, <2>2 DEF TakeThreads
  <2>4. q = [state |-> IF t.state = "FullLoad" THEN "FullLoad" ELSE "Idle",
             run |-> FALSE, idle |-> t.idle]
    BY DEF PoolStateMachine
  <2> HIDE DEF t
  <2>5. QED
    BY <2>3, <2>4
<1>4. QED
  BY <1>1, <1>2, <1>3 DEF ConsistentPool, Pools, PoolStates
=============================================================================
