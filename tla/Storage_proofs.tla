--------------------------- MODULE Storage_proofs ---------------------------
(***************************************************************************)
(* The safety of the storage for every set of I/Os, all parameters of the  *)
(* elevator and all sizes of preallocations.                               *)
(*                                                                         *)
(* A part of an I/O is known by its place on the disk alone.  That merges  *)
(* neither lose nor repeat one, and that the tree of the elevator never    *)
(* aliases, rests on the allocator: no two parts in the elevator or on the *)
(* disk share a block.  IInv says what each of the two does for the other. *)
(***************************************************************************)
EXTENDS Storage, CommonLemmas

PartSet == [io : IOs, cmd : Directions, off : Nat, count : Nat \ {0}]
RequestSet == [id : PartSet, cmd : Directions, off : Nat, count : Nat \ {0},
               batch : Seq(PartSet)]

\* Different parts, each of which begins where the one before it ends.
IsRun(b) ==
  /\ b \in Seq(PartSet) /\ b # <<>> /\ Distinct(b)
  /\ \A n \in 1..(Len(b) - 1) : EndOf(b[n]) = b[n + 1].off

\* A request is the run of its parts.
IsRunOf(r) ==
  /\ IsRun(r.batch)
  /\ r.off = r.batch[1].off /\ EndOf(r) = EndOf(r.batch[Len(r.batch)])
  /\ r.count <= MaxReqSize \/ Len(r.batch) = 1

GoodRequests == {r \in RequestSet : IsRunOf(r)}

\* No two requests have a part in common.
Apart(R) ==
  \A r, s \in R : r # s => Elements(r.batch) \cap Elements(s.batch) = {}
PartsOf(R) == UNION {Elements(r.batch) : r \in R}

SoundQueue(S) ==
  S \in Seq(GoodRequests) /\ Distinct(S) /\ Apart(Elements(S))
PartsIn(S) == PartsOf(Elements(S))
-----------------------------------------------------------------------------
(* Two runs that touch are one run.                                        *)
LEMMA RunsJoin ==
  ASSUME NEW a, NEW b, IsRun(a), IsRun(b), EndOf(a[Len(a)]) = b[1].off,
         Elements(a) \cap Elements(b) = {}
  PROVE  /\ IsRun(a \o b) /\ Elements(a \o b) = Elements(a) \cup Elements(b)
         /\ Len(a \o b) = Len(a) + Len(b) /\ (a \o b)[1] = a[1]
         /\ (a \o b)[Len(a \o b)] = b[Len(b)]
<1>1. /\ a \in Seq(PartSet) /\ b \in Seq(PartSet) /\ Len(a) \in Nat \ {0}
      /\ Len(b) \in Nat \ {0} /\ DOMAIN a = 1..Len(a) /\ DOMAIN b = 1..Len(b)
  BY DEF IsRun
<1>2. PICK c : c = a \o b
  OBVIOUS
<1>3. /\ c \in Seq(PartSet) /\ Len(c) = Len(a) + Len(b)
      /\ \A i \in 1..(Len(a) + Len(b)) :
           c[i] = IF i <= Len(a) THEN a[i] ELSE b[i - Len(a)]
  BY <1>1, <1>2, ConcatProperties
<1>4. /\ DOMAIN c = 1..(Len(a) + Len(b))
      /\ \A i \in DOMAIN a : i \in DOMAIN c /\ c[i] = a[i]
  BY <1>1, <1>3
<1>5. \A i \in DOMAIN b : Len(a) + i \in DOMAIN c /\ c[Len(a) + i] = b[i]
  <2>1. ASSUME NEW i \in DOMAIN b
        PROVE  Len(a) + i \in DOMAIN c /\ c[Len(a) + i] = b[i]
    <3>1. PICK n : n = Len(a) + i
      OBVIOUS
    <3>2. n \in 1..(Len(a) + Len(b)) /\ ~(n <= Len(a)) /\ n - Len(a) = i
      BY <1>1, <3>1
    <3>3. c[n] = b[i]
      BY <1>3, <3>2
    <3>4. QED
      BY <1>4, <3>1, <3>2, <3>3
  <2>2. QED
    BY <2>1
<1>6. \A n \in DOMAIN c : n \in DOMAIN a \/ \E i \in DOMAIN b : n = Len(a) + i
  <2>1. ASSUME NEW n \in DOMAIN c, n \notin DOMAIN a
        PROVE  n - Len(a) \in DOMAIN b /\ n = Len(a) + (n - Len(a))
    BY <1>1, <1>4, <2>1
  <2>2. QED
    BY <2>1
<1>7. Elements(c) = Elements(a) \cup Elements(b)
  <2>1. ASSUME NEW n \in DOMAIN c
        PROVE  c[n] \in Elements(a) \cup Elements(b)
    BY <1>4, <1>5, <1>6 DEF Elements
  <2>2. Elements(a) \subseteq Elements(c) /\ Elements(b) \subseteq Elements(c)
    BY <1>4, <1>5 DEF Elements
  <2>3. QED
    BY <2>1, <2>2 DEF Elements
<1>8. Distinct(c)
  <2> SUFFICES ASSUME NEW n \in DOMAIN c, NEW m \in DOMAIN c, c[n] = c[m]
               PROVE  n = m
    BY DEF Distinct
  <2>1. CASE n \in DOMAIN a /\ m \in DOMAIN a
    BY <1>4, <2>1 DEF IsRun, Distinct
  <2>2. ASSUME NEW i \in DOMAIN a, NEW j \in DOMAIN c, j \notin DOMAIN a
        PROVE  c[i] # c[j]
    <3>1. PICK k \in DOMAIN b : j = Len(a) + k
      BY <1>6, <2>2
    <3>2. c[i] = a[i] /\ c[j] = b[k]
      BY <1>4, <1>5, <3>1
    <3>3. a[i] \in Elements(a) /\ b[k] \in Elements(b)
      BY DEF Elements
    <3>4. QED
      BY <3>2, <3>3
  <2>3. (n \in DOMAIN a) <=> (m \in DOMAIN a)
    BY <2>2
  <2>4. CASE n \notin DOMAIN a /\ m \notin DOMAIN a
    <3>1. PICK i \in DOMAIN b, j \in DOMAIN b : n = Len(a) + i /\ m = Len(a) + j
      BY <1>6, <2>4
    <3>2. b[i] = b[j]
      BY <1>5, <3>1
    <3>3. QED
      BY <3>1, <3>2 DEF IsRun, Distinct
  <2>5. QED
    BY <2>1, <2>3, <2>4
<1>9. ASSUME NEW n \in 1..(Len(c) - 1)
      PROVE  EndOf(c[n]) = c[n + 1].off
  <2>1. CASE n < Len(a)
    <3>1. /\ n \in 1..(Len(a) - 1) /\ n \in DOMAIN a /\ n + 1 \in DOMAIN a
      BY <1>1, <1>3, <1>9, <2>1
    <3>2. QED
      BY <1>4, <3>1 DEF IsRun
  <2>2. CASE n = Len(a)
    <3>1. n \in DOMAIN a /\ 1 \in DOMAIN b /\ n + 1 = Len(a) + 1
      BY <1>1, <2>2
    <3>2. c[n] = a[Len(a)] /\ c[n + 1] = b[1]
      BY <1>4, <1>5, <2>2, <3>1
    <3>3. QED
      BY <3>2
  <2>3. CASE n > Len(a)
    <3>1. PICK i : i = n - Len(a)
      OBVIOUS
    <3>2. /\ i \in 1..(Len(b) - 1) /\ i \in DOMAIN b /\ i + 1 \in DOMAIN b
          /\ n = Len(a) + i /\ n + 1 = Len(a) + (i + 1)
      BY <1>1, <1>3, <1>9, <2>3, <3>1
    <3>3. c[n] = b[i] /\ c[n + 1] = b[i + 1]
      BY <1>5, <3>2
    <3>4. QED
      BY <3>2, <3>3 DEF IsRun
  <2>4. n < Len(a) \/ n = Len(a) \/ n > Len(a)
    <3>1. n \in Int /\ Len(a) \in Int
      BY <1>1
    <3>2. QED
      BY <3>1
  <2>5. QED
    BY <2>1, <2>2, <2>3, <2>4
<1>10. c[1] = a[1] /\ c[Len(c)] = b[Len(b)] /\ c # <<>>
  <2>1. 1 \in DOMAIN a /\ Len(b) \in DOMAIN b
    BY <1>1
  <2>2. QED
    BY <1>3, <1>4, <1>5, <2>1
<1>11. QED
  BY <1>2, <1>3, <1>7, <1>8, <1>9, <1>10 DEF IsRun

(* A request for one part.                                                 *)
LEMMA NewRequestOK ==
  ASSUME NEW q \in PartSet
  PROVE  /\ NewRequest(q) \in GoodRequests
         /\ Elements(NewRequest(q).batch) = {q} /\ NewRequest(q).id = q
         /\ NewRequest(q).cmd = q.cmd /\ NewRequest(q).off = q.off
         /\ NewRequest(q).count = q.count /\ NewRequest(q).batch = <<q>>
<1>1. PICK r : r = NewRequest(q)
  OBVIOUS
<1>2. r = [id |-> q, cmd |-> q.cmd, off |-> q.off, count |-> q.count,
           batch |-> <<q>>]
  BY <1>1 DEF NewRequest
<1>3. <<q>> \in Seq(PartSet) /\ Len(<<q>>) = 1 /\ <<q>>[1] = q
  OBVIOUS
<1>4. IsRun(<<q>>) /\ Elements(<<q>>) = {q}
  BY <1>3 DEF IsRun, Distinct, Elements
<1>5. r \in RequestSet
  BY <1>2, <1>3 DEF RequestSet, PartSet
<1>6. IsRunOf(r)
  BY <1>2, <1>3, <1>4 DEF IsRunOf, EndOf
<1>7. QED
  BY <1>1, <1>2, <1>4, <1>5, <1>6 DEF GoodRequests

(* Two requests that touch make one, if it is not too large.               *)
LEMMA RequestsJoin ==
  ASSUME NEW r \in GoodRequests, NEW s \in GoodRequests, EndOf(r) = s.off,
         r.count + s.count <= MaxReqSize,
         Elements(r.batch) \cap Elements(s.batch) = {},
         NEW t, t.id \in PartSet, t.cmd \in Directions, t.off = r.off,
         t.count = r.count + s.count, t.batch = r.batch \o s.batch,
         t = [id |-> t.id, cmd |-> t.cmd, off |-> t.off, count |-> t.count,
              batch |-> t.batch]
  PROVE  /\ t \in GoodRequests
         /\ Elements(t.batch) = Elements(r.batch) \cup Elements(s.batch)
<1>1. /\ r \in RequestSet /\ s \in RequestSet /\ IsRunOf(r) /\ IsRunOf(s)
      /\ IsRun(r.batch) /\ IsRun(s.batch)
  BY DEF GoodRequests, IsRunOf
<1>2. EndOf(r.batch[Len(r.batch)]) = s.batch[1].off
  BY <1>1 DEF IsRunOf
<1>3. /\ IsRun(t.batch)
      /\ Elements(t.batch) = Elements(r.batch) \cup Elements(s.batch)
      /\ t.batch[1] = r.batch[1]
      /\ t.batch[Len(t.batch)] = s.batch[Len(s.batch)]
  <2>1. PICK a, b : a = r.batch /\ b = s.batch
    OBVIOUS
  <2>2. /\ IsRun(a) /\ IsRun(b) /\ EndOf(a[Len(a)]) = b[1].off
        /\ Elements(a) \cap Elements(b) = {}
    BY <1>1, <1>2, <2>1
  <2>3. /\ IsRun(a \o b) /\ Elements(a \o b) = Elements(a) \cup Elements(b)
        /\ (a \o b)[1] = a[1] /\ (a \o b)[Len(a \o b)] = b[Len(b)]
    BY <2>2, RunsJoin, ZenonT(60)
  <2>4. t.batch = a \o b
    BY <2>1
  <2>5. QED
    BY <2>1, <2>3, <2>4
<1>4. /\ r.off \in Nat /\ s.off \in Nat /\ r.count \in Nat \ {0}
      /\ s.count \in Nat \ {0}
  BY <1>1 DEF RequestSet
<1>5. t \in RequestSet
  <2>1. t.off \in Nat /\ t.count \in Nat \ {0} /\ t.batch \in Seq(PartSet)
    BY <1>3, <1>4 DEF IsRun
  <2>2. QED
    BY <2>1 DEF RequestSet
<1>6. EndOf(t) = EndOf(s)
  BY <1>4 DEF EndOf
<1>7. IsRunOf(t)
  BY <1>1, <1>3, <1>6 DEF IsRunOf
<1>8. QED
  BY <1>3, <1>5, <1>7 DEF GoodRequests
-----------------------------------------------------------------------------
(* Skip leaves out one number.                                             *)
LEMMA SkipCovers ==
  ASSUME NEW n \in Nat, NEW i \in 1..n
  PROVE  \A k \in (1..n) \ {i} : \E j \in 1..(n - 1) : Skip(i, j) = k
<1> SUFFICES ASSUME NEW k \in (1..n) \ {i}
             PROVE  \E j \in 1..(n - 1) : Skip(i, j) = k
  OBVIOUS
<1>1. CASE k < i
  <2>1. k \in 1..(n - 1) /\ Skip(i, k) = k
    BY <1>1 DEF Skip
  <2>2. QED
    BY <2>1
<1>2. CASE ~(k < i)
  <2>1. k - 1 \in 1..(n - 1) /\ Skip(i, k - 1) = k
    BY <1>2 DEF Skip
  <2>2. QED
    BY <2>1
<1>3. QED
  BY <1>1, <1>2

(* What becomes of the elements of a queue without repetitions.            *)
LEMMA InsertElement ==
  ASSUME NEW S, NEW q \in Seq(S), Distinct(q), NEW e \in S,
         e \notin Elements(q),
         NEW i \in 1..(Len(q) + 1), NEW t, t = InsertAt(q, i, e)
  PROVE  /\ t \in Seq(S) /\ Len(t) = Len(q) + 1 /\ Distinct(t)
         /\ Elements(t) = Elements(q) \cup {e}
<1>1. /\ t \in Seq(S) /\ Len(t) = Len(q) + 1 /\ i \in DOMAIN t
      /\ t[i] = e /\ LeftOut(t, i, q)
  <2>1. t = With(q, i, e)
    BY DEF InsertAt, With
  <2>2. QED
    BY <2>1, InsertAtOK
<1>2. \A j \in DOMAIN q : Skip(i, j) \in DOMAIN t \ {i} /\ q[j] = t[Skip(i, j)]
  BY <1>1 DEF LeftOut
<1>3. \A k \in DOMAIN t \ {i} : \E j \in DOMAIN q : Skip(i, j) = k
  <2>1. PICK n : n = Len(t)
    OBVIOUS
  <2>2. /\ n \in Nat /\ i \in 1..n
        /\ DOMAIN t = 1..n /\ DOMAIN q = 1..(n - 1)
    BY <1>1, <2>1
  <2>3. \A k \in (1..n) \ {i} : \E j \in 1..(n - 1) : Skip(i, j) = k
    BY <2>2, SkipCovers
  <2>4. QED
    BY <2>2, <2>3
<1>4. ASSUME NEW k \in DOMAIN t \ {i}
      PROVE  \E j \in DOMAIN q : Skip(i, j) = k /\ q[j] = t[k]
  <2>1. PICK j \in DOMAIN q : Skip(i, j) = k
    BY <1>3
  <2>2. QED
    BY <1>2, <2>1
<1>5. Elements(t) = Elements(q) \cup {e}
  <2>1. ASSUME NEW k \in DOMAIN t
        PROVE  t[k] \in Elements(q) \cup {e}
    BY <1>1, <1>4 DEF Elements
  <2>2. Elements(q) \cup {e} \subseteq Elements(t)
    BY <1>1, <1>2 DEF Elements
  <2>3. QED
    BY <2>1, <2>2, ZenonT(60) DEF Elements
<1>6. ASSUME NEW k \in DOMAIN t, NEW l \in DOMAIN t, t[k] = t[l]
      PROVE  k = l
  <2>1. CASE k = i \/ l = i
    BY <1>1, <1>4, <1>6, <2>1 DEF Elements
  <2>2. CASE k # i /\ l # i
    <3>1. PICK j \in DOMAIN q, m \in DOMAIN q :
            Skip(i, j) = k /\ q[j] = t[k] /\ Skip(i, m) = l /\ q[m] = t[l]
      BY <1>4, <2>2
    <3>2. j = m
      BY <1>6, <3>1 DEF Distinct
    <3>3. QED
      BY <3>1, <3>2
  <2>3. QED
    BY <2>1, <2>2
<1>7. QED
  BY <1>1, <1>5, <1>6 DEF Distinct

LEMMA RemoveElement ==
  ASSUME NEW S, NEW q \in Seq(S), Distinct(q), NEW i \in DOMAIN q,
         NEW t, t = RemoveAt(q, i)
  PROVE  /\ t \in Seq(S) /\ Len(t) = Len(q) - 1 /\ Distinct(t)
         /\ Elements(t) = Elements(q) \ {q[i]}
<1>1. t \in Seq(S) /\ Len(t) = Len(q) - 1 /\ LeftOut(q, i, t)
  <2>1. t = Without(q, i) /\ i \in 1..Len(q)
    BY DEF RemoveAt, Without
  <2>2. QED
    BY <2>1, RemoveAtOK
<1>2. /\ \A j \in DOMAIN t : /\ Skip(i, j) \in DOMAIN q \ {i}
                             /\ t[j] = q[Skip(i, j)]
      /\ \A k \in DOMAIN q \ {i} : \E j \in DOMAIN t : t[j] = q[k]
      /\ \A j, k \in DOMAIN t : Skip(i, j) = Skip(i, k) => j = k
  BY <1>1 DEF LeftOut
<1>3. Elements(t) = Elements(q) \ {q[i]}
  <2>1. ASSUME NEW j \in DOMAIN t
        PROVE  t[j] \in Elements(q) \ {q[i]}
    BY <1>2 DEF Elements, Distinct
  <2>2. Elements(q) \ {q[i]} \subseteq Elements(t)
    BY <1>2 DEF Elements
  <2>3. QED
    BY <2>1, <2>2 DEF Elements
<1>4. Distinct(t)
  BY <1>2 DEF Distinct
<1>5. QED
  BY <1>1, <1>3, <1>4

Changed(q, i, e) == [q EXCEPT ![i] = e]

LEMMA ChangeElement ==
  ASSUME NEW S, NEW q \in Seq(S), Distinct(q), NEW i \in DOMAIN q, NEW e \in S,
         NEW R, R = Elements(q) \ {q[i]}, e \notin R,
         NEW t, t = Changed(q, i, e)
  PROVE  /\ t \in Seq(S) /\ Len(t) = Len(q) /\ Distinct(t) /\ t[i] = e
         /\ DOMAIN t = DOMAIN q /\ Elements(t) = R \cup {e}
         /\ \A k \in DOMAIN q : k # i => t[k] = q[k]
<1>1. t \in Seq(S) /\ Len(t) = Len(q) /\ DOMAIN t = DOMAIN q
  BY ExceptSeq DEF Changed
<1>2. \A k \in DOMAIN q : t[k] = IF k = i THEN e ELSE q[k]
  BY DEF Changed
<1>3. \A k \in DOMAIN q : k # i => q[k] \in R
  BY DEF Elements, Distinct
<1>4. Distinct(t)
  BY <1>1, <1>2, <1>3 DEF Distinct
<1>5. Elements(t) = R \cup {e}
  <2>1. Elements(t) \subseteq R \cup {e}
    <3>1. ASSUME NEW k \in DOMAIN t
          PROVE  t[k] \in R \cup {e}
      BY <1>1, <1>2, <1>3
    <3>2. QED
      BY <3>1 DEF Elements
  <2>2. R \cup {e} \subseteq Elements(t)
    BY <1>1, <1>2 DEF Elements
  <2>3. QED
    BY <2>1, <2>2
<1>6. QED
  BY <1>1, <1>2, <1>4, <1>5

Follows(q, p, t) == t = q \o p

LEMMA JoinQueues ==
  ASSUME NEW S, NEW q \in Seq(S), NEW p \in Seq(S), Distinct(q), Distinct(p),
         \A x \in Elements(q) : x \notin Elements(p),
         NEW t, Follows(q, p, t)
  PROVE  /\ t \in Seq(S) /\ Len(t) = Len(q) + Len(p) /\ Distinct(t)
         /\ \A x : x \in Elements(t) <=> x \in Elements(q) \/ x \in Elements(p)
<1>0. t = q \o p
  BY DEF Follows
<1>1. /\ t \in Seq(S) /\ Len(t) = Len(q) + Len(p)
      /\ \A i \in 1..(Len(q) + Len(p)) :
           t[i] = IF i <= Len(q) THEN q[i] ELSE p[i - Len(q)]
  BY <1>0, ConcatProperties
<1>2. /\ Len(q) \in Nat /\ Len(p) \in Nat
      /\ DOMAIN q = 1..Len(q) /\ DOMAIN p = 1..Len(p)
      /\ DOMAIN t = 1..(Len(q) + Len(p))
  BY <1>1
<1>3. \A i \in DOMAIN q : i \in DOMAIN t /\ t[i] = q[i]
  BY <1>1, <1>2
<1>4. ASSUME NEW i \in DOMAIN p
      PROVE  Len(q) + i \in DOMAIN t /\ t[Len(q) + i] = p[i]
  <2>1. PICK n : n = Len(q) + i
    OBVIOUS
  <2>2. n \in 1..(Len(q) + Len(p)) /\ ~(n <= Len(q)) /\ n - Len(q) = i
    BY <1>2, <2>1
  <2>3. t[n] = p[i]
    BY <1>1, <2>2
  <2>4. QED
    BY <1>2, <2>1, <2>2, <2>3
<1>5. ASSUME NEW n \in DOMAIN t, n \notin DOMAIN q
      PROVE  n - Len(q) \in DOMAIN p /\ t[n] = p[n - Len(q)]
  BY <1>1, <1>2, <1>5
<1>6. Elements(t) = Elements(q) \cup Elements(p)
  <2>1. Elements(t) \subseteq Elements(q) \cup Elements(p)
    <3>1. ASSUME NEW n \in DOMAIN t
          PROVE  t[n] \in Elements(q) \cup Elements(p)
      BY <1>3, <1>5 DEF Elements
    <3>2. QED
      BY <3>1 DEF Elements
  <2>2. Elements(q) \subseteq Elements(t) /\ Elements(p) \subseteq Elements(t)
    BY <1>3, <1>4 DEF Elements
  <2>3. QED
    BY <2>1, <2>2
<1>7. ASSUME NEW n \in DOMAIN t, NEW m \in DOMAIN t, t[n] = t[m]
      PROVE  n = m
  <2>0. \A i \in DOMAIN q, j \in DOMAIN p : q[i] # p[j]
    BY DEF Elements
  <2>1. CASE n \in DOMAIN q /\ m \in DOMAIN q
    BY <1>3, <1>7, <2>1 DEF Distinct
  <2>2. CASE n \in DOMAIN q /\ m \notin DOMAIN q
    BY <1>3, <1>5, <1>7, <2>0, <2>2
  <2>3. CASE n \notin DOMAIN q /\ m \in DOMAIN q
    BY <1>3, <1>5, <1>7, <2>0, <2>3
  <2>4. CASE n \notin DOMAIN q /\ m \notin DOMAIN q
    <3>1. n - Len(q) = m - Len(q)
      BY <1>5, <1>7, <2>4 DEF Distinct
    <3>2. QED
      BY <1>2, <3>1
  <2>5. QED
    BY <2>1, <2>2, <2>3, <2>4
<1>8. QED
  BY <1>1, <1>6, <1>7 DEF Distinct

LEMMA EmptyQueue ==
  ASSUME NEW S, NEW q \in Seq(S)
  PROVE  /\ q = <<>> <=> Elements(q) = {}
         /\ q = <<>> <=> Len(q) = 0
         /\ Distinct(<<>>) /\ Elements(<<>>) = {}
<1>1. /\ DOMAIN q = 1..Len(q) /\ Len(q) \in Nat
      /\ q = <<>> <=> Len(q) = 0
  BY EmptySeq
<1>2. Elements(q) = {} => Len(q) = 0
  <2>1. Len(q) # 0 => q[1] \in Elements(q)
    BY <1>1 DEF Elements
  <2>2. QED
    BY <2>1
<1>3. Distinct(<<>>) /\ Elements(<<>>) = {}
  BY DEF Distinct, Elements
<1>4. QED
  BY <1>1, <1>2, <1>3

(* What requests promise.                                                  *)
LEMMA GoodRequestOK ==
  ASSUME NEW r \in GoodRequests
  PROVE  /\ r.id \in PartSet /\ r.cmd \in Directions /\ r.off \in Nat
         /\ r.count \in Nat \ {0} /\ r.batch \in Seq(PartSet)
         /\ 1 \in DOMAIN r.batch /\ r.batch[1] \in Elements(r.batch)
         /\ Elements(r.batch) \subseteq PartSet /\ r.off = r.batch[1].off
         /\ r = [id |-> r.id, cmd |-> r.cmd, off |-> r.off, count |-> r.count,
                 batch |-> r.batch]
<1>1. r \in RequestSet /\ IsRunOf(r) /\ IsRun(r.batch)
  BY DEF GoodRequests, IsRunOf
<1>2. /\ r.id \in PartSet /\ r.cmd \in Directions /\ r.off \in Nat
      /\ r.count \in Nat \ {0} /\ r.batch \in Seq(PartSet)
      /\ r = [id |-> r.id, cmd |-> r.cmd, off |-> r.off, count |-> r.count,
              batch |-> r.batch]
  BY <1>1 DEF RequestSet
<1>3. PICK b : b = r.batch
  OBVIOUS
<1>4. b \in Seq(PartSet) /\ b # <<>>
  BY <1>1, <1>3 DEF IsRun
<1>5. /\ 1 \in DOMAIN b /\ b[1] \in Elements(b) /\ Elements(b) \subseteq PartSet
  BY <1>4, EmptySeq DEF Elements
<1>6. r.off = r.batch[1].off
  BY <1>1 DEF IsRunOf
<1>7. QED
  BY <1>2, <1>3, <1>5, <1>6

LEMMA GrowSet ==
  ASSUME NEW R \in SUBSET GoodRequests, Apart(R), NEW r \in GoodRequests,
         Elements(r.batch) \cap PartsOf(R) = {}
  PROVE  /\ r \notin R /\ Apart(R \cup {r})
         /\ PartsOf(R \cup {r}) = PartsOf(R) \cup Elements(r.batch)
<1>1. r.batch[1] \in Elements(r.batch)
  BY GoodRequestOK
<1>2. r \notin R
  BY <1>1 DEF PartsOf
<1>3. Apart(R \cup {r})
  BY DEF Apart, PartsOf
<1>4. PartsOf(R \cup {r}) = PartsOf(R) \cup Elements(r.batch)
  BY DEF PartsOf
<1>5. QED
  BY <1>2, <1>3, <1>4

LEMMA ShrinkSet ==
  ASSUME NEW R \in SUBSET GoodRequests, Apart(R), NEW r \in R
  PROVE  /\ Apart(R \ {r})
         /\ PartsOf(R \ {r}) = PartsOf(R) \ Elements(r.batch)
         /\ Elements(r.batch) \subseteq PartsOf(R)
<1>1. Apart(R \ {r})
  BY DEF Apart
<1>2. PartsOf(R \ {r}) = PartsOf(R) \ Elements(r.batch)
  BY DEF Apart, PartsOf
<1>3. Elements(r.batch) \subseteq PartsOf(R)
  BY DEF PartsOf
<1>4. QED
  BY <1>1, <1>2, <1>3

LEMMA QueueOK ==
  ASSUME NEW S, SoundQueue(S)
  PROVE  /\ S \in Seq(GoodRequests) /\ Distinct(S)
         /\ Elements(S) \in SUBSET GoodRequests /\ Apart(Elements(S))
         /\ Len(S) \in Nat /\ DOMAIN S = 1..Len(S)
         /\ \A i \in DOMAIN S : S[i] \in Elements(S) /\ S[i] \in GoodRequests
         /\ PartsIn(S) \subseteq PartSet
<1>1. S \in Seq(GoodRequests) /\ Distinct(S) /\ Apart(Elements(S))
  BY DEF SoundQueue
<1>2. /\ Elements(S) \in SUBSET GoodRequests
      /\ Len(S) \in Nat /\ DOMAIN S = 1..Len(S)
      /\ \A i \in DOMAIN S : S[i] \in Elements(S) /\ S[i] \in GoodRequests
  BY <1>1 DEF Elements
<1>3. \A r \in GoodRequests : Elements(r.batch) \subseteq PartSet
  BY GoodRequestOK
<1>4. PartsIn(S) \subseteq PartSet
  BY <1>2, <1>3 DEF PartsIn, PartsOf
<1>5. QED
  BY <1>1, <1>2, <1>4

LEMMA CountUpTo ==
  ASSUME NEW n \in Nat, NEW T \in SUBSET (1..n)
  PROVE  IsFiniteSet(T) /\ Cardinality(T) \in Nat /\ Cardinality(T) <= n
<1>1. 1 \in Int /\ n \in Int
  OBVIOUS
<1>2. /\ IsFiniteSet(1..n)
      /\ Cardinality(1..n) = IF 1 > n THEN 0 ELSE n - 1 + 1
  BY <1>1, FS_Interval, Zenon
<1>3. Cardinality(1..n) = n
  BY <1>2
<1>4. QED
  BY <1>2, <1>3, FS_Subset, FS_CardinalityType

(* deadline_add_rq_rb and its counterpart of ElvNoop.                      *)
LEMMA PlacedOK ==
  ASSUME NEW S, SoundQueue(S), NEW r \in GoodRequests,
         Elements(r.batch) \cap PartsIn(S) = {}, NEW sched,
         NEW t, t = Placed(sched, S, r)
  PROVE  /\ SoundQueue(t) /\ Len(t) = Len(S) + 1
         /\ Elements(t) = Elements(S) \cup {r}
         /\ PartsIn(t) = PartsIn(S) \cup Elements(r.batch)
<1>1. /\ S \in Seq(GoodRequests) /\ Distinct(S) /\ Apart(Elements(S))
      /\ Elements(S) \in SUBSET GoodRequests
      /\ Len(S) \in Nat /\ DOMAIN S = 1..Len(S)
  BY QueueOK
<1>2. /\ r \notin Elements(S) /\ Apart(Elements(S) \cup {r})
      /\ PartsOf(Elements(S) \cup {r}) = PartsIn(S) \cup Elements(r.batch)
  BY <1>1, GrowSet DEF PartsIn
<1>3. /\ t \in Seq(GoodRequests) /\ Len(t) = Len(S) + 1 /\ Distinct(t)
      /\ Elements(t) = Elements(S) \cup {r}
  <2>1. CASE sched = "noop"
    <3>1. t = Append(S, r)
      BY <2>1 DEF Placed
    <3>2. QED
      BY <1>1, <1>2, <3>1, AppendToDistinct, AppendProperties
  <2>2. CASE sched # "noop"
    <3>1. PICK n : n = Cardinality({i \in DOMAIN S : Before(S[i], r)})
      OBVIOUS
    <3>2. t = InsertAt(S, n + 1, r)
      BY <2>2, <3>1 DEF Placed
    <3>3. n \in Nat /\ n <= Len(S)
      <4>1. {i \in DOMAIN S : Before(S[i], r)} \subseteq 1..Len(S)
        BY <1>1
      <4>2. QED
        BY <1>1, <3>1, <4>1, CountUpTo
    <3>4. PICK i : i = n + 1
      OBVIOUS
    <3>5. i \in 1..(Len(S) + 1) /\ t = InsertAt(S, i, r)
      BY <1>1, <3>2, <3>3, <3>4
    <3>6. QED
      BY <1>1, <1>2, <3>5, InsertElement
  <2>3. QED
    BY <2>1, <2>2
<1>4. QED
  BY <1>2, <1>3 DEF SoundQueue, PartsIn

(* deadline_remove_request                                                 *)
LEMMA RemoveRequestOK ==
  ASSUME NEW S, SoundQueue(S), NEW i \in DOMAIN S,
         NEW t, t = RemoveRequest(S, i)
  PROVE  /\ SoundQueue(t) /\ Len(t) = Len(S) - 1
         /\ Elements(t) = Elements(S) \ {S[i]}
         /\ PartsIn(t) = PartsIn(S) \ Elements(S[i].batch)
         /\ Elements(S[i].batch) \subseteq PartsIn(S)
<1>1. /\ S \in Seq(GoodRequests) /\ Distinct(S) /\ Apart(Elements(S))
      /\ Elements(S) \in SUBSET GoodRequests /\ S[i] \in Elements(S)
  BY QueueOK
<1>2. /\ t \in Seq(GoodRequests) /\ Len(t) = Len(S) - 1 /\ Distinct(t)
      /\ Elements(t) = Elements(S) \ {S[i]}
  BY <1>1, RemoveElement DEF RemoveRequest
<1>3. /\ Apart(Elements(S) \ {S[i]})
      /\ PartsOf(Elements(S) \ {S[i]}) = PartsIn(S) \ Elements(S[i].batch)
      /\ Elements(S[i].batch) \subseteq PartsIn(S)
  BY <1>1, ShrinkSet DEF PartsIn
<1>4. QED
  BY <1>2, <1>3 DEF SoundQueue, PartsIn

(* A request changes where it is.                                          *)
LEMMA ChangeRequestOK ==
  ASSUME NEW S, SoundQueue(S), NEW i \in DOMAIN S, NEW r \in GoodRequests,
         Elements(r.batch) \cap (PartsIn(S) \ Elements(S[i].batch)) = {},
         NEW t, t = [S EXCEPT ![i] = r]
  PROVE  /\ SoundQueue(t) /\ Len(t) = Len(S) /\ DOMAIN t = DOMAIN S
         /\ t[i] = r /\ \A k \in DOMAIN S : k # i => t[k] = S[k]
         /\ Elements(t) = (Elements(S) \ {S[i]}) \cup {r}
         /\ PartsIn(t) =
              (PartsIn(S) \ Elements(S[i].batch)) \cup Elements(r.batch)
<1>1. /\ S \in Seq(GoodRequests) /\ Distinct(S) /\ Apart(Elements(S))
      /\ Elements(S) \in SUBSET GoodRequests /\ S[i] \in Elements(S)
  BY QueueOK
<1>2. PICK R : R = Elements(S) \ {S[i]}
  OBVIOUS
<1>3. /\ R \in SUBSET GoodRequests /\ Apart(R)
      /\ PartsOf(R) = PartsIn(S) \ Elements(S[i].batch)
  BY <1>1, <1>2, ShrinkSet DEF PartsIn
<1>4. /\ r \notin R /\ Apart(R \cup {r})
      /\ PartsOf(R \cup {r}) = PartsOf(R) \cup Elements(r.batch)
  BY <1>3, GrowSet
<1>5. /\ t \in Seq(GoodRequests) /\ Len(t) = Len(S) /\ Distinct(t)
      /\ t[i] = r /\ DOMAIN t = DOMAIN S
      /\ \A k \in DOMAIN S : k # i => t[k] = S[k]
      /\ Elements(t) = R \cup {r}
  <2>1. PICK u : u = Changed(S, i, r)
    OBVIOUS
  <2>2. /\ u \in Seq(GoodRequests) /\ Len(u) = Len(S) /\ Distinct(u)
        /\ u[i] = r /\ DOMAIN u = DOMAIN S
        /\ \A k \in DOMAIN S : k # i => u[k] = S[k]
        /\ Elements(u) = R \cup {r}
    BY <1>1, <1>2, <1>4, <2>1, ChangeElement
  <2>3. t = u
    BY <2>1 DEF Changed
  <2>4. QED
    BY <2>2, <2>3
<1>6. QED
  BY <1>2, <1>3, <1>4, <1>5 DEF SoundQueue, PartsIn

(* ElvMergeRequests with SpliceIoreq                                       *)
LEMMA MergeRequestsOK ==
  ASSUME NEW S, SoundQueue(S), NEW i \in DOMAIN S, NEW j \in DOMAIN S, i # j,
         Touching(S[i], S[j]), NEW t, t = MergeRequests(S, i, j)
  PROVE  /\ SoundQueue(t) /\ Len(t) = Len(S) - 1 /\ PartsIn(t) = PartsIn(S)
         /\ \E r \in Elements(t) : r.id = S[i].id
<1>1. /\ S \in Seq(GoodRequests) /\ Distinct(S) /\ Apart(Elements(S))
      /\ Elements(S) \in SUBSET GoodRequests
      /\ S[i] \in Elements(S) /\ S[j] \in Elements(S) /\ S[i] # S[j]
  BY QueueOK DEF Distinct
<1>2. PICK a, b : a = S[i] /\ b = S[j]
  OBVIOUS
<1>3. a \in GoodRequests /\ b \in GoodRequests
  BY <1>1, <1>2
<1>4. PICK r : r = Spliced(a, b)
  OBVIOUS
<1>5. /\ r.id = a.id /\ r.cmd = a.cmd /\ r.off = a.off
      /\ r.count = a.count + b.count /\ r.batch = a.batch \o b.batch
      /\ r = [id |-> r.id, cmd |-> r.cmd, off |-> r.off, count |-> r.count,
              batch |-> r.batch]
  <2>1. a = [id |-> a.id, cmd |-> a.cmd, off |-> a.off, count |-> a.count,
             batch |-> a.batch]
    BY <1>3, GoodRequestOK
  <2>2. QED
    BY <1>4, <2>1 DEF Spliced
<1>6. /\ EndOf(a) = b.off /\ a.count + b.count <= MaxReqSize
      /\ Elements(a.batch) \cap Elements(b.batch) = {}
      /\ a.id \in PartSet /\ a.cmd \in Directions
  BY <1>1, <1>2, <1>3, GoodRequestOK DEF Touching, Apart
<1>7. /\ r \in GoodRequests
      /\ Elements(r.batch) = Elements(a.batch) \cup Elements(b.batch)
  BY <1>3, <1>5, <1>6, RequestsJoin
<1>8. PICK R : R = (Elements(S) \ {a}) \ {b}
  OBVIOUS
<1>9. /\ R \in SUBSET GoodRequests /\ Apart(R)
      /\ PartsOf(R) =
           (PartsIn(S) \ Elements(a.batch)) \ Elements(b.batch)
      /\ Elements(a.batch) \subseteq PartsIn(S)
      /\ Elements(b.batch) \subseteq PartsIn(S)
  <2>1. PICK Q : Q = Elements(S) \ {a}
    OBVIOUS
  <2>2. /\ Apart(Q) /\ PartsOf(Q) = PartsIn(S) \ Elements(a.batch)
        /\ Elements(a.batch) \subseteq PartsIn(S)
        /\ Elements(b.batch) \subseteq PartsIn(S)
    BY <1>1, <1>2, <2>1, ShrinkSet DEF PartsIn
  <2>3. Q \in SUBSET GoodRequests /\ b \in Q
    BY <1>1, <1>2, <2>1
  <2>4. Apart(Q \ {b}) /\ PartsOf(Q \ {b}) = PartsOf(Q) \ Elements(b.batch)
    BY <2>2, <2>3, ShrinkSet
  <2>5. QED
    BY <1>1, <1>8, <2>1, <2>2, <2>4
<1>10. /\ Apart(R \cup {r}) /\ PartsOf(R \cup {r}) = PartsIn(S)
       /\ r \notin R
  <2>1. Elements(r.batch) \cap PartsOf(R) = {}
    BY <1>7, <1>9
  <2>2. /\ Apart(R \cup {r}) /\ r \notin R
        /\ PartsOf(R \cup {r}) = PartsOf(R) \cup Elements(r.batch)
    BY <1>7, <1>9, <2>1, GrowSet
  <2>3. QED
    BY <1>7, <1>9, <2>2
<1>11. PICK u : u = [S EXCEPT ![i] = r]
  OBVIOUS
<1>12. r # b
  <2>1. a.batch[1] \in Elements(a.batch)
    BY <1>3, GoodRequestOK
  <2>2. QED
    BY <1>6, <1>7, <2>1
<1>13. /\ u \in Seq(GoodRequests) /\ Len(u) = Len(S) /\ Distinct(u)
       /\ DOMAIN u = DOMAIN S /\ u[j] = b
       /\ Elements(u) = (Elements(S) \ {a}) \cup {r}
  <2>1. PICK Q : Q = Elements(S) \ {S[i]}
    OBVIOUS
  <2>2. r \notin Q
    BY <1>2, <1>8, <1>10, <1>12, <2>1
  <2>3. /\ u \in Seq(GoodRequests) /\ Len(u) = Len(S) /\ Distinct(u)
        /\ DOMAIN u = DOMAIN S /\ \A k \in DOMAIN S : k # i => u[k] = S[k]
        /\ Elements(u) = Q \cup {r}
    <3>1. u = Changed(S, i, r)
      BY <1>11 DEF Changed
    <3>2. QED
      BY <1>1, <1>7, <2>1, <2>2, <3>1, ChangeElement
  <2>4. QED
    BY <1>2, <2>1, <2>3
<1>14. t = RemoveAt(u, j)
  BY <1>2, <1>4, <1>11 DEF MergeRequests, RemoveRequest
<1>15. /\ t \in Seq(GoodRequests) /\ Len(t) = Len(S) - 1 /\ Distinct(t)
       /\ Elements(t) = Elements(u) \ {b}
  <2>1. j \in DOMAIN u
    BY <1>13
  <2>2. /\ t \in Seq(GoodRequests) /\ Len(t) = Len(u) - 1 /\ Distinct(t)
        /\ Elements(t) = Elements(u) \ {u[j]}
    BY <1>13, <1>14, <2>1, RemoveElement, Zenon
  <2>3. QED
    BY <1>13, <2>2
<1>16. Elements(t) = R \cup {r}
  BY <1>8, <1>12, <1>13, <1>15
<1>17. QED
  BY <1>2, <1>5, <1>10, <1>15, <1>16 DEF SoundQueue, PartsIn

-----------------------------------------------------------------------------
Elevators ==
  [queue : Seq(GoodRequests), last : PartSet \cup {None},
   count : [Directions -> Int], inflight : Int]

\* The hint names a request of the queue, and the counters agree with it.
SoundElevator(e) ==
  /\ e \in Elevators /\ SoundQueue(e.queue)
  /\ e.last # None => \E r \in Elements(e.queue) : r.id = e.last
  /\ GetPendingNum(e) = Len(e.queue)

LEMMA EmptyElevatorOK ==
  SoundElevator(EmptyElevator) /\ PartsIn(EmptyElevator.queue) = {}
<1>1. PICK e : e = EmptyElevator
  OBVIOUS
<1>2. /\ e.queue = <<>> /\ e.last = None /\ e.inflight = 0
      /\ e.count = [d \in Directions |-> 0]
      /\ e = [queue |-> e.queue, last |-> e.last, count |-> e.count,
              inflight |-> e.inflight]
  BY <1>1 DEF EmptyElevator
<1>3. e.queue \in Seq(GoodRequests) /\ Len(e.queue) = 0
  BY <1>2
<1>4. SoundQueue(e.queue) /\ PartsIn(e.queue) = {}
  <2>1. Distinct(e.queue) /\ Elements(e.queue) = {}
    BY <1>2, <1>3, EmptyQueue
  <2>2. QED
    BY <1>3, <2>1 DEF SoundQueue, Apart, PartsIn, PartsOf
<1>5. e \in Elevators
  <2>1. /\ e.queue \in Seq(GoodRequests) /\ e.last \in PartSet \cup {None}
        /\ e.count \in [Directions -> Int] /\ e.inflight \in Int
        /\ e = [queue |-> e.queue, last |-> e.last, count |-> e.count,
                inflight |-> e.inflight]
    BY <1>2, <1>3
  <2>2. QED
    BY <2>1 DEF Elevators
<1>6. GetPendingNum(e) = 0
  BY <1>2 DEF GetPendingNum, Directions
<1>7. QED
  BY <1>1, <1>2, <1>3, <1>4, <1>5, <1>6 DEF SoundElevator

LEMMA ElevatorOK ==
  ASSUME NEW e, SoundElevator(e)
  PROVE  /\ e.queue \in Seq(GoodRequests) /\ e.last \in PartSet \cup {None}
         /\ e.count \in [Directions -> Int] /\ e.inflight \in Int
         /\ SoundQueue(e.queue)
         /\ e.count["read"] \in Int /\ e.count["write"] \in Int
         /\ e.count["read"] + e.count["write"] - e.inflight = Len(e.queue)
         /\ e = [queue |-> e.queue, last |-> e.last, count |-> e.count,
                 inflight |-> e.inflight]
BY DEF SoundElevator, Elevators, GetPendingNum, Directions

(* An elevator whose queue, hint and counters have changed together.       *)
LEMMA ElevatorChanges ==
  ASSUME NEW e, SoundElevator(e), NEW t, SoundQueue(t),
         NEW x \in PartSet \cup {None},
         x # None => \E r \in Elements(t) : r.id = x,
         NEW d \in Directions, NEW n \in Int, Len(t) = Len(e.queue) + n,
         NEW c, c = [e.count EXCEPT ![d] = @ + n],
         NEW f, f = [queue |-> t, last |-> x, count |-> c,
                     inflight |-> e.inflight]
  PROVE  SoundElevator(f)
<1>1. /\ e.queue \in Seq(GoodRequests)
      /\ e.count \in [Directions -> Int] /\ e.inflight \in Int
      /\ e.count["read"] \in Int /\ e.count["write"] \in Int
      /\ e.count["read"] + e.count["write"] - e.inflight = Len(e.queue)
  BY ElevatorOK
<1>2. t \in Seq(GoodRequests)
  BY DEF SoundQueue
<1>3. c \in [Directions -> Int]
  BY <1>1
<1>4. f \in Elevators
  BY <1>1, <1>2, <1>3 DEF Elevators
<1>5. c["read"] + c["write"] = e.count["read"] + e.count["write"] + n
  <2>1. CASE d = "read"
    BY <1>1, <2>1 DEF Directions
  <2>2. CASE d = "write"
    BY <1>1, <2>2 DEF Directions
  <2>3. QED
    BY <2>1, <2>2 DEF Directions
<1>6. GetPendingNum(f) = Len(t)
  <2>1. Len(e.queue) \in Nat /\ c["read"] \in Int /\ c["write"] \in Int
    BY <1>1, <1>3 DEF Directions
  <2>2. GetPendingNum(f) = c["read"] + c["write"] - e.inflight
    BY DEF GetPendingNum
  <2>3. PICK a, b, u, v : /\ a = c["read"] /\ b = c["write"]
                          /\ u = e.count["read"] /\ v = e.count["write"]
    OBVIOUS
  <2>4. PICK k, l, m : k = Len(e.queue) /\ l = Len(t) /\ m = e.inflight
    OBVIOUS
  <2>5. /\ a \in Int /\ b \in Int /\ u \in Int /\ v \in Int /\ k \in Int
        /\ m \in Int /\ u + v - m = k /\ a + b = u + v + n /\ l = k + n
    BY <1>1, <1>5, <2>1, <2>3, <2>4
  <2>6. a + b - m = l
    BY <2>5
  <2>7. QED
    BY <2>2, <2>3, <2>4, <2>6
<1>7. QED
  BY <1>4, <1>6 DEF SoundElevator

(* The same, if as many requests wait as before.                           *)
LEMMA ElevatorGrows ==
  ASSUME NEW e, SoundElevator(e), NEW t, SoundQueue(t),
         NEW x \in PartSet \cup {None},
         x # None => \E r \in Elements(t) : r.id = x,
         Len(t) = Len(e.queue),
         NEW f, f = [queue |-> t, last |-> x, count |-> e.count,
                     inflight |-> e.inflight]
  PROVE  SoundElevator(f)
<1>1. /\ e.queue \in Seq(GoodRequests)
      /\ e.count \in [Directions -> Int] /\ e.inflight \in Int
      /\ e.count["read"] + e.count["write"] - e.inflight = Len(e.queue)
  BY ElevatorOK
<1>2. f \in Elevators
  BY <1>1 DEF Elevators, SoundQueue
<1>3. GetPendingNum(f) = Len(t)
  BY <1>1 DEF GetPendingNum
<1>4. QED
  BY <1>2, <1>3 DEF SoundElevator

IsElevator(e) ==
  e = [queue |-> e.queue, last |-> e.last, count |-> e.count,
       inflight |-> e.inflight]

LEMMA FieldChanges ==
  ASSUME NEW e, IsElevator(e), NEW x
  PROVE  /\ [e EXCEPT !.queue = x] =
              [queue |-> x, last |-> e.last, count |-> e.count,
               inflight |-> e.inflight]
         /\ [e EXCEPT !.last = x] =
              [queue |-> e.queue, last |-> x, count |-> e.count,
               inflight |-> e.inflight]
         /\ [e EXCEPT !.count = x] =
              [queue |-> e.queue, last |-> e.last, count |-> x,
               inflight |-> e.inflight]
         /\ [e EXCEPT !.inflight = x] =
              [queue |-> e.queue, last |-> e.last, count |-> e.count,
               inflight |-> x]
<1>1. PICK a, b, c, d : e = [queue |-> a, last |-> b, count |-> c,
                             inflight |-> d]
  BY DEF IsElevator
<1>2. [e EXCEPT !.queue = x] =
        [queue |-> x, last |-> b, count |-> c, inflight |-> d]
  BY <1>1
<1>3. [e EXCEPT !.last = x] =
        [queue |-> a, last |-> x, count |-> c, inflight |-> d]
  BY <1>1
<1>4. [e EXCEPT !.count = x] =
        [queue |-> a, last |-> b, count |-> x, inflight |-> d]
  BY <1>1
<1>5. [e EXCEPT !.inflight = x] =
        [queue |-> a, last |-> b, count |-> c, inflight |-> x]
  BY <1>1
<1>6. e.queue = a /\ e.last = b /\ e.count = c /\ e.inflight = d
  BY <1>1
<1>7. QED
  BY <1>2, <1>3, <1>4, <1>5, <1>6

LEMMA FieldsChange ==
  ASSUME NEW e, IsElevator(e), NEW c, NEW t, NEW x
  PROVE  [e EXCEPT !.count = c, !.queue = t, !.last = x] =
           [queue |-> t, last |-> x, count |-> c, inflight |-> e.inflight]
<1>1. PICK f : f = [e EXCEPT !.count = c]
  OBVIOUS
<1>2. /\ IsElevator(f) /\ f.queue = e.queue /\ f.last = e.last
      /\ f.count = c /\ f.inflight = e.inflight
  BY <1>1, FieldChanges DEF IsElevator
<1>3. PICK g : g = [f EXCEPT !.queue = t]
  OBVIOUS
<1>4. /\ IsElevator(g) /\ g.queue = t /\ g.last = e.last
      /\ g.count = c /\ g.inflight = e.inflight
  BY <1>2, <1>3, FieldChanges DEF IsElevator
<1>5. [g EXCEPT !.last = x] =
        [queue |-> t, last |-> x, count |-> c, inflight |-> e.inflight]
  <2>1. [g EXCEPT !.last = x] =
          [queue |-> g.queue, last |-> x, count |-> g.count,
           inflight |-> g.inflight]
    BY <1>4, FieldChanges, ZenonT(60)
  <2>2. QED
    BY <1>4, <2>1
<1>6. [e EXCEPT !.count = c, !.queue = t, !.last = x] = [g EXCEPT !.last = x]
  BY <1>1, <1>3, Zenon
<1>7. QED
  BY <1>5, <1>6

(* AttemptMerge                                                            *)
LEMMA JoinedOK ==
  ASSUME NEW e, SoundElevator(e), NEW i \in DOMAIN e.queue,
         NEW j \in DOMAIN e.queue, i # j, Touching(e.queue[i], e.queue[j])
  PROVE  LET f == Joined(e, i, j)
         IN  /\ SoundElevator(f) /\ PartsIn(f.queue) = PartsIn(e.queue)
             /\ f.inflight = e.inflight
<1>1. /\ e.queue \in Seq(GoodRequests) /\ SoundQueue(e.queue)
      /\ e = [queue |-> e.queue, last |-> e.last, count |-> e.count,
              inflight |-> e.inflight]
      /\ e.count \in [Directions -> Int]
  BY ElevatorOK
<1>2. e.queue[i] \in GoodRequests /\ e.queue[j] \in GoodRequests
  BY <1>1
<1>3. PICK t : t = MergeRequests(e.queue, i, j)
  OBVIOUS
<1>4. /\ SoundQueue(t) /\ Len(t) = Len(e.queue) - 1
      /\ PartsIn(t) = PartsIn(e.queue)
      /\ \E r \in Elements(t) : r.id = e.queue[i].id
  BY <1>1, <1>3, MergeRequestsOK
<1>5. PICK x, d : x = e.queue[i].id /\ d = e.queue[j].cmd
  OBVIOUS
<1>6. x \in PartSet \cup {None} /\ d \in Directions
  BY <1>2, <1>5, GoodRequestOK
<1>7. PICK c : c = [e.count EXCEPT ![d] = @ + (-1)]
  OBVIOUS
<1>8. PICK f : f = [queue |-> t, last |-> x, count |-> c,
                    inflight |-> e.inflight]
  OBVIOUS
<1>9. Joined(e, i, j) = f
  <2>1. /\ MergeRequests(e.queue, i, j) = t /\ e.queue[i].id = x
        /\ [e.count EXCEPT ![e.queue[j].cmd] = @ - 1] = c
    BY <1>1, <1>3, <1>5, <1>6, <1>7
  <2>2. Joined(e, i, j) = [e EXCEPT !.count = c, !.queue = t, !.last = x]
    BY <2>1, Zenon DEF Joined
  <2>3. QED
    BY <1>1, <1>8, <2>2, FieldsChange DEF IsElevator
<1>10. SoundElevator(f)
  <2>1. Len(t) = Len(e.queue) + (-1) /\ -1 \in Int
    BY <1>1, <1>4
  <2>2. QED
    BY <1>4, <1>5, <1>6, <1>7, <1>8, <2>1, ElevatorChanges
<1>11. QED
  BY <1>4, <1>8, <1>9, <1>10

(* ll_back_merge_fn: a part goes into a request behind the others.         *)
LEMMA AtBackOK ==
  ASSUME NEW r \in GoodRequests, NEW q \in PartSet, EndOf(r) = q.off,
         Fits(r, q), q \notin Elements(r.batch), NEW t, t = AtBack(r, q)
  PROVE  /\ t \in GoodRequests /\ t.id = r.id
         /\ Elements(t.batch) = Elements(r.batch) \cup {q}
<1>1. PICK s : s = NewRequest(q)
  OBVIOUS
<1>2. /\ s \in GoodRequests /\ Elements(s.batch) = {q} /\ s.off = q.off
      /\ s.count = q.count /\ s.batch = <<q>>
  BY <1>1, NewRequestOK
<1>3. /\ r.id \in PartSet /\ r.cmd \in Directions /\ r.batch \in Seq(PartSet)
      /\ r = [id |-> r.id, cmd |-> r.cmd, off |-> r.off, count |-> r.count,
              batch |-> r.batch]
  BY GoodRequestOK
<1>4. Append(r.batch, q) = r.batch \o <<q>>
  BY <1>3, AppendIsConcat
<1>5. /\ t.id = r.id /\ t.cmd = r.cmd /\ t.off = r.off
      /\ t.count = r.count + s.count /\ t.batch = r.batch \o s.batch
      /\ t = [id |-> t.id, cmd |-> t.cmd, off |-> t.off, count |-> t.count,
              batch |-> t.batch]
  BY <1>2, <1>3, <1>4 DEF AtBack
<1>6. EndOf(r) = s.off /\ r.count + s.count <= MaxReqSize
  BY <1>2 DEF Fits
<1>7. Elements(r.batch) \cap Elements(s.batch) = {}
  BY <1>2
<1>8. /\ t \in GoodRequests
      /\ Elements(t.batch) = Elements(r.batch) \cup Elements(s.batch)
  BY <1>2, <1>3, <1>5, <1>6, <1>7, RequestsJoin, ZenonT(60)
<1>9. QED
  BY <1>2, <1>5, <1>8

(* ll_front_merge_fn: a part goes into a request before the others.        *)
LEMMA AtFrontOK ==
  ASSUME NEW r \in GoodRequests, NEW q \in PartSet, r.off = EndOf(q),
         Fits(r, q), q \notin Elements(r.batch), NEW t, t = AtFront(r, q)
  PROVE  /\ t \in GoodRequests /\ t.id = r.id /\ t.off = q.off
         /\ Elements(t.batch) = Elements(r.batch) \cup {q}
<1>1. PICK s : s = NewRequest(q)
  OBVIOUS
<1>2. /\ s \in GoodRequests /\ Elements(s.batch) = {q} /\ s.off = q.off
      /\ s.count = q.count /\ s.batch = <<q>> /\ EndOf(s) = EndOf(q)
  BY <1>1, NewRequestOK DEF EndOf
<1>3. /\ r.id \in PartSet /\ r.cmd \in Directions
      /\ r.count \in Nat /\ s.count \in Nat
      /\ r = [id |-> r.id, cmd |-> r.cmd, off |-> r.off, count |-> r.count,
              batch |-> r.batch]
  BY <1>2, GoodRequestOK
<1>4. /\ t.id = r.id /\ t.cmd = r.cmd /\ t.off = s.off
      /\ t.count = s.count + r.count /\ t.batch = s.batch \o r.batch
      /\ t = [id |-> t.id, cmd |-> t.cmd, off |-> t.off, count |-> t.count,
              batch |-> t.batch]
  <2>1. /\ t.id = r.id /\ t.cmd = r.cmd /\ t.off = q.off
        /\ t.count = r.count + q.count /\ t.batch = <<q>> \o r.batch
        /\ t = [id |-> t.id, cmd |-> t.cmd, off |-> t.off, count |-> t.count,
                batch |-> t.batch]
    BY <1>3 DEF AtFront
  <2>2. t.count = s.count + r.count
    BY <1>2, <1>3, <2>1
  <2>3. QED
    BY <1>2, <2>1, <2>2
<1>5. EndOf(s) = r.off /\ s.count + r.count <= MaxReqSize
  BY <1>2, <1>3 DEF Fits
<1>6. Elements(s.batch) \cap Elements(r.batch) = {}
  BY <1>2
<1>7. /\ t \in GoodRequests
      /\ Elements(t.batch) = Elements(s.batch) \cup Elements(r.batch)
  BY <1>2, <1>3, <1>4, <1>5, <1>6, RequestsJoin, ZenonT(60)
<1>8. QED
  BY <1>2, <1>4, <1>7

\* What Enqueue makes of an elevator.
Taken(e, q, f) ==
  /\ SoundElevator(f) /\ PartsIn(f.queue) = PartsIn(e.queue) \cup {q}
  /\ f.inflight = e.inflight

(* A request of the queue has taken in a part.                             *)
Grown(e, i, r) == [e EXCEPT !.queue = [e.queue EXCEPT ![i] = r]]
TakesIn(r, s, q) ==
  r.id = s.id /\ Elements(r.batch) = Elements(s.batch) \cup {q}

LEMMA GrownOK ==
  ASSUME NEW e, SoundElevator(e), NEW i \in DOMAIN e.queue,
         NEW q \in PartSet, q \notin PartsIn(e.queue), NEW r \in GoodRequests,
         TakesIn(r, e.queue[i], q), NEW f, f = Grown(e, i, r)
  PROVE  /\ Taken(e, q, f) /\ f.count = e.count /\ f.last = e.last
         /\ DOMAIN f.queue = DOMAIN e.queue /\ f.queue[i] = r
         /\ SoundQueue(f.queue) /\ Len(f.queue) = Len(e.queue)
         /\ r \in Elements(f.queue)
<1> DEFINE t == [e.queue EXCEPT ![i] = r]
<1>0. /\ f = [e EXCEPT !.queue = t] /\ r.id = e.queue[i].id
      /\ Elements(r.batch) = Elements(e.queue[i].batch) \cup {q}
  BY DEF Grown, TakesIn
<1> HIDE DEF t
<1>1. /\ SoundQueue(e.queue) /\ e.last \in PartSet \cup {None}
      /\ IsElevator(e)
  BY ElevatorOK DEF IsElevator
<1>2. /\ Elements(e.queue[i].batch) \subseteq PartsIn(e.queue)
      /\ e.queue[i] \in Elements(e.queue)
  BY <1>1, QueueOK DEF PartsIn, PartsOf
<1>3. Elements(r.batch) \cap
        (PartsIn(e.queue) \ Elements(e.queue[i].batch)) = {}
  BY <1>0
<1>4. /\ SoundQueue(t) /\ Len(t) = Len(e.queue) /\ DOMAIN t = DOMAIN e.queue
      /\ t[i] = r /\ Elements(t) = (Elements(e.queue) \ {e.queue[i]}) \cup {r}
      /\ PartsIn(t) = (PartsIn(e.queue) \ Elements(e.queue[i].batch))
                        \cup Elements(r.batch)
  BY <1>1, <1>3, ChangeRequestOK DEF t
<1>5. PartsIn(t) = PartsIn(e.queue) \cup {q}
  BY <1>0, <1>2, <1>4
<1>6. f = [queue |-> t, last |-> e.last, count |-> e.count,
           inflight |-> e.inflight]
  BY <1>0, <1>1, FieldChanges
<1>7. e.last # None => \E s \in Elements(t) : s.id = e.last
  <2>1. ASSUME e.last # None
        PROVE  \E s \in Elements(t) : s.id = e.last
    <3>1. PICK s \in Elements(e.queue) : s.id = e.last
      BY <2>1 DEF SoundElevator
    <3>2. CASE s = e.queue[i]
      BY <1>0, <1>4, <3>1, <3>2
    <3>3. CASE s # e.queue[i]
      BY <1>4, <3>1, <3>3
    <3>4. QED
      BY <3>2, <3>3
  <2>2. QED
    BY <2>1
<1>8. SoundElevator(f)
  BY <1>1, <1>4, <1>6, <1>7, ElevatorGrows
<1>9. /\ f.queue = t /\ f.inflight = e.inflight
      /\ f.count = e.count /\ f.last = e.last
  BY <1>6
<1>10. QED
  BY <1>4, <1>5, <1>8, <1>9 DEF Taken

(* Where Elevator::ElvMerge may put a part.                                *)
LEMMA MergePlaces ==
  ASSUME NEW e, NEW q
  PROVE  /\ \A i \in BackMerge(e, q) :
              i \in DOMAIN e.queue /\ EndOf(e.queue[i]) = q.off
         /\ \A i \in FrontMerge(e, q) :
              i \in DOMAIN e.queue /\ e.queue[i].off = EndOf(q)
<1>1. \A i \in EndingAt(e, q.off) :
        i \in DOMAIN e.queue /\ EndOf(e.queue[i]) = q.off
  BY DEF EndingAt, Positions
<1>2. BackMerge(e, q) \subseteq EndingAt(e, q.off)
  BY DEF BackMerge, HintBack, HashBack
<1>3. \A i \in HintFront(e, q) :
        i \in DOMAIN e.queue /\ e.queue[i].off = EndOf(q)
  BY DEF HintFront, Positions
<1>4. FrontMerge(e, q) \subseteq HintFront(e, q)
  BY DEF FrontMerge
<1>5. QED
  BY <1>1, <1>2, <1>3, <1>4

(* Enqueue: a request of its own.                                          *)
LEMMA AddNewOK ==
  ASSUME NEW e, SoundElevator(e), NEW q \in PartSet, q \notin PartsIn(e.queue),
         NEW sched
  PROVE  Taken(e, q, AddNew(sched, e, q))
<1>1. /\ SoundQueue(e.queue) /\ e.last \in PartSet \cup {None}
      /\ IsElevator(e) /\ e.queue \in Seq(GoodRequests)
  BY ElevatorOK DEF IsElevator
<1>2. PICK r : r = NewRequest(q)
  OBVIOUS
<1>3. r \in GoodRequests /\ Elements(r.batch) = {q} /\ r.id = q
  BY <1>2, NewRequestOK
<1>4. PICK t : t = Placed(sched, e.queue, r)
  OBVIOUS
<1>5. /\ SoundQueue(t) /\ Len(t) = Len(e.queue) + 1
      /\ Elements(t) = Elements(e.queue) \cup {r}
      /\ PartsIn(t) = PartsIn(e.queue) \cup {q}
  <2>1. Elements(r.batch) \cap PartsIn(e.queue) = {}
    BY <1>3
  <2>2. QED
    BY <1>1, <1>3, <1>4, <2>1, PlacedOK
<1>6. PICK d : d = q.cmd
  OBVIOUS
<1>7. d \in Directions
  BY <1>6 DEF PartSet
<1>8. PICK c : c = [e.count EXCEPT ![d] = @ + 1]
  OBVIOUS
<1>9. PICK x \in {r.id, e.last} :
        AddNew(sched, e, q) =
          [e EXCEPT !.count = c, !.queue = t, !.last = x]
  <2>1. PICK B : B = \E i \in BackMerge(e, q) \cup FrontMerge(e, q) :
                       e.queue[i].id = e.last
    OBVIOUS
  <2>2. PICK x : x = IF B \/ e.last = None THEN r.id ELSE e.last
    OBVIOUS
  <2>3. AddNew(sched, e, q) = [e EXCEPT !.count = c, !.queue = t, !.last = x]
    BY <1>2, <1>4, <1>6, <1>8, <2>1, <2>2, Zenon DEF AddNew
  <2>4. QED
    BY <2>2, <2>3
<1>10. /\ x \in PartSet \cup {None}
       /\ x # None => \E s \in Elements(t) : s.id = x
  BY <1>1, <1>3, <1>5 DEF SoundElevator
<1>11. PICK f : f = [queue |-> t, last |-> x, count |-> c,
                     inflight |-> e.inflight]
  OBVIOUS
<1>12. SoundElevator(f)
  BY <1>5, <1>7, <1>8, <1>10, <1>11, ElevatorChanges, 1 \in Int
<1>13. AddNew(sched, e, q) = f
  BY <1>1, <1>9, <1>11, FieldsChange, ZenonT(60)
<1>14. QED
  BY <1>5, <1>11, <1>12, <1>13 DEF Taken

(* Enqueue: behind the others of a request, which may now touch the next.  *)
LEMMA MergeBackOK ==
  ASSUME NEW e, SoundElevator(e), NEW q \in PartSet, q \notin PartsIn(e.queue),
         NEW i \in DOMAIN e.queue, EndOf(e.queue[i]) = q.off,
         Fits(e.queue[i], q), NEW f \in MergeBack(e, i, q)
  PROVE  Taken(e, q, f)
<1>1. SoundQueue(e.queue) /\ IsElevator(e)
  BY ElevatorOK DEF IsElevator
<1>2. /\ e.queue[i] \in GoodRequests
      /\ Elements(e.queue[i].batch) \subseteq PartsIn(e.queue)
  BY <1>1, QueueOK DEF PartsIn, PartsOf
<1>3. PICK r : r = AtBack(e.queue[i], q)
  OBVIOUS
<1>4. /\ r \in GoodRequests /\ r.id = e.queue[i].id
      /\ Elements(r.batch) = Elements(e.queue[i].batch) \cup {q}
  BY <1>2, <1>3, AtBackOK
<1>5. PICK g : g = Grown(e, i, r)
  OBVIOUS
<1>6. PICK t : t = g.queue
  OBVIOUS
<1>7. /\ SoundElevator(g) /\ PartsIn(g.queue) = PartsIn(e.queue) \cup {q}
      /\ g.inflight = e.inflight /\ g.queue = t /\ t[i] = r
      /\ DOMAIN t = DOMAIN e.queue /\ SoundQueue(t) /\ r \in Elements(t)
  <2>1. r \in GoodRequests /\ TakesIn(r, e.queue[i], q)
    BY <1>4 DEF TakesIn
  <2>2. /\ Taken(e, q, g) /\ DOMAIN g.queue = DOMAIN e.queue /\ g.queue[i] = r
        /\ SoundQueue(g.queue) /\ r \in Elements(g.queue)
    BY <1>5, <2>1, GrownOK
  <2>3. QED
    BY <1>6, <2>2 DEF Taken
<1>8. [e EXCEPT !.queue[i] = AtBack(@, q)] = g
  BY <1>3, <1>5, Zenon DEF Grown
<1>9. f \in IF BackNeighbour(g.queue, i) # {}
            THEN {Joined(g, i, j) : j \in BackNeighbour(g.queue, i)}
            ELSE {[g EXCEPT !.last = e.queue[i].id]}
  BY <1>8 DEF MergeBack
<1>10. CASE BackNeighbour(g.queue, i) # {}
  <2>1. PICK j \in BackNeighbour(g.queue, i) : f = Joined(g, i, j)
    BY <1>9, <1>10
  <2>2. j \in DOMAIN g.queue /\ j = i + 1 /\ Touching(g.queue[i], g.queue[j])
    BY <2>1 DEF BackNeighbour, LatterRequest
  <2>3. i \in DOMAIN g.queue /\ i # j
    BY <1>1, <1>7, <2>2, QueueOK
  <2>4. QED
    BY <1>7, <2>1, <2>2, <2>3, JoinedOK DEF Taken
<1>11. CASE BackNeighbour(g.queue, i) = {}
  <2>1. f = [g EXCEPT !.last = r.id]
    BY <1>4, <1>9, <1>11
  <2>2. IsElevator(g)
    BY <1>7, ElevatorOK DEF IsElevator
  <2>3. f = [queue |-> t, last |-> r.id, count |-> g.count,
             inflight |-> g.inflight]
    <3>1. f = [queue |-> g.queue, last |-> r.id, count |-> g.count,
               inflight |-> g.inflight]
      BY <2>1, <2>2, FieldChanges
    <3>2. QED
      BY <1>7, <3>1
  <2>4. PICK x : x = r.id
    OBVIOUS
  <2>5. x \in PartSet \cup {None} /\ \E s \in Elements(t) : s.id = x
    BY <1>4, <1>7, <2>4, GoodRequestOK
  <2>6. SoundElevator(f)
    BY <1>7, <2>3, <2>4, <2>5, ElevatorGrows
  <2>7. QED
    BY <1>7, <2>3, <2>6 DEF Taken
<1>12. QED
  BY <1>10, <1>11

(* Enqueue: before the others of a request, which may now touch the one    *)
(* before it and otherwise gets another place.                             *)
LEMMA MergeFrontOK ==
  ASSUME NEW e, SoundElevator(e), NEW q \in PartSet, q \notin PartsIn(e.queue),
         NEW i \in DOMAIN e.queue, e.queue[i].off = EndOf(q),
         Fits(e.queue[i], q), NEW sched, NEW f \in MergeFront(sched, e, i, q)
  PROVE  Taken(e, q, f)
<1>1. SoundQueue(e.queue) /\ IsElevator(e)
  BY ElevatorOK DEF IsElevator
<1>2. /\ e.queue[i] \in GoodRequests
      /\ Elements(e.queue[i].batch) \subseteq PartsIn(e.queue)
  BY <1>1, QueueOK DEF PartsIn, PartsOf
<1>3. PICK r : r = AtFront(e.queue[i], q)
  OBVIOUS
<1>4. /\ r \in GoodRequests /\ r.id = e.queue[i].id
      /\ Elements(r.batch) = Elements(e.queue[i].batch) \cup {q}
  BY <1>2, <1>3, AtFrontOK
<1>5. PICK g : g = Grown(e, i, r)
  OBVIOUS
<1>6. /\ Taken(e, q, g) /\ DOMAIN g.queue = DOMAIN e.queue /\ g.queue[i] = r
      /\ SoundQueue(g.queue) /\ r \in Elements(g.queue)
  <2>1. r \in GoodRequests /\ TakesIn(r, e.queue[i], q)
    BY <1>4 DEF TakesIn
  <2>2. QED
    BY <1>5, <2>1, GrownOK
<1>7. SoundElevator(g) /\ IsElevator(g)
  BY <1>6, ElevatorOK DEF Taken, IsElevator
<1>8. [e EXCEPT !.queue[i] = r] = g
  BY <1>5, Zenon DEF Grown
<1>9. PICK u : u = IF sched = "noop" THEN g.queue
                   ELSE Placed(sched, RemoveRequest(g.queue, i), r)
  OBVIOUS
<1>10. f \in IF FrontNeighbour(g.queue, i) # {}
             THEN {Joined(g, j, i) : j \in FrontNeighbour(g.queue, i)}
             ELSE {[g EXCEPT !.last = r.id, !.queue = u]}
  <2>1. MergeFront(sched, e, i, q) =
          IF FrontNeighbour(g.queue, i) # {}
          THEN {Joined(g, j, i) : j \in FrontNeighbour(g.queue, i)}
          ELSE {[g EXCEPT !.last  = r.id,
                          !.queue = IF sched = "noop" THEN @
                                    ELSE Placed(sched, RemoveRequest(@, i), r)]}
    BY <1>3, <1>8, Zenon DEF MergeFront
  <2>2. [g EXCEPT !.last  = r.id,
                  !.queue = IF sched = "noop" THEN @
                            ELSE Placed(sched, RemoveRequest(@, i), r)]
          = [g EXCEPT !.last = r.id, !.queue = u]
    <3>1. PICK h : h = [g EXCEPT !.last = r.id]
      OBVIOUS
    <3>2. h.queue = g.queue
      <4>1. h = [queue |-> g.queue, last |-> r.id, count |-> g.count,
                 inflight |-> g.inflight]
        BY <1>7, <3>1, FieldChanges
      <4>2. QED
        BY <4>1
    <3>3. QED
      BY <1>9, <3>1, <3>2, Zenon
  <2>3. QED
    BY <2>1, <2>2
<1>11. CASE FrontNeighbour(g.queue, i) # {}
  <2>1. PICK j \in FrontNeighbour(g.queue, i) : f = Joined(g, j, i)
    BY <1>10, <1>11
  <2>2. j \in DOMAIN g.queue /\ j = i - 1 /\ Touching(g.queue[j], g.queue[i])
    BY <2>1 DEF FrontNeighbour, FormerRequest
  <2>3. i \in DOMAIN g.queue /\ i # j
    BY <1>1, <1>6, <2>2, QueueOK
  <2>4. QED
    BY <1>6, <1>7, <2>1, <2>2, <2>3, JoinedOK DEF Taken
<1>12. CASE FrontNeighbour(g.queue, i) = {}
  <2>1. f = [g EXCEPT !.last = r.id, !.queue = u]
    BY <1>10, <1>12
  <2>2. /\ SoundQueue(u) /\ Len(u) = Len(g.queue) /\ r \in Elements(u)
        /\ PartsIn(u) = PartsIn(g.queue)
    <3>1. CASE sched = "noop"
      BY <1>6, <1>9, <3>1
    <3>2. CASE sched # "noop"
      <4>1. PICK v : v = RemoveRequest(g.queue, i)
        OBVIOUS
      <4>2. /\ SoundQueue(v) /\ Len(v) = Len(g.queue) - 1
            /\ PartsIn(v) = PartsIn(g.queue) \ Elements(r.batch)
            /\ Elements(r.batch) \subseteq PartsIn(g.queue)
        BY <1>6, <4>1, RemoveRequestOK
      <4>3. u = Placed(sched, v, r)
        BY <1>9, <3>2, <4>1
      <4>4. Elements(r.batch) \cap PartsIn(v) = {}
        BY <4>2
      <4>5. /\ SoundQueue(u) /\ Len(u) = Len(v) + 1
            /\ Elements(u) = Elements(v) \cup {r}
            /\ PartsIn(u) = PartsIn(v) \cup Elements(r.batch)
        BY <1>4, <4>2, <4>3, <4>4, PlacedOK
      <4>6. Len(g.queue) \in Nat
        BY <1>6, QueueOK
      <4>7. QED
        BY <4>2, <4>5, <4>6
    <3>3. QED
      BY <3>1, <3>2
  <2>3. f = [queue |-> u, last |-> r.id, count |-> g.count,
             inflight |-> g.inflight]
    <3>1. PICK h : h = [g EXCEPT !.last = r.id]
      OBVIOUS
    <3>2. h = [queue |-> g.queue, last |-> r.id, count |-> g.count,
               inflight |-> g.inflight]
      BY <1>7, <3>1, FieldChanges
    <3>3. /\ IsElevator(h) /\ h.last = r.id /\ h.count = g.count
          /\ h.inflight = g.inflight
      BY <3>2 DEF IsElevator
    <3>4. f = [h EXCEPT !.queue = u]
      BY <2>1, <3>1, Zenon
    <3>5. f = [queue |-> u, last |-> h.last, count |-> h.count,
               inflight |-> h.inflight]
      BY <3>3, <3>4, FieldChanges
    <3>6. QED
      BY <3>3, <3>5
  <2>4. PICK x : x = r.id
    OBVIOUS
  <2>5. x \in PartSet \cup {None} /\ \E s \in Elements(u) : s.id = x
    BY <1>4, <2>2, <2>4, GoodRequestOK
  <2>6. SoundElevator(f)
    BY <1>7, <2>2, <2>3, <2>4, <2>5, ElevatorGrows
  <2>7. QED
    BY <1>6, <2>2, <2>3, <2>6 DEF Taken
<1>13. QED
  BY <1>11, <1>12

(* Elevator::Enqueue: the new part is in the queue, and so is every other. *)
LEMMA EnqueuedOK ==
  ASSUME NEW e, SoundElevator(e), NEW q \in PartSet, q \notin PartsIn(e.queue),
         NEW sched, NEW f \in Enqueued(sched, e, q)
  PROVE  Taken(e, q, f)
<1>1. CASE ~Mergeable(e, q)
  <2>1. f = AddNew(sched, e, q)
    BY <1>1 DEF Enqueued
  <2>2. QED
    BY <2>1, AddNewOK
<1>2. CASE Mergeable(e, q)
  <2>1. \/ \E i \in Fitting(e, q, BackMerge(e, q)) : f \in MergeBack(e, i, q)
        \/ \E i \in Fitting(e, q, FrontMerge(e, q)) :
             f \in MergeFront(sched, e, i, q)
    BY <1>2 DEF Enqueued
  <2>2. ASSUME NEW i \in Fitting(e, q, BackMerge(e, q)),
               f \in MergeBack(e, i, q)
        PROVE  Taken(e, q, f)
    <3>1. /\ i \in DOMAIN e.queue /\ EndOf(e.queue[i]) = q.off
          /\ Fits(e.queue[i], q)
      BY MergePlaces DEF Fitting
    <3>2. QED
      BY <2>2, <3>1, MergeBackOK
  <2>3. ASSUME NEW i \in Fitting(e, q, FrontMerge(e, q)),
               f \in MergeFront(sched, e, i, q)
        PROVE  Taken(e, q, f)
    <3>1. /\ i \in DOMAIN e.queue /\ e.queue[i].off = EndOf(q)
          /\ Fits(e.queue[i], q)
      BY MergePlaces DEF Fitting
    <3>2. QED
      BY <2>3, <3>1, MergeFrontOK
  <2>4. QED
    BY <2>1, <2>2, <2>3
<1>3. QED
  BY <1>1, <1>2

(* The tree of the elevator never finds another request in the place of    *)
(* one that it adds, if no two parts begin at the same block.              *)
LEMMA NoAlias ==
  ASSUME NEW e, SoundElevator(e), NEW q \in PartSet, NEW sched,
         \A p \in PartsIn(e.queue) : p.off # q.off
  PROVE  ~EnqueueAborts(sched, e, q)
<1>1. \A i \in DOMAIN e.queue : e.queue[i].off # q.off
  <2>1. SUFFICES ASSUME NEW i \in DOMAIN e.queue
                 PROVE  e.queue[i].off # q.off
    OBVIOUS
  <2>2. SoundQueue(e.queue)
    BY ElevatorOK
  <2>3. e.queue[i] \in GoodRequests /\ e.queue[i] \in Elements(e.queue)
    BY <2>2, QueueOK
  <2>4. /\ e.queue[i].batch[1] \in Elements(e.queue[i].batch)
        /\ e.queue[i].off = e.queue[i].batch[1].off
    BY <2>3, GoodRequestOK
  <2>5. QED
    BY <2>3, <2>4 DEF PartsIn, PartsOf
<1>2. ASSUME NEW r, r.off = q.off
      PROVE  ~Alias(sched, e.queue, r)
  BY <1>1, <1>2 DEF Alias, InPlaceOf
<1>3. NewRequest(q).off = q.off
  BY DEF NewRequest
<1>4. ASSUME NEW i \in Fitting(e, q, FrontMerge(e, q))
      PROVE  AtFront(e.queue[i], q).off = q.off
  <2>1. i \in DOMAIN e.queue
    BY MergePlaces DEF Fitting
  <2>2. e.queue[i] \in GoodRequests
    BY <2>1, ElevatorOK, QueueOK
  <2>3. PICK r : r = e.queue[i]
    OBVIOUS
  <2>4. r = [id |-> r.id, cmd |-> r.cmd, off |-> r.off, count |-> r.count,
             batch |-> r.batch]
    BY <2>2, <2>3, GoodRequestOK
  <2>5. AtFront(r, q).off = q.off
    BY <2>4 DEF AtFront
  <2>6. QED
    BY <2>3, <2>5
<1>5. QED
  BY <1>2, <1>3, <1>4 DEF EnqueueAborts

(* Elevator::Dequeue: the first request goes to the disk.                  *)
LEMMA DequeueOK ==
  ASSUME NEW e, SoundElevator(e), e.queue # <<>>, NEW sched,
         NEW f, f = Dequeue(sched, e)
  PROVE  /\ SoundElevator(f) /\ Len(f.queue) = Len(e.queue) - 1
         /\ f.inflight = e.inflight + 1 /\ f.count = e.count
<1>1. /\ SoundQueue(e.queue) /\ IsElevator(e) /\ e.queue \in Seq(GoodRequests)
      /\ e.last \in PartSet \cup {None} /\ e.inflight \in Int
      /\ e.count \in [Directions -> Int]
      /\ e.count["read"] + e.count["write"] - e.inflight = Len(e.queue)
      /\ e.count["read"] \in Int /\ e.count["write"] \in Int
  BY ElevatorOK DEF IsElevator
<1>2. 1 \in DOMAIN e.queue /\ Head(e.queue) = e.queue[1] /\ Len(e.queue) \in Nat
  BY <1>1, EmptySeq
<1>3. PICK t : t = RemoveRequest(e.queue, 1)
  OBVIOUS
<1>4. /\ SoundQueue(t) /\ Len(t) = Len(e.queue) - 1
      /\ Elements(t) = Elements(e.queue) \ {e.queue[1]}
  BY <1>1, <1>2, <1>3, RemoveRequestOK
<1>5. PICK x : x = IF sched = "noop" \/ e.last = Head(e.queue).id THEN None
                   ELSE e.last
  OBVIOUS
<1>6. PICK g : g = [e EXCEPT !.last = x]
  OBVIOUS
<1>7. g = [queue |-> e.queue, last |-> x, count |-> e.count,
           inflight |-> e.inflight]
  BY <1>1, <1>6, FieldChanges
<1>8. PICK h : h = [g EXCEPT !.queue = t]
  OBVIOUS
<1>9. h = [queue |-> t, last |-> x, count |-> e.count, inflight |-> e.inflight]
  <2>1. h = [queue |-> t, last |-> g.last, count |-> g.count,
             inflight |-> g.inflight]
    BY <1>7, <1>8, FieldChanges DEF IsElevator
  <2>2. QED
    BY <1>7, <2>1
<1>10. (IF sched = "noop" THEN NoopDispatch(e) ELSE MoveRequest(e)) = h
  <2>1. CASE sched = "noop"
    <3>1. DispatchSort(e) = g
      BY <1>5, <1>6, <2>1 DEF DispatchSort
    <3>2. g.queue = e.queue
      BY <1>7
    <3>3. NoopDispatch(e) = [g EXCEPT !.queue = RemoveRequest(g.queue, 1)]
      BY <3>1, Zenon DEF NoopDispatch
    <3>4. QED
      BY <1>3, <1>8, <2>1, <3>2, <3>3
  <2>2. CASE sched # "noop"
    <3>1. DispatchAddTail(e) = g
      BY <1>5, <1>6, <2>2, Zenon DEF DispatchAddTail
    <3>2. g.queue = e.queue
      BY <1>7
    <3>3. MoveRequest(e) = [g EXCEPT !.queue = RemoveRequest(g.queue, 1)]
      BY <3>1, Zenon DEF MoveRequest
    <3>4. QED
      BY <1>3, <1>8, <2>2, <3>2, <3>3
  <2>3. QED
    BY <2>1, <2>2
<1>11. f = [h EXCEPT !.inflight = h.inflight + 1]
  BY <1>10, Zenon DEF Dequeue
<1>12. PICK n : n = h.inflight + 1
  OBVIOUS
<1>13. f = [queue |-> t, last |-> x, count |-> e.count, inflight |-> n]
  <2>1. f = [queue |-> h.queue, last |-> h.last, count |-> h.count,
             inflight |-> n]
    BY <1>9, <1>11, <1>12, FieldChanges DEF IsElevator
  <2>2. QED
    BY <1>9, <2>1
<1>14. n = e.inflight + 1 /\ n \in Int
  BY <1>1, <1>9, <1>12
<1>15. f \in Elevators
  <2>1. t \in Seq(GoodRequests) /\ x \in PartSet \cup {None}
    BY <1>1, <1>4, <1>5 DEF SoundQueue
  <2>2. QED
    BY <1>1, <1>13, <1>14, <2>1 DEF Elevators
<1>16. x # None => \E r \in Elements(t) : r.id = x
  <2>1. ASSUME x # None
        PROVE  \E r \in Elements(t) : r.id = x
    <3>1. x = e.last /\ e.last # e.queue[1].id
      BY <1>2, <1>5, <2>1
    <3>2. PICK r \in Elements(e.queue) : r.id = e.last
      BY <2>1, <3>1 DEF SoundElevator
    <3>3. QED
      BY <1>4, <3>1, <3>2
  <2>2. QED
    BY <2>1
<1>17. GetPendingNum(f) = Len(t)
  <2>1. GetPendingNum(f) = e.count["read"] + e.count["write"] - n
    BY <1>13 DEF GetPendingNum
  <2>2. PICK a, b, c, l, k :
          /\ a = e.count["read"] /\ b = e.count["write"] /\ c = e.inflight
          /\ l = Len(e.queue) /\ k = Len(t)
    OBVIOUS
  <2>3. a \in Int /\ b \in Int /\ c \in Int /\ l \in Nat
        /\ a + b - c = l /\ k = l - 1 /\ n = c + 1
    BY <1>1, <1>2, <1>4, <1>14, <2>2
  <2>4. a + b - n = k
    BY <2>3
  <2>5. QED
    BY <2>1, <2>2, <2>4
<1>18. QED
  BY <1>4, <1>13, <1>14, <1>15, <1>16, <1>17 DEF SoundElevator

(* Disk::Request: the elevator is empty and counts what is on the disk.    *)
LEMMA DrainedOK ==
  ASSUME NEW e, SoundElevator(e), NEW sched, NEW f, f = Drained(sched, e)
  PROVE  /\ SoundElevator(f) /\ f.queue = <<>>
         /\ f.inflight = e.inflight + Len(e.queue)
<1> DEFINE n == Len(e.queue)
           D == {s \in Elevators : SoundElevator(s)}
           G == [k \in 0..n |-> {s \in D : /\ Len(s.queue) = n - k
                                           /\ s.inflight = e.inflight + k}]
           step == [k \in 1..n |-> [s \in D |->
                      IF s.queue = <<>> THEN s ELSE Dequeue(sched, s)]]
           left == CHOOSE left : left =
                     [k \in 0..n |-> IF k = 0 THEN e
                                     ELSE Dequeue(sched, left[k - 1])]
<1>1. /\ SoundQueue(e.queue) /\ e.inflight \in Int /\ n \in Nat
  BY ElevatorOK, QueueOK
<1>2. f = left[n]
  BY DEF Drained
<1> HIDE DEF n
<1>3. e \in G[0]
  <2>1. e \in D /\ 0 \in 0..n /\ Len(e.queue) = n - 0
        /\ e.inflight = e.inflight + 0
    BY <1>1 DEF SoundElevator, n
  <2>2. QED
    BY <2>1
<1>4. ASSUME NEW k \in 1..n, NEW s \in G[k - 1]
      PROVE  Dequeue(sched, s) \in G[k] /\ step[k][s] = Dequeue(sched, s)
  <2>1. k \in 0..n /\ k - 1 \in 0..n /\ k \in Nat
    BY <1>1
  <2>2. /\ s \in D /\ SoundElevator(s) /\ Len(s.queue) = n - (k - 1)
        /\ s.inflight = e.inflight + (k - 1)
    BY <2>1
  <2>3. s.queue # <<>>
    <3>1. Len(s.queue) # 0
      BY <1>1, <2>1, <2>2
    <3>2. QED
      BY <2>2, <3>1
  <2>4. PICK d : d = Dequeue(sched, s)
    OBVIOUS
  <2>5. /\ SoundElevator(d) /\ Len(d.queue) = Len(s.queue) - 1
        /\ d.inflight = s.inflight + 1
    BY <2>2, <2>3, <2>4, DequeueOK
  <2>6. /\ Len(d.queue) = n - k /\ d.inflight = e.inflight + k
    BY <1>1, <2>1, <2>2, <2>5
  <2>7. d \in D
    BY <2>5 DEF SoundElevator
  <2>8. d \in G[k]
    BY <2>1, <2>6, <2>7
  <2>9. QED
    BY <2>2, <2>3, <2>4, <2>8
<1>5. G \in [0..n -> SUBSET D] /\ step \in [1..n -> [D -> D]]
  <2>1. ASSUME NEW s \in D
        PROVE  (IF s.queue = <<>> THEN s ELSE Dequeue(sched, s)) \in D
    <3>1. CASE s.queue = <<>>
      BY <3>1
    <3>2. CASE s.queue # <<>>
      BY <3>2, DequeueOK DEF SoundElevator
    <3>3. QED
      BY <3>1, <3>2
  <2>2. QED
    BY <2>1
<1> HIDE DEF G, step, D
<1>6. PICK g \in [0..n -> D] :
        IsIteration(g, n, e, step) /\ \A k \in 0..n : g[k] \in G[k]
  <2>1. n \in Nat /\ \A k \in 1..n : \A s \in G[k - 1] : step[k][s] \in G[k]
    BY <1>1, <1>4
  <2>2. QED
    BY <1>3, <1>5, <2>1, IterationStays
<1>7. g = [k \in 0..n |-> IF k = 0 THEN e ELSE Dequeue(sched, g[k - 1])]
  <2>1. \A k \in 0..n : k # 0 => k \in 1..n /\ k - 1 \in 0..n
    BY <1>1
  <2>2. \A k \in 0..n : g[k] = IF k = 0 THEN e ELSE Dequeue(sched, g[k - 1])
    BY <1>4, <1>6, <2>1 DEF IsIteration
  <2>3. QED
    BY <2>2
<1>8. left = [k \in 0..n |-> IF k = 0 THEN e ELSE Dequeue(sched, left[k - 1])]
  BY <1>7
<1> HIDE DEF left
<1>9. left[n] \in G[n]
  <2> DEFINE S == {k \in 0..n : left[k] \in G[k]}
  <2>1. 0 \in S
    BY <1>1, <1>3, <1>8
  <2>2. ASSUME NEW k \in 1..n, k - 1 \in S
        PROVE  k \in S
    <3>1. k \in 0..n /\ k # 0 /\ k - 1 \in 0..n
      BY <1>1
    <3>2. left[k] = Dequeue(sched, left[k - 1])
      BY <1>8, <3>1
    <3>3. QED
      BY <1>4, <2>2, <3>1, <3>2
  <2> HIDE DEF S
  <2>3. 0..n \subseteq S
    BY <1>1, <2>1, <2>2, UpTo, SMTT(60)
  <2>4. QED
    BY <1>1, <2>3 DEF S
<1>10. /\ SoundElevator(left[n]) /\ Len(left[n].queue) = n - n
       /\ left[n].inflight = e.inflight + n
  BY <1>1, <1>9 DEF G, D
<1>11. left[n].queue \in Seq(GoodRequests)
  BY <1>10, ElevatorOK
<1>12. left[n].queue = <<>>
  BY <1>1, <1>10, <1>11, EmptySeq
<1>13. QED
  BY <1>2, <1>10, <1>12 DEF n

(* Elevator::PutRequest                                                    *)
LEMMA PutOK ==
  ASSUME NEW e, SoundElevator(e), NEW r \in GoodRequests, NEW f, f = Put(e, r)
  PROVE  /\ SoundElevator(f) /\ f.queue = e.queue /\ f.last = e.last
         /\ f.inflight = e.inflight - 1
<1>1. /\ SoundQueue(e.queue) /\ IsElevator(e) /\ e.queue \in Seq(GoodRequests)
      /\ e.last \in PartSet \cup {None} /\ e.inflight \in Int
      /\ e.count \in [Directions -> Int]
      /\ e.count["read"] + e.count["write"] - e.inflight = Len(e.queue)
      /\ e.count["read"] \in Int /\ e.count["write"] \in Int
  BY ElevatorOK DEF IsElevator
<1>2. PICK c, d : d = r.cmd /\ c = [e.count EXCEPT ![d] = @ - 1]
  OBVIOUS
<1>3. d \in Directions
  BY <1>2, GoodRequestOK
<1>4. PICK g : g = [e EXCEPT !.count = c]
  OBVIOUS
<1>5. g = [queue |-> e.queue, last |-> e.last, count |-> c,
           inflight |-> e.inflight]
  BY <1>1, <1>4, FieldChanges
<1>6. PICK n : n = e.inflight - 1
  OBVIOUS
<1>7. f = [g EXCEPT !.inflight = n]
  <2>1. g.inflight = e.inflight
    BY <1>5
  <2>2. f = [g EXCEPT !.inflight = g.inflight - 1]
    BY <1>2, <1>4, Zenon DEF Put
  <2>3. QED
    BY <1>6, <2>1, <2>2
<1>8. f = [queue |-> e.queue, last |-> e.last, count |-> c, inflight |-> n]
  <2>1. f = [queue |-> g.queue, last |-> g.last, count |-> g.count,
             inflight |-> n]
    BY <1>5, <1>7, FieldChanges DEF IsElevator
  <2>2. QED
    BY <1>5, <2>1
<1>9. c \in [Directions -> Int] /\ n \in Int
  BY <1>1, <1>2, <1>3, <1>6
<1>10. f \in Elevators
  BY <1>1, <1>8, <1>9 DEF Elevators
<1>11. c["read"] + c["write"] = e.count["read"] + e.count["write"] - 1
  <2>1. CASE d = "read"
    BY <1>1, <1>2, <2>1 DEF Directions
  <2>2. CASE d = "write"
    BY <1>1, <1>2, <2>2 DEF Directions
  <2>3. QED
    BY <1>3, <2>1, <2>2 DEF Directions
<1>12. GetPendingNum(f) = Len(e.queue)
  <2>1. GetPendingNum(f) = c["read"] + c["write"] - n
    BY <1>8 DEF GetPendingNum
  <2>2. c["read"] \in Int /\ c["write"] \in Int /\ Len(e.queue) \in Int
    BY <1>1, <1>9 DEF Directions
  <2>3. PICK a, b, i, l, x, y :
          /\ a = e.count["read"] /\ b = e.count["write"] /\ i = e.inflight
          /\ l = Len(e.queue) /\ x = c["read"] /\ y = c["write"]
    OBVIOUS
  <2>4. a \in Int /\ b \in Int /\ i \in Int /\ l \in Int /\ x \in Int /\ y \in Int
        /\ a + b - i = l /\ x + y = a + b - 1 /\ n = i - 1
    BY <1>1, <1>6, <1>11, <2>2, <2>3
  <2>5. x + y - n = l
    BY <2>4
  <2>6. QED
    BY <2>1, <2>3, <2>5
<1>13. QED
  BY <1>1, <1>6, <1>8, <1>10, <1>12 DEF SoundElevator

-----------------------------------------------------------------------------
(* The blocks of a file: those that are mapped, and those that a PA keeps. *)
IsMapped(f, b)  == \E x \in f.extents : Within(b, x.foff, x.count)
MapsTo(f, b, d) ==
  \E x \in f.extents : Within(b, x.foff, x.count) /\ d = x.doff + (b - x.foff)
Kept(f, b, d)   ==
  /\ ~IsMapped(f, b)
  /\ \E pa \in f.pas : /\ Within(b, pa.lstart, pa.len)
                       /\ d = pa.pstart + (b - pa.lstart)
Holds(f, b, d)  == MapsTo(f, b, d) \/ Kept(f, b, d)

ExtentSet == [foff : Nat, doff : Nat, count : Nat \ {0}]
PASet     == [lstart : Nat, pstart : Nat, len : Nat, free : Nat]

Clear(f, b, n) == \A c \in b..(b + n - 1) : ~IsMapped(f, c)

\* The blocks of pa that have no extent yet.
Missing(f, pa) ==
  {b \in pa.lstart..(pa.lstart + pa.len - 1) : ~IsMapped(f, b)}

\* Extents do not overlap, a block has one place and a place one block, a PA
\* has room for what it has to map, and no place is beyond n.
SoundFile(f, n) ==
  /\ f = [extents |-> f.extents, pas |-> f.pas]
  /\ f.extents \in SUBSET ExtentSet /\ f.pas \in SUBSET PASet
  /\ \A x, y \in f.extents :
       x = y \/ x.foff + x.count <= y.foff \/ y.foff + y.count <= x.foff
  /\ \A b, c, d, e \in Nat :
       Holds(f, b, d) /\ Holds(f, c, e) => (b = c <=> d = e)
  /\ \A pa \in f.pas : pa.free >= Cardinality(Missing(f, pa))
  /\ \A b, d \in Nat : Holds(f, b, d) => d < n

\* What the mapping of the blocks from off does to a file.
MapsOnto(f, n, m, off, count, cmd) ==
  /\ m.aborts = FALSE /\ m.count \in 1..count /\ m.off \in Nat
  /\ m.curoff \in Nat /\ n <= m.curoff
  /\ SoundFile(m.file, m.curoff)
  /\ \A k \in 0..(m.count - 1) : MapsTo(m.file, off + k, m.off + k)
  /\ \A b, d \in Nat : MapsTo(f, b, d) => MapsTo(m.file, b, d)
  /\ \A b, d \in Nat : Holds(m.file, b, d) => Holds(f, b, d) \/ n <= d
  /\ \A b \in Nat : IsMapped(m.file, b) =>
       IsMapped(f, b) \/ (cmd = "write" /\ b \in off..(off + m.count - 1))
-----------------------------------------------------------------------------
LEMMA FileOK ==
  ASSUME NEW n, NEW f, SoundFile(f, n)
  PROVE  /\ f = [extents |-> f.extents, pas |-> f.pas]
         /\ f.extents \in SUBSET ExtentSet /\ f.pas \in SUBSET PASet
         /\ \A x \in f.extents : x.foff \in Nat /\ x.doff \in Nat
                                 /\ x.count \in Nat \ {0}
         /\ \A pa \in f.pas : /\ pa.lstart \in Nat /\ pa.pstart \in Nat
                              /\ pa.len \in Nat /\ pa.free \in Nat
BY DEF SoundFile, ExtentSet, PASet

(* The blocks that are missing in a range are no more than its length.     *)
LEMMA CountRange ==
  ASSUME NEW a \in Nat, NEW n \in Nat, NEW S \in SUBSET (a..(a + n - 1))
  PROVE  /\ IsFiniteSet(S) /\ Cardinality(S) \in Nat /\ Cardinality(S) <= n
         /\ IsFiniteSet(a..(a + n - 1)) /\ Cardinality(a..(a + n - 1)) = n
<1>1. PICK z : z = a + n - 1
  OBVIOUS
<1>2. z \in Int /\ a \in Int /\ z - a + 1 = n /\ (a > z => n = 0)
  BY <1>1
<1>3. IsFiniteSet(a..z)
  BY <1>2, FS_Interval, Zenon
<1>4. Cardinality(a..z) = IF a > z THEN 0 ELSE z - a + 1
  BY <1>2, FS_Interval, Zenon
<1>5. Cardinality(a..z) = n
  BY <1>2, <1>4
<1>6. S \subseteq a..z
  BY <1>1
<1>7. IsFiniteSet(S) /\ Cardinality(S) <= Cardinality(a..z)
  BY <1>3, <1>6, FS_Subset
<1>8. QED
  BY <1>1, <1>3, <1>5, <1>7, FS_CardinalityType

(* A PA for blocks that no other PA has, on blocks of the disk that are    *)
(* new.                                                                    *)
LEMMA AddPA ==
  ASSUME NEW n \in Nat, NEW f, SoundFile(f, n), NEW pa \in PASet,
         pa.pstart = n, pa.free = pa.len,
         \A p \in f.pas : \/ p.lstart + p.len <= pa.lstart
                          \/ pa.lstart + pa.len <= p.lstart,
         NEW z \in Nat, z = n + pa.len,
         NEW g, g = [extents |-> f.extents, pas |-> f.pas \cup {pa}]
  PROVE  /\ SoundFile(g, z)
         /\ \A b : IsMapped(g, b) <=> IsMapped(f, b)
         /\ \A b, d : MapsTo(g, b, d) <=> MapsTo(f, b, d)
         /\ \A b, d \in Nat : Holds(g, b, d) => Holds(f, b, d) \/ n <= d
<1>1. /\ pa.lstart \in Nat /\ pa.len \in Nat /\ pa.free \in Nat
  BY DEF PASet
<1>2. g.extents = f.extents /\ g.pas = f.pas \cup {pa}
  OBVIOUS
<1>3. \A b : IsMapped(g, b) <=> IsMapped(f, b)
  BY <1>2 DEF IsMapped
<1>4. \A b, d : MapsTo(g, b, d) <=> MapsTo(f, b, d)
  BY <1>2 DEF MapsTo
<1> DEFINE New(b, d) == /\ Within(b, pa.lstart, pa.len) /\ ~IsMapped(f, b)
                        /\ d = n + (b - pa.lstart)
<1>5. ASSUME NEW b \in Nat, NEW d \in Nat, Holds(g, b, d)
      PROVE  Holds(f, b, d) \/ New(b, d)
  <2>1. CASE MapsTo(g, b, d)
    BY <1>4, <2>1 DEF Holds
  <2>2. CASE Kept(g, b, d)
    BY <1>2, <1>3, <2>2 DEF Kept, Holds
  <2>3. QED
    BY <1>5, <2>1, <2>2 DEF Holds
<1>6. ASSUME NEW b \in Nat, NEW d \in Nat, New(b, d)
      PROVE  n <= d /\ d < z /\ b = pa.lstart + (d - n)
  BY <1>1, <1>6 DEF Within
<1>7. ASSUME NEW b \in Nat, NEW d \in Nat, NEW c \in Nat, NEW e \in Nat,
             New(b, d), Holds(f, c, e)
      PROVE  e < n /\ b # c
  <2>1. e < n
    BY <1>7 DEF SoundFile
  <2>2. CASE b # c
    BY <2>1, <2>2
  <2>3. CASE b = c
    <3>1. ~IsMapped(f, c) /\ Within(c, pa.lstart, pa.len)
      BY <1>7, <2>3
    <3>2. ~MapsTo(f, c, e)
      BY <3>1 DEF MapsTo, IsMapped
    <3>3. PICK p \in f.pas : Within(c, p.lstart, p.len)
      BY <1>7, <3>2 DEF Holds, Kept
    <3>4. p.lstart \in Nat /\ p.len \in Nat
      BY FileOK
    <3>5. QED
      BY <1>1, <3>1, <3>3, <3>4 DEF Within
  <2>4. QED
    BY <2>2, <2>3
<1>8. \A b, d \in Nat : Holds(g, b, d) => Holds(f, b, d) \/ n <= d
  BY <1>5, <1>6
<1>9. \A b, d \in Nat : Holds(g, b, d) => d < z
  <2>1. ASSUME NEW b \in Nat, NEW d \in Nat, Holds(f, b, d)
        PROVE  d < z
    <3>1. d < n
      BY <2>1 DEF SoundFile
    <3>2. QED
      BY <1>1, <3>1
  <2>2. QED
    BY <1>5, <1>6, <2>1
<1>10. ASSUME NEW b \in Nat, NEW c \in Nat, NEW d \in Nat, NEW e \in Nat,
              Holds(g, b, d), Holds(g, c, e)
       PROVE  b = c <=> d = e
  <2>1. CASE Holds(f, b, d) /\ Holds(f, c, e)
    BY <2>1 DEF SoundFile
  <2>2. CASE New(b, d) /\ Holds(f, c, e)
    <3>1. n <= d /\ e < n /\ b # c
      BY <1>6, <1>7, <2>2
    <3>2. QED
      BY <3>1
  <2>3. CASE Holds(f, b, d) /\ New(c, e)
    <3>1. n <= e /\ d < n /\ b # c
      BY <1>6, <1>7, <2>3
    <3>2. QED
      BY <3>1
  <2>4. CASE New(b, d) /\ New(c, e)
    BY <1>1, <2>4 DEF Within
  <2>5. QED
    BY <1>5, <1>10, <2>1, <2>2, <2>3, <2>4
<1>11. ASSUME NEW p \in g.pas
       PROVE  p.free >= Cardinality(Missing(g, p))
  <2>1. Missing(g, p) = Missing(f, p)
    BY <1>3 DEF Missing
  <2>2. CASE p \in f.pas
    BY <2>1, <2>2 DEF SoundFile
  <2>3. CASE p = pa
    <3>1. Missing(f, pa) \in SUBSET (pa.lstart..(pa.lstart + pa.len - 1))
      BY DEF Missing
    <3>2. Cardinality(Missing(f, pa)) \in Nat
          /\ Cardinality(Missing(f, pa)) <= pa.len
      BY <1>1, <3>1, CountRange
    <3>3. QED
      BY <1>1, <2>1, <2>3, <3>2
  <2>4. QED
    BY <1>2, <2>2, <2>3
<1>12. SoundFile(g, z)
  <2>1. g = [extents |-> g.extents, pas |-> g.pas]
    BY <1>2
  <2>2. g.extents \in SUBSET ExtentSet /\ g.pas \in SUBSET PASet
    BY <1>2 DEF SoundFile
  <2>3. \A x, y \in g.extents :
          x = y \/ x.foff + x.count <= y.foff \/ y.foff + y.count <= x.foff
    BY <1>2 DEF SoundFile
  <2>4. QED
    BY <1>9, <1>10, <1>11, <2>1, <2>2, <2>3 DEF SoundFile
<1>13. QED
  BY <1>3, <1>4, <1>8, <1>12

\* g is f with c more blocks from off, which are at o.
Filled(f, g, off, c, o) ==
  /\ g.extents \in SUBSET ExtentSet
  /\ \A x, y \in g.extents :
       x = y \/ x.foff + x.count <= y.foff \/ y.foff + y.count <= x.foff
  /\ \A b, d \in Nat :
       MapsTo(g, b, d) <=>
         MapsTo(f, b, d) \/ (Within(b, off, c) /\ d = o + (b - off))
  /\ \A b \in Nat : IsMapped(g, b) <=> IsMapped(f, b) \/ Within(b, off, c)

(* WithBlocks: a new extent, or more of the one before.                    *)
LEMMA WithBlocksOK ==
  ASSUME NEW n, NEW f, SoundFile(f, n), NEW off \in Nat,
         NEW c \in Nat \ {0}, NEW o \in Nat, Clear(f, off, c),
         NEW near \in Near(f, off), NEW got, got.off = o, got.count = c,
         NEW g, g.extents = WithBlocks(f, near, off, got)
  PROVE  Filled(f, g, off, c, o)
<1>1. /\ f.extents \in SUBSET ExtentSet
      /\ \A x \in f.extents : x.foff \in Nat /\ x.doff \in Nat
                              /\ x.count \in Nat \ {0}
  BY FileOK
<1>2. \A x, y \in f.extents :
        x = y \/ x.foff + x.count <= y.foff \/ y.foff + y.count <= x.foff
  BY DEF SoundFile
<1>3. \A x \in f.extents : x.foff + x.count <= off \/ off + c <= x.foff
  <2>1. ASSUME NEW x \in f.extents, off < x.foff + x.count, x.foff < off + c
        PROVE  FALSE
    <3>1. PICK b \in Nat : /\ off <= b /\ b < off + c
                           /\ x.foff <= b /\ b < x.foff + x.count
      <4>1. CASE off <= x.foff
        BY <1>1, <2>1, <4>1
      <4>2. CASE x.foff < off
        BY <1>1, <2>1, <4>2
      <4>3. QED
        BY <1>1, <4>1, <4>2
    <3>2. b \in off..(off + c - 1) /\ IsMapped(f, b)
      BY <3>1 DEF IsMapped, Within
    <3>3. QED
      BY <3>2 DEF Clear
  <2>2. QED
    BY <1>1, <2>1
<1>4. CASE /\ off = near.foff + near.count
           /\ o = near.doff + near.count
  <2>1. near \in f.extents
    <3>1. near # NoExtent
      BY <1>4 DEF NoExtent
    <3>2. QED
      BY <3>1 DEF Near
  <2>2. near = [foff |-> near.foff, doff |-> near.doff, count |-> near.count]
        /\ near.foff \in Nat /\ near.doff \in Nat /\ near.count \in Nat \ {0}
    BY <1>1, <2>1 DEF ExtentSet
  <2>3. PICK y : y = [foff |-> near.foff, doff |-> near.doff,
                      count |-> near.count + c]
    OBVIOUS
  <2>4. y \in ExtentSet
    BY <2>2, <2>3 DEF ExtentSet
  <2>5. g.extents = (f.extents \ {near}) \cup {y}
    <3>1. [near EXCEPT !.count = @ + got.count] = y
      BY <2>2, <2>3
    <3>2. QED
      BY <1>4, <3>1 DEF WithBlocks
  <2>6. \A x \in f.extents \ {near} :
           x.foff + x.count <= y.foff \/ y.foff + y.count <= x.foff
    <3>1. ASSUME NEW x \in f.extents \ {near}
          PROVE  x.foff + x.count <= y.foff \/ y.foff + y.count <= x.foff
      <4>1. x.foff + x.count <= near.foff \/ near.foff + near.count <= x.foff
        BY <1>2, <2>1
      <4>2. x.foff + x.count <= off \/ off + c <= x.foff
        BY <1>3
      <4>3. x.foff \in Nat /\ x.count \in Nat \ {0}
        BY <1>1
      <4>4. QED
        BY <1>4, <2>2, <2>3, <4>1, <4>2, <4>3
    <3>2. QED
      BY <3>1
  <2>7. \A x, z \in g.extents :
          x = z \/ x.foff + x.count <= z.foff \/ z.foff + z.count <= x.foff
    BY <1>2, <2>5, <2>6
  <2>8. ASSUME NEW b \in Nat
        PROVE  Within(b, y.foff, y.count) <=>
                 Within(b, near.foff, near.count) \/ Within(b, off, c)
    BY <1>4, <2>2, <2>3 DEF Within
  <2>9. \A b \in Nat : IsMapped(g, b) <=> IsMapped(f, b) \/ Within(b, off, c)
    BY <2>1, <2>5, <2>8 DEF IsMapped
  <2>10. \A b, d \in Nat :
           MapsTo(g, b, d) <=>
             MapsTo(f, b, d) \/ (Within(b, off, c) /\ d = o + (b - off))
    <3>1. ASSUME NEW b \in Nat, NEW d \in Nat
          PROVE  MapsTo(g, b, d) <=>
             MapsTo(f, b, d) \/ (Within(b, off, c) /\ d = o + (b - off))
      <4>1. y.doff + (b - y.foff) = near.doff + (b - near.foff)
            /\ o + (b - off) = near.doff + (b - near.foff)
        BY <1>4, <2>2, <2>3
      <4>2. QED
        BY <2>1, <2>5, <2>8, <4>1 DEF MapsTo
    <3>2. QED
      BY <3>1
  <2>11. g.extents \in SUBSET ExtentSet
    BY <1>1, <2>4, <2>5
  <2>12. QED
    BY <2>7, <2>9, <2>10, <2>11 DEF Filled
<1>5. CASE ~(/\ off = near.foff + near.count
             /\ o = near.doff + near.count)
  <2>1. PICK y : y = [foff |-> off, doff |-> o, count |-> c]
    OBVIOUS
  <2>2. g.extents = f.extents \cup {y}
    BY <1>5, <2>1 DEF WithBlocks
  <2>3. y \in ExtentSet
    BY <2>1 DEF ExtentSet
  <2>4. \A x, z \in g.extents :
          x = z \/ x.foff + x.count <= z.foff \/ z.foff + z.count <= x.foff
    BY <1>2, <1>3, <2>1, <2>2
  <2>5. \A b \in Nat : IsMapped(g, b) <=> IsMapped(f, b) \/ Within(b, off, c)
    BY <2>1, <2>2 DEF IsMapped
  <2>6. \A b, d \in Nat :
          MapsTo(g, b, d) <=>
            MapsTo(f, b, d) \/ (Within(b, off, c) /\ d = o + (b - off))
    BY <2>1, <2>2 DEF MapsTo
  <2>7. QED
    BY <1>1, <2>2, <2>3, <2>4, <2>5, <2>6 DEF Filled
<1>6. QED
  BY <1>4, <1>5

HasPAs(g, P) == g = [extents |-> g.extents, pas |-> P]
UsedOf(pa, c) ==
  [lstart |-> pa.lstart, pstart |-> pa.pstart, len |-> pa.len,
   free |-> pa.free - c]

(* Blocks that a PA keeps are mapped to where it keeps them.               *)
LEMMA FillPA ==
  ASSUME NEW n \in Nat, NEW f, SoundFile(f, n), NEW pa \in f.pas,
         NEW off \in Nat, NEW c \in Nat \ {0}, Clear(f, off, c),
         pa.lstart <= off, off + c <= pa.lstart + pa.len,
         NEW o, o = pa.pstart + (off - pa.lstart),
         NEW used, used = UsedOf(pa, c), NEW g,
         NEW P \in SUBSET ((f.pas \ {pa}) \cup {used}),
         HasPAs(g, P), Filled(f, g, off, c, o)
  PROVE  /\ c <= pa.free /\ SoundFile(g, n)
         /\ \A b, d \in Nat : Holds(g, b, d) => Holds(f, b, d)
<1>1. /\ pa.lstart \in Nat /\ pa.pstart \in Nat /\ pa.len \in Nat
      /\ pa.free \in Nat /\ o \in Nat
  BY FileOK
<1>2. g.pas = P /\ g = [extents |-> g.extents, pas |-> P]
  BY DEF HasPAs
<1>0. used = [lstart |-> pa.lstart, pstart |-> pa.pstart,
              len |-> pa.len, free |-> pa.free - c]
  BY DEF UsedOf
<1> DEFINE M == Missing(f, pa)
           R == off..(off + c - 1)
<1>3. /\ M \in SUBSET (pa.lstart..(pa.lstart + pa.len - 1)) /\ R \subseteq M
  BY <1>1 DEF Missing, Clear
<1>4. IsFiniteSet(M) /\ Cardinality(M) \in Nat
  BY <1>1, <1>3, CountRange
<1>5. IsFiniteSet(R) /\ Cardinality(R) = c
  <2>1. R \in SUBSET R
    OBVIOUS
  <2>2. QED
    BY <2>1, CountRange
<1>6. pa.free >= Cardinality(M)
  BY DEF SoundFile
<1>7. c <= Cardinality(M) /\ c <= pa.free
  <2>1. Cardinality(R) <= Cardinality(M)
    BY <1>3, <1>4, FS_Subset
  <2>2. QED
    BY <1>1, <1>4, <1>5, <1>6, <2>1
<1>8. Cardinality(M \ R) = Cardinality(M) - c
  <2>1. Cardinality(M \ R) = Cardinality(M) - Cardinality(M \cap R)
    BY <1>4, <1>5, FS_Difference
  <2>2. M \cap R = R
    BY <1>3
  <2>3. QED
    BY <1>5, <2>1, <2>2
<1>9. used \in PASet
  BY <1>1, <1>7, <1>0 DEF PASet
<1>10. \A b \in Nat : IsMapped(g, b) <=> IsMapped(f, b) \/ Within(b, off, c)
  BY DEF Filled
<1>11. ASSUME NEW b \in Nat, NEW d \in Nat, Holds(g, b, d)
       PROVE  Holds(f, b, d)
  <2>1. CASE MapsTo(f, b, d)
    BY <2>1 DEF Holds
  <2>2. CASE Within(b, off, c) /\ d = o + (b - off)
    <3>1. Within(b, pa.lstart, pa.len) /\ d = pa.pstart + (b - pa.lstart)
      BY <1>1, <2>2 DEF Within
    <3>2. ~IsMapped(f, b)
      BY <2>2 DEF Clear, Within
    <3>3. QED
      BY <3>1, <3>2 DEF Holds, Kept
  <2>3. CASE Kept(g, b, d)
    <3>1. ~IsMapped(f, b)
      BY <1>10, <2>3 DEF Kept
    <3>2. PICK p \in P : /\ Within(b, p.lstart, p.len)
                         /\ d = p.pstart + (b - p.lstart)
      BY <1>2, <2>3 DEF Kept
    <3>3. CASE p \in f.pas
      BY <3>1, <3>2, <3>3 DEF Holds, Kept
    <3>4. CASE p = used
      BY <1>0, <3>1, <3>2, <3>4 DEF Holds, Kept
    <3>5. QED
      BY <3>3, <3>4
  <2>4. QED
    BY <1>11, <2>1, <2>2, <2>3 DEF Holds, Filled
<1>12. ASSUME NEW p \in P
       PROVE  p.free >= Cardinality(Missing(g, p))
  <2>1. CASE p \in f.pas
    <3>1. p.lstart \in Nat /\ p.len \in Nat /\ p.free \in Nat
      BY <2>1, FileOK
    <3>2. Missing(g, p) \subseteq Missing(f, p)
      BY <1>10, <3>1 DEF Missing
    <3>3. Missing(f, p) \in SUBSET (p.lstart..(p.lstart + p.len - 1))
      BY DEF Missing
    <3>4. IsFiniteSet(Missing(f, p)) /\ Cardinality(Missing(f, p)) \in Nat
      BY <3>1, <3>3, CountRange
    <3>5. IsFiniteSet(Missing(g, p))
          /\ Cardinality(Missing(g, p)) <= Cardinality(Missing(f, p))
      BY <3>2, <3>4, FS_Subset
    <3>6. p.free >= Cardinality(Missing(f, p))
      BY <2>1 DEF SoundFile
    <3>7. Cardinality(Missing(g, p)) \in Nat
      BY <3>5, FS_CardinalityType
    <3>8. QED
      BY <3>1, <3>4, <3>5, <3>6, <3>7
  <2>2. CASE p = used
    <3>1. p.lstart = pa.lstart /\ p.len = pa.len /\ p.free = pa.free - c
      BY <1>0, <2>2
    <3>2. Missing(g, p) = M \ R
      BY <1>1, <1>10, <3>1 DEF Missing, Within
    <3>3. QED
      BY <1>1, <1>4, <1>6, <1>7, <1>8, <3>1, <3>2
  <2>3. QED
    BY <2>1, <2>2
<1>13. SoundFile(g, n)
  <2>1. g = [extents |-> g.extents, pas |-> g.pas]
    BY <1>2
  <2>2. g.extents \in SUBSET ExtentSet /\ g.pas \in SUBSET PASet
    BY <1>2, <1>9, FileOK DEF Filled
  <2>3. \A x, y \in g.extents :
          x = y \/ x.foff + x.count <= y.foff \/ y.foff + y.count <= x.foff
    BY DEF Filled
  <2>4. \A b, d, k, e \in Nat :
          Holds(g, b, d) /\ Holds(g, k, e) => (b = k <=> d = e)
    BY <1>11 DEF SoundFile
  <2>5. \A b, d \in Nat : Holds(g, b, d) => d < n
    BY <1>11 DEF SoundFile
  <2>6. QED
    BY <1>2, <1>12, <2>1, <2>2, <2>3, <2>4, <2>5 DEF SoundFile
<1>14. QED
  BY <1>7, <1>11, <1>13

(* The least element of a set of numbers, and the largest of a bounded one.*)
LEMMA MaxUpTo ==
  ASSUME NEW n \in Nat, NEW S \in SUBSET (0..n), S # {}
  PROVE  Max(S) \in S /\ \A x \in S : x <= Max(S)
<1>1. PICK m \in S : \A x \in S : x <= m
  BY LargestExists
<1>2. Max(S) = m
  <2>1. S \in SUBSET Nat
    OBVIOUS
  <2>2. QED
    BY <1>1, <2>1, MaxIsLargest
<1>3. QED
  BY <1>1, <1>2

LEMMA GoalOK ==
  ASSUME NEW off \in Nat, NEW count \in Nat \ {0}
  PROVE  /\ Goal(off, count).lo \in Nat /\ Goal(off, count).hi \in Nat
         /\ Goal(off, count).lo <= off /\ off < Goal(off, count).hi
<1> DEFINE end    == off + count
           small  == {s \in SmallSizes : end <= s}
           large  == {c \in LargeSizes : end <= c[1]}
           best   == CHOOSE c \in large : \A d \in large : c[1] <= d[1]
           length == IF large = {} THEN LargestSize ELSE best[2]
<1>1. SmallSizes \subseteq Nat \ {0} /\ LargestSize \in Nat \ {0}
      /\ LargeSizes \subseteq (Nat \ {0}) \X (Nat \ {0})
  BY AllocatorAssumption DEF AllocatorAssumption
<1>2. Goal(off, count) = IF small # {} THEN [lo |-> 0, hi |-> Min(small)]
                         ELSE [lo |-> off, hi |-> off + length]
  BY DEF Goal
<1>3. CASE small # {}
  <2>1. small \in SUBSET Nat
    BY <1>1
  <2>2. Min(small) \in small
    BY <1>3, <2>1, MinOfNats
  <2>3. Min(small) \in Nat /\ end <= Min(small)
    BY <1>1, <2>2
  <2>4. Goal(off, count).lo = 0 /\ Goal(off, count).hi = Min(small)
    BY <1>2, <1>3
  <2>5. QED
    BY <2>3, <2>4
<1>4. CASE small = {}
  <2>1. length \in Nat \ {0}
    <3>1. CASE large = {}
      BY <1>1, <3>1
    <3>2. CASE large # {}
      <4>1. \A c \in large : c[1] \in Nat /\ c[2] \in Nat \ {0}
        BY <1>1
      <4>2. PICK F : F = {c[1] : c \in large}
        OBVIOUS
      <4>3. F \in SUBSET Nat /\ F # {}
        BY <3>2, <4>1, <4>2
      <4>4. PICK k \in F : \A m \in F : k <= m
        BY <4>3, LeastNat
      <4>5. \E c \in large : \A d \in large : c[1] <= d[1]
        BY <4>2, <4>4
      <4>6. best \in large
        BY <4>5
      <4>7. QED
        BY <3>2, <4>1, <4>6
    <3>3. QED
      BY <3>1, <3>2
  <2>2. Goal(off, count).lo = off /\ Goal(off, count).hi = off + length
    BY <1>2, <1>4
  <2>3. QED
    BY <2>1, <2>2
<1>5. QED
  BY <1>3, <1>4

(* NewPA: around the block, and beside all the others.                     *)
LEMMA NewPAOK ==
  ASSUME NEW n \in Nat, NEW f, f.pas \in SUBSET PASet,
         NEW off \in Nat, NEW count \in Nat \ {0},
         \A p \in f.pas : ~Within(off, p.lstart, p.len),
         NEW pa, pa = NewPA(f, off, count, n)
  PROVE  /\ pa \in PASet /\ pa.pstart = n /\ pa.free = pa.len
         /\ pa.lstart <= off /\ off < pa.lstart + pa.len
         /\ \A p \in f.pas : \/ p.lstart + p.len <= pa.lstart
                             \/ pa.lstart + pa.len <= p.lstart
<1> DEFINE g       == Goal(off, count)
           overlap == {p \in f.pas : p.lstart < g.hi /\ g.lo < p.lstart + p.len}
           lower   == {p \in overlap : p.lstart + p.len <= off}
           upper   == {p \in overlap : off < p.lstart}
           L == {g.lo} \cup {p.lstart + p.len : p \in lower}
           U == {g.hi} \cup {p.lstart : p \in upper}
           lo == Max(L)
           hi == Min(U)
<1>1. g.lo \in Nat /\ g.hi \in Nat /\ g.lo <= off /\ off < g.hi
  BY GoalOK
<1>2. \A p \in f.pas : p.lstart \in Nat /\ p.len \in Nat
  BY DEF PASet
<1> HIDE DEF g
<1>3. pa = [lstart |-> lo, pstart |-> n, len |-> hi - lo, free |-> hi - lo]
  BY Zenon DEF NewPA, g
<1>4. L \in SUBSET (0..off) /\ L # {} /\ g.lo \in L
  BY <1>1, <1>2
<1>5. lo \in L /\ \A x \in L : x <= lo
  <2> HIDE DEF L
  <2>1. QED
    BY <1>4, MaxUpTo
<1>6. U \in SUBSET Nat /\ U # {} /\ g.hi \in U /\ \A x \in U : off < x
  BY <1>1, <1>2
<1>7. hi \in U /\ \A x \in U : hi <= x
  <2> HIDE DEF U
  <2>1. QED
    BY <1>6, MinOfNats
<1>8. lo \in Nat /\ lo <= off /\ g.lo <= lo
  <2> HIDE DEF L
  <2>1. lo \in 0..off
    BY <1>4, <1>5
  <2>2. g.lo <= lo
    BY <1>4, <1>5
  <2>3. QED
    BY <2>1, <2>2
<1>9. hi \in Nat /\ off < hi /\ hi <= g.hi
  <2> HIDE DEF U
  <2>1. QED
    BY <1>6, <1>7
<1>10. ASSUME NEW p \in f.pas
       PROVE  p.lstart + p.len <= lo \/ hi <= p.lstart
  <2>1. p.lstart \in Nat /\ p.len \in Nat
    BY <1>2
  <2>2. CASE p \notin overlap
    <3>1. g.hi <= p.lstart \/ p.lstart + p.len <= g.lo
      BY <1>1, <2>1, <2>2
    <3> HIDE DEF lo, hi
    <3>2. QED
      BY <1>1, <1>8, <1>9, <2>1, <3>1
  <2>3. CASE p \in lower
    <3>1. p.lstart + p.len \in L
      BY <2>3
    <3>2. QED
      BY <1>5, <3>1
  <2>4. CASE p \in upper
    <3>1. p.lstart \in U
      BY <2>4
    <3>2. QED
      BY <1>7, <3>1
  <2>5. p \in overlap => p \in lower \/ p \in upper
    BY <2>1 DEF Within
  <2>6. QED
    BY <2>2, <2>3, <2>4, <2>5
<1> HIDE DEF lo, hi
<1>11. PICK k : k = hi - lo
  OBVIOUS
<1>12. k \in Nat /\ lo + k = hi
  BY <1>8, <1>9, <1>11
<1>13. pa = [lstart |-> lo, pstart |-> n, len |-> k, free |-> k]
  BY <1>3, <1>11
<1>14. QED
  BY <1>8, <1>9, <1>10, <1>12, <1>13 DEF PASet

(* There is an extent where the walk ends.                                 *)
LEMMA NearExists ==
  ASSUME NEW n, NEW f, SoundFile(f, n), NEW off \in Nat, ~IsMapped(f, off)
  PROVE  /\ Found(f, off) = {} /\ Near(f, off) # {}
         /\ \A x \in Near(f, off) : x.foff \in Int
<1>1. \A x \in f.extents : x.foff \in Nat /\ x.doff \in Nat
                           /\ x.count \in Nat \ {0}
  BY FileOK
<1>2. Found(f, off) = {}
  BY DEF Found, IsMapped
<1> DEFINE earlier == {x \in f.extents : x.foff + x.count <= off}
           later   == {x \in f.extents : off < x.foff}
<1>3. \A x \in f.extents : x \in earlier \/ x \in later
  BY <1>1 DEF IsMapped, Within
<1>4. Near(f, off) # {}
  <2>1. CASE f.extents = {}
    BY <2>1 DEF Near
  <2>2. CASE earlier # {}
    <3>1. PICK F : F = {x.foff : x \in earlier}
      OBVIOUS
    <3>2. F \in SUBSET (0..off) /\ F # {}
      BY <1>1, <2>2, <3>1
    <3>3. PICK m \in F : \A k \in F : k <= m
      BY <3>2, LargestExists
    <3>4. \E x \in earlier : \A y \in earlier : y.foff <= x.foff
      BY <3>1, <3>3
    <3>5. QED
      BY <3>4 DEF Near
  <2>3. CASE later # {}
    <3>1. PICK F : F = {x.foff : x \in later}
      OBVIOUS
    <3>2. F \in SUBSET Nat /\ F # {}
      BY <1>1, <2>3, <3>1
    <3>3. PICK m \in F : \A k \in F : m <= k
      BY <3>2, LeastNat
    <3>4. \E x \in later : \A y \in later : x.foff <= y.foff
      BY <3>1, <3>3
    <3>5. QED
      BY <3>4 DEF Near
  <2>4. QED
    BY <1>3, <2>1, <2>2, <2>3
<1>5. \A x \in Near(f, off) : x.foff \in Int
  <2>1. \A x \in Near(f, off) : x \in f.extents \/ x = NoExtent
    BY DEF Near
  <2>2. NoExtent.foff \in Int
    BY DEF NoExtent
  <2>3. QED
    BY <1>1, <2>1, <2>2
<1>6. QED
  BY <1>2, <1>4, <1>5

\* What an allocation for the blocks from off makes of a file.
FileWith(f, near, off, got) ==
  [extents |-> WithBlocks(f, near, off, got), pas |-> got.pas]
Settled(got) ==
  got = [off |-> got.off, count |-> got.count, aborts |-> FALSE,
         pas |-> got.pas, curoff |-> got.curoff]
GotBlocks(f, n, got, g, off, count) ==
  /\ got.count \in 1..count /\ got.off \in Nat /\ got.curoff \in Nat
  /\ n <= got.curoff /\ got.aborts = FALSE
  /\ SoundFile(g, got.curoff) /\ Filled(f, g, off, got.count, got.off)
  /\ \A b, d \in Nat : Holds(g, b, d) => Holds(f, b, d) \/ n <= d

(* MbUseInodePA: the assertion on pa->free holds.                          *)
LEMMA UsePAOK ==
  ASSUME NEW n \in Nat, NEW f, SoundFile(f, n), NEW pa \in f.pas,
         NEW off \in Nat, NEW count \in Nat \ {0}, Clear(f, off, count),
         Within(off, pa.lstart, pa.len), NEW near \in Near(f, off),
         NEW reserve, NEW got, got = UsePA(reserve, f.pas, pa, off, count, n),
         NEW g, g = FileWith(f, near, off, got)
  PROVE  /\ GotBlocks(f, n, got, g, off, count) /\ got.curoff = n
         /\ Settled(got)
<1> DEFINE first == pa.pstart + (off - pa.lstart)
           size  == Min({count, pa.pstart + pa.len - first})
           used  == [pa EXCEPT !.free = @ - size]
           P     == (f.pas \ {pa})
                      \cup (IF reserve /\ used.free = 0 THEN {} ELSE {used})
<1>1. /\ pa.lstart \in Nat /\ pa.pstart \in Nat /\ pa.len \in Nat
      /\ pa.free \in Nat
      /\ pa = [lstart |-> pa.lstart, pstart |-> pa.pstart, len |-> pa.len,
               free |-> pa.free]
  BY FileOK DEF PASet
<1>2. pa.lstart <= off /\ off < pa.lstart + pa.len
  BY DEF Within
<1>3. first \in Nat
  BY <1>1, <1>2
<1>4. /\ size \in 1..count /\ off + size <= pa.lstart + pa.len
  <2>1. PICK r : r = pa.pstart + pa.len - first
    OBVIOUS
  <2>2. r = pa.lstart + pa.len - off /\ r \in Nat \ {0}
    BY <1>1, <1>2, <2>1
  <2>3. size = Min({count, r})
    BY <2>1
  <2>4. count \in Int /\ r \in Int
    BY <2>2
  <2>5. Min({count, r}) = IF count <= r THEN count ELSE r
    BY <2>4, MinOfTwo
  <2>6. QED
    BY <1>1, <2>2, <2>3, <2>5
<1> HIDE DEF first, size
<1>5. used = UsedOf(pa, size)
  BY <1>1 DEF UsedOf
<1>6. got = [off |-> first, count |-> size, aborts |-> pa.free < size,
             pas |-> P, curoff |-> n]
  BY Zenon DEF UsePA, first, size
<1> HIDE DEF used
<1>7. P \in SUBSET ((f.pas \ {pa}) \cup {used})
  OBVIOUS
<1> HIDE DEF P
<1>8. Clear(f, off, size)
  BY <1>4 DEF Clear
<1>9. Filled(f, g, off, size, first)
  <2>1. got.off = first /\ got.count = size
    BY <1>6
  <2>2. g.extents = WithBlocks(f, near, off, got)
    BY DEF FileWith
  <2>3. size \in Nat \ {0}
    BY <1>4
  <2>4. QED
    BY <1>3, <1>8, <2>1, <2>2, <2>3, WithBlocksOK
<1>10. /\ size <= pa.free /\ SoundFile(g, n)
       /\ \A b, d \in Nat : Holds(g, b, d) => Holds(f, b, d)
  <2>1. HasPAs(g, P)
    BY <1>6 DEF FileWith, HasPAs
  <2>2. size \in Nat \ {0} /\ first = pa.pstart + (off - pa.lstart)
    BY <1>4 DEF first
  <2>3. QED
    BY <1>2, <1>4, <1>5, <1>7, <1>8, <1>9, <2>1, <2>2, FillPA
<1>11. (pa.free < size) = FALSE
  BY <1>1, <1>4, <1>10
<1>12. got = [off |-> first, count |-> size, aborts |-> FALSE,
              pas |-> P, curoff |-> n]
  BY <1>6, <1>11
<1>13. /\ got.off = first /\ got.count = size /\ got.aborts = FALSE
       /\ got.curoff = n /\ Settled(got)
  BY <1>12 DEF Settled
<1>14. GotBlocks(f, n, got, g, off, count)
  BY <1>3, <1>4, <1>9, <1>10, <1>13 DEF GotBlocks
<1>15. QED
  BY <1>13, <1>14


(* All blocks of a new PA are used at once, and none is kept.              *)
LEMMA UseAllOK ==
  ASSUME NEW n \in Nat, NEW f, SoundFile(f, n), NEW pa \in PASet,
         pa.pstart = n, pa.free = pa.len, pa.len # 0,
         \A p \in f.pas : \/ p.lstart + p.len <= pa.lstart
                          \/ pa.lstart + pa.len <= p.lstart,
         NEW count \in Nat, pa.len <= count, Clear(f, pa.lstart, count),
         NEW near \in Near(f, pa.lstart), NEW got, NEW z, z = n + pa.len,
         got.off = n, got.count = pa.len, got.pas = f.pas,
         got.aborts = FALSE, got.curoff = z,
         NEW g, g = FileWith(f, near, pa.lstart, got)
  PROVE  GotBlocks(f, n, got, g, pa.lstart, count)
<1>1. /\ pa.lstart \in Nat /\ pa.len \in Nat \ {0}
      /\ z \in Nat /\ n <= z
  BY DEF PASet
<1>2. PICK h : h = [extents |-> f.extents, pas |-> f.pas \cup {pa}]
  OBVIOUS
<1>3. /\ SoundFile(h, z)
      /\ \A b : IsMapped(h, b) <=> IsMapped(f, b)
      /\ \A b, d : MapsTo(h, b, d) <=> MapsTo(f, b, d)
      /\ \A b, d \in Nat : Holds(h, b, d) => Holds(f, b, d) \/ n <= d
  BY <1>1, <1>2, AddPA
<1>4. Clear(f, pa.lstart, pa.len)
  BY <1>1 DEF Clear
<1>5. Clear(h, pa.lstart, pa.len)
  BY <1>3, <1>4 DEF Clear
<1>6. Filled(f, g, pa.lstart, pa.len, n)
  <2>1. got.off = n /\ got.count = pa.len
        /\ g.extents = WithBlocks(f, near, pa.lstart, got)
    BY DEF FileWith
  <2>2. QED
    BY <1>1, <1>4, <2>1, WithBlocksOK
<1>7. Filled(h, g, pa.lstart, pa.len, n)
  BY <1>3, <1>6 DEF Filled
<1>8. pa \notin f.pas
  BY <1>1
<1>9. /\ SoundFile(g, z)
      /\ \A b, d \in Nat : Holds(g, b, d) => Holds(h, b, d)
  <2>1. PICK used : used = UsedOf(pa, pa.len)
    OBVIOUS
  <2>2. pa \in h.pas /\ f.pas \in SUBSET ((h.pas \ {pa}) \cup {used})
    BY <1>2, <1>8
  <2>3. HasPAs(g, f.pas)
    BY DEF FileWith, HasPAs
  <2>4. /\ pa.lstart <= pa.lstart /\ pa.lstart + pa.len <= pa.lstart + pa.len
        /\ n = pa.pstart + (pa.lstart - pa.lstart)
    BY <1>1
  <2>5. QED
    BY <1>1, <1>3, <1>5, <1>7, <2>1, <2>2, <2>3, <2>4, FillPA
<1>10. QED
  BY <1>1, <1>3, <1>6, <1>9 DEF GotBlocks

(* MbAllocBlock: the rest of its assertions hold, too.                     *)
LEMMA NewBlocksOK ==
  ASSUME NEW n \in Nat, NEW f, SoundFile(f, n),
         NEW off \in Nat, NEW count \in Nat \ {0}, Clear(f, off, count),
         Usable(f, off) = {}, NEW near \in Near(f, off), NEW reserve,
         NEW pa, pa = NewPA(f, off, count, n),
         NEW got, got = NewBlocks(reserve, f, pa, off, count),
         NEW g, g = FileWith(f, near, off, got)
  PROVE  GotBlocks(f, n, got, g, off, count)
<1>1. \A p \in f.pas : ~Within(off, p.lstart, p.len)
  <2>1. ASSUME NEW p \in f.pas, Within(off, p.lstart, p.len)
        PROVE  FALSE
    <3>1. p.lstart \in Nat /\ p.len \in Nat /\ p.free \in Nat
      BY FileOK
    <3>2. off \in Missing(f, p)
      <4>1. ~IsMapped(f, off)
        BY DEF Clear
      <4>2. QED
        BY <2>1, <3>1, <4>1 DEF Missing, Within
    <3>3. Missing(f, p) \in SUBSET (p.lstart..(p.lstart + p.len - 1))
      BY DEF Missing
    <3>4. IsFiniteSet(Missing(f, p)) /\ Cardinality(Missing(f, p)) \in Nat
      BY <3>1, <3>3, CountRange
    <3>5. Cardinality(Missing(f, p)) # 0
      BY <3>2, <3>4, FS_EmptySet
    <3>6. p.free >= Cardinality(Missing(f, p))
      BY DEF SoundFile
    <3>7. p.free # 0
      BY <3>1, <3>4, <3>5, <3>6
    <3>8. QED
      BY <2>1, <3>7 DEF Usable
  <2>2. QED
    BY <2>1
<1>2. /\ pa \in PASet /\ pa.pstart = n /\ pa.free = pa.len
      /\ pa.lstart <= off /\ off < pa.lstart + pa.len
      /\ \A p \in f.pas : \/ p.lstart + p.len <= pa.lstart
                          \/ pa.lstart + pa.len <= p.lstart
  <2>1. f.pas \in SUBSET PASet
    BY FileOK
  <2>2. QED
    BY <1>1, <2>1, NewPAOK
<1>3. pa.lstart \in Nat /\ pa.len \in Nat \ {0}
  BY <1>2 DEF PASet
<1>4. PICK z : z = n + pa.len
  OBVIOUS
<1>5. z \in Nat /\ n <= z
  BY <1>3, <1>4
<1> DEFINE exact == ~reserve /\ pa.lstart = off /\ pa.len <= count
           bad   == \/ \E p \in f.pas : Within(off, p.lstart, p.len)
                    \/ off < pa.lstart /\ pa.len <= count
<1>6. ~bad
  BY <1>1, <1>2, <1>3
<1>7. CASE exact
  <2>1. PICK k : k = [off |-> n, count |-> pa.len, aborts |-> FALSE,
                      pas |-> f.pas, curoff |-> z]
    OBVIOUS
  <2>2. got = [k EXCEPT !.aborts = @ \/ bad]
    BY <1>2, <1>4, <1>7, <2>1 DEF NewBlocks
  <2>3. got = k
    BY <1>6, <2>1, <2>2
  <2>4. /\ got.off = n /\ got.count = pa.len /\ got.pas = f.pas
        /\ got.aborts = FALSE /\ got.curoff = z
    BY <2>1, <2>3
  <2>5. off = pa.lstart /\ pa.len # 0 /\ pa.len <= count /\ count \in Nat
    BY <1>3, <1>7
  <2>6. Clear(f, pa.lstart, count) /\ near \in Near(f, pa.lstart)
        /\ g = FileWith(f, near, pa.lstart, got)
    BY <2>5
  <2>7. GotBlocks(f, n, got, g, pa.lstart, count)
    BY <1>2, <1>4, <2>4, <2>5, <2>6, UseAllOK
  <2>8. QED
    BY <2>5, <2>7
<1>8. CASE ~exact
  <2>1. PICK h : h = [extents |-> f.extents, pas |-> f.pas \cup {pa}]
    OBVIOUS
  <2>2. /\ SoundFile(h, z)
        /\ \A b : IsMapped(h, b) <=> IsMapped(f, b)
        /\ \A b, d : MapsTo(h, b, d) <=> MapsTo(f, b, d)
        /\ \A b, d \in Nat : Holds(h, b, d) => Holds(f, b, d) \/ n <= d
    BY <1>2, <1>4, <1>5, <2>1, AddPA
  <2>3. PICK k : k = UsePA(reserve, h.pas, pa, off, count, z)
    OBVIOUS
  <2>4. got = [k EXCEPT !.aborts = @ \/ bad]
    <3>1. pa.pstart + pa.len = z
      BY <1>2, <1>4
    <3>2. h.pas = f.pas \cup {pa}
      BY <2>1
    <3>3. QED
      BY <1>8, <2>3, <3>1, <3>2 DEF NewBlocks
  <2>5. /\ Clear(h, off, count) /\ Within(off, pa.lstart, pa.len)
        /\ pa \in h.pas /\ h.extents = f.extents
    BY <1>2, <2>1, <2>2 DEF Clear, Within
  <2>6. near \in Near(h, off)
    BY <2>5 DEF Near
  <2>7. PICK w : w = FileWith(h, near, off, k)
    OBVIOUS
  <2>8. /\ GotBlocks(h, z, k, w, off, count) /\ k.curoff = z
        /\ Settled(k)
    <3>1. SoundFile(h, z) /\ z \in Nat
      BY <1>5, <2>2
    <3>2. pa \in h.pas /\ Clear(h, off, count) /\ Within(off, pa.lstart, pa.len)
      BY <2>5
    <3>3. QED
      BY <2>3, <2>6, <2>7, <3>1, <3>2, UsePAOK
  <2>9. got = k
    BY <1>6, <2>4, <2>8 DEF Settled
  <2>10. w = g
    BY <2>5, <2>7, <2>9 DEF WithBlocks, FileWith
  <2>11. GotBlocks(h, z, got, g, off, count) /\ got.curoff = z
    BY <2>8, <2>9, <2>10
  <2>12. Filled(f, g, off, got.count, got.off)
    BY <2>2, <2>11 DEF Filled, GotBlocks
  <2>13. \A b, d \in Nat : Holds(g, b, d) => Holds(f, b, d) \/ n <= d
    BY <1>5, <2>2, <2>11 DEF GotBlocks
  <2>14. QED
    BY <1>5, <2>11, <2>12, <2>13 DEF GotBlocks
<1>9. QED
  BY <1>7, <1>8

LEMMA AllocationsOK ==
  ASSUME NEW n \in Nat, NEW f, SoundFile(f, n), NEW algo,
         algo = "stream" => f.pas = {}, NEW reserve,
         NEW off \in Nat, NEW count \in Nat \ {0}, Clear(f, off, count),
         NEW near \in Near(f, off)
  PROVE  /\ Allocations(algo, reserve, f, off, count, n) # {}
         /\ \A got \in Allocations(algo, reserve, f, off, count, n) :
              /\ GotBlocks(f, n, got, FileWith(f, near, off, got), off, count)
              /\ algo = "stream" => got.pas = {}
<1>1. CASE algo = "stream"
  <2>1. f.pas = {}
    BY <1>1
  <2>2. PICK got : got = [off |-> n, count |-> count, pas |-> f.pas,
                          aborts |-> FALSE, curoff |-> n + count]
    OBVIOUS
  <2>3. Allocations(algo, reserve, f, off, count, n) = {got}
    BY <1>1, <2>2 DEF Allocations
  <2>4. PICK z : z = n + count
    OBVIOUS
  <2>5. /\ got.off = n /\ got.count = count /\ got.pas = f.pas
        /\ got.aborts = FALSE /\ got.curoff = z
    BY <2>2, <2>4
  <2>6. PICK pa : pa = [lstart |-> off, pstart |-> n, len |-> count,
                        free |-> count]
    OBVIOUS
  <2>7. /\ pa \in PASet /\ pa.pstart = n /\ pa.free = pa.len /\ pa.len # 0
        /\ pa.lstart = off /\ pa.len = count
    BY <2>6 DEF PASet
  <2>8. \A p \in f.pas : \/ p.lstart + p.len <= pa.lstart
                         \/ pa.lstart + pa.len <= p.lstart
    BY <2>1
  <2>9. PICK g : g = FileWith(f, near, off, got)
    OBVIOUS
  <2>10. /\ z = n + pa.len /\ got.count = pa.len /\ pa.len <= count
         /\ count \in Nat /\ Clear(f, pa.lstart, count)
         /\ near \in Near(f, pa.lstart) /\ g = FileWith(f, near, pa.lstart, got)
    BY <2>4, <2>5, <2>7, <2>9
  <2>11. GotBlocks(f, n, got, g, pa.lstart, count)
    BY <2>5, <2>7, <2>8, <2>10, UseAllOK
  <2>12. GotBlocks(f, n, got, FileWith(f, near, off, got), off, count)
    BY <2>7, <2>9, <2>11
  <2>13. got.pas = {}
    BY <2>1, <2>5
  <2>14. QED
    BY <2>3, <2>12, <2>13
<1>2. CASE algo # "stream" /\ Usable(f, off) = {}
  <2>1. PICK pa : pa = NewPA(f, off, count, n)
    OBVIOUS
  <2>2. PICK got : got = NewBlocks(reserve, f, pa, off, count)
    OBVIOUS
  <2>3. Allocations(algo, reserve, f, off, count, n) = {got}
    BY <1>2, <2>1, <2>2 DEF Allocations
  <2>4. PICK g : g = FileWith(f, near, off, got)
    OBVIOUS
  <2>5. GotBlocks(f, n, got, g, off, count)
    BY <1>2, <2>1, <2>2, <2>4, NewBlocksOK
  <2>6. QED
    BY <1>2, <2>3, <2>4, <2>5
<1>3. CASE algo # "stream" /\ Usable(f, off) # {}
  <2>1. Allocations(algo, reserve, f, off, count, n) =
          {UsePA(reserve, f.pas, pa, off, count, n) : pa \in Usable(f, off)}
    BY <1>3 DEF Allocations
  <2>2. ASSUME NEW pa \in Usable(f, off),
               NEW got, got = UsePA(reserve, f.pas, pa, off, count, n)
        PROVE  GotBlocks(f, n, got, FileWith(f, near, off, got), off, count)
    <3>1. pa \in f.pas /\ Within(off, pa.lstart, pa.len)
      BY DEF Usable
    <3>2. PICK g : g = FileWith(f, near, off, got)
      OBVIOUS
    <3>3. GotBlocks(f, n, got, g, off, count)
      BY <2>2, <3>1, <3>2, UsePAOK
    <3>4. QED
      BY <3>2, <3>3
  <2>3. QED
    BY <1>3, <2>1, <2>2
<1>4. QED
  BY <1>1, <1>2, <1>3

AllSound(results, algo, f, n, off, count, cmd) ==
  /\ results # {}
  /\ \A m \in results : /\ MapsOnto(f, n, m, off, count, cmd)
                        /\ algo = "stream" => m.file.pas = {}

(* FileSystem::Map: there is a mapping, and it is sound.                   *)
LEMMA MapResultsOK ==
  ASSUME NEW n \in Nat, NEW f, SoundFile(f, n), NEW algo,
         algo = "stream" => f.pas = {}, NEW reserve, NEW cmd \in Directions,
         NEW off \in Nat, NEW count \in Nat \ {0},
         cmd = "read" => IsMapped(f, off),
         cmd = "write" => Clear(f, off, count)
  PROVE  AllSound(MapResults(algo, reserve, f, cmd, off, count, n),
                  algo, f, n, off, count, cmd)
<1>1. /\ f.extents \in SUBSET ExtentSet
      /\ \A x \in f.extents : x.foff \in Nat /\ x.doff \in Nat
                              /\ x.count \in Nat \ {0}
  BY FileOK
<1>2. CASE IsMapped(f, off)
  <2>1. Found(f, off) # {}
    BY <1>2 DEF IsMapped, Found
  <2>2. MapResults(algo, reserve, f, cmd, off, count, n) =
          {[off |-> MapFound(x, off, count).off,
            count |-> MapFound(x, off, count).count, file |-> f,
            curoff |-> n, aborts |-> FALSE] : x \in Found(f, off)}
    BY <2>1 DEF MapResults
  <2>3. ASSUME NEW x \in Found(f, off), NEW m,
               m.off = MapFound(x, off, count).off,
               m.count = MapFound(x, off, count).count,
               m.file = f, m.curoff = n, m.aborts = FALSE
        PROVE  MapsOnto(f, n, m, off, count, cmd)
    <3>1. x \in f.extents /\ Within(off, x.foff, x.count)
      BY DEF Found
    <3>2. /\ x.foff \in Nat /\ x.doff \in Nat /\ x.count \in Nat \ {0}
          /\ x.foff <= off /\ off < x.foff + x.count
      BY <1>1, <3>1 DEF Within
    <3>3. PICK r : r = x.foff + x.count - off
      OBVIOUS
    <3>4. r \in Int /\ count \in Int /\ r >= 1 /\ off + r = x.foff + x.count
      BY <3>2, <3>3
    <3>5. m.count = Min({count, r})
      BY <2>3, <3>3 DEF MapFound
    <3>6. m.count = IF count <= r THEN count ELSE r
      BY <3>4, <3>5, MinOfTwo
    <3>7. m.count \in 1..count /\ m.count <= r
      BY <3>4, <3>6
    <3>8. m.off = x.doff + (off - x.foff) /\ m.off \in Nat
      BY <2>3, <3>2 DEF MapFound
    <3>9. \A k \in 0..(m.count - 1) : MapsTo(m.file, off + k, m.off + k)
      <4>1. ASSUME NEW k \in 0..(m.count - 1)
            PROVE  MapsTo(f, off + k, m.off + k)
        <5>1. /\ Within(off + k, x.foff, x.count)
              /\ m.off + k = x.doff + ((off + k) - x.foff)
          BY <3>2, <3>4, <3>7, <3>8 DEF Within
        <5>2. QED
          BY <3>1, <5>1 DEF MapsTo
      <4>2. QED
        BY <2>3, <4>1
    <3>10. QED
      BY <2>3, <3>7, <3>8, <3>9 DEF MapsOnto
  <2>4. ASSUME NEW m \in MapResults(algo, reserve, f, cmd, off, count, n)
        PROVE  /\ MapsOnto(f, n, m, off, count, cmd)
               /\ algo = "stream" => m.file.pas = {}
    <3>1. PICK x \in Found(f, off) :
            m = [off |-> MapFound(x, off, count).off,
                 count |-> MapFound(x, off, count).count, file |-> f,
                 curoff |-> n, aborts |-> FALSE]
      BY <2>2
    <3>2. /\ m.off = MapFound(x, off, count).off
          /\ m.count = MapFound(x, off, count).count
          /\ m.file = f /\ m.curoff = n /\ m.aborts = FALSE
      BY <3>1
    <3>3. QED
      BY <2>3, <3>2
  <2>5. QED
    BY <2>1, <2>2, <2>4 DEF AllSound
<1>3. CASE ~IsMapped(f, off)
  <2>1. cmd = "write"
    BY <1>3 DEF Directions
  <2>2. /\ Found(f, off) = {} /\ Near(f, off) # {}
        /\ \A x \in Near(f, off) : x.foff \in Int
    BY <1>3, NearExists
  <2> DEFINE all(near) ==
        Allocations(algo, reserve, f, off, Cut(near, off, count), n)
             res(near, got) ==
        [off    |-> got.off, count |-> got.count,
         file   |-> [extents |-> WithBlocks(f, near, off, got),
                     pas |-> got.pas],
         curoff |-> got.curoff, aborts |-> got.aborts]
  <2>3. MapResults(algo, reserve, f, cmd, off, count, n) =
          UNION {{res(near, got) : got \in all(near)} : near \in Near(f, off)}
    BY <2>1, <2>2 DEF MapResults
  <2>4. ASSUME NEW near \in Near(f, off)
        PROVE  /\ all(near) # {}
               /\ \A got \in all(near) :
                    /\ MapsOnto(f, n, res(near, got), off, count, cmd)
                    /\ algo = "stream" => got.pas = {}
    <3>1. PICK c : c = Cut(near, off, count)
      OBVIOUS
    <3>2. c \in 1..count
      <4>1. near.foff \in Int
        BY <2>2
      <4>2. CASE near.foff > off
        <5>1. PICK r : r = near.foff - off
          OBVIOUS
        <5>2. r \in Int /\ count \in Int /\ r >= 1
          BY <4>1, <4>2, <5>1
        <5>3. c = Min({count, r})
          BY <3>1, <4>2, <5>1 DEF Cut
        <5>4. c = IF count <= r THEN count ELSE r
          BY <5>2, <5>3, MinOfTwo
        <5>5. QED
          BY <5>2, <5>4
      <4>3. CASE ~(near.foff > off)
        BY <3>1, <4>3 DEF Cut
      <4>4. QED
        BY <4>2, <4>3
    <3>3. c \in Nat \ {0} /\ Clear(f, off, c)
      BY <2>1, <3>2 DEF Clear
    <3>4. /\ all(near) # {}
          /\ \A got \in all(near) :
               /\ GotBlocks(f, n, got, FileWith(f, near, off, got), off, c)
               /\ algo = "stream" => got.pas = {}
      <4>1. PICK A : A = Allocations(algo, reserve, f, off, c, n)
        OBVIOUS
      <4>2. /\ A # {}
            /\ \A got \in A :
                 /\ GotBlocks(f, n, got, FileWith(f, near, off, got), off, c)
                 /\ algo = "stream" => got.pas = {}
        BY <3>3, <4>1, AllocationsOK, ZenonT(60)
      <4>3. A = all(near)
        BY <3>1, <4>1
      <4>4. QED
        BY <4>2, <4>3
    <3>5. ASSUME NEW got, NEW g, g = FileWith(f, near, off, got),
                 GotBlocks(f, n, got, g, off, c),
                 NEW m, m.off = got.off, m.count = got.count, m.file = g,
                 m.curoff = got.curoff, m.aborts = got.aborts
          PROVE  MapsOnto(f, n, m, off, count, cmd)
      <4>1. /\ got.count \in 1..c /\ got.off \in Nat /\ got.curoff \in Nat
            /\ n <= got.curoff /\ got.aborts = FALSE
            /\ SoundFile(g, got.curoff)
        BY <3>5 DEF GotBlocks
      <4>2. /\ \A b, d \in Nat : MapsTo(g, b, d) <=>
                 \/ MapsTo(f, b, d)
                 \/ Within(b, off, got.count) /\ d = got.off + (b - off)
            /\ \A b \in Nat : IsMapped(g, b) <=>
                 IsMapped(f, b) \/ Within(b, off, got.count)
        BY <3>5 DEF GotBlocks, Filled
      <4>3. \A b, d \in Nat : Holds(g, b, d) => Holds(f, b, d) \/ n <= d
        BY <3>5 DEF GotBlocks
      <4>4. \A k \in 0..(got.count - 1) : MapsTo(g, off + k, got.off + k)
        <5>1. ASSUME NEW k \in 0..(got.count - 1)
              PROVE  MapsTo(g, off + k, got.off + k)
          <6>1. /\ off + k \in Nat /\ got.off + k \in Nat
                /\ Within(off + k, off, got.count)
                /\ got.off + k = got.off + ((off + k) - off)
            BY <4>1 DEF Within
          <6>2. QED
            BY <4>2, <6>1
        <5>2. QED
          BY <5>1
      <4>5. \A b \in Nat : IsMapped(g, b) =>
              IsMapped(f, b) \/ b \in off..(off + got.count - 1)
        BY <4>1, <4>2 DEF Within
      <4>6. \A b, d \in Nat : MapsTo(f, b, d) => MapsTo(g, b, d)
        BY <4>2
      <4>7. m.count \in 1..count
        BY <3>2, <3>5, <4>1
      <4>8. QED
        BY <2>1, <3>5, <4>1, <4>3, <4>4, <4>5, <4>6, <4>7 DEF MapsOnto
    <3>6. QED
      BY <3>4, <3>5 DEF FileWith
  <2>5. \A near \in Near(f, off) : \A got \in all(near) :
          res(near, got).file.pas = got.pas
    OBVIOUS
  <2> HIDE DEF all, res
  <2>6. MapResults(algo, reserve, f, cmd, off, count, n) # {}
    BY <2>2, <2>3, <2>4
  <2>7. \A m \in MapResults(algo, reserve, f, cmd, off, count, n) :
          \E near \in Near(f, off) : \E got \in all(near) : m = res(near, got)
    BY <2>3
  <2>8. QED
    BY <2>4, <2>5, <2>6, <2>7 DEF AllSound
<1>4. QED
  BY <1>2, <1>3

-----------------------------------------------------------------------------
(* Queues of requests.                                                     *)
LEMMA PartsOfQueue ==
  ASSUME NEW S, SoundQueue(S)
  PROVE  /\ S = <<>> <=> PartsIn(S) = {}
         /\ S = <<>> <=> Len(S) = 0
         /\ \A r \in Elements(S) : /\ Elements(r.batch) # {}
                                   /\ Elements(r.batch) \subseteq PartsIn(S)
<1>1. /\ S \in Seq(GoodRequests) /\ Elements(S) \in SUBSET GoodRequests
  BY QueueOK
<1>2. (S = <<>> <=> Elements(S) = {}) /\ (S = <<>> <=> Len(S) = 0)
  BY <1>1, EmptyQueue
<1>3. ASSUME NEW r \in Elements(S)
      PROVE  /\ Elements(r.batch) # {}
             /\ Elements(r.batch) \subseteq PartsIn(S)
  <2>1. r \in GoodRequests
    BY <1>1
  <2>2. r.batch[1] \in Elements(r.batch)
    BY <2>1, GoodRequestOK
  <2>3. QED
    BY <2>2 DEF PartsIn, PartsOf
<1>4. PartsIn(S) = {} <=> Elements(S) = {}
  <2>1. Elements(S) = {} => PartsIn(S) = {}
    BY DEF PartsIn, PartsOf
  <2>2. QED
    BY <1>3, <2>1
<1>5. QED
  BY <1>2, <1>3, <1>4

LEMMA QueuesJoin ==
  ASSUME NEW q, NEW p, SoundQueue(q), SoundQueue(p),
         \A x \in PartsIn(q) : x \notin PartsIn(p), NEW t, Follows(q, p, t)
  PROVE  /\ SoundQueue(t) /\ Len(t) = Len(q) + Len(p)
         /\ \A x : x \in PartsIn(t) <=> x \in PartsIn(q) \/ x \in PartsIn(p)
<1>1. /\ q \in Seq(GoodRequests) /\ Distinct(q) /\ Apart(Elements(q))
      /\ p \in Seq(GoodRequests) /\ Distinct(p) /\ Apart(Elements(p))
  BY QueueOK
<1>2. /\ \A r \in Elements(q) : Elements(r.batch) # {}
                                /\ Elements(r.batch) \subseteq PartsIn(q)
      /\ \A r \in Elements(p) : Elements(r.batch) # {}
                                /\ Elements(r.batch) \subseteq PartsIn(p)
  BY PartsOfQueue
<1>3. \A x \in Elements(q) : x \notin Elements(p)
  BY <1>2
<1>4. /\ t \in Seq(GoodRequests) /\ Len(t) = Len(q) + Len(p) /\ Distinct(t)
      /\ \A x : x \in Elements(t) <=> x \in Elements(q) \/ x \in Elements(p)
  BY <1>1, <1>3, JoinQueues
<1>5. ASSUME NEW r \in Elements(t), NEW s \in Elements(t), r # s
      PROVE  Elements(r.batch) \cap Elements(s.batch) = {}
  <2>1. CASE r \in Elements(q) /\ s \in Elements(q)
    BY <1>1, <1>5, <2>1 DEF Apart
  <2>2. CASE r \in Elements(p) /\ s \in Elements(p)
    BY <1>1, <1>5, <2>2 DEF Apart
  <2>3. CASE r \in Elements(q) /\ s \in Elements(p)
    BY <1>2, <2>3
  <2>4. CASE r \in Elements(p) /\ s \in Elements(q)
    BY <1>2, <2>4
  <2>5. QED
    BY <1>4, <2>1, <2>2, <2>3, <2>4
<1>6. \A x : x \in PartsIn(t) <=> x \in PartsIn(q) \/ x \in PartsIn(p)
  BY <1>4 DEF PartsIn, PartsOf
<1>7. QED
  BY <1>4, <1>5, <1>6 DEF SoundQueue, Apart

LEMMA QueueTail ==
  ASSUME NEW q, SoundQueue(q), q # <<>>, NEW r, r = Head(q), NEW t, t = Tail(q)
  PROVE  /\ SoundQueue(t) /\ r \in GoodRequests /\ Len(t) = Len(q) - 1
         /\ PartsIn(t) \cap Elements(r.batch) = {}
         /\ \A x : x \in PartsIn(q) <=> x \in PartsIn(t) \/ x \in Elements(r.batch)
<1>1. q \in Seq(GoodRequests) /\ Distinct(q) /\ Apart(Elements(q))
      /\ Elements(q) \in SUBSET GoodRequests
  BY QueueOK
<1>2. /\ r \in GoodRequests /\ r \in Elements(q) /\ t \in Seq(GoodRequests)
      /\ Distinct(t) /\ Elements(t) = Elements(q) \ {r}
  BY <1>1, TailOfDistinct
<1>3. Len(t) = Len(q) - 1
  BY <1>1
<1>4. PICK R : R = Elements(q)
  OBVIOUS
<1>5. /\ Apart(R \ {r}) /\ PartsOf(R \ {r}) = PartsOf(R) \ Elements(r.batch)
      /\ Elements(r.batch) \subseteq PartsOf(R)
  BY <1>1, <1>2, <1>4, ShrinkSet
<1>6. PartsIn(q) = PartsOf(R) /\ PartsIn(t) = PartsOf(R \ {r})
      /\ Apart(Elements(t))
  BY <1>2, <1>4, <1>5 DEF PartsIn
<1>7. SoundQueue(t)
  BY <1>2, <1>6 DEF SoundQueue
<1>8. QED
  BY <1>2, <1>3, <1>5, <1>6, <1>7

LEMMA EmptyQueueOK == SoundQueue(<<>>) /\ PartsIn(<<>>) = {} /\ Len(<<>>) = 0
<1>1. PICK q : q = <<>>
  OBVIOUS
<1>2. q \in Seq(GoodRequests) /\ Len(q) = 0
  BY <1>1
<1>3. Distinct(q) /\ Elements(q) = {}
  BY <1>1, <1>2, EmptyQueue
<1>4. QED
  BY <1>1, <1>2, <1>3 DEF SoundQueue, Apart, PartsIn, PartsOf
-----------------------------------------------------------------------------
(* The parts on the disk, and all that are not done yet.                   *)
OnDisk   == IF disk = "finished" THEN Elements(curq.batch) ELSE {}
Underway == PartsIn(elv.queue) \cup PartsIn(ready) \cup OnDisk

\* The elevator and the disk have different parts, the elevator counts the
\* requests that the disk has, and the disk is awake.
DiskInv ==
  /\ SoundElevator(elv) /\ SoundQueue(ready)
  /\ disk \in {"idle", "work", "finished"}
  /\ plugged \in BOOLEAN /\ run \in BOOLEAN
  /\ disk = "finished" => curq \in GoodRequests
  /\ PartsIn(elv.queue) \cap PartsIn(ready) = {}
  /\ OnDisk \cap PartsIn(elv.queue) = {} /\ OnDisk \cap PartsIn(ready) = {}
  /\ elv.inflight = Len(ready) + (IF disk = "finished" THEN 1 ELSE 0)
  /\ DiskAwake

(* Disk::Request wakes the disk for what was in the elevator.              *)
LEMMA RequestOK ==
  ASSUME NEW e, SoundElevator(e), SoundQueue(ready), Request(e),
         plugged' = FALSE, curq' = curq,
         disk \in {"idle", "work", "finished"}, run \in BOOLEAN,
         run <=> disk # "idle", disk = "finished" => curq \in GoodRequests,
         PartsIn(e.queue) \cap PartsIn(ready) = {},
         OnDisk \cap PartsIn(e.queue) = {}, OnDisk \cap PartsIn(ready) = {},
         e.inflight = Len(ready) + (IF disk = "finished" THEN 1 ELSE 0),
         ready # <<>> /\ disk = "idle" => e.queue # <<>>
  PROVE  /\ DiskInv'
         /\ \A x : x \in Underway' <=> \/ x \in PartsIn(e.queue)
                                       \/ x \in PartsIn(ready) \/ x \in OnDisk
<1>1. elv' = Drained(conf.sched, e) /\ ready' = ready \o e.queue
  BY DEF Request
<1>2. /\ SoundElevator(elv') /\ elv'.queue = <<>>
      /\ elv'.inflight = e.inflight + Len(e.queue)
  BY <1>1, DrainedOK
<1>3. SoundQueue(e.queue) /\ Len(e.queue) \in Nat /\ Len(ready) \in Nat
  BY ElevatorOK, QueueOK
<1>4. Follows(ready, e.queue, ready')
  BY <1>1 DEF Follows
<1>5. /\ SoundQueue(ready') /\ Len(ready') = Len(ready) + Len(e.queue)
      /\ \A x : x \in PartsIn(ready') <=>
                  x \in PartsIn(ready) \/ x \in PartsIn(e.queue)
  <2>1. \A x \in PartsIn(ready) : x \notin PartsIn(e.queue)
    OBVIOUS
  <2>2. QED
    BY <1>3, <1>4, <2>1, QueuesJoin
<1>6. (e.queue = <<>> <=> Len(e.queue) = 0)
      /\ (ready = <<>> <=> Len(ready) = 0)
      /\ (ready' = <<>> <=> Len(ready') = 0)
  BY <1>3, <1>5, PartsOfQueue
<1>7. /\ disk' \in {"idle", "work", "finished"} /\ run' \in BOOLEAN
      /\ run' <=> disk' # "idle"
      /\ disk' = "finished" <=> disk = "finished"
      /\ disk' = "idle" => ready' = <<>>
  <2>1. CASE disk = "idle" /\ e.queue # <<>>
    BY <2>1 DEF Request
  <2>2. CASE ~(disk = "idle" /\ e.queue # <<>>)
    <3>1. disk' = disk /\ run' = run
      BY <2>2 DEF Request
    <3>2. disk = "idle" => Len(ready') = 0
      BY <1>3, <1>5, <1>6, <2>2
    <3>3. QED
      BY <1>6, <3>1, <3>2
  <2>3. QED
    BY <2>1, <2>2
<1>8. OnDisk' = OnDisk
  BY <1>7 DEF OnDisk
<1>9. PartsIn(elv'.queue) = {}
  BY <1>2, EmptyQueueOK
<1>10. elv'.inflight = Len(ready') + (IF disk' = "finished" THEN 1 ELSE 0)
  <2>1. PICK k : k = IF disk = "finished" THEN 1 ELSE 0
    OBVIOUS
  <2>2. k \in Nat /\ k = IF disk' = "finished" THEN 1 ELSE 0
    BY <1>7, <2>1
  <2>3. e.inflight = Len(ready) + k
    BY <2>1
  <2>4. PICK a, b, c : a = Len(ready) /\ b = Len(e.queue) /\ c = Len(ready')
    OBVIOUS
  <2>5. a \in Nat /\ b \in Nat /\ c = a + b /\ elv'.inflight = (a + k) + b
    BY <1>2, <1>3, <1>5, <2>3, <2>4
  <2>6. elv'.inflight = c + k
    BY <2>2, <2>5
  <2>7. QED
    BY <2>2, <2>4, <2>6
<1>11. DiskAwake'
  BY <1>2, <1>7 DEF DiskAwake
<1>12. DiskInv'
  BY <1>2, <1>5, <1>7, <1>8, <1>9, <1>10, <1>11 DEF DiskInv
<1>13. QED
  BY <1>5, <1>8, <1>9, <1>12 DEF Underway

(* Elevator::Enqueue with the plug.                                        *)
LEMMA SubmitIoreqOK ==
  ASSUME DiskInv, NEW q \in PartSet, q \notin Underway, SubmitIoreq(q),
         curq' = curq
  PROVE  /\ DiskInv'
         /\ \A x : x \in Underway' <=> x \in Underway \/ x = q
<1>1. /\ SoundElevator(elv) /\ SoundQueue(ready)
      /\ disk \in {"idle", "work", "finished"}
      /\ plugged \in BOOLEAN /\ run \in BOOLEAN
      /\ disk = "finished" => curq \in GoodRequests
      /\ PartsIn(elv.queue) \cap PartsIn(ready) = {}
      /\ OnDisk \cap PartsIn(elv.queue) = {} /\ OnDisk \cap PartsIn(ready) = {}
      /\ elv.inflight = Len(ready) + (IF disk = "finished" THEN 1 ELSE 0)
  BY DEF DiskInv
<1>2. /\ plugged <=> elv.queue # <<>>
      /\ run <=> disk # "idle"
      /\ ready # <<>> /\ disk = "idle" => plugged
  BY DEF DiskInv, DiskAwake
<1>3. q \notin PartsIn(elv.queue) /\ q \notin PartsIn(ready) /\ q \notin OnDisk
  BY DEF Underway
<1> DEFINE new  == ~Mergeable(elv, q)
           plug == plugged \/ (new /\ elv.queue = <<>>)
<1>4. plug
  <2>1. elv.queue = <<>> => new
    <3>1. ASSUME elv.queue = <<>>
          PROVE  Fitting(elv, q, BackMerge(elv, q) \cup FrontMerge(elv, q)) = {}
      <4>1. \A i \in BackMerge(elv, q) \cup FrontMerge(elv, q) :
               i \in DOMAIN elv.queue
        BY <1>1, MergePlaces
      <4>2. DOMAIN elv.queue = {}
        BY <3>1
      <4>3. QED
        BY <4>1, <4>2 DEF Fitting
    <3>2. QED
      BY <3>1 DEF Mergeable
  <2>2. QED
    BY <1>1, <1>2, <2>1
<1>5. PICK e \in Enqueued(conf.sched, elv, q) :
        IF new /\ plug /\ GetPendingNum(e) >= UnplugThreshold
        THEN plugged' = FALSE /\ Request(e)
        ELSE plugged' = plug /\ elv' = e /\ UNCHANGED <<ready, disk, run>>
  BY DEF SubmitIoreq
<1> HIDE DEF new, plug
<1>6. /\ SoundElevator(e) /\ e.inflight = elv.inflight
      /\ \A x : x \in PartsIn(e.queue) <=> x \in PartsIn(elv.queue) \/ x = q
  <2>1. Taken(elv, q, e)
    BY <1>1, <1>3, EnqueuedOK
  <2>2. QED
    BY <2>1 DEF Taken
<1>7. /\ PartsIn(e.queue) \cap PartsIn(ready) = {}
      /\ OnDisk \cap PartsIn(e.queue) = {}
  BY <1>1, <1>3, <1>6
<1>8. e.queue # <<>>
  <2>1. PartsIn(e.queue) # {} /\ SoundQueue(e.queue)
    BY <1>6, ElevatorOK
  <2>2. QED
    BY <2>1, PartsOfQueue
<1>9. CASE plugged' = FALSE /\ Request(e)
  <2>1. e.inflight = Len(ready) + (IF disk = "finished" THEN 1 ELSE 0)
    BY <1>1, <1>6
  <2>2. /\ DiskInv'
        /\ \A x : x \in Underway' <=> \/ x \in PartsIn(e.queue)
                                      \/ x \in PartsIn(ready) \/ x \in OnDisk
    BY <1>1, <1>2, <1>6, <1>7, <1>8, <1>9, <2>1, RequestOK
  <2>3. QED
    BY <1>6, <2>2 DEF Underway
<1>10. CASE plugged' = plug /\ elv' = e /\ UNCHANGED <<ready, disk, run>>
  <2>1. /\ plugged' = TRUE /\ elv' = e /\ ready' = ready /\ disk' = disk
        /\ run' = run
    BY <1>4, <1>10
  <2>2. OnDisk' = OnDisk
    BY <2>1 DEF OnDisk
  <2>3. DiskAwake'
    BY <1>2, <1>8, <2>1 DEF DiskAwake
  <2>4. DiskInv'
    BY <1>1, <1>6, <1>7, <2>1, <2>2, <2>3 DEF DiskInv
  <2>5. QED
    BY <1>6, <2>1, <2>2, <2>4 DEF Underway
<1>11. QED
  BY <1>5, <1>9, <1>10

(* Disk::DiskUnplugWork                                                    *)
LEMMA UnplugWorkOK ==
  ASSUME DiskInv, UnplugWork
  PROVE  /\ DiskInv'
         /\ \A x : x \in Underway' <=> x \in Underway
<1>1. /\ SoundElevator(elv) /\ SoundQueue(ready)
      /\ disk \in {"idle", "work", "finished"} /\ run \in BOOLEAN
      /\ disk = "finished" => curq \in GoodRequests
      /\ PartsIn(elv.queue) \cap PartsIn(ready) = {}
      /\ OnDisk \cap PartsIn(elv.queue) = {} /\ OnDisk \cap PartsIn(ready) = {}
      /\ elv.inflight = Len(ready) + (IF disk = "finished" THEN 1 ELSE 0)
  BY DEF DiskInv
<1>2. /\ elv.queue # <<>>
      /\ run <=> disk # "idle"
  BY DEF DiskInv, DiskAwake, UnplugWork
<1>3. Request(elv) /\ plugged' = FALSE /\ curq' = curq
  BY DEF UnplugWork
<1>4. /\ DiskInv'
      /\ \A x : x \in Underway' <=> \/ x \in PartsIn(elv.queue)
                                    \/ x \in PartsIn(ready) \/ x \in OnDisk
  BY <1>1, <1>2, <1>3, RequestOK
<1>5. QED
  BY <1>4 DEF Underway

(* disk_WorkState                                                          *)
LEMMA WorkOK ==
  ASSUME SoundElevator(elv'), SoundQueue(ready), Work(ready),
         elv'.queue = elv.queue, elv'.inflight = Len(ready),
         plugged \in BOOLEAN, plugged' = plugged, plugged <=> elv.queue # <<>>,
         PartsIn(elv.queue) \cap PartsIn(ready) = {}
  PROVE  /\ DiskInv'
         /\ \A x : x \in Underway' <=>
                     x \in PartsIn(elv.queue) \/ x \in PartsIn(ready)
<1>1. CASE ready = <<>>
  <2>1. ready' = ready /\ disk' = "idle" /\ run' = FALSE
    BY <1>1 DEF Work
  <2>2. OnDisk' = {} /\ PartsIn(ready') = {} /\ Len(ready') = 0
    BY <1>1, <2>1, EmptyQueueOK DEF OnDisk
  <2>3. DiskAwake'
    BY <1>1, <2>1 DEF DiskAwake
  <2>4. elv'.inflight = Len(ready') + (IF disk' = "finished" THEN 1 ELSE 0)
    BY <2>1, <2>2
  <2>5. DiskInv'
    BY <2>1, <2>2, <2>3, <2>4 DEF DiskInv
  <2>6. QED
    BY <1>1, <2>1, <2>2, <2>5 DEF Underway
<1>2. CASE ready # <<>>
  <2>1. /\ ready' = Tail(ready) /\ disk' = "finished" /\ run' = TRUE
        /\ curq' = Head(ready)
    BY <1>2 DEF Work, NextRequest
  <2>2. /\ SoundQueue(ready') /\ curq' \in GoodRequests
        /\ Len(ready') = Len(ready) - 1
        /\ PartsIn(ready') \cap Elements(curq'.batch) = {}
        /\ \A x : x \in PartsIn(ready) <=>
                    x \in PartsIn(ready') \/ x \in Elements(curq'.batch)
    BY <1>2, <2>1, QueueTail
  <2>3. OnDisk' = Elements(curq'.batch)
    BY <2>1 DEF OnDisk
  <2>4. DiskAwake'
    BY <2>1 DEF DiskAwake
  <2>5. elv'.inflight = Len(ready') + (IF disk' = "finished" THEN 1 ELSE 0)
    <3>1. Len(ready) \in Nat
      BY QueueOK
    <3>2. QED
      BY <2>1, <2>2, <3>1
  <2>6. DiskInv'
    BY <2>1, <2>2, <2>3, <2>4, <2>5 DEF DiskInv
  <2>7. QED
    BY <2>2, <2>3, <2>6 DEF Underway
<1>3. QED
  BY <1>1, <1>2

(* Disk::DiskStateMachine                                                  *)
LEMMA RunDiskOK ==
  ASSUME DiskInv, RunDisk
  PROVE  /\ DiskInv'
         /\ disk = "work" => /\ io' = io /\ ended' = ended
                             /\ \A x : x \in Underway' <=> x \in Underway
         /\ disk # "work" =>
              /\ disk = "finished" /\ EndRequest(curq)
              /\ \A x : x \in Underway' <=>
                          x \in Underway /\ x \notin Elements(curq.batch)
<1>1. /\ SoundElevator(elv) /\ SoundQueue(ready)
      /\ disk \in {"idle", "work", "finished"}
      /\ plugged \in BOOLEAN /\ run \in BOOLEAN
      /\ disk = "finished" => curq \in GoodRequests
      /\ PartsIn(elv.queue) \cap PartsIn(ready) = {}
      /\ OnDisk \cap PartsIn(elv.queue) = {} /\ OnDisk \cap PartsIn(ready) = {}
      /\ elv.inflight = Len(ready) + (IF disk = "finished" THEN 1 ELSE 0)
  BY DEF DiskInv
<1>2. /\ plugged <=> elv.queue # <<>>
      /\ run <=> disk # "idle"
      /\ ready # <<>> /\ disk = "idle" => plugged
  BY DEF DiskInv, DiskAwake
<1>3. plugged' = plugged /\ Len(ready) \in Nat
  BY <1>1, QueueOK DEF RunDisk
<1>4. CASE disk = "work"
  <2>1. Work(ready) /\ elv' = elv /\ io' = io /\ ended' = ended
    BY <1>4 DEF RunDisk
  <2>2. OnDisk = {} /\ elv.inflight = Len(ready)
    BY <1>1, <1>3, <1>4 DEF OnDisk
  <2>3. /\ DiskInv'
        /\ \A x : x \in Underway' <=>
                    x \in PartsIn(elv.queue) \/ x \in PartsIn(ready)
    BY <1>1, <1>2, <1>3, <2>1, <2>2, WorkOK
  <2>4. QED
    BY <1>4, <2>1, <2>2, <2>3 DEF Underway
<1>5. CASE disk # "work"
  <2>1. /\ disk = "finished" /\ EndRequest(curq)
        /\ IF plugged THEN /\ disk' = "idle" /\ run' = FALSE
                           /\ curq' = None /\ UNCHANGED ready
                      ELSE Work(ready)
    BY <1>5 DEF RunDisk
  <2>2. OnDisk = Elements(curq.batch) /\ curq \in GoodRequests
    BY <1>1, <2>1 DEF OnDisk
  <2>3. /\ SoundElevator(elv') /\ elv'.queue = elv.queue
        /\ elv'.inflight = elv.inflight - 1
    <3>1. elv' = Put(elv, curq)
      BY <2>1 DEF EndRequest
    <3>2. QED
      BY <1>1, <2>2, <3>1, PutOK
  <2>4. elv'.inflight = Len(ready)
    BY <1>1, <1>3, <2>1, <2>3
  <2>5. /\ DiskInv'
        /\ \A x : x \in Underway' <=>
                    x \in PartsIn(elv.queue) \/ x \in PartsIn(ready)
    <3>1. CASE plugged
      <4>1. disk' = "idle" /\ run' = FALSE /\ ready' = ready
        BY <2>1, <3>1
      <4>2. OnDisk' = {}
        BY <4>1 DEF OnDisk
      <4>3. DiskAwake'
        BY <1>2, <1>3, <2>3, <3>1, <4>1 DEF DiskAwake
      <4>4. elv'.inflight = Len(ready') + (IF disk' = "finished" THEN 1 ELSE 0)
        BY <1>3, <2>4, <4>1
      <4>5. DiskInv'
        BY <1>1, <1>3, <2>3, <4>1, <4>2, <4>3, <4>4 DEF DiskInv
      <4>6. QED
        BY <2>3, <4>1, <4>2, <4>5 DEF Underway
    <3>2. CASE ~plugged
      <4>1. Work(ready)
        BY <2>1, <3>2
      <4>2. QED
        BY <1>1, <1>2, <1>3, <2>3, <2>4, <4>1, WorkOK
    <3>3. QED
      BY <3>1, <3>2
  <2>6. \A x : x \in Underway' <=> x \in Underway /\ x \notin Elements(curq.batch)
    BY <1>1, <2>2, <2>5 DEF Underway
  <2>7. QED
    BY <1>5, <2>1, <2>5, <2>6
<1>6. QED
  BY <1>4, <1>5

-----------------------------------------------------------------------------
(* The progress of the I/Os, for the files fs, the threads t, the parts U  *)
(* that are underway and the parts E that are done.                        *)
IOStates ==
  [state : {"new", "submit", "submitted", "done"}, off : Nat, left : Nat,
   ref : Nat, part : PartSet \cup {None}]

\* A part is the blocks of a file from b on.
MapsAll(f, b, p) == \A n \in 0..(p.count - 1) : MapsTo(f, b + n, p.off + n)

\* A part has been cut from what its I/O has submitted.
Lies(fs, t, p) ==
  /\ p \in PartSet /\ p.cmd = p.io.cmd
  /\ \E b \in Nat : /\ p.io.off <= b /\ b + p.count <= t[p.io].off
                    /\ MapsAll(fs[p.io.file], b, p)

Progress(t, i) ==
  /\ i.off <= t[i].off /\ t[i].off + t[i].left = i.off + i.count
  /\ t[i].ref + t[i].left <= i.count

PartsUnder(U, i) == {p \in U : p.io = i}
Counted(t, U, i) ==
  /\ IsFiniteSet(PartsUnder(U, i))
  /\ t[i].ref = Cardinality(PartsUnder(U, i))

\* A part holds the block b of an I/O.
Covers(fs, i, b, p) ==
  p.io = i /\ \E d \in Nat : /\ Within(d, p.off, p.count)
                             /\ MapsTo(fs[i.file], b, d)

Transfer(fs, t, U, E) ==
  /\ t \in [IOs -> IOStates] /\ U \cap E = {}
  /\ \A i \in IOs : Progress(t, i) /\ Counted(t, U, i)
  /\ \A i \in IOs : \A b \in i.off..(t[i].off - 1) :
       \E p \in U \cup E : Covers(fs, i, b, p)
  /\ \A p \in U \cup E : Lies(fs, t, p)
  /\ \A p, q \in U \cup E : \A d \in Nat :
       /\ p.io = q.io
       /\ Within(d, p.off, p.count) /\ Within(d, q.off, q.count)
       => p = q

\* What the state of a thread says, and what it has waited for.
Phase(fs, t, i) ==
  /\ t[i].state = "new" => t[i].left = i.count /\ t[i].ref = 0
  /\ t[i].state = "submit" =>
       /\ t[i].part \in PartSet /\ t[i].part.io = i /\ t[i].part.cmd = i.cmd
       /\ t[i].part.count <= t[i].left
       /\ MapsAll(fs[i.file], t[i].off, t[i].part)
  /\ t[i].state = "submitted" => t[i].left = 0 /\ t[i].ref # 0
  /\ t[i].state = "done" => t[i].left = 0 /\ t[i].ref = 0
  /\ t[i].state # "new" => \A w \in Earlier(i) \ {i} : t[w].state = "done"

\* The files have different blocks of the disk.
FileInv(fs, n) ==
  /\ n \in Nat /\ DOMAIN fs = Files
  /\ \A f \in Files : /\ SoundFile(fs[f], n)
                      /\ conf.algo = "stream" => fs[f].pas = {}
  /\ \A f, g \in Files : \A b, c, d \in Nat :
       Holds(fs[f], b, d) /\ Holds(fs[g], c, d) => f = g

\* How far the mapping of an I/O has come, and that no other block is mapped.
Reach(t, i) ==
  t[i].off + (IF t[i].state = "submit" THEN t[i].part.count ELSE 0)
Written(fs, R) ==
  \A f \in Files : \A b \in Nat : IsMapped(fs[f], b) =>
    \E w \in IOs : /\ w.cmd = "write" /\ w.file = f
                   /\ w.off <= b /\ b < R[w]
Reaches(t) == [i \in IOs |-> Reach(t, i)]

IInv ==
  /\ conf \in Configs /\ aborted = FALSE
  /\ DiskInv
  /\ FileInv(files, curoff)
  /\ Transfer(files, io, Underway, ended)
  /\ \A i \in IOs : Phase(files, io, i)
  /\ Written(files, Reaches(io))
-----------------------------------------------------------------------------
LEMMA IOsOK ==
  /\ \A i \in IOs : /\ i.cmd \in Directions /\ i.off \in Nat
                    /\ i.count \in Nat \ {0} /\ i.file \in Files
  /\ \A i, j \in IOs : i.cmd = j.cmd /\ Overlap(i, j) => i = j
  /\ \A i \in IOs : \A b \in i.off..(i.off + i.count - 1) :
       \E w \in Earlier(i) : Within(b, w.off, w.count)
BY StorageAssumption DEF StorageAssumption, Files

\* Nothing moves that is mapped.
Grows(fs, gs) ==
  \A f \in Files : \A b, d \in Nat : MapsTo(fs[f], b, d) => MapsTo(gs[f], b, d)

LEMMA MapsAllGrows ==
  ASSUME NEW fs, NEW gs, Grows(fs, gs), NEW i \in IOs, NEW b \in Nat,
         NEW p \in PartSet, MapsAll(fs[i.file], b, p)
  PROVE  MapsAll(gs[i.file], b, p)
<1>1. i.file \in Files
  BY IOsOK
<1>2. p.off \in Nat /\ p.count \in Nat
  BY DEF PartSet
<1>3. ASSUME NEW n \in 0..(p.count - 1)
      PROVE  MapsTo(gs[i.file], b + n, p.off + n)
  <2>1. b + n \in Nat /\ p.off + n \in Nat
    BY <1>2
  <2>2. MapsTo(fs[i.file], b + n, p.off + n)
    BY DEF MapsAll
  <2>3. QED
    BY <1>1, <2>1, <2>2 DEF Grows
<1>4. QED
  BY <1>3 DEF MapsAll

\* The same I/Os have submitted as much, and wait for as much.
SameProgress(t, u) ==
  \A i \in IOs : /\ u[i].off = t[i].off /\ u[i].left = t[i].left
                 /\ u[i].ref = t[i].ref

LEMMA TransferStays ==
  ASSUME NEW fs, NEW gs, Grows(fs, gs), NEW t, NEW u \in [IOs -> IOStates],
         SameProgress(t, u), NEW U, NEW E, Transfer(fs, t, U, E)
  PROVE  Transfer(gs, u, U, E)
<1>1. \A i \in IOs : /\ u[i].off = t[i].off /\ u[i].left = t[i].left
                     /\ u[i].ref = t[i].ref /\ t[i].off \in Nat
  BY DEF SameProgress, Transfer, IOStates
<1>2. \A i \in IOs : Progress(u, i) /\ Counted(u, U, i)
  BY <1>1 DEF Transfer, Progress, Counted
<1>3. ASSUME NEW i \in IOs, NEW b \in i.off..(u[i].off - 1)
      PROVE  \E p \in U \cup E : Covers(gs, i, b, p)
  <2>1. b \in Nat /\ i.file \in Files /\ b \in i.off..(t[i].off - 1)
    BY <1>1, IOsOK
  <2>2. PICK p \in U \cup E : Covers(fs, i, b, p)
    BY <2>1 DEF Transfer
  <2>3. Covers(gs, i, b, p)
    BY <2>1, <2>2 DEF Covers, Grows
  <2>4. QED
    BY <2>3
<1>4. ASSUME NEW p \in U \cup E
      PROVE  Lies(gs, u, p)
  <2>1. /\ p \in PartSet /\ p.cmd = p.io.cmd
    BY DEF Transfer, Lies
  <2>2. PICK b \in Nat : /\ p.io.off <= b /\ b + p.count <= t[p.io].off
                         /\ MapsAll(fs[p.io.file], b, p)
    BY DEF Transfer, Lies
  <2>3. p.io \in IOs
    BY <2>1 DEF PartSet
  <2>4. MapsAll(gs[p.io.file], b, p)
    BY <2>1, <2>2, <2>3, MapsAllGrows
  <2>5. b + p.count <= u[p.io].off
    BY <1>1, <2>2, <2>3
  <2>6. QED
    BY <2>1, <2>2, <2>4, <2>5 DEF Lies
<1>5. QED
  BY <1>2, <1>3, <1>4 DEF Transfer

LEMMA SoundLonger ==
  ASSUME NEW n \in Nat, NEW k \in Nat, n <= k, NEW f, SoundFile(f, n)
  PROVE  SoundFile(f, k)
<1>1. \A b, d \in Nat : Holds(f, b, d) => d < k
  <2>1. ASSUME NEW b \in Nat, NEW d \in Nat, Holds(f, b, d)
        PROVE  d < k
    <3>1. d < n
      BY <2>1 DEF SoundFile
    <3>2. QED
      BY <3>1
  <2>2. QED
    BY <2>1
<1>2. QED
  BY <1>1 DEF SoundFile

(* The files after a part of one of them has been mapped.                  *)
LEMMA FilesGrow ==
  ASSUME NEW fs, NEW n, FileInv(fs, n), NEW j \in Files,
         NEW m, NEW off \in Nat, NEW count \in Nat, NEW cmd,
         MapsOnto(fs[j], n, m, off, count, cmd),
         conf.algo = "stream" => m.file.pas = {},
         NEW gs, gs = [fs EXCEPT ![j] = m.file]
  PROVE  FileInv(gs, m.curoff) /\ Grows(fs, gs)
<1>1. /\ n \in Nat /\ DOMAIN fs = Files
      /\ \A f \in Files : /\ SoundFile(fs[f], n)
                          /\ conf.algo = "stream" => fs[f].pas = {}
  BY DEF FileInv
<1>2. /\ m.curoff \in Nat /\ n <= m.curoff /\ SoundFile(m.file, m.curoff)
      /\ \A b, d \in Nat : MapsTo(fs[j], b, d) => MapsTo(m.file, b, d)
      /\ \A b, d \in Nat : Holds(m.file, b, d) => Holds(fs[j], b, d) \/ n <= d
  BY DEF MapsOnto
<1>3. /\ DOMAIN gs = Files /\ gs[j] = m.file
      /\ \A f \in Files : f # j => gs[f] = fs[f]
  BY <1>1
<1>4. Grows(fs, gs)
  <2>1. ASSUME NEW f \in Files, NEW b \in Nat, NEW d \in Nat,
               MapsTo(fs[f], b, d)
        PROVE  MapsTo(gs[f], b, d)
    BY <1>2, <1>3, <2>1
  <2>2. QED
    BY <2>1 DEF Grows
<1>5. \A f \in Files : SoundFile(gs[f], m.curoff)
  <2>1. ASSUME NEW f \in Files, f # j
        PROVE  SoundFile(gs[f], m.curoff)
    BY <1>1, <1>2, <1>3, <2>1, SoundLonger
  <2>2. QED
    BY <1>2, <1>3, <2>1
<1>6. ASSUME NEW b \in Nat, NEW c \in Nat, NEW d \in Nat, NEW f \in Files,
             f # j, Holds(gs[j], b, d), Holds(gs[f], c, d)
      PROVE  FALSE
  <2>1. Holds(fs[f], c, d) /\ d < n
    BY <1>1, <1>3, <1>6 DEF SoundFile
  <2>2. ~Holds(fs[j], b, d)
    BY <1>6, <2>1 DEF FileInv
  <2>3. n <= d
    BY <1>2, <1>3, <1>6, <2>2
  <2>4. QED
    BY <1>1, <2>1, <2>3
<1>7. ASSUME NEW f \in Files, NEW g \in Files, NEW b \in Nat, NEW c \in Nat,
             NEW d \in Nat, Holds(gs[f], b, d), Holds(gs[g], c, d), f # g
      PROVE  FALSE
  <2>1. CASE f = j
    BY <1>6, <1>7, <2>1
  <2>2. CASE g = j
    BY <1>6, <1>7, <2>2
  <2>3. CASE f # j /\ g # j
    BY <1>3, <1>7, <2>3 DEF FileInv
  <2>4. QED
    BY <2>1, <2>2, <2>3
<1>8. \A f \in Files : conf.algo = "stream" => gs[f].pas = {}
  BY <1>1, <1>3
<1>9. QED
  BY <1>2, <1>3, <1>4, <1>5, <1>7, <1>8 DEF FileInv

\* An I/O in t is about to map its next part, R is how far all have come.
AboutToMap(fs, t, R, i) ==
  /\ t[i].state \in {"new", "submit"} /\ t[i].left # 0
  /\ \A j \in IOs \ {i} : Phase(fs, t, j)
  /\ \A w \in Earlier(i) \ {i} : t[w].state = "done"
  /\ \A j \in IOs : R[j] = IF j = i THEN t[i].off ELSE Reach(t, j)
  /\ Written(fs, R)

LEMMA ThreadOK ==
  ASSUME NEW fs, NEW t, NEW U, NEW E, Transfer(fs, t, U, E), NEW i \in IOs
  PROVE  /\ t[i] \in IOStates /\ t[i].off \in Nat /\ t[i].left \in Nat
         /\ t[i].ref \in Nat /\ i.off <= t[i].off
         /\ t[i].off + t[i].left = i.off + i.count
         /\ t[i].ref + t[i].left <= i.count
BY DEF Transfer, IOStates, Progress

(* A write maps blocks that are not mapped yet, since no two of them write *)
(* the same; a read comes after the writes of its blocks.                  *)
LEMMA MapsFresh ==
  ASSUME NEW fs, NEW n, FileInv(fs, n), NEW t, NEW U, NEW E,
         Transfer(fs, t, U, E), NEW R, NEW i \in IOs, AboutToMap(fs, t, R, i)
  PROVE  /\ i.cmd = "read" => IsMapped(fs[i.file], t[i].off)
         /\ i.cmd = "write" => Clear(fs[i.file], t[i].off, t[i].left)
<1>1. /\ i.off \in Nat /\ i.count \in Nat \ {0} /\ i.file \in Files
      /\ t[i].off \in Nat /\ t[i].left \in Nat \ {0} /\ i.off <= t[i].off
      /\ t[i].off + t[i].left = i.off + i.count
  BY IOsOK, ThreadOK DEF AboutToMap
<1>2. ASSUME i.cmd = "read"
      PROVE  IsMapped(fs[i.file], t[i].off)
  <2>1. t[i].off \in i.off..(i.off + i.count - 1)
    <3>1. PICK a, l, o, c : a = t[i].off /\ l = t[i].left
                            /\ o = i.off /\ c = i.count
      OBVIOUS
    <3>2. a \in Nat /\ l \in Nat \ {0} /\ o \in Nat /\ c \in Nat /\ o <= a
          /\ a + l = o + c
      BY <1>1, <3>1
    <3>3. a \in o..(o + c - 1)
      BY <3>2
    <3>4. QED
      BY <3>1, <3>3
  <2>2. PICK w \in Earlier(i) : Within(t[i].off, w.off, w.count)
    BY <2>1, IOsOK
  <2>3. w \in IOs /\ w.cmd = "write" /\ w.file = i.file
    BY DEF Earlier, Overlap
  <2>4. w # i
    BY <1>2, <2>3
  <2>5. t[w].left = 0
    BY <2>3, <2>4 DEF AboutToMap, Phase
  <2>6. /\ w.off \in Nat /\ w.count \in Nat /\ t[w].off \in Nat
        /\ t[w].off + t[w].left = w.off + w.count
    BY <2>3, IOsOK, ThreadOK
  <2>7. t[i].off \in w.off..(t[w].off - 1)
    BY <1>1, <2>2, <2>5, <2>6 DEF Within
  <2>8. PICK p \in U \cup E : Covers(fs, w, t[i].off, p)
    BY <2>3, <2>7 DEF Transfer
  <2>9. QED
    BY <2>3, <2>8 DEF Covers, MapsTo, IsMapped
<1>3. ASSUME i.cmd = "write", NEW b \in t[i].off..(t[i].off + t[i].left - 1),
             IsMapped(fs[i.file], b)
      PROVE  FALSE
  <2>1. b \in Nat /\ t[i].off <= b /\ b < i.off + i.count
    BY <1>1
  <2>2. PICK w \in IOs : /\ w.cmd = "write" /\ w.file = i.file
                         /\ w.off <= b /\ b < R[w]
    BY <1>1, <1>3, <2>1 DEF AboutToMap, Written
  <2>3. w # i
    BY <1>1, <2>1, <2>2 DEF AboutToMap
  <2>4. /\ w.off \in Nat /\ w.count \in Nat /\ t[w].off \in Nat
        /\ t[w].left \in Nat
        /\ t[w].off + t[w].left = w.off + w.count
    BY IOsOK, ThreadOK
  <2>5. R[w] \in Int /\ R[w] <= w.off + w.count
    <3>1. R[w] = Reach(t, w) /\ Phase(fs, t, w)
      BY <2>3 DEF AboutToMap
    <3>2. CASE t[w].state = "submit"
      <4>1. /\ t[w].part \in PartSet /\ t[w].part.count <= t[w].left
            /\ R[w] = t[w].off + t[w].part.count
        BY <3>1, <3>2 DEF Phase, Reach
      <4>2. t[w].part.count \in Nat
        BY <4>1 DEF PartSet
      <4>3. QED
        BY <2>4, <4>1, <4>2
    <3>3. CASE t[w].state # "submit"
      <4>1. R[w] = t[w].off
        BY <2>4, <3>1, <3>3 DEF Reach
      <4>2. QED
        BY <2>4, <4>1
    <3>4. QED
      BY <3>2, <3>3
  <2>6. Overlap(w, i)
    BY <1>1, <2>1, <2>2, <2>4, <2>5 DEF Overlap
  <2>7. QED
    BY <1>3, <2>2, <2>3, <2>6, IOsOK
<1>4. QED
  BY <1>2, <1>3 DEF Clear

Updated(f, x, v, g) == g = [f EXCEPT ![x] = v]

(* fs_RWAllocateBlockState: the I/O has its next part.                     *)
LEMMA NextPartOK ==
  ASSUME NEW fs, NEW n, FileInv(fs, n), NEW t, NEW U, NEW E,
         Transfer(fs, t, U, E), NEW R, NEW i \in IOs, AboutToMap(fs, t, R, i),
         NEW m, MapsOnto(fs[i.file], n, m, t[i].off, t[i].left, i.cmd),
         conf.algo = "stream" => m.file.pas = {},
         NEW gs, Updated(fs, i.file, m.file, gs),
         NEW s, s.state = "submit", s.off = t[i].off, s.left = t[i].left,
         s.ref = t[i].ref, s \in IOStates, s.part \in PartSet,
         s.part.io = i, s.part.cmd = i.cmd, s.part.off = m.off,
         s.part.count = m.count, NEW u, Updated(t, i, s, u)
  PROVE  /\ FileInv(gs, m.curoff) /\ Transfer(gs, u, U, E)
         /\ \A j \in IOs : Phase(gs, u, j)
         /\ Written(gs, Reaches(u))
<1>1. /\ i.off \in Nat /\ i.count \in Nat \ {0} /\ i.file \in Files
      /\ i.cmd \in Directions
      /\ t[i].off \in Nat /\ t[i].left \in Nat \ {0} /\ i.off <= t[i].off
      /\ t[i].off + t[i].left = i.off + i.count
  BY IOsOK, ThreadOK DEF AboutToMap
<1>2. FileInv(gs, m.curoff) /\ Grows(fs, gs)
  <2>1. t[i].left \in Nat
    BY <1>1
  <2>2. QED
    BY <1>1, <2>1, FilesGrow DEF Updated
<1>3. /\ DOMAIN t = IOs /\ u \in [IOs -> IOStates] /\ u[i] = s
      /\ \A j \in IOs : j # i => u[j] = t[j]
  BY DEF Transfer, Updated
<1>4. Transfer(gs, u, U, E)
  <2>1. SameProgress(t, u)
    BY <1>3 DEF SameProgress
  <2>2. QED
    BY <1>2, <1>3, <2>1, TransferStays
<1>5. /\ m.count \in 1..t[i].left /\ m.off \in Nat
      /\ \A k \in 0..(m.count - 1) : MapsTo(m.file, t[i].off + k, m.off + k)
      /\ \A b \in Nat : IsMapped(m.file, b) =>
           \/ IsMapped(fs[i.file], b)
           \/ i.cmd = "write" /\ b \in t[i].off..(t[i].off + m.count - 1)
  BY DEF MapsOnto
<1>6. /\ DOMAIN fs = Files /\ gs[i.file] = m.file
      /\ \A f \in Files : f # i.file => gs[f] = fs[f]
  BY <1>1 DEF FileInv, Updated
<1>7. \A w \in IOs : t[w].state = "done" => u[w].state = "done"
  <2>1. t[i].state # "done"
    BY DEF AboutToMap
  <2>2. QED
    BY <1>3, <2>1
<1>8. Phase(gs, u, i)
  <2>1. /\ s.part.io = i /\ s.part.cmd = i.cmd /\ s.part.off = m.off
        /\ s.part.count = m.count
    OBVIOUS
  <2>2. s.part \in PartSet
    OBVIOUS
  <2>3. MapsAll(gs[i.file], s.off, s.part)
    BY <1>5, <1>6, <2>1 DEF MapsAll
  <2>4. \A w \in Earlier(i) \ {i} : u[w].state = "done"
    <3>1. \A w \in Earlier(i) \ {i} : w \in IOs /\ t[w].state = "done"
      BY DEF Earlier, AboutToMap
    <3>2. QED
      BY <1>7, <3>1
  <2>5. s.part.count <= s.left
    BY <1>1, <1>5, <2>1
  <2>6. QED
    BY <1>3, <2>1, <2>2, <2>3, <2>4, <2>5 DEF Phase
<1>9. ASSUME NEW j \in IOs, j # i
      PROVE  Phase(gs, u, j)
  <2>1. Phase(fs, t, j) /\ u[j] = t[j]
    BY <1>3, <1>9 DEF AboutToMap
  <2>2. ASSUME t[j].state = "submit"
        PROVE  MapsAll(gs[j.file], t[j].off, t[j].part)
    <3>1. /\ t[j].part \in PartSet /\ t[j].off \in Nat
          /\ MapsAll(fs[j.file], t[j].off, t[j].part)
      BY <2>1, <2>2, ThreadOK DEF Phase
    <3>2. PICK hs, p, b : hs = gs /\ p = t[j].part /\ b = t[j].off
      OBVIOUS
    <3>3. Grows(fs, hs) /\ p \in PartSet /\ b \in Nat
          /\ MapsAll(fs[j.file], b, p)
      BY <1>2, <3>1, <3>2
    <3>4. MapsAll(hs[j.file], b, p)
      BY <3>3, MapsAllGrows
    <3>5. QED
      BY <3>2, <3>4
  <2>3. \A w \in Earlier(j) \ {j} : t[w].state = "done" => u[w].state = "done"
    BY <1>7 DEF Earlier
  <2>4. QED
    BY <2>1, <2>2, <2>3 DEF Phase
<1>10. Written(gs, Reaches(u))
  <2>1. /\ Reaches(u)[i] = t[i].off + m.count
        /\ \A j \in IOs : j # i => Reaches(u)[j] = R[j]
    <3>1. Reaches(u)[i] = t[i].off + m.count
      BY <1>3 DEF Reaches, Reach
    <3>2. \A j \in IOs : j # i => Reach(u, j) = Reach(t, j)
      BY <1>3 DEF Reach
    <3>3. QED
      BY <3>1, <3>2 DEF Reaches, AboutToMap
  <2>2. ASSUME NEW f \in Files, NEW b \in Nat, IsMapped(fs[f], b)
        PROVE  \E w \in IOs : /\ w.cmd = "write" /\ w.file = f
                              /\ w.off <= b /\ b < Reaches(u)[w]
    <3>1. PICK w \in IOs : /\ w.cmd = "write" /\ w.file = f
                           /\ w.off <= b /\ b < R[w]
      BY <2>2 DEF AboutToMap, Written
    <3>2. CASE w = i
      <4>1. R[w] = t[i].off
        BY <3>2 DEF AboutToMap
      <4>2. b < Reaches(u)[w]
        BY <1>1, <1>5, <2>1, <3>1, <3>2, <4>1
      <4>3. QED
        BY <3>1, <4>2
    <3>3. CASE w # i
      BY <2>1, <3>1, <3>3
    <3>4. QED
      BY <3>2, <3>3
  <2>3. ASSUME NEW f \in Files, NEW b \in Nat, IsMapped(gs[f], b)
        PROVE  \E w \in IOs : /\ w.cmd = "write" /\ w.file = f
                              /\ w.off <= b /\ b < Reaches(u)[w]
    <3>1. CASE IsMapped(fs[f], b)
      BY <2>2, <3>1
    <3>2. CASE ~IsMapped(fs[f], b)
      <4>1. f = i.file
        BY <1>6, <2>3, <3>2
      <4>2. i.cmd = "write" /\ b \in t[i].off..(t[i].off + m.count - 1)
        BY <1>5, <1>6, <2>3, <3>2, <4>1
      <4>3. i.off <= b /\ b < Reaches(u)[i]
        BY <1>1, <1>5, <2>1, <4>2
      <4>4. QED
        BY <4>1, <4>2, <4>3
    <3>3. QED
      BY <3>1, <3>2
  <2>4. QED
    BY <2>3 DEF Written
<1>11. QED
  BY <1>2, <1>4, <1>8, <1>9, <1>10

(* The record of a thread after some of its fields have changed.           *)
IsThread(s) ==
  s = [state |-> s.state, off |-> s.off, left |-> s.left, ref |-> s.ref,
       part |-> s.part]

LEMMA ThreadChanges ==
  ASSUME NEW s, IsThread(s), NEW x
  PROVE  /\ [s EXCEPT !.state = x] =
              [state |-> x, off |-> s.off, left |-> s.left, ref |-> s.ref,
               part |-> s.part]
         /\ [s EXCEPT !.off = x] =
              [state |-> s.state, off |-> x, left |-> s.left, ref |-> s.ref,
               part |-> s.part]
         /\ [s EXCEPT !.left = x] =
              [state |-> s.state, off |-> s.off, left |-> x, ref |-> s.ref,
               part |-> s.part]
         /\ [s EXCEPT !.ref = x] =
              [state |-> s.state, off |-> s.off, left |-> s.left, ref |-> x,
               part |-> s.part]
         /\ [s EXCEPT !.part = x] =
              [state |-> s.state, off |-> s.off, left |-> s.left,
               ref |-> s.ref, part |-> x]
<1>1. PICK a, b, c, d, e : a = s.state /\ b = s.off /\ c = s.left
                           /\ d = s.ref /\ e = s.part
  OBVIOUS
<1>2. s = [state |-> a, off |-> b, left |-> c, ref |-> d, part |-> e]
  BY <1>1 DEF IsThread
<1>3. [s EXCEPT !.state = x] =
        [state |-> x, off |-> b, left |-> c, ref |-> d, part |-> e]
  BY <1>2
<1>4. [s EXCEPT !.off = x] =
        [state |-> a, off |-> x, left |-> c, ref |-> d, part |-> e]
  BY <1>2
<1>5. [s EXCEPT !.left = x] =
        [state |-> a, off |-> b, left |-> x, ref |-> d, part |-> e]
  BY <1>2
<1>6. [s EXCEPT !.ref = x] =
        [state |-> a, off |-> b, left |-> c, ref |-> x, part |-> e]
  BY <1>2
<1>7. [s EXCEPT !.part = x] =
        [state |-> a, off |-> b, left |-> c, ref |-> d, part |-> x]
  BY <1>2
<1>8. QED
  BY <1>1, <1>3, <1>4, <1>5, <1>6, <1>7

WithPart(s, x, y)       == [s EXCEPT !.state = x, !.part = y]
WithRef(s, x, y)        == [s EXCEPT !.ref = x, !.state = y]
Advanced(s, x, y, v, w) ==
  [s EXCEPT !.ref = x, !.off = y, !.left = v, !.part = w]

LEMMA ThreadFields ==
  ASSUME NEW s, IsThread(s), NEW x, NEW y, NEW v, NEW w
  PROVE  /\ WithPart(s, x, y) =
              [state |-> x, off |-> s.off, left |-> s.left, ref |-> s.ref,
               part |-> y]
         /\ WithRef(s, x, y) =
              [state |-> y, off |-> s.off, left |-> s.left, ref |-> x,
               part |-> s.part]
         /\ Advanced(s, x, y, v, w) =
              [state |-> s.state, off |-> y, left |-> v, ref |-> x,
               part |-> w]
<1>1. PICK f : f = [s EXCEPT !.state = x]
  OBVIOUS
<1>2. /\ IsThread(f) /\ f.state = x /\ f.off = s.off /\ f.left = s.left
      /\ f.ref = s.ref /\ f.part = s.part
  BY <1>1, ThreadChanges DEF IsThread
<1>3. [f EXCEPT !.part = y] =
        [state |-> x, off |-> s.off, left |-> s.left, ref |-> s.ref,
         part |-> y]
  <2>1. [f EXCEPT !.part = y] =
          [state |-> f.state, off |-> f.off, left |-> f.left, ref |-> f.ref,
           part |-> y]
    BY <1>2, ThreadChanges
  <2>2. QED
    BY <1>2, <2>1
<1>4. WithPart(s, x, y) = [f EXCEPT !.part = y]
  BY <1>1, Zenon DEF WithPart
<1>5. PICK g : g = [s EXCEPT !.ref = x]
  OBVIOUS
<1>6. /\ IsThread(g) /\ g.state = s.state /\ g.off = s.off /\ g.left = s.left
      /\ g.ref = x /\ g.part = s.part
  BY <1>5, ThreadChanges DEF IsThread
<1>7. [g EXCEPT !.state = y] =
        [state |-> y, off |-> s.off, left |-> s.left, ref |-> x,
         part |-> s.part]
  <2>1. [g EXCEPT !.state = y] =
          [state |-> y, off |-> g.off, left |-> g.left, ref |-> g.ref,
           part |-> g.part]
    BY <1>6, ThreadChanges
  <2>2. QED
    BY <1>6, <2>1
<1>8. WithRef(s, x, y) = [g EXCEPT !.state = y]
  BY <1>5, Zenon DEF WithRef
<1>9. PICK h : h = [g EXCEPT !.off = y]
  OBVIOUS
<1>10. /\ IsThread(h) /\ h.state = s.state /\ h.off = y /\ h.left = s.left
       /\ h.ref = x /\ h.part = s.part
  BY <1>6, <1>9, ThreadChanges DEF IsThread
<1>11. PICK k : k = [h EXCEPT !.left = v]
  OBVIOUS
<1>12. /\ IsThread(k) /\ k.state = s.state /\ k.off = y /\ k.left = v
       /\ k.ref = x /\ k.part = s.part
  BY <1>10, <1>11, ThreadChanges DEF IsThread
<1>13. [k EXCEPT !.part = w] =
         [state |-> s.state, off |-> y, left |-> v, ref |-> x, part |-> w]
  <2>1. [k EXCEPT !.part = w] =
          [state |-> k.state, off |-> k.off, left |-> k.left, ref |-> k.ref,
           part |-> w]
    BY <1>12, ThreadChanges
  <2>2. QED
    BY <1>12, <2>1
<1>14. Advanced(s, x, y, v, w) = [k EXCEPT !.part = w]
  BY <1>5, <1>9, <1>11, Zenon DEF Advanced
<1>15. QED
  BY <1>3, <1>4, <1>7, <1>8, <1>13, <1>14

LEMMA AllocateOK ==
  ASSUME FileInv(files, curoff), NEW t, NEW U, NEW E,
         Transfer(files, t, U, E), NEW R, NEW i \in IOs,
         AboutToMap(files, t, R, i), Allocate(i, t[i]),
         DOMAIN io = IOs, \A j \in IOs : j # i => io[j] = t[j]
  PROVE  /\ aborted' = FALSE /\ FileInv(files', curoff')
         /\ Transfer(files', io', U, E)
         /\ \A j \in IOs : Phase(files', io', j)
         /\ Written(files', Reaches(io'))
<1>1. /\ i.cmd \in Directions /\ i.file \in Files /\ t[i].off \in Nat
      /\ t[i].left \in Nat \ {0} /\ t[i] \in IOStates
      /\ DOMAIN t = IOs
  BY IOsOK, ThreadOK DEF AboutToMap, Transfer
<1>2. /\ i.cmd = "read" => IsMapped(files[i.file], t[i].off)
      /\ i.cmd = "write" => Clear(files[i.file], t[i].off, t[i].left)
  BY MapsFresh
<1>3. /\ curoff \in Nat /\ SoundFile(files[i.file], curoff)
      /\ conf.algo = "stream" => files[i.file].pas = {}
      /\ DOMAIN files = Files
  BY <1>1 DEF FileInv
<1>4. PICK results : results = MapResults(conf.algo, conf.reserve,
                                          files[i.file], i.cmd, t[i].off,
                                          t[i].left, curoff)
  OBVIOUS
<1>5. /\ results # {}
      /\ \A m \in results :
           /\ MapsOnto(files[i.file], curoff, m, t[i].off, t[i].left, i.cmd)
           /\ conf.algo = "stream" => m.file.pas = {}
  <2>1. PICK f, off, count, cmd, algo :
          /\ f = files[i.file] /\ off = t[i].off /\ count = t[i].left
          /\ cmd = i.cmd /\ algo = conf.algo
    OBVIOUS
  <2>2. /\ SoundFile(f, curoff) /\ curoff \in Nat
        /\ algo = "stream" => f.pas = {}
        /\ cmd \in Directions /\ off \in Nat /\ count \in Nat \ {0}
        /\ cmd = "read" => IsMapped(f, off)
        /\ cmd = "write" => Clear(f, off, count)
        /\ results = MapResults(algo, conf.reserve, f, cmd, off, count, curoff)
    BY <1>1, <1>2, <1>3, <1>4, <2>1
  <2>3. /\ results # {}
        /\ \A m \in results : /\ MapsOnto(f, curoff, m, off, count, cmd)
                              /\ algo = "stream" => m.file.pas = {}
    <3>1. PICK r, n : r = conf.reserve /\ n = curoff
      OBVIOUS
    <3>2. /\ SoundFile(f, n) /\ n \in Nat
          /\ algo = "stream" => f.pas = {}
          /\ cmd \in Directions /\ off \in Nat /\ count \in Nat \ {0}
          /\ cmd = "read" => IsMapped(f, off)
          /\ cmd = "write" => Clear(f, off, count)
      BY <2>2, <3>1
    <3>3. AllSound(MapResults(algo, r, f, cmd, off, count, n),
                   algo, f, n, off, count, cmd)
      BY <3>2, MapResultsOK
    <3>4. QED
      BY <2>2, <3>1, <3>3 DEF AllSound
  <2>4. QED
    BY <2>1, <2>3
<1>6. PICK m \in results : \E p, s :
        /\ p = [io |-> i, cmd |-> i.cmd, off |-> m.off, count |-> m.count]
        /\ s = [t[i] EXCEPT !.state = "submit", !.part = p]
        /\ files' = [files EXCEPT ![i.file] = m.file] /\ curoff' = m.curoff
        /\ io' = [io EXCEPT ![i] = s] /\ aborted' = m.aborts
  BY <1>4, <1>5 DEF Allocate
<1>17. PICK p, s :
        /\ p = [io |-> i, cmd |-> i.cmd, off |-> m.off, count |-> m.count]
        /\ s = [t[i] EXCEPT !.state = "submit", !.part = p]
        /\ files' = [files EXCEPT ![i.file] = m.file] /\ curoff' = m.curoff
        /\ io' = [io EXCEPT ![i] = s] /\ aborted' = m.aborts
  BY <1>6
<1>7. MapsOnto(files[i.file], curoff, m, t[i].off, t[i].left, i.cmd)
      /\ (conf.algo = "stream" => m.file.pas = {})
  BY <1>5
<1>8. s = [state |-> "submit", off |-> t[i].off, left |-> t[i].left,
           ref |-> t[i].ref, part |-> p]
  <2>1. IsThread(t[i])
    BY <1>1 DEF IsThread, IOStates
  <2>2. PICK v : v = t[i]
    OBVIOUS
  <2>3. IsThread(v) /\ s = WithPart(v, "submit", p)
    <3>1. IsThread(v)
      BY <2>1, <2>2
    <3>2. s = WithPart(v, "submit", p)
      BY <1>17, <2>2, Zenon DEF WithPart
    <3>3. QED
      BY <3>1, <3>2
  <2>4. s = [state |-> "submit", off |-> v.off, left |-> v.left,
             ref |-> v.ref, part |-> p]
    BY <2>3, ThreadFields
  <2>5. QED
    BY <2>2, <2>4
<1>9. /\ s.state = "submit" /\ s.off = t[i].off /\ s.left = t[i].left
      /\ s.ref = t[i].ref /\ s.part = p
  BY <1>8
<1>10. s \in IOStates
  <2>1. m.count \in Nat \ {0} /\ m.off \in Nat
    BY <1>1, <1>7 DEF MapsOnto
  <2>2. p \in PartSet
    BY <1>1, <1>17, <2>1 DEF PartSet
  <2>3. t[i].ref \in Nat
    BY <1>1 DEF IOStates
  <2>4. QED
    BY <1>1, <1>8, <2>2, <2>3 DEF IOStates
<1>11. io' = [t EXCEPT ![i] = s]
  BY <1>1, <1>17
<1>12. PICK gs, u : gs = files' /\ u = io'
  OBVIOUS
<1>13. Updated(files, i.file, m.file, gs) /\ Updated(t, i, s, u)
  BY <1>17, <1>11, <1>12 DEF Updated
<1>14. /\ FileInv(gs, m.curoff) /\ Transfer(gs, u, U, E)
       /\ \A j \in IOs : Phase(gs, u, j)
       /\ Written(gs, Reaches(u))
  <2>1. /\ s.part.io = i /\ s.part.cmd = i.cmd /\ s.part.off = m.off
        /\ s.part.count = m.count /\ s.part \in PartSet
    <3>1. m.count \in Nat \ {0} /\ m.off \in Nat
      BY <1>1, <1>7 DEF MapsOnto
    <3>2. QED
      BY <1>1, <1>9, <1>17, <3>1 DEF PartSet
  <2>2. QED
    BY <1>7, <1>9, <1>10, <1>13, <2>1, NextPartOK
<1>15. aborted' = FALSE
  BY <1>17, <1>7 DEF MapsOnto
<1>16. QED
  BY <1>17, <1>12, <1>14, <1>15

-----------------------------------------------------------------------------
LEMMA MapInjective ==
  ASSUME NEW fs, NEW n, FileInv(fs, n), NEW f \in Files, NEW g \in Files,
         NEW b \in Nat, NEW c \in Nat, NEW d \in Nat,
         MapsTo(fs[f], b, d), MapsTo(fs[g], c, d)
  PROVE  f = g /\ b = c
<1>1. Holds(fs[f], b, d) /\ Holds(fs[g], c, d)
  BY DEF Holds
<1>2. f = g
  BY <1>1 DEF FileInv
<1>3. SoundFile(fs[f], n)
  BY DEF FileInv
<1>4. QED
  BY <1>1, <1>2, <1>3 DEF SoundFile

(* What an I/O is about to submit is not underway, nor is its place on the *)
(* disk, whatever the directions; and the I/O has not been there before.   *)
LEMMA FreshPart ==
  ASSUME NEW fs, NEW n, FileInv(fs, n), NEW t, NEW U, NEW E,
         Transfer(fs, t, U, E), \A j \in IOs : Phase(fs, t, j),
         NEW i \in IOs, t[i].state = "submit", NEW q, q = t[i].part
  PROVE  /\ \A p \in U : p.off # q.off
         /\ \A p \in U \cup E : p.io = i =>
              \A d \in Nat : ~(Within(d, p.off, p.count)
                               /\ Within(d, q.off, q.count))
<1>1. /\ i.off \in Nat /\ i.count \in Nat \ {0} /\ i.file \in Files
      /\ i.cmd \in Directions
      /\ t[i].off \in Nat /\ t[i].left \in Nat /\ i.off <= t[i].off
      /\ t[i].off + t[i].left = i.off + i.count
  BY IOsOK, ThreadOK
<1>2. /\ q \in PartSet /\ q.io = i /\ q.cmd = i.cmd /\ q.count <= t[i].left
      /\ MapsAll(fs[i.file], t[i].off, q)
  BY DEF Phase
<1>3. q.off \in Nat /\ q.count \in Nat \ {0}
  BY <1>2 DEF PartSet
<1>4. \A p \in U \cup E :
        /\ p \in PartSet /\ p.off \in Nat /\ p.count \in Nat \ {0}
        /\ p.io \in IOs
        /\ \E b \in Nat : /\ p.io.off <= b /\ b + p.count <= t[p.io].off
                          /\ MapsAll(fs[p.io.file], b, p)
  BY DEF Transfer, Lies, PartSet
<1>5. ASSUME NEW p \in U \cup E, p.io = i, NEW d \in Nat,
             Within(d, p.off, p.count), Within(d, q.off, q.count)
      PROVE  FALSE
  <2>1. p.off \in Nat /\ p.count \in Nat \ {0}
    BY <1>4
  <2>2. PICK b \in Nat : b + p.count <= t[i].off /\ MapsAll(fs[i.file], b, p)
    BY <1>4, <1>5
  <2>3. PICK k, m : k = d - p.off /\ m = d - q.off
    OBVIOUS
  <2>4. /\ k \in 0..(p.count - 1) /\ m \in 0..(q.count - 1)
        /\ p.off + k = d /\ q.off + m = d
    BY <1>3, <1>5, <2>1, <2>3 DEF Within
  <2>5. MapsTo(fs[i.file], b + k, d) /\ MapsTo(fs[i.file], t[i].off + m, d)
    BY <1>2, <2>2, <2>4 DEF MapsAll
  <2>6. PICK x, y : x = b + k /\ y = t[i].off + m
    OBVIOUS
  <2>7. x \in Nat /\ y \in Nat /\ x < y
    BY <1>1, <1>3, <2>1, <2>2, <2>4, <2>6
  <2>8. x = y
    BY <1>1, <2>5, <2>6, <2>7, MapInjective
  <2>9. QED
    BY <2>7, <2>8
<1>6. ASSUME NEW p \in U, p.off = q.off, p.io # i
      PROVE  FALSE
  <2>1. PICK j \in IOs : j = p.io
    BY <1>4
  <2>2. p \in PartSet /\ p.off \in Nat /\ p.count \in Nat \ {0}
    BY <1>4
  <2>3. PICK b \in Nat : /\ j.off <= b /\ b + p.count <= t[j].off
                         /\ MapsAll(fs[j.file], b, p)
    BY <1>4, <2>1
  <2>4. MapsTo(fs[j.file], b, p.off)
    <3>1. MapsTo(fs[j.file], b + 0, p.off + 0)
      BY <2>2, <2>3 DEF MapsAll
    <3>2. b + 0 = b /\ p.off + 0 = p.off
      BY <2>2
    <3>3. QED
      BY <3>1, <3>2
  <2>5. MapsTo(fs[i.file], t[i].off, q.off)
    <3>1. MapsTo(fs[i.file], t[i].off + 0, q.off + 0)
      BY <1>2, <1>3 DEF MapsAll
    <3>2. t[i].off + 0 = t[i].off /\ q.off + 0 = q.off
      BY <1>1, <1>3
    <3>3. QED
      BY <3>1, <3>2
  <2>6. /\ j.off \in Nat /\ j.count \in Nat \ {0} /\ j.file \in Files
        /\ j.cmd \in Directions
        /\ t[j].off \in Nat /\ t[j].left \in Nat
        /\ t[j].off + t[j].left = j.off + j.count
    BY IOsOK, ThreadOK
  <2>7. j.file = i.file /\ b = t[i].off
    BY <1>1, <1>3, <1>6, <2>4, <2>5, <2>6, MapInjective
  <2>8. Overlap(i, j) /\ Overlap(j, i)
    BY <1>1, <1>2, <1>3, <2>2, <2>3, <2>6, <2>7 DEF Overlap
  <2>9. i.cmd # j.cmd
    BY <1>6, <2>1, <2>8, IOsOK
  <2>10. t[j].state \notin {"new", "done"}
    <3>1. p \in PartsUnder(U, j)
      BY <2>1 DEF PartsUnder
    <3>2. /\ IsFiniteSet(PartsUnder(U, j))
          /\ t[j].ref = Cardinality(PartsUnder(U, j))
      BY DEF Transfer, Counted
    <3>3. t[j].ref # 0
      BY <3>1, <3>2, FS_EmptySet
    <3>4. QED
      BY <3>3 DEF Phase
  <2>11. CASE i.cmd = "read"
    <3>1. j \in Earlier(i) \ {i}
      BY <1>6, <2>1, <2>6, <2>8, <2>9, <2>11 DEF Earlier, Directions
    <3>2. t[j].state = "done"
      BY <3>1 DEF Phase
    <3>3. QED
      BY <2>10, <3>2
  <2>12. CASE i.cmd = "write"
    <3>1. i \in Earlier(j) \ {j}
      BY <1>6, <2>1, <2>8, <2>12 DEF Earlier
    <3>2. t[i].state = "done"
      BY <2>10, <3>1 DEF Phase
    <3>3. QED
      BY <3>2
  <2>13. QED
    BY <1>1, <2>11, <2>12 DEF Directions
<1>7. ASSUME NEW p \in U, p.off = q.off
      PROVE  FALSE
  <2>1. CASE p.io = i
    <3>1. p.off \in Nat /\ p.count \in Nat \ {0}
      BY <1>4
    <3>2. Within(p.off, p.off, p.count) /\ Within(p.off, q.off, q.count)
      BY <1>3, <1>7, <3>1 DEF Within
    <3>3. QED
      BY <1>5, <2>1, <3>1, <3>2
  <2>2. CASE p.io # i
    BY <1>6, <1>7, <2>2
  <2>3. QED
    BY <2>1, <2>2
<1>8. QED
  BY <1>5, <1>7

(* fs_RWSubmitState: the part is underway.                                 *)
LEMMA SubmitPart ==
  ASSUME NEW fs, NEW t, NEW U, NEW E, Transfer(fs, t, U, E), NEW i \in IOs,
         Phase(fs, t, i), t[i].state = "submit", NEW q, q = t[i].part,
         \A p \in U \cup E : p.io = i =>
           \A d \in Nat : ~(Within(d, p.off, p.count)
                            /\ Within(d, q.off, q.count)),
         NEW s \in IOStates, s.off = t[i].off + q.count,
         s.left = t[i].left - q.count, s.ref = t[i].ref + 1,
         NEW u, Updated(t, i, s, u),
         NEW V, \A x : x \in V <=> x \in U \/ x = q
  PROVE  Transfer(fs, u, V, E)
<1>1. /\ i.off \in Nat /\ i.count \in Nat \ {0} /\ i.file \in Files
      /\ t[i].off \in Nat /\ t[i].left \in Nat /\ t[i].ref \in Nat
      /\ i.off <= t[i].off
      /\ t[i].off + t[i].left = i.off + i.count
      /\ t[i].ref + t[i].left <= i.count
  BY IOsOK, ThreadOK
<1>2. /\ q \in PartSet /\ q.io = i /\ q.cmd = i.cmd /\ q.count <= t[i].left
      /\ MapsAll(fs[i.file], t[i].off, q)
  BY DEF Phase
<1>3. q.off \in Nat /\ q.count \in Nat \ {0}
  BY <1>2 DEF PartSet
<1>4. q \notin U \cup E
  <2>1. Within(q.off, q.off, q.count)
    BY <1>3 DEF Within
  <2>2. QED
    BY <1>2, <1>3, <2>1
<1>5. /\ u \in [IOs -> IOStates] /\ u[i] = s
      /\ \A j \in IOs : j # i => u[j] = t[j]
  BY DEF Transfer, Updated
<1>6. V \cap E = {}
  BY <1>4 DEF Transfer
<1>7. ASSUME NEW j \in IOs
      PROVE  Progress(u, j) /\ Counted(u, V, j)
  <2>1. Progress(t, j) /\ Counted(t, U, j)
    BY DEF Transfer
  <2>2. CASE j # i
    <3>1. PartsUnder(V, j) = PartsUnder(U, j)
      BY <1>2, <2>2 DEF PartsUnder
    <3>2. QED
      BY <1>5, <2>1, <2>2, <3>1 DEF Progress, Counted
  <2>3. CASE j = i
    <3>1. Progress(u, i)
      <4>1. PICK a, l, r, c, o, k : /\ a = t[i].off /\ l = t[i].left
                                    /\ r = t[i].ref /\ c = q.count
                                    /\ o = i.off /\ k = i.count
        OBVIOUS
      <4>2. /\ a \in Nat /\ l \in Nat /\ r \in Nat /\ c \in Nat \ {0}
            /\ o \in Nat /\ k \in Nat /\ o <= a /\ a + l = o + k
            /\ r + l <= k
        BY <1>1, <1>3, <4>1
      <4>3. /\ o <= a + c /\ (a + c) + (l - c) = o + k
            /\ (r + 1) + (l - c) <= k
        BY <4>2
      <4>4. u[i].off = a + c /\ u[i].left = l - c /\ u[i].ref = r + 1
        BY <1>5, <4>1
      <4>5. QED
        BY <4>1, <4>3, <4>4 DEF Progress
    <3>2. PartsUnder(V, i) = PartsUnder(U, i) \cup {q}
      BY <1>2 DEF PartsUnder
    <3>3. q \notin PartsUnder(U, i)
      BY <1>4 DEF PartsUnder
    <3>4. IsFiniteSet(PartsUnder(U, i))
          /\ t[i].ref = Cardinality(PartsUnder(U, i))
      BY <2>1, <2>3 DEF Counted
    <3>5. /\ IsFiniteSet(PartsUnder(U, i) \cup {q})
          /\ Cardinality(PartsUnder(U, i) \cup {q}) =
               Cardinality(PartsUnder(U, i)) + 1
      BY <3>3, <3>4, FS_AddElement
    <3>6. Counted(u, V, i)
      BY <1>5, <3>2, <3>4, <3>5 DEF Counted
    <3>7. QED
      BY <2>3, <3>1, <3>6
  <2>4. QED
    BY <2>2, <2>3
<1>8. ASSUME NEW j \in IOs, NEW b \in j.off..(u[j].off - 1)
      PROVE  \E p \in V \cup E : Covers(fs, j, b, p)
  <2>1. CASE b \in j.off..(t[j].off - 1)
    <3>1. PICK p \in U \cup E : Covers(fs, j, b, p)
      BY <2>1 DEF Transfer
    <3>2. p \in V \cup E
      OBVIOUS
    <3>3. QED
      BY <3>1, <3>2
  <2>2. CASE b \notin j.off..(t[j].off - 1)
    <3>1. j = i
      BY <1>5, <2>2
    <3>2. b \in Nat /\ t[i].off <= b /\ b < t[i].off + q.count
      BY <1>1, <1>3, <1>5, <2>2, <3>1
    <3>3. PICK k : k = b - t[i].off
      OBVIOUS
    <3>4. k \in 0..(q.count - 1) /\ t[i].off + k = b
      BY <1>1, <1>3, <3>2, <3>3
    <3>5. MapsTo(fs[i.file], b, q.off + k)
      BY <1>2, <3>4 DEF MapsAll
    <3>6. q.off + k \in Nat /\ Within(q.off + k, q.off, q.count)
      BY <1>3, <3>4 DEF Within
    <3>7. Covers(fs, j, b, q)
      BY <1>2, <3>1, <3>5, <3>6 DEF Covers
    <3>8. QED
      BY <3>7
  <2>3. QED
    BY <2>1, <2>2
<1>9. ASSUME NEW p \in V \cup E
      PROVE  Lies(fs, u, p)
  <2>1. CASE p \in U \cup E
    <3>1. /\ p \in PartSet /\ p.cmd = p.io.cmd
      BY <2>1 DEF Transfer, Lies
    <3>2. PICK b \in Nat : /\ p.io.off <= b /\ b + p.count <= t[p.io].off
                           /\ MapsAll(fs[p.io.file], b, p)
      BY <2>1 DEF Transfer, Lies
    <3>3. p.io \in IOs /\ p.count \in Nat
      BY <3>1 DEF PartSet
    <3>4. b + p.count <= u[p.io].off
      <4>1. CASE p.io = i
        BY <1>1, <1>3, <1>5, <3>2, <3>3, <4>1
      <4>2. CASE p.io # i
        BY <1>5, <3>2, <3>3, <4>2
      <4>3. QED
        BY <4>1, <4>2
    <3>5. QED
      BY <3>1, <3>2, <3>4 DEF Lies
  <2>2. CASE p = q
    <3>1. /\ i.off <= t[i].off /\ t[i].off + q.count <= u[i].off
      BY <1>1, <1>3, <1>5
    <3>2. QED
      BY <1>1, <1>2, <2>2, <3>1 DEF Lies
  <2>3. QED
    BY <2>1, <2>2
<1>10. ASSUME NEW p \in V \cup E, NEW r \in V \cup E, NEW d \in Nat,
              p.io = r.io,
              Within(d, p.off, p.count), Within(d, r.off, r.count)
       PROVE  p = r
  <2>1. CASE p \in U \cup E /\ r \in U \cup E
    BY <1>10, <2>1 DEF Transfer
  <2>2. CASE p = q /\ r \in U \cup E
    BY <1>2, <1>10, <2>2
  <2>3. CASE r = q /\ p \in U \cup E
    BY <1>2, <1>10, <2>3
  <2>4. QED
    BY <2>1, <2>2, <2>3
<1>11. QED
  BY <1>5, <1>6, <1>7, <1>8, <1>9, <1>10 DEF Transfer

-----------------------------------------------------------------------------
LEMMA EmptyFileOK ==
  ASSUME NEW f, f = EmptyFile
  PROVE  /\ SoundFile(f, 0) /\ f.pas = {}
         /\ \A b, d : ~Holds(f, b, d)
         /\ \A b : ~IsMapped(f, b)
<1>1. f = [extents |-> {}, pas |-> {}]
  BY DEF EmptyFile
<1>2. f.extents = {} /\ f.pas = {}
  BY <1>1
<1>3. \A b, d : ~Holds(f, b, d)
  BY <1>2 DEF Holds, MapsTo, Kept
<1>4. \A b : ~IsMapped(f, b)
  BY <1>2 DEF IsMapped
<1>5. f = [extents |-> f.extents, pas |-> f.pas]
  BY <1>1, <1>2
<1>6. SoundFile(f, 0)
  BY <1>2, <1>3, <1>5 DEF SoundFile
<1>7. QED
  BY <1>2, <1>3, <1>4, <1>6

LEMMA InitDisk == Init => DiskInv /\ Underway = {}
<1>1. SUFFICES ASSUME Init
               PROVE  DiskInv /\ Underway = {}
  OBVIOUS
<1>2. /\ elv = EmptyElevator /\ plugged = FALSE /\ ready = <<>>
      /\ disk = "idle" /\ run = FALSE
  BY <1>1 DEF Init
<1>3. SoundElevator(elv) /\ PartsIn(elv.queue) = {}
  BY <1>2, EmptyElevatorOK
<1>4. SoundQueue(ready) /\ PartsIn(ready) = {} /\ Len(ready) = 0
  BY <1>2, EmptyQueueOK
<1>5. OnDisk = {}
  BY <1>2 DEF OnDisk
<1>6. elv.queue = <<>> /\ elv.inflight = 0
  BY <1>2 DEF EmptyElevator
<1>7. DiskAwake
  BY <1>2, <1>6 DEF DiskAwake
<1>8. elv.inflight = Len(ready) + (IF disk = "finished" THEN 1 ELSE 0)
  BY <1>2, <1>4, <1>6
<1>9. QED
  BY <1>2, <1>3, <1>4, <1>5, <1>7, <1>8 DEF DiskInv, Underway

LEMMA InitIInv == Init => IInv
<1>1. SUFFICES ASSUME Init
               PROVE  IInv
  OBVIOUS
<1>2. DiskInv /\ Underway = {} /\ ended = {} /\ conf \in Configs
      /\ aborted = FALSE /\ curoff = 0
  BY <1>1, InitDisk DEF Init
<1>3. /\ DOMAIN files = Files
      /\ \A f \in Files : files[f] = EmptyFile
  BY <1>1 DEF Init
<1>4. FileInv(files, curoff)
  BY <1>2, <1>3, EmptyFileOK DEF FileInv
<1>5. PICK t : t = io
  OBVIOUS
<1>6. /\ DOMAIN t = IOs
      /\ t = [i \in IOs |-> [state |-> "new", off |-> i.off, left |-> i.count,
                             ref |-> 0, part |-> None]]
  BY <1>1, <1>5 DEF Init
<1>7. \A i \in IOs : /\ t[i].state = "new" /\ t[i].off = i.off
                     /\ t[i].left = i.count /\ t[i].ref = 0
                     /\ t[i] \in IOStates
  <2>1. SUFFICES ASSUME NEW i \in IOs
                 PROVE  /\ t[i].state = "new" /\ t[i].off = i.off
                        /\ t[i].left = i.count /\ t[i].ref = 0
                        /\ t[i] \in IOStates
    OBVIOUS
  <2>2. t[i] = [state |-> "new", off |-> i.off, left |-> i.count,
                ref |-> 0, part |-> None]
    BY <1>6
  <2>3. i.off \in Nat /\ i.count \in Nat
    BY IOsOK
  <2>4. QED
    BY <2>2, <2>3 DEF IOStates
<1>8. t \in [IOs -> IOStates]
  BY <1>6, <1>7
<1>9. ASSUME NEW U, U = {}
      PROVE  Transfer(files, t, U, U)
  <2>1. ASSUME NEW i \in IOs
        PROVE  Progress(t, i) /\ Counted(t, U, i)
    <3>1. i.off \in Nat /\ i.count \in Nat
      BY IOsOK
    <3>2. Progress(t, i)
      BY <1>7, <3>1 DEF Progress
    <3>3. PartsUnder(U, i) = {}
      BY <1>9 DEF PartsUnder
    <3>4. Counted(t, U, i)
      BY <1>7, <3>3, FS_EmptySet DEF Counted
    <3>5. QED
      BY <3>2, <3>4
  <2>2. ASSUME NEW i \in IOs, NEW b \in i.off..(t[i].off - 1)
        PROVE  FALSE
    <3>1. i.off \in Nat /\ t[i].off = i.off
      BY <1>7, IOsOK
    <3>2. QED
      BY <2>2, <3>1
  <2>3. QED
    BY <1>8, <1>9, <2>1, <2>2 DEF Transfer
<1>10. \A i \in IOs : Phase(files, t, i)
  BY <1>7 DEF Phase
<1>11. Written(files, Reaches(t))
  BY <1>3, EmptyFileOK DEF Written
<1>12. QED
  BY <1>2, <1>4, <1>5, <1>9, <1>10, <1>11 DEF IInv

LEMMA IInvPrime ==
  ASSUME conf \in Configs, conf' = conf, aborted' = FALSE, DiskInv',
         FileInv(files', curoff'), NEW U, Transfer(files', io', U, ended'),
         \A x : x \in Underway' <=> x \in U,
         \A i \in IOs : Phase(files', io', i),
         Written(files', Reaches(io'))
  PROVE  IInv'
<1>1. FileInv(files, curoff)'
  BY DEF FileInv
<1>2. \A i \in IOs : PartsUnder(Underway', i) = PartsUnder(U, i)
  BY DEF PartsUnder
<1>3. \A i \in IOs : Counted(io', Underway', i) <=> Counted(io', U, i)
  BY <1>2 DEF Counted
<1>4. Transfer(files, io, Underway, ended)'
  BY <1>3 DEF Transfer
<1>5. (\A i \in IOs : Phase(files, io, i))'
  OBVIOUS
<1>6. Written(files, Reaches(io))'
  OBVIOUS
<1>7. QED
  BY <1>1, <1>4, <1>5, <1>6 DEF IInv

LEMMA IInvFacts ==
  ASSUME IInv
  PROVE  /\ conf \in Configs /\ aborted = FALSE /\ DiskInv
         /\ FileInv(files, curoff) /\ Transfer(files, io, Underway, ended)
         /\ \A i \in IOs : Phase(files, io, i)
         /\ Written(files, Reaches(io)) /\ DOMAIN io = IOs
         /\ \A i \in IOs : Reaches(io)[i] = Reach(io, i)
<1>1. Transfer(files, io, Underway, ended)
  BY DEF IInv
<1>2. DOMAIN io = IOs
  BY <1>1 DEF Transfer
<1>3. QED
  BY <1>1, <1>2 DEF IInv, Reaches

(* FileSystem::ReadWrite maps the first part.                              *)
LEMMA StartOK ==
  ASSUME IInv, NEW i \in IOs, Start(i)
  PROVE  IInv'
<1>1. /\ conf \in Configs /\ aborted = FALSE /\ DiskInv
      /\ FileInv(files, curoff) /\ Transfer(files, io, Underway, ended)
      /\ \A j \in IOs : Phase(files, io, j)
      /\ Written(files, Reaches(io)) /\ DOMAIN io = IOs
      /\ \A j \in IOs : Reaches(io)[j] = Reach(io, j)
  BY IInvFacts
<1>2. /\ io[i].state = "new" /\ Allocate(i, io[i])
      /\ \A w \in Earlier(i) \ {i} : io[w].state = "done"
  BY DEF Start
<1>3. io[i].left = i.count /\ i.count # 0 /\ Reach(io, i) = io[i].off
  <2>1. io[i].left = i.count
    BY <1>1, <1>2 DEF Phase
  <2>2. io[i].off \in Nat
    BY <1>1, ThreadOK
  <2>3. QED
    BY <1>2, <2>1, <2>2, IOsOK DEF Reach
<1>4. AboutToMap(files, io, Reaches(io), i)
  BY <1>1, <1>2, <1>3 DEF AboutToMap
<1>5. /\ aborted' = FALSE /\ FileInv(files', curoff')
      /\ Transfer(files', io', Underway, ended)
      /\ \A j \in IOs : Phase(files', io', j)
      /\ Written(files', Reaches(io'))
  BY <1>1, <1>2, <1>4, AllocateOK
<1>6. /\ conf' = conf /\ elv' = elv /\ plugged' = plugged /\ ready' = ready
      /\ disk' = disk /\ curq' = curq /\ run' = run /\ ended' = ended
  BY DEF Start, diskVars
<1>7. DiskInv' /\ Underway' = Underway
  <2>1. OnDisk' = OnDisk
    BY <1>6 DEF OnDisk
  <2>2. DiskAwake'
    BY <1>1, <1>6 DEF DiskInv, DiskAwake
  <2>3. QED
    BY <1>1, <1>6, <2>1, <2>2 DEF DiskInv, Underway
<1>8. QED
  BY <1>1, <1>5, <1>6, <1>7, IInvPrime

(* fs_RWSubmitState: a part is submitted, and the next one is mapped if    *)
(* there is more of the I/O.                                               *)
LEMMA SubmitOK ==
  ASSUME IInv, NEW i \in IOs, Submit(i)
  PROVE  IInv'
<1>1. /\ conf \in Configs /\ aborted = FALSE /\ DiskInv
      /\ FileInv(files, curoff) /\ Transfer(files, io, Underway, ended)
      /\ \A j \in IOs : Phase(files, io, j)
      /\ Written(files, Reaches(io)) /\ DOMAIN io = IOs
      /\ \A j \in IOs : Reaches(io)[j] = Reach(io, j)
  BY IInvFacts
<1>2. PICK q : q = io[i].part
  OBVIOUS
<1>3. /\ io[i].state = "submit" /\ SubmitIoreq(q)
      /\ conf' = conf /\ curq' = curq /\ ended' = ended
  BY <1>2 DEF Submit
<1>4. /\ q \in PartSet /\ q.io = i /\ q.cmd = i.cmd /\ q.count <= io[i].left
  BY <1>1, <1>2, <1>3 DEF Phase
<1>5. /\ q.off \in Nat /\ q.count \in Nat \ {0}
      /\ io[i] \in IOStates /\ io[i].off \in Nat /\ io[i].left \in Nat
      /\ io[i].ref \in Nat
  BY <1>1, <1>4, ThreadOK DEF PartSet
<1>6. /\ \A p \in Underway : p.off # q.off
      /\ \A p \in Underway \cup ended : p.io = i =>
           \A d \in Nat : ~(Within(d, p.off, p.count)
                            /\ Within(d, q.off, q.count))
  BY <1>1, <1>2, <1>3, FreshPart
<1>7. q \notin Underway
  BY <1>6
<1>8. ~EnqueueAborts(conf.sched, elv, q)
  <2>1. SoundElevator(elv)
    BY <1>1 DEF DiskInv
  <2>2. \A p \in PartsIn(elv.queue) : p.off # q.off
    BY <1>6 DEF Underway
  <2>3. QED
    BY <1>4, <2>1, <2>2, NoAlias
<1>9. /\ DiskInv'
      /\ \A x : x \in Underway' <=> x \in Underway \/ x = q
  BY <1>1, <1>3, <1>4, <1>7, SubmitIoreqOK
<1>10. PICK now : now = [io[i] EXCEPT !.ref = @ + 1, !.off = @ + q.count,
                                      !.left = @ - q.count, !.part = None]
  OBVIOUS
<1>11. IF now.left > 0 THEN Allocate(i, now)
       ELSE /\ io' = [io EXCEPT ![i] = [now EXCEPT !.state = "submitted"]]
            /\ UNCHANGED <<files, curoff, aborted>>
  BY <1>2, <1>8, <1>10 DEF Submit
<1>12. now = [state |-> "submit", off |-> io[i].off + q.count,
              left |-> io[i].left - q.count, ref |-> io[i].ref + 1,
              part |-> None]
  <2>1. PICK s : s = io[i]
    OBVIOUS
  <2>2. IsThread(s) /\ s.state = "submit"
    BY <1>3, <1>5, <2>1 DEF IsThread, IOStates
  <2>3. now = Advanced(s, s.ref + 1, s.off + q.count, s.left - q.count, None)
    BY <1>10, <2>1, Zenon DEF Advanced
  <2>4. now = [state |-> s.state, off |-> s.off + q.count,
               left |-> s.left - q.count, ref |-> s.ref + 1, part |-> None]
    BY <2>2, <2>3, ThreadFields
  <2>5. QED
    BY <2>1, <2>2, <2>4
<1>13. /\ now.state = "submit" /\ now.off = io[i].off + q.count
       /\ now.left = io[i].left - q.count /\ now.ref = io[i].ref + 1
       /\ now \in IOStates /\ now.left \in Nat /\ now.off \in Nat
  <2>1. /\ now.state = "submit" /\ now.off = io[i].off + q.count
        /\ now.left = io[i].left - q.count /\ now.ref = io[i].ref + 1
    BY <1>12
  <2>2. /\ io[i].off + q.count \in Nat /\ io[i].left - q.count \in Nat
        /\ io[i].ref + 1 \in Nat
    BY <1>4, <1>5
  <2>3. now \in IOStates
    BY <1>12, <2>2 DEF IOStates
  <2>4. QED
    BY <2>1, <2>2, <2>3
<1>14. PICK V : V = Underway'
  OBVIOUS
<1>15. PICK t : Updated(io, i, now, t)
  BY DEF Updated
<1>16. /\ DOMAIN t = IOs /\ t[i] = now
       /\ \A j \in IOs : j # i => t[j] = io[j]
  BY <1>1, <1>15 DEF Updated
<1>17. Transfer(files, t, V, ended)
  <2>1. \A x : x \in V <=> x \in Underway \/ x = q
    BY <1>9, <1>14
  <2>2. QED
    BY <1>1, <1>2, <1>3, <1>6, <1>13, <1>15, <2>1, SubmitPart
<1>18. /\ Phase(files, io, i)
       /\ \A w \in Earlier(i) \ {i} : io[w].state = "done"
  BY <1>1, <1>3 DEF Phase
<1>19. Reaches(io)[i] = now.off
  BY <1>1, <1>2, <1>3, <1>13 DEF Reach
<1>20. \A j \in IOs \ {i} : Phase(files, t, j)
  <2>1. \A j \in IOs : \A w \in Earlier(j) : w \in IOs
    BY DEF Earlier
  <2>2. \A w \in IOs : io[w].state = "done" => t[w].state = "done"
    BY <1>3, <1>16
  <2>3. QED
    BY <1>1, <1>16, <2>1, <2>2 DEF Phase
<1>21. \A w \in Earlier(i) \ {i} : t[w].state = "done"
  BY <1>16, <1>18 DEF Earlier
<1>22. CASE now.left > 0
  <2>1. AboutToMap(files, t, Reaches(io), i)
    <3>1. \A j \in IOs : Reaches(io)[j] = IF j = i THEN t[i].off
                                          ELSE Reach(t, j)
      BY <1>1, <1>16, <1>19 DEF Reach
    <3>2. t[i].state \in {"new", "submit"} /\ t[i].left # 0
      BY <1>13, <1>16, <1>22
    <3>3. QED
      BY <1>1, <1>20, <1>21, <3>1, <3>2 DEF AboutToMap
  <2>2. Allocate(i, t[i])
    BY <1>11, <1>16, <1>22
  <2>3. \A j \in IOs : j # i => io[j] = t[j]
    BY <1>16
  <2>4. /\ aborted' = FALSE /\ FileInv(files', curoff')
        /\ Transfer(files', io', V, ended)
        /\ \A j \in IOs : Phase(files', io', j)
        /\ Written(files', Reaches(io'))
    BY <1>1, <1>17, <2>1, <2>2, <2>3, AllocateOK
  <2>5. QED
    BY <1>1, <1>3, <1>9, <1>14, <2>4, IInvPrime
<1>23. CASE ~(now.left > 0)
  <2>1. /\ files' = files /\ curoff' = curoff /\ aborted' = FALSE
        /\ io' = [io EXCEPT ![i] = [now EXCEPT !.state = "submitted"]]
    BY <1>1, <1>11, <1>23
  <2>2. PICK s : s = [now EXCEPT !.state = "submitted"]
    OBVIOUS
  <2>3. s = [state |-> "submitted", off |-> now.off, left |-> now.left,
             ref |-> now.ref, part |-> now.part]
    <3>1. IsThread(now)
      BY <1>12, <1>13 DEF IsThread
    <3>2. QED
      BY <2>2, <3>1, ThreadChanges
  <2>4. /\ s.state = "submitted" /\ s.off = now.off /\ s.left = now.left
        /\ s.ref = now.ref /\ s \in IOStates
    BY <1>13, <2>3 DEF IOStates
  <2>5. PICK u : u = io'
    OBVIOUS
  <2>6. /\ DOMAIN u = IOs /\ u[i] = s
        /\ \A j \in IOs : j # i => u[j] = io[j]
    BY <1>1, <2>1, <2>2, <2>5
  <2>7. u \in [IOs -> IOStates]
    <3>1. u = [j \in IOs |-> u[j]]
      BY <1>1, <2>1, <2>5
    <3>2. \A j \in IOs : u[j] \in IOStates
      BY <1>1, <2>4, <2>6, ThreadOK
    <3>3. QED
      BY <3>1, <3>2
  <2>8. SameProgress(t, u)
    BY <1>16, <2>4, <2>6 DEF SameProgress
  <2>9. Grows(files, files)
    BY DEF Grows
  <2>10. Transfer(files, u, V, ended)
    BY <1>17, <2>7, <2>8, <2>9, TransferStays
  <2>11. ASSUME NEW j \in IOs
         PROVE  Phase(files, u, j)
    <3>1. \A w \in IOs : io[w].state = "done" => u[w].state = "done"
      BY <1>3, <2>6
    <3>2. \A w \in Earlier(j) : w \in IOs
      BY DEF Earlier
    <3>3. CASE j # i
      BY <1>1, <2>6, <3>1, <3>2, <3>3 DEF Phase
    <3>4. CASE j = i
      <4>1. s.left = 0 /\ s.ref # 0
        BY <1>5, <1>13, <1>23, <2>4
      <4>2. \A w \in Earlier(i) \ {i} : u[w].state = "done"
        BY <1>18, <3>1, <3>2, <3>4
      <4>3. QED
        BY <2>4, <2>6, <3>4, <4>1, <4>2 DEF Phase
    <3>5. QED
      BY <3>3, <3>4
  <2>12. Written(files, Reaches(u))
    <3>1. \A j \in IOs : Reaches(u)[j] = Reaches(io)[j]
      <4>1. Reach(u, i) = now.off
        BY <1>13, <2>4, <2>6 DEF Reach
      <4>2. \A j \in IOs : j # i => Reach(u, j) = Reach(io, j)
        BY <2>6 DEF Reach
      <4>3. QED
        BY <1>1, <1>19, <4>1, <4>2 DEF Reaches
    <3>2. QED
      BY <1>1, <3>1 DEF Written
  <2>13. QED
    BY <1>1, <1>3, <1>9, <1>14, <2>1, <2>5, <2>10, <2>11, <2>12, IInvPrime
<1>24. QED
  BY <1>22, <1>23

-----------------------------------------------------------------------------
(* Completed counts the places of a batch, Transfer its parts.             *)
LEMMA CountParts ==
  ASSUME NEW b, IsRun(b), NEW i, NEW S, S = {k \in DOMAIN b : b[k].io = i}
  PROVE  Cardinality(S) = Cardinality(PartsUnder(Elements(b), i))
<1>1. /\ b \in Seq(PartSet) /\ Distinct(b)
  BY DEF IsRun
<1>2. PICK n \in Nat : DOMAIN b = 1..n
  BY <1>1
<1>3. IsFiniteSet(S)
  <2>1. S \in SUBSET (1..n)
    BY <1>2
  <2>2. QED
    BY <2>1, CountUpTo
<1>4. PICK T : T = PartsUnder(Elements(b), i)
  OBVIOUS
<1>5. PICK f : f = [k \in S |-> b[k]]
  OBVIOUS
<1>6. f \in Bijection(S, T)
  <2>1. \A k \in S : b[k] \in T
    BY <1>4 DEF PartsUnder, Elements
  <2>2. \A x \in T : \E k \in S : b[k] = x
    BY <1>4 DEF PartsUnder, Elements
  <2>3. \A j, k \in S : b[j] = b[k] => j = k
    BY <1>1 DEF Distinct
  <2>4. f \in [S -> T] /\ \A k \in S : f[k] = b[k]
    BY <1>5, <2>1
  <2>5. QED
    BY <2>2, <2>3, <2>4 DEF Bijection, Injection, Surjection, IsInjective
<1>7. ExistsBijection(S, T)
  BY <1>6 DEF ExistsBijection
<1>8. QED
  BY <1>3, <1>4, <1>7, FS_Bijection

LEMMA RefsOfParts ==
  ASSUME NEW fs, NEW t, NEW U, NEW E, Transfer(fs, t, U, E),
         NEW B, B \subseteq U, NEW i \in IOs
  PROVE  /\ Cardinality(PartsUnder(B, i)) \in 0..t[i].ref
         /\ PartsUnder(B, i) = {} <=> Cardinality(PartsUnder(B, i)) = 0
         /\ t[i].ref \in Nat
<1>1. /\ IsFiniteSet(PartsUnder(U, i))
      /\ t[i].ref = Cardinality(PartsUnder(U, i)) /\ t[i].ref \in Nat
  BY ThreadOK DEF Transfer, Counted
<1>2. PartsUnder(B, i) \subseteq PartsUnder(U, i)
  BY DEF PartsUnder
<1>3. /\ IsFiniteSet(PartsUnder(B, i))
      /\ Cardinality(PartsUnder(B, i)) <= t[i].ref
  BY <1>1, <1>2, FS_Subset
<1>4. Cardinality(PartsUnder(B, i)) \in Nat
  BY <1>3, FS_CardinalityType
<1>5. QED
  BY <1>1, <1>3, <1>4, FS_EmptySet

(* The parts of a request are done.                                        *)
LEMMA EndParts ==
  ASSUME NEW fs, NEW t, NEW U, NEW E, Transfer(fs, t, U, E),
         NEW B, B \subseteq U, NEW u \in [IOs -> IOStates],
         \A i \in IOs :
           /\ u[i].off = t[i].off /\ u[i].left = t[i].left
           /\ u[i].ref = t[i].ref - Cardinality(PartsUnder(B, i)),
         NEW V, \A x : x \in V <=> x \in U /\ x \notin B,
         NEW F, \A x : x \in F <=> x \in E \/ x \in B
  PROVE  Transfer(fs, u, V, F)
<1>1. V \cap F = {}
  BY DEF Transfer
<1>2. \A x : x \in V \cup F <=> x \in U \cup E
  OBVIOUS
<1>3. ASSUME NEW i \in IOs
      PROVE  Progress(u, i) /\ Counted(u, V, i)
  <2>1. Progress(t, i) /\ Counted(t, U, i)
    BY DEF Transfer
  <2>2. PICK n : n = Cardinality(PartsUnder(B, i))
    OBVIOUS
  <2>3. n \in Nat /\ t[i].ref \in Nat /\ n <= t[i].ref
    <3>1. n \in 0..t[i].ref /\ t[i].ref \in Nat
      BY <2>2, RefsOfParts
    <3>2. QED
      BY <3>1
  <2>4. t[i].off \in Nat /\ t[i].left \in Nat /\ i.count \in Nat
    BY ThreadOK, IOsOK
  <2>5. /\ u[i].off = t[i].off /\ u[i].left = t[i].left
        /\ u[i].ref = t[i].ref - n
    BY <2>2
  <2>6. t[i].ref - n + t[i].left <= i.count
    BY <2>1, <2>3, <2>4 DEF Progress
  <2>7. Progress(u, i)
    BY <2>1, <2>5, <2>6 DEF Progress
  <2>8. PartsUnder(V, i) = PartsUnder(U, i) \ PartsUnder(B, i)
    BY DEF PartsUnder
  <2>9. PartsUnder(U, i) \cap PartsUnder(B, i) = PartsUnder(B, i)
    BY DEF PartsUnder
  <2>10. /\ IsFiniteSet(PartsUnder(U, i) \ PartsUnder(B, i))
         /\ Cardinality(PartsUnder(U, i) \ PartsUnder(B, i)) =
              Cardinality(PartsUnder(U, i))
                - Cardinality(PartsUnder(U, i) \cap PartsUnder(B, i))
    BY <2>1, FS_Difference DEF Counted
  <2>11. Counted(u, V, i)
    BY <2>1, <2>2, <2>5, <2>8, <2>9, <2>10 DEF Counted
  <2>12. QED
    BY <2>7, <2>11
<1>4. ASSUME NEW i \in IOs, NEW b \in i.off..(u[i].off - 1)
      PROVE  \E p \in V \cup F : Covers(fs, i, b, p)
  <2>1. b \in i.off..(t[i].off - 1)
    OBVIOUS
  <2>2. PICK p \in U \cup E : Covers(fs, i, b, p)
    BY <2>1 DEF Transfer
  <2>3. QED
    BY <1>2, <2>2
<1>5. ASSUME NEW p \in V \cup F
      PROVE  Lies(fs, u, p)
  <2>1. Lies(fs, t, p)
    BY <1>2 DEF Transfer
  <2>2. u[p.io].off = t[p.io].off
    BY <2>1 DEF Lies, PartSet
  <2>3. QED
    BY <2>1, <2>2 DEF Lies
<1>6. ASSUME NEW p \in V \cup F, NEW q \in V \cup F, NEW d \in Nat,
             p.io = q.io,
             Within(d, p.off, p.count), Within(d, q.off, q.count)
      PROVE  p = q
  <2>1. p \in U \cup E /\ q \in U \cup E
    BY <1>2
  <2>2. QED
    BY <1>6, <2>1 DEF Transfer
<1>7. QED
  BY <1>1, <1>3, <1>4, <1>5, <1>6 DEF Transfer

(* FileSystem::Completion for the parts of a request.                      *)
LEMMA CompletedOK ==
  ASSUME NEW b, IsRun(b), NEW U, NEW E, Transfer(files, io, U, E),
         Elements(b) \subseteq U, NEW u, u = Completed(b)
  PROVE  /\ u \in [IOs -> IOStates]
         /\ \A i \in IOs :
              /\ u[i].off = io[i].off /\ u[i].left = io[i].left
              /\ u[i].ref = io[i].ref - Cardinality(PartsUnder(Elements(b), i))
              /\ u[i].part = io[i].part
              /\ \/ u[i].state = io[i].state /\ (io[i].ref # 0 =>
                      u[i].ref # 0 \/ io[i].left # 0)
                 \/ u[i].state = "done" /\ u[i].ref = 0 /\ io[i].left = 0
                    /\ io[i].ref # 0
<1>1. ASSUME NEW i \in IOs
      PROVE  /\ u[i] \in IOStates
             /\ u[i].off = io[i].off /\ u[i].left = io[i].left
             /\ u[i].ref = io[i].ref - Cardinality(PartsUnder(Elements(b), i))
             /\ u[i].part = io[i].part
             /\ \/ u[i].state = io[i].state /\ (io[i].ref # 0 =>
                     u[i].ref # 0 \/ io[i].left # 0)
                \/ u[i].state = "done" /\ u[i].ref = 0 /\ io[i].left = 0
                   /\ io[i].ref # 0
  <2>1. PICK S : S = {k \in DOMAIN b : b[k].io = i}
    OBVIOUS
  <2>2. PICK n : n = Cardinality(S)
    OBVIOUS
  <2>3. n = Cardinality(PartsUnder(Elements(b), i))
    BY <2>1, <2>2, CountParts
  <2>4. PICK s : s = io[i]
    OBVIOUS
  <2>5. /\ s \in IOStates /\ IsThread(s) /\ s.ref \in Nat /\ s.left \in Nat
    BY <2>4, ThreadOK DEF IsThread, IOStates
  <2>6. n \in Nat /\ n <= s.ref
    <3>1. n \in 0..io[i].ref /\ io[i].ref \in Nat
      BY <2>3, RefsOfParts
    <3>2. QED
      BY <2>4, <3>1
  <2>7. u[i] = IF n = 0 THEN io[i]
               ELSE [io[i] EXCEPT
                       !.ref   = @ - n,
                       !.state = IF io[i].ref = n /\ io[i].left = 0
                                 THEN "done" ELSE @]
    BY <2>1, <2>2 DEF Completed
  <2>8. CASE n = 0
    <3>1. u[i] = s
      BY <2>4, <2>7, <2>8
    <3>2. s.ref = s.ref - n
      BY <2>5, <2>8
    <3>3. QED
      BY <2>3, <2>4, <2>5, <3>1, <3>2
  <2>9. CASE n # 0
    <3>1. PICK x, y : /\ x = s.ref - n
                      /\ y = IF s.ref = n /\ s.left = 0 THEN "done"
                             ELSE s.state
      OBVIOUS
    <3>2. u[i] = WithRef(s, x, y)
      <4>1. u[i] = [io[i] EXCEPT
                      !.ref   = @ - n,
                      !.state = IF io[i].ref = n /\ io[i].left = 0
                                THEN "done" ELSE @]
        BY <2>7, <2>9, Zenon
      <4>2. QED
        BY <2>4, <3>1, <4>1, Zenon DEF WithRef
    <3>3. u[i] = [state |-> y, off |-> s.off, left |-> s.left, ref |-> x,
                  part |-> s.part]
      BY <2>5, <3>2, ThreadFields
    <3>4. x \in Nat /\ x = s.ref - n
      BY <2>5, <2>6, <3>1
    <3>5. u[i] \in IOStates
      BY <2>5, <3>1, <3>3, <3>4 DEF IOStates
    <3>6. /\ u[i].off = s.off /\ u[i].left = s.left /\ u[i].ref = x
          /\ u[i].part = s.part /\ u[i].state = y
      BY <3>3
    <3>7. CASE s.ref = n /\ s.left = 0
      BY <2>3, <2>4, <2>5, <2>6, <2>9, <3>1, <3>4, <3>5, <3>6, <3>7
    <3>8. CASE ~(s.ref = n /\ s.left = 0)
      <4>1. y = s.state /\ (x # 0 \/ s.left # 0)
        BY <2>5, <2>6, <3>1, <3>8
      <4>2. QED
        BY <2>3, <2>4, <3>4, <3>5, <3>6, <4>1
    <3>9. QED
      BY <3>7, <3>8
  <2>10. QED
    BY <2>8, <2>9
<1>2. u = [i \in IOs |-> u[i]]
  BY DEF Completed
<1>3. u \in [IOs -> IOStates]
  BY <1>1, <1>2
<1>4. QED
  BY <1>1, <1>3

(* Disk::EndRequest: the files do not change, and a thread that is told of *)
(* its end has nothing left.                                               *)
LEMMA EndRequestOK ==
  ASSUME IInv, NEW b, IsRun(b), Elements(b) \subseteq Underway,
         NEW u, u = Completed(b)
  PROVE  /\ \A i \in IOs : Phase(files, u, i)
         /\ Written(files, Reaches(u))
<1>1. /\ Transfer(files, io, Underway, ended)
      /\ \A j \in IOs : Phase(files, io, j)
      /\ Written(files, Reaches(io))
      /\ \A j \in IOs : Reaches(io)[j] = Reach(io, j)
  BY IInvFacts
<1>2. ASSUME NEW i \in IOs
      PROVE  /\ u[i].off = io[i].off /\ u[i].left = io[i].left
             /\ u[i].part = io[i].part /\ io[i].ref \in Nat
             /\ io[i].ref = 0 => u[i].ref = 0
             /\ \/ u[i].state = io[i].state /\ (io[i].ref # 0 =>
                     u[i].ref # 0 \/ io[i].left # 0)
                \/ u[i].state = "done" /\ u[i].ref = 0 /\ io[i].left = 0
                   /\ io[i].ref # 0
  <2>1. PICK n : n = Cardinality(PartsUnder(Elements(b), i))
    OBVIOUS
  <2>2. /\ u[i].off = io[i].off /\ u[i].left = io[i].left
        /\ u[i].ref = io[i].ref - n /\ u[i].part = io[i].part
        /\ \/ u[i].state = io[i].state /\ (io[i].ref # 0 =>
                u[i].ref # 0 \/ io[i].left # 0)
           \/ u[i].state = "done" /\ u[i].ref = 0 /\ io[i].left = 0
              /\ io[i].ref # 0
    BY <1>1, <2>1, CompletedOK
  <2>3. n \in 0..io[i].ref /\ io[i].ref \in Nat
    BY <1>1, <2>1, RefsOfParts
  <2>4. io[i].ref = 0 => u[i].ref = 0
    <3>1. u[i].ref = io[i].ref - n
      BY <2>2
    <3>2. io[i].ref = 0 => n = 0
      BY <2>3
    <3>3. 0 - 0 = 0
      OBVIOUS
    <3>4. QED
      BY <3>1, <3>2, <3>3
  <2>5. QED
    BY <2>2, <2>3, <2>4
<1>3. \A i \in IOs : io[i].state = "done" => u[i].state = "done"
  BY <1>2
<1>4. \A i \in IOs : \A w \in Earlier(i) : w \in IOs
  BY DEF Earlier
<1>5. ASSUME NEW i \in IOs
      PROVE  Phase(files, u, i) /\ Reach(u, i) = Reach(io, i)
  <2>1. Phase(files, io, i)
    BY <1>1
  <2>2. CASE u[i].state = io[i].state
    <3>1. Reach(u, i) = Reach(io, i)
      BY <1>2, <2>2 DEF Reach
    <3>2. u[i].state # "new" => \A w \in Earlier(i) \ {i} : u[w].state = "done"
      BY <1>3, <1>4, <2>1, <2>2 DEF Phase
    <3>3. io[i].state = "submitted" => u[i].ref # 0
      BY <1>2, <2>1, <2>2 DEF Phase
    <3>4. QED
      BY <1>2, <2>1, <2>2, <3>1, <3>2, <3>3 DEF Phase
  <2>3. CASE u[i].state # io[i].state
    <3>1. u[i].state = "done" /\ u[i].ref = 0 /\ io[i].left = 0
          /\ io[i].ref # 0
      BY <1>2, <2>3
    <3>2. io[i].state # "new"
      BY <2>1, <3>1 DEF Phase
    <3>3. io[i].state # "submit"
      <4>1. SUFFICES ASSUME io[i].state = "submit"
                     PROVE  FALSE
        OBVIOUS
      <4>2. io[i].part \in PartSet /\ io[i].part.count <= 0
        BY <2>1, <3>1, <4>1 DEF Phase
      <4>3. QED
        BY <4>2 DEF PartSet
    <3>4. \A w \in Earlier(i) \ {i} : u[w].state = "done"
      BY <1>3, <1>4, <2>1, <3>2 DEF Phase
    <3>5. Phase(files, u, i)
      BY <1>2, <3>1, <3>4 DEF Phase
    <3>6. Reach(u, i) = Reach(io, i)
      BY <1>2, <3>1, <3>3 DEF Reach
    <3>7. QED
      BY <3>5, <3>6
  <2>4. QED
    BY <2>2, <2>3
<1>6. \A i \in IOs : Reaches(u)[i] = Reaches(io)[i]
  BY <1>1, <1>5 DEF Reaches
<1>7. Written(files, Reaches(u))
  BY <1>1, <1>6 DEF Written
<1>8. QED
  BY <1>5, <1>7

LEMMA DiskOK ==
  ASSUME IInv, RunDisk
  PROVE  IInv'
<1>1. /\ conf \in Configs /\ aborted = FALSE /\ DiskInv
      /\ FileInv(files, curoff) /\ Transfer(files, io, Underway, ended)
      /\ \A j \in IOs : Phase(files, io, j)
      /\ Written(files, Reaches(io))
  BY IInvFacts
<1>2. /\ conf' = conf /\ files' = files /\ curoff' = curoff
      /\ aborted' = aborted
  BY DEF RunDisk
<1>3. /\ DiskInv'
      /\ disk = "work" => /\ io' = io /\ ended' = ended
                          /\ \A x : x \in Underway' <=> x \in Underway
      /\ disk # "work" =>
           /\ disk = "finished" /\ EndRequest(curq)
           /\ \A x : x \in Underway' <=>
                       x \in Underway /\ x \notin Elements(curq.batch)
  BY <1>1, RunDiskOK
<1>4. CASE disk = "work"
  BY <1>1, <1>2, <1>3, <1>4, IInvPrime
<1>5. CASE disk # "work"
  <2>1. PICK b : b = curq.batch
    OBVIOUS
  <2>2. IsRun(b)
    <3>1. curq \in GoodRequests
      BY <1>1, <1>3, <1>5 DEF DiskInv
    <3>2. QED
      BY <2>1, <3>1 DEF GoodRequests, IsRunOf
  <2>3. Elements(b) \subseteq Underway
    BY <1>3, <1>5, <2>1 DEF Underway, OnDisk
  <2>4. /\ io' = Completed(b)
        /\ \A x : x \in ended' <=> x \in ended \/ x \in Elements(b)
    BY <1>3, <1>5, <2>1 DEF EndRequest, Elements
  <2>5. PICK u, V, F : u = io' /\ V = Underway' /\ F = ended'
    OBVIOUS
  <2>6. /\ u \in [IOs -> IOStates]
        /\ \A i \in IOs :
             /\ u[i].off = io[i].off /\ u[i].left = io[i].left
             /\ u[i].ref = io[i].ref - Cardinality(PartsUnder(Elements(b), i))
    BY <1>1, <2>2, <2>3, <2>4, <2>5, CompletedOK
  <2>7. /\ \A x : x \in V <=> x \in Underway /\ x \notin Elements(b)
        /\ \A x : x \in F <=> x \in ended \/ x \in Elements(b)
    BY <1>3, <1>5, <2>1, <2>4, <2>5
  <2>8. Transfer(files, u, V, F)
    BY <1>1, <2>3, <2>6, <2>7, EndParts
  <2>9. /\ \A i \in IOs : Phase(files, u, i)
        /\ Written(files, Reaches(u))
    BY <2>2, <2>3, <2>4, <2>5, EndRequestOK
  <2>10. FileInv(files', curoff') /\ aborted' = FALSE
    BY <1>1, <1>2
  <2>11. QED
    BY <1>1, <1>2, <1>3, <2>5, <2>8, <2>9, <2>10, IInvPrime
<1>6. QED
  BY <1>4, <1>5

LEMMA UnplugOK ==
  ASSUME IInv, UnplugWork
  PROVE  IInv'
<1>1. /\ conf \in Configs /\ aborted = FALSE /\ DiskInv
      /\ FileInv(files, curoff) /\ Transfer(files, io, Underway, ended)
      /\ \A j \in IOs : Phase(files, io, j)
      /\ Written(files, Reaches(io))
  BY IInvFacts
<1>2. /\ conf' = conf /\ files' = files /\ curoff' = curoff
      /\ aborted' = aborted /\ io' = io /\ ended' = ended
  BY DEF UnplugWork
<1>3. DiskInv' /\ \A x : x \in Underway' <=> x \in Underway
  BY <1>1, UnplugWorkOK
<1>4. QED
  BY <1>1, <1>2, <1>3, IInvPrime

LEMMA StayOK ==
  ASSUME IInv, UNCHANGED vars
  PROVE  IInv'
<1>1. /\ conf \in Configs /\ aborted = FALSE /\ DiskInv
      /\ FileInv(files, curoff) /\ Transfer(files, io, Underway, ended)
      /\ \A j \in IOs : Phase(files, io, j)
      /\ Written(files, Reaches(io))
  BY IInvFacts
<1>2. /\ conf' = conf /\ files' = files /\ curoff' = curoff /\ io' = io
      /\ elv' = elv /\ plugged' = plugged /\ ready' = ready
      /\ disk' = disk /\ curq' = curq /\ run' = run /\ ended' = ended
      /\ aborted' = aborted
  BY DEF vars
<1>3. DiskInv' /\ Underway' = Underway
  <2>1. OnDisk' = OnDisk
    BY <1>2 DEF OnDisk
  <2>2. DiskAwake'
    BY <1>1, <1>2 DEF DiskInv, DiskAwake
  <2>3. QED
    BY <1>1, <1>2, <2>1, <2>2 DEF DiskInv, Underway
<1>4. QED
  BY <1>1, <1>2, <1>3, IInvPrime

(* No merge loses a part, no block of the disk serves two, and the disk is *)
(* awake: what the file system does for the elevator, and the elevator for *)
(* the threads (filesystem.cpp:149-470, elevator.cpp:189-466,              *)
(* disk.cpp:187-331).                                                      *)
THEOREM StorageInvariance == Spec => []IInv
<1>1. Init => IInv
  BY InitIInv
<1>2. IInv /\ [Next]_vars => IInv'
  <2>1. SUFFICES ASSUME IInv, [Next]_vars
                 PROVE  IInv'
    OBVIOUS
  <2>2. CASE \E i \in IOs : Start(i) \/ Submit(i)
    BY <2>1, <2>2, StartOK, SubmitOK
  <2>3. CASE UnplugWork
    BY <2>1, <2>3, UnplugOK
  <2>4. CASE RunDisk
    BY <2>1, <2>4, DiskOK
  <2>5. CASE UNCHANGED vars
    BY <2>1, <2>5, StayOK
  <2>6. QED
    BY <2>1, <2>2, <2>3, <2>4, <2>5 DEF Next
<1>3. QED
  BY <1>1, <1>2, PTL DEF Spec

(* The disk and the timer of the plug never wait for each other            *)
(* (disk.cpp:187-213, 302-331).                                            *)
THEOREM StorageDiskAwake == Spec => []DiskAwake
<1>1. IInv => DiskAwake
  BY DEF IInv, DiskInv
<1>2. QED
  BY <1>1, StorageInvariance, PTL
-----------------------------------------------------------------------------
LEMMA MappedOK ==
  ASSUME FileInv(files, curoff), NEW f \in Files
  PROVE  /\ \A b : b \in Mapped(f) <=> b \in Nat /\ IsMapped(files[f], b)
         /\ \A b \in Mapped(f) : /\ DiskBlock(f, b) \in Nat
                                 /\ MapsTo(files[f], b, DiskBlock(f, b))
<1>1. SoundFile(files[f], curoff)
  BY DEF FileInv
<1>2. PICK X : X = files[f].extents
  OBVIOUS
<1>3. \A x \in X : x.foff \in Nat /\ x.doff \in Nat /\ x.count \in Nat \ {0}
  BY <1>1, <1>2, FileOK
<1>4. \A x \in X : \A b : b \in x.foff..(x.foff + x.count - 1) <=>
                          b \in Nat /\ Within(b, x.foff, x.count)
  <2>1. SUFFICES ASSUME NEW x \in X, NEW b
                 PROVE  b \in x.foff..(x.foff + x.count - 1) <=>
                          b \in Nat /\ Within(b, x.foff, x.count)
    OBVIOUS
  <2>2. x.foff \in Nat /\ x.count \in Nat
    BY <1>3
  <2>3. QED
    BY <2>2 DEF Within
<1>5. \A b : b \in Mapped(f) <=> b \in Nat /\ IsMapped(files[f], b)
  <2>1. \A b : b \in Mapped(f) <=>
               \E x \in X : b \in x.foff..(x.foff + x.count - 1)
    BY <1>2 DEF Mapped
  <2>2. QED
    BY <1>2, <1>4, <2>1 DEF IsMapped
<1>6. ASSUME NEW b \in Mapped(f)
      PROVE  /\ DiskBlock(f, b) \in Nat
             /\ MapsTo(files[f], b, DiskBlock(f, b))
  <2>1. b \in Nat /\ \E x \in X : Within(b, x.foff, x.count)
    BY <1>2, <1>5 DEF IsMapped
  <2>2. PICK y : y = CHOOSE x \in X : Within(b, x.foff, x.count)
    OBVIOUS
  <2>3. y \in X /\ Within(b, y.foff, y.count)
    BY <2>1, <2>2
  <2>4. DiskBlock(f, b) = y.doff + (b - y.foff)
    BY <1>2, <2>2 DEF DiskBlock
  <2>5. y.doff \in Nat /\ y.foff \in Nat /\ y.foff <= b
    BY <1>3, <2>3 DEF Within
  <2>6. y.doff + (b - y.foff) \in Nat
    BY <2>1, <2>5
  <2>7. QED
    BY <1>2, <2>3, <2>4, <2>6 DEF MapsTo
<1>7. QED
  BY <1>5, <1>6

LEMMA HeldOK ==
  ASSUME FileInv(files, curoff), NEW f \in Files, NEW p \in Held(f)
  PROVE  \E b, d \in Nat : p = <<b, d>> /\ Holds(files[f], b, d)
<1>1. CASE p \in {<<b, DiskBlock(f, b)>> : b \in Mapped(f)}
  <2>1. PICK b \in Mapped(f) : p = <<b, DiskBlock(f, b)>>
    BY <1>1
  <2>2. /\ b \in Nat /\ DiskBlock(f, b) \in Nat
        /\ MapsTo(files[f], b, DiskBlock(f, b))
    BY MappedOK
  <2>3. Holds(files[f], b, DiskBlock(f, b))
    BY <2>2 DEF Holds
  <2>4. QED
    BY <2>1, <2>2, <2>3
<1>2. CASE \E pa \in files[f].pas :
             p \in {<<b, pa.pstart + (b - pa.lstart)>> : b \in Unmapped(f, pa)}
  <2>1. PICK pa \in files[f].pas :
          \E b \in Unmapped(f, pa) : p = <<b, pa.pstart + (b - pa.lstart)>>
    BY <1>2
  <2>2. PICK b \in Unmapped(f, pa) : p = <<b, pa.pstart + (b - pa.lstart)>>
    BY <2>1
  <2>3. /\ pa.lstart \in Nat /\ pa.pstart \in Nat /\ pa.len \in Nat
    BY FileOK DEF FileInv
  <2>4. b \in pa.lstart..(pa.lstart + pa.len - 1) /\ b \notin Mapped(f)
    BY DEF Unmapped
  <2>5. PICK d : d = pa.pstart + (b - pa.lstart)
    OBVIOUS
  <2>6. /\ b \in Nat /\ Within(b, pa.lstart, pa.len) /\ d \in Nat
    BY <2>3, <2>4, <2>5 DEF Within
  <2>7. ~IsMapped(files[f], b)
    BY <2>4, <2>6, MappedOK
  <2>8. Holds(files[f], b, d)
    BY <2>5, <2>6, <2>7 DEF Holds, Kept
  <2>9. QED
    BY <2>2, <2>5, <2>6, <2>8
<1>3. QED
  BY <1>1, <1>2 DEF Held

LEMMA DistinctFromIInv == IInv => BlocksDistinct
<1>1. SUFFICES ASSUME IInv
               PROVE  BlocksDistinct
  OBVIOUS
<1>2. FileInv(files, curoff)
  BY <1>1, IInvFacts
<1>3. ASSUME NEW f \in Files, NEW g \in Files, NEW p \in Held(f),
             NEW q \in Held(g)
      PROVE  /\ p[2] < curoff
             /\ p[2] = q[2] => f = g /\ p = q
             /\ f = g /\ p[1] = q[1] => p = q
  <2>1. PICK b \in Nat, d \in Nat : p = <<b, d>> /\ Holds(files[f], b, d)
    BY <1>2, HeldOK
  <2>2. PICK c \in Nat, e \in Nat : q = <<c, e>> /\ Holds(files[g], c, e)
    BY <1>2, HeldOK
  <2>3. p[1] = b /\ p[2] = d /\ q[1] = c /\ q[2] = e
    BY <2>1, <2>2
  <2>4. SoundFile(files[f], curoff)
    BY <1>2 DEF FileInv
  <2>5. d < curoff
    BY <2>1, <2>4 DEF SoundFile
  <2>6. d = e => f = g
    BY <1>2, <2>1, <2>2 DEF FileInv
  <2>7. f = g => (b = c <=> d = e)
    BY <2>1, <2>2, <2>4 DEF SoundFile
  <2>8. QED
    BY <2>1, <2>2, <2>3, <2>5, <2>6, <2>7
<1>4. ASSUME NEW f \in Files, NEW pa \in files[f].pas
      PROVE  pa.free >= Cardinality(Unmapped(f, pa))
  <2>1. SoundFile(files[f], curoff)
    BY <1>2 DEF FileInv
  <2>2. pa.lstart \in Nat /\ pa.len \in Nat
    BY <2>1, FileOK
  <2>3. \A b \in pa.lstart..(pa.lstart + pa.len - 1) :
          b \in Mapped(f) <=> IsMapped(files[f], b)
    BY <1>2, <2>2, MappedOK
  <2>4. Unmapped(f, pa) = Missing(files[f], pa)
    BY <2>3 DEF Unmapped, Missing
  <2>5. QED
    BY <2>1, <2>4 DEF SoundFile
<1>5. ASSUME NEW f \in Files, NEW x \in files[f].extents,
             NEW y \in files[f].extents
      PROVE  x = y \/ x.foff + x.count <= y.foff \/ y.foff + y.count <= x.foff
  BY <1>2 DEF FileInv, SoundFile
<1>6. QED
  BY <1>3, <1>4, <1>5 DEF BlocksDistinct

(* No block of the disk serves two blocks of the files, and the room that  *)
(* MbUseInodePA asserts is there (filesystem.cpp:149-384).                 *)
THEOREM StorageBlocksDistinct == Spec => []BlocksDistinct
BY DistinctFromIInv, StorageInvariance, PTL

-----------------------------------------------------------------------------
LEMMA DiskBlockOK ==
  ASSUME FileInv(files, curoff), NEW f \in Files, NEW b \in Nat, NEW d \in Nat,
         MapsTo(files[f], b, d)
  PROVE  b \in Mapped(f) /\ DiskBlock(f, b) = d
<1>1. IsMapped(files[f], b)
  BY DEF MapsTo, IsMapped
<1>2. b \in Mapped(f)
  BY <1>1, MappedOK
<1>3. PICK e : e = DiskBlock(f, b)
  OBVIOUS
<1>4. e \in Nat /\ MapsTo(files[f], b, e)
  BY <1>2, <1>3, MappedOK
<1>5. Holds(files[f], b, d) /\ Holds(files[f], b, e)
  BY <1>4 DEF Holds
<1>6. SoundFile(files[f], curoff)
  BY DEF FileInv
<1>7. d = e
  BY <1>4, <1>5, <1>6 DEF SoundFile
<1>8. QED
  BY <1>2, <1>3, <1>7

(* What the end of an I/O promises of each of its blocks.                  *)
Transferred(i, b) ==
  /\ b \in Mapped(i.file)
  /\ \E q \in ended : /\ q.io = i
                      /\ Within(DiskBlock(i.file, b), q.off, q.count)

LEMMA DoneTransferred ==
  ASSUME IInv, NEW i \in IOs, io[i].state = "done",
         NEW b \in i.off..(i.off + i.count - 1)
  PROVE  Transferred(i, b)
<1>1. /\ FileInv(files, curoff) /\ Transfer(files, io, Underway, ended)
      /\ Phase(files, io, i)
  BY IInvFacts
<1>2. /\ i.off \in Nat /\ i.count \in Nat \ {0} /\ i.file \in Files
      /\ io[i].off \in Nat /\ io[i].off + io[i].left = i.off + i.count
  BY <1>1, IOsOK, ThreadOK
<1>3. io[i].left = 0 /\ io[i].ref = 0
  BY <1>1 DEF Phase
<1>4. PartsUnder(Underway, i) = {}
  <2>1. /\ IsFiniteSet(PartsUnder(Underway, i))
        /\ Cardinality(PartsUnder(Underway, i)) = 0
    BY <1>1, <1>3 DEF Transfer, Counted
  <2>2. QED
    BY <2>1, FS_EmptySet
<1>5. b \in i.off..(io[i].off - 1) /\ b \in Nat
  BY <1>2, <1>3
<1>6. PICK p \in Underway \cup ended : Covers(files, i, b, p)
  BY <1>1, <1>5 DEF Transfer
<1>7. p.io = i /\ p \in ended
  BY <1>4, <1>6 DEF Covers, PartsUnder
<1>8. PICK d \in Nat : /\ Within(d, p.off, p.count)
                       /\ MapsTo(files[i.file], b, d)
  BY <1>6 DEF Covers
<1>9. b \in Mapped(i.file) /\ DiskBlock(i.file, b) = d
  BY <1>1, <1>2, <1>5, <1>8, DiskBlockOK
<1>10. QED
  BY <1>7, <1>8, <1>9 DEF Transferred

LEMMA NotDoneUntransferred ==
  ASSUME IInv, NEW i \in IOs, io[i].state # "done"
  PROVE  \E b \in i.off..(i.off + i.count - 1) : ~Transferred(i, b)
<1>1. /\ FileInv(files, curoff) /\ Transfer(files, io, Underway, ended)
      /\ Phase(files, io, i)
  BY IInvFacts
<1>2. /\ i.off \in Nat /\ i.count \in Nat \ {0} /\ i.file \in Files
      /\ io[i] \in IOStates /\ io[i].off \in Nat /\ io[i].left \in Nat
      /\ i.off <= io[i].off /\ io[i].off + io[i].left = i.off + i.count
  BY <1>1, IOsOK, ThreadOK
<1>3. \A p \in Underway \cup ended : p.io = i =>
        /\ p \in PartSet /\ p.off \in Nat /\ p.count \in Nat \ {0}
        /\ \E b \in Nat : /\ i.off <= b /\ b + p.count <= io[i].off
                          /\ MapsAll(files[i.file], b, p)
  BY <1>1 DEF Transfer, Lies, PartSet
<1>4. CASE io[i].left # 0
  <2>1. PICK b : b = io[i].off
    OBVIOUS
  <2>2. b \in i.off..(i.off + i.count - 1) /\ b \in Nat
    BY <1>2, <1>4, <2>1
  <2>3. SUFFICES ASSUME Transferred(i, b)
                 PROVE  FALSE
    BY <2>2
  <2>4. PICK d, q : /\ d = DiskBlock(i.file, b) /\ b \in Mapped(i.file)
                    /\ q \in ended /\ q.io = i /\ Within(d, q.off, q.count)
    BY <2>3 DEF Transferred
  <2>5. d \in Nat /\ MapsTo(files[i.file], b, d)
    BY <1>1, <1>2, <2>4, MappedOK
  <2>6. PICK c \in Nat : /\ c + q.count <= b
                         /\ MapsAll(files[i.file], c, q)
    BY <1>3, <2>1, <2>4
  <2>7. q.off \in Nat /\ q.count \in Nat \ {0}
    BY <1>3, <2>4
  <2>8. PICK k : k = d - q.off
    OBVIOUS
  <2>9. k \in 0..(q.count - 1) /\ q.off + k = d
    BY <2>4, <2>5, <2>7, <2>8 DEF Within
  <2>10. MapsTo(files[i.file], c + k, d)
    BY <2>6, <2>9 DEF MapsAll
  <2>11. c + k \in Nat /\ c + k < b
    BY <2>2, <2>6, <2>7, <2>9
  <2>12. c + k = b
    BY <1>1, <1>2, <2>2, <2>5, <2>10, <2>11, MapInjective
  <2>13. QED
    BY <2>2, <2>11, <2>12
<1>5. CASE io[i].left = 0
  <2>1. io[i].state \in {"new", "submit", "submitted", "done"}
    BY <1>2 DEF IOStates
  <2>2. io[i].state # "new"
    BY <1>1, <1>2, <1>5 DEF Phase
  <2>3. io[i].state # "submit"
    <3>1. SUFFICES ASSUME io[i].state = "submit"
                   PROVE  FALSE
      OBVIOUS
    <3>2. io[i].part \in PartSet /\ io[i].part.count <= 0
      BY <1>1, <1>5, <3>1 DEF Phase
    <3>3. QED
      BY <3>2 DEF PartSet
  <2>4. io[i].ref # 0
    BY <1>1, <2>1, <2>2, <2>3 DEF Phase
  <2>5. PartsUnder(Underway, i) # {}
    BY <1>1, <2>4, FS_EmptySet DEF Transfer, Counted
  <2>6. PICK p \in Underway : p.io = i
    BY <2>5 DEF PartsUnder
  <2>7. p.off \in Nat /\ p.count \in Nat \ {0}
    BY <1>3, <2>6
  <2>8. PICK b \in Nat : /\ i.off <= b /\ b + p.count <= io[i].off
                         /\ MapsAll(files[i.file], b, p)
    BY <1>3, <2>6
  <2>9. b \in i.off..(i.off + i.count - 1)
    BY <1>2, <1>5, <2>7, <2>8
  <2>10. MapsTo(files[i.file], b, p.off)
    <3>1. MapsTo(files[i.file], b + 0, p.off + 0)
      BY <2>7, <2>8 DEF MapsAll
    <3>2. b + 0 = b /\ p.off + 0 = p.off
      BY <2>7
    <3>3. QED
      BY <3>1, <3>2
  <2>11. DiskBlock(i.file, b) = p.off
    BY <1>1, <1>2, <2>7, <2>10, DiskBlockOK
  <2>12. SUFFICES ASSUME Transferred(i, b)
                  PROVE  FALSE
    BY <2>9
  <2>13. PICK q \in ended : q.io = i /\ Within(p.off, q.off, q.count)
    BY <2>11, <2>12 DEF Transferred
  <2>14. Within(p.off, p.off, p.count)
    BY <2>7 DEF Within
  <2>15. p = q
    BY <1>1, <2>6, <2>7, <2>13, <2>14 DEF Transfer
  <2>16. QED
    BY <1>1, <2>6, <2>13, <2>15 DEF Transfer
<1>6. QED
  BY <1>4, <1>5

LEMMA TransferredFromIInv == IInv => DoneMeansTransferred
<1>1. SUFFICES ASSUME IInv, NEW i \in IOs
               PROVE  io[i].state = "done" <=>
                        \A b \in i.off..(i.off + i.count - 1) :
                          Transferred(i, b)
  BY DEF DoneMeansTransferred, Transferred
<1>2. QED
  BY <1>1, DoneTransferred, NotDoneUntransferred

(* A thread is told of the end of its I/O when, and only when, each of its *)
(* blocks has been transferred, although parts are done while others are   *)
(* still to be mapped (filesystem.cpp:386-403, 455-470).                   *)
THEOREM StorageDoneMeansTransferred == Spec => []DoneMeansTransferred
BY TransferredFromIInv, StorageInvariance, PTL

-----------------------------------------------------------------------------
LEMMA OneRequest ==
  ASSUME NEW r \in GoodRequests, NEW s, s = <<r>>
  PROVE  /\ SoundQueue(s) /\ Len(s) = 1
         /\ \A x : x \in PartsIn(s) <=> x \in Elements(r.batch)
<1>1. /\ s \in Seq(GoodRequests) /\ Len(s) = 1 /\ DOMAIN s = {1} /\ s[1] = r
  BY EmptySeq
<1>2. Elements(s) = {r} /\ Distinct(s)
  BY <1>1 DEF Elements, Distinct
<1>3. QED
  BY <1>1, <1>2 DEF SoundQueue, Apart, PartsIn, PartsOf

(* The requests of the elevator and of the disk, in a row.                 *)
LEMMA RequestsOK ==
  ASSUME DiskInv
  PROVE  /\ SoundQueue(Requests)
         /\ elv.inflight = Len(Requests) - Len(elv.queue)
         /\ \A x : x \in PartsIn(Requests) <=> x \in Underway
<1>1. /\ SoundElevator(elv) /\ SoundQueue(ready)
      /\ disk = "finished" => curq \in GoodRequests
      /\ PartsIn(elv.queue) \cap PartsIn(ready) = {}
      /\ OnDisk \cap PartsIn(elv.queue) = {} /\ OnDisk \cap PartsIn(ready) = {}
      /\ elv.inflight = Len(ready) + (IF disk = "finished" THEN 1 ELSE 0)
  BY DEF DiskInv
<1>2. SoundQueue(elv.queue)
  BY <1>1, ElevatorOK
<1>3. Len(elv.queue) \in Nat /\ Len(ready) \in Nat
  BY <1>1, <1>2, QueueOK
<1>4. PICK t : Follows(elv.queue, ready, t)
  BY DEF Follows
<1>5. /\ SoundQueue(t) /\ Len(t) = Len(elv.queue) + Len(ready)
      /\ \A x : x \in PartsIn(t) <=>
                  x \in PartsIn(elv.queue) \/ x \in PartsIn(ready)
  <2>1. \A x \in PartsIn(elv.queue) : x \notin PartsIn(ready)
    BY <1>1
  <2>2. QED
    BY <1>1, <1>2, <1>4, <2>1, QueuesJoin
<1>6. PICK s : s = IF disk = "finished" THEN <<curq>> ELSE <<>>
  OBVIOUS
<1>7. /\ SoundQueue(s)
      /\ Len(s) = IF disk = "finished" THEN 1 ELSE 0
      /\ \A x : x \in PartsIn(s) <=> x \in OnDisk
  <2>1. CASE disk = "finished"
    <3>1. s = <<curq>> /\ curq \in GoodRequests
      BY <1>1, <1>6, <2>1
    <3>2. /\ SoundQueue(s) /\ Len(s) = 1
          /\ \A x : x \in PartsIn(s) <=> x \in Elements(curq.batch)
      BY <3>1, OneRequest
    <3>3. QED
      BY <2>1, <3>2 DEF OnDisk
  <2>2. CASE disk # "finished"
    <3>1. s = <<>>
      BY <1>6, <2>2
    <3>2. QED
      BY <2>2, <3>1, EmptyQueueOK DEF OnDisk
  <2>3. QED
    BY <2>1, <2>2
<1>8. PICK r : Follows(t, s, r)
  BY DEF Follows
<1>9. /\ SoundQueue(r) /\ Len(r) = Len(t) + Len(s)
      /\ \A x : x \in PartsIn(r) <=> x \in PartsIn(t) \/ x \in PartsIn(s)
  <2>1. \A x \in PartsIn(t) : x \notin PartsIn(s)
    BY <1>1, <1>5, <1>7
  <2>2. QED
    BY <1>5, <1>7, <1>8, <2>1, QueuesJoin
<1>10. r = Requests
  BY <1>4, <1>6, <1>8, Zenon DEF Follows, Requests
<1>11. elv.inflight = Len(r) - Len(elv.queue)
  <2>1. PICK a, b, c, n, m :
          /\ a = Len(elv.queue) /\ b = Len(ready) /\ c = Len(s)
          /\ n = elv.inflight /\ m = Len(r)
    OBVIOUS
  <2>2. a \in Nat /\ b \in Nat /\ c \in Nat /\ n = b + c /\ m = a + b + c
    BY <1>1, <1>3, <1>5, <1>7, <1>9, <2>1
  <2>3. n = m - a
    BY <2>2
  <2>4. QED
    BY <2>1, <2>3
<1>12. \A x : x \in PartsIn(r) <=> x \in Underway
  BY <1>5, <1>7, <1>9 DEF Underway
<1>13. QED
  BY <1>9, <1>10, <1>11, <1>12

LEMMA WaitingOK ==
  ASSUME DiskInv
  PROVE  Waiting = Underway
<1>1. PICK S : S = Requests
  OBVIOUS
<1>2. \A x : x \in PartsIn(S) <=> x \in Underway
  BY <1>1, RequestsOK
<1>3. \A x : x \in Waiting <=> x \in PartsIn(S)
  BY <1>1 DEF Waiting, PartsIn, PartsOf, Elements, Range
<1>4. QED
  BY <1>2, <1>3

LEMMA TypeOKFromIInv == IInv => TypeOK
<1>1. SUFFICES ASSUME IInv
               PROVE  TypeOK
  OBVIOUS
<1>2. /\ conf \in Configs /\ aborted = FALSE /\ DiskInv
      /\ FileInv(files, curoff) /\ Transfer(files, io, Underway, ended)
  BY <1>1, IInvFacts
<1>3. PartSet \subseteq Parts
  BY DEF PartSet, Parts
<1>4. ASSUME NEW f \in Files
      PROVE  /\ files[f].extents \subseteq [foff : Nat, doff : Nat, count : Nat]
             /\ files[f].pas \subseteq
                  [lstart : Nat, pstart : Nat, len : Nat, free : Nat]
  <2>1. files[f].extents \subseteq ExtentSet /\ files[f].pas \subseteq PASet
    BY <1>2 DEF FileInv, SoundFile
  <2>2. QED
    BY <2>1 DEF ExtentSet, PASet
<1>5. ASSUME NEW i \in IOs
      PROVE  /\ io[i].state \in {"new", "submit", "submitted", "done"}
             /\ io[i].part \in Parts \cup {None}
             /\ io[i].left \in 0..i.count /\ io[i].ref \in 0..i.count
  <2>1. io[i] \in IOStates
    BY <1>2, ThreadOK
  <2>2. /\ io[i].state \in {"new", "submit", "submitted", "done"}
        /\ io[i].part \in Parts \cup {None}
    BY <1>3, <2>1 DEF IOStates
  <2>3. PICK a, l, r, o, c : /\ a = io[i].off /\ l = io[i].left
                             /\ r = io[i].ref /\ o = i.off /\ c = i.count
    OBVIOUS
  <2>4. /\ a \in Nat /\ l \in Nat /\ r \in Nat /\ o \in Nat /\ c \in Nat
        /\ o <= a /\ a + l = o + c /\ r + l <= c
    BY <1>2, <2>3, ThreadOK, IOsOK
  <2>5. l \in 0..c /\ r \in 0..c
    BY <2>4
  <2>6. QED
    BY <2>2, <2>3, <2>5
<1>6. ASSUME NEW k \in DOMAIN Requests
      PROVE  /\ DOMAIN Requests[k] = {"id", "cmd", "off", "count", "batch"}
             /\ Requests[k].batch \in Seq(Parts) \ {<<>>}
  <2>1. PICK r : r = Requests[k]
    OBVIOUS
  <2>2. r \in GoodRequests
    BY <1>2, <2>1, RequestsOK, QueueOK
  <2>3. /\ r = [id |-> r.id, cmd |-> r.cmd, off |-> r.off, count |-> r.count,
                batch |-> r.batch]
        /\ r.batch \in Seq(PartSet)
    BY <2>2, GoodRequestOK
  <2>4. DOMAIN r = {"id", "cmd", "off", "count", "batch"}
    BY <2>3
  <2>5. r.batch # <<>>
    BY <2>2 DEF GoodRequests, IsRunOf, IsRun
  <2>6. \A n \in DOMAIN r.batch : r.batch[n] \in Parts
    BY <1>3, <2>3
  <2>7. r.batch \in Seq(Parts)
    BY <2>3, <2>6
  <2>8. QED
    BY <2>1, <2>4, <2>5, <2>7
<1>7. plugged \in BOOLEAN /\ run \in BOOLEAN
      /\ disk \in {"idle", "work", "finished"}
  BY <1>2 DEF DiskInv
<1>8. ended \subseteq Parts
  BY <1>2, <1>3 DEF Transfer, Lies
<1>9. curoff \in Nat
  BY <1>2 DEF FileInv
<1>10. QED
  BY <1>2, <1>4, <1>5, <1>6, <1>7, <1>8, <1>9 DEF TypeOK

LEMMA AccountedFromIInv == IInv => PartsAccounted
<1>1. SUFFICES ASSUME IInv
               PROVE  PartsAccounted
  OBVIOUS
<1>2. /\ aborted = FALSE /\ DiskInv
      /\ Transfer(files, io, Underway, ended) /\ TypeOK
  BY <1>1, IInvFacts, TypeOKFromIInv
<1>3. PICK S : S = Requests
  OBVIOUS
<1>4. /\ SoundQueue(S) /\ elv.inflight = Len(S) - Len(elv.queue)
      /\ Distinct(S) /\ Apart(Elements(S))
      /\ \A k \in DOMAIN S : S[k] \in Elements(S) /\ S[k] \in GoodRequests
  BY <1>2, <1>3, RequestsOK, QueueOK
<1>5. ASSUME NEW k \in DOMAIN S, NEW r, r = S[k], NEW b, b = r.batch
      PROVE  /\ r.off = Head(b).off /\ EndOf(r) = EndOf(Last(b))
             /\ \A n \in 1..(Len(b) - 1) : EndOf(b[n]) = b[n + 1].off
             /\ r.count <= MaxReqSize \/ Len(b) = 1
  <2>1. IsRunOf(r)
    BY <1>4, <1>5 DEF GoodRequests
  <2>2. /\ IsRun(b)
        /\ r.off = b[1].off /\ EndOf(r) = EndOf(b[Len(b)])
        /\ r.count <= MaxReqSize \/ Len(b) = 1
    BY <1>5, <2>1 DEF IsRunOf
  <2>3. b \in Seq(PartSet) /\ b # <<>>
    BY <2>2 DEF IsRun
  <2>4. Head(b) = b[1] /\ Last(b) = b[Len(b)]
    BY <2>3 DEF Last
  <2>5. QED
    BY <2>2, <2>4 DEF IsRun
<1>6. ASSUME NEW k \in DOMAIN S, NEW l \in DOMAIN S,
             NEW n \in DOMAIN S[k].batch, NEW m \in DOMAIN S[l].batch,
             S[k].batch[n] = S[l].batch[m]
      PROVE  k = l /\ n = m
  <2>1. /\ S[k].batch[n] \in Elements(S[k].batch)
        /\ S[l].batch[m] \in Elements(S[l].batch)
    BY DEF Elements
  <2>2. S[k] = S[l]
    BY <1>4, <1>6, <2>1 DEF Apart
  <2>3. k = l
    BY <1>4, <2>2 DEF Distinct
  <2>4. Distinct(S[k].batch)
    BY <1>4 DEF GoodRequests, IsRunOf, IsRun
  <2>5. QED
    BY <1>6, <2>3, <2>4 DEF Distinct
<1>7. Waiting = Underway
  BY <1>2, WaitingOK
<1>8. Waiting \cap ended = {}
  BY <1>2, <1>7 DEF Transfer
<1>9. elv.last = None \/ LastRequest(elv) # {}
  <2>1. SUFFICES ASSUME elv.last # None
                 PROVE  LastRequest(elv) # {}
    OBVIOUS
  <2>2. PICK r \in Elements(elv.queue) : r.id = elv.last
    BY <1>2, <2>1 DEF DiskInv, SoundElevator
  <2>3. PICK k \in DOMAIN elv.queue : elv.queue[k].id = elv.last
    BY <2>2 DEF Elements
  <2>4. k \in LastRequest(elv)
    BY <2>3 DEF LastRequest, Positions
  <2>5. QED
    BY <2>4
<1>10. GetPendingNum(elv) = Len(elv.queue)
  BY <1>2 DEF DiskInv, SoundElevator
<1>11. ASSUME NEW i \in IOs
       PROVE  io[i].ref = Cardinality({q \in Waiting : q.io = i})
  <2>1. io[i].ref = Cardinality(PartsUnder(Underway, i))
    BY <1>2 DEF Transfer, Counted
  <2>2. QED
    BY <1>7, <2>1 DEF PartsUnder
<1>12. \A k \in DOMAIN Requests :
         LET r == Requests[k] b == r.batch
         IN /\ r.off = Head(b).off /\ EndOf(r) = EndOf(Last(b))
            /\ \A n \in 1..(Len(b) - 1) : EndOf(b[n]) = b[n + 1].off
            /\ r.count <= MaxReqSize \/ Len(b) = 1
  BY <1>3, <1>5
<1>13. \A k, l \in DOMAIN Requests :
         \A n \in DOMAIN Requests[k].batch, m \in DOMAIN Requests[l].batch :
           Requests[k].batch[n] = Requests[l].batch[m] => k = l /\ n = m
  BY <1>3, <1>6
<1>14. elv.inflight = Len(Requests) - Len(elv.queue)
  BY <1>3, <1>4
<1>15. ~aborted
  BY <1>2
<1>16. QED
  BY <1>2, <1>8, <1>9, <1>10, <1>11, <1>12, <1>13, <1>14, <1>15, Zenon
     DEF PartsAccounted

(* No merge loses a part or repeats one, a request is the run of its       *)
(* parts, the hint names a request, the counters agree with the queues,    *)
(* and no assertion fails (elevator.cpp:189-466, elvdeadline.cpp).         *)
THEOREM StoragePartsAccounted == Spec => []PartsAccounted
BY AccountedFromIInv, StorageInvariance, PTL
=============================================================================
