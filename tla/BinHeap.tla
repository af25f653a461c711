------------------------------ MODULE BinHeap ------------------------------
(***************************************************************************)
(* The two binary heaps: cfs_binheap (heap.cpp), in which the TBF policy   *)
(* keeps its classes and which knows the place of every node, and          *)
(* NrsBinheap (nrsbinheap.cpp), which only gives up its root.  Both keep   *)
(* the nodes in an array that grows by fragments: one of 2^Shift pointers, *)
(* then 2^Shift of them behind an array of pointers, then as many of       *)
(* those.  Allocations succeed.                                            *)
(***************************************************************************)
EXTENDS Integers, FiniteSets, Sequences

CONSTANTS HeapNodes, None,
          Keys,  \* node -> the keys it may have
          Shift  \* CBH_SHIFT, CAA_SHIFT

BinHeapAssumption ==
    /\ Shift \in Nat \ {0}
    /\ Keys \in [HeapNodes -> SUBSET Int]

Size == 2 ^ Shift
Capacity == Size + Size ^ 2 + Size ^ 3

VARIABLE heap

(* An element of the array: its fragment, a path of indices, and its slot  *)
(* (cfs_binheap_pointer, cfs_aa_index).                                    *)
Pointer(i) ==
    LET j == i - Size
        k == j - Size ^ 2
    IN IF i < Size THEN <<<<1>>, i>>
       ELSE IF j < Size ^ 2 THEN <<<<2, j \div Size>>, j % Size>>
       ELSE <<<<3, k \div Size ^ 2, (k \div Size) % Size>>, k % Size>>

Empty(kind) ==
    [kind |-> kind, frags |-> {}, hwm |-> 0, size |-> 0,
     mem |-> [p \in {Pointer(i) : i \in 0..(Capacity - 1)} |-> None],
     index |-> [n \in HeapNodes |-> None],
     key |-> [n \in HeapNodes |-> None]]

At(h, i) == h.mem[Pointer(i)]
Members(h) == {At(h, i) : i \in 0..(h.size - 1)}

(* The compare functions (tbf_cli_compare, BinheapRunTimeCompare): TRUE if *)
(* a may stand above b, also when the keys are equal.                      *)
Compare(h, a, b) == h.key[a] =< h.key[b]

Put(h, i, n) ==
    [h EXCEPT !.mem[Pointer(i)] = n,
              !.index[n] = IF h.kind = "cfs" THEN i ELSE None]

(* cfs_binheap_grow: the fragments it allocates at the high water mark.    *)
GrowCfs(hwm) ==
    LET j == hwm - Size
        k == j - Size ^ 2
        a == k \div Size ^ 2
        b == (k \div Size) % Size
    IN IF hwm = 0 THEN {<<1>>}
       ELSE IF j < Size ^ 2
            THEN {<<2, j \div Size>>} \cup (IF j = 0 THEN {<<2>>} ELSE {})
            ELSE {<<3, a, b>>} \cup (IF b = 0 THEN {<<3, a>>} ELSE {})
                               \cup (IF k = 0 THEN {<<3>>} ELSE {})

(* The fragments on the way to the element i (cfs_aa_lookup allocates      *)
(* those that are missing).                                                *)
Paths(i) == LET p == Pointer(i)[1] IN {SubSeq(p, 1, l) : l \in 1..Len(p)}

(* Room for one more element: cfs_binheap_grow, or cfs_aa_lookup.          *)
WithRoom(h) ==
    IF h.size < h.hwm THEN h
    ELSE IF h.kind = "cfs"
         THEN [h EXCEPT !.frags = @ \cup GrowCfs(h.hwm), !.hwm = @ + Size]
         ELSE [h EXCEPT !.frags = @ \cup Paths(h.size), !.hwm = @ + 1]

(* cfs_binheap_bubble, from i on.                                          *)
RECURSIVE Bubble(_, _, _)
Bubble(h, e, i) ==
    LET above == (i - 1) \div 2
    IN IF i = 0 THEN Put(h, 0, e)
       ELSE IF Compare(h, At(h, above), e) THEN Put(h, i, e)
       ELSE Bubble(Put(h, i, At(h, above)), e, above)

(* cfs_binheap_sink, and the loop of cfs_bheap_remove_root.                *)
RECURSIVE Sink(_, _, _)
Sink(h, e, i) ==
    LET l == 2 * i + 1
        r == l + 1
        c == IF r < h.size /\ Compare(h, At(h, r), At(h, l)) THEN r ELSE l
    IN IF l >= h.size THEN Put(h, i, e)
       ELSE IF Compare(h, e, At(h, c)) THEN Put(h, i, e)
       ELSE Sink(Put(h, i, At(h, c)), e, c)

(* Wrong: a node never sinks.                                              *)
RelocateUp(h, e) == Bubble(h, e, h.index[e])

(* cfs_binheap_relocate                                                    *)
Relocate(h, e) ==
    LET up == Bubble(h, e, h.index[e])
    IN IF up.index[e] # h.index[e] THEN up ELSE Sink(h, e, h.index[e])

(* cfs_binheap_insert, cfs_bheap_insert                                    *)
Insert(h, e, k) ==
    LET room == WithRoom([h EXCEPT !.key[e] = k])
    IN Bubble([Put(room, h.size, e) EXCEPT !.size = @ + 1], e, h.size)

(* The heap when e has left it and the last slot is given up.  What a node *)
(* outside the heap holds is not kept.                                     *)
Shorter(h, e) ==
    [h EXCEPT !.size = @ - 1, !.mem[Pointer(h.size - 1)] = None,
              !.index[e] = None, !.key[e] = None]

(* cfs_binheap_remove                                                      *)
Remove(h, e) ==
    LET last == At(h, h.size - 1)
        i    == h.index[e]
    IN IF last = e THEN Shorter(h, e)
       ELSE Relocate(Put(Shorter(h, e), i, last), last)

(* cfs_bheap_remove_root                                                   *)
RemoveRoot(h) ==
    LET short == Shorter(h, At(h, 0))
    IN IF h.size = 1 THEN short ELSE Sink(short, At(h, h.size - 1), 0)

-----------------------------------------------------------------------------
HeapInit == \E kind \in {"cfs", "nrs"} : heap = Empty(kind)

HeapNext ==
    \/ \E e \in HeapNodes \ Members(heap) : \E k \in Keys[e] :
         heap.size < Capacity /\ heap' = Insert(heap, e, k)
    \/ \E e \in Members(heap) :
         heap.kind = "cfs" /\ heap' = Remove(heap, e)
    \/ \E e \in Members(heap) : \E k \in Keys[e] \ {heap.key[e]} :
         /\ heap.kind = "cfs"
         /\ heap' = Relocate([heap EXCEPT !.key[e] = k], e)
    \/ /\ heap.kind = "nrs" /\ heap.size > 0
       /\ heap' = RemoveRoot(heap)

(* What cfs_binheap_destroy frees.                                         *)
Freed(hwm) ==
    {<<1>> : n \in {0} \cap 0..(hwm - 1)}
      \cup {<<2, a>> : a \in {x \in 0..(Size - 1) : Size + x * Size < hwm}}
      \cup {<<2>> : n \in {Size} \cap 0..(hwm - 1)}
      \cup UNION {{<<3, a, b>>, <<3, a>>, <<3>>} :
             <<a, b>> \in {x \in (0..(Size - 1)) \X (0..(Size - 1)) :
               Size + Size ^ 2 + (x[1] * Size + x[2]) * Size < hwm}}

(* Whatever was inserted, removed and given another key, the root of the   *)
(* heap is a minimum and no node comes before one it depends on, every     *)
(* node knows its own place, the array has every fragment that a pointer   *)
(* goes through, and destroying the heap frees exactly its fragments.      *)
HeapInOrder ==
    /\ Cardinality(Members(heap)) = heap.size /\ None \notin Members(heap)
    /\ \A i \in 1..(heap.size - 1) :
         Compare(heap, At(heap, (i - 1) \div 2), At(heap, i))
    /\ heap.size =< heap.hwm
    /\ \A i \in 0..(heap.hwm - 1) : Paths(i) \subseteq heap.frags
    /\ heap.kind = "cfs" =>
         /\ \A i \in 0..(heap.size - 1) : heap.index[At(heap, i)] = i
         /\ heap.frags = Freed(heap.hwm)
=============================================================================
