---------------------------- MODULE IntervalTree ----------------------------
(***************************************************************************)
(* The tree of extents in which the lock manager keeps the granted locks   *)
(* of one mode (intervaltree.cpp).  A node is named by its extent          *)
(* [start, end]: an extent that is there already gets no second node.      *)
(* The tree is ordered by start, then end; maxHigh (in_max_high) of a node *)
(* is to bound the ends below it, so that a search can skip subtrees.      *)
(***************************************************************************)
EXTENDS Integers, FiniteSetsExt, Sequences

CONSTANTS Extents, \* the extents of nodes
          Eof,     \* ~0, the end of what can be locked
          None

IntervalTreeAssumption ==
    /\ Eof \in Nat
    /\ \A x \in Extents : x.start \in Nat /\ x.end \in x.start..Eof

(* extent_compare < 0, extent_overlapped                                   *)
ExtentLess(x, y) ==
    x.start < y.start \/ (x.start = y.start /\ x.end < y.end)
Overlapped(x, y) == x.start =< y.end /\ y.start =< x.end

(* The new maxHigh of n, from its children.                                *)
HighOf(t, n) ==
    Max({n.end} \cup {t.maxHigh[t.child[s][n]] : s \in {"left", "right"}})

(* __rotate_change_maxhigh                                                 *)
RotateChangeMaxhigh(t, n, rotate) ==
    [t EXCEPT !.maxHigh = [@ EXCEPT ![rotate] = t.maxHigh[n],
                                    ![n] = HighOf(t, n)]]

RB == INSTANCE RedBlack
        WITH Nodes <- Extents, Left <- ExtentLess,
             Rotated <- RotateChangeMaxhigh

(* maxHigh of NULL reads as 0.                                             *)
EmptyTree ==
    [maxHigh |-> [x \in Extents \cup {None} |-> 0],
     root |-> RB!Empty.root, child |-> RB!Empty.child,
     parent |-> RB!Empty.parent, color |-> RB!Empty.color,
     key |-> RB!Empty.key, num |-> RB!Empty.num]

InTree(t) == RB!InTree(t)

(* interval_first and interval_next, or interval_last and interval_prev,   *)
(* when the nodes are gone through from the side s on; interval_iterate    *)
(* and interval_iterate_reverse: the nodes func is called for.             *)
FirstFrom(t, s)        == IF s = "left" THEN RB!First(t) ELSE RB!LastOf(t)
NextInterval(t, n, s)  == IF s = "left" THEN RB!NextOf(t, n) ELSE RB!PrevOf(t, n)
RECURSIVE IterateFrom(_, _, _)
IterateFrom(t, n, s) ==
    IF n = None THEN <<>> ELSE <<n>> \o IterateFrom(t, NextInterval(t, n, s), s)
Iterate(t, s) == IterateFrom(t, FirstFrom(t, s), s)

(* interval_find                                                           *)
Find(t, x) == IF x \in InTree(t) THEN x ELSE None

(* The nodes from n up to the root.                                        *)
RECURSIVE PathUp(_, _)
PathUp(t, n) == IF n = None THEN {} ELSE {n} \cup PathUp(t, t.parent[n])

(* interval_insert of a node whose extent is not in the tree: on the way   *)
(* down to its place it raises maxHigh.                                    *)
Insert(t, x) ==
    LET linked == RB!Link(t, x, x)
        raised == [linked EXCEPT
                     !.maxHigh = [n \in DOMAIN @ |->
                        IF n = x \/ (n \in PathUp(linked, x) /\ @[n] < x.end)
                        THEN x.end ELSE @[n]]]
    IN RB!InsertColor(raised, x)

(* update_maxhigh: nothing if n is NULL.                                   *)
RECURSIVE UpdateMaxhigh(_, _, _)
UpdateMaxhigh(t, n, old) ==
    LET high == HighOf(t, n)
        t1   == [t EXCEPT !.maxHigh[n] = high]
    IN IF n = None THEN t
       ELSE IF high >= old THEN t1 ELSE UpdateMaxhigh(t1, t.parent[n], old)

(* Wrong: the bounds are left as they are, and the node that takes the     *)
(* place of the erased one keeps its own.                                  *)
EraseKeepBounds(t, x) == RB!Erase(t, x)

(* interval_erase: the bound of the node that is cut out goes to the       *)
(* update that begins at its child, and the one of x to the update that    *)
(* begins at the node in its place.                                        *)
Erase(t, x) ==
    LET cut  == RB!Cut(t, x)
        out  == IF cut.heir = None THEN x ELSE cut.heir
        t1   == UpdateMaxhigh(cut.tree, cut.child, t.maxHigh[out])
        t2   == UpdateMaxhigh(t1, cut.heir, t.maxHigh[x])
        done == RB!Forget(RB!Recolor([cut EXCEPT !.tree = t2]), x)
    IN [done EXCEPT !.maxHigh[x] = 0, !.num = @ - 1]

(* interval_may_overlap                                                    *)
MayOverlap(t, n, x) == x.start =< t.maxHigh[n] /\ x.end >= n.start

(* interval_search: the nodes it calls func for, in order.  Climb is its   *)
(* way back up: to the right sibling of the first node that is a left      *)
(* child and has one, unless the parent shows that nothing is left.        *)
RECURSIVE Climb(_, _, _)
Climb(t, n, x) ==
    LET p == t.parent[n]
        sibling == t.child["right"][p]
    IN IF p = None THEN None
       ELSE IF t.child["left"][p] = n /\ sibling # None
            THEN IF MayOverlap(t, p, x) THEN sibling ELSE None
            ELSE Climb(t, p, x)

RECURSIVE SearchFrom(_, _, _)
SearchFrom(t, n, x) ==
    LET l     == t.child["left"][n]
        r     == t.child["right"][n]
        below == x.end < n.start
        into  == ~below /\ MayOverlap(t, n, x)
        next  == CASE (below \/ into) /\ l # None -> l
                   [] into /\ l = None /\ r # None -> r
                   [] OTHER -> Climb(t, n, x)
        hit   == IF into /\ Overlapped(x, n) THEN <<n>> ELSE <<>>
    IN IF next = None THEN hit ELSE hit \o SearchFrom(t, next, x)
Search(t, x) == IF t.root = None THEN <<>> ELSE SearchFrom(t, t.root, x)

(* interval_is_overlapped                                                  *)
IsOverlapped(t, x) == Search(t, x) # <<>>

(* interval_expand_low, interval_expand_high, interval_expand for an       *)
(* extent that overlaps none (an assertion of the code) and a limiter.     *)
ExpandLow(t, low) == IF t.root = None THEN 0 ELSE low

RECURSIVE ExpandHighFrom(_, _, _, _)
ExpandHighFrom(t, n, high, result) ==
    IF n = None THEN result
    ELSE IF t.maxHigh[n] < high THEN result
    ELSE IF n.start > high
         THEN ExpandHighFrom(t, t.child["left"][n], high, n.start - 1)
         ELSE ExpandHighFrom(t, t.child["right"][n], high, result)
ExpandHigh(t, high) == ExpandHighFrom(t, t.root, high, Eof)

Expand(t, x, limiter) ==
    [start |-> IF limiter.start < x.start THEN ExpandLow(t, x.start)
                                          ELSE x.start,
     end   |-> IF limiter.end > x.end THEN ExpandHigh(t, x.end) ELSE x.end]

-----------------------------------------------------------------------------
(* The tree as a component of its own: any sequence of insertions and      *)
(* erasures.                                                               *)
VARIABLE intervals

IntervalInit == intervals = EmptyTree

IntervalNext ==
    \E x \in Extents :
      \/ /\ Find(intervals, x) = None
         /\ intervals' = Insert(intervals, x)
      \/ /\ Find(intervals, x) # None
         /\ intervals' = Erase(intervals, x)

AllExtents == {[start |-> s, end |-> e] : s \in 0..Eof, e \in 0..Eof}
Queries == {x \in AllExtents : x.start =< x.end}

(* Whatever was inserted and erased, a search reports every extent of the  *)
(* tree that overlaps the one asked for, each once and no other, although  *)
(* the bounds by which it skips subtrees can be too high after an erasure  *)
(* (never too low); an extent that overlaps none grows to the next extent  *)
(* and no further; the tree is a red-black tree, and iterations from       *)
(* either end go through all its extents in order.                         *)
SearchFindsOverlaps ==
    LET t == intervals IN
    /\ RB!WellLinked(t) /\ RB!Balanced(t)
    /\ LET up == Iterate(t, "left") down == Iterate(t, "right")
       IN /\ {up[i] : i \in DOMAIN up} = InTree(t) /\ Len(up) = t.num
          /\ \A i, j \in DOMAIN up : i < j => ExtentLess(up[i], up[j])
          /\ down = [i \in DOMAIN up |-> up[Len(up) + 1 - i]]
    /\ \A x \in Queries :
         LET found == Search(t, x)
             high  == ExpandHigh(t, x.end)
         IN /\ {found[i] : i \in DOMAIN found}
                 = {n \in InTree(t) : Overlapped(n, x)}
            /\ Len(found) = Cardinality({found[i] : i \in DOMAIN found})
            /\ found = <<>> =>
                 /\ high >= x.end
                 /\ \A n \in InTree(t) : n.start > x.end => high < n.start
                 /\ high = Eof \/ \E n \in InTree(t) : n.start = high + 1
=============================================================================
