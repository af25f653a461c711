------------------------------ MODULE RedBlack ------------------------------
(***************************************************************************)
(* Red-black trees, as rbtree.cpp keeps the events in order and            *)
(* intervaltree.cpp the granted extents.  The two files have the same      *)
(* code; the second one also keeps a value in every node that a rotation   *)
(* changes (Rotated).                                                      *)
(*                                                                         *)
(* The code of the two sides is one operator here that takes the side.     *)
(* None stands for NULL; it is black, is its own parent, and is never      *)
(* written to but as the value of a link.  What the links of a node that   *)
(* left the tree hold is not kept: rb_link_node sets them again.           *)
(***************************************************************************)
EXTENDS Naturals, FiniteSets, Sequences

CONSTANTS Nodes, None,
          Left(_, _),      \* key k goes to the left of the key l
          Rotated(_, _, _) \* tree t after n was rotated below m

Sides == {"left", "right"}
Other(s) == IF s = "left" THEN "right" ELSE "left"

Empty ==
    [root   |-> None,
     child  |-> [s \in Sides |-> [n \in Nodes \cup {None} |-> None]],
     parent |-> [n \in Nodes \cup {None} |-> None],
     color  |-> [n \in Nodes \cup {None} |-> "black"],
     key    |-> [n \in Nodes |-> None],
     num    |-> 0]

InTree(t) == {n \in Nodes : t.key[n] # None}

(* rb_set_parent, where the code does it for a child there is.             *)
SetParent(t, n, p) == IF n = None THEN t ELSE [t EXCEPT !.parent[n] = p]

Paint(t, ns, c) ==
    [t EXCEPT !.color = [n \in DOMAIN @ |-> IF n \in ns \ {None} THEN c
                                                                 ELSE @[n]]]

SideOf(t, p, n) == IF t.child["left"][p] = n THEN "left" ELSE "right"

(* The link to m, from p or from the root, leads to n.                     *)
Relink(t, p, m, n) ==
    IF p = None THEN [t EXCEPT !.root = n]
    ELSE [t EXCEPT !.child[SideOf(t, p, m)][p] = n]

(* __rb_rotate_left (s = "left") and __rb_rotate_right.                    *)
Rotate(t, n, s) ==
    LET p     == t.parent[n]
        pivot == t.child[Other(s)][n]
        inner == t.child[s][pivot]
        moved == [SetParent(t, inner, n) EXCEPT
                    !.child[Other(s)][n] = inner,
                    !.child[s][pivot]    = n,
                    !.parent[pivot]      = p]
    IN Rotated([Relink(moved, p, n, pivot) EXCEPT !.parent[n] = pivot],
               n, pivot)

(* rb_insert_color                                                         *)
RECURSIVE InsertColor(_, _)
InsertColor(t, n) ==
    LET p      == t.parent[n]
        g      == t.parent[p]
        s      == SideOf(t, g, p)
        uncle  == t.child[Other(s)][g]
        inside == t.child[Other(s)][p] = n
        turned == IF inside THEN Rotate(t, p, s) ELSE t
        top    == IF inside THEN n ELSE p
    IN CASE t.color[p] = "black" -> Paint(t, {t.root}, "black")
         [] t.color[p] = "red" /\ t.color[uncle] = "red" ->
              InsertColor(Paint(Paint(t, {uncle, p}, "black"), {g}, "red"), g)
         [] OTHER ->
              InsertColor(Rotate(Paint(Paint(turned, {top}, "black"),
                                       {g}, "red"), g, Other(s)),
                          IF inside THEN p ELSE n)

(* The search for the place in rb_insert.                                  *)
RECURSIVE Place(_, _, _)
Place(t, n, key) ==
    LET s == IF Left(key, t.key[n]) THEN "left" ELSE "right"
    IN IF t.child[s][n] = None THEN <<n, s>> ELSE Place(t, t.child[s][n], key)

(* rb_link_node                                                            *)
Link(t, n, key) ==
    LET new == [t EXCEPT !.key[n] = key, !.color[n] = "red", !.num = @ + 1]
        at  == Place(t, t.root, key)
    IN IF t.root = None THEN [new EXCEPT !.root = n]
       ELSE [new EXCEPT !.child[at[2]][at[1]] = n, !.parent[n] = at[1]]

(* rb_insert                                                               *)
Insert(t, n, key) == InsertColor(Link(t, n, key), n)

(* __rb_erase_color                                                        *)
RECURSIVE EraseColor(_, _, _)
EraseColor(t, n, p) ==
    LET s     == SideOf(t, p, n)
        o     == t.child[Other(s)][p]
        t1    == IF t.color[o] = "black" THEN t
                 ELSE Rotate(Paint(Paint(t, {o}, "black"), {p}, "red"), p, s)
        o1    == t1.child[Other(s)][p]
        near  == t1.child[s][o1]
        far   == t1.child[Other(s)][o1]
        t2    == IF t1.color[far] = "red" THEN t1
                 ELSE Rotate(Paint(Paint(t1, {near}, "black"), {o1}, "red"),
                             o1, Other(s))
        o2    == t2.child[Other(s)][p]
        t3    == Rotate(Paint(Paint(t2, {o2}, t2.color[p]),
                              {p, t2.child[Other(s)][o2]}, "black"), p, s)
    IN CASE t.color[n] = "red" \/ n = t.root -> Paint(t, {n}, "black")
         [] t.color[n] = "black" /\ n # t.root
            /\ {t1.color[near], t1.color[far]} = {"black"} ->
              EraseColor(Paint(t1, {o1}, "red"), p, t1.parent[p])
         [] OTHER -> Paint(t3, {t3.root}, "black")

RECURSIVE Deepest(_, _, _)
Deepest(t, n, s) ==
    IF t.child[s][n] = None THEN n ELSE Deepest(t, t.child[s][n], s)

(* rb_first, rb_last                                                       *)
First(t)  == IF t.root = None THEN None ELSE Deepest(t, t.root, "left")
LastOf(t) == IF t.root = None THEN None ELSE Deepest(t, t.root, "right")

(* rb_next, rb_prev: the neighbour of n on a side is the deepest node      *)
(* below it there or, going up, the first node that n is not on that side  *)
(* of.                                                                     *)
RECURSIVE Ascend(_, _, _)
Ascend(t, n, s) ==
    LET p == t.parent[n]
    IN IF p # None /\ t.child[s][p] = n THEN Ascend(t, p, s) ELSE p
Beside(t, n, s) ==
    IF t.child[s][n] # None THEN Deepest(t, t.child[s][n], Other(s))
    ELSE Ascend(t, n, s)
NextOf(t, n) == Beside(t, n, "right")
PrevOf(t, n) == Beside(t, n, "left")

Forget(t, n) ==
    [t EXCEPT !.key[n] = None, !.parent[n] = None, !.color[n] = "black",
              !.child = [s \in Sides |-> [@[s] EXCEPT ![n] = None]]]

(* rb_erase up to the label color: the tree without n, the place where a   *)
(* black node is missing if black is true, and the node that took the      *)
(* place of n.                                                             *)
CutLeaf(t, n) ==
    LET c == IF t.child["left"][n] = None THEN t.child["right"][n]
                                          ELSE t.child["left"][n]
        p == t.parent[n]
    IN [tree |-> Relink(SetParent(t, c, p), p, n, c), child |-> c,
        parent |-> p, black |-> t.color[n] = "black", heir |-> None]
CutInner(t, n) ==
    LET y  == NextOf(t, n)
        c  == t.child["right"][y]
        p  == t.parent[y]
        t1 == SetParent(t, c, p)
        t2 == IF p = n THEN [t1 EXCEPT !.child["right"][n] = c]
                       ELSE [t1 EXCEPT !.child["left"][p] = c]
        t3 == [t2 EXCEPT !.color[y] = t.color[n],
                         !.parent[y] = t.parent[n],
                         !.child = [s \in Sides |->
                                      [@[s] EXCEPT ![y] = t2.child[s][n]]]]
        t4 == Relink(t3, t.parent[n], n, y)
        t5 == SetParent(SetParent(t4, t4.child["left"][n], y),
                        t4.child["right"][n], y)
    IN [tree |-> t5, child |-> c, parent |-> IF p = n THEN y ELSE p,
        black |-> t.color[y] = "black", heir |-> y]
Cut(t, n) ==
    IF None \in {t.child["left"][n], t.child["right"][n]} THEN CutLeaf(t, n)
                                                          ELSE CutInner(t, n)

Recolor(cut) ==
    IF cut.black THEN EraseColor(cut.tree, cut.child, cut.parent)
                 ELSE cut.tree

(* rb_erase                                                                *)
Erase(t, n) == [Forget(Recolor(Cut(t, n)), n) EXCEPT !.num = @ - 1]

-----------------------------------------------------------------------------
(* What a red-black tree is.  The nodes from n on, in order:               *)
RECURSIVE WalkFrom(_, _)
WalkFrom(t, n) == IF n = None THEN <<>> ELSE <<n>> \o WalkFrom(t, NextOf(t, n))
Walk(t) == WalkFrom(t, First(t))

(* The number of black nodes on a way down from n, if it is the same for   *)
(* all and no red node has a red child; otherwise it is not a number.      *)
RECURSIVE BlackHeight(_, _)
BlackHeight(t, n) ==
    LET l == t.child["left"][n]  r == t.child["right"][n]
        h == BlackHeight(t, l)
    IN CASE n = None -> 0
         [] n # None /\ \/ h = None
                        \/ h # BlackHeight(t, r)
                        \/ t.color[n] = "red" /\ "red" \in {t.color[l],
                                                           t.color[r]} -> None
         [] OTHER -> h + (IF t.color[n] = "black" THEN 1 ELSE 0)

WellLinked(t) ==
    /\ t.parent[t.root] = None
    /\ \A n \in InTree(t) : \A s \in Sides :
         t.child[s][n] # None =>
           t.child[s][n] \in InTree(t) /\ t.parent[t.child[s][n]] = n

Balanced(t) ==
    /\ t.color[t.root] = "black"
    /\ BlackHeight(t, t.root) # None
    /\ t.num = Cardinality(InTree(t))
=============================================================================
