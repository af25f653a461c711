---------------------------- MODULE MCContainers ----------------------------
(* Small instances of the containers.                                      *)
EXTENDS Containers, TLC

MCHash == [k \in HashKeys |-> CASE k = "k1" -> 0 [] k = "k2" -> 2 [] OTHER -> 5]

(* The table of the token bucket scheduler's kind, and one that grows and  *)
(* shrinks.                                                                *)
MCTables ==
    {[flags |-> {"NO_ITEMREF", "DEPTH"}, cur |-> 2, max |-> 2, bkt |-> 1],
     [flags |-> {"COUNTER", "REHASH", "SHRINK", "ADD_TAIL"},
      cur |-> 1, max |-> 3, bkt |-> 1]}

(* Three of the four jobs fall into one bucket, two into one list.         *)
MCJobHash == [j \in 0..(NumJobs - 1) |-> <<0, 2, 4, 1>>[j + 1]]

MCExtents == {[start |-> p[1], end |-> p[2]] :
                p \in {<<0, 0>>, <<0, 5>>, <<1, 2>>, <<2, 2>>, <<3, 6>>,
                       <<4, 4>>, <<5, 5>>}}

MCKeys == [n \in HeapNodes |->
             CASE n = 1 -> {1, 4} [] n = 2 -> {2} [] n = 3 -> {3, 5}
               [] n \in {4, 5} -> {3} [] OTHER -> {n}]

(* The events, the items and the classes are the same model values: TLC    *)
(* closes a set of permutations under composition, and only one container  *)
(* is in use at a time.                                                    *)
ASSUME SameValues == Events = Items /\ Items = Classes
Symmetry == Permutations(Events)
=============================================================================
