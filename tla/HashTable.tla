----------------------------- MODULE HashTable -----------------------------
(***************************************************************************)
(* The hash table cfs_hash (cfshash.cpp): buckets that each have several   *)
(* lists, chosen by the bits of a hash, and a table that doubles and       *)
(* halves with the number of its items.                                    *)
(*                                                                         *)
(* The locks of the table are empty macros in the simulator, and no other  *)
(* thread moves the items: the call that finds the load out of its range   *)
(* moves them itself, before it returns.  So a second table of buckets is  *)
(* never there when an operation begins, and the operations on two buckets *)
(* (dual_bd, multi_bd) see one.  Allocations succeed.                      *)
(***************************************************************************)
EXTENDS Integers, FiniteSets, SequencesExt

CONSTANTS Items, HashKeys, None,
          Hash,    \* key -> its hash
          Tables,  \* [flags, cur, max, bkt]: the arguments of cfs_hash_create
          ThetaBits, MinTheta, MaxTheta, \* the load and its range
          MaxUsers \* bound: references of users to items

Flags == {"ADD_TAIL", "NO_ITEMREF", "COUNTER", "DEPTH", "REHASH", "SHRINK"}

(* The assertions of cfs_hash_create.                                      *)
HashTableAssumption ==
    /\ Hash \in [HashKeys -> Nat]
    /\ MinTheta < MaxTheta
    /\ \A t \in Tables :
         /\ t.flags \subseteq Flags
         /\ t.cur > 0 /\ t.cur >= t.bkt /\ t.max >= t.cur
         /\ "REHASH" \in t.flags => "COUNTER" \in t.flags
         /\ "REHASH" \notin t.flags => t.cur = t.max

VARIABLES table, \* the table; its items have their key and their references
          held,  \* item -> the key under which it should be found, or None
          users  \* item -> the references that users hold

hashVars == <<table, held, users>>

With(h, flag) == flag \in h.flags

Buckets(h, bits) == 0..(2 ^ (bits - h.bkt) - 1)
Lists(h, bits)   == Buckets(h, bits) \X (0..(2 ^ h.bkt - 1))

(* cfs_hash_bd_from_key: the bucket and the offset of the list in it.      *)
PlaceOf(h, bits, k) ==
    LET index == Hash[k] % 2 ^ bits
    IN <<index % 2 ^ (bits - h.bkt), index \div 2 ^ (bits - h.bkt)>>
(* cfs_hash_dual_bd_get, for a table that is not being resized.            *)
BdGet(h, k) == PlaceOf(h, h.bits, k)

(* cfs_hash_buckets_realloc: tables of different size share the buckets    *)
(* that both have.                                                         *)
Realloc(h, bits) ==
    [h EXCEPT
       !.list  = [at \in Lists(h, bits) |->
                    IF at \in DOMAIN h.list THEN h.list[at] ELSE <<>>],
       !.depth = [at \in Lists(h, bits) |->
                    IF at \in DOMAIN h.depth THEN h.depth[at] ELSE 0],
       !.count = [b \in Buckets(h, bits) |->
                    IF b \in DOMAIN h.count THEN h.count[b] ELSE 0]]

(* cfs_hash_create                                                         *)
Create(t) ==
    Realloc([flags |-> t.flags, bkt |-> t.bkt, bits |-> t.cur, min |-> t.cur,
             max |-> t.max, list |-> <<>>, depth |-> <<>>, count |-> <<>>,
             total |-> 0, iterating |-> FALSE, iterators |-> 0,
             key |-> [x \in Items |-> None], refs |-> [x \in Items |-> 0],
             gone |-> FALSE],
            t.cur)

(* The hlist operations of the four kinds of list (hop_hnode_add and _del) *)
HnodeAdd(h, at, x) ==
    [h EXCEPT !.list[at]  = IF With(h, "ADD_TAIL") THEN Append(@, x)
                                                   ELSE <<x>> \o @,
              !.depth[at] = IF With(h, "DEPTH") THEN @ + 1 ELSE @]
HnodeDel(h, at, x) ==
    [h EXCEPT !.list[at]  = SelectSeq(@, LAMBDA y : y # x),
              !.depth[at] = IF With(h, "DEPTH") THEN @ - 1 ELSE @]

(* cfs_hash_bd_add_locked, cfs_hash_bd_del_locked, cfs_hash_bd_move_locked *)
Counted(h, d) == IF With(h, "COUNTER") THEN h.total + d ELSE h.total
ItemRef(h, x, d) ==
    IF With(h, "NO_ITEMREF") THEN h.refs[x] ELSE h.refs[x] + d

AddLocked(h, at, x, k) ==
    [HnodeAdd(h, at, x) EXCEPT
       !.count[at[1]] = @ + 1, !.total = Counted(h, 1),
       !.refs[x] = ItemRef(h, x, 1), !.key[x] = k]
DelLocked(h, at, x) ==
    [HnodeDel(h, at, x) EXCEPT
       !.count[at[1]] = @ - 1, !.total = Counted(h, -1),
       !.refs[x] = ItemRef(h, x, -1), !.key[x] = None]
MoveLocked(h, old, new, x) ==
    IF old = new THEN h
    ELSE LET moved == HnodeAdd(HnodeDel(h, old, x), new, x)
         IN [moved EXCEPT
               !.count = [[@ EXCEPT ![old[1]] = @ - 1]
                             EXCEPT ![new[1]] = @ + 1]]

(* cfs_hash_bd_lookup_intent: the first item with the key in its list.     *)
FirstWith(h, k) ==
    LET list == h.list[BdGet(h, k)]
        hits == SelectSeq(list, LAMBDA x : h.key[x] = k)
    IN IF hits = <<>> THEN None ELSE hits[1]

Hashed(h) == {x \in Items : h.key[x] # None}

(* cfs_hash_multi_bd_findadd_locked: who finds the key gets a reference    *)
(* unless he wants none, who adds it does not.                             *)
FindAddLocked(h, x, k, noref) ==
    LET found == FirstWith(h, k)
    IN IF found = None THEN AddLocked(h, BdGet(h, k), x, k)
       ELSE [h EXCEPT !.refs[found] = IF noref THEN @ ELSE @ + 1]

(* cfs_hash_multi_bd_finddel_locked                                        *)
FindDelLocked(h, k) ==
    LET found == FirstWith(h, k)
    IN IF found = None THEN h ELSE DelLocked(h, BdGet(h, k), found)

-----------------------------------------------------------------------------
(* __cfs_hash_theta; cfs_hash_rehash_bits: the bits that the table should  *)
(* have, or 0 (the code has negative numbers for the reasons).             *)
Theta(h) == (h.total * 2 ^ ThetaBits) \div 2 ^ h.bits

Iterating(h) == h.iterating \/ h.iterators # 0

RehashBits(h) ==
    IF ~With(h, "REHASH") \/ Iterating(h) THEN 0
    ELSE IF h.bits < h.max /\ Theta(h) > MaxTheta THEN h.bits + 1
    ELSE IF With(h, "SHRINK") /\ h.bits > h.min /\ Theta(h) < MinTheta
         THEN h.bits - 1 ELSE 0

(* Wrong: only the first list of a bucket is gone through.                 *)
InOrderFirst(h) ==
    LET places == [b \in 1..Cardinality(DOMAIN h.count) |-> <<b - 1, 0>>]
    IN FoldLeft(LAMBDA s, at :
                  s \o [i \in DOMAIN h.list[at] |-> <<at, h.list[at][i]>>],
                <<>>, places)

(* cfs_hash_rehash_bd for every bucket: the items in the order of the      *)
(* lists, bucket by bucket, each to the list of its key.  An item that     *)
(* comes into a list that is visited later stays there.                    *)
InOrder(h) ==
    LET width  == 2 ^ h.bkt
        places == [i \in 1..Cardinality(DOMAIN h.list) |->
                     <<(i - 1) \div width, (i - 1) % width>>]
    IN FoldLeft(LAMBDA s, at :
                  s \o [i \in DOMAIN h.list[at] |-> <<at, h.list[at][i]>>],
                <<>>, places)

(* cfs_hash_rehash and its worker.                                         *)
Rehash(h) ==
    LET bits  == RehashBits(h)
        wide  == IF bits > h.bits THEN Realloc(h, bits) ELSE h
        Move(t, item) ==
            MoveLocked(t, item[1], PlaceOf(h, bits, h.key[item[2]]), item[2])
        moved == FoldLeft(Move, wide, InOrder(h))
    IN IF bits = 0 \/ (Theta(h) >= MinTheta /\ Theta(h) =< MaxTheta) THEN h
       ELSE [Realloc(moved, bits) EXCEPT !.bits = bits]

-----------------------------------------------------------------------------
HashInit ==
    /\ table \in {Create(t) : t \in Tables}
    /\ held = [x \in Items |-> None] /\ users = [x \in Items |-> 0]

(* cfs_hash_add of an item that is in no list.                             *)
Add(x, k) ==
    /\ table' = Rehash(AddLocked(table, BdGet(table, k), x, k))
    /\ held' = [held EXCEPT ![x] = k]
    /\ UNCHANGED users

(* cfs_hash_add_unique (noref) and cfs_hash_findadd_unique.                *)
FindAdd(x, k, noref) ==
    LET found == FirstWith(table, k)
        t     == FindAddLocked(table, x, k, noref)
    IN /\ table' = IF found = None THEN Rehash(t) ELSE t
       /\ held'  = IF found = None THEN [held EXCEPT ![x] = k] ELSE held
       /\ users' = IF found = None \/ noref THEN users
                   ELSE [users EXCEPT ![found] = @ + 1]

(* cfs_hash_del of an item that is in the table.                           *)
Del(x) ==
    /\ table' = Rehash(DelLocked(table, BdGet(table, table.key[x]), x))
    /\ held' = [held EXCEPT ![x] = None]
    /\ UNCHANGED users

(* cfs_hash_del_key                                                        *)
DelKey(k) ==
    LET found == FirstWith(table, k)
    IN /\ found # None
       /\ table' = Rehash(FindDelLocked(table, k))
       /\ held' = [held EXCEPT ![found] = None]
       /\ UNCHANGED users

(* cfs_hash_lookup, and cfs_hash_put by its caller.                        *)
Lookup(k) ==
    LET found == FirstWith(table, k)
    IN /\ found # None
       /\ table' = [table EXCEPT !.refs[found] = @ + 1]
       /\ users' = [users EXCEPT ![found] = @ + 1]
       /\ UNCHANGED held
PutItem(x) ==
    /\ users[x] > 0
    /\ table' = [table EXCEPT !.refs[x] = @ - 1]
    /\ users' = [users EXCEPT ![x] = @ - 1]
    /\ UNCHANGED held

(* cfs_hash_for_each_enter and _exit around the callbacks of an iteration. *)
(* The exit asks for the bits while the table is still marked as iterating *)
(* (see RehashBits), so it never resizes it.                               *)
Enter ==
    /\ With(table, "REHASH")
    /\ table' = [table EXCEPT !.iterating = TRUE, !.iterators = @ + 1]
    /\ UNCHANGED <<held, users>>
Leave ==
    /\ table.iterators > 0
    /\ LET left == [table EXCEPT !.iterators = @ - 1]
           done == [left EXCEPT !.iterating = @ /\ left.iterators # 0]
       IN table' = IF RehashBits(left) = 0 THEN done ELSE Rehash(done)
    /\ UNCHANGED <<held, users>>

(* cfs_hash_for_each_relax: the items as func is called for them, from the *)
(* bucket start on and then those before it.                               *)
RelaxOrder(h, start) ==
    SelectSeq(InOrder(h), LAMBDA item : item[1][1] >= start)
      \o SelectSeq(InOrder(h), LAMBDA item : item[1][1] < start)

(* cfs_hash_for_each_empty: func takes each item out, and another round    *)
(* follows until one finds nothing.  A round ends with its first item if   *)
(* the table counts references to items, since the bucket has changed.     *)
RECURSIVE RelaxEmpty(_)
RelaxEmpty(h) ==
    LET order == RelaxOrder(h, 0)
        round == IF With(h, "NO_ITEMREF") THEN order ELSE SubSeq(order, 1, 1)
    IN IF order = <<>> THEN h
       ELSE RelaxEmpty(FoldLeft(LAMBDA t, item :
                                  DelLocked(t, BdGet(t, t.key[item[2]]), item[2]),
                                h, round))
ForEachEmpty ==
    /\ table' = RelaxEmpty(table)
    /\ held' = [x \in Items |-> None]
    /\ UNCHANGED users

(* cfs_hash_is_empty, cfs_hash_size_get                                    *)
IsEmpty(h) == InOrder(h) = <<>>
SizeGet(h) ==
    IF With(h, "COUNTER") THEN h.total
    ELSE FoldFunction(LAMBDA n, sum : n + sum, 0, h.count)

(* cfs_hash_for_each_key, cfs_hash_hlist_for_each: the items that func is  *)
(* called for, those with a key and those in the list of an index.         *)
ForEachKey(h, k) ==
    SelectSeq(h.list[BdGet(h, k)], LAMBDA x : h.key[x] = k)
ForEachInList(h, index) ==
    h.list[<<index \div 2 ^ h.bkt, index % 2 ^ h.bkt>>]

(* cfs_hash_cond_del: the items for which the condition holds.             *)
CondDel(S) ==
    /\ S # {}
    /\ table' = FoldLeft(LAMBDA h, item : DelLocked(h, item[1], item[2]), table,
                         SelectSeq(InOrder(table), LAMBDA item : item[2] \in S))
    /\ held' = [x \in Items |-> IF x \in S THEN None ELSE held[x]]
    /\ UNCHANGED users

(* cfs_hash_rehash_key: the item gets another key.                         *)
RehashKey(x, k) ==
    /\ table' = [MoveLocked(table, BdGet(table, table.key[x]),
                            BdGet(table, k), x) EXCEPT !.key[x] = k]
    /\ held' = [held EXCEPT ![x] = k]
    /\ UNCHANGED users

(* cfs_hash_destroy, by the last cfs_hash_putref: every item that is left  *)
(* is taken out.                                                           *)
Emptied(h) ==
    FoldLeft(LAMBDA t, item : DelLocked(t, item[1], item[2]), h, InOrder(h))
Destroy ==
    /\ ~Iterating(table)
    /\ table' = [Emptied(table) EXCEPT !.gone = TRUE]
    /\ held' = [x \in Items |-> None]
    /\ UNCHANGED users

MayRef == \A x \in Items : users[x] = 0 \/ MaxUsers > 1
HashNext ==
    \/ /\ ~table.gone
       /\ \/ \E x \in Items \ Hashed(table), k \in HashKeys :
               \/ Add(x, k)
               \/ MayRef /\ \E noref \in BOOLEAN : FindAdd(x, k, noref)
          \/ \E x \in Hashed(table) : Del(x)
          \/ \E x \in Hashed(table), k \in HashKeys : RehashKey(x, k)
          \/ \E k \in HashKeys : DelKey(k) \/ (MayRef /\ Lookup(k))
          \/ table.iterators < 2 /\ Enter
          \/ Leave
          \/ \E S \in SUBSET Hashed(table) : CondDel(S)
          \/ ForEachEmpty \/ Destroy
    \/ \E x \in Items : PutItem(x)

-----------------------------------------------------------------------------
(* Through insertions, deletions, changes of keys and of the size of the   *)
(* table, inside iterations or not, the table holds exactly the items that *)
(* were put in and not taken out, each once, in the list where its key is  *)
(* looked for; its counters agree with the lists; an item has one          *)
(* reference per user and one for the table; and every iteration, from     *)
(* whatever bucket, calls its function once for each item.                 *)
ItemsInPlace ==
    LET h == table IN
    /\ h.bits \in h.min..h.max /\ DOMAIN h.list = Lists(h, h.bits)
    /\ \A x \in Items : h.key[x] = held[x]
    /\ \A at \in DOMAIN h.list : \A x \in Items :
         Len(SelectSeq(h.list[at], LAMBDA y : y = x))
           = IF held[x] # None /\ at = BdGet(h, held[x]) THEN 1 ELSE 0
    /\ \A b \in DOMAIN h.count :
         h.count[b] = Cardinality({x \in Hashed(h) :
                                     BdGet(h, held[x])[1] = b})
    /\ With(h, "DEPTH") =>
         \A at \in DOMAIN h.list : h.depth[at] = Len(h.list[at])
    /\ With(h, "COUNTER") => h.total = Cardinality(Hashed(h))
    /\ SizeGet(h) = Cardinality(Hashed(h)) /\ (IsEmpty(h) <=> Hashed(h) = {})
    /\ \A start \in DOMAIN h.count :
         LET order == RelaxOrder(h, start)
         IN /\ Len(order) = Cardinality(Hashed(h))
            /\ {order[i][2] : i \in DOMAIN order} = Hashed(h)
    /\ \A k \in HashKeys :
         Range(ForEachKey(h, k)) = {x \in Items : held[x] = k}
    /\ UNION {Range(ForEachInList(h, i)) : i \in 0..(2 ^ h.bits - 1)} = Hashed(h)
    /\ \A x \in Items :
         h.refs[x] = users[x] + (IF With(h, "NO_ITEMREF") \/ held[x] = None
                                 THEN 0 ELSE 1)
=============================================================================
