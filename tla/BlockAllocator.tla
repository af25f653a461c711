--------------------------- MODULE BlockAllocator ---------------------------
(***************************************************************************)
(* The mapping of the blocks of a file to blocks of a disk                 *)
(* (filesystem.cpp): operators on the state of one file, which Storage     *)
(* composes with the disk.                                                 *)
(*                                                                         *)
(* A file has a tree of extents, ranges of its blocks that have adjacent   *)
(* blocks on the disk, and a list of preallocated spaces (PAs), ranges     *)
(* that got their disk blocks before they are written.  The disk hands out *)
(* blocks in sequence (Disk::AllocBlock).                                  *)
(*                                                                         *)
(* Offsets count blocks of the least preallocation (64 KB in the code).    *)
(***************************************************************************)
EXTENDS Integers, FiniteSets, FiniteSetsExt

CONSTANTS SmallSizes, \* preallocations that begin at the start of the file
          LargeSizes, \* pairs <<n, m>>: up to an end of n, m are preallocated
          LargestSize \* what is preallocated beyond

ASSUME AllocatorAssumption ==
    /\ IsFiniteSet(SmallSizes) /\ SmallSizes \subseteq Nat \ {0}
    /\ LargeSizes \subseteq (Nat \ {0}) \X (Nat \ {0})
    /\ LargestSize \in Nat \ {0}

Algorithms == {"stream", "mballoc"}

(* A file: its extents and its PAs.                                        *)
EmptyFile == [extents |-> {}, pas |-> {}]
NoExtent  == [foff |-> -1, doff |-> -1, count |-> 0]

Within(block, first, count) == first =< block /\ block < first + count

(* FileSystem::ExtentCompare, through the walk in Map: the extent that     *)
(* holds a block, or the last node of the walk, which is the extent before *)
(* or the extent after the block (which one depends on the tree).          *)
Found(f, off) == {x \in f.extents : Within(off, x.foff, x.count)}
Near(f, off)  ==
    LET earlier == {x \in f.extents : x.foff + x.count =< off}
        later   == {x \in f.extents : off < x.foff}
    IN {x \in earlier : \A y \in earlier : y.foff =< x.foff}
         \cup {x \in later : \A y \in later : x.foff =< y.foff}
         \cup (IF f.extents = {} THEN {NoExtent} ELSE {})

(* FileSystem::Map for a block that is mapped: where it is on the disk,    *)
(* and how much of the request is in the same extent.                      *)
MapFound(x, off, count) ==
    [off   |-> x.doff + (off - x.foff),
     count |-> Min({count, x.foff + x.count - off})]

(* FileSystem::MbUsePreallocation, MbUseInodePA and MbReleaseContext.      *)
Usable(f, off) ==
    {pa \in f.pas : Within(off, pa.lstart, pa.len) /\ pa.free # 0}
UsePA(reserve, pas, pa, off, count, curoff) ==
    LET first == pa.pstart + (off - pa.lstart)
        size  == Min({count, pa.pstart + pa.len - first})
        used  == [pa EXCEPT !.free = @ - size]
    IN [off    |-> first, count |-> size, aborts |-> pa.free < size,
        pas    |-> (pas \ {pa})
                     \cup (IF reserve /\ used.free = 0 THEN {} ELSE {used}),
        curoff |-> curoff]

(* FileSystem::MbAllocBlock: the range to preallocate for a request.  The  *)
(* sizes are tested in bytes and the shifts of the large sizes are those   *)
(* of blocks, so that a large range begins at the request itself.          *)
Goal(off, count) ==
    LET end    == off + count
        small  == {s \in SmallSizes : end =< s}
        large  == {c \in LargeSizes : end =< c[1]}
        length == IF large = {} THEN LargestSize
                  ELSE (CHOOSE c \in large : \A d \in large : c[1] =< d[1])[2]
    IN IF small # {} THEN [lo |-> 0, hi |-> Min(small)]
       ELSE [lo |-> off, hi |-> off + length]

(* Wrong: the range is not trimmed to what the other PAs leave.            *)
NewPAUntrimmed(f, off, count, curoff) ==
    LET g == Goal(off, count)
    IN [lstart |-> g.lo, pstart |-> curoff, len |-> g.hi - g.lo,
        free |-> g.hi - g.lo]

(* A PA for the part of that range that no other PA has.                   *)
NewPA(f, off, count, curoff) ==
    LET g       == Goal(off, count)
        overlap == {pa \in f.pas :
                      pa.lstart < g.hi /\ g.lo < pa.lstart + pa.len}
        lower   == {pa \in overlap : pa.lstart + pa.len =< off}
        upper   == {pa \in overlap : off < pa.lstart}
        lo      == Max({g.lo} \cup {pa.lstart + pa.len : pa \in lower})
        size    == Min({g.hi} \cup {pa.lstart : pa \in upper}) - lo
    IN [lstart |-> lo, pstart |-> curoff, len |-> size, free |-> size]

(* The blocks of a new PA (FileSystem::MbNewPreallocation), or the blocks  *)
(* without a PA when PAs are not reserved and there are no more of them    *)
(* than were asked for.  All of them are taken from the disk.              *)
NewBlocks(reserve, f, pa, off, count) ==
    LET last  == pa.pstart + pa.len
        exact == ~reserve /\ pa.lstart = off /\ pa.len =< count
        got   == IF exact
                 THEN [off |-> pa.pstart, count |-> pa.len, aborts |-> FALSE,
                       pas |-> f.pas, curoff |-> last]
                 ELSE UsePA(reserve, f.pas \cup {pa}, pa, off, count, last)
    IN [got EXCEPT
          !.aborts = \/ @
                     \/ \E p \in f.pas : Within(off, p.lstart, p.len)
                     \/ off < pa.lstart /\ pa.len =< count]

(* What the allocation for a request may return.                           *)
Allocations(algo, reserve, f, off, count, curoff) ==
    IF algo = "stream"
    THEN {[off |-> curoff, count |-> count, pas |-> f.pas,
           aborts |-> FALSE, curoff |-> curoff + count]}
    ELSE IF Usable(f, off) = {}
    THEN {NewBlocks(reserve, f, pa, off, count) :
            pa \in {NewPA(f, off, count, curoff)}}
    ELSE {UsePA(reserve, f.pas, pa, off, count, curoff) :
            pa \in Usable(f, off)}

(* FileSystem::Map for a block that is not mapped: the request is cut at   *)
(* the extent after it, if that is what the walk ended at, and the new     *)
(* blocks become part of the extent before it, if the walk ended there and *)
(* the disk's blocks are adjacent too.                                     *)
Cut(near, off, count) ==
    IF near.foff > off THEN Min({count, near.foff - off})
    ELSE count
WithBlocks(f, near, foff, got) ==
    IF /\ foff = near.foff + near.count
       /\ got.off = near.doff + near.count
    THEN (f.extents \ {near})
           \cup {[near EXCEPT !.count = @ + got.count]}
    ELSE f.extents \cup {[foff |-> foff, doff |-> got.off,
                          count |-> got.count]}

(* FileSystem::Map: the disk blocks for the first blocks of a request, how *)
(* many they are, and what becomes of the file and the disk.  A read of a  *)
(* block that is not mapped has no result: the program exits.              *)
MapResults(algo, reserve, f, cmd, off, count, curoff) ==
    IF Found(f, off) # {}
    THEN {LET m == MapFound(x, off, count)
          IN [off |-> m.off, count |-> m.count, file |-> f,
              curoff |-> curoff, aborts |-> FALSE] :
            x \in Found(f, off)}
    ELSE IF cmd = "read" THEN {}
    ELSE UNION {
      {[off    |-> got.off, count |-> got.count,
        file   |-> [extents |-> WithBlocks(f, near, off, got),
                    pas |-> got.pas],
        curoff |-> got.curoff,
        aborts |-> got.aborts] :
         got \in Allocations(algo, reserve, f, off, Cut(near, off, count),
                             curoff)} :
      near \in Near(f, off)}
=============================================================================
