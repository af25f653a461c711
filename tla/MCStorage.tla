----------------------------- MODULE MCStorage -----------------------------
(* Two files.  The first has three writes, whose preallocations cover,      *)
(* touch or trim each other depending on their order, and a read of what    *)
(* two of them have written; the second has a write beyond the small sizes  *)
(* that needs two preallocations.                                           *)
EXTENDS Storage

W(f, off, count) == [file |-> f, cmd |-> "write", off |-> off, count |-> count]

MCIOs == {W(1, 0, 1), W(1, 1, 1), W(1, 2, 2), W(2, 3, 3),
          [file |-> 1, cmd |-> "read", off |-> 0, count |-> 2]}

MCLargeSizes == {<<8, 2>>}

MCConfigs ==
    {[sched |-> "deadline", algo |-> "mballoc", reserve |-> TRUE],
     [sched |-> "noop", algo |-> "mballoc", reserve |-> FALSE],
     [sched |-> "deadline", algo |-> "stream", reserve |-> TRUE]}
=============================================================================
