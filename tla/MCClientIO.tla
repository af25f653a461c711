----------------------------- MODULE MCClientIO -----------------------------
(* Parameter sets: file per process, buffered and opened at a metadata      *)
(* server; the same with single transfers and intervals; shared files with  *)
(* more writers than readers and with more readers than writers, the last   *)
(* also without reads: then a client that does not write is not stopped.    *)
EXTENDS ClientIO

FilePerProcess ==
  [wtnr |-> 2, rdnr |-> 2, osts |-> 2, stripes |-> 2, size |-> 2, xfer |-> 0,
   share |-> FALSE, read |-> TRUE, wait |-> TRUE, interval |-> FALSE,
   mdt |-> TRUE]
Transfers ==
  [FilePerProcess EXCEPT !.xfer = 1, !.wait = FALSE, !.interval = TRUE,
                         !.mdt = FALSE]
WritesOnly == [FilePerProcess EXCEPT !.size = 3, !.xfer = 2, !.read = FALSE]
MoreWriters ==
  [FilePerProcess EXCEPT !.rdnr = 1, !.osts = 1, !.stripes = 1, !.size = 3,
                         !.xfer = 1, !.share = TRUE, !.mdt = FALSE]
MoreReaders == [MoreWriters EXCEPT !.wtnr = 1, !.rdnr = 2]

MCConfigs ==
  {FilePerProcess, Transfers, WritesOnly, MoreWriters, MoreReaders,
   [MoreReaders EXCEPT !.mdt = TRUE], [MoreReaders EXCEPT !.osts = 2],
   [MoreReaders EXCEPT !.read = FALSE]}
=============================================================================
