----------------------------- MODULE Transport -----------------------------
(***************************************************************************)
(* What the simulated network promises the nodes: each message handed to a *)
(* NIC reaches its receiver exactly once, in no particular order, and with *)
(* fairness every message does.                                            *)
(***************************************************************************)
CONSTANT Messages

VARIABLES transit, delivered

vars == <<transit, delivered>>

Init == transit = {} /\ delivered = {}

Send(m) ==
  /\ m \notin transit \cup delivered
  /\ transit' = transit \cup {m}
  /\ UNCHANGED delivered

Deliver(m) ==
  /\ m \in transit
  /\ transit' = transit \ {m}
  /\ delivered' = delivered \cup {m}

Next == \E m \in Messages : Send(m) \/ Deliver(m)

Spec == Init /\ [][Next]_vars

FairSpec == Spec /\ \A m \in Messages : WF_vars(Deliver(m))
=============================================================================
