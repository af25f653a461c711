---------------------------- MODULE TaskService ----------------------------
(***************************************************************************)
(* What a thread pool promises its users, whatever it does inside: each    *)
(* task that is submitted is served exactly once, never more than Limit of *)
(* them at the same time, and with fairness none waits forever.            *)
(***************************************************************************)
EXTENDS Naturals, FiniteSets

CONSTANTS Tasks,  \* the tasks that may be submitted
          Limit   \* how many may be in service together

VARIABLES waiting, serving, served

vars == <<waiting, serving, served>>

Init == waiting = {} /\ serving = {} /\ served = {}

Submit(t) ==
  /\ t \notin waiting \cup serving \cup served
  /\ waiting' = waiting \cup {t}
  /\ UNCHANGED <<serving, served>>

(* Some waiting tasks enter service together. *)
Begin ==
  \E S \in SUBSET waiting :
    /\ S # {}
    /\ Cardinality(serving \cup S) <= Limit
    /\ waiting' = waiting \ S
    /\ serving' = serving \cup S
    /\ UNCHANGED served

Finish(t) ==
  /\ t \in serving
  /\ serving' = serving \ {t}
  /\ served' = served \cup {t}
  /\ UNCHANGED waiting

Next == Begin \/ \E t \in Tasks : Submit(t) \/ Finish(t)

Spec == Init /\ [][Next]_vars

(* A service that may begin something does, and what is begun finishes. *)
FairSpec ==
  /\ Spec
  /\ WF_vars(Begin)
  /\ \A t \in Tasks : WF_vars(Finish(t))
=============================================================================
