------------------------------ MODULE MCNrsFrr ------------------------------
(* One object queue with two requests: enough for one of them to starve.    *)
EXTENDS NrsFrr, TLC

StarveObjects == {"a"}
StarvePerObject == "a" :> 2
=============================================================================
