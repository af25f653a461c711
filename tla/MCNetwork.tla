----------------------------- MODULE MCNetwork -----------------------------
(* Three NICs: two of them send to the third, which sends back to one.     *)
EXTENDS Network, TLC

MCNics == {"a", "b", "c"}
MCMessages == {"ac", "bc", "ca", "bc2"}
MCSrc == "ac" :> "a" @@ "bc" :> "b" @@ "ca" :> "c" @@ "bc2" :> "b"
MCDst == "ac" :> "c" @@ "bc" :> "c" @@ "ca" :> "a" @@ "bc2" :> "c"
MCPackets == "ac" :> 3 @@ "bc" :> 2 @@ "ca" :> 1 @@ "bc2" :> 1
=============================================================================
