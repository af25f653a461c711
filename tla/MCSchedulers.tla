---------------------------- MODULE MCSchedulers ----------------------------
(* Small instances of the request schedulers.                              *)
EXTENDS Schedulers, TLC

MCNSecs == 1 :> 2 @@ 2 :> 3
MCPerObject == "a" :> 3 @@ "b" :> 2
MCQuota == 0 :> 2 @@ 1 :> 1
MCCount == <<2, 1, 3>>
=============================================================================
