------------------------------ MODULE TbfRate ------------------------------
(***************************************************************************)
(* The rate of a token bucket rule that depends on another rule            *)
(* (nrstbf.cpp:774-841, 1025-1066): each time a request of its class is    *)
(* queued, at most once per token time of the other rule, the rate is      *)
(* raised in doubling steps while the other rule is idle and keeps up, and *)
(* lowered otherwise.  All quantities are unsigned and wrap at 2^Width (64 *)
(* in the code).  How the other rule is found to be idle (its last dispatch*)
(* and its backlog, lines 797-798) is left to the environment: both        *)
(* outcomes are possible at any update.  A dependent rule has one class,   *)
(* its job, so the class sees each change of the rule.                     *)
(***************************************************************************)
EXTENDS Naturals

CONSTANTS Lower, Upper,  \* params.nrs.tbf.DepInfo[i]
          Rate,          \* params.nrs.tbf.Rate[i] of the rule
          Sec,           \* NSEC_PER_SEC
          Width          \* bits of an __u64

W == 2 ^ Width

TbfRateAssumption ==
  /\ Lower \in Nat \ {0} /\ Rate \in Nat \ {0} /\ Upper \in Nat
  /\ W \in Nat /\ Lower < Upper /\ 2 * Upper < W
  /\ Sec \in Nat /\ Sec >= Upper

VARIABLES speedup,     \* tr_speedup
          last_round,  \* tr_last_round
          rpc_rate,    \* tr_rpc_rate
          nsecs,       \* tr_nsecs, and tc_nsecs of the class
          aborted      \* an LASSERT or a division by 0 has stopped it

vars == <<speedup, last_round, rpc_rate, nsecs, aborted>>

Smaller(a, b) == IF a < b THEN a ELSE b

(* nrs_tbf_configure_rules: the token time is computed from the configured *)
(* rate before the dependency replaces the rate.                           *)
Init ==
  /\ speedup = 0 /\ last_round = 0
  /\ rpc_rate = Lower
  /\ nsecs = Sec \div Rate
  /\ aborted = FALSE

(* Wrong: the token time is not computed again. *)
SetRateOnly ==
  LET r == Smaller(Upper, (speedup' + Lower) % W)
  IN  rpc_rate' = r /\ nsecs' = nsecs /\ aborted' = (r = 0)

(* The tail of nrs_tbf_update_rule_rate; a rate of 0 is divided by. *)
SetRate ==
  LET r == Smaller(Upper, (speedup' + Lower) % W)
  IN  /\ rpc_rate' = r
      /\ nsecs' = IF r = rpc_rate \/ r = 0 THEN nsecs ELSE Sec \div r
      /\ aborted' = (r = 0)

(* The other rule is idle and keeps up. *)
Increase ==
  /\ ~aborted
  /\ last_round' =
       IF last_round = 0 THEN 1
       ELSE Smaller((2 * last_round) % W, (W + Upper - Lower - speedup) % W)
  /\ speedup' = (speedup + last_round') % W
  /\ SetRate

(* Wrong: the halving rounds up. *)
DecreaseUp ==
  /\ ~aborted /\ last_round <= speedup
  /\ last_round' = 0
  /\ speedup' = IF last_round = 0 THEN (speedup + 1) \div 2
                ELSE speedup - last_round
  /\ SetRate

(* The other rule is active: the last increase is taken back, and after    *)
(* that the rest is halved.                                                *)
Decrease ==
  /\ ~aborted /\ last_round <= speedup
  /\ last_round' = 0
  /\ speedup' = IF last_round = 0 THEN speedup \div 2 ELSE speedup - last_round
  /\ SetRate

(* LASSERT(rule->tr_speedup >= rule->tr_last_round) in Decrease. *)
DecreaseAborts ==
  /\ ~aborted /\ last_round > speedup
  /\ aborted' = TRUE
  /\ UNCHANGED <<speedup, last_round, rpc_rate, nsecs>>

Next == Increase \/ Decrease \/ DecreaseAborts

Spec == Init /\ [][Next]_vars
-----------------------------------------------------------------------------
TypeOK ==
  /\ {speedup, last_round, rpc_rate} \subseteq 0..(W - 1)
  /\ nsecs \in Nat
  /\ aborted \in BOOLEAN

(* The token time (tr_nsecs, "Time to wait for next token") is that of the *)
(* rate in force (tr_rpc_rate, "RPC/s limit"; nrstbf.h:134-137).           *)
TokenTimeMatchesRate == ~aborted => nsecs = Sec \div rpc_rate

(* What nrs_tbf_configure_rules may leave (nrstbf.cpp:1028-1030, 1059),    *)
(* and the updates keep until they raise the rate for the first time: the  *)
(* rate is the lower limit, the token time that of the configured rate.    *)
NotYetRaised ==
  /\ speedup = 0 /\ last_round = 0 /\ rpc_rate = Lower
  /\ nsecs = Sec \div Rate

(* A token time of another rate than the one in force is a remnant of the  *)
(* configuration, and the rate does not pass its upper limit, however the  *)
(* speedup overflows (nrstbf.cpp:823-840).                                 *)
StaleOnlyAtStart ==
  ~aborted => /\ rpc_rate <= Upper
              /\ TokenTimeMatchesRate \/ NotYetRaised

(* Once the token time is that of the rate, it follows each change: what   *)
(* the configuration left does not come back (nrstbf.cpp:837-840).         *)
StaysInStep == TokenTimeMatchesRate => TokenTimeMatchesRate'

(* LASSERT(rule->tr_speedup >= rule->tr_last_round) (nrstbf.cpp:814): the  *)
(* last increase can be taken back, and the rate never wraps to 0, which   *)
(* line 838 divides by.                                                    *)
NeverAborts == ~aborted
=============================================================================
