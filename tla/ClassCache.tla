----------------------------- MODULE ClassCache -----------------------------
(***************************************************************************)
(* The classes of the token bucket scheduler (nrstbf.cpp): a class per job *)
(* is made when a request of the job comes and no class is cached, lives   *)
(* in a hash table, counts a reference per unfinished request, and waits   *)
(* in the LRU list of its bucket when it has none, until the bucket grows  *)
(* above its share of the cache.  When a class is served is NrsTbf.tla.    *)
(***************************************************************************)
EXTENDS Integers, FiniteSets, SequencesExt

CONSTANTS Classes,   \* memory for classes (struct nrs_tbf_client)
          NumJobs,   \* the job ids are JOBID.0 .. JOBID.(NumJobs - 1)
          None,
          Hash,      \* job -> cfs_hash_djb2_hash of its id
          CacheSize, \* tbf_jobid_cache_size
          BktBits,   \* NRS_TBF_JOBID_BKT_BITS
          NumRules,  \* params.nrs.tbf.NumJobidRule
          PerClass   \* bound: unfinished requests of a class

Jobs  == 0..(NumJobs - 1)
Rules == 0..(NumRules - 1)

(* The default rule, Rule0, must exist.                                    *)
ClassCacheAssumption ==
    /\ NumRules > 0 /\ Hash \in [Jobs -> Nat]
    /\ PerClass * Cardinality(Jobs) > 0
    /\ Cardinality(Classes) > Cardinality(Jobs)

VARIABLES classHash, \* head.th_cli_hash; its references are tc_ref
          lru,       \* bucket -> ntb_lru
          rule,      \* class -> tc_rule, or None (tc_linkage not linked)
          ruleRefs,  \* rule -> tr_ref
          ruleList,  \* head.th_list
          waiting,   \* class -> the number of messages in tc_queue
          serving,   \* class -> messages dequeued and not finished
          inHeap     \* the classes with tc_in_heap

classVars == <<classHash, lru, rule, ruleRefs, ruleList, waiting, serving,
               inHeap>>

H == INSTANCE HashTable WITH
       Items <- Classes, HashKeys <- Jobs, Tables <- {}, ThetaBits <- 0,
       MinTheta <- 0, MaxTheta <- 0, MaxUsers <- 0, table <- classHash,
       held <- classHash.key, users <- classHash.refs

(* nrs_tbf_jobid_hash_order and nrs_tbf_jobid_startup                      *)
HashBits ==
    LET order == CHOOSE b \in 1..CacheSize :
                   2 ^ b >= CacheSize /\ \A c \in 1..(b - 1) : 2 ^ c < CacheSize
    IN IF order < BktBits THEN BktBits ELSE order

Startup == H!Create([flags |-> {"NO_ITEMREF", "DEPTH"}, cur |-> HashBits,
                     max |-> HashBits, bkt |-> BktBits])

(* nrs_tbf_configure_rules puts a newer rule before the older ones; each   *)
(* has the reference of the list.  What a rule depends on is in TbfRate.   *)
ConfigureRules ==
    /\ ruleList = [i \in 1..NumRules |-> NumRules - i]
    /\ ruleRefs = [r \in Rules |-> 1]

(* nrs_tbf_start, with the heap of the backlogged classes empty.           *)
ClassInit ==
    /\ ConfigureRules
    /\ classHash = Startup
    /\ lru = [b \in DOMAIN classHash.count |-> <<>>]
    /\ rule = [c \in Classes |-> None]
    /\ waiting = [c \in Classes |-> 0] /\ serving = [c \in Classes |-> 0]
    /\ inHeap = {}

BucketOf(job) == H!BdGet(classHash, job)[1]
Cached        == H!Hashed(classHash)

(* nrs_tbf_jobid_rule_init, _rule_match: Rule<i> is for JOBID.<i - 1> and  *)
(* the default rule has no list to match.  nrs_tbf_rule_match              *)
Matches(r, job) == r # 0 /\ job = r - 1
RuleMatch(job) ==
    LET hits == SelectSeq(ruleList, LAMBDA r : Matches(r, job))
    IN IF hits = <<>> THEN 0 ELSE hits[1]

(* Wrong: a class of the LRU that is found stays there.                    *)
LookedUpInLru(c) == UNCHANGED lru

(* nrs_tbf_jobid_hash_lookup takes the class that it finds from the LRU.   *)
LookedUp(c) ==
    lru' = [b \in DOMAIN lru |-> SelectSeq(lru[b], LAMBDA d : d # c)]

(* nrs_tbf_cli_find; a reference for the request.                          *)
FindClass(c, job) ==
    /\ c = H!FirstWith(classHash, job)
    /\ classHash' = [classHash EXCEPT !.refs[c] = @ + 1]
    /\ LookedUp(c)
    /\ UNCHANGED <<rule, ruleRefs>>

(* nrs_tbf_cli_init and nrs_tbf_cli_findadd of a new class.                *)
NewClass(c, job) ==
    /\ H!FirstWith(classHash, job) = None
    /\ c \notin Cached
    /\ classHash' = [H!AddLocked(classHash, H!BdGet(classHash, job), c, job)
                       EXCEPT !.refs[c] = 1]
    /\ rule' = [rule EXCEPT ![c] = RuleMatch(job)]
    /\ ruleRefs' = [ruleRefs EXCEPT ![RuleMatch(job)] = @ + 1]
    /\ UNCHANGED lru

(* NrsTbf::Enqueue of a request of a job.                                  *)
EnqueueRequest(job) ==
    \E c \in Classes :
      /\ FindClass(c, job) \/ NewClass(c, job)
      /\ waiting[c] + serving[c] < PerClass
      /\ waiting' = [waiting EXCEPT ![c] = @ + 1]
      /\ inHeap' = inHeap \cup {c}
      /\ UNCHANGED <<ruleList, serving>>

(* NrsTbf::Dequeue from the class at the root of the heap.                 *)
DequeueRequest(c) ==
    /\ c \in inHeap
    /\ waiting' = [waiting EXCEPT ![c] = @ - 1]
    /\ inHeap' = IF waiting[c] = 1 THEN inHeap \ {c} ELSE inHeap
    /\ serving' = [serving EXCEPT ![c] = @ + 1]
    /\ UNCHANGED <<classHash, lru, rule, ruleRefs, ruleList>>

(* How many classes of the LRU a bucket gives up, the least recently used  *)
(* first: those above its share of the cache, if that many are unused.     *)
Purged(bucket, unused) ==
    LET hw   == CacheSize \div 2 ^ (HashBits - BktBits)
        over == classHash.count[bucket] - hw
    IN IF over =< 0 THEN 0 ELSE IF over < Len(unused) THEN over ELSE Len(unused)

(* Dropping S from the hash, nrs_tbf_cli_fini and nrs_tbf_cli_rule_put.    *)
Dropped(h, S) ==
    FoldLeft(LAMBDA t, item : H!DelLocked(t, item[1], item[2]), h,
             SelectSeq(H!InOrder(h), LAMBDA item : item[2] \in S))
Users(S, r)     == {c \in S : rule[c] = r}
RulePut(r, n)   == ruleRefs[r] - n
WithoutRules(S) == [c \in Classes |-> IF c \in S THEN None ELSE rule[c]]
DropRules(S) ==
    /\ rule' = WithoutRules(S)
    /\ ruleRefs' = [r \in Rules |-> RulePut(r, Cardinality(Users(S, r)))]

(* nrs_tbf_jobid_cli_put, which may drop the class that is put itself.     *)
CliPut(c) ==
    LET bucket == BucketOf(classHash.key[c])
        less   == [classHash EXCEPT !.refs[c] = @ - 1]
        unused == Append(lru[bucket], c)
        n      == Purged(bucket, unused)
        gone   == {unused[i] : i \in 1..n}
    IN IF less.refs[c] > 0
       THEN classHash' = less /\ UNCHANGED <<lru, rule, ruleRefs>>
       ELSE /\ classHash' = Dropped(less, gone)
            /\ lru' = [lru EXCEPT ![bucket] =
                                    SubSeq(unused, n + 1, Len(unused))]
            /\ DropRules(gone)

(* NrsTbf::Finish                                                          *)
FinishRequest(c) ==
    /\ serving[c] > 0
    /\ serving' = [serving EXCEPT ![c] = @ - 1]
    /\ CliPut(c)
    /\ UNCHANGED <<ruleList, waiting, inHeap>>

(* nrs_tbf_stop, once no request is left: the hash and the rules go.       *)
StopTbf ==
    /\ ruleList # <<>> /\ \A c \in Classes : waiting[c] + serving[c] = 0
    /\ classHash' = Dropped(classHash, Cached)
    /\ lru' = [b \in DOMAIN lru |-> <<>>]
    /\ rule' = WithoutRules(Cached)
    /\ ruleRefs' = [r \in Rules |-> RulePut(r, Cardinality(Users(Cached, r)) + 1)]
    /\ ruleList' = <<>>
    /\ UNCHANGED <<waiting, serving, inHeap>>

ClassNext ==
    \/ ruleList # <<>> /\ \E job \in Jobs : EnqueueRequest(job)
    \/ \E c \in Classes : DequeueRequest(c) \/ FinishRequest(c)
    \/ StopTbf

-----------------------------------------------------------------------------
(* A class with unfinished requests is the one that the hash finds for its *)
(* job and is never given up, though other jobs come, overflow its bucket  *)
(* and go; a class without is in the LRU of its bucket exactly once and    *)
(* never beyond the bucket's share; a rule counts itself and its classes   *)
(* and is freed only by the stop.                                          *)
ClassesHeld ==
    /\ \A c \in Classes :
         /\ classHash.refs[c] = waiting[c] + serving[c]
         /\ c \in inHeap <=> waiting[c] > 0
         /\ classHash.refs[c] > 0 => c \in Cached
         /\ c \in Cached => /\ H!FirstWith(classHash, classHash.key[c]) = c
                            /\ rule[c] = RuleMatch(classHash.key[c])
         /\ \A b \in DOMAIN lru :
              Len(SelectSeq(lru[b], LAMBDA d : d = c)) =
                IF /\ c \in Cached /\ classHash.refs[c] = 0
                   /\ b = BucketOf(classHash.key[c]) THEN 1 ELSE 0
    /\ \A b \in DOMAIN lru :
         Len(lru[b]) =< CacheSize \div 2 ^ (HashBits - BktBits)
    /\ \A r \in Rules : ruleRefs[r] =
         Cardinality({c \in Cached : rule[c] = r})
           + (IF ruleList = <<>> THEN 0 ELSE 1)
=============================================================================
