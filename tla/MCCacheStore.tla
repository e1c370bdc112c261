---------------------------- MODULE MCCacheStore ----------------------------
(* Small instances of CacheStore.  A body is named by its size in bytes.    *)
EXTENDS CacheStore, TLC

MCSize == [c \in Contents |-> c]
Symmetric == Permutations(Keys) \cup Permutations(Threads)

\* Every operation, with every argument.
AllJobs == Task

\* Eviction: a budget is enforced beside puts of fresh entries, touches and
\* clear.  Expiry plays no part in what is evicted.
EvictionJobs == {j \in PutTask : ~j.stale} \cup TouchTask \cup ClearTask \cup EnforceTask
=============================================================================
