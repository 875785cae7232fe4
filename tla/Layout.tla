------------------------------- MODULE Layout -------------------------------
(***************************************************************************)
(* The partition of the hash buckets (Enclave/Enclave.cpp, core.cpp): which *)
(* worker serves a bucket, and which in-enclave root covers it. The three   *)
(* sizes come from the command line of the server.                          *)
(***************************************************************************)
EXTENDS Integers

CONSTANTS BucketSize,     (* arg.bucket_size (-s): ht->size                  *)
          TreeRootSize,   (* arg.tree_root_size (-r): entries of MACTable    *)
          NumThreads      (* arg.num_threads (-t): worker threads            *)

Buckets == 0 .. (BucketSize - 1)
Roots   == 0 .. (TreeRootSize - 1)
Workers == 0 .. (NumThreads - 1)

\* Buckets covered by one root.
ratio_root_per_buckets == BucketSize \div TreeRootSize

\* Index into MACTable of the root that covers bucket hash_val.
root_index(hash_val) == hash_val \div ratio_root_per_buckets

\* First bucket under the root that covers hash_val.
start_index(hash_val) == root_index(hash_val) * ratio_root_per_buckets

\* Mutant: buckets counted from 1.
thread_id_FromOne(hash_val) == (hash_val + 1) \div (BucketSize \div NumThreads)

\* The worker a request for a key of bucket hash_val is queued to.
thread_id(hash_val) == hash_val \div (BucketSize \div NumThreads)

(***************************************************************************)
(* What the sizes must satisfy for these indices to make sense. main in     *)
(* App.cpp accepts any -s, -r and -t: sizes outside this condition divide   *)
(* by zero, index past queue[] or MACTable[], or let two workers rebuild    *)
(* the same root without a lock.                                            *)
(***************************************************************************)
LayoutOK ==
  /\ BucketSize \in Nat \ {0}
  /\ TreeRootSize \in Nat \ {0}
  /\ NumThreads \in Nat \ {0}
  /\ ratio_root_per_buckets \in Nat \ {0}
  /\ (BucketSize \div NumThreads) \in Nat \ {0}
  /\ \A h \in Buckets :
       /\ thread_id(h) \in Workers
       /\ root_index(h) \in Roots
       /\ start_index(h) + ratio_root_per_buckets <= BucketSize
  /\ \A g, h \in Buckets : root_index(g) = root_index(h) => thread_id(g) = thread_id(h)

\* The sizes divide: every worker serves as many roots, every root as many buckets.
SizesDivide ==
  /\ BucketSize \in Nat \ {0}
  /\ TreeRootSize \in Nat \ {0}
  /\ NumThreads \in Nat \ {0}
  /\ TreeRootSize % NumThreads = 0
  /\ BucketSize % TreeRootSize = 0

=============================================================================
