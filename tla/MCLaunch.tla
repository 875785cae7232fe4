------------------------------ MODULE MCLaunch ------------------------------
(* The defaults scaled down (8M buckets, 4M roots, 4 threads, 500 lines), and *)
(* options that divide, that do not, and that are zero.                       *)
EXTENDS Launch

SmallServer == [num_threads |-> 1, bucket_size |-> 4, tree_root_size |-> 2]
SmallClient == [num_threads |-> 2, inst_size |-> 4, max_key_size |-> 16, max_val_size |-> 16,
                max_buf_size |-> 64]

ServerTries == [t |-> {0, 2, 3}, s |-> {0, 6}, r |-> {0, 4, 8}]
ClientTries == [t |-> {0, 1, 3}, n |-> {0, 3, 6}, k |-> {32}, v |-> {100, 512}, b |-> {64, 192}]

=============================================================================
