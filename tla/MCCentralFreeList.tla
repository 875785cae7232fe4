-------------------------- MODULE MCCentralFreeList --------------------------
(* Two threads, two classes that share two spans: either class can take both,  *)
(* the first can grow by one entry, which only the second can give.            *)
EXTENDS CentralFreeList, TLC
MaxEntries == "a" :> 2 @@ "b" :> 2
FirstEntries == "a" :> 1 @@ "b" :> 2
Symmetry == Permutations(Threads) \cup Permutations(Spans)
=============================================================================
