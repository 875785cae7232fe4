--------------------------- MODULE MCEnclaveStore ---------------------------
(***************************************************************************)
(* Small instances of EnclaveStore. Two roots cover two buckets each; the   *)
(* hash puts a chain of two in one bucket and single keys in its neighbour  *)
(* under the same root and in a bucket of the other worker.                 *)
(***************************************************************************)
EXTENDS StoreInvariant

CONSTANTS k1, k2, k3, k4

\* k1 and k2 collide; k3 shares their root; k4 is under the other root.
Spread == [k \in Keys |-> CASE k \in {k1, k2} -> 1 [] k = k3 -> 0 [] OTHER -> 3]

\* The one-byte hints of k1 and k2 collide.
Hint == [k \in Keys |-> IF k \in {k1, k2} THEN "h0" ELSE "h1"]

=============================================================================
