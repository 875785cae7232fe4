------------------------------ MODULE MacTree ------------------------------
(***************************************************************************)
(* The two-level integrity tree of ShieldStore (Enclave/core.cpp): how the  *)
(* MACs of the buckets under one root are laid out in the array whose CMAC  *)
(* is the root.                                                             *)
(*                                                                         *)
(* A MAC is a value of its own: CMAC is modelled as an injective            *)
(* constructor, so two CMACs are equal exactly when their inputs are.       *)
(***************************************************************************)
EXTENDS Layout, Sequences

ASSUME LayoutAssumption == LayoutOK

(***************************************************************************)
(* The array aggregate_mac: macs is a function from buckets to their MAC    *)
(* sequences. mac_prefix(macs, start)[n] holds the MACs of the first n      *)
(* buckets from start on, in bucket order.                                  *)
(***************************************************************************)
mac_prefix(macs, start) ==
  LET cat[n \in 0 .. ratio_root_per_buckets] ==
        IF n = 0 THEN << >> ELSE cat[n - 1] \o macs[start + n - 1]
  IN  cat

aggregate_mac(macs, hash_val) ==
  mac_prefix(macs, start_index(hash_val))[ratio_root_per_buckets]

\* The MACs of the buckets under the same root that come before hash_val.
prev_mac_count(macs, hash_val) ==
  Len(mac_prefix(macs, start_index(hash_val))[hash_val - start_index(hash_val)])

\* The array with its i-th MAC left out, as the memcpy's around it leave it.
without(macs, i) == SubSeq(macs, 1, i - 1) \o SubSeq(macs, i + 1, Len(macs))

(***************************************************************************)
(* The root before any insertion (memset to 0) and the CMAC of an array of  *)
(* MACs. The empty tuple is no CMAC of anything.                            *)
(***************************************************************************)
ZeroMac == << >>
CMac(macs) == << macs >>

=============================================================================
