----------------------------- MODULE MCPageHeap -----------------------------
(***************************************************************************)
(* A small heap for TLC, in every combination of the two modes.             *)
(***************************************************************************)
EXTENDS PageHeap
=============================================================================
