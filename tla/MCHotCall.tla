----------------------------- MODULE MCHotCall ------------------------------
(***************************************************************************)
(* HotCall with two requesters: the main thread of the server and another.  *)
(***************************************************************************)
EXTENDS HotCall

CONSTANTS main, other, d1, d2

=============================================================================
