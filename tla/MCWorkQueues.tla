---------------------------- MODULE MCWorkQueues ----------------------------
(***************************************************************************)
(* Small instances of WorkQueues with the invariant of its proofs.          *)
(***************************************************************************)
EXTENDS QueueInvariant

CONSTANTS c1, c2, c3

=============================================================================
