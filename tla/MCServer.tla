------------------------------ MODULE MCServer ------------------------------
(***************************************************************************)
(* Small instances of Server: as many clients that run as clients that      *)
(* load, fewer, and more.                                                   *)
(***************************************************************************)
EXTENDS Server, TLC

CONSTANTS l1, l2, r1, r2, r3

AsMany == << {l1, l2}, {r1, r2} >>
Fewer  == << {l1, l2}, {r1} >>
More   == << {l1}, {r1, r2} >>

AnyStart  == {AsMany, Fewer, More}
OnlyFewer == {Fewer}
ThreeRun  == { << {l1}, {r1, r2, r3} >> }

=============================================================================
