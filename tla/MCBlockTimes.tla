---------------------------- MODULE MCBlockTimes ----------------------------
(* Small instances of BlockTimes: powers 2, 1 and 1, the last one faulty,   *)
(* so that a commit may have an even or an odd power.                       *)
EXTENDS BlockTimes

CONSTANTS v1, v2, v3

ThreeValidators == {v1, v2, v3}
Powers == [v \in ThreeValidators |-> IF v = v1 THEN 2 ELSE 1]
=============================================================================
