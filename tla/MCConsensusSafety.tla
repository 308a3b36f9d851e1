-------------------------- MODULE MCConsensusSafety --------------------------
(* The instances of MCConsensusSync, with the invariant of ConsensusSafety. *)
EXTENDS ConsensusSafety, MCConsensusSync
=============================================================================
