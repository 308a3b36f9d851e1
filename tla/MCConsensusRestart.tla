------------------------- MODULE MCConsensusRestart -------------------------
(* Small instances of ConsensusRestart.                                     *)
EXTENDS ConsensusRestart, MCConsensus
=============================================================================
