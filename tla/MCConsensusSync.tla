--------------------------- MODULE MCConsensusSync --------------------------
(* Small instances of ConsensusSync and ConsensusLiveness.                  *)
EXTENDS ConsensusSync, MCConsensus
=============================================================================
