--------------------------- MODULE MCStratumHashes ---------------------------
(* The instance of MCStratumMiner in which the hashes are recorded. *)
EXTENDS MCStratumMiner, StratumHashes
=============================================================================
