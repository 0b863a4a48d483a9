-------------------------- MODULE MCCollectedHandler --------------------------
(***************************************************************************)
(* CollectedHandler for TLC; the symmetry is that of MCReleaseHandler.     *)
(***************************************************************************)
EXTENDS CollectedHandler, TLC

Symmetry == Permutations(Config \ BadConfig)
===============================================================================
