-------------------------- MODULE MCGarbageCollector --------------------------
(***************************************************************************)
(* GarbageCollector for TLC.  Names, releases and workers are only         *)
(* compared for equality: permuting them is sound for the safety runs.     *)
(***************************************************************************)
EXTENDS GarbageCollector, TLC

Symmetry ==
    Permutations(Names) \cup Permutations(Releases) \cup Permutations(Workers)
===============================================================================
