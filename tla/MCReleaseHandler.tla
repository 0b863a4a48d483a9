--------------------------- MODULE MCReleaseHandler ---------------------------
(***************************************************************************)
(* ReleaseHandler for TLC.  Configs are model values the handler only      *)
(* compares for equality, so those that render are interchangeable: the    *)
(* symmetry is sound for the safety runs, which use it.                    *)
(***************************************************************************)
EXTENDS ReleaseHandler, TLC

Symmetry == Permutations(Config \ BadConfig)

(* Bound of the liveness run: the release is not suspended to begin with.  *)
LiveInit == Init /\ ~ server.suspend
LiveSpec == LiveInit /\ [][Next]_vars /\ Fairness
===============================================================================
