--------------------------- MODULE MCReleaseManager ----------------------------
(***************************************************************************)
(* ReleaseManager for TLC.  Its run checks liveness: no symmetry.          *)
(***************************************************************************)
EXTENDS ReleaseManager
===============================================================================
