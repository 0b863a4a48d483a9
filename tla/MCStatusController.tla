-------------------------- MODULE MCStatusController ---------------------------
(***************************************************************************)
(* StatusController for TLC.  Its runs check liveness: no symmetry.        *)
(***************************************************************************)
EXTENDS StatusController
===============================================================================
