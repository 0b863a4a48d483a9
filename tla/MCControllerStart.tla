--------------------------- MODULE MCControllerStart ---------------------------
(***************************************************************************)
(* ControllerStart for TLC: a kind of the status controller that the       *)
(* collector watches too, one that only the status controller uses, and as *)
(* many workers as gc.workers counts.                                      *)
(***************************************************************************)
EXTENDS ControllerStart, FiniteSets

MCWorkerCount == Cardinality(Workers)
MCCRDs == <<"Release", "ReleaseHistory">>
MCTargets == <<"Release", "ReleaseHistory", "Deployment">>
===============================================================================
