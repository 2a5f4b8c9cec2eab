-------------------------- MODULE MCClosingPackage --------------------------
(***************************************************************************)
(* The model of ClosingPackage for TLC.  Requests are not declared         *)
(* symmetric: the run checks liveness.                                     *)
(***************************************************************************)
EXTENDS ClosingPackage
=============================================================================
