--------------------------- MODULE MCPackageJobs ---------------------------
(***************************************************************************)
(* The model of PackageJobs for TLC.                                       *)
(***************************************************************************)
EXTENDS PackageJobs
=============================================================================
