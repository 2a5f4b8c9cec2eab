-------------------------- MODULE MCDocumentIngest --------------------------
(***************************************************************************)
(* Values for the constants of DocumentIngest.                             *)
(***************************************************************************)
EXTENDS DocumentIngest, TLC

\* Requests are interchangeable where only safety is checked.
RequestSymmetry == Permutations(Requests)
=============================================================================
