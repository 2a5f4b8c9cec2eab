---------------------------- MODULE MCAuditChain ----------------------------
(* Values for the constants of AuditChain. *)
EXTENDS AuditChain, TLC

CallSymmetry == Permutations(Calls)
=============================================================================
