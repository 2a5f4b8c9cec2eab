-------------------------- MODULE MCDealLifecycle --------------------------
(***************************************************************************)
(* Values for the constants of DealLifecycle: how much of the client side  *)
(* each run enables.                                                       *)
(***************************************************************************)
EXTENDS DealLifecycle, TLC

\* The shortest way to LOCKED.
LockPath == {"CONDITIONAL", "APPROVED", "LOCKED"}

LockOps == {"transition", "submit", "verify"}
RaceOps == LockOps \cup {"patch", "rule"}
HoldOps == LockOps \cup {"hold", "release"}

\* Requests are interchangeable where only safety is checked.
RequestSymmetry == Permutations(Requests)
=============================================================================
