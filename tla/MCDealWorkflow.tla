--------------------------- MODULE MCDealWorkflow ---------------------------
(***************************************************************************)
(* Values for the constants of DealWorkflow.                               *)
(***************************************************************************)
EXTENDS DealWorkflow, TLC

\* Two submissions and two packages, each with an executed copy; of the
\* documents that change nothing else, one each.
Rows == [INITIAL_DISCLOSURE_SIGNED |-> 1, INSURANCE |-> 1, RISC_UNSIGNED |-> 2,
         MOCKUP_PACKET |-> 2, FINAL_RISC |-> 2, FINAL_COORDINATED_PACKAGE |-> 3]

\* Requests are interchangeable where only safety is checked.
RequestSymmetry == Permutations(Requests)
=============================================================================
