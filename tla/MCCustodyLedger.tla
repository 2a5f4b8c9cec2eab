-------------------------- MODULE MCCustodyLedger --------------------------
(* Values for the constants of CustodyLedger. *)
EXTENDS CustodyLedger, TLC

\* The event types that the routes emit.
EmittedKinds == {"DealCreated", "StipulationUploaded", "LenderViewed"}

\* Those without the ones that differ in name only.
TwoKinds == {"DealCreated", "LenderViewed"}
=============================================================================
