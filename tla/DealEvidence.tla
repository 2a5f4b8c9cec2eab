---------------------------- MODULE DealEvidence ----------------------------
(***************************************************************************)
(* What a deal of the API shows of its execution, to an auditor who sees   *)
(* the verdicts on its contracts, whether it is locked, and what a lock    *)
(* leaves behind.  Each entry rests on one that is there before it.        *)
(* DealLifecycle implements it, whatever its handlers overlap and wherever *)
(* one is cut short.                                                       *)
(***************************************************************************)
CONSTANT Contracts

VARIABLES
  verified,  \* the contracts that were compared with their document and agree
  rejected,  \* the contracts that do not agree
  locked,    \* the deal is locked, or has moved on from there
  sealed,    \* the contracts whose instrument is sealed
  record,    \* the contract the governing record is of, 0: there is none
  billed     \* the seal has been charged

vars == <<verified, rejected, locked, sealed, record, billed>>

Init ==
  /\ verified = {} /\ rejected = {}
  /\ locked = FALSE
  /\ sealed = {} /\ record = 0 /\ billed = FALSE

\* A verdict is given once.
Judge(c) ==
  /\ c \notin verified \cup rejected
  /\ \/ verified' = verified \cup {c} /\ UNCHANGED rejected
     \/ rejected' = rejected \cup {c} /\ UNCHANGED verified
  /\ UNCHANGED <<locked, sealed, record, billed>>

Lock ==
  /\ verified # {}
  /\ locked' = TRUE
  /\ UNCHANGED <<verified, rejected, sealed, record, billed>>

\* A hold, or the archive.
Leave ==
  /\ locked' = FALSE
  /\ UNCHANGED <<verified, rejected, sealed, record, billed>>

Seal(c) ==
  /\ c \in verified
  /\ sealed' = sealed \cup {c}
  /\ UNCHANGED <<verified, rejected, locked, record, billed>>

\* A later lock may replace the record.
Keep(c) ==
  /\ c \in verified
  /\ sealed # {}
  /\ record' = c
  /\ UNCHANGED <<verified, rejected, locked, sealed, billed>>

Bill ==
  /\ record # 0
  /\ billed' = TRUE
  /\ UNCHANGED <<verified, rejected, locked, sealed, record>>

Next ==
  \/ Lock \/ Leave \/ Bill
  \/ \E c \in Contracts : Judge(c) \/ Seal(c) \/ Keep(c)

Spec == Init /\ [][Next]_vars
=============================================================================
