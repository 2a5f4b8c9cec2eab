--------------------------- MODULE ContractTitle ---------------------------
(***************************************************************************)
(* The title to a deal's contract, to who buys the loan: the documents     *)
(* that have sealed it, the instrument that was endorsed and assigned on   *)
(* their strength, and the package that was published.  Each entry rests   *)
(* on the one before it, and none is taken back.  ClosingPackage           *)
(* implements it, however its requests overlap and wherever one is cut     *)
(* short.                                                                  *)
(***************************************************************************)
EXTENDS Integers, Sequences

CONSTANT MaxAmendments  \* the amendments are numbered from one

VARIABLES
  seals,       \* the documents, each with its amendment and what it replaces
  instrument,  \* there is an instrument
  transfers,   \* how often it was endorsed
  assigned,    \* how often an endorsement was recorded as an assignment
  forSale,     \* the loan is offered
  manifest     \* the document that the published package is of, 0: none

title == <<instrument, transfers, assigned, forSale>>
vars == <<seals, title, manifest>>

\* A deal without a contract, or one that has been signed and assigned, and
\* perhaps published.
Init ==
  \/ /\ seals = <<>> /\ manifest = 0
     /\ instrument = FALSE /\ transfers = 0 /\ assigned = 0 /\ forSale = FALSE
  \/ /\ seals = <<[amendment |-> 0, parent |-> 0]>> /\ manifest \in {0, 1}
     /\ instrument = TRUE /\ transfers = 1 /\ assigned = 1 /\ forSale = TRUE

\* An amendment replaces a document that there is.
Seal(a, parent) ==
  /\ a # 0 => parent # 0
  /\ seals' = Append(seals, [amendment |-> a, parent |-> parent])
  /\ UNCHANGED <<title, manifest>>

Issue ==
  /\ seals # <<>>
  /\ instrument' = TRUE
  /\ UNCHANGED <<seals, transfers, assigned, forSale, manifest>>

Endorse ==
  /\ instrument
  /\ transfers' = transfers + 1
  /\ UNCHANGED <<seals, instrument, assigned, forSale, manifest>>

\* An endorsement is recorded once.
Assign ==
  /\ assigned < transfers
  /\ assigned' = assigned + 1
  /\ UNCHANGED <<seals, instrument, transfers, forSale, manifest>>

Offer ==
  /\ assigned > 0
  /\ forSale' = TRUE
  /\ UNCHANGED <<seals, instrument, transfers, assigned, manifest>>

Publish(k) ==
  /\ manifest' = k
  /\ UNCHANGED <<seals, title>>

Next ==
  \/ Issue \/ Endorse \/ Assign \/ Offer
  \/ \E a \in 0..MaxAmendments, parent \in 0..Len(seals) : Seal(a, parent)
  \/ \E k \in 1..Len(seals) : Publish(k)

Spec == Init /\ [][Next]_vars
=============================================================================
