--------------------------- MODULE ClosingPackage ---------------------------
(***************************************************************************)
(* The web application's other way to a closed deal: the lender posts the  *)
(* final contract, the dealer uploads the signed one, which is assigned to *)
(* the lender and published as a uniform closing package; amendments that  *)
(* the lender approves seal the contract anew and publish it again.        *)
(*                                                                         *)
(* A handler is a chain of database calls and a language model call, with  *)
(* an await between two of them.  Where a transaction checks a status and  *)
(* then writes by id, its read and its commit are steps of their own.      *)
(***************************************************************************)
EXTENDS Integers, Sequences, FiniteSets

CONSTANTS
  Requests,       \* slots for requests that are served at the same time
  MaxAmendments   \* bound: amendments that are requested

ASSUME RequestsAssumption == IsFiniteSet(Requests)
ASSUME MaxAmendmentsAssumption == MaxAmendments \in Nat

VARIABLES
  status,      \* Deal.status
  contract,    \* AuthoritativeContract: version and hash, 0 when there is none
  seals,       \* the RISC_SIGNED and amendment documents, in commit order
  vehicle,     \* where Vehicle.vin comes from: an amendment, 0 for the first
               \* signature, or AsRead
  amendment,   \* Amendment.status of each amendment
  manifest,    \* the hash that the last UCSP_CLOSING_MANIFEST names
  instrument,  \* there is a NegotiableInstrument
  transfers,   \* InstrumentTransferEvent rows
  assigned,    \* DEALER_ASSIGNMENT_TO_LENDER events
  forSale,     \* Deal.secondaryMarketStatus = AVAILABLE_FOR_SALE
  req,         \* the requests being served
  agreed,      \* history: the amendment that was approved last
  overtaken,   \* history: something was decided on what had been read before
  cut          \* history: a handler has been cut short

sealed == <<contract, seals>>
title == <<instrument, transfers, assigned, forSale>>
history == <<agreed, overtaken, cut>>
vars == <<status, sealed, vehicle, amendment, manifest, title, req, history>>

Amendments == 1..MaxAmendments

\* A VIN that the language model has returned in the place of the deal's,
\* whichever it is: one that the deal has held before as well.
AsRead == MaxAmendments + 1
Vehicles == 0..AsRead

DealStatus == {"RISC_UNSIGNED_REVIEW", "RISC_LENDER_FINAL", "FIRST_GREEN_PASSED",
               "AUTHORITATIVE_LOCK", "GENERATING_CLOSING_PACKAGE",
               "CLOSING_PACKAGE_READY"}
AmendmentStatus == {"none", "PENDING_LENDER_APPROVAL", "APPROVED", "REJECTED"}

\* A document that seals the contract: the amendment it is for, 0 for a signed
\* contract, and the hash it replaces.  Hash n is that of the n-th such document.
Seal == [amendment: 0..MaxAmendments, parent: Nat]

PCs == {"idle", "send", "sign", "assign", "instrument", "endorse", "record",
        "classify", "reject", "approve", "check",
        "mark", "extract", "reconcile", "publish", "undo"}

\* A request, with what it has read: its amendment, the hash of the contract and
\* the vehicle of the extraction.
Request == [pc: PCs, amendment: 0..MaxAmendments, hash: Nat,
            vehicle: Vehicles]
Idle == [pc |-> "idle", amendment |-> 0, hash |-> 0, vehicle |-> 0]

\* A deal whose contract is still to be posted, or one of the seeds: signed,
\* with or without its closing package.
Init ==
  /\ status \in {"RISC_UNSIGNED_REVIEW", "AUTHORITATIVE_LOCK",
                 "CLOSING_PACKAGE_READY"}
  /\ IF status = "RISC_UNSIGNED_REVIEW"
       THEN /\ contract = [version |-> 0, hash |-> 0] /\ seals = <<>>
            /\ instrument = FALSE /\ transfers = 0 /\ assigned = 0
            /\ forSale = FALSE
       ELSE /\ contract = [version |-> 1, hash |-> 1]
            /\ seals = <<[amendment |-> 0, parent |-> 0]>>
            /\ instrument = TRUE /\ transfers = 1 /\ assigned = 1
            /\ forSale = TRUE
  /\ manifest = IF status = "CLOSING_PACKAGE_READY" THEN 1 ELSE 0
  /\ vehicle = 0
  /\ amendment = [a \in Amendments |-> "none"]
  /\ req = [r \in Requests |-> Idle]
  /\ agreed = 0
  /\ overtaken = FALSE
  /\ cut = FALSE

-----------------------------------------------------------------------------
At(r, pc) == req[r].pc = pc
Start(r, start) == At(r, "idle") /\ req' = [req EXCEPT ![r] = start]
Goto(r, pc) == req' = [req EXCEPT ![r].pc = pc]
Finish(r) == req' = [req EXCEPT ![r] = Idle]

\* What another request has read, at one of these places, is no longer so.
Overtake(r, pcs) ==
  overtaken' = (overtaken \/ \E q \in Requests \ {r} : req[q].pc \in pcs)

ReadsContract == {"approve", "mark", "extract", "reconcile", "publish"}
ReadsAmendment == {"approve", "reject"}

-----------------------------------------------------------------------------
(* lenderApproveAndSendFinalRISC and uploadSignedRISCAndLock.              *)

StartSend(r) ==
  /\ status = "RISC_UNSIGNED_REVIEW"
  /\ Start(r, [Idle EXCEPT !.pc = "send"])
  /\ UNCHANGED <<status, sealed, vehicle, amendment, manifest, title, history>>

Send(r) ==
  /\ At(r, "send")
  /\ status' = "RISC_LENDER_FINAL"
  /\ Finish(r)
  /\ UNCHANGED <<sealed, vehicle, amendment, manifest, title, history>>

\* An open alert or a collateral check that fails refuse the request: it is one
\* that does not start.
StartSign(r) ==
  /\ status = "RISC_LENDER_FINAL"
  /\ Start(r, [Idle EXCEPT !.pc = "sign"])
  /\ UNCHANGED <<status, sealed, vehicle, amendment, manifest, title, history>>

\* Seeded fault: an amendment does not count the version up.
SealContractUncounted(a, parent) ==
  /\ contract' = [version |-> IF a = 0 THEN contract.version + 1 ELSE contract.version,
                   hash |-> Len(seals) + 1]
  /\ seals' = Append(seals, [amendment |-> a, parent |-> parent])

\* The contract is created or counted up, with the hash of the new document.
SealContract(a, parent) ==
  /\ contract' = [version |-> contract.version + 1, hash |-> Len(seals) + 1]
  /\ seals' = Append(seals, [amendment |-> a, parent |-> parent])

Sign(r) ==
  /\ At(r, "sign")
  /\ SealContract(0, 0)
  /\ status' = "FIRST_GREEN_PASSED"
  /\ Overtake(r, ReadsContract)
  /\ Goto(r, "assign")
  /\ UNCHANGED <<vehicle, amendment, manifest, title, agreed, cut>>

\* Seeded fault: an instrument is taken for an assignment.
ReadInstrument(r) ==
  /\ At(r, "assign")
  /\ Goto(r, IF ~instrument THEN "instrument" ELSE "classify")
  /\ UNCHANGED <<status, sealed, vehicle, amendment, manifest, title, history>>

\* assignContractToLender: nothing is done for a deal that has been assigned.
ReadAssignment(r) ==
  /\ At(r, "assign")
  /\ Goto(r, IF assigned = 0 THEN "instrument" ELSE "classify")
  /\ UNCHANGED <<status, sealed, vehicle, amendment, manifest, title, history>>

EnsureInstrument(r) ==
  /\ At(r, "instrument")
  /\ instrument' = TRUE
  /\ Goto(r, "endorse")
  /\ UNCHANGED <<status, sealed, vehicle, amendment, manifest, transfers, assigned,
                 forSale, history>>

Endorse(r) ==
  /\ At(r, "endorse")
  /\ transfers' = transfers + 1
  /\ Goto(r, "record")
  /\ UNCHANGED <<status, sealed, vehicle, amendment, manifest, instrument, assigned,
                 forSale, history>>

RecordAssignment(r) ==
  /\ At(r, "record")
  /\ assigned' = assigned + 1
  /\ Goto(r, "classify")
  /\ UNCHANGED <<status, sealed, vehicle, amendment, manifest, instrument, transfers,
                 forSale, history>>

\* Whether the instrument qualifies is evaluated first, and not asked for.
ClassifyForSale(r) ==
  /\ At(r, "classify")
  /\ forSale' = TRUE
  /\ Goto(r, "check")
  /\ UNCHANGED <<status, sealed, vehicle, amendment, manifest, instrument, transfers,
                 assigned, history>>

-----------------------------------------------------------------------------
(* AmendmentService.  Every amendment here corrects the vehicle.           *)

RequestAmendment(a) ==
  /\ amendment[a] = "none"
  /\ \A b \in 1..a - 1 : amendment[b] # "none"
  /\ contract.version > 0
  /\ status \in {"FIRST_GREEN_PASSED", "AUTHORITATIVE_LOCK", "CLOSING_PACKAGE_READY"}
  /\ amendment' = [amendment EXCEPT ![a] = "PENDING_LENDER_APPROVAL"]
  /\ UNCHANGED <<status, sealed, vehicle, manifest, title, req, history>>

StartDecision(r, a, pc) ==
  /\ pc \in {"approve", "reject"}
  /\ amendment[a] = "PENDING_LENDER_APPROVAL"
  /\ Start(r, [Idle EXCEPT !.pc = pc, !.amendment = a, !.hash = contract.hash])
  /\ UNCHANGED <<status, sealed, vehicle, amendment, manifest, title, history>>

Reject(r) ==
  /\ At(r, "reject")
  /\ amendment' = [amendment EXCEPT ![req[r].amendment] = "REJECTED"]
  /\ Overtake(r, ReadsAmendment)
  /\ Finish(r)
  /\ UNCHANGED <<status, sealed, vehicle, manifest, title, agreed, cut>>

\* Seeded fault: the deal keeps its status.
ApproveKeepingStatus(r) ==
  /\ At(r, "approve")
  /\ LET a == req[r].amendment
     IN  /\ amendment' = [amendment EXCEPT ![a] = "APPROVED"]
         /\ vehicle' = a
         /\ SealContract(a, req[r].hash)
         /\ agreed' = a
  /\ Overtake(r, ReadsContract \cup ReadsAmendment)
  /\ req' = [req EXCEPT ![r] = [Idle EXCEPT !.pc = "check"]]
  /\ UNCHANGED <<status, manifest, title, cut>>

\* The parent's hash is the one that was read with the amendment.
Approve(r) ==
  /\ At(r, "approve")
  /\ LET a == req[r].amendment
     IN  /\ amendment' = [amendment EXCEPT ![a] = "APPROVED"]
         /\ vehicle' = a
         /\ SealContract(a, req[r].hash)
         /\ agreed' = a
  /\ status' = "FIRST_GREEN_PASSED"
  /\ Overtake(r, ReadsContract \cup ReadsAmendment)
  /\ req' = [req EXCEPT ![r] = [Idle EXCEPT !.pc = "check"]]
  /\ UNCHANGED <<manifest, title, cut>>

-----------------------------------------------------------------------------
(* generateUniformClosingPackage, at the end of a signature or an approval, *)
(* or on the dealer's demand.                                               *)

RetryAutopublish(r) ==
  /\ Start(r, [Idle EXCEPT !.pc = "check"])
  /\ UNCHANGED <<status, sealed, vehicle, amendment, manifest, title, history>>

\* A package that is ready is not generated again; a deal at another status, or
\* without a contract, is an error.
CheckDeal(r) ==
  /\ At(r, "check")
  /\ IF /\ status \in {"FIRST_GREEN_PASSED", "AUTHORITATIVE_LOCK",
                       "GENERATING_CLOSING_PACKAGE"}
        /\ contract.version > 0
       THEN req' = [req EXCEPT ![r].pc = "mark", ![r].hash = contract.hash]
       ELSE Finish(r)
  /\ UNCHANGED <<status, sealed, vehicle, amendment, manifest, title, history>>

MarkGenerating(r) ==
  /\ At(r, "mark")
  /\ status' = "GENERATING_CLOSING_PACKAGE"
  /\ Goto(r, "extract")
  /\ UNCHANGED <<sealed, vehicle, amendment, manifest, title, history>>

\* extractConsummatedTerms: the language model is given the signed contract and a
\* snapshot of the deal, and returns the vehicle of the snapshot or any other that
\* the schema allows: that of the contract before its amendment, or a misread one.
Extract(r) ==
  /\ At(r, "extract")
  /\ \E vin \in {vehicle, AsRead} :
       req' = [req EXCEPT ![r].pc = "reconcile", ![r].vehicle = vin]
  /\ UNCHANGED <<status, sealed, vehicle, amendment, manifest, title, history>>

\* reconcileDealFromConsummated: the deal is made to agree with the extraction.
Reconcile(r) ==
  /\ At(r, "reconcile")
  /\ vehicle' = req[r].vehicle
  /\ req' = [req EXCEPT ![r].pc = "publish", ![r].vehicle = 0]
  /\ UNCHANGED <<status, sealed, amendment, manifest, title, history>>

\* The documents of the package and its manifest name the hash that was read.
Publish(r) ==
  /\ At(r, "publish")
  /\ manifest' = req[r].hash
  /\ status' = "CLOSING_PACKAGE_READY"
  /\ Finish(r)
  /\ UNCHANGED <<sealed, vehicle, amendment, title, history>>

\* What fails after the deal has been marked is caught, and the mark taken back.
FailPublish(r) ==
  /\ req[r].pc \in {"extract", "reconcile", "publish"}
  /\ req' = [req EXCEPT ![r] = [Idle EXCEPT !.pc = "undo"]]
  /\ UNCHANGED <<status, sealed, vehicle, amendment, manifest, title, history>>

\* Seeded fault: the error is passed on with the mark in place.
UndoNothing(r) ==
  /\ At(r, "undo")
  /\ Finish(r)
  /\ UNCHANGED <<status, sealed, vehicle, amendment, manifest, title, history>>

\* Seeded fault: the deal is taken back to a status of the first way.
UndoMarkTooFar(r) ==
  /\ At(r, "undo")
  /\ status' = "LENDER_FINAL_APPROVAL"
  /\ Finish(r)
  /\ UNCHANGED <<sealed, vehicle, amendment, manifest, title, history>>

UndoMark(r) ==
  /\ At(r, "undo")
  /\ status' = "FIRST_GREEN_PASSED"
  /\ Finish(r)
  /\ UNCHANGED <<sealed, vehicle, amendment, manifest, title, history>>

-----------------------------------------------------------------------------
\* The process dies, or a statement outside the try block fails.
Crash(r) ==
  /\ ~At(r, "idle")
  /\ cut' = TRUE
  /\ Finish(r)
  /\ UNCHANGED <<status, sealed, vehicle, amendment, manifest, title, agreed,
                 overtaken>>

Arrive(r) ==
  \/ StartSend(r)
  \/ StartSign(r)
  \/ \E a \in Amendments, pc \in {"approve", "reject"} : StartDecision(r, a, pc)
  \/ RetryAutopublish(r)

\* What a handler does next by itself.
Step(r) ==
  \/ Send(r)
  \/ Sign(r)
  \/ ReadAssignment(r)
  \/ EnsureInstrument(r)
  \/ Endorse(r)
  \/ RecordAssignment(r)
  \/ ClassifyForSale(r)
  \/ Reject(r)
  \/ Approve(r)
  \/ CheckDeal(r)
  \/ MarkGenerating(r)
  \/ Extract(r)
  \/ Reconcile(r)
  \/ Publish(r)
  \/ UndoMark(r)

Next ==
  \/ \E a \in Amendments : RequestAmendment(a)
  \/ \E r \in Requests : Arrive(r) \/ Step(r) \/ FailPublish(r) \/ Crash(r)

\* A handler that is not cut short goes on.
Spec == Init /\ [][Next]_vars /\ \A r \in Requests : WF_vars(Step(r))

-----------------------------------------------------------------------------
TypeOK ==
  /\ status \in DealStatus
  /\ contract \in [version: Nat, hash: Nat]
  /\ seals \in Seq(Seal)
  /\ vehicle \in Vehicles
  /\ amendment \in [Amendments -> AmendmentStatus]
  /\ manifest \in Nat
  /\ instrument \in BOOLEAN
  /\ transfers \in Nat
  /\ assigned \in Nat
  /\ forSale \in BOOLEAN
  /\ req \in [Requests -> Request]
  /\ agreed \in 0..MaxAmendments
  /\ overtaken \in BOOLEAN
  /\ cut \in BOOLEAN

\* The version of the contract counts the documents that sealed it, its hash is
\* that of the last one, and an amendment replaces an earlier hash.
SealsAreCounted ==
  /\ contract.version = Len(seals)
  /\ contract.hash = Len(seals)
  /\ \A k \in DOMAIN seals : seals[k].amendment # 0 => seals[k].parent \in 1..k - 1

\* What is published names a hash that was sealed, what is endorsed is an
\* instrument, what is assigned has been endorsed, and what is for sale has been
\* assigned.
TitleIsInOrder ==
  /\ manifest \in 0..Len(seals)
  /\ status = "CLOSING_PACKAGE_READY" => manifest # 0
  /\ transfers > 0 => instrument
  /\ assigned <= transfers
  /\ forSale => assigned > 0
  /\ assigned > 0 => Len(seals) > 0

\* Every closing package and every transfer of a deal can be traced to the
\* documents that sealed its contract, however the requests overlap and wherever
\* one is cut short.
RecordIsTraceable == SealsAreCounted /\ TitleIsInOrder

\* Nor is any of it taken back: a document that has sealed the contract stays in
\* its place, a loan is offered after one assignment at the least, of an
\* instrument that was endorsed once for each, and a package is only published
\* of a document that there is (assignContractToLender, approveAmendment,
\* generateUniformClosingPackage).
Title == INSTANCE ContractTitle
ImplementsTitle == Title!Spec

\* As long as nothing was sealed or decided between what another request had
\* read and its commit, a package that is ready is the package of the contract
\* in force, an amendment is approved if and only if it has sealed the contract,
\* once, in the place of the hash before, and the vehicle is the one of the last
\* approved amendment, or one that the language model has read.
SettledDealsAgree ==
  ~overtaken =>
    /\ status = "CLOSING_PACKAGE_READY" => manifest = contract.hash
    /\ vehicle \in {agreed, AsRead}
    /\ \A a \in Amendments :
         amendment[a] = "APPROVED" <=> \E k \in DOMAIN seals : seals[k].amendment = a
    /\ \A j, k \in DOMAIN seals :
         seals[k].amendment # 0 =>
           /\ seals[k].parent = k - 1
           /\ seals[j].amendment = seals[k].amendment => j = k

\* A contract that has been signed is assigned to the lender, and a deal does not
\* stay in the state of generating its package, unless a handler was cut short:
\* nothing does the rest of its work.
HandlersFinish ==
  /\ contract.version > 0 ~> assigned > 0 \/ cut
  /\ status = "GENERATING_CLOSING_PACKAGE" ~>
       status # "GENERATING_CLOSING_PACKAGE" \/ cut
=============================================================================
