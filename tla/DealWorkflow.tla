---------------------------- MODULE DealWorkflow ----------------------------
(***************************************************************************)
(* DealWorkflowService of the web application, for one deal, from the      *)
(* initial disclosure to funding: the mock-up contract that the dealer     *)
(* submits and the lender approves, counters or rejects, the official      *)
(* package and its executed copy.                                          *)
(*                                                                         *)
(* Every operation is one interactive transaction at READ COMMITTED: it    *)
(* reads the deal, checks its status, and later writes by id alone.  Begin *)
(* is the read and its checks, the action named for the operation the rest *)
(* with the commit; other requests may commit in between, and the status   *)
(* that was checked may be gone when the new one is written.               *)
(***************************************************************************)
EXTENDS Integers, Sequences

CONSTANTS
  Requests,   \* slots for requests that are served at the same time
  MaxRows,    \* bound, by series: documents before a request adds another
  MaxHashes   \* bound: package hashes ever computed

ASSUME MaxHashesAssumption == MaxHashes \in Nat

VARIABLES
  status,     \* Deal.status
  mockup,     \* Deal.mockupLenderStatus
  reauth,     \* Deal.requiresBuyerReauth
  finalHash,  \* Deal.finalPackageHash; 0 stands for none
  contract,   \* the AuthoritativeContract row; version 0 stands for none
  docs,       \* the GeneratedDocument rows, by the series they are numbered in
  custody,    \* what the DocumentCustodyEvent rows of the deal record
  hashes,     \* package hashes computed so far; each is a new one
  req         \* the requests being served

row == <<status, mockup, reauth, finalHash>>
stored == <<row, contract, docs, custody>>
vars == <<stored, hashes, req>>

DealStatus ==
  {"DISCLOSURE_REQUIRED", "DISCLOSURE_PENDING", "DISCLOSURE_SIGNED",
   "MOCKUP_SUBMITTED", "LENDER_REVIEW", "LENDER_COUNTER",
   "BUYER_REAUTH_PENDING", "LENDER_FINAL_APPROVAL", "FINAL_PACKAGE_GENERATED",
   "AWAITING_LIVE_SIGNATURES", "AWAITING_FUNDING_UPLOAD", "FUNDED",
   "AUTHORIZED_FOR_STRUCTURING", "GREEN_STAGE", "RISC_UNSIGNED_REVIEW",
   "RISC_LENDER_FINAL", "FIRST_GREEN_PASSED", "AUTHORITATIVE_LOCK",
   "GENERATING_CLOSING_PACKAGE", "CLOSING_PACKAGE_READY", "CONSUMMATED"}

MockupLenderStatus ==
  {"PENDING", "APPROVED_NO_CHANGES", "COUNTER_OFFERED", "REJECTED"}

Decisions == MockupLenderStatus \ {"PENDING"}

\* The documents that a version is counted over.  The green-stage documents
\* stand for one of their types, INSURANCE.
Series == {"INITIAL_DISCLOSURE_SIGNED", "INSURANCE", "RISC_UNSIGNED",
           "MOCKUP_PACKET", "FINAL_RISC", "FINAL_COORDINATED_PACKAGE"}

ASSUME MaxRowsAssumption == MaxRows \in [Series -> Nat]

Hashes == 0..MaxHashes
Document == [version: Nat \ {0}, hash: Hashes]

Ops == {"acknowledge", "greenDoc", "copy", "submit", "review", "resubmit",
        "package", "executed", "fund"}

\* A request, with what it has read: the version its document will have.
Request == [op: Ops \cup {"none"}, version: Nat, hash: Hashes]
Idle == [op |-> "none", version |-> 0, hash |-> 0]

\* generateCanonicalDeal.
Init ==
  /\ status = "DISCLOSURE_REQUIRED"
  /\ mockup = "PENDING"
  /\ reauth = FALSE
  /\ finalHash = 0
  /\ contract = [version |-> 0, hash |-> 0]
  /\ docs = [s \in Series |-> <<>>]
  /\ custody = {}
  /\ hashes = 0
  /\ req = [r \in Requests |-> Idle]

-----------------------------------------------------------------------------
Structuring == {"DISCLOSURE_SIGNED", "AUTHORIZED_FOR_STRUCTURING",
                "GREEN_STAGE", "LENDER_COUNTER"}

\* Seeded fault: the official package does not wait for the approval.
PackagedFromUnapproved == {"LENDER_FINAL_APPROVAL", "LENDER_REVIEW"}

PackagedFrom == {"LENDER_FINAL_APPROVAL"}

\* Seeded fault: an executed package may replace that of a funded deal.
ExecutedFromFunded ==
  {"AWAITING_LIVE_SIGNATURES", "AWAITING_FUNDING_UPLOAD", "FUNDED"}

ExecutedFrom == {"AWAITING_LIVE_SIGNATURES", "AWAITING_FUNDING_UPLOAD"}

\* The statuses that each operation asks for.
AllowedIn(op) ==
  CASE op = "acknowledge" -> {"DISCLOSURE_REQUIRED"}
    [] op = "greenDoc"    -> Structuring
    [] op = "copy"        -> DealStatus
    [] op = "submit"      -> Structuring \cup {"BUYER_REAUTH_PENDING"}
    [] op = "review"      -> {"LENDER_REVIEW", "MOCKUP_SUBMITTED"}
    [] op = "resubmit"    -> {"LENDER_COUNTER", "BUYER_REAUTH_PENDING"}
    [] op = "package"     -> PackagedFrom
    [] op = "executed"    -> ExecutedFrom
    [] op = "fund"        -> {"AWAITING_FUNDING_UPLOAD"}

\* The series an operation adds a document to.  The number is read before the
\* deal is written, except that of the mock-up packet and the official package.
SeriesOf(op) ==
  CASE op \in {"acknowledge", "copy"} -> {"INITIAL_DISCLOSURE_SIGNED"}
    [] op = "greenDoc" -> {"INSURANCE"}
    [] op = "submit"   -> {"RISC_UNSIGNED"}
    [] op = "package"  -> {"FINAL_RISC"}
    [] op = "executed" -> {"FINAL_COORDINATED_PACKAGE"}
    [] OTHER           -> {}

\* Seeded fault: the greatest version is used again.
nextDocVersionUnchanged(s) ==
  IF docs[s] = <<>> THEN 0
  ELSE CHOOSE n \in {docs[s][i].version : i \in DOMAIN docs[s]} :
         \A i \in DOMAIN docs[s] : docs[s][i].version <= n

\* One more than the greatest version of the series.
nextDocVersion(s) ==
  IF docs[s] = <<>> THEN 1
  ELSE 1 + CHOOSE n \in {docs[s][i].version : i \in DOMAIN docs[s]} :
             \A i \in DOMAIN docs[s] : docs[s][i].version <= n

Serving(r, op) == req[r].op = op
Finish(r) == req' = [req EXCEPT ![r] = Idle]

\* The read of the deal, the check of its status, the version of the document
\* that will be added and the hash of the package that will be generated.
Begin(r, op) ==
  /\ Serving(r, "none")
  /\ status \in AllowedIn(op)
  /\ op # "acknowledge" => \A s \in SeriesOf(op) : Len(docs[s]) < MaxRows[s]
  /\ op = "package" => hashes < MaxHashes
  /\ hashes' = IF op = "package" THEN hashes + 1 ELSE hashes
  /\ \E version \in IF SeriesOf(op) = {} THEN {0}
                    ELSE {nextDocVersion(s) : s \in SeriesOf(op)} :
       req' = [req EXCEPT ![r] = [op |-> op, version |-> version,
                                  hash |-> IF op = "package" THEN hashes' ELSE 0]]
  /\ UNCHANGED stored

\* A document with the version that was read.
Doc(r) == [version |-> req[r].version, hash |-> 0]
AddDoc(s, d) == docs' = [docs EXCEPT ![s] = Append(@, d)]
Record(m) == custody' = custody \cup {m}

acknowledgeDisclosure(r) ==
  /\ Serving(r, "acknowledge")
  /\ AddDoc("INITIAL_DISCLOSURE_SIGNED", Doc(r))
  /\ Record("INITIAL_DISCLOSURE_ACCEPTED")
  /\ status' = "DISCLOSURE_SIGNED"
  /\ Finish(r)
  /\ UNCHANGED <<mockup, reauth, finalHash, contract, hashes>>

uploadGreenStageDoc(r) ==
  /\ Serving(r, "greenDoc")
  /\ AddDoc("INSURANCE", Doc(r))
  /\ Finish(r)
  /\ UNCHANGED <<row, contract, custody, hashes>>

uploadAdditionalDisclosureCopy(r) ==
  /\ Serving(r, "copy")
  /\ AddDoc("INITIAL_DISCLOSURE_SIGNED", Doc(r))
  /\ Finish(r)
  /\ UNCHANGED <<row, contract, custody, hashes>>

\* Seeded fault: the number of the packet is read with that of the document,
\* before the deal is written.
SubmitNumberedEarly(r) ==
  /\ Serving(r, "submit")
  /\ docs' = [docs EXCEPT
       !["RISC_UNSIGNED"] = Append(@, Doc(r)),
       !["MOCKUP_PACKET"] = Append(@, Doc(r))]
  /\ Record("RISC_UNSIGNED")
  /\ status' = "LENDER_REVIEW"
  /\ mockup' = "PENDING"
  /\ reauth' = FALSE
  /\ Finish(r)
  /\ UNCHANGED <<finalHash, contract, hashes>>

\* The packet is numbered after the deal has been written, and so after every
\* submission that was committed before this one.
submitUnsignedRISC(r) ==
  /\ Serving(r, "submit")
  /\ docs' = [docs EXCEPT
       !["RISC_UNSIGNED"] = Append(@, Doc(r)),
       !["MOCKUP_PACKET"] =
          Append(@, [version |-> nextDocVersion("MOCKUP_PACKET"), hash |-> 0])]
  /\ Record("RISC_UNSIGNED")
  /\ status' = "LENDER_REVIEW"
  /\ mockup' = "PENDING"
  /\ reauth' = FALSE
  /\ Finish(r)
  /\ UNCHANGED <<finalHash, contract, hashes>>

\* Seeded fault: a rejection takes the deal to where a counter offer does.
ReviewOutcomeSwapped(decision) ==
  CASE decision = "APPROVED_NO_CHANGES" -> "LENDER_FINAL_APPROVAL"
    [] OTHER                            -> "LENDER_COUNTER"

ReviewOutcome(decision) ==
  CASE decision = "APPROVED_NO_CHANGES" -> "LENDER_FINAL_APPROVAL"
    [] decision = "COUNTER_OFFERED"     -> "LENDER_COUNTER"
    [] OTHER                            -> "DISCLOSURE_SIGNED"

lenderReviewMockup(r, decision) ==
  /\ Serving(r, "review")
  /\ status' = ReviewOutcome(decision)
  /\ mockup' = decision
  /\ reauth' = (decision = "COUNTER_OFFERED")
  /\ Record(decision)
  /\ Finish(r)
  /\ UNCHANGED <<finalHash, contract, docs, hashes>>

\* With the buyer's authorization confirmed; without it nothing changes.
dealerResubmitAfterCounter(r) ==
  /\ Serving(r, "resubmit")
  /\ status' = "LENDER_REVIEW"
  /\ mockup' = "PENDING"
  /\ reauth' = FALSE
  /\ Record("COUNTER_RESUBMIT")
  /\ Finish(r)
  /\ UNCHANGED <<finalHash, contract, docs, hashes>>

\* Seeded fault: a contract that exists keeps its hash.
UpsertKeepingHash(r) ==
  contract' = [version |-> contract.version + 1,
               hash |-> IF contract.version = 0 THEN req[r].hash ELSE contract.hash]

UpsertContract(r) ==
  contract' = [version |-> contract.version + 1, hash |-> req[r].hash]

\* The upsert of the contract waits for every package that is being generated,
\* so the numbers read after it are those of committed rows.
generateFinalOfficialPackage(r) ==
  /\ Serving(r, "package")
  /\ UpsertContract(r)
  /\ docs' = [docs EXCEPT
       !["FINAL_RISC"] = Append(@,
          [version |-> nextDocVersion("FINAL_RISC"), hash |-> req[r].hash]),
       !["FINAL_COORDINATED_PACKAGE"] = Append(@,
          [version |-> nextDocVersion("FINAL_COORDINATED_PACKAGE"),
           hash |-> req[r].hash])]
  /\ status' = "AWAITING_LIVE_SIGNATURES"
  /\ finalHash' = req[r].hash
  /\ Record("FINAL_PACKAGE_GENERATED")
  /\ Finish(r)
  /\ UNCHANGED <<mockup, reauth, hashes>>

uploadExecutedFinalPackage(r) ==
  /\ Serving(r, "executed")
  /\ AddDoc("FINAL_COORDINATED_PACKAGE", Doc(r))
  /\ Record("FINAL_EXECUTED_UPLOAD")
  /\ status' = "AWAITING_FUNDING_UPLOAD"
  /\ Finish(r)
  /\ UNCHANGED <<mockup, reauth, finalHash, contract, hashes>>

lenderMarkFunded(r) ==
  /\ Serving(r, "fund")
  /\ status' = "FUNDED"
  /\ Record("FUNDED_APPROVAL")
  /\ Finish(r)
  /\ UNCHANGED <<mockup, reauth, finalHash, contract, docs, hashes>>

\* The transaction is rolled back: an invalid input, a timeout, a lost
\* connection.
Abort(r) ==
  /\ ~Serving(r, "none")
  /\ Finish(r)
  /\ UNCHANGED <<stored, hashes>>

Commit(r) ==
  \/ acknowledgeDisclosure(r)
  \/ uploadGreenStageDoc(r)
  \/ uploadAdditionalDisclosureCopy(r)
  \/ submitUnsignedRISC(r)
  \/ \E decision \in Decisions : lenderReviewMockup(r, decision)
  \/ dealerResubmitAfterCounter(r)
  \/ generateFinalOfficialPackage(r)
  \/ uploadExecutedFinalPackage(r)
  \/ lenderMarkFunded(r)

Next ==
  \E r \in Requests : (\E op \in Ops : Begin(r, op)) \/ Commit(r) \/ Abort(r)

Spec == Init /\ [][Next]_vars

-----------------------------------------------------------------------------
TypeOK ==
  /\ status \in DealStatus
  /\ mockup \in MockupLenderStatus
  /\ reauth \in BOOLEAN
  /\ finalHash \in Hashes
  /\ contract \in [version: Nat, hash: Hashes]
  /\ docs \in [Series -> Seq(Document)]
  /\ hashes \in Hashes
  /\ req \in [Requests -> Request]

Milestone == INSTANCE DealMilestones WITH reached <- custody

\* The custody events tell a story in order: whatever requests overlap, none
\* is recorded before those it rests on (logCustody after each check of the
\* status, deal-workflow.service.ts).
ImplementsMilestones == Milestone!Spec

\* What must have happened for a deal to have its status.
Evidence(s) ==
  CASE s = "DISCLOSURE_REQUIRED"      -> {}
    [] s = "DISCLOSURE_SIGNED"        -> {"INITIAL_DISCLOSURE_ACCEPTED"}
    [] s = "LENDER_REVIEW"            -> {"RISC_UNSIGNED"}
    [] s = "LENDER_COUNTER"           -> {"COUNTER_OFFERED"}
    [] s = "LENDER_FINAL_APPROVAL"    -> {"APPROVED_NO_CHANGES"}
    [] s = "AWAITING_LIVE_SIGNATURES" -> {"FINAL_PACKAGE_GENERATED"}
    [] s = "AWAITING_FUNDING_UPLOAD"  -> {"FINAL_EXECUTED_UPLOAD"}
    [] s = "FUNDED"                   -> {"FUNDED_APPROVAL"}
    [] OTHER                          -> {"no operation leads here"}

\* The status of a deal is always one that its custody events account for,
\* even when a late request takes the deal back to an earlier one.
StatusIsDocumented == Evidence(status) \subseteq custody

\* The three columns of the lender's review are written together, and so agree
\* whichever of two overlapping requests is the last: a countered deal demands
\* the buyer's authorization, one under review or approved does not.
ReviewFlagsAgree ==
  /\ status = "LENDER_REVIEW" => mockup = "PENDING" /\ ~reauth
  /\ status = "LENDER_COUNTER" => mockup = "COUNTER_OFFERED" /\ reauth
  /\ status = "LENDER_FINAL_APPROVAL" => mockup = "APPROVED_NO_CHANGES" /\ ~reauth

\* The hash of the deal, that of the contract and those of the last official
\* documents are the same, and the contract's version counts the packages.
PackageHashAgrees ==
  /\ finalHash = contract.hash
  /\ contract.version = Len(docs["FINAL_RISC"])
  /\ contract.version > 0 =>
       /\ docs["FINAL_RISC"][contract.version].hash = contract.hash
       /\ \E i \in DOMAIN docs["FINAL_COORDINATED_PACKAGE"] :
            docs["FINAL_COORDINATED_PACKAGE"][i].hash = contract.hash

\* The two series that are numbered under a row lock have no number twice and
\* none left out, whatever overlaps; the others may repeat one.
LockedSeriesAreNumbered ==
  \A s \in {"MOCKUP_PACKET", "FINAL_RISC"} :
    \A i \in DOMAIN docs[s] : docs[s][i].version = i

\* A funded deal with no other request under way than copies of its disclosure
\* stays funded; a request that read the deal earlier may still take it back.
Settled ==
  /\ status = "FUNDED"
  /\ \A r \in Requests : req[r].op \in {"none", "copy"}

FundingIsFinal == [][Settled => Settled']_vars
=============================================================================
