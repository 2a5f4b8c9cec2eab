# DealSeal: models, checks and proofs

DealSeal keeps the authoritative record of a vehicle finance deal.  A deal (a
`Transaction` row with everything that hangs off it) moves through a state
machine from `DRAFT` to `LOCKED` and on to final clearance; locking it seals the
executed contract, writes a governing record and bills the organisation.  This
directory holds TLA+ models of that program, the TLC runs that check them, and
TLAPS proofs.

The repository holds two programs over one idea: the API (`apps/api`), and a web
application (`apps/web`) with a schema and a deal workflow of its own.

What makes both hard is not any one handler but what lies between two
`await`s.  Every handler reads the database, decides, and writes
with further statements; between any two of them another handler, in the same
Node process or in another instance, may run, and the process may die.  The
models therefore take one database statement (or one Prisma `$transaction`) as
one step.

## Parts of the system

| part | source (below `apps/api/src` unless noted) | state it keeps | operations | what makes it correct |
|---|---|---|---|---|
| State engine, table, guards | `services/state-engine.ts`, `state-guards.ts`, `state-transition-config.ts` | `Transaction.state`, one event row per move | `transitionTransaction`, called by the routes, by submit, verify and final clearance | moves are in the allow-list; a lock needs a verified contract, no discrepancy, no open blocker task, no hold |
| Lock side effects | `state-hooks.ts`, `lock-activation-service.ts`, `governing-record-service.ts` | `ExecutedContract.lockedAt`, `GoverningAgreement.lockedAt`, `GoverningRecord` | hooks after `LOCKED` | every lock leaves a seal, a record and a usage event, all of them about verified contracts |
| Execution workflow | `execution-workflow-service.ts` | `ExecutedContract` rows, discrepancies | submit, verify | one authoritative contract; a verdict is final; a rejection blocks the deal |
| Completion protocol | `completion-protocol.ts` | `CompletionTask` rows, unique per deal and key | rebuild, patch | the blockers a lock asks for reflect the deal |
| Holds | `hold-service.ts`, `routes/admin.ts` | `Hold` rows, the state `HOLD` | place, release | a hold stops every progression |
| Profile edits | `transaction-patch-service.ts`, `transaction-material-state.ts` | profile rows with versions | patch buyer, vehicle, financials | stale versions are refused; material edits demote the deal, executed deals are not demoted |
| Rules | `rules-revaluation-service.ts`, `routes/rules.ts` | rule evaluations, discrepancies | evaluate, reevaluate | a failing rule opens a discrepancy |
| Post-funding, final clearance | `post-funding-obligation-service.ts`, `final-clearance-service.ts` | `PostFundingItem` rows | rebuild, patch, clear | clearance only with all blocking items done |
| Audit chain | `audit-service.ts`, `packages/shared/src/audit-hash-chain.ts` | `AuditEvent` rows with hashes | `recordAudit` | one linear chain per deployment |
| Custody ledger | `packages/custody-ledger`, `services/custody/*` | external QLDB-like journal, projection rows | commands, system events, projection | every event in the ledger reaches the projection once |
| Documents | `document-upload-service.ts`, `document-reprocess-service.ts`, `workers/document-validation.worker.ts`, `queue/queues.ts` | intents, versions, the objects in the bucket, the queue | create intent, finalize, register, reprocess, validate | versions are gapless; the object at a version's key is the one its row states; validation ends |
| Packages | `package-request-service.ts`, `workers/package.worker.ts` | `PackageJob`, its artifacts and manifest | request, process | what a job records is what is stored; a job ends |
| Embodiments | `authoritative-embodiment-service.ts` | `AuthoritativeContractEmbodiment` | generate | at most one active |
| Billing | `invoice-draft-service.ts`, `routes/billing-webhook.ts`, `pricing-engine.ts` | usage events, invoices | record usage, draft, Stripe events | a usage event is billed once; a paid invoice stays paid |
| Lender evaluation, overrides, approvals | `lender-evaluation-service.ts`, `routes/overrides.ts` | evaluation lines, overrides | run, decide | decisions are final |
| Web deal workflow | `apps/web/src/lib/services/deal-workflow.service.ts` | the web's own `Deal`, `GeneratedDocument`, `AuthoritativeContract`, custody events | disclosure, mock-up, review, official package, funding | custody events in order; one hash for deal, contract and documents; a funded deal stays funded |
| Web closing package | `amendment.service.ts`, `autopublish.service.ts`, `negotiable-instrument.service.ts`, `secondary-market.service.ts` in the same directory | the same rows, amendments, instrument and transfers | post, sign, assign, amend, publish | a published package is that of the contract in force; title follows the seals |
| Web loan pools, other web services | the other files of that directory | pools, alerts, dashboards | | pools hold deals that have been assigned |
| Partner API, webhooks, auth, analytics, renderer, pages | the remaining routes and services | | | not part of the core logic |

The interactions: routes call the engine or a service; submit, verify and final
clearance call the engine; the engine's callers run the hooks after `LOCKED`;
the hooks call the lock activation, the governing record, the completion
protocol and the pricing engine, each with database statements of its own.
Everything meets in the rows of the deal.  There are no locks and no conditions
in the writes except where a model says so: `updateMany` on release of a hold,
unique keys, the row lock that an `UPDATE` takes until its transaction ends, and
the advisory lock of the audit service.  Two queues (BullMQ) connect requests
with workers; the bucket (S3) is a third store beside PostgreSQL and Redis.

The API and the web application share no rows: no module composes the two.

`PROJECT.json` lists the components with their status and every hazard we found,
with its line.

## Modules

### `DealStates`

The tables: states, roles, the 42 rows of the allow-list (grouped, because many
rows share a role list), and the predicates of the guards over states.  Sets of
states named in the code keep their names (`NO_PATCH_STATES`,
`PRE_EXECUTION_STATES`).

### `DealLifecycle`

One deal and the handlers that work on it.  A request slot holds one running
handler; with two slots two handlers interleave, with one slot handlers run one
after another.

| variable | code |
|---|---|
| `state` | `Transaction.state` |
| `hold` | the `Hold` rows: those that name the deal, those that name its organisation |
| `disc` | some `Discrepancy` of the deal is open.  No code resolves one, so it never falls |
| `contract`, `nextContract` | the `ExecutedContract` rows and their `verificationStatus`, in creation order |
| `matching` | whether the document of the contract carries another deal's reference.  The reference is immutable, so the verdict on a contract is determined when it is stored |
| `authoritative`, `sealed` | `ExecutedContract.authoritative`, `lockedAt`.  The governing agreement is locked in the same `$transaction` as the contract, so `sealed # {}` speaks for it as well |
| `record` | the contract the `GoverningRecord` was built from |
| `billed` | a `DEAL_SEALED` usage event exists |
| `blockers`, `pf` | the blocking `CompletionTask` and `PostFundingItem` rows: none, one outstanding, all done |
| `req` | for each slot: the next statement (`pc`), the operation, the state read (`seen`), the target (`goal`), the contract in hand, and for a rebuild the keys it writes and those committed by others since its delete |

Operations (a client's call begins one, `Call`; the handler then goes on by
`Step`, and may be cut short by `Abort`):

| operation | steps |
|---|---|
| transition, lock, approve | `StartTransition`, `CheckHolds`, `CheckDiscrepancies`, `CheckLock` or `CheckFunding`, `Commit`, and after LOCKED the hooks `ReadAccepted`, `Seal`, `ReadRecord`, `CreateRecord` or `UpdateRecord`, `ReadSeeds`, `DeleteTasks`, `WriteTasks` or `FailTasks`, `RecordUsage` |
| final clearance | `StartClearance`, then the engine from `EngineRead` |
| edit a profile | `StartPatch`, `CheckHolds`, `WritePatch`, `Reevaluate` |
| submit | `StartSubmit`, `ClearAuthoritative`, `CreateContract`, the engine, `CommitContract` |
| verify | `StartVerify`, `Judge`, after a rejection the engine |
| hold, release | `PlaceHold`, `FreezeState`; `ReleaseHold`, `ThawState` |
| completion tasks | `StartRebuild` and the three rebuild steps; `PatchTask` |
| rules, obligations | `FailRule`, `BuildPostFunding`, `PatchPostFunding` |

What is abstracted, and why nothing the properties speak of is lost:

- Consecutive reads are one step when only the last can change the outcome:
  the three reads of `assertNoActiveHold`; the verified contract and the blocker
  tasks before LOCKED (a verified contract never stops being one, so reading it
  earlier changes nothing); the reads of the final clearance view, which is
  evaluated again by the engine's guards.
- The view of the final clearance also refuses when an item of any kind is
  overdue; only blocking items are modelled.
- A governing agreement is created in the transaction that creates the deal, so
  `requireGoverning` never refuses.  `lifecyclePhase` is written but no guard
  reads it.
- A profile edit's transaction is one step; it may fail on the row version.
- Audit writes inside a handler are left out; one that throws is `Abort`.
- Users with several roles: a call is possible when some role permits it.
- Obligations are built and patched in one step each.
- One deal only: no handler touches two deals.

`CreateContract` models an insert inside an open `$transaction` while the engine
moves the deal on another connection: the row is invisible (`contract` stays
`"none"`) until `CommitContract`, and `Abort` in between is the five second
timeout of Prisma's interactive transactions, after which the deal has moved and
the contract is gone.

The write of the rebuild is split into its `deleteMany` and its inserts because
under READ COMMITTED the delete does not see rows that another rebuild has not
committed yet, and the unique key `(transactionId, key)` then refuses the insert
(`Clashes`, `FailTasks`).

### `DealEvidence`

What a deal shows of its execution to an auditor: verdicts, given once; that it is
locked; seals, the governing record and the charge, each resting on one before it.
`DealLifecycle` implements it with `locked <- state \in PostLock`, `verified` and
`rejected` the contracts with that verdict, and the other variables as they are.

### `DealLifecycleProofs`, `DealSerialProofs`

The theorems about `DealLifecycle`, for any interleaving and for one handler at a
time; see below.

### `MCDealLifecycle`

Constant values for TLC.  `Requests` and the hold rows are model values.  The two
slots are interchangeable; they are declared symmetric only where no liveness is
checked (`VerdictIsFinal`, an action property, names no slot).

### `AuditChain`, `AuditChainProofs`, `MCAuditChain`

`recordAudit`, called from several instances of the program, each with a clock.

| variable | code |
|---|---|
| `events` | the `AuditEvent` rows in the order of their commits |
| `clock` | `Date.now()` of each instance, in milliseconds |
| `holder` | who holds `pg_advisory_xact_lock` |
| `call` | a transaction in flight and the row it is about to insert |

A call is `Begin`, `TakeLock`, `ReadLast` (the row with the greatest `createdAt`,
then `new Date()`), `Insert` (insert, commit, release).  `Abort` is every way a
transaction is rolled back; `Tick` lets one clock advance.  Rows with equal
`createdAt` are ordered by nothing, so `ReadLast` may return any of them.  A hash
is the sequence of events it stands for: two are equal when their inputs are.
The web application's `recordDealAuditEvent` is the same algorithm on a table and
with a lock of its own.

### `CustodyRecord`, `CustodyLedger`, `CustodyLedgerProofs`, `MCCustodyLedger`

`CustodyRecord` is the promise for one deal: a journal that only grows, a set of
applied events, and a projection that is at every moment the summary of the
applied events, applied once each, in any order and with any delay.
`CustodyLedger` is `CustodyService.handleCommand` with the journal (QLDB) on one
side and PostgreSQL on the other, and implements it under the identity mapping.

| variable | code |
|---|---|
| `ledger` | the documents of `CustodyEvents`; an event is named by its place |
| `rows` | the `CustodyLedgerEvent` rows |
| `projection` | the `CustodyDealProjection` row (version 0: none) |
| `created` | the command that records the deal's creation has been issued |
| `faults` | attempts that have failed, bounded by `MaxFaults` |
| `call` | the handler: its event, the attempt, the row it has read |

Steps: `Validate`, `AppendEvent`, `FetchDigest`, `ReadProjection`,
`WriteProjection`, and `FailAttempt`, which fails an attempt before its commit or
loses the answer to it, followed by `Retry`.  `Abort` is a crash, and also an
append that throws.

- Only three event types are emitted by the code (`DealCreated`,
  `StipulationUploaded`, `LenderViewed`), so the branches of `foldEvent` for
  others are left out; of the aggregate only `version` and `lifecyclePhase` can
  change.
- A command whose `expectedVersion` is not the projected one changes nothing; one
  that has it or states none goes on, and the aggregate read for it is not used
  again.
- The event row and the upsert are committed together.  The upsert is Prisma's
  native one, `INSERT ... ON CONFLICT DO UPDATE`, so that two first events
  overwrite each other instead of failing.
- The time-stamping service is a mock that cannot fail.

### `DealMilestones`, `DealWorkflow`, `DealWorkflowProofs`, `MCDealWorkflow`

`DealMilestones` is what the custody events of a web deal promise their readers:
a milestone is recorded only after those it rests on, and never taken back.
`DealWorkflow` is `DealWorkflowService`, which implements it with `reached <-
custody`.

| variable | code |
|---|---|
| `status`, `mockup`, `reauth`, `finalHash` | `Deal.status`, `mockupLenderStatus`, `requiresBuyerReauth`, `finalPackageHash` |
| `contract` | the `AuthoritativeContract` row: version and hash |
| `docs` | the `GeneratedDocument` rows, by the series they are numbered in |
| `custody` | the event types of the deal's `DocumentCustodyEvent` rows |
| `hashes` | package hashes computed; each is new, since a package holds its time |
| `req` | for each slot: the operation, and the version and hash it will write |

Each operation is one interactive transaction at READ COMMITTED.  `Begin` is its
read of the deal and its check of the status; the action named for the method is
its writes and the commit.  Between the two, other requests commit, and the
write goes by id alone.  `Abort` is a roll-back.

- The number of a document is read before the `UPDATE` of the deal, or after it
  (`MOCKUP_PACKET`) or after the upsert of the contract (`FINAL_RISC` and its
  coordinated package).  In the latter two the row lock is held until the
  commit, so the number is that of the rows committed by then: it is computed in
  the commit step.
- `INSURANCE` stands for each type of green-stage document.
- The HTML of documents and the storage uploads leave no state that is read.

### `VersionHistory`, `DocumentIngest`, `DocumentIngestProofs`, `MCDocumentIngest`

One document of the API, with its intents, versions and validation jobs.
`VersionHistory` is what its readers rely on: a history of versions that is only
continued, under the next number, where an upload makes one version, of new
content, and the archived content of a version never changes: it is what the
version states, unless the client replaced the staged object between the digest
and the copy (`replaced`).  `DocumentIngest` implements it with `versions <- rows` and `archive` the number
and the stored object of each uploaded version, as long as requests come one at
a time; its `Numbering` it implements however requests overlap.

| variable | code |
|---|---|
| `hasQueue` | whether `REDIS_URL` is set |
| `intent` | `DocumentUploadIntent.status` |
| `staging`, `objects` | the objects at the staging key of each intent and the permanent key of each version, by their content |
| `rows` | the `DocumentVersion` rows |
| `ingest` | `Document.ingestStatus` |
| `job` | the validation job of each version in the queue |
| `req` | for each slot: the next call, the intent, the digest and the number it has read |
| `replaced`, `stranded` | history: the uploads whose staged object was replaced between its digest and its copy; a validation that was due was dropped |

Operations: `CreateUploadIntent`, the client's `Put`, `FinalizeLate`;
`StartFinalize`, `CheckStaged`, `ReadLast`, `Copy`, `CreateVersion`,
`DeleteStaged`, `Enqueue`; `StartRegister`, `Register`; `StartReprocess`,
`Enqueue`; the worker's `Validate` and `Complete`.  Failures, in any number:
`AddFails`, `Crash`, `FailJob`, `Stall`.

- The presigned URL stays valid until it expires, whatever has become of the
  intent: `Put` may happen at any time once there is an intent, and again, with
  any content, between the digest and the copy of a finalizer as well.
- `Copy` and `CreateVersion` are one Prisma transaction: the object is replaced
  when the copy is made, the rows appear with the commit, and a roll-back does
  not bring the object back.
- `queue.add` with an id that is kept is ignored, so a job that completed or
  failed swallows the next validation of the same version.  The add may also be
  refused; the ids that `queues.ts` builds hold a colon, which recent versions of
  BullMQ refuse.
- Hold and deal-state checks refuse a request before it has changed anything: it
  is a request that does not start.
- A content is its SHA-256; `Register` takes the digest the client states and a
  storage key of its own, so only uploaded rows are compared with objects.

### `ContractTitle`, `ClosingPackage`, `ClosingPackageProofs`, `MCClosingPackage`

The web application's other way to a closed deal: the lender posts the final
contract, the dealer uploads the signed one (`FIRST_GREEN_PASSED`), it is
assigned to the lender, a closing package is published, and amendments that the
lender approves seal the contract anew and publish it again.  `ContractTitle` is
what the buyer of the loan relies on: seal, instrument, endorsement, assignment
and offer come in this order and stay, an endorsement is recorded once, and a
published package is of a document that sealed the contract.  `ClosingPackage`
implements it under the identity mapping.

| variable | code |
|---|---|
| `status` | `Deal.status` |
| `contract`, `seals` | the `AuthoritativeContract` row, and the documents that sealed it; hash *n* is that of the *n*-th |
| `vehicle` | `Vehicle.vin`, by where it comes from: an amendment, 0 for the first signature, `AsRead` for a VIN the language model returned in the place of the deal's |
| `amendment` | `Amendment.status` |
| `manifest` | the hash the last `UCSP_CLOSING_MANIFEST` names |
| `instrument`, `transfers`, `assigned`, `forSale` | the `NegotiableInstrument`, its transfer events, the assignment events, `secondaryMarketStatus` |
| `req` | for each slot: the next call, the amendment, hash and vehicle read |
| `agreed`, `overtaken`, `cut` | history: the amendment approved last; a decision was made on what was no longer so; a handler was cut short |

Operations: `StartSend`, `Send`; `StartSign`, `Sign`, then the assignment
(`ReadAssignment`, `EnsureInstrument`, `Endorse`, `RecordAssignment`,
`ClassifyForSale`) and the publication (`CheckDeal`, `MarkGenerating`, `Extract`,
`Reconcile`, `Publish`, or `FailPublish` and `UndoMark`); `RequestAmendment`,
`StartDecision`, `Reject`, `Approve` (which publishes); `RetryAutopublish`;
`Crash`.

- `Init` is a deal in `RISC_UNSIGNED_REVIEW`, a status kept for deals of an
  earlier flow (nothing in the program writes it any more), or one of the two kinds
  of deals that `scripts/seed-web-billing.ts` puts beyond signing.
- Amendments correct the VIN, the only field that the pages offer.
- `Extract` is a language model that reads the signed contract beside a snapshot of
  the deal, under a schema that takes any VIN: it returns the vehicle of the
  snapshot, or another (`AsRead`: a misread one, or that of the contract before
  its amendment), or fails.  `Reconcile` writes back what it returned.
- Open alerts and failing collateral checks refuse a request, which then does not
  start.
- Two sends that overlap let the later one take a deal that has been signed back
  to `RISC_LENDER_FINAL`; it can then be signed again.  This is in the model.

### `PackageRecord`, `PackageJobs`, `PackageJobsProofs`, `MCPackageJobs`

One package job of the API, from its request to its certificate.  `PackageRecord`
is what the job leaves in the database: charged once and before any work, each
package of a state the deal was in, one certificate, for good and of a package
that there is.  `PackageJobs` implements it with `charged <- usage`, `packages <-
rows`, `current <- bundle` and `certificate <- manifest`.

| variable | code |
|---|---|
| `deal` | what the deal holds, counted up by each change |
| `certified`, `hasQueue` | the kind of job is certified; `REDIS_URL` is set |
| `status`, `bundle` | `PackageJob.status`, `bundleSha256` (the deal it was made of) |
| `rows`, `manifest` | the `GeneratedPackage` rows, the `PackageManifest` row |
| `objects` | the objects under the job's prefix, by the deal they were made of |
| `usage` | the usage event of the export |
| `creator`, `queue`, `stalls` | the request, the job in the queue, the deliveries after the first |
| `run` | the runs of `processPackageJob`, one for each delivery |
| `overlapped`, `stranded` | history: a run was started beside another; the job was given up without a word to the database |

BullMQ delivers a job again when its lock runs out.  The worker may have died, or
may be slow and go on: `Stall` does not stop a run, and the runs then write the
same keys.  Every statement of a run may fail (`Fail`), which `Catch` turns into
`FAILED`, also after `SUCCEEDED` was committed (a failing certification); the
mark may fail as well (`CatchFails`), and a worker may die (`Die`).  Jobs share
only the deal they read and the id of a job is new, so one is enough.

## Runs

"Serial" means one request slot.

| run | what it asks | bounds |
|---|---|---|
| `DealConcurrent` | is `DealEvidence` implemented, and are verdicts final and rejections blocking, when two handlers interleave and may die | two slots, two contracts, the operations on the way to LOCKED |
| `DealRelock` | with handlers that run to their end, does every lock get its seal, record and usage event, also when two locks race and when a deal is locked a second time after a hold | two slots, two contracts, one hold, no crashes |
| `DealSerial` | are table, guards and holds enforced, earlier contracts superseded, and unverified deals kept from going on, when nothing interleaves | one slot, two contracts, all operations, all target states, one hold of the deal and one of the organisation, crashes |
| `DealGuardRace` | do the guards of LOCKED hold when it is written | violated by a discrepancy between guard and write |
| `AuditClocks` | does each hash cover the rows it continues back to the genesis, and all rows while the times increase | two calls, two clocks of 0..2, four rows |
| `CustodyRace` | does the read model stay behind the journal, count nothing twice and miss nothing | two calls, three events, five attempts (the factory's), four failures, no crashes |
| `CustodySerial` | is `CustodyRecord` implemented by one command at a time | one call, three events of all kinds, three attempts, three failures, crashes |
| `WorkflowRace` | what survives when two requests of the web workflow check a status and write by id: the custody events, the hashes, the locked numbers, a funded deal | two slots; two submissions, packets and official contracts, three coordinated packages, one disclosure and one green-stage document; two package hashes |
| `DocumentSerial` | is `VersionHistory` implemented by one request at a time, and does validation end | one slot beside the workers, one intent, two contents, two versions, PUTs and failures without bound, with and without a queue |
| `DocumentOverwrite` | is the object of a version the one its row states | violated by two finalizers with one number: two slots, two intents |
| `ClosingPackage` | is `ContractTitle` implemented, do packages trace back to the seals and agree with them unless overtaken, and do handlers finish | two slots, one amendment, crashes |
| `PackageJobs` | is `PackageRecord` implemented, is what a job records what is stored, and does it end | three formats, one redelivery (BullMQ's default), one change of the deal |

The two violations are listed as findings, each with the line of the repository
it contradicts.  Concurrency, crashes and refused digests are constants, so what
a passing run rules out and what a violation shows differ only in the `.cfg`.

The bounds of a passing run are also its limits.  The properties of
`DealSerial` are of one handler at a time.  `DealGuardRace` is the example of
what two handlers do to them; the same happens to `StateMovesAreSanctioned` (two
handlers read one state, and the second write is a move the table does not have;
or an edit demotes a deal that has been executed since it was read; where an edit
moves a deal that is still open is not part of that property) and to
`AtMostOneAuthoritative` (two submits both clear the flags before either
inserts).  `LockTakesEffect` holds in `DealRelock` because nobody asks for a
rebuild there: a rebuild that clashes with the one of the hooks makes them throw
before the usage event.  `EveryEventIsProjected` holds in `CustodyRace` because
the digest is never refused: with `DigestFails` an appended event is never
projected.  The passing runs of the four later modules exclude by name what
breaks them: `SettledDealsAgree` and `PackageIsTraceable` speak of deals that
were not `overtaken` and of jobs whose runs did not overlap, `DocumentSerial` has
one slot, and `BlobsMatchRows` and `VersionHistory` leave out the content of
uploads that were `replaced`.  Without the first, an approval that overtakes a
publication leaves a deal ready with the package of the contract before it.  The
vehicle of a settled deal is the one agreed on or one that the language model
returned (`AsRead`): nothing in the code compares the two.

Six statements of the repository were compared with the code by runs that are
not kept, each with a property the model violates:

| statement | what the code does |
|---|---|
| `transaction-material-state.ts:5`: `APPROVED -> CONDITIONAL` | an edit takes an approved deal to `YELLOW` |
| `docs/ARCHITECTURE.md:371`: content addressing by `sha256` | a PUT repeated between the digest (`document-upload-service.ts:201`) and the copy (`:240`) archives bytes that the `sha256` of the row (`:251`) does not state, with a single request |
| `apps/api/prisma/schema.prisma:364`: the governing record is immutable after the lock | hold, release and a second lock rewrite it, one request at a time |
| `docs/ARCHITECTURE.md:395`: the side effects run for any path that reaches `LOCKED` | a handler that dies after the write of `LOCKED` leaves none of them (`DealRelock` with `Crashes = TRUE`) |
| `apps/api/prisma/schema.prisma:839`: the prior row's chain hash | with equal times, or clocks that differ, a row names an earlier one |
| `packages/custody-ledger/src/types.ts:148`: a monotonic version | two commands that fold the same projection, with a third event between their writes, take it back |

Bounds.  `MaxContracts` is the one bound in a guard (an insert beyond it fails
like any failed insert).  Two contracts give the cases that matter: one verified
and one pending, one verified and one rejected, a second verified after the
first lock; two submits give two rows for the flags.  Two slots give every race
of two handlers; the invariants proved below do not depend on the number.  The sets `Operations` and `Targets` choose
what clients do in a run: a run about the way to LOCKED leaves out what cannot
affect it to keep the state space small, and `DealSerial` has all of them.

`AuditChain` needs two clocks and two times to tie and to disagree; a fourth row
lets a fork be continued.  `CustodyLedger` needs three events for an overwritten
projection to be overwritten again, and one failure less than the attempts of a command for the retries to
be enough: failures are counted over all commands, which is the assumption
`CustodyRace` makes about the database.

`WorkflowRace` keeps one disclosure and one green-stage document because their
numbers are under no property; two of each other series give a repetition, an
overtaking and a second package.  In `DocumentSerial` one intent, two contents and
two versions give a content staged anew around the digest, a retry of an upload
that was cut short, and a registered version beside the uploaded one, before or
after it; failures and PUTs are not bounded.  The second
intent, for the same bytes uploaded twice, is in `DocumentOverwrite`, and the
theorems have any number.  In `ClosingPackage` one amendment and two
slots give an approval beside a publication, a second signature and two
publications.  `PackageJobs` has the redelivery that BullMQ allows, and an edit of
the deal between two deliveries.  The invariants of all four are proved for any
bounds.

Deadlock is checked except in `WorkflowRace`, `DocumentSerial`,
`DocumentOverwrite`, `ClosingPackage` and `PackageJobs`, where the program has
nothing left to do: a funded deal at the bounds of its series, a document with all
its intents and versions used, a published deal without further amendments, a
job that has ended.

Fairness.  `WF_vars(Step(r))` for each slot: Node resumes every pending promise,
and a statement sent to the database returns or fails.  Nothing is assumed of
clients (`Call`, `Arrive`) nor of crashes.  `LockTakesEffect` holds in
`DealRelock`, where `Crashes = FALSE`; with crashes it fails, because no code
repeats the hooks.  `CustodyLedger` assumes `WF_vars(Step(c))` for each handler
for the same reason; failing attempts and crashes are not assumed.
`DocumentIngest` adds one `WF_vars` for the workers together: while jobs wait or
are under way, some job gets on.  No order among jobs is assumed.
`PackageJobs` assumes that the request and each run go on, that the queue delivers
what waits, and that it notices the stall of a run that has died; that it takes a
slow run for a stalled one is possible, and not assumed.  Where a handler may be
cut short, a history variable (`stranded`, `cut`) says so, and the leads-to
property ends in it: what the code promises holds for the rest.  `AuditChain` and
`DealWorkflow` have no liveness property: clients alone bring them on.

## Proofs

TLAPS checks `DealLifecycleProofs` for any number of slots, contracts, hold rows,
any operations, and with or without crashes.

`Inductive` (in `DealLifecycle`) is the inductive invariant.  The safety
properties alone are not inductive: that a locked deal has a verified contract
depends on what a handler has established before it writes LOCKED, perhaps long
before, and with other handlers between.  `Inductive` adds

- `Fits`: per handler, what holds at its program point: past the lock guard there
  is a verified contract; on a hook that names a contract, the contract is
  verified; an inserted contract that is not committed has an id of its own;
- `Verdicts`: the ids in use, and that a verdict agrees with `matching`.  This is
  why a verdict is final even though a judged contract may be judged again.

The argument rests on monotonicity: `Verified` only grows
(`VerifiedGrows`), which in turn needs that `CommitContract` writes a fresh id
and that `Judge` writes what `matching` determines.  Each action then preserves
each part; the engine's and the hooks' steps are lemmas of their own.

| theorem | property |
|---|---|
| `InductiveHolds` | `Inductive` |
| `TypeCorrect` | `TypeOK` |
| `SealedDealsAreVerified` | `SealedHasVerified` |
| `LockArtifactsAreVerified` | `ArtifactsAreVerified` |
| `RejectionsBlock` | `RejectionStaysOpen` |
| `VerdictsAreFinal` | `VerdictIsFinal` |
| `SettledLocksAreRecorded` | `SettledLockIsRecorded`, assuming `~Crashes` |
| `EvidenceImplemented` | `ImplementsEvidence` |

`ArtifactsAreVerified` is in no run: `ImplementsEvidence` says it in its place.
The refinement needs, beside `Inductive`, that the hooks of a lock come one after
the other: `EffectsInOrder` says that a handler past the seal finds a seal, and a
handler past the record finds a record, also when another handler wrote it.  Each
action then maps to one step of `DealEvidence` or to a stutter (`EvidenceStep`).

`SettledLocksAreRecorded` uses another invariant, `Recorded`: a deal that is locked, or that
a handler has read as locked, is recorded or some handler is recording it.  It
needs `~Crashes`: nothing repeats the hooks of a handler that died.

`DealSerialProofs` assumes one slot (`Requests = {r}`) and nothing else: any number
of contracts and holds, any operations and targets, with and without crashes.  Its
invariant `Serial` adds two parts to `Inductive`: `Current`, that what the handler
has read and checked by its next statement is still so (the state, the row of the
table, the holds, the discrepancies, the guard of its goal, the state a verdict
asks for), and `Alone`, that one contract is authoritative at most.  `StateWrites`
then says which statements write the state and what holds when they do; the
action properties follow from it.  `ExecutedNeedsAnotherRound` is the one that
nobody asks for: the table has no way from `EXECUTED` to the state in which
contracts are submitted and verified, so a deal that was moved to `EXECUTED` by
hand goes on by a discrepancy or a hold only.  With two slots `Current` is not invariant: `DealGuardRace` is the
example.

| theorem | property |
|---|---|
| `SerialHolds` | `Serial` |
| `OneAuthoritativeWhenSerial` | `AtMostOneAuthoritative` |
| `MovesSanctionedWhenSerial` | `StateMovesAreSanctioned` |
| `LocksGuardedWhenSerial` | `LocksUnderItsGuards` |
| `ClearancesGuardedWhenSerial` | `ClearsUnderItsGuards` |
| `HoldsSupersedeWhenSerial` | `HoldsSupersedeProgression` |
| `ExecutedGoesBackWhenSerial` | `ExecutedNeedsAnotherRound` |

`AuditChainProofs`, for any number of calls, instances and contents and any
behaviour of the clocks.  The invariant adds to the properties that only the
holder of the lock is past it, and that what it has read is still the hash of a
last row, since no other call can insert meanwhile.  `ChainIsLinear` then needs
that in an ordered table the last row is the only one `Latest` allows, and
`HashesCoverHistory` that the beginnings of a new hash are those of the one it
extends (`HashBeginnings`).  `OneTree` (one genesis row, every other row continues
an earlier one) is part of the invariant and no longer checked by a run of its
own.

| theorem | property |
|---|---|
| `TypeCorrect` | `TypeOK` |
| `ChainIsLinear` | `LinearWhenOrdered` |
| `ChainIsOneTree` | `OneTree` |
| `HashesCoverHistory` | `HashCoversHistory` |

`CustodyLedgerProofs`, for any number of commands, attempts, failures and
crashes.  The invariant adds that the events in the hands of handlers are in the
journal and differ from one another, and that a handler about to write has read
a version not greater than the number of rows, and its event has no row: this is
what an overwritten projection still guarantees.  The last theorem assumes one
command at a time and uses a second invariant, `Current`: what was read is what
there is, and the projection is the summary of the rows.

| theorem | property |
|---|---|
| `TypeCorrect` | `TypeOK` |
| `RowsStayInLedger` | `RowsAreInLedger` |
| `NoEventCountsTwice` | `NeverOvercounted` |
| `RecordImplemented` | `ImplementsRecord`, assuming that any two calls are the same |

`DealWorkflowProofs`, for any number of requests and any bounds.  A request in
flight checked the status long ago, so each proof must say what that check still
means at the commit.  `Story` says it: the milestones a request in flight relies
on are recorded, and milestones are never taken back, so a stale write still
lands on a status its events account for.  `Typed` adds that each series has a
greatest number, which `nextDocVersion` chooses.  The refinement is one step per operation: it records a milestone whose needs
are recorded, or one that is recorded already.

| theorem | property |
|---|---|
| `WorkflowTypeCorrect` | `TypeOK` |
| `StatusAlwaysDocumented` | `StatusIsDocumented` |
| `WorkflowImplementsMilestones` | `ImplementsMilestones` |
| `ReviewFlagsAlwaysAgree` | `ReviewFlagsAgree` |
| `PackageHashAlwaysAgrees` | `PackageHashAgrees` |
| `LockedSeriesAlwaysNumbered` | `LockedSeriesAreNumbered` |
| `FundedDealsStay` | `FundingIsFinal` |

`DocumentIngestProofs`, for any number of requests, intents, versions and
failures.  The invariant is in layers.  `Typed`: what a request has read, by its
place.  `Numbered`: the numbers below that of a request are taken, which makes the
unique index enough.  `Stored`: a request about to add its row has copied the
object.  The theorems that assume a single slot add that what the request read is
still so, its digest included unless the upload is one of the `replaced`.  A
`Put` never touches an archived object, so a version keeps the object it was
listed with (`ListedObjectsStay`), and only an upload that is no version yet becomes
`replaced` (`ReplacedIsNoVersion`).  The refinement of `VersionHistory` puts these
together: a row that is added follows the others (`AddedFollows`), and what is
copied is not yet listed.
With two slots TLC refutes it, along the path of `DocumentOverwrite`; the
numbering alone survives the race and is proved for any number of slots.

| theorem | property |
|---|---|
| `IngestTypeCorrect` | `TypeOK` |
| `VersionsStayGapless` | `GaplessVersions` |
| `ObjectsComeFirst` | `StoredBeforeListed` |
| `BlobsMatchWhenSerial` | `BlobsMatchRows`, assuming that any two slots are the same |
| `UploadsNewWhenSerial` | `UploadsAreNew`, assuming that any two slots are the same |
| `NumberingImplemented` | `ImplementsNumbering` |
| `HistoryImplemented` | `ImplementsHistory`, assuming one slot |

`GaplessVersions`, `StoredBeforeListed`, `UploadsAreNew` and `ImplementsNumbering`
are in no run: `ImplementsHistory` says as much of one slot, and for two and
more, where the unique index decides, the theorems are the evidence.
`BlobsMatchRows` is in the run that violates it with two.

`ClosingPackageProofs`, for any finite number of requests and amendments.  `Typed`
is the first layer.  `Traced` adds what each request carries, and that the
assignments recorded and the requests that have endorsed but not yet recorded are
together at most the transfers: a count over the slots, which is why they must
be finite.  `Settled` adds that, unless something was overtaken, what a request has
read is still so; what an extraction carries is the vehicle agreed on or `AsRead`.  The refinement of `ContractTitle` needs no more than `Traced`: an
assignment is recorded by a request that has endorsed, which the count says is
one more than was recorded.

| theorem | property |
|---|---|
| `PackageTypeCorrect` | `TypeOK` |
| `RecordAlwaysTraceable` | `RecordIsTraceable` |
| `SettledDealsAlwaysAgree` | `SettledDealsAgree` |
| `TitleImplemented` | `ImplementsTitle` |

`PackageJobsProofs`, for any number of formats, redeliveries and changes.  `Backed`
adds to the types what each run has committed by the statement it is about to
issue; `Stored` adds that without overlapping runs only the current run works,
and that the keys below its own hold what it has read.  The refinement of
`PackageRecord` adds two small layers: `Loaded`, a run works on a state the deal
was in, and `Requested`, what the request has done by its next statement.

| theorem | property |
|---|---|
| `JobsTypeCorrect` | `TypeOK` |
| `PackagesAlwaysTraceable` | `PackageIsTraceable` |
| `PackageRecordImplemented` | `ImplementsPackage` |

Six abstract specifications are implemented, each by a theorem: `DealEvidence`,
`CustodyRecord`, `DealMilestones`, `VersionHistory`, `ContractTitle` and
`PackageRecord`.  Four of them hold however handlers overlap; `CustodyRecord` and
`VersionHistory` only with one at a time, which is what the code gets wrong.

Only model-checked: the leads-to properties, since liveness is out of the
prover's reach: `LockTakesEffect`, `EveryEventIsProjected`, `ValidationEnds`,
`HandlersFinish` and `JobsEnd`.  Every invariant, action property and refinement
that a passing run checks has a theorem.  Not proved, because it is data: that a
SHA-256 stands for its content and a chain hash for its events.

## Not modelled

- Generated Prisma clients, React pages, seeds and migrations are most of the
  lines of the repository.  They hold no behaviour of the services; the schema's
  unique keys, defaults and enums are used where a model needs them.
- Renderer, analytics and read models are functions of data; authentication and
  rate limits guard the entrance only.
- Lender evaluation, overrides and approvals are unconditional updates of single
  rows; the embodiment is one transaction.  Their hazards are listed without a
  property.
- Invoices and Stripe's events: a chain of single statements without shared state
  beyond the usage events.
- Post-funding items are one summary and are built and patched in one step, so
  the race of two rebuilds is listed without a property.
- A profile's row version only ends a call.
- The connection pool: handlers that call the engine inside an open transaction
  hold one connection and wait for a second.
- Loan pools of the web application, which read what `ClosingPackage` leaves in
  `transfers` and `forSale`.
- In the web workflow: the alerts and the orchestrator of its language model,
  which only refuse a request or move a deal between statuses every guard treats
  alike.  Nothing in the program writes `RISC_UNSIGNED_REVIEW`,
  `MOCKUP_SUBMITTED`, `BUYER_REAUTH_PENDING`, `AUTHORIZED_FOR_STRUCTURING` or
  `CONSUMMATED`.

## Plan

Done: the deal's life cycle, the audit chain, the custody ledger, the web
workflow with its milestones, the ingest, the closing package, the package jobs;
proofs of the safety properties of each, and of the refinement of an abstract
specification for all but the audit chain.  Worth adding, in this order:

1. `DealAtomic`, each operation one step, implemented by `DealLifecycle` with one
   slot; the refinement proved from `Serial`.
2. That `DealWorkflow` and `ClosingPackage`, which share the contract and its
   seals, agree where one deal passes from the first to the second.
3. `LoanPools`, composed with the transfers of `ClosingPackage`.
4. `PostFunding` item by item with due dates, `Embodiment`, and the versions of
   profile rows.
5. `Invoicing`: usage events, drafts, Stripe's events in any order.
6. `ConnectionPool`, with the deadlock that lasts until the timeout.
