--------------------------- MODULE DealLifecycle ---------------------------
(***************************************************************************)
(* One deal (a Transaction row with the rows that hang off it) and the     *)
(* HTTP handlers that work on it at the same time.                         *)
(*                                                                         *)
(* Every handler of apps/api is a chain of awaited database statements:    *)
(* between two of them any other handler may run, in this process or in    *)
(* another instance.  A request slot holds one running handler; its field  *)
(* pc names the statement it is about to issue.  A step is one statement,  *)
(* or one Prisma $transaction, or a run of reads of which only the last    *)
(* can change the outcome.  With a single slot the handlers run one at a   *)
(* time.                                                                   *)
(***************************************************************************)
EXTENDS DealStates, Integers, FiniteSets

CONSTANTS
  Requests,     \* slots for handlers that run at the same time
  MaxContracts, \* bound: executed contracts ever inserted
  TxHolds,      \* hold rows that name the deal
  OrgHolds,     \* hold rows that name its organisation (the sets may overlap)
  Operations,   \* the operations the clients use, a subset of AllOperations
  Targets,      \* the states clients ask for
  Crashes       \* a handler may be cut short: crash, lost connection, timeout

AllOperations ==
  {"transition", "clearance", "patch", "submit", "verify", "hold", "release",
   "rebuild", "task", "rule", "postfunding"}

ASSUME MaxContractsAssumption == MaxContracts \in Nat
ASSUME OperationsAssumption == Operations \subseteq AllOperations
ASSUME TargetsAssumption == Targets \subseteq TransactionState
ASSUME CrashesAssumption == Crashes \in BOOLEAN

VARIABLES
  state,         \* Transaction.state
  hold,          \* the Hold rows, placed and released by an administrator
  disc,          \* there is an open Discrepancy row: nothing resolves one
  contract,      \* ExecutedContract.verificationStatus, ids in creation order
  nextContract,  \* the next id
  matching,      \* contracts whose document carries no other deal's reference
  authoritative, \* contracts with ExecutedContract.authoritative
  sealed,        \* contracts with lockedAt; some are when the agreement is
  record,        \* the contract the GoverningRecord was built from, 0: no row
  billed,        \* the DEAL_SEALED usage event exists
  blockers,      \* the blocking CompletionTask rows
  pf,            \* the blocking PostFundingItem rows
  req            \* the running handlers

artifacts == <<sealed, record, billed>>
contracts == <<contract, nextContract, matching, authoritative>>
work == <<disc, blockers, pf>>
vars == <<state, hold, contracts, artifacts, work, req>>

Holds == TxHolds \cup OrgHolds
Contracts == 1..MaxContracts

\* Rows that block something: there are none, one is outstanding, all are done.
Progress == {"none", "outstanding", "clear"}

EnginePCs == {"read", "holdcheck", "guard", "lockguard", "fundguard", "commit"}
HookPCs == {"lockread", "seal", "recordread", "recordcreate", "recordupdate",
            "rebuildread", "rebuilddelete", "rebuildcommit", "usage"}
OtherPCs == {"idle", "patchwrite", "reeval", "clearauth", "createec",
             "commitec", "verdict", "holdstate", "releasestate"}
PCs == EnginePCs \cup HookPCs \cup OtherPCs

\* A handler: its next statement, its operation, the Transaction.state it has
\* read, the state it wants, a contract, and for a rebuild the task kinds it is
\* about to write and those committed by others since its delete statement.
Handler == [pc: PCs, op: AllOperations,
            seen: TransactionState, goal: TransactionState,
            ec: 0..MaxContracts,
            keys: SUBSET TaskKeys, clash: SUBSET TaskKeys]

Rest == [pc |-> "idle", op |-> "transition", seen |-> "DRAFT",
         goal |-> "DRAFT", ec |-> 0, keys |-> {}, clash |-> {}]

Verified == {c \in Contracts : contract[c] = "VERIFIED"}
ActiveHold == \E h \in Holds : hold[h] = "active"

Init ==
  /\ state = "DRAFT"
  /\ hold = [h \in Holds |-> "unused"]
  /\ disc = FALSE
  /\ contract = [c \in Contracts |-> "none"]
  /\ nextContract = 1
  /\ matching = {}
  /\ authoritative = {}
  /\ sealed = {}
  /\ record = 0
  /\ billed = FALSE
  /\ blockers = "none"
  /\ pf = "none"
  /\ req = [r \in Requests |-> Rest]

-----------------------------------------------------------------------------
\* Control flow of a handler.

At(r, pc) == req[r].pc = pc
Goto(r, pc) == req' = [req EXCEPT ![r].pc = pc]

\* The handler answers, with success or with an error.
Finish(r) == req' = [req EXCEPT ![r] = Rest]

\* An idle slot takes up a call and first works on fields f.
Begin(r, op, f) ==
  /\ At(r, "idle")
  /\ op \in Operations
  /\ req' = [req EXCEPT ![r] = f]

\* A call that is over after its one statement.
Atomic(r, op) ==
  /\ At(r, "idle")
  /\ op \in Operations
  /\ UNCHANGED req

-----------------------------------------------------------------------------
(* The state engine: transitionTransaction and its guards. *)

\* The roles the routes let through, for each operation that ends in the engine.
RouteRoles(op) ==
  CASE op = "transition" -> DealTeam
    [] op \in {"clearance", "submit"} -> Desk
    [] OTHER -> Control

\* Seeded fault: the rows of the table are not looked up.
StartTransitionUnlisted(r, to) ==
  /\ Begin(r, "transition", [Rest EXCEPT !.pc = "holdcheck", !.seen = state,
                                         !.goal = to])
  /\ UNCHANGED <<state, hold, contracts, artifacts, work>>

\* POST .../transition, /lock and /approve: the engine's first read, with the
\* table and the role.  A call the table refuses changes nothing.
StartTransition(r, to) ==
  /\ \E role \in RouteRoles("transition") : RoleCanUse(state, to, role)
  /\ Begin(r, "transition", [Rest EXCEPT !.pc = "holdcheck", !.seen = state,
                                         !.goal = to])
  /\ UNCHANGED <<state, hold, contracts, artifacts, work>>

\* completeFinalClearance: the conditions of the view, then the engine.
StartClearance(r) ==
  /\ state \in {"POST_FUNDING_PENDING", "COMPLETED"}
  /\ ~disc /\ pf # "outstanding" /\ ~ActiveHold
  /\ Begin(r, "clearance", [Rest EXCEPT !.pc = "read", !.op = "clearance",
                                        !.goal = "GREEN_STAGE_2"])
  /\ UNCHANGED <<state, hold, contracts, artifacts, work>>

\* The engine's first read when another handler calls it.
EngineRead(r) ==
  /\ At(r, "read")
  /\ \E role \in RouteRoles(req[r].op) :
       IF RoleCanUse(state, req[r].goal, role)
         THEN req' = [req EXCEPT ![r].pc = "holdcheck", ![r].seen = state]
         ELSE Finish(r)
  /\ UNCHANGED <<state, hold, contracts, artifacts, work>>

\* Seeded fault: only rows that name the deal are looked up.
HoldsAllowIgnoringOrg(r) ==
  /\ \A h \in TxHolds : hold[h] # "active"
  /\ state = "HOLD" => req[r].seen = "HOLD" /\ req[r].goal = "DRAFT"

\* assertNoActiveHold, which reads the state afresh; only a move from HOLD to
\* DRAFT is let out of the frozen state, and no active row lets anything out.
HoldsAllow(r) ==
  /\ ~ActiveHold
  /\ state = "HOLD" => req[r].seen = "HOLD" /\ req[r].goal = "DRAFT"

CheckHolds(r) ==
  /\ At(r, "holdcheck")
  /\ IF ~HoldsAllow(r)
       THEN Finish(r)
       ELSE Goto(r, IF req[r].op = "patch" THEN "patchwrite" ELSE "guard")
  /\ UNCHANGED <<state, hold, contracts, artifacts, work>>

\* getTransitionBlockReason up to the discrepancies.  The governing agreement
\* is inserted with the deal, so its guard never fails.
CheckDiscrepancies(r) ==
  /\ At(r, "guard")
  /\ IF disc /\ ~BypassesDiscrepancyGuard(req[r].seen, req[r].goal)
       THEN Finish(r)
       ELSE Goto(r, CASE req[r].goal = "LOCKED" -> "lockguard"
                      [] req[r].goal = "GREEN_STAGE_2" -> "fundguard"
                      [] OTHER -> "commit")
  /\ UNCHANGED <<state, hold, contracts, artifacts, work>>

\* Seeded fault: the instrument is not looked up.
CheckLockUnverified(r) ==
  /\ At(r, "lockguard")
  /\ IF blockers # "outstanding" THEN Goto(r, "commit") ELSE Finish(r)
  /\ UNCHANGED <<state, hold, contracts, artifacts, work>>

\* A verified instrument and no outstanding blocker task, before LOCKED.
CheckLock(r) ==
  /\ At(r, "lockguard")
  /\ IF Verified # {} /\ blockers # "outstanding"
       THEN Goto(r, "commit")
       ELSE Finish(r)
  /\ UNCHANGED <<state, hold, contracts, artifacts, work>>

\* Seeded fault: obligations are not looked up.
CheckFundingNever(r) ==
  /\ At(r, "fundguard")
  /\ Goto(r, "commit")
  /\ UNCHANGED <<state, hold, contracts, artifacts, work>>

\* No outstanding blocking obligation, before GREEN_STAGE_2.
CheckFunding(r) ==
  /\ At(r, "fundguard")
  /\ IF pf # "outstanding" THEN Goto(r, "commit") ELSE Finish(r)
  /\ UNCHANGED <<state, hold, contracts, artifacts, work>>

\* Seeded fault: the hooks are not called after a lock.
CommitWithoutHooks(r) ==
  /\ At(r, "commit")
  /\ state' = req[r].goal
  /\ IF req[r].op = "submit" THEN Goto(r, "commitec") ELSE Finish(r)
  /\ UNCHANGED <<hold, contracts, artifacts, work>>

\* The update has no condition on the state it replaces.  The caller then goes
\* on: with the hooks after LOCKED, with the open insert of a submit.
Commit(r) ==
  /\ At(r, "commit")
  /\ state' = req[r].goal
  /\ IF req[r].op = "transition" /\ req[r].goal = "LOCKED"
       THEN Goto(r, "lockread")
       ELSE IF req[r].op = "submit" THEN Goto(r, "commitec") ELSE Finish(r)
  /\ UNCHANGED <<hold, contracts, artifacts, work>>

-----------------------------------------------------------------------------
(* onDealStateSettled, after LOCKED: seal, record, tasks, billing. *)

\* Seeded fault: the query lacks its condition on the verification status.
ReadAcceptedAny(r) ==
  /\ At(r, "lockread")
  /\ \E c \in Contracts :
       /\ contract[c] # "none"
       /\ req' = [req EXCEPT ![r].pc = "seal", ![r].ec = c]
  /\ UNCHANGED <<state, hold, contracts, artifacts, work>>

\* Some verified contract, in no stated order.
ReadAccepted(r) ==
  /\ At(r, "lockread")
  /\ IF Verified = {}
       THEN Goto(r, "rebuildread")
       ELSE \E c \in Verified :
              req' = [req EXCEPT ![r].pc = "seal", ![r].ec = c]
  /\ UNCHANGED <<state, hold, contracts, artifacts, work>>

\* Seeded fault: the governing record is left out.
SealOnly(r) ==
  /\ At(r, "seal")
  /\ sealed' = sealed \cup {req[r].ec}
  /\ Goto(r, "rebuildread")
  /\ UNCHANGED <<state, hold, contracts, record, billed, work>>

Seal(r) ==
  /\ At(r, "seal")
  /\ sealed' = sealed \cup {req[r].ec}
  /\ Goto(r, "recordread")
  /\ UNCHANGED <<state, hold, contracts, record, billed, work>>

\* The newest verified contract, and whether a record exists.
ReadRecord(r) ==
  /\ At(r, "recordread")
  /\ \E c \in Verified :
       /\ \A d \in Verified : d <= c
       /\ req' = [req EXCEPT
            ![r].pc = IF record = 0 THEN "recordcreate" ELSE "recordupdate",
            ![r].ec = c]
  /\ UNCHANGED <<state, hold, contracts, artifacts, work>>

\* transactionId is unique in GoverningRecord: the loser of a race fails and
\* with it the rest of its hooks.
CreateRecord(r) ==
  /\ At(r, "recordcreate")
  /\ IF record = 0
       THEN record' = req[r].ec /\ Goto(r, "rebuildread")
       ELSE Finish(r) /\ UNCHANGED record
  /\ UNCHANGED <<state, hold, contracts, sealed, billed, work>>

UpdateRecord(r) ==
  /\ At(r, "recordupdate")
  /\ record' = req[r].ec
  /\ Goto(r, "rebuildread")
  /\ UNCHANGED <<state, hold, contracts, sealed, billed, work>>

\* The idempotency key of the usage event is unique: a second insert fails.
RecordUsage(r) ==
  /\ At(r, "usage")
  /\ billed' = TRUE
  /\ Finish(r)
  /\ UNCHANGED <<state, hold, contracts, sealed, record, work>>

-----------------------------------------------------------------------------
(* rebuildCompletionProtocol: after a lock, after a lender run, on demand. *)

StartRebuild(r) ==
  /\ Begin(r, "rebuild", [Rest EXCEPT !.pc = "rebuildread", !.op = "rebuild"])
  /\ UNCHANGED <<state, hold, contracts, artifacts, work>>

\* The task kinds to write; lender lines and documents live in other modules.
Seeds(evidence) ==
  SeedsFromState(state) \cup evidence
    \cup (IF disc THEN {"discrepancy"} ELSE {})
    \cup (IF pf # "none" THEN {"post_funding"} ELSE {})

ReadSeeds(r) ==
  /\ At(r, "rebuildread")
  /\ \E evidence \in SUBSET {"evidence"} :
       req' = [req EXCEPT ![r].pc = "rebuilddelete",
                          ![r].keys = Seeds(evidence)]
  /\ UNCHANGED <<state, hold, contracts, artifacts, work>>

\* deleteMany does not see rows that are committed after it starts.
DeleteTasks(r) ==
  /\ At(r, "rebuilddelete")
  /\ Goto(r, "rebuildcommit")
  /\ UNCHANGED <<state, hold, contracts, artifacts, work>>

\* The inserts collide on (transactionId, key) with rows the delete missed:
\* the rebuild throws, and the hooks after it do not run.
Clashes(r) == req[r].clash \cap req[r].keys # {}

\* The outcome of a rebuild that commits.
Rebuilt(r) ==
  IF req[r].keys \cap BlockerTasks # {} THEN "outstanding"
  ELSE IF req[r].clash = {} THEN "none" ELSE blockers

\* Seeded fault: the hooks end here when something is left to do.
WriteTasksEndingHooks(r) ==
  /\ At(r, "rebuildcommit")
  /\ ~Clashes(r)
  /\ blockers' = Rebuilt(r)
  /\ IF req[r].op = "transition" /\ blockers' # "outstanding"
       THEN Goto(r, "usage") ELSE Finish(r)
  /\ UNCHANGED <<state, hold, contracts, artifacts, disc, pf>>

WriteTasks(r) ==
  /\ At(r, "rebuildcommit")
  /\ ~Clashes(r)
  /\ blockers' = Rebuilt(r)
  /\ req' = [q \in Requests |->
       IF q = r
         THEN IF req[r].op = "transition"
                THEN [req[r] EXCEPT !.pc = "usage"] ELSE Rest
         ELSE IF At(q, "rebuildcommit")
                THEN [req[q] EXCEPT !.clash = @ \cup req[r].keys]
                ELSE req[q]]
  /\ UNCHANGED <<state, hold, contracts, artifacts, disc, pf>>

FailTasks(r) ==
  /\ At(r, "rebuildcommit")
  /\ Clashes(r)
  /\ Finish(r)
  /\ UNCHANGED <<state, hold, contracts, artifacts, work>>

\* patchCompletionTask: any status, in any state, back and forth.
PatchTask(r) ==
  /\ Atomic(r, "task")
  /\ blockers # "none"
  /\ blockers' \in {"outstanding", "clear"}
  /\ UNCHANGED <<state, hold, contracts, artifacts, disc, pf>>

-----------------------------------------------------------------------------
(* Buyer, vehicle and financial edits. *)

\* loadTxOrThrow: the state is read once and used to the end.
StartPatch(r) ==
  /\ state \notin NO_PATCH_STATES
  /\ Begin(r, "patch", [Rest EXCEPT !.pc = "holdcheck", !.op = "patch",
                                    !.seen = state])
  /\ UNCHANGED <<state, hold, contracts, artifacts, work>>

\* A version conflict ends the call; a material edit demotes the state read at
\* the start, with an unconditional update.
WritePatch(r) ==
  /\ At(r, "patchwrite")
  /\ \/ Finish(r) /\ UNCHANGED state
     \/ Goto(r, "reeval") /\ UNCHANGED state
     \/ /\ req[r].seen \in Demotable
        /\ state' = Demoted(req[r].seen)
        /\ Goto(r, "reeval")
  /\ UNCHANGED <<hold, contracts, artifacts, work>>

\* runFullRuleReevaluation: some active rule may fail.
Reevaluate(r) ==
  /\ At(r, "reeval")
  /\ disc' \in {disc, TRUE}
  /\ Finish(r)
  /\ UNCHANGED <<state, hold, contracts, artifacts, blockers, pf>>

\* POST /rules/:id/evaluations with outcome FAIL.
FailRule(r) ==
  /\ Atomic(r, "rule")
  /\ disc' = TRUE
  /\ UNCHANGED <<state, hold, contracts, artifacts, blockers, pf>>

-----------------------------------------------------------------------------
(* Submitting and verifying the executed instrument. *)

StartSubmit(r) ==
  /\ state \in PRE_EXECUTION_STATES
  /\ Begin(r, "submit", [Rest EXCEPT !.pc = "clearauth", !.op = "submit",
                           !.seen = state,
                           !.goal = "EXECUTED_PENDING_VERIFICATION"])
  /\ UNCHANGED <<state, hold, contracts, artifacts, work>>

\* Seeded fault: the earlier contracts keep their flag.
ClearAuthoritativeNever(r) ==
  /\ At(r, "clearauth")
  /\ Goto(r, "createec")
  /\ UNCHANGED <<state, hold, contracts, artifacts, work>>

\* Outside the transaction that inserts the new contract.
ClearAuthoritative(r) ==
  /\ At(r, "clearauth")
  /\ authoritative' = {}
  /\ Goto(r, "createec")
  /\ UNCHANGED <<state, hold, contract, nextContract, matching, artifacts, work>>

\* Seeded fault: the bound is passed by one.
CreateContractPastBound(r) ==
  /\ At(r, "createec")
  /\ nextContract' = nextContract + 1
  /\ req' = [req EXCEPT ![r].ec = nextContract, ![r].pc = "commitec"]
  /\ UNCHANGED <<state, hold, contract, matching, authoritative, artifacts, work>>

\* Seeded fault: the id of the last contract is given out again.
CreateContractAgain(r) ==
  /\ At(r, "createec")
  /\ nextContract \in Contracts
  /\ req' = [req EXCEPT
       ![r].ec = nextContract,
       ![r].pc = IF req[r].seen \in {"GREEN_STAGE_1", "APPROVED"}
                   THEN "read" ELSE "commitec"]
  /\ UNCHANGED <<state, hold, contracts, artifacts, work>>

\* The insert is not visible before the transaction commits; inside it the
\* engine moves the deal on another connection.  At the bound the insert fails.
CreateContract(r) ==
  /\ At(r, "createec")
  /\ IF nextContract \notin Contracts
       THEN Finish(r) /\ UNCHANGED nextContract
       ELSE /\ nextContract' = nextContract + 1
            /\ req' = [req EXCEPT
                 ![r].ec = nextContract,
                 ![r].pc = IF req[r].seen \in {"GREEN_STAGE_1", "APPROVED"}
                             THEN "read" ELSE "commitec"]
  /\ UNCHANGED <<state, hold, contract, matching, authoritative, artifacts, work>>

\* Whether the document carries the deal's reference is settled for good.
CommitContract(r) ==
  /\ At(r, "commitec")
  /\ contract' = [contract EXCEPT ![req[r].ec] = "PENDING"]
  /\ authoritative' = authoritative \cup {req[r].ec}
  /\ \E match \in SUBSET {req[r].ec} : matching' = matching \cup match
  /\ Finish(r)
  /\ UNCHANGED <<state, hold, nextContract, artifacts, work>>

\* The caller names any contract of the deal, judged before or not.
StartVerify(r, c) ==
  /\ state = "EXECUTED_PENDING_VERIFICATION"
  /\ contract[c] # "none"
  /\ Begin(r, "verify", [Rest EXCEPT !.pc = "verdict", !.op = "verify",
                           !.seen = state, !.ec = c,
                           !.goal = "DISCREPANCY_RESTRICTED"])
  /\ UNCHANGED <<state, hold, contracts, artifacts, work>>

\* Seeded fault: a rejection opens no discrepancy.
JudgeSilently(r) ==
  /\ At(r, "verdict")
  /\ contract' = [contract EXCEPT ![req[r].ec] =
                    IF req[r].ec \in matching THEN "VERIFIED" ELSE "REJECTED"]
  /\ Finish(r)
  /\ UNCHANGED <<state, hold, nextContract, matching, authoritative, artifacts,
                 work>>

\* The verdict is written in one transaction; after a failed comparison the
\* engine is called, and may refuse.
Judge(r) ==
  /\ At(r, "verdict")
  /\ IF req[r].ec \in matching
       THEN /\ contract' = [contract EXCEPT ![req[r].ec] = "VERIFIED"]
            /\ Finish(r)
            /\ UNCHANGED disc
       ELSE /\ contract' = [contract EXCEPT ![req[r].ec] = "REJECTED"]
            /\ disc' = TRUE
            /\ Goto(r, "read")
  /\ UNCHANGED <<state, hold, nextContract, matching, authoritative, artifacts,
                 blockers, pf>>

-----------------------------------------------------------------------------
(* Administrative holds, and post-funding obligations. *)

PlaceHold(r, h) ==
  /\ hold[h] = "unused"
  /\ hold' = [hold EXCEPT ![h] = "active"]
  /\ IF h \in TxHolds
       THEN Begin(r, "hold", [Rest EXCEPT !.pc = "holdstate", !.op = "hold"])
       ELSE Atomic(r, "hold")
  /\ UNCHANGED <<state, contracts, artifacts, work>>

\* From any state: neither the table nor the guards are asked.
FreezeState(r) ==
  /\ At(r, "holdstate")
  /\ state' = "HOLD"
  /\ Finish(r)
  /\ UNCHANGED <<hold, contracts, artifacts, work>>

\* A row that was released before may be released again.
ReleaseHold(r, h) ==
  /\ hold[h] # "unused"
  /\ hold' = [hold EXCEPT ![h] = "released"]
  /\ IF h \in TxHolds
       THEN Begin(r, "release",
                  [Rest EXCEPT !.pc = "releasestate", !.op = "release"])
       ELSE Atomic(r, "release")
  /\ UNCHANGED <<state, contracts, artifacts, work>>

\* The one state write with a condition: updateMany where state is HOLD.
ThawState(r) ==
  /\ At(r, "releasestate")
  /\ state' = IF state = "HOLD" THEN "DRAFT" ELSE state
  /\ Finish(r)
  /\ UNCHANGED <<hold, contracts, artifacts, work>>

\* rebuildPostFundingObligations and patchPostFundingObligation, each as one
\* step; items that exist are left alone.
BuildPostFunding(r) ==
  /\ Atomic(r, "postfunding")
  /\ state \in PostLock
  /\ pf' = IF pf = "none" THEN "outstanding" ELSE pf
  /\ UNCHANGED <<state, hold, contracts, artifacts, disc, blockers>>

PatchPostFunding(r) ==
  /\ Atomic(r, "postfunding")
  /\ pf # "none"
  /\ pf' \in {"outstanding", "clear"}
  /\ UNCHANGED <<state, hold, contracts, artifacts, disc, blockers>>

-----------------------------------------------------------------------------
\* The process dies, the connection is lost, or Prisma's five seconds for an
\* interactive transaction are over: what is committed stays, the rest is lost.
Abort(r) ==
  /\ Crashes
  /\ ~At(r, "idle")
  /\ Finish(r)
  /\ UNCHANGED <<state, hold, contracts, artifacts, work>>

\* A client's call arrives.
Call(r) ==
  \/ \E to \in Targets : StartTransition(r, to)
  \/ StartClearance(r) \/ StartPatch(r) \/ StartSubmit(r) \/ StartRebuild(r)
  \/ \E c \in Contracts : StartVerify(r, c)
  \/ \E h \in Holds : PlaceHold(r, h) \/ ReleaseHold(r, h)
  \/ PatchTask(r) \/ FailRule(r) \/ BuildPostFunding(r) \/ PatchPostFunding(r)

\* A running handler issues its next statement.
Step(r) ==
  \/ EngineRead(r) \/ CheckHolds(r) \/ CheckDiscrepancies(r) \/ CheckLock(r)
  \/ CheckFunding(r) \/ Commit(r)
  \/ ReadAccepted(r) \/ Seal(r) \/ ReadRecord(r) \/ CreateRecord(r)
  \/ UpdateRecord(r) \/ RecordUsage(r)
  \/ ReadSeeds(r) \/ DeleteTasks(r) \/ WriteTasks(r) \/ FailTasks(r)
  \/ WritePatch(r) \/ Reevaluate(r)
  \/ ClearAuthoritative(r) \/ CreateContract(r) \/ CommitContract(r) \/ Judge(r)
  \/ FreezeState(r) \/ ThawState(r)

Next == \E r \in Requests : Call(r) \/ Step(r) \/ Abort(r)

\* Node runs every pending continuation: a handler that is not cut short goes
\* on.  Nobody has to call.
Fairness == \A r \in Requests : WF_vars(Step(r))

Spec == Init /\ [][Next]_vars /\ Fairness

-----------------------------------------------------------------------------
(* Properties. *)

\* Every variable has its type; every handler works on values of the schema.
TypeOK ==
  /\ state \in TransactionState
  /\ hold \in [Holds -> {"unused", "active", "released"}]
  /\ disc \in BOOLEAN
  /\ contract \in [Contracts -> {"none", "PENDING", "VERIFIED", "REJECTED"}]
  /\ nextContract \in 1..(MaxContracts + 1)
  /\ matching \subseteq Contracts
  /\ authoritative \subseteq Contracts
  /\ sealed \subseteq Contracts
  /\ record \in Contracts \cup {0}
  /\ billed \in BOOLEAN
  /\ blockers \in Progress
  /\ pf \in Progress
  /\ req \in [Requests -> Handler]

\* However handlers interleave or die, a deal that is locked, or has moved on
\* from LOCKED, has a verified executed contract: no stale read, later verdict
\* or demotion can take it away (getTransitionBlockReason, verifyExecution).
SealedHasVerified == state \in PostLock => Verified # {}

\* What a lock leaves behind only ever names verified contracts: the sealed
\* instruments, the governing record, and the billing event (state-hooks.ts).
ArtifactsAreVerified ==
  /\ sealed \subseteq Verified
  /\ record # 0 => record \in Verified
  /\ billed => Verified # {}

\* A verdict is final although verifyExecution lets a judged contract be judged
\* again and two submits may be in flight: no later write changes it.
VerdictIsFinal ==
  [][\A c \in Contracts : contract[c] \in {"VERIFIED", "REJECTED"}
       => contract'[c] = contract[c]]_vars

\* A deal with a rejected contract has an open discrepancy, and nothing closes
\* it: the reason why such a deal cannot be locked (verifyExecution).
RejectionStaysOpen ==
  (\E c \in Contracts : contract[c] = "REJECTED") => disc

\* The requests that have locked the deal and not yet written its record.
Recording ==
  {r \in Requests : req[r].pc \in
     {"lockread", "seal", "recordread", "recordcreate", "recordupdate"}}

\* When no handler is cut short, a locked deal whose hooks are not running has
\* its sealed instrument and its governing record, whatever raced with the
\* hooks (onDealStateSettled, upsertGoverningRecordOnLock).
SettledLockIsRecorded ==
  state \in PostLock /\ Recording = {} => sealed # {} /\ record # 0

\* Among handlers that run one at a time, a submit that is cut short included,
\* at most one contract is authoritative (submitExecutedSourceInstrument).
AtMostOneAuthoritative == Cardinality(authoritative) <= 1

EditsOpenDeal ==
  state \notin NO_PATCH_STATES /\ \E r \in Requests : WritePatch(r)

\* The moves of Transaction.state: the allow-list, an administrator's hold and
\* its release, and what an edit makes of a deal that may still be edited (where
\* it moves such a deal is not part of this); nothing moves an executed, locked,
\* held or archived deal but the first three (state-engine.ts, hold-service.ts).
StateMovesAreSanctioned ==
  [][\/ state' = state
     \/ InTable(state, state')
     \/ state' = "HOLD"
     \/ state = "HOLD" /\ state' = "DRAFT"
     \/ EditsOpenDeal]_vars

\* At the moment the state becomes LOCKED every guard of the lock holds, not
\* only when it was read (getTransitionBlockReason).
LocksUnderItsGuards ==
  [][state # "LOCKED" /\ state' = "LOCKED" =>
       Verified # {} /\ ~disc /\ blockers # "outstanding" /\ ~ActiveHold]_vars

\* The same of the final clearance and its obligations.
ClearsUnderItsGuards ==
  [][state # "GREEN_STAGE_2" /\ state' = "GREEN_STAGE_2" =>
       pf # "outstanding" /\ ~disc /\ ~ActiveHold]_vars

\* While a hold row is active the deal does not progress: it may only be
\* frozen, or fall from HOLD to DRAFT (assertNoActiveHold).
HoldsSupersedeProgression ==
  [][ActiveHold => \/ state' \in {state, "HOLD"}
                   \/ state = "HOLD" /\ state' = "DRAFT"]_vars

\* A deal in EXECUTED without a verified contract cannot get one there, and no
\* lock takes it on: it leaves by a discrepancy or a hold only (the table of
\* state-transition-config.ts, the state that submit and verify ask for).
ExecutedNeedsAnotherRound ==
  [][state = "EXECUTED" /\ Verified = {} =>
       /\ Verified' = {}
       /\ state' \in {"EXECUTED", "DISCREPANCY_RESTRICTED", "HOLD"}]_vars

\* Every lock leads to its seal, its record and its usage event
\* (onDealStateSettled).
LockTakesEffect == state = "LOCKED" ~> sealed # {} /\ record # 0 /\ billed

\* What a deal shows of its execution stays in order whatever handlers overlap
\* and wherever one is cut short: nothing is locked or sealed without a verified
\* contract, recorded before it is sealed, or billed before it is recorded, and
\* neither a verdict nor a seal is taken back (onDealStateSettled).
Evidence ==
  INSTANCE DealEvidence WITH
    locked <- state \in PostLock,
    verified <- Verified,
    rejected <- {c \in Contracts : contract[c] = "REJECTED"}
ImplementsEvidence == Evidence!Spec

-----------------------------------------------------------------------------
(* The inductive invariant: what a handler has established by the time it   *)
(* reaches a statement, and what the verdicts and ids satisfy.              *)

\* The handler has an inserted contract that is not committed.
Unborn(h) == h.op = "submit" /\ h.pc \in EnginePCs \cup {"commitec"}

\* The handler is past the guard that asks for a verified contract, or past
\* its first read of a deal that is locked already.
PastLock(h) ==
  /\ h.pc \in EnginePCs \ {"read"}
  /\ h.goal \in PostLock
  /\ h.goal = "LOCKED" => h.pc = "commit"

Fits(h) ==
  /\ Unborn(h) => h.ec \in Contracts /\ h.ec < nextContract
                    /\ contract[h.ec] = "none"
  /\ h.goal = "LOCKED" => h.op = "transition"
  /\ h.op \in {"submit", "verify", "patch"} => h.goal \notin PostLock
  /\ h.pc = "fundguard" => h.goal = "GREEN_STAGE_2"
  /\ h.pc \in {"clearauth", "createec", "commitec"} => h.op = "submit"
  /\ h.pc = "verdict" => h.op = "verify" /\ h.ec \in Contracts
                           /\ contract[h.ec] # "none"
  /\ PastLock(h) => Verified # {}
  /\ h.pc \in {"seal", "recordcreate", "recordupdate"} => h.ec \in Verified
  /\ h.pc \in HookPCs => h.op = "rebuild" \/ (h.op = "transition" /\ Verified # {})
  /\ h.pc \in {"lockread", "seal", "recordread", "recordcreate",
               "recordupdate", "usage"} => h.op = "transition"

Handlers ==
  /\ req \in [Requests -> Handler]
  /\ \A r \in Requests : Fits(req[r])
  /\ \A q, r \in Requests :
       q # r /\ Unborn(req[q]) /\ Unborn(req[r]) => req[q].ec # req[r].ec

Verdicts ==
  \A c \in Contracts :
    /\ contract[c] # "none" => c < nextContract
    /\ contract[c] = "VERIFIED" => c \in matching
    /\ contract[c] = "REJECTED" => c \notin matching

Inductive ==
  /\ TypeOK
  /\ Handlers
  /\ Verdicts
  /\ SealedHasVerified
  /\ ArtifactsAreVerified
  /\ RejectionStaysOpen

\* The hooks of a lock come one after the other.
InOrder(h) ==
  /\ h.pc \in {"recordread", "recordcreate", "recordupdate"} => sealed # {}
  /\ /\ h.op = "transition"
     /\ h.pc \in {"rebuildread", "rebuilddelete", "rebuildcommit", "usage"}
     => record # 0

EffectsInOrder ==
  /\ \A r \in Requests : InOrder(req[r])
  /\ record # 0 => sealed # {}
  /\ billed => record # 0

\* With handlers that always run to their end: a deal that is locked, or that a
\* handler has read as locked, is recorded or is being recorded.
Recorded ==
  /\ \A r \in Requests :
       req[r].pc \in {"recordread", "recordcreate", "recordupdate"} => sealed # {}
  /\ (\/ state \in PostLock
      \/ \E r \in Requests : PastLock(req[r]) /\ req[r].goal # "LOCKED")
     => (sealed # {} /\ record # 0) \/ Recording # {}

=============================================================================
