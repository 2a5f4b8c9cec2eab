------------------------- MODULE DealLifecycleProofs -------------------------
(***************************************************************************)
(* What holds of DealLifecycle for every number of handlers, contracts and *)
(* holds, every choice of operations, with and without crashes.            *)
(*                                                                         *)
(* Most steps move one handler and touch little else: the first lemmas say *)
(* what such a step preserves (Frame, Quiet and its three instances), the  *)
(* next ones take the actions in the groups of the component's module, and *)
(* InductiveStep puts them together.                                       *)
(***************************************************************************)
EXTENDS DealLifecycle, TLAPS

\* The allow-list enters the states after LOCKED only from the sealed states.

LEMMA TableKeepsLocked ==
  ASSUME NEW from, NEW to \in PostLock, NEW role, to # "LOCKED",
         RoleCanUse(from, to, role)
  PROVE  from \in PostLock
  BY DEF RoleCanUse, DEAL_TRANSITIONS, Rows, PostLock

\* A contract id can be carried by a handler.
LEMMA ContractIds == Contracts \subseteq 0..MaxContracts /\ Verified \subseteq Contracts
  BY MaxContractsAssumption DEF Contracts, Verified

\* An idle handler owes nothing.
LEMMA RestFits == Rest \in Handler /\ Fits(Rest) /\ ~Unborn(Rest)
  BY MaxContractsAssumption
     DEF Rest, Handler, PCs, OtherPCs, AllOperations, TransactionState,
         Fits, Unborn, PastLock, EnginePCs, HookPCs

\* The fields of a handler, and the updates that keep it one.
LEMMA FieldsTyped ==
  ASSUME NEW f \in Handler
  PROVE  /\ f.pc \in PCs /\ f.op \in AllOperations
         /\ f.seen \in TransactionState /\ f.goal \in TransactionState
         /\ f.ec \in 0..MaxContracts
         /\ f.keys \in SUBSET TaskKeys /\ f.clash \in SUBSET TaskKeys
         /\ \A p \in PCs : [f EXCEPT !.pc = p] \in Handler
         /\ \A p \in PCs, s \in TransactionState :
              [f EXCEPT !.pc = p, !.seen = s] \in Handler
         /\ \A p \in PCs, c \in 0..MaxContracts :
              [f EXCEPT !.pc = p, !.ec = c] \in Handler
         /\ \A p \in PCs, k \in SUBSET TaskKeys :
              [f EXCEPT !.pc = p, !.keys = k] \in Handler
         /\ \A k \in SUBSET TaskKeys : [f EXCEPT !.clash = k] \in Handler
  BY DEF Handler

\* An action that changes one handler, and leaves the contracts alone.
LEMMA Frame ==
  ASSUME Handlers, NEW r \in Requests, NEW f \in Handler,
         req' = [req EXCEPT ![r] = f],
         UNCHANGED <<contract, nextContract>>,
         Fits(f),
         Unborn(f) => Unborn(req[r]) /\ f.ec = req[r].ec
  PROVE  Handlers'
<1>1. req' \in [Requests -> Handler]
  BY DEF Handlers
<1>2. ASSUME NEW h \in Handler, Fits(h) PROVE Fits(h)'
  BY <1>2 DEF Fits, Unborn, PastLock, Verified
<1>3. \A q \in Requests : req[q] \in Handler /\ req'[q] = IF q = r THEN f ELSE req[q]
  BY DEF Handlers
<1>4. \A q \in Requests : Fits(req[q])
  BY DEF Handlers
<1>5. \A q \in Requests : Fits(req[q])'
  BY <1>2, <1>3, <1>4
<1>6. ASSUME NEW p \in Requests, NEW q \in Requests, p # q,
             Unborn(req'[p]), Unborn(req'[q])
      PROVE  req'[p].ec # req'[q].ec
  BY <1>3, <1>6 DEF Handlers
<1> QED
  BY <1>1, <1>5, <1>6 DEF Handlers, Unborn

\* A step that leaves the state, the contracts and the artifacts alone.
LEMMA Keep ==
  ASSUME Inductive, Handlers',
         UNCHANGED <<state, contracts, artifacts, disc>>,
         hold' \in [Holds -> {"unused", "active", "released"}],
         blockers' \in Progress, pf' \in Progress
  PROVE  Inductive'
  BY DEF Inductive, TypeOK, Handlers, Verdicts, SealedHasVerified, ArtifactsAreVerified,
         RejectionStaysOpen, Verified, contracts, artifacts

\* A step that only moves one handler.
LEMMA Quiet ==
  ASSUME Inductive, NEW r \in Requests, NEW f \in Handler,
         req' = [req EXCEPT ![r] = f],
         UNCHANGED <<state, hold, contracts, artifacts, work>>,
         Fits(f),
         Unborn(f) => Unborn(req[r]) /\ f.ec = req[r].ec
  PROVE  Inductive'
<1>1. Handlers'
  BY Frame DEF Inductive, contracts
<1> QED
  BY <1>1, Keep DEF Inductive, TypeOK, work

\* ... because the handler answers,
LEMMA QuietFinish ==
  ASSUME Inductive, NEW r \in Requests, Finish(r),
         UNCHANGED <<state, hold, contracts, artifacts, work>>
  PROVE  Inductive'
  BY Quiet, RestFits DEF Finish

\* ... because it goes on to another statement,
LEMMA QuietGoto ==
  ASSUME Inductive, NEW r \in Requests, NEW p \in PCs, Goto(r, p),
         UNCHANGED <<state, hold, contracts, artifacts, work>>,
         Fits([req[r] EXCEPT !.pc = p]),
         Unborn([req[r] EXCEPT !.pc = p]) => Unborn(req[r])
  PROVE  Inductive'
<1> DEFINE f == [req[r] EXCEPT !.pc = p]
<1>1. req[r] \in Handler
  BY DEF Inductive, Handlers
<1>2. f \in Handler /\ f.ec = req[r].ec
  BY <1>1, FieldsTyped DEF Handler
<1>3. req' = [req EXCEPT ![r] = f]
  BY DEF Goto
<1> HIDE DEF f
<1>4. Fits(f) /\ (Unborn(f) => Unborn(req[r]))
  BY DEF f
<1> QED
  BY <1>2, <1>3, <1>4, Quiet

\* ... because it starts: it has no contract of its own, or a committed one.
LEMMA QuietBegin ==
  ASSUME Inductive, NEW r \in Requests, NEW op, NEW f \in Handler,
         Begin(r, op, f),
         UNCHANGED <<state, hold, contracts, artifacts, work>>,
         Fits(f), ~Unborn(f)
  PROVE  Inductive'
  BY Quiet DEF Begin

-----------------------------------------------------------------------------
\* The engine's reads and guards (the commit is CommitKeeps).
LEMMA EngineKeeps ==
  ASSUME Inductive, NEW r \in Requests,
         \/ EngineRead(r) \/ CheckHolds(r) \/ CheckDiscrepancies(r)
         \/ CheckLock(r) \/ CheckFunding(r)
  PROVE  Inductive'
<1>1. req[r] \in Handler /\ Fits(req[r])
  BY DEF Inductive, Handlers
<1>2. CASE EngineRead(r)
  <2>1. PICK role : IF RoleCanUse(state, req[r].goal, role)
                      THEN req' = [req EXCEPT ![r].pc = "holdcheck", ![r].seen = state]
                      ELSE Finish(r)
    BY <1>2 DEF EngineRead
  <2>2. CASE ~RoleCanUse(state, req[r].goal, role)
    BY <1>2, <2>1, <2>2, QuietFinish DEF EngineRead
  <2>3. CASE RoleCanUse(state, req[r].goal, role)
    <3> DEFINE f == [req[r] EXCEPT !.pc = "holdcheck", !.seen = state]
    <3>1. f \in Handler
      BY <1>1, FieldsTyped DEF Inductive, TypeOK, PCs, EnginePCs
    <3>2. req' = [req EXCEPT ![r] = f]
      BY <2>1, <2>3
    <3>3. /\ f.pc = "holdcheck" /\ f.op = req[r].op /\ f.goal = req[r].goal
          /\ f.ec = req[r].ec /\ req[r].pc = "read"
      BY <1>1, <1>2 DEF Handler, EngineRead, At
    <3> HIDE DEF f
    <3>4. f.goal \in PostLock /\ f.goal # "LOCKED" => Verified # {}
      BY <2>3, <3>3, TableKeepsLocked DEF Inductive, SealedHasVerified
    <3>5. Fits(f) /\ (Unborn(f) => Unborn(req[r]))
      BY <1>1, <3>3, <3>4 DEF Fits, Unborn, PastLock, EnginePCs, HookPCs
    <3> QED
      BY <1>2, <3>1, <3>2, <3>3, <3>5, Quiet DEF EngineRead
  <2> QED
    BY <2>2, <2>3
<1>3. ASSUME NEW p \in PCs, Goto(r, p), At(r, "holdcheck"),
             p = IF req[r].op = "patch" THEN "patchwrite" ELSE "guard",
             UNCHANGED <<state, hold, contracts, artifacts, work>>
      PROVE  Inductive'
  BY <1>1, <1>3, QuietGoto
     DEF At, Handler, Fits, Unborn, PastLock, EnginePCs, HookPCs
<1>4. CASE CheckHolds(r)
  BY <1>3, <1>4, QuietFinish DEF CheckHolds, PCs, EnginePCs, OtherPCs
<1>5. CASE CheckDiscrepancies(r)
  <2>1. CASE Finish(r)
    BY <1>5, <2>1, QuietFinish DEF CheckDiscrepancies
  <2>2. CASE ~Finish(r)
    <3>1. PICK p \in {"lockguard", "fundguard", "commit"} :
            /\ Goto(r, p)
            /\ p = "commit" => req[r].goal # "LOCKED"
            /\ p = "fundguard" => req[r].goal = "GREEN_STAGE_2"
      BY <1>5, <2>2 DEF CheckDiscrepancies
    <3>2. p \in PCs
      BY DEF PCs, EnginePCs
    <3>3. At(r, "guard")
      BY <1>5 DEF CheckDiscrepancies
    <3>4. /\ Fits([req[r] EXCEPT !.pc = p])
          /\ Unborn([req[r] EXCEPT !.pc = p]) => Unborn(req[r])
      BY <1>1, <3>1, <3>3
         DEF At, Handler, Fits, Unborn, PastLock, EnginePCs, HookPCs
    <3> QED
      BY <1>5, <3>1, <3>2, <3>4, QuietGoto DEF CheckDiscrepancies
  <2> QED
    BY <2>1, <2>2
<1>6. ASSUME Goto(r, "commit"), At(r, "lockguard") \/ At(r, "fundguard"),
             At(r, "lockguard") => Verified # {},
             UNCHANGED <<state, hold, contracts, artifacts, work>>
      PROVE  Inductive'
  <2>1. "commit" \in PCs
    BY DEF PCs, EnginePCs
  <2>2. /\ Fits([req[r] EXCEPT !.pc = "commit"])
        /\ Unborn([req[r] EXCEPT !.pc = "commit"]) => Unborn(req[r])
    BY <1>1, <1>6 DEF At, Handler, Fits, Unborn, PastLock, EnginePCs, HookPCs
  <2> QED
    BY <1>6, <2>1, <2>2, QuietGoto
<1>7. CASE CheckLock(r)
  BY <1>6, <1>7, QuietFinish DEF CheckLock
<1>8. CASE CheckFunding(r)
  BY <1>6, <1>8, QuietFinish DEF CheckFunding, At
<1> QED
  BY <1>2, <1>4, <1>5, <1>7, <1>8

-----------------------------------------------------------------------------
\* Calls that only take up a handler.
LEMMA CallsKeep ==
  ASSUME Inductive, NEW r \in Requests,
         \/ \E to \in Targets : StartTransition(r, to)
         \/ StartClearance(r) \/ StartPatch(r) \/ StartSubmit(r)
         \/ StartRebuild(r) \/ \E c \in Contracts : StartVerify(r, c)
  PROVE  Inductive'
<1>0. TypeOK /\ SealedHasVerified
  BY DEF Inductive
<1> USE <1>0, MaxContractsAssumption, QuietBegin
<1>1. ASSUME NEW to \in Targets, StartTransition(r, to) PROVE Inductive'
  <2> DEFINE f == [Rest EXCEPT !.pc = "holdcheck", !.seen = state, !.goal = to]
  <2>1. f \in Handler
    BY TargetsAssumption, RestFits
       DEF Rest, Handler, TypeOK, PCs, EnginePCs
  <2>2. to \in PostLock /\ to # "LOCKED" => Verified # {}
    BY <1>1, TableKeepsLocked DEF StartTransition, SealedHasVerified
  <2>3. Fits(f) /\ ~Unborn(f)
    BY <2>2 DEF Rest, Fits, Unborn, PastLock, EnginePCs, HookPCs
  <2> QED
    BY <1>1, <2>1, <2>3 DEF StartTransition
<1>2. CASE StartClearance(r)
  <2> DEFINE f == [Rest EXCEPT !.pc = "read", !.op = "clearance",
                               !.goal = "GREEN_STAGE_2"]
  <2>1. f \in Handler
    BY RestFits DEF Rest, Handler, PCs, EnginePCs, AllOperations, TransactionState
  <2>2. Fits(f) /\ ~Unborn(f)
    BY DEF Rest, Fits, Unborn, PastLock, EnginePCs, HookPCs
  <2> QED
    BY <1>2, <2>1, <2>2 DEF StartClearance
<1>3. CASE StartPatch(r)
  <2> DEFINE f == [Rest EXCEPT !.pc = "holdcheck", !.op = "patch", !.seen = state]
  <2>1. f \in Handler
    BY RestFits DEF Rest, Handler, PCs, EnginePCs, AllOperations, TypeOK
  <2>2. Fits(f) /\ ~Unborn(f)
    BY DEF Rest, Fits, Unborn, PastLock, EnginePCs, HookPCs, PostLock
  <2> QED
    BY <1>3, <2>1, <2>2 DEF StartPatch
<1>4. CASE StartSubmit(r)
  <2> DEFINE f == [Rest EXCEPT !.pc = "clearauth", !.op = "submit",
                     !.seen = state, !.goal = "EXECUTED_PENDING_VERIFICATION"]
  <2>1. f \in Handler
    <3>1. "EXECUTED_PENDING_VERIFICATION" \in TransactionState
      BY DEF TransactionState
    <3>2. "clearauth" \in PCs /\ "submit" \in AllOperations
      BY DEF PCs, OtherPCs, AllOperations
    <3> QED
      BY RestFits, <3>1, <3>2 DEF Rest, Handler, TypeOK
  <2>2. Fits(f) /\ ~Unborn(f)
    BY DEF Rest, Fits, Unborn, PastLock, EnginePCs, HookPCs, PostLock
  <2> QED
    BY <1>4, <2>1, <2>2 DEF StartSubmit
<1>5. CASE StartRebuild(r)
  <2> DEFINE f == [Rest EXCEPT !.pc = "rebuildread", !.op = "rebuild"]
  <2>1. f \in Handler
    BY RestFits DEF Rest, Handler, PCs, HookPCs, AllOperations
  <2>2. Fits(f) /\ ~Unborn(f)
    BY DEF Rest, Fits, Unborn, PastLock, EnginePCs, HookPCs
  <2> QED
    BY <1>5, <2>1, <2>2 DEF StartRebuild
<1>6. ASSUME NEW c \in Contracts, StartVerify(r, c) PROVE Inductive'
  <2> DEFINE f == [Rest EXCEPT !.pc = "verdict", !.op = "verify",
                     !.seen = state, !.ec = c, !.goal = "DISCREPANCY_RESTRICTED"]
  <2>1. f \in Handler
    <3>1. c \in 0..MaxContracts /\ state \in TransactionState
      BY ContractIds DEF TypeOK
    <3>2. "verdict" \in PCs /\ "verify" \in AllOperations
          /\ "DISCREPANCY_RESTRICTED" \in TransactionState
      BY DEF PCs, OtherPCs, AllOperations, TransactionState
    <3> QED
      BY <3>1, <3>2, RestFits DEF Rest, Handler
  <2>2. Fits(f) /\ ~Unborn(f)
    BY <1>6 DEF StartVerify, Rest, Fits, Unborn, PastLock, EnginePCs, HookPCs,
                PostLock
  <2> QED
    BY <1>6, <2>1, <2>2 DEF StartVerify
<1> QED
  BY <1>1, <1>2, <1>3, <1>4, <1>5, <1>6

-----------------------------------------------------------------------------
\* The hooks: none of them touches a contract's verdict or the deal's state.
LEMMA HooksKeep ==
  ASSUME Inductive, NEW r \in Requests,
         \/ ReadAccepted(r) \/ Seal(r) \/ ReadRecord(r) \/ CreateRecord(r)
         \/ UpdateRecord(r) \/ RecordUsage(r)
  PROVE  Inductive'
<1>1. req[r] \in Handler /\ Fits(req[r])
  BY DEF Inductive, Handlers
\* A hook goes on to statement p with contract c.
<1>2. ASSUME NEW p \in HookPCs, NEW c \in 0..MaxContracts,
             req[r].pc \in HookPCs, req[r].op = "transition",
             req' = [req EXCEPT ![r].pc = p, ![r].ec = c],
             p \in {"seal", "recordcreate", "recordupdate"} => c \in Verified,
             UNCHANGED <<contract, nextContract>>
      PROVE  Handlers'
  <2> DEFINE f == [req[r] EXCEPT !.pc = p, !.ec = c]
  <2>1. f \in Handler
    BY <1>1, FieldsTyped DEF PCs
  <2>2. /\ f.pc = p /\ f.ec = c
        /\ f.op = req[r].op /\ f.goal = req[r].goal
    BY <1>1 DEF Handler
  <2>3. req' = [req EXCEPT ![r] = f]
    BY <1>2
  <2> HIDE DEF f
  <2>4. Fits(f) /\ ~Unborn(f)
    BY <1>1, <1>2, <2>2 DEF Fits, Unborn, PastLock, EnginePCs, HookPCs
  <2> QED
    BY <1>2, <2>1, <2>3, <2>4, Frame DEF Inductive
<1>3. ASSUME Finish(r), UNCHANGED <<contract, nextContract>> PROVE Handlers'
  BY <1>3, Frame, RestFits DEF Finish, Inductive
\* A statement that leaves the handler its contract.
<1>4. ASSUME NEW p \in HookPCs, Goto(r, p),
             p \notin {"seal", "recordcreate", "recordupdate"},
             req[r].pc \in HookPCs, req[r].op = "transition",
             UNCHANGED <<contract, nextContract>>
      PROVE  Handlers'
  <2>1. req' = [req EXCEPT ![r].pc = p, ![r].ec = req[r].ec]
    BY <1>1, <1>4 DEF Goto, Handler, Inductive, Handlers
  <2> QED
    BY <1>1, <1>2, <1>4, <2>1, FieldsTyped
<1>5. CASE ReadAccepted(r)
  <2>1. Verified # {} /\ req[r].op = "transition" /\ req[r].pc = "lockread"
    BY <1>1, <1>5 DEF ReadAccepted, At, Fits, HookPCs
  <2>2. PICK c \in Verified : req' = [req EXCEPT ![r].pc = "seal", ![r].ec = c]
    BY <1>5, <2>1 DEF ReadAccepted
  <2>3. Handlers'
    <3>1. c \in 0..MaxContracts /\ "seal" \in HookPCs
      BY ContractIds DEF HookPCs
    <3> QED
      BY <1>2, <1>5, <2>1, <2>2, <3>1 DEF ReadAccepted, contracts, HookPCs
  <2> QED
    BY <1>5, <2>3, Keep DEF ReadAccepted, Inductive, TypeOK, work
<1>6. CASE Seal(r)
  <2>1. req[r].op = "transition" /\ req[r].pc = "seal" /\ req[r].ec \in Verified
    BY <1>1, <1>6 DEF Seal, At, Fits
  <2>2. Handlers'
    BY <1>4, <1>6, <2>1 DEF Seal, contracts, HookPCs
  <2> QED
    BY <1>6, <2>1, <2>2
       DEF Seal, Inductive, TypeOK, Handlers, Verdicts, SealedHasVerified,
           ArtifactsAreVerified, RejectionStaysOpen, Verified, contracts, work
<1>7. CASE ReadRecord(r)
  <2>1. req[r].op = "transition" /\ req[r].pc = "recordread"
    BY <1>1, <1>7 DEF ReadRecord, At, Fits
  <2>2. PICK c \in Verified, p \in {"recordcreate", "recordupdate"} :
          req' = [req EXCEPT ![r].pc = p, ![r].ec = c]
    BY <1>7 DEF ReadRecord
  <2>3. Handlers'
    <3>1. c \in 0..MaxContracts /\ p \in HookPCs
      BY ContractIds DEF HookPCs
    <3> QED
      BY <1>2, <1>7, <2>1, <2>2, <3>1 DEF ReadRecord, contracts, HookPCs
  <2> QED
    BY <1>7, <2>3, Keep DEF ReadRecord, Inductive, TypeOK, work
<1>8. CASE CreateRecord(r) \/ UpdateRecord(r)
  <2>1. req[r].pc \in {"recordcreate", "recordupdate"}
    BY <1>8 DEF CreateRecord, UpdateRecord, At
  <2>2. req[r].op = "transition" /\ req[r].ec \in Verified
    BY <1>1, <2>1 DEF Fits
  <2>3. /\ Goto(r, "rebuildread") \/ Finish(r)
        /\ record' \in {record, req[r].ec}
        /\ UNCHANGED <<state, hold, contracts, sealed, billed, work>>
    BY <1>8 DEF CreateRecord, UpdateRecord
  <2>4. Handlers'
    BY <1>3, <1>4, <2>1, <2>2, <2>3 DEF contracts, HookPCs
  <2> QED
    BY <2>2, <2>3, <2>4
       DEF Inductive, TypeOK, Handlers, Verdicts, SealedHasVerified,
           ArtifactsAreVerified, RejectionStaysOpen, Verified, contracts, work
<1>9. CASE RecordUsage(r)
  <2>1. Verified # {}
    BY <1>1, <1>9 DEF RecordUsage, At, Fits, HookPCs
  <2>2. Handlers'
    BY <1>3, <1>9 DEF RecordUsage, contracts
  <2> QED
    BY <1>9, <2>1, <2>2
       DEF RecordUsage, Inductive, TypeOK, Handlers, Verdicts, SealedHasVerified,
           ArtifactsAreVerified, RejectionStaysOpen, Verified, contracts, work
<1> QED
  BY <1>5, <1>6, <1>7, <1>8, <1>9

-----------------------------------------------------------------------------
\* Rebuilds and tasks: the verdicts and the state are left alone.
LEMMA TasksKeep ==
  ASSUME Inductive, NEW r \in Requests,
         \/ ReadSeeds(r) \/ DeleteTasks(r) \/ WriteTasks(r) \/ FailTasks(r)
         \/ PatchTask(r)
  PROVE  Inductive'
<1>1. req[r] \in Handler /\ Fits(req[r])
  BY DEF Inductive, Handlers
<1>2. CASE ReadSeeds(r)
  <2>1. PICK k \in SUBSET TaskKeys :
          req' = [req EXCEPT ![r].pc = "rebuilddelete", ![r].keys = k]
    BY <1>2 DEF ReadSeeds, Seeds, SeedsFromState, TaskKeys, BlockerTasks
  <2> DEFINE f == [req[r] EXCEPT !.pc = "rebuilddelete", !.keys = k]
  <2>2. f \in Handler
    BY <1>1, FieldsTyped DEF PCs, HookPCs
  <2>3. /\ f.pc = "rebuilddelete" /\ f.op = req[r].op
        /\ f.goal = req[r].goal /\ f.ec = req[r].ec
        /\ req[r].pc = "rebuildread"
    BY <1>1, <1>2 DEF Handler, ReadSeeds, At
  <2>4. req' = [req EXCEPT ![r] = f]
    BY <2>1
  <2> HIDE DEF f
  <2>5. Fits(f) /\ ~Unborn(f)
    BY <1>1, <2>3 DEF Fits, Unborn, PastLock, EnginePCs, HookPCs
  <2> QED
    BY <1>2, <2>2, <2>4, <2>5, Quiet DEF ReadSeeds
<1>3. CASE DeleteTasks(r)
  <2>1. "rebuildcommit" \in PCs
    BY DEF PCs, HookPCs
  <2>2. Fits([req[r] EXCEPT !.pc = "rebuildcommit"])
        /\ ~Unborn([req[r] EXCEPT !.pc = "rebuildcommit"])
    BY <1>1, <1>3
       DEF DeleteTasks, At, Handler, Fits, Unborn, PastLock, EnginePCs, HookPCs
  <2> QED
    BY <1>3, <2>1, <2>2, QuietGoto DEF DeleteTasks
<1>4. CASE WriteTasks(r)
  <2>1. /\ req[r].pc = "rebuildcommit"
        /\ req[r].op = "transition" => Verified # {}
    BY <1>1, <1>4 DEF WriteTasks, At, Fits, HookPCs
  <2>2. \A q \in Requests : req[q] \in Handler /\ Fits(req[q])
    BY DEF Inductive, Handlers
  <2>3. [req[r] EXCEPT !.pc = "usage"] \in Handler
    BY <1>1, FieldsTyped DEF PCs, HookPCs
  <2>4. Fits([req[r] EXCEPT !.pc = "usage"]) \/ req[r].op # "transition"
    BY <1>1, <2>1 DEF Handler, Fits, Unborn, PastLock, EnginePCs, HookPCs
  <2>5. ~Unborn([req[r] EXCEPT !.pc = "usage"])
    BY <1>1 DEF Handler, Unborn, EnginePCs
  <2>6. ASSUME NEW q \in Requests
        PROVE  LET g == [req[q] EXCEPT !.clash = @ \cup req[r].keys]
               IN  g \in Handler /\ Fits(g) /\ g.ec = req[q].ec
                     /\ (Unborn(g) => Unborn(req[q]))
    <3> DEFINE g == [req[q] EXCEPT !.clash = req[q].clash \cup req[r].keys]
    <3>1. g \in Handler
      BY <1>1, <2>2, FieldsTyped
    <3>2. /\ g.pc = req[q].pc /\ g.op = req[q].op
          /\ g.goal = req[q].goal /\ g.ec = req[q].ec
      BY <2>2 DEF Handler
    <3>3. Fits(req[q])
      BY <2>2
    <3> HIDE DEF g
    <3>4. Fits(g) /\ (Unborn(g) => Unborn(req[q]))
      BY <3>2, <3>3 DEF Fits, Unborn, PastLock
    <3> QED
      BY <3>1, <3>2, <3>4 DEF g
  <2>7. \A q \in Requests :
          /\ req'[q] \in Handler /\ Fits(req'[q])
          /\ Unborn(req'[q]) => Unborn(req[q]) /\ req'[q].ec = req[q].ec
    BY <1>4, <2>2, <2>3, <2>4, <2>5, <2>6, RestFits DEF WriteTasks
  <2>8. req' \in [Requests -> Handler]
    BY <1>4, <2>7 DEF WriteTasks
  <2>9. UNCHANGED <<contract, nextContract>>
    BY <1>4 DEF WriteTasks, contracts
  <2>10. \A q \in Requests : Fits(req[q])'
    BY <2>7, <2>9 DEF Fits, Unborn, PastLock, Verified
  <2>11. Handlers'
    BY <2>7, <2>8, <2>10 DEF Inductive, Handlers, Unborn
  <2>12. blockers' \in Progress
    BY <1>4 DEF WriteTasks, Rebuilt, Progress, Inductive, TypeOK
  <2> QED
    BY <1>4, <2>11, <2>12, Keep DEF WriteTasks, Inductive, TypeOK
<1>5. CASE FailTasks(r)
  BY <1>5, QuietFinish DEF FailTasks
<1>6. CASE PatchTask(r)
  <2>1. Handlers'
    BY <1>6 DEF PatchTask, Atomic, Inductive, Handlers, contracts, Fits,
                Unborn, PastLock, Verified
  <2>2. blockers' \in Progress
    BY <1>6 DEF PatchTask, Progress
  <2> QED
    BY <1>6, <2>1, <2>2, Keep DEF PatchTask, Inductive, TypeOK
<1> QED
  BY <1>2, <1>3, <1>4, <1>5, <1>6

-----------------------------------------------------------------------------
\* A handler that ends after a step that leaves contracts and artifacts alone.
LEMMA EndKeeps ==
  ASSUME Inductive, NEW r \in Requests, Finish(r) \/ UNCHANGED req,
         UNCHANGED <<contracts, artifacts>>,
         state' \in TransactionState, state' \in PostLock => state \in PostLock,
         disc' \in BOOLEAN, disc => disc',
         hold' \in [Holds -> {"unused", "active", "released"}],
         blockers' \in Progress, pf' \in Progress
  PROVE  Inductive'
<1>1. Handlers'
  <2>1. CASE Finish(r)
    BY <2>1, Frame, RestFits DEF Finish, Inductive, contracts
  <2>2. CASE UNCHANGED req
    BY <2>2 DEF Inductive, Handlers, contracts, Fits, Unborn, PastLock, Verified
  <2> QED
    BY <2>1, <2>2
<1> QED
  BY <1>1 DEF Inductive, TypeOK, Handlers, Verdicts, SealedHasVerified,
              ArtifactsAreVerified, RejectionStaysOpen, Verified, contracts,
              artifacts

\* Edits and rule evaluations: a demotion never yields a sealed state.
LEMMA EditsKeep ==
  ASSUME Inductive, NEW r \in Requests,
         WritePatch(r) \/ Reevaluate(r) \/ FailRule(r)
  PROVE  Inductive'
<1>1. req[r] \in Handler /\ Fits(req[r]) /\ TypeOK
  BY DEF Inductive, Handlers
<1>2. CASE Reevaluate(r) \/ FailRule(r)
  BY <1>1, <1>2, EndKeeps DEF Reevaluate, FailRule, Atomic, TypeOK
<1>3. CASE WritePatch(r)
  <2>1. /\ state' \in {state} \cup {"YELLOW", "DRAFT"}
        /\ Goto(r, "reeval") \/ Finish(r)
        /\ UNCHANGED <<hold, contracts, artifacts, work>>
    BY <1>3 DEF WritePatch, Demoted
  <2>2. state' \in TransactionState /\ (state' \in PostLock => state \in PostLock)
    BY <1>1, <2>1 DEF TypeOK, TransactionState, PostLock
  <2>3. CASE Finish(r)
    BY <1>1, <2>1, <2>2, <2>3, EndKeeps DEF work, TypeOK
  <2>4. CASE Goto(r, "reeval")
    <3> DEFINE f == [req[r] EXCEPT !.pc = "reeval"]
    <3>1. f \in Handler /\ req' = [req EXCEPT ![r] = f]
      BY <1>1, <2>4, FieldsTyped DEF Goto, PCs, OtherPCs
    <3>2. Fits(f) /\ ~Unborn(f)
      BY <1>1 DEF Handler, Fits, Unborn, PastLock, EnginePCs, HookPCs
    <3>3. Handlers'
      BY <2>1, <3>1, <3>2, Frame DEF Inductive, contracts
    <3> QED
      BY <2>1, <2>2, <3>3
         DEF Inductive, TypeOK, Handlers, Verdicts, SealedHasVerified,
             ArtifactsAreVerified, RejectionStaysOpen, Verified, contracts,
             artifacts, work
  <2> QED
    BY <2>1, <2>3, <2>4
<1> QED
  BY <1>2, <1>3

\* Holds and post-funding items: a freeze or a thaw unseals the deal.
LEMMA HoldsKeep ==
  ASSUME Inductive, NEW r \in Requests,
         \/ \E h \in Holds : PlaceHold(r, h) \/ ReleaseHold(r, h)
         \/ FreezeState(r) \/ ThawState(r)
         \/ BuildPostFunding(r) \/ PatchPostFunding(r)
  PROVE  Inductive'
<1>1. TypeOK
  BY DEF Inductive
<1>2. ASSUME NEW h \in Holds, PlaceHold(r, h) \/ ReleaseHold(r, h)
      PROVE  Inductive'
  <2>1. hold' \in [Holds -> {"unused", "active", "released"}]
    BY <1>1, <1>2 DEF TypeOK, PlaceHold, ReleaseHold
  <2>2. UNCHANGED <<state, contracts, artifacts, work>>
    BY <1>2 DEF PlaceHold, ReleaseHold
  <2>3. CASE UNCHANGED req
    BY <1>1, <2>1, <2>2, <2>3, EndKeeps DEF TypeOK, work
  <2>4. CASE req' # req
    <3>1. PICK p \in {"holdstate", "releasestate"}, o \in {"hold", "release"} :
            req' = [req EXCEPT ![r] = [Rest EXCEPT !.pc = p, !.op = o]]
      BY <1>2, <2>4 DEF PlaceHold, ReleaseHold, Begin, Atomic
    <3> DEFINE f == [Rest EXCEPT !.pc = p, !.op = o]
    <3>2. f \in Handler
      BY RestFits DEF Rest, Handler, PCs, OtherPCs, AllOperations
    <3>3. Fits(f) /\ ~Unborn(f)
      BY DEF Rest, Fits, Unborn, PastLock, EnginePCs, HookPCs
    <3>4. Handlers'
      BY <2>2, <3>1, <3>2, <3>3, Frame DEF Inductive, contracts
    <3> QED
      BY <1>1, <2>1, <2>2, <3>4, Keep DEF TypeOK, work
  <2> QED
    BY <2>3, <2>4
<1>3. CASE FreezeState(r) \/ ThawState(r)
  BY <1>1, <1>3, EndKeeps
     DEF FreezeState, ThawState, TypeOK, TransactionState, PostLock, work
<1>4. CASE BuildPostFunding(r) \/ PatchPostFunding(r)
  BY <1>1, <1>4, EndKeeps
     DEF BuildPostFunding, PatchPostFunding, Atomic, TypeOK, Progress
<1> QED
  BY <1>2, <1>3, <1>4

-----------------------------------------------------------------------------
\* The engine's write: the guards it passed still hold of the contracts.
LEMMA CommitKeeps ==
  ASSUME Inductive, NEW r \in Requests, Commit(r)
  PROVE  Inductive'
<1>1. req[r] \in Handler /\ Fits(req[r]) /\ TypeOK
  BY DEF Inductive, Handlers
<1>2. /\ req[r].pc = "commit" /\ state' = req[r].goal
      /\ UNCHANGED <<hold, contracts, artifacts, work>>
  BY DEF Commit, At
<1>3. state' \in TransactionState
  BY <1>1, <1>2, FieldsTyped
<1>4. state' \in PostLock => Verified # {}
  BY <1>1, <1>2 DEF Fits, PastLock, EnginePCs
<1>5. Handlers'
  <2>1. CASE Finish(r)
    BY <1>2, <2>1, Frame, RestFits DEF Finish, Inductive, contracts
  <2>2. CASE ~Finish(r)
    <3>1. PICK p \in {"lockread", "commitec"} :
            /\ Goto(r, p)
            /\ p = "lockread" => req[r].op = "transition" /\ req[r].goal = "LOCKED"
            /\ p = "commitec" => req[r].op = "submit"
      BY <2>2 DEF Commit
    <3> DEFINE f == [req[r] EXCEPT !.pc = p]
    <3>2. f \in Handler /\ req' = [req EXCEPT ![r] = f]
      BY <1>1, <3>1, FieldsTyped DEF Goto, PCs, OtherPCs, HookPCs
    <3>3. f.pc = p /\ f.op = req[r].op /\ f.goal = req[r].goal /\ f.ec = req[r].ec
      BY <1>1 DEF Handler
    <3> HIDE DEF f
    <3>4. Fits(f) /\ (Unborn(f) => Unborn(req[r]))
      BY <1>1, <1>2, <1>4, <3>1, <3>3
         DEF Fits, Unborn, PastLock, EnginePCs, HookPCs, PostLock
    <3> QED
      BY <1>2, <3>2, <3>3, <3>4, Frame DEF Inductive, contracts
  <2> QED
    BY <2>1, <2>2
<1> QED
  BY <1>2, <1>3, <1>4, <1>5
     DEF Inductive, TypeOK, Handlers, Verdicts, SealedHasVerified,
         ArtifactsAreVerified, RejectionStaysOpen, Verified, contracts,
         artifacts, work

\* What a handler relies on survives later inserts and verdicts.
LEMMA FitsGrows ==
  ASSUME TypeOK, NEW h \in Handler, Fits(h),
         nextContract' \in {nextContract, nextContract + 1},
         \A c \in Contracts :
           /\ contract[c] # "none" => contract'[c] # "none"
           /\ contract[c] = "VERIFIED" => contract'[c] = "VERIFIED",
         Unborn(h) => contract'[h.ec] = "none"
  PROVE  Fits(h)'
<1>1. Verified \subseteq Verified'
  BY DEF Verified
<1>2. Unborn(h) => h.ec \in Contracts /\ h.ec < nextContract'
  BY DEF Fits, TypeOK, Contracts
<1>3. PastLock(h)' = PastLock(h) /\ Unborn(h)' = Unborn(h)
  BY DEF PastLock, Unborn
<1> QED
  BY <1>1, <1>2, <1>3 DEF Fits

\* The statements of a submit: ids are never given out twice.
LEMMA SubmitsKeep ==
  ASSUME Inductive, NEW r \in Requests,
         ClearAuthoritative(r) \/ CreateContract(r) \/ CommitContract(r)
  PROVE  Inductive'
<1>1. req[r] \in Handler /\ Fits(req[r]) /\ TypeOK /\ Handlers
  BY DEF Inductive, Handlers
<1>2. \A q \in Requests : req[q] \in Handler /\ Fits(req[q])
  BY <1>1 DEF Handlers
<1>3. CASE ClearAuthoritative(r)
  <2> DEFINE f == [req[r] EXCEPT !.pc = "createec"]
  <2>1. f \in Handler /\ req' = [req EXCEPT ![r] = f]
    BY <1>1, <1>3, FieldsTyped DEF ClearAuthoritative, Goto, PCs, OtherPCs
  <2>2. Fits(f) /\ ~Unborn(f)
    BY <1>1, <1>3
       DEF ClearAuthoritative, At, Handler, Fits, Unborn, PastLock, EnginePCs,
           HookPCs
  <2>3. Handlers'
    BY <1>1, <1>3, <2>1, <2>2, Frame DEF ClearAuthoritative
  <2> QED
    BY <1>3, <2>3
       DEF ClearAuthoritative, Inductive, TypeOK, Handlers, Verdicts,
           SealedHasVerified, ArtifactsAreVerified, RejectionStaysOpen,
           Verified, artifacts, work
<1>4. CASE CreateContract(r) /\ nextContract \notin Contracts
  BY <1>4, QuietFinish DEF CreateContract, contracts
<1>5. CASE CreateContract(r) /\ nextContract \in Contracts
  <2>1. PICK p \in {"read", "commitec"} :
          req' = [req EXCEPT ![r].ec = nextContract, ![r].pc = p]
    BY <1>5 DEF CreateContract
  <2>0. PICK f : f = [req[r] EXCEPT !.pc = p, !.ec = nextContract]
    OBVIOUS
  <2>2. f \in Handler
    BY <2>0, <1>1, <1>5, ContractIds, FieldsTyped DEF PCs, EnginePCs, OtherPCs
  <2>3. /\ f.pc = p /\ f.op = req[r].op /\ f.goal = req[r].goal
        /\ f.ec = nextContract
        /\ req[r].pc = "createec" /\ req[r].op = "submit"
    BY <2>0, <1>1, <1>5 DEF Handler, CreateContract, At, Fits
  <2>4. req' = [req EXCEPT ![r] = f]
    BY <2>0, <1>1, <2>1 DEF Handlers, Handler
  <2>5. /\ nextContract' = nextContract + 1
        /\ UNCHANGED <<state, hold, contract, matching, authoritative,
                       artifacts, work>>
    BY <1>5 DEF CreateContract
  <2>6. nextContract' \in 1..(MaxContracts + 1) /\ nextContract \in Nat
        /\ nextContract < nextContract'
    BY <1>5, <2>5, MaxContractsAssumption DEF Contracts
  <2>7. contract[nextContract] = "none"
    BY <1>1, <1>5 DEF Inductive, Verdicts, TypeOK
  <2>8. Fits(f)'
    <3>1. ~PastLock(f)
      BY <2>3 DEF PastLock, EnginePCs
    <3>2. f.pc \notin HookPCs
      BY <2>3 DEF HookPCs
    <3> QED
      BY <1>1, <1>5, <2>3, <2>5, <2>6, <2>7, <3>1, <3>2
         DEF Fits, Unborn, PastLock, HookPCs
  <2>9. \A q \in Requests \ {r} : Unborn(req[q]) => contract'[req[q].ec] = "none"
    BY <1>2, <2>5 DEF Fits
  <2>10. \A q \in Requests : Fits(req[q])'
    BY <1>1, <1>2, <2>4, <2>5, <2>8, <2>9, FitsGrows DEF Handlers
  <2>11. \A q \in Requests \ {r} : Unborn(req[q]) => req[q].ec # nextContract
    BY <1>2, <2>6 DEF Fits, Contracts
  <2>12. Handlers'
    BY <1>1, <2>2, <2>3, <2>4, <2>10, <2>11 DEF Handlers, Unborn
  <2>13. Verdicts'
    BY <2>5, <2>6, <1>1 DEF Inductive, Verdicts, TypeOK, Contracts
  <2> QED
    BY <2>5, <2>6, <2>12, <2>13
       DEF Inductive, TypeOK, Handlers, SealedHasVerified,
           ArtifactsAreVerified, RejectionStaysOpen, Verified, artifacts, work
<1>6. CASE CommitContract(r)
  <2> DEFINE e == req[r].ec
  <2>1. Unborn(req[r])
    BY <1>1, <1>6 DEF CommitContract, At, Fits, Unborn
  <2>2. e \in Contracts /\ e < nextContract /\ contract[e] = "none"
    BY <1>1, <2>1 DEF Fits
  <2>3. /\ contract' = [contract EXCEPT ![e] = "PENDING"]
        /\ authoritative' = authoritative \cup {e}
        /\ matching' \in {matching, matching \cup {e}}
        /\ UNCHANGED <<state, hold, nextContract, artifacts, work>>
        /\ req' = [req EXCEPT ![r] = Rest]
    BY <1>6 DEF CommitContract, Finish
  <2>4. /\ \A c \in Contracts \ {e} : contract'[c] = contract[c]
        /\ contract'[e] = "PENDING"
    BY <1>1, <2>2, <2>3 DEF TypeOK
  <2>5. \A q \in Requests \ {r} : Unborn(req[q]) => req[q].ec # e
    BY <1>1, <2>1 DEF Handlers
  <2>6. \A q \in Requests \ {r} : Unborn(req[q]) => contract'[req[q].ec] = "none"
    BY <1>2, <2>4, <2>5 DEF Fits
  <2>7. \A c \in Contracts :
          /\ contract[c] # "none" => contract'[c] # "none"
          /\ contract[c] = "VERIFIED" => contract'[c] = "VERIFIED"
    BY <2>2, <2>4
  <2>8. Fits(Rest)'
    BY <1>1, <2>3, <2>7, RestFits, FitsGrows
  <2>9. \A q \in Requests : Fits(req[q])'
    BY <1>1, <1>2, <2>3, <2>6, <2>7, <2>8, FitsGrows DEF Handlers
  <2>10. Handlers'
    BY <1>1, <2>3, <2>9, RestFits DEF Handlers, Unborn
  <2>11. Verified' = Verified
    BY <2>2, <2>4 DEF Verified
  <2>12. Verdicts'
    BY <2>2, <2>3, <2>4 DEF Inductive, Verdicts
  <2>13. RejectionStaysOpen'
    BY <2>3, <2>4 DEF Inductive, RejectionStaysOpen, work
  <2>14. SealedHasVerified' /\ ArtifactsAreVerified'
    BY <2>3, <2>11 DEF Inductive, SealedHasVerified, ArtifactsAreVerified, artifacts
  <2>15. TypeOK'
    BY <1>1, <2>2, <2>3, <2>10 DEF TypeOK, Handlers, artifacts, work
  <2> QED
    BY <2>10, <2>12, <2>13, <2>14, <2>15 DEF Inductive
<1> QED
  BY <1>3, <1>4, <1>5, <1>6

\* A verdict repeats the one that was given before.
LEMMA JudgeKeeps ==
  ASSUME Inductive, NEW r \in Requests, Judge(r)
  PROVE  Inductive'
<1> DEFINE e == req[r].ec
<1>1. req[r] \in Handler /\ Fits(req[r]) /\ TypeOK /\ Handlers
  BY DEF Inductive, Handlers
<1>2. \A q \in Requests : req[q] \in Handler /\ Fits(req[q])
  BY <1>1 DEF Handlers
<1>3. /\ req[r].pc = "verdict" /\ req[r].op = "verify"
      /\ e \in Contracts /\ contract[e] # "none"
  BY <1>1 DEF Judge, At, Fits
<1>4. PICK v \in {"VERIFIED", "REJECTED"} :
        /\ contract' = [contract EXCEPT ![e] = v]
        /\ v = "VERIFIED" => e \in matching /\ Finish(r) /\ UNCHANGED disc
        /\ v = "REJECTED" => e \notin matching /\ Goto(r, "read") /\ disc' = TRUE
  BY DEF Judge
<1>5. UNCHANGED <<state, hold, nextContract, matching, authoritative, artifacts,
                  blockers, pf>>
  BY DEF Judge
<1>6. /\ contract'[e] = v
      /\ \A c \in Contracts \ {e} : contract'[c] = contract[c]
  BY <1>1, <1>3, <1>4 DEF TypeOK
<1>7. \A c \in Contracts :
        /\ contract[c] # "none" => contract'[c] # "none"
        /\ contract[c] = "VERIFIED" => contract'[c] = "VERIFIED"
  BY <1>3, <1>4, <1>6 DEF Inductive, Verdicts
<1>8. \A q \in Requests : Unborn(req[q]) => contract'[req[q].ec] = "none"
  BY <1>2, <1>3, <1>6 DEF Fits
<1>9. PICK f \in Handler : /\ req' = [req EXCEPT ![r] = f]
                           /\ Fits(f) /\ ~Unborn(f)
  <2>1. CASE v = "VERIFIED"
    BY <1>4, <2>1, RestFits DEF Finish
  <2>2. CASE v = "REJECTED"
    <3> DEFINE g == [req[r] EXCEPT !.pc = "read"]
    <3>1. g \in Handler /\ req' = [req EXCEPT ![r] = g]
      BY <1>1, <1>4, <2>2, FieldsTyped DEF Goto, PCs, EnginePCs
    <3>2. Fits(g) /\ ~Unborn(g)
      BY <1>1, <1>3 DEF Handler, Fits, Unborn, PastLock, EnginePCs, HookPCs
    <3> QED
      BY <3>1, <3>2
  <2> QED
    BY <2>1, <2>2
<1>10. Fits(f)'
  BY <1>1, <1>5, <1>7, <1>9, FitsGrows
<1>11. \A q \in Requests : Fits(req[q])'
  BY <1>1, <1>2, <1>5, <1>7, <1>8, <1>9, <1>10, FitsGrows DEF Handlers
<1>12. Handlers'
  BY <1>1, <1>9, <1>11 DEF Handlers, Unborn
<1>13. Verified \subseteq Verified'
  BY <1>7 DEF Verified
<1>14. Verdicts'
  BY <1>3, <1>4, <1>5, <1>6 DEF Inductive, Verdicts
<1>15. RejectionStaysOpen'
  BY <1>4, <1>6 DEF Inductive, RejectionStaysOpen
<1>16. SealedHasVerified' /\ ArtifactsAreVerified'
  BY <1>5, <1>13
     DEF Inductive, SealedHasVerified, ArtifactsAreVerified, artifacts
<1>17. TypeOK'
  BY <1>1, <1>3, <1>4, <1>5, <1>12 DEF TypeOK, Handlers, artifacts
<1> QED
  BY <1>12, <1>14, <1>15, <1>16, <1>17 DEF Inductive

-----------------------------------------------------------------------------
\* The invariant holds of a new deal,
LEMMA InductiveInit == Init => Inductive
<1> SUFFICES ASSUME Init PROVE Inductive
  OBVIOUS
<1>1. Handlers
  BY RestFits DEF Init, Handlers
<1>2. Verified = {}
  BY DEF Init, Verified
<1>3. Verdicts /\ RejectionStaysOpen
  BY DEF Init, Verdicts, RejectionStaysOpen
<1>4. SealedHasVerified /\ ArtifactsAreVerified
  BY <1>2 DEF Init, SealedHasVerified, ArtifactsAreVerified, PostLock
<1>5. TypeOK
  <2>1. nextContract \in 1..(MaxContracts + 1)
    BY MaxContractsAssumption DEF Init
  <2>2. state \in TransactionState /\ blockers \in Progress /\ pf \in Progress
    BY DEF Init, TransactionState, Progress
  <2>3. contract \in [Contracts -> {"none", "PENDING", "VERIFIED", "REJECTED"}]
        /\ hold \in [Holds -> {"unused", "active", "released"}]
    BY DEF Init
  <2> QED
    BY <1>1, <2>1, <2>2, <2>3 DEF Init, TypeOK, Handlers
<1> QED
  BY <1>1, <1>3, <1>4, <1>5 DEF Inductive

\* and every step keeps it.
LEMMA InductiveStep == Inductive /\ [Next]_vars => Inductive'
<1> SUFFICES ASSUME Inductive, [Next]_vars PROVE Inductive'
  OBVIOUS
<1>1. ASSUME NEW r \in Requests, Call(r) PROVE Inductive'
  <2>1. CASE PatchTask(r)
    BY <2>1, TasksKeep
  <2>2. CASE FailRule(r)
    BY <2>2, EditsKeep
  <2>3. CASE BuildPostFunding(r) \/ PatchPostFunding(r)
    BY <2>3, HoldsKeep
  <2>4. CASE \E h \in Holds : PlaceHold(r, h) \/ ReleaseHold(r, h)
    BY <2>4, HoldsKeep
  <2> QED
    BY <1>1, <2>1, <2>2, <2>3, <2>4, CallsKeep DEF Call
<1>2. ASSUME NEW r \in Requests, Step(r) PROVE Inductive'
  BY <1>2, EngineKeeps, CommitKeeps, HooksKeep, TasksKeep, EditsKeep,
     SubmitsKeep, JudgeKeeps, HoldsKeep DEF Step
<1>3. ASSUME NEW r \in Requests, Abort(r) PROVE Inductive'
  BY <1>3, QuietFinish DEF Abort
<1>4. CASE UNCHANGED vars
  BY <1>4 DEF vars, contracts, artifacts, work, Inductive, TypeOK, Handlers,
              Verdicts, SealedHasVerified, ArtifactsAreVerified,
              RejectionStaysOpen, Verified, Fits, Unborn, PastLock
<1> QED
  BY <1>1, <1>2, <1>3, <1>4 DEF Next

\* The inductive invariant holds of every execution, for any number of
\* handlers, contracts and hold rows, with or without crashes.
THEOREM InductiveHolds == Spec => []Inductive
  BY InductiveInit, InductiveStep, PTL DEF Spec

\* Every reachable state is well typed: no handler ever works on a value the
\* schema does not know.
THEOREM TypeCorrect == Spec => []TypeOK
  BY InductiveHolds, PTL DEF Inductive

\* A deal that is locked or past LOCKED has a verified executed contract,
\* whatever the handlers interleave to (getTransitionBlockReason).
THEOREM SealedDealsAreVerified == Spec => []SealedHasVerified
  BY InductiveHolds, PTL DEF Inductive

\* Sealed instruments, the governing record and the usage event rest on
\* verified contracts only (activateLockSideEffects).
THEOREM LockArtifactsAreVerified == Spec => []ArtifactsAreVerified
  BY InductiveHolds, PTL DEF Inductive

\* A rejected contract keeps a discrepancy open for good (verifyExecution).
THEOREM RejectionsBlock == Spec => []RejectionStaysOpen
  BY InductiveHolds, PTL DEF Inductive

-----------------------------------------------------------------------------
\* A verdict is never changed or withdrawn, however often verifyExecution is
\* called and however many submits are in flight.
THEOREM VerdictsAreFinal == Spec => VerdictIsFinal
<1> DEFINE Final ==
      \A c \in Contracts : contract[c] \in {"VERIFIED", "REJECTED"}
        => contract'[c] = contract[c]
<1>1. ASSUME Inductive, [Next]_vars PROVE Final
  <2>1. CASE UNCHANGED contract
    BY <2>1
  <2>2. ASSUME NEW r \in Requests, CommitContract(r) PROVE Final
    <3>1. req[r] \in Handler /\ Fits(req[r]) /\ TypeOK
      BY <1>1 DEF Inductive, Handlers
    <3>2. req[r].ec \in Contracts /\ contract[req[r].ec] = "none"
      BY <2>2, <3>1 DEF CommitContract, At, Fits, Unborn
    <3>3. contract' = [contract EXCEPT ![req[r].ec] = "PENDING"]
      BY <2>2 DEF CommitContract
    <3> QED
      BY <3>1, <3>2, <3>3 DEF TypeOK
  <2>3. ASSUME NEW r \in Requests, Judge(r) PROVE Final
    <3>1. req[r] \in Handler /\ Fits(req[r]) /\ TypeOK
      BY <1>1 DEF Inductive, Handlers
    <3>2. contract' = [contract EXCEPT ![req[r].ec] =
                         IF req[r].ec \in matching THEN "VERIFIED" ELSE "REJECTED"]
      BY <2>3 DEF Judge
    <3> QED
      BY <1>1, <3>1, <3>2 DEF Inductive, Verdicts, TypeOK
  <2>4. ASSUME NEW r \in Requests, Call(r) \/ Step(r) \/ Abort(r),
               ~CommitContract(r), ~Judge(r)
        PROVE  UNCHANGED contract
    BY <2>4
       DEF Call, Step, Abort, StartTransition, StartClearance, StartPatch,
           StartSubmit, StartRebuild, StartVerify, PlaceHold, ReleaseHold,
           PatchTask, FailRule, BuildPostFunding, PatchPostFunding, EngineRead,
           CheckHolds, CheckDiscrepancies, CheckLock, CheckFunding, Commit,
           ReadAccepted, Seal, ReadRecord, CreateRecord, UpdateRecord,
           RecordUsage, ReadSeeds, DeleteTasks, WriteTasks, FailTasks,
           WritePatch, Reevaluate, ClearAuthoritative, CreateContract,
           FreezeState, ThawState, contracts
  <2> QED
    BY <1>1, <2>1, <2>2, <2>3, <2>4 DEF Next, vars, contracts
<1>2. Inductive /\ [Next]_vars => [Final]_vars
  BY <1>1
<1> QED
  BY <1>2, InductiveHolds, PTL DEF Spec, VerdictIsFinal

-----------------------------------------------------------------------------
(* Handlers that are not cut short. *)

RecordingPCs ==
  {"lockread", "seal", "recordread", "recordcreate", "recordupdate"}

\* A handler does not move another one's statement, operation or goal.
LEMMA OthersStay ==
  ASSUME Inductive, NEW r \in Requests, Call(r) \/ Step(r) \/ Abort(r),
         NEW q \in Requests, q # r
  PROVE  /\ req'[q].pc = req[q].pc /\ req'[q].op = req[q].op
         /\ req'[q].goal = req[q].goal
<1>1. req \in [Requests -> Handler]
  BY DEF Inductive, Handlers
<1>2. CASE WriteTasks(r)
  BY <1>1, <1>2 DEF WriteTasks, Handler
<1>3. CASE UNCHANGED req
  BY <1>3
<1>4. CASE ~WriteTasks(r) /\ ~UNCHANGED req
  <2>1. \E f : req' = [req EXCEPT ![r] = f]
    BY <1>1, <1>4
       DEF Call, Step, Abort, Begin, Atomic, Goto, Finish, StartTransition,
           StartClearance, StartPatch, StartSubmit, StartRebuild, StartVerify,
           PlaceHold, ReleaseHold, PatchTask, FailRule, BuildPostFunding,
           PatchPostFunding, EngineRead, CheckHolds, CheckDiscrepancies,
           CheckLock, CheckFunding, Commit, ReadAccepted, Seal, ReadRecord,
           CreateRecord, UpdateRecord, RecordUsage, ReadSeeds, DeleteTasks,
           FailTasks, WritePatch, Reevaluate, ClearAuthoritative,
           CreateContract, CommitContract, Judge, FreezeState, ThawState
  <2> QED
    BY <1>1, <2>1
<1> QED
  BY <1>2, <1>3, <1>4

Recordable == sealed # {} /\ record # 0
Carries(h) == PastLock(h) /\ h.goal # "LOCKED"

\* What a lock leaves is not taken back.
LEMMA RecordableStays ==
  ASSUME Inductive, [Next]_vars, Recordable
  PROVE  Recordable'
<1>1. CASE UNCHANGED <<sealed, record>>
  BY <1>1 DEF Recordable
<1>2. ASSUME NEW r \in Requests, CreateRecord(r) \/ UpdateRecord(r)
      PROVE  Recordable'
  <2>1. Fits(req[r]) /\ req[r].pc \in {"recordcreate", "recordupdate"}
    BY <1>2 DEF Inductive, Handlers, CreateRecord, UpdateRecord, At
  <2>2. req[r].ec \in Contracts
    BY <2>1, ContractIds DEF Fits
  <2>3. record' \in {record, req[r].ec} /\ sealed' = sealed
    BY <1>2 DEF CreateRecord, UpdateRecord
  <2> QED
    BY <2>2, <2>3, MaxContractsAssumption DEF Recordable, Contracts
<1>3. ASSUME NEW r \in Requests, Seal(r) PROVE Recordable'
  BY <1>3 DEF Seal, Recordable
<1>4. ASSUME NEW r \in Requests, Call(r) \/ Step(r) \/ Abort(r),
             ~CreateRecord(r), ~UpdateRecord(r), ~Seal(r)
      PROVE  UNCHANGED <<sealed, record>>
  BY <1>4
     DEF Call, Step, Abort, StartTransition, StartClearance, StartPatch,
         StartSubmit, StartRebuild, StartVerify, PlaceHold, ReleaseHold,
         PatchTask, FailRule, BuildPostFunding, PatchPostFunding, EngineRead,
         CheckHolds, CheckDiscrepancies, CheckLock, CheckFunding, Commit,
         ReadAccepted, ReadRecord, RecordUsage, ReadSeeds, DeleteTasks,
         WriteTasks, FailTasks, WritePatch, Reevaluate, ClearAuthoritative,
         CreateContract, CommitContract, Judge, FreezeState, ThawState,
         artifacts
<1> QED
  BY <1>1, <1>2, <1>3, <1>4 DEF Next, vars, artifacts

\* A handler that is recording a lock goes on recording it, or is done.
LEMMA RecordingStays ==
  ASSUME Inductive, Recorded, NEW r \in Requests, Call(r) \/ Step(r),
         req[r].pc \in RecordingPCs
  PROVE  req'[r].pc \in RecordingPCs \/ Recordable'
<1>1. req[r] \in Handler /\ Fits(req[r]) /\ req \in [Requests -> Handler]
  BY DEF Inductive, Handlers
<1>2. \/ ReadAccepted(r) \/ Seal(r) \/ ReadRecord(r)
      \/ CreateRecord(r) \/ UpdateRecord(r)
  BY DEF RecordingPCs, Call, Step, StartTransition, StartClearance, StartPatch,
         StartSubmit, StartRebuild, StartVerify, PlaceHold, ReleaseHold,
         PatchTask, FailRule, BuildPostFunding, PatchPostFunding, EngineRead,
         CheckHolds, CheckDiscrepancies, CheckLock, CheckFunding, Commit,
         RecordUsage, ReadSeeds, DeleteTasks, WriteTasks, FailTasks,
         WritePatch, Reevaluate, ClearAuthoritative, CreateContract,
         CommitContract, Judge, FreezeState, ThawState, Begin, Atomic, At
<1>3. CASE ReadAccepted(r)
  <2>1. Verified # {}
    BY <1>1, <1>3 DEF ReadAccepted, At, Fits, HookPCs
  <2> QED
    BY <1>1, <1>3, <2>1 DEF ReadAccepted, RecordingPCs, Handler
<1>4. CASE Seal(r)
  BY <1>1, <1>4 DEF Seal, Goto, RecordingPCs, Handler
<1>5. CASE ReadRecord(r)
  BY <1>1, <1>5 DEF ReadRecord, RecordingPCs, Handler
<1>6. CASE CreateRecord(r) \/ UpdateRecord(r)
  <2>1. req[r].pc \in {"recordcreate", "recordupdate"}
    BY <1>6 DEF CreateRecord, UpdateRecord, At
  <2>2. sealed # {} /\ req[r].ec \in Contracts
    BY <1>1, <2>1, ContractIds DEF Recorded, Fits
  <2>3. req[r].ec # 0
    BY <2>2, MaxContractsAssumption DEF Contracts
  <2>4. sealed' = sealed /\ record' # 0
    BY <1>6, <2>3 DEF CreateRecord, UpdateRecord
  <2> QED
    BY <2>2, <2>4 DEF Recordable
<1> QED
  BY <1>2, <1>3, <1>4, <1>5, <1>6

\* The first statement on a hold row leaves the state alone, and at most takes
\* the handler to the statement that writes it.
LEMMA HoldCalls ==
  ASSUME req \in [Requests -> Handler], NEW r \in Requests, NEW h \in Holds,
         PlaceHold(r, h) \/ ReleaseHold(r, h)
  PROVE  /\ state' = state
         /\ req'[r] = req[r] \/ req'[r].pc \in {"holdstate", "releasestate"}
<1>1. CASE PlaceHold(r, h)
  <2>1. CASE h \in TxHolds
    BY <1>1, <2>1 DEF PlaceHold, Begin, Rest
  <2>2. CASE h \notin TxHolds
    BY <1>1, <2>2 DEF PlaceHold, Atomic
  <2> QED
    BY <2>1, <2>2
<1>2. CASE ReleaseHold(r, h)
  <2>1. CASE h \in TxHolds
    BY <1>2, <2>1 DEF ReleaseHold, Begin, Rest
  <2>2. CASE h \notin TxHolds
    BY <1>2, <2>2 DEF ReleaseHold, Atomic
  <2> QED
    BY <2>1, <2>2
<1> QED
  BY <1>1, <1>2

\* A deal is locked, or read as locked, only because it was, or because this
\* handler locks it now.
LEMMA LocksComeFromLocks ==
  ASSUME Inductive, NEW r \in Requests, Call(r) \/ Step(r),
         state' \in PostLock \/ Carries(req'[r])
  PROVE  state \in PostLock \/ Carries(req[r]) \/ req'[r].pc \in RecordingPCs
<1>1. req[r] \in Handler /\ Fits(req[r]) /\ req \in [Requests -> Handler]
  BY DEF Inductive, Handlers
<1> USE <1>1 DEF Handler, Carries, PastLock, EnginePCs, At, Begin, Atomic, Goto,
                 Finish, Rest
<1>2. CASE \E to \in Targets : StartTransition(r, to)
  BY <1>2, TableKeepsLocked DEF StartTransition
<1>3. CASE EngineRead(r)
  BY <1>3, TableKeepsLocked DEF EngineRead
<1>4. CASE Commit(r)
  BY <1>4 DEF Commit, Fits, RecordingPCs
<1>5. CASE CheckHolds(r) \/ CheckDiscrepancies(r)
  BY <1>5 DEF CheckHolds, CheckDiscrepancies, Fits
<1>6. CASE CheckLock(r) \/ CheckFunding(r)
  BY <1>6 DEF CheckLock, CheckFunding
<1>7. CASE WritePatch(r) \/ FreezeState(r) \/ ThawState(r)
  BY <1>7 DEF WritePatch, FreezeState, ThawState, Demoted, PostLock
<1>8. CASE WriteTasks(r)
  BY <1>8 DEF WriteTasks
<1>12. CASE \/ StartClearance(r) \/ StartPatch(r) \/ StartSubmit(r)
            \/ StartRebuild(r) \/ \E c \in Contracts : StartVerify(r, c)
            \/ \E h \in Holds : PlaceHold(r, h) \/ ReleaseHold(r, h)
  <2>1. state' = state
    <3>1. CASE \/ StartClearance(r) \/ StartPatch(r) \/ StartSubmit(r)
               \/ StartRebuild(r)
      BY <3>1 DEF StartClearance, StartPatch, StartSubmit, StartRebuild
    <3>2. CASE \E c \in Contracts : StartVerify(r, c)
      BY <3>2 DEF StartVerify
    <3>3. CASE \E h \in Holds : PlaceHold(r, h) \/ ReleaseHold(r, h)
      BY <3>3, HoldCalls
    <3> QED
      BY <1>12, <3>1, <3>2, <3>3
  <2>2. CASE StartClearance(r) \/ StartRebuild(r)
    <3>1. CASE StartClearance(r)
      BY <2>1, <3>1 DEF StartClearance, PostLock
    <3>2. CASE StartRebuild(r)
      BY <2>1, <3>2 DEF StartRebuild, PostLock
    <3> QED
      BY <2>2, <3>1, <3>2
  <2>3. CASE StartPatch(r)
    <3>1. req'[r].goal = "DRAFT"
      BY <2>3 DEF StartPatch
    <3> QED
      BY <2>1, <3>1 DEF PostLock
  <2>6. CASE StartSubmit(r)
    <3>1. req'[r].pc = "clearauth"
      BY <2>6 DEF StartSubmit
    <3> QED
      BY <2>1, <3>1
  <2>4. ASSUME NEW c \in Contracts, StartVerify(r, c) PROVE state \in PostLock
    BY <2>1, <2>4 DEF StartVerify, PostLock
  <2>5. ASSUME NEW h \in Holds, PlaceHold(r, h) \/ ReleaseHold(r, h)
        PROVE  state \in PostLock \/ Carries(req[r])
    <3>1. req'[r] = req[r] \/ req'[r].pc \in {"holdstate", "releasestate"}
      BY <2>5, HoldCalls
    <3> QED
      BY <2>1, <3>1
  <2> QED
    BY <1>12, <2>2, <2>3, <2>4, <2>5, <2>6
<1>13. CASE \/ PatchTask(r) \/ FailRule(r) \/ BuildPostFunding(r)
            \/ PatchPostFunding(r)
  BY <1>13 DEF PatchTask, FailRule, BuildPostFunding, PatchPostFunding
<1>10. CASE \/ ReadAccepted(r) \/ Seal(r) \/ ReadRecord(r) \/ CreateRecord(r)
            \/ UpdateRecord(r) \/ RecordUsage(r) \/ ReadSeeds(r)
            \/ DeleteTasks(r) \/ FailTasks(r)
  BY <1>10
     DEF ReadAccepted, Seal, ReadRecord, CreateRecord, UpdateRecord,
         RecordUsage, ReadSeeds, DeleteTasks, FailTasks
<1>11. CASE Reevaluate(r) \/ ClearAuthoritative(r) \/ CommitContract(r)
  <2>1. CASE Reevaluate(r)
    BY <2>1 DEF Reevaluate
  <2>2. CASE ClearAuthoritative(r)
    BY <2>2 DEF ClearAuthoritative
  <2>3. CASE CommitContract(r)
    <3>1. req'[r] = Rest /\ state' = state
      BY <2>3 DEF CommitContract
    <3> QED
      BY <3>1
  <2> QED
    BY <1>11, <2>1, <2>2, <2>3
<1>14. CASE CreateContract(r)
  BY <1>14 DEF CreateContract
<1>15. CASE Judge(r)
  BY <1>15 DEF Judge
<1> QED
  BY <1>2, <1>3, <1>4, <1>5, <1>6, <1>7, <1>8, <1>10, <1>11, <1>12, <1>13,
     <1>14, <1>15 DEF Call, Step

\* A contract that is sealed stays sealed.
LEMMA SealedStays ==
  ASSUME NEW r \in Requests, Call(r) \/ Step(r)
  PROVE  sealed \subseteq sealed'
<1>1. CASE Seal(r)
  BY <1>1 DEF Seal
<1>2. CASE ~Seal(r)
  BY <1>2
     DEF Call, Step, StartTransition, StartClearance, StartPatch, StartSubmit,
         StartRebuild, StartVerify, PlaceHold, ReleaseHold, PatchTask,
         FailRule, BuildPostFunding, PatchPostFunding, EngineRead, CheckHolds,
         CheckDiscrepancies, CheckLock, CheckFunding, Commit, ReadAccepted,
         ReadRecord, CreateRecord, UpdateRecord, RecordUsage, ReadSeeds,
         DeleteTasks, WriteTasks, FailTasks, WritePatch, Reevaluate,
         ClearAuthoritative, CreateContract, CommitContract, Judge,
         FreezeState, ThawState, artifacts
<1> QED
  BY <1>1, <1>2

\* The statements behind the first one of the hooks.
LaterPCs == HookPCs \ {"lockread"}

\* Only a hook, a step of a rebuild or its start takes a handler to one of them.
LEMMA IntoHooks ==
  ASSUME Inductive, NEW r \in Requests, Call(r) \/ Step(r),
         req'[r].pc \in LaterPCs, req'[r] # req[r]
  PROVE  \/ ReadAccepted(r) \/ Seal(r) \/ ReadRecord(r) \/ CreateRecord(r)
         \/ UpdateRecord(r) \/ ReadSeeds(r) \/ DeleteTasks(r) \/ WriteTasks(r)
         \/ StartRebuild(r)
<1>1. req[r] \in Handler /\ req \in [Requests -> Handler]
  BY DEF Inductive, Handlers
<1> USE <1>1 DEF Handler, At, Begin, Atomic, Goto, Finish, Rest, LaterPCs, HookPCs
<1>2. ASSUME Call(r), ~StartRebuild(r) PROVE FALSE
  <2>1. ASSUME NEW h \in Holds, PlaceHold(r, h) \/ ReleaseHold(r, h) PROVE FALSE
    BY <2>1, HoldCalls
  <2>2. CASE PatchTask(r) \/ FailRule(r) \/ BuildPostFunding(r) \/ PatchPostFunding(r)
    BY <2>2 DEF PatchTask, FailRule, BuildPostFunding, PatchPostFunding
  <2>3. CASE StartClearance(r)
    BY <2>3 DEF StartClearance
  <2>4. CASE StartPatch(r)
    BY <2>4 DEF StartPatch
  <2>5. CASE StartSubmit(r)
    BY <2>5 DEF StartSubmit
  <2>6. CASE \E to \in Targets : StartTransition(r, to)
    BY <2>6 DEF StartTransition
  <2>7. CASE \E c \in Contracts : StartVerify(r, c)
    BY <2>7 DEF StartVerify
  <2> QED
    BY <1>2, <2>1, <2>2, <2>3, <2>4, <2>5, <2>6, <2>7 DEF Call
<1>3. ASSUME \/ EngineRead(r) \/ CheckHolds(r) \/ CheckDiscrepancies(r)
             \/ CheckLock(r) \/ CheckFunding(r) \/ Commit(r)
      PROVE  FALSE
  BY <1>3 DEF EngineRead, CheckHolds, CheckDiscrepancies, CheckLock,
              CheckFunding, Commit
<1>4. ASSUME RecordUsage(r) \/ FailTasks(r) PROVE FALSE
  BY <1>4 DEF RecordUsage, FailTasks
<1>5. ASSUME \/ WritePatch(r) \/ Reevaluate(r) \/ ClearAuthoritative(r)
             \/ CreateContract(r)
      PROVE  FALSE
  <2>1. CASE WritePatch(r)
    BY <2>1 DEF WritePatch
  <2>2. CASE Reevaluate(r)
    BY <2>2 DEF Reevaluate
  <2>3. CASE ClearAuthoritative(r)
    BY <2>3 DEF ClearAuthoritative
  <2>4. CASE CreateContract(r)
    BY <2>4 DEF CreateContract
  <2> QED
    BY <1>5, <2>1, <2>2, <2>3, <2>4
<1>6. ASSUME CommitContract(r) \/ Judge(r) \/ FreezeState(r) \/ ThawState(r)
      PROVE  FALSE
  BY <1>6 DEF CommitContract, Judge, FreezeState, ThawState
<1> QED
  BY <1>2, <1>3, <1>4, <1>5, <1>6 DEF Step

\* The statements that write the record follow the one that seals.
LEMMA RecordAfterSeal ==
  ASSUME Inductive, NEW r \in Requests, Call(r) \/ Step(r),
         req[r].pc \notin {"recordread", "recordcreate", "recordupdate"},
         req'[r].pc \in {"recordread", "recordcreate", "recordupdate"}
  PROVE  Seal(r)
<1>1. req[r] \in Handler /\ req \in [Requests -> Handler]
  BY DEF Inductive, Handlers
<1>2. \/ ReadAccepted(r) \/ Seal(r) \/ ReadRecord(r) \/ CreateRecord(r)
      \/ UpdateRecord(r) \/ ReadSeeds(r) \/ DeleteTasks(r) \/ WriteTasks(r)
      \/ StartRebuild(r)
  BY IntoHooks DEF LaterPCs, HookPCs
<1> USE <1>1 DEF Handler, At, Begin, Goto, Finish, Rest
<1>3. CASE ReadAccepted(r) \/ ReadRecord(r) \/ CreateRecord(r) \/ UpdateRecord(r)
  BY <1>3 DEF ReadAccepted, ReadRecord, CreateRecord, UpdateRecord
<1>4. CASE ReadSeeds(r)
  BY <1>4 DEF ReadSeeds
<1>5. CASE DeleteTasks(r)
  BY <1>5 DEF DeleteTasks
<1>6. CASE WriteTasks(r)
  BY <1>6 DEF WriteTasks
<1>7. CASE StartRebuild(r)
  BY <1>7 DEF StartRebuild
<1> QED
  BY <1>2, <1>3, <1>4, <1>5, <1>6, <1>7

\* Every step keeps Recorded when no handler is cut short.
LEMMA RecordedStep ==
  ASSUME ~Crashes
  PROVE  Inductive /\ Recorded /\ [Next]_vars => Recorded'
<1> SUFFICES ASSUME Inductive, Recorded, [Next]_vars PROVE Recorded'
  OBVIOUS
<1>1. CASE UNCHANGED vars
  BY <1>1 DEF vars, artifacts, Recorded, Recording, PastLock
<1>2. ASSUME NEW r \in Requests, Call(r) \/ Step(r) PROVE Recorded'
  <2>1. \A q \in Requests \ {r} :
          req'[q].pc = req[q].pc /\ req'[q].goal = req[q].goal
    BY <1>2, OthersStay
  <2>2. Recordable => Recordable'
    BY RecordableStays
  <2>3. \A q \in Requests :
          req[q].pc \in RecordingPCs => req'[q].pc \in RecordingPCs \/ Recordable'
    BY <1>2, <2>1, RecordingStays
  <2>4. \/ state' \in PostLock
        \/ \E q \in Requests : Carries(req'[q])
        => \/ state \in PostLock
           \/ \E q \in Requests : Carries(req[q])
           \/ req'[r].pc \in RecordingPCs
    BY <1>2, <2>1, LocksComeFromLocks DEF Carries, PastLock
  <2>5. ASSUME NEW q \in Requests,
               req'[q].pc \in {"recordread", "recordcreate", "recordupdate"}
        PROVE  sealed' # {}
    <3>1. CASE req[q].pc \in {"recordread", "recordcreate", "recordupdate"}
      BY <1>2, <3>1, SealedStays DEF Recorded
    <3>2. CASE req[q].pc \notin {"recordread", "recordcreate", "recordupdate"}
      <4>1. q = r
        BY <2>1, <2>5, <3>2
      <4>2. Seal(r)
        BY <1>2, <2>5, <3>2, <4>1, RecordAfterSeal
      <4> QED
        BY <4>2 DEF Seal
    <3> QED
      BY <3>1, <3>2
  <2> QED
    BY <2>2, <2>3, <2>4, <2>5
       DEF Recorded, Recording, Recordable, RecordingPCs, Carries, PastLock
<1> QED
  BY <1>1, <1>2 DEF Next, Abort

\* When no handler is cut short, a locked deal that is not being recorded has
\* its sealed instrument and its record, however many locks race
\* (onDealStateSettled, upsertGoverningRecordOnLock).
THEOREM SettledLocksAreRecorded ==
  ASSUME ~Crashes
  PROVE  Spec => []SettledLockIsRecorded
<1>1. Init => Recorded
  BY DEF Init, Recorded, PostLock, PastLock, Rest, EnginePCs
<1>2. Recorded => SettledLockIsRecorded
  BY DEF Recorded, SettledLockIsRecorded
<1> QED
  BY <1>1, <1>2, RecordedStep, InductiveHolds, PTL DEF Spec

-----------------------------------------------------------------------------
(* What a deal shows of its execution: the hooks come in order, also when    *)
(* handlers overlap and are cut short, and so DealEvidence is implemented.   *)

\* The hooks that come after the record, in a lock.
Tail(h) ==
  /\ h.op = "transition"
  /\ h.pc \in {"rebuildread", "rebuilddelete", "rebuildcommit", "usage"}

\* A lock gets there only by writing the record.
LEMMA TailAfterRecord ==
  ASSUME Inductive, NEW r \in Requests, Call(r) \/ Step(r),
         ~Tail(req[r]), Tail(req'[r])
  PROVE  CreateRecord(r) \/ UpdateRecord(r)
<1>1. req[r] \in Handler /\ Fits(req[r]) /\ req \in [Requests -> Handler]
  BY DEF Inductive, Handlers
<1>2. \/ ReadAccepted(r) \/ Seal(r) \/ ReadRecord(r) \/ CreateRecord(r)
      \/ UpdateRecord(r) \/ ReadSeeds(r) \/ DeleteTasks(r) \/ WriteTasks(r)
      \/ StartRebuild(r)
  BY IntoHooks DEF LaterPCs, HookPCs, Tail
<1>3. CASE ReadAccepted(r)
  <2>1. Verified # {}
    BY <1>1, <1>3 DEF ReadAccepted, At, Fits, HookPCs
  <2> QED
    BY <1>1, <1>3, <2>1 DEF ReadAccepted, Handler, Tail
<1>4. CASE Seal(r) \/ ReadRecord(r)
  BY <1>1, <1>4 DEF Seal, ReadRecord, Goto, Handler, Tail
<1> USE <1>1 DEF At, Begin, Goto, Finish, Rest, Handler, Tail
<1>5. CASE ReadSeeds(r)
  BY <1>5 DEF ReadSeeds
<1>6. CASE DeleteTasks(r)
  BY <1>6 DEF DeleteTasks
<1>7. CASE WriteTasks(r)
  BY <1>7 DEF WriteTasks
<1>8. CASE StartRebuild(r)
  BY <1>8 DEF StartRebuild
<1> QED
  BY <1>2, <1>3, <1>4, <1>5, <1>6, <1>7, <1>8

\* The record names a contract from its first write on.
LEMMA RecordWrites ==
  ASSUME Inductive, NEW r \in Requests, CreateRecord(r) \/ UpdateRecord(r)
  PROVE  /\ req[r].pc \in {"recordcreate", "recordupdate"}
         /\ req[r].ec \in Verified
         /\ record' \in {record, req[r].ec} /\ record' # 0
         /\ UNCHANGED <<state, contracts, sealed, billed>>
<1>1. Fits(req[r]) /\ req[r].pc \in {"recordcreate", "recordupdate"}
  BY DEF Inductive, Handlers, CreateRecord, UpdateRecord, At
<1>2. req[r].ec \in Verified /\ req[r].ec # 0
  BY <1>1, ContractIds, MaxContractsAssumption DEF Fits, Contracts
<1> QED
  BY <1>1, <1>2 DEF CreateRecord, UpdateRecord

\* Every other statement leaves the artifacts or the contracts alone.
LEMMA EvidenceStays ==
  ASSUME NEW r \in Requests, Call(r) \/ Step(r) \/ Abort(r),
         ~Seal(r), ~CreateRecord(r), ~UpdateRecord(r)
  PROVE  /\ UNCHANGED <<sealed, record>>
         /\ ~RecordUsage(r) => UNCHANGED billed
         /\ ~CommitContract(r) /\ ~Judge(r) => UNCHANGED contract
  BY DEF Call, Step, Abort, StartTransition, StartClearance, StartPatch,
         StartSubmit, StartRebuild, StartVerify, PlaceHold, ReleaseHold,
         PatchTask, FailRule, BuildPostFunding, PatchPostFunding, EngineRead,
         CheckHolds, CheckDiscrepancies, CheckLock, CheckFunding, Commit,
         ReadAccepted, ReadRecord, RecordUsage, ReadSeeds, DeleteTasks,
         WriteTasks, FailTasks, WritePatch, Reevaluate, ClearAuthoritative,
         CreateContract, CommitContract, Judge, FreezeState, ThawState,
         artifacts, contracts

\* Every step keeps the order of the hooks, crashes included.
LEMMA EffectsInOrderStep ==
  Inductive /\ EffectsInOrder /\ [Next]_vars => EffectsInOrder'
<1> SUFFICES ASSUME Inductive, EffectsInOrder, [Next]_vars
             PROVE  EffectsInOrder'
  OBVIOUS
<1>1. CASE UNCHANGED vars
  BY <1>1 DEF vars, artifacts, EffectsInOrder, InOrder
<1>2. ASSUME NEW r \in Requests, Call(r) \/ Step(r) \/ Abort(r)
      PROVE  EffectsInOrder'
  <2>0. req \in [Requests -> Handler]
    BY DEF Inductive, Handlers
  <2>1. sealed \subseteq sealed'
    <3>1. CASE Abort(r)
      BY <3>1 DEF Abort, artifacts
    <3> QED
      BY <1>2, <3>1, SealedStays
  <2>2. record # 0 => record' # 0
    BY <1>2, EvidenceStays, RecordWrites DEF Seal
  <2>3. record' # 0 => sealed' # {}
    <3>1. CASE CreateRecord(r) \/ UpdateRecord(r)
      BY <2>1, <3>1, RecordWrites DEF EffectsInOrder, InOrder
    <3>2. CASE ~CreateRecord(r) /\ ~UpdateRecord(r)
      BY <1>2, <2>1, <3>2, EvidenceStays DEF EffectsInOrder, Seal
    <3> QED
      BY <3>1, <3>2
  <2>4. billed' => record' # 0
    <3>1. CASE RecordUsage(r)
      <4>1. Fits(req[r]) /\ req[r].pc = "usage"
        BY <3>1 DEF Inductive, Handlers, RecordUsage, At
      <4> QED
        BY <2>2, <4>1 DEF Fits, EffectsInOrder, InOrder
    <3>2. CASE ~RecordUsage(r)
      <4>1. billed' = billed
        BY <1>2, <3>2, EvidenceStays, RecordWrites DEF Seal
      <4> QED
        BY <2>2, <4>1 DEF EffectsInOrder
    <3> QED
      BY <3>1, <3>2
  <2>5. ASSUME NEW q \in Requests PROVE InOrder(req[q])'
    <3>1. CASE q # r
      BY <1>2, <2>1, <2>2, <3>1, OthersStay DEF EffectsInOrder, InOrder
    <3>2. CASE q = r /\ Abort(r)
      BY <2>0, <3>2 DEF Abort, Finish, Rest, InOrder
    <3>3. CASE q = r /\ (Call(r) \/ Step(r))
      <4>1. req'[r].pc \in {"recordread", "recordcreate", "recordupdate"}
              => sealed' # {}
        BY <2>1, <3>3, RecordAfterSeal DEF EffectsInOrder, InOrder, Seal
      <4>2. Tail(req'[r]) => record' # 0
        BY <2>2, <3>3, TailAfterRecord, RecordWrites
           DEF EffectsInOrder, InOrder, Tail
      <4> QED
        BY <3>3, <4>1, <4>2 DEF InOrder, Tail
    <3> QED
      BY <1>2, <3>1, <3>2, <3>3
  <2> QED
    BY <2>3, <2>4, <2>5 DEF EffectsInOrder, InOrder
<1> QED
  BY <1>1, <1>2 DEF Next

Rejected == {c \in Contracts : contract[c] = "REJECTED"}

\* Every step of the handlers is a step of DealEvidence, or invisible there.
LEMMA EvidenceStep ==
  ASSUME Inductive, Inductive', EffectsInOrder, [Next]_vars
  PROVE  [Evidence!Next]_(Evidence!vars)
<1> USE DEF Evidence!vars
<1>1. CASE UNCHANGED vars
  BY <1>1 DEF vars, artifacts, contracts, Verified
<1>2. ASSUME NEW r \in Requests, Call(r) \/ Step(r) \/ Abort(r)
      PROVE  [Evidence!Next]_(Evidence!vars)
  <2>1. CASE Seal(r)
    <3>1. req[r].ec \in Verified
      BY <2>1 DEF Inductive, Handlers, Seal, At, Fits
    <3>2. req[r].ec \in Contracts
      BY <3>1, ContractIds
    <3>3. Evidence!Seal(req[r].ec)
      BY <2>1, <3>1 DEF Seal, contracts, Verified, Evidence!Seal
    <3> QED
      BY <3>2, <3>3 DEF Evidence!Next
  <2>2. CASE CreateRecord(r) \/ UpdateRecord(r)
    <3>1. /\ req[r].pc \in {"recordcreate", "recordupdate"}
          /\ req[r].ec \in Verified
          /\ record' \in {record, req[r].ec}
          /\ UNCHANGED <<state, contracts, sealed, billed>>
      BY <2>2, RecordWrites
    <3>2. sealed # {} /\ req[r].ec \in Contracts
      BY <3>1, ContractIds DEF EffectsInOrder, InOrder
    <3>3. CASE record' = record
      BY <3>1, <3>3 DEF contracts, Verified
    <3>4. CASE record' = req[r].ec
      <4>1. Evidence!Keep(req[r].ec)
        BY <3>1, <3>2, <3>4 DEF contracts, Verified, Evidence!Keep
      <4> QED
        BY <3>2, <4>1 DEF Evidence!Next
    <3> QED
      BY <3>1, <3>3, <3>4
  <2>3. CASE RecordUsage(r)
    <3>1. Fits(req[r]) /\ req[r].pc = "usage"
      BY <2>3 DEF Inductive, Handlers, RecordUsage, At
    <3>2. record # 0
      BY <3>1 DEF Fits, EffectsInOrder, InOrder
    <3>3. Evidence!Bill
      BY <2>3, <3>2 DEF RecordUsage, contracts, Verified, Evidence!Bill
    <3> QED
      BY <3>3 DEF Evidence!Next
  <2>4. CASE CommitContract(r)
    <3>1. req[r] \in Handler /\ Fits(req[r]) /\ TypeOK
      BY DEF Inductive, Handlers
    <3>2. req[r].ec \in Contracts /\ contract[req[r].ec] = "none"
      BY <2>4, <3>1 DEF CommitContract, At, Fits, Unborn
    <3>3. contract' = [contract EXCEPT ![req[r].ec] = "PENDING"]
      BY <2>4 DEF CommitContract
    <3>4. UNCHANGED <<Verified, Rejected>>
      BY <3>1, <3>2, <3>3 DEF TypeOK, Verified, Rejected
    <3> QED
      BY <2>4, <3>4 DEF CommitContract, artifacts, Rejected
  <2>5. CASE Judge(r)
    <3>0. PICK c : c = req[r].ec
      OBVIOUS
    <3>1. Fits(req[r]) /\ TypeOK
      BY DEF Inductive, Handlers
    <3>2. c \in Contracts /\ contract[c] # "none"
      BY <2>5, <3>0, <3>1 DEF Judge, At, Fits
    <3>3. contract' = [contract EXCEPT ![c] =
                         IF c \in matching THEN "VERIFIED" ELSE "REJECTED"]
      BY <2>5, <3>0 DEF Judge
    <3>4. UNCHANGED <<state, sealed, record, billed>>
      BY <2>5 DEF Judge, artifacts
    <3>5. CASE contract[c] # "PENDING"
      <4>1. contract' = contract
        BY <3>1, <3>2, <3>3, <3>5 DEF TypeOK, Inductive, Verdicts
      <4> QED
        BY <3>4, <4>1 DEF Verified
    <3>6. CASE contract[c] = "PENDING"
      <4>1. c \notin Verified \cup Rejected
        BY <3>6 DEF Verified, Rejected
      <4>2. \/ Verified' = Verified \cup {c} /\ UNCHANGED Rejected
            \/ Rejected' = Rejected \cup {c} /\ UNCHANGED Verified
        BY <3>1, <3>2, <3>3, <3>6 DEF TypeOK, Verified, Rejected
      <4>3. Evidence!Judge(c)
        BY <3>4, <4>1, <4>2 DEF Evidence!Judge, Rejected
      <4> QED
        BY <3>2, <4>3 DEF Evidence!Next
    <3> QED
      BY <3>5, <3>6
  <2>6. CASE /\ ~Seal(r) /\ ~CreateRecord(r) /\ ~UpdateRecord(r)
             /\ ~RecordUsage(r) /\ ~CommitContract(r) /\ ~Judge(r)
    <3>1. UNCHANGED <<contract, sealed, record, billed>>
      BY <1>2, <2>6, EvidenceStays
    <3>2. UNCHANGED <<Verified, Rejected>>
      BY <3>1 DEF Verified, Rejected
    <3>3. CASE state' \in PostLock
      <4>1. Verified # {}
        BY <3>2, <3>3 DEF Inductive, SealedHasVerified
      <4>2. Evidence!Lock
        BY <3>1, <3>2, <3>3, <4>1 DEF Evidence!Lock, Rejected
      <4> QED
        BY <4>2 DEF Evidence!Next
    <3>4. CASE state' \notin PostLock
      <4>1. Evidence!Leave
        BY <3>1, <3>2, <3>4 DEF Evidence!Leave, Rejected
      <4> QED
        BY <4>1 DEF Evidence!Next
    <3> QED
      BY <3>3, <3>4
  <2> QED
    BY <2>1, <2>2, <2>3, <2>4, <2>5, <2>6
<1> QED
  BY <1>1, <1>2 DEF Next

\* What the rows of a deal show of its execution never gets out of order,
\* whatever handlers overlap and wherever one dies: DealEvidence is implemented
\* for every number of handlers and contracts (onDealStateSettled).
THEOREM EvidenceImplemented == Spec => ImplementsEvidence
<1>1. Init => Evidence!Init
  BY DEF Init, Evidence!Init, Verified, PostLock
<1>2. Init => EffectsInOrder
  BY DEF Init, EffectsInOrder, InOrder, Rest
<1>3. Inductive /\ Inductive' /\ EffectsInOrder /\ [Next]_vars
        => [Evidence!Next]_(Evidence!vars)
  BY EvidenceStep
<1> QED
  BY <1>1, <1>2, <1>3, EffectsInOrderStep, InductiveHolds, PTL
     DEF Spec, ImplementsEvidence, Evidence!Spec

=============================================================================
