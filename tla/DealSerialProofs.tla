-------------------------- MODULE DealSerialProofs --------------------------
(***************************************************************************)
(* What holds of DealLifecycle when handlers run one at a time, for every  *)
(* number of contracts and holds, every choice of operations and targets,  *)
(* with and without crashes: the allow-list, the guards and the holds are  *)
(* enforced by the code as long as nothing happens between a handler's     *)
(* reads and its write.                                                    *)
(*                                                                         *)
(* Current says that what the one handler has read and checked is still    *)
(* so at its next statement; each theorem follows from it at the write.    *)
(***************************************************************************)
EXTENDS DealLifecycleProofs, FiniteSetTheorems

\* Past the hold check, on the way to the write of the state.
Checked == {"guard", "lockguard", "fundguard", "commit"}

\* In the engine with a move that the table has.
Allowed(h) == h.pc \in Checked \/ (h.pc = "holdcheck" /\ h.op # "patch")

Current(h) ==
  /\ h.pc \in Checked \cup {"holdcheck", "patchwrite"} => h.seen = state
  /\ Allowed(h) => InTable(state, h.goal)
  /\ h.pc \in Checked \cup {"patchwrite"} => ~ActiveHold
  /\ h.pc \in Checked \ {"guard"} /\ disc =>
       BypassesDiscrepancyGuard(state, h.goal)
  /\ h.pc = "lockguard" => h.goal = "LOCKED"
  /\ h.pc = "commit" /\ h.goal = "LOCKED" =>
       Verified # {} /\ blockers # "outstanding"
  /\ h.pc = "commit" /\ h.goal = "GREEN_STAGE_2" => pf # "outstanding"
  /\ h.pc = "createec" \/ Unborn(h) => authoritative = {}
  /\ h.pc = "verdict" => state = "EXECUTED_PENDING_VERIFICATION"

\* At most one contract is authoritative, without counting.
Alone == \A c, d \in authoritative : c = d

Serial(r) == Inductive /\ Current(req[r]) /\ Alone

LEMMA AloneCounts ==
  ASSUME Alone
  PROVE  AtMostOneAuthoritative
<1>1. CASE authoritative = {}
  BY <1>1, FS_EmptySet DEF AtMostOneAuthoritative
<1>2. CASE authoritative # {}
  <2>1. PICK c : authoritative = {c}
    BY <1>2 DEF Alone
  <2> QED
    BY <2>1, FS_Singleton DEF AtMostOneAuthoritative
<1> QED
  BY <1>1, <1>2

-----------------------------------------------------------------------------
(* How the handler moves.                                                  *)

\* The places at which nothing that Current speaks of matters.
Free == PCs \ (Checked \cup {"holdcheck", "patchwrite", "read", "createec",
                            "commitec", "verdict"})

LEMMA FreeIsCurrent ==
  ASSUME NEW r \in Requests, req'[r].pc \in Free
  PROVE  Current(req[r])'
  BY DEF Current, Free, Allowed, Checked, Unborn, EnginePCs

LEMMA FinishIsCurrent ==
  ASSUME Inductive, NEW r \in Requests, Finish(r)
  PROVE  Current(req[r])'
<1>1. req'[r] = Rest
  BY DEF Finish, Inductive, Handlers
<1>2. "idle" \in Free
  BY DEF Free, PCs, OtherPCs, Checked
<1> QED
  BY <1>1, <1>2, FreeIsCurrent DEF Rest

\* A handler that goes on only changes its place.
LEMMA Goes ==
  ASSUME Inductive, NEW r \in Requests, NEW p, Goto(r, p)
  PROVE  /\ req'[r] = [req[r] EXCEPT !.pc = p]
         /\ req'[r].pc = p /\ req'[r].op = req[r].op
         /\ req'[r].seen = req[r].seen /\ req'[r].goal = req[r].goal
<1>1. req[r] \in Handler /\ req \in [Requests -> Handler]
  BY DEF Inductive, Handlers
<1> QED
  BY <1>1 DEF Goto, Handler

LEMMA GoesFree ==
  ASSUME Inductive, NEW r \in Requests, NEW p \in Free, Goto(r, p)
  PROVE  Current(req[r])'
<1>1. req'[r].pc = p
  BY Goes
<1> QED
  BY <1>1, FreeIsCurrent

\* The table of one role is part of the table.
LEMMA RolesAreInTable ==
  ASSUME NEW op, NEW role \in RouteRoles(op), NEW from, NEW to,
         RoleCanUse(from, to, role)
  PROVE  InTable(from, to)
<1>1. role \in UserRole
  BY DEF RouteRoles, DealTeam, Desk, Control, UserRole
<1> QED
  BY <1>1 DEF InTable, RoleCanUse

-----------------------------------------------------------------------------
(* What a handler has checked is still so after a step of its own.         *)

LEMMA CallsAreCurrent ==
  ASSUME Inductive, NEW r \in Requests, Call(r)
  PROVE  Current(req[r])'
<1>1. req \in [Requests -> Handler]
  BY DEF Inductive, Handlers
<1>2. ASSUME NEW op, NEW f, Begin(r, op, f) PROVE req'[r] = f
  BY <1>1, <1>2 DEF Begin
<1>3. {"idle", "clearauth", "rebuildread", "holdstate", "releasestate"}
        \subseteq Free
  BY DEF Free, PCs, OtherPCs, HookPCs, Checked
<1>4. CASE \E to \in Targets : StartTransition(r, to)
  <2>1. PICK to \in Targets : StartTransition(r, to)
    BY <1>4
  <2>2. InTable(state, to)
    BY <2>1, RolesAreInTable DEF StartTransition
  <2>3. req'[r] = [Rest EXCEPT !.pc = "holdcheck", !.seen = state, !.goal = to]
    BY <1>2, <2>1 DEF StartTransition
  <2>4. /\ req'[r].pc = "holdcheck" /\ req'[r].op = "transition"
        /\ req'[r].seen = state /\ req'[r].goal = to
    BY <2>3 DEF Rest
  <2> QED
    BY <2>1, <2>2, <2>4
       DEF Current, Allowed, Checked, Unborn, StartTransition
<1>5. CASE StartClearance(r)
  <2>1. req'[r].pc = "read" /\ req'[r].op = "clearance"
    BY <1>2, <1>5 DEF StartClearance, Rest
  <2> QED
    BY <2>1 DEF Current, Allowed, Checked, Unborn
<1>6. CASE StartPatch(r)
  <2>1. /\ req'[r].pc = "holdcheck" /\ req'[r].op = "patch"
        /\ req'[r].seen = state
    BY <1>2, <1>6 DEF StartPatch, Rest
  <2> QED
    BY <1>6, <2>1 DEF Current, Allowed, Checked, Unborn, StartPatch
<1>7. CASE StartSubmit(r) \/ StartRebuild(r)
  <2>1. req'[r].pc \in {"clearauth", "rebuildread"}
    BY <1>2, <1>7 DEF StartSubmit, StartRebuild, Rest
  <2> QED
    BY <1>3, <2>1, FreeIsCurrent
<1>11. ASSUME NEW c \in Contracts, StartVerify(r, c) PROVE Current(req[r])'
  <2>1. req'[r].pc = "verdict" /\ req'[r].op = "verify"
    BY <1>2, <1>11 DEF StartVerify, Rest
  <2> QED
    BY <1>11, <2>1 DEF Current, Allowed, Checked, Unborn, EnginePCs, StartVerify
<1>8. ASSUME NEW op, Atomic(r, op) PROVE Current(req[r])'
  <2>1. req'[r].pc = "idle"
    BY <1>8 DEF Atomic, At
  <2> QED
    BY <1>3, <2>1, FreeIsCurrent
<1>9. CASE PatchTask(r) \/ FailRule(r) \/ BuildPostFunding(r) \/ PatchPostFunding(r)
  BY <1>8, <1>9 DEF PatchTask, FailRule, BuildPostFunding, PatchPostFunding
<1>10. ASSUME NEW h \in Holds, PlaceHold(r, h) \/ ReleaseHold(r, h)
       PROVE  Current(req[r])'
  <2>1. CASE h \notin TxHolds
    BY <1>8, <1>10, <2>1 DEF PlaceHold, ReleaseHold
  <2>2. CASE h \in TxHolds
    <3>1. req'[r].pc \in {"holdstate", "releasestate"}
      BY <1>2, <1>10, <2>2 DEF PlaceHold, ReleaseHold, Rest
    <3> QED
      BY <1>3, <3>1, FreeIsCurrent
  <2> QED
    BY <2>1, <2>2
<1> QED
  BY <1>4, <1>5, <1>6, <1>7, <1>9, <1>10, <1>11 DEF Call

LEMMA EngineStaysCurrent ==
  ASSUME Inductive, NEW r \in Requests, Current(req[r]),
         \/ EngineRead(r) \/ CheckHolds(r) \/ CheckDiscrepancies(r)
         \/ CheckLock(r) \/ CheckFunding(r) \/ Commit(r)
  PROVE  Current(req[r])'
<1>1. req[r] \in Handler /\ Fits(req[r]) /\ req \in [Requests -> Handler]
  BY DEF Inductive, Handlers
<1>2. CASE Finish(r)
  BY <1>2, FinishIsCurrent
<1>3. CASE EngineRead(r) /\ ~Finish(r)
  <2>1. /\ req' = [req EXCEPT ![r].pc = "holdcheck", ![r].seen = state]
        /\ InTable(state, req[r].goal)
    BY <1>3, RolesAreInTable DEF EngineRead
  <2>2. /\ req'[r].pc = "holdcheck" /\ req'[r].seen = state
        /\ req'[r].goal = req[r].goal /\ req'[r].op = req[r].op
    BY <1>1, <2>1 DEF Handler
  <2>3. req[r].pc = "read" /\ UNCHANGED <<state, authoritative>>
    BY <1>3 DEF EngineRead, At, contracts
  <2> QED
    BY <2>1, <2>2, <2>3 DEF Current, Allowed, Checked, Unborn, EnginePCs
<1>4. CASE CheckHolds(r) /\ ~Finish(r)
  <2>1. /\ HoldsAllow(r) /\ req[r].pc = "holdcheck"
        /\ Goto(r, IF req[r].op = "patch" THEN "patchwrite" ELSE "guard")
        /\ UNCHANGED <<state, hold, authoritative>>
    BY <1>4 DEF CheckHolds, At, contracts
  <2>2. ~ActiveHold /\ ~ActiveHold'
    BY <2>1 DEF HoldsAllow, ActiveHold
  <2>3. /\ req'[r].pc = IF req[r].op = "patch" THEN "patchwrite" ELSE "guard"
        /\ req'[r].op = req[r].op
        /\ req'[r].seen = req[r].seen /\ req'[r].goal = req[r].goal
    BY <2>1, Goes
  <2> QED
    BY <2>1, <2>2, <2>3 DEF Current, Allowed, Checked, Unborn, EnginePCs
<1>5. CASE CheckDiscrepancies(r) /\ ~Finish(r)
  <2>1. PICK p \in {"lockguard", "fundguard", "commit"} :
          /\ Goto(r, p)
          /\ p = "commit" => req[r].goal \notin {"LOCKED", "GREEN_STAGE_2"}
          /\ p = "lockguard" => req[r].goal = "LOCKED"
    BY <1>5 DEF CheckDiscrepancies
  <2>2. /\ req[r].pc = "guard"
        /\ disc => BypassesDiscrepancyGuard(state, req[r].goal)
        /\ UNCHANGED <<state, hold, disc, authoritative>>
    BY <1>5 DEF CheckDiscrepancies, At, contracts, work, Current, Checked
  <2>3. ~ActiveHold /\ ~ActiveHold'
    BY <2>2 DEF Current, Checked, ActiveHold
  <2> QED
    BY <2>1, <2>2, <2>3, Goes DEF Current, Allowed, Checked, Unborn, EnginePCs
<1>6. CASE (CheckLock(r) \/ CheckFunding(r)) /\ ~Finish(r)
  <2>1. /\ Goto(r, "commit")
        /\ \/ /\ req[r].pc = "lockguard" /\ req[r].goal = "LOCKED"
              /\ Verified # {} /\ blockers # "outstanding"
           \/ /\ req[r].pc = "fundguard" /\ req[r].goal = "GREEN_STAGE_2"
              /\ pf # "outstanding"
    BY <1>1, <1>6 DEF CheckLock, CheckFunding, At, Current, Fits
  <2>2. UNCHANGED <<state, hold, disc, blockers, pf, contract, authoritative>>
    BY <1>6 DEF CheckLock, CheckFunding, contracts, work
  <2>3. ~ActiveHold /\ ~ActiveHold' /\ Verified' = Verified
    BY <2>1, <2>2 DEF Current, Checked, ActiveHold, Verified
  <2>4. /\ req'[r].pc = "commit" /\ req'[r].op = req[r].op
        /\ req'[r].seen = req[r].seen /\ req'[r].goal = req[r].goal
    BY <2>1, Goes
  <2> QED
    BY <2>1, <2>2, <2>3, <2>4 DEF Current, Allowed, Checked, Unborn, EnginePCs
<1>7. CASE Commit(r) /\ ~Finish(r)
  <2>1. CASE Goto(r, "lockread")
    BY <2>1, GoesFree DEF Free, PCs, HookPCs, Checked
  <2>2. CASE Goto(r, "commitec") /\ req[r].op = "submit"
    <3>1. authoritative = {} /\ authoritative' = {}
      BY <1>7, <2>2 DEF Commit, At, Current, Unborn, EnginePCs, contracts
    <3>2. req'[r].pc = "commitec"
      BY <2>2, Goes
    <3> QED
      BY <3>1, <3>2 DEF Current, Allowed, Checked
  <2> QED
    BY <1>7, <2>1, <2>2 DEF Commit
<1> QED
  BY <1>2, <1>3, <1>4, <1>5, <1>6, <1>7

LEMMA HooksStayCurrent ==
  ASSUME Inductive, NEW r \in Requests,
         \/ ReadAccepted(r) \/ Seal(r) \/ ReadRecord(r) \/ CreateRecord(r)
         \/ UpdateRecord(r) \/ RecordUsage(r)
         \/ ReadSeeds(r) \/ DeleteTasks(r) \/ WriteTasks(r) \/ FailTasks(r)
  PROVE  Current(req[r])'
<1>1. req[r] \in Handler /\ req \in [Requests -> Handler]
  BY DEF Inductive, Handlers
<1>2. CASE Finish(r)
  BY <1>2, FinishIsCurrent
<1>3. HookPCs \cup {"idle"} \subseteq Free
  BY DEF Free, PCs, HookPCs, OtherPCs, Checked
<1>4. ASSUME NEW p \in HookPCs, Goto(r, p) PROVE Current(req[r])'
  BY <1>3, <1>4, GoesFree
<1>5. ASSUME NEW c, NEW p \in HookPCs,
             req' = [req EXCEPT ![r].pc = p, ![r].ec = c]
      PROVE  Current(req[r])'
  <2>1. req'[r].pc = p
    BY <1>1, <1>5 DEF Handler
  <2> QED
    BY <1>3, <2>1, FreeIsCurrent
<1>6. CASE ReadAccepted(r) \/ ReadRecord(r)
  BY <1>4, <1>5, <1>6 DEF ReadAccepted, ReadRecord, HookPCs
<1>7. CASE Seal(r) \/ CreateRecord(r) \/ UpdateRecord(r) \/ DeleteTasks(r)
  BY <1>2, <1>4, <1>7 DEF Seal, CreateRecord, UpdateRecord, DeleteTasks, HookPCs
<1>8. CASE ReadSeeds(r)
  <2>1. req'[r].pc = "rebuilddelete"
    BY <1>1, <1>8 DEF ReadSeeds, Handler
  <2> QED
    BY <1>3, <2>1, FreeIsCurrent DEF HookPCs
<1>9. CASE WriteTasks(r)
  <2>1. req'[r].pc \in {"usage", "idle"}
    BY <1>1, <1>9 DEF WriteTasks, Handler, Rest
  <2> QED
    BY <1>3, <2>1, FreeIsCurrent DEF HookPCs
<1> QED
  BY <1>2, <1>6, <1>7, <1>8, <1>9 DEF RecordUsage, FailTasks

LEMMA OthersStayCurrent ==
  ASSUME Inductive, NEW r \in Requests, Current(req[r]),
         \/ WritePatch(r) \/ Reevaluate(r)
         \/ ClearAuthoritative(r) \/ CreateContract(r) \/ CommitContract(r)
         \/ Judge(r) \/ FreezeState(r) \/ ThawState(r) \/ Abort(r)
  PROVE  Current(req[r])'
<1>1. req[r] \in Handler /\ Fits(req[r]) /\ req \in [Requests -> Handler]
  BY DEF Inductive, Handlers
<1>2. CASE Finish(r)
  BY <1>2, FinishIsCurrent
<1>3. CASE WritePatch(r)
  <2>1. "reeval" \in Free
    BY DEF Free, PCs, OtherPCs, Checked
  <2> QED
    BY <1>2, <1>3, <2>1, GoesFree DEF WritePatch
<1>4. CASE ClearAuthoritative(r)
  <2>1. req'[r].pc = "createec" /\ authoritative' = {}
    BY <1>4, Goes DEF ClearAuthoritative
  <2> QED
    BY <2>1 DEF Current, Allowed, Checked
<1>5. CASE CreateContract(r) /\ ~Finish(r)
  <2>1. PICK p \in {"read", "commitec"} :
          req' = [req EXCEPT ![r].ec = nextContract, ![r].pc = p]
    BY <1>5 DEF CreateContract
  <2>2. req'[r].pc = p
    BY <1>1, <2>1 DEF Handler
  <2>3. authoritative = {} /\ authoritative' = {}
    BY <1>5 DEF CreateContract, At, Current
  <2> QED
    BY <2>2, <2>3 DEF Current, Allowed, Checked
<1>6. CASE Judge(r) /\ ~Finish(r)
  <2>1. Goto(r, "read") /\ req[r].op = "verify"
    BY <1>1, <1>6 DEF Judge, At, Fits
  <2>2. req'[r].pc = "read" /\ req'[r].op = "verify"
    BY <2>1, Goes
  <2> QED
    BY <2>2 DEF Current, Allowed, Checked, Unborn
<1> QED
  BY <1>2, <1>3, <1>4, <1>5, <1>6
     DEF Reevaluate, CommitContract, FreezeState, ThawState, Abort

-----------------------------------------------------------------------------
(* One handler at a time.                                                  *)

LEMMA AuthoritativeStaysAlone ==
  ASSUME Inductive, Alone, NEW r \in Requests, Current(req[r]),
         Call(r) \/ Step(r) \/ Abort(r)
  PROVE  Alone'
<1>1. CASE UNCHANGED authoritative
  BY <1>1 DEF Alone
<1>2. CASE ClearAuthoritative(r)
  BY <1>2 DEF ClearAuthoritative, Alone
<1>3. CASE CommitContract(r)
  <2>1. req[r].pc = "commitec" /\ Fits(req[r])
    BY <1>3 DEF CommitContract, At, Inductive, Handlers
  <2>2. authoritative = {}
    BY <2>1 DEF Current, Fits, Unborn
  <2> QED
    BY <1>3, <2>2 DEF CommitContract, Alone
<1> QED
  BY <1>1, <1>2, <1>3
     DEF Call, Step, Abort, contracts, StartTransition, StartClearance, StartPatch,
         StartSubmit, StartRebuild, StartVerify, PlaceHold, ReleaseHold, PatchTask,
         FailRule, BuildPostFunding, PatchPostFunding, EngineRead, CheckHolds,
         CheckDiscrepancies, CheckLock, CheckFunding, Commit, ReadAccepted, Seal,
         ReadRecord, CreateRecord, UpdateRecord, RecordUsage, ReadSeeds,
         DeleteTasks, WriteTasks, FailTasks, WritePatch, Reevaluate,
         CreateContract, Judge, FreezeState, ThawState

LEMMA SerialInit ==
  ASSUME NEW r, Requests = {r}
  PROVE  Init => Serial(r)
<1> SUFFICES ASSUME Init PROVE Serial(r)
  OBVIOUS
<1>1. req[r] = Rest /\ authoritative = {}
  BY DEF Init
<1> QED
  BY <1>1, InductiveInit
     DEF Serial, Alone, Current, Allowed, Checked, Unborn, EnginePCs, Rest

LEMMA SerialStep ==
  ASSUME NEW r, Requests = {r}
  PROVE  Serial(r) /\ [Next]_vars => Serial(r)'
<1> SUFFICES ASSUME Serial(r), [Next]_vars PROVE Serial(r)'
  OBVIOUS
<1>1. Inductive'
  BY InductiveStep DEF Serial
<1>2. CASE UNCHANGED vars
  <2>1. UNCHANGED <<state, hold, disc, blockers, pf, contract, authoritative, req>>
    BY <1>2 DEF vars, contracts, work
  <2>2. UNCHANGED <<ActiveHold, Verified>>
    BY <2>1 DEF ActiveHold, Verified
  <2> QED
    BY <1>1, <2>1, <2>2 DEF Serial, Current, Allowed, Unborn, Alone
<1>3. CASE Call(r) \/ Step(r) \/ Abort(r)
  <2>1. Current(req[r])'
    BY <1>3, CallsAreCurrent, EngineStaysCurrent, HooksStayCurrent, OthersStayCurrent
       DEF Serial, Step
  <2> QED
    BY <1>1, <1>3, <2>1, AuthoritativeStaysAlone DEF Serial
<1> QED
  BY <1>2, <1>3 DEF Next

\* What the running handler has read and checked stays so to its write, and one
\* contract is authoritative at most: no statement of another comes between.
THEOREM SerialHolds ==
  ASSUME NEW r, Requests = {r}
  PROVE  Spec => []Serial(r)
<1>1. Init => Serial(r)
  BY SerialInit
<1>2. Serial(r) /\ [Next]_vars => Serial(r)'
  BY SerialStep
<1> QED
  BY <1>1, <1>2, PTL DEF Spec

\* With one handler at a time at most one contract is authoritative, a submit
\* that is cut short included (submitExecutedSourceInstrument).
THEOREM OneAuthoritativeWhenSerial ==
  ASSUME NEW r, Requests = {r}
  PROVE  Spec => []AtMostOneAuthoritative
<1>1. Serial(r) => AtMostOneAuthoritative
  BY AloneCounts DEF Serial
<1> QED
  BY <1>1, SerialHolds, PTL

-----------------------------------------------------------------------------
(* The writes of the state, each with what holds when it is made.          *)

\* The engine's update.
Progresses ==
  /\ InTable(state, state')
  /\ ~ActiveHold
  /\ disc => BypassesDiscrepancyGuard(state, state')
  /\ state' = "LOCKED" => Verified # {} /\ blockers # "outstanding"
  /\ state' = "GREEN_STAGE_2" => pf # "outstanding"

\* The demotion after a material edit.
Demotes ==
  /\ ~ActiveHold
  /\ state \in Demotable
  /\ state' = Demoted(state)
  /\ EditsOpenDeal

\* An administrator's hold and its release.
Freezes == state' = "HOLD"
Thaws == state = "HOLD" /\ state' = "DRAFT"

LEMMA StateWrites ==
  ASSUME NEW r, Requests = {r}, Serial(r), [Next]_vars
  PROVE  state' = state \/ Progresses \/ Demotes \/ Freezes \/ Thaws
<1>1. CASE UNCHANGED vars
  BY <1>1 DEF vars
<1>2. CASE Commit(r)
  <2>1. Current(req[r]) /\ req[r].pc = "commit" /\ state' = req[r].goal
    BY <1>2 DEF Serial, Commit, At
  <2>2. Progresses
    BY <2>1 DEF Current, Allowed, Checked, Progresses
  <2> QED
    BY <2>2
<1>3. CASE WritePatch(r)
  <2>1. Current(req[r]) /\ req[r].pc = "patchwrite"
    BY <1>3 DEF Serial, WritePatch, At
  <2>2. req[r].seen = state /\ ~ActiveHold
    BY <2>1 DEF Current
  <2> QED
    BY <1>3, <2>2
       DEF WritePatch, Demotes, Demotable, EditsOpenDeal, NO_PATCH_STATES, PostLock
<1>4. CASE FreezeState(r)
  BY <1>4 DEF FreezeState, Freezes
<1>5. CASE ThawState(r)
  BY <1>5 DEF ThawState, Thaws
<1>6. CASE \/ Call(r) \/ Abort(r)
           \/ Step(r) /\ ~Commit(r) /\ ~WritePatch(r)
                /\ ~FreezeState(r) /\ ~ThawState(r)
  <2>1. UNCHANGED state
    BY <1>6
       DEF Call, Step, Abort, StartTransition, StartClearance, StartPatch,
           StartSubmit, StartRebuild, StartVerify, PlaceHold, ReleaseHold, PatchTask,
           FailRule, BuildPostFunding, PatchPostFunding, EngineRead, CheckHolds,
           CheckDiscrepancies, CheckLock, CheckFunding, ReadAccepted, Seal,
           ReadRecord, CreateRecord, UpdateRecord, RecordUsage, ReadSeeds,
           DeleteTasks, WriteTasks, FailTasks, Reevaluate, ClearAuthoritative,
           CreateContract, CommitContract, Judge
  <2> QED
    BY <2>1
<1> QED
  BY <1>1, <1>2, <1>3, <1>4, <1>5, <1>6 DEF Next

\* With one handler at a time the state only moves along the allow-list, into
\* and out of a hold, and by an edit of a deal that may still be edited
\* (state-engine.ts, routes/admin.ts, transaction-patch-service.ts).
THEOREM MovesSanctionedWhenSerial ==
  ASSUME NEW r, Requests = {r}
  PROVE  Spec => StateMovesAreSanctioned
<1> DEFINE Sanctioned ==
      \/ state' = state
      \/ InTable(state, state')
      \/ state' = "HOLD"
      \/ state = "HOLD" /\ state' = "DRAFT"
      \/ EditsOpenDeal
<1>1. ASSUME Serial(r), [Next]_vars PROVE Sanctioned
  BY <1>1, StateWrites DEF Progresses, Demotes, Freezes, Thaws
<1>2. Serial(r) /\ [Next]_vars => [Sanctioned]_vars
  BY <1>1
<1> QED
  BY <1>2, SerialHolds, PTL DEF Spec, StateMovesAreSanctioned

\* With one handler at a time the guards of a lock hold at its update, not only
\* when they were read (getTransitionBlockReason).
THEOREM LocksGuardedWhenSerial ==
  ASSUME NEW r, Requests = {r}
  PROVE  Spec => LocksUnderItsGuards
<1> DEFINE Guarded ==
      state # "LOCKED" /\ state' = "LOCKED" =>
        Verified # {} /\ ~disc /\ blockers # "outstanding" /\ ~ActiveHold
<1>1. ASSUME Serial(r), [Next]_vars, state # "LOCKED", state' = "LOCKED"
      PROVE  Verified # {} /\ ~disc /\ blockers # "outstanding" /\ ~ActiveHold
  <2>1. Progresses
    BY <1>1, StateWrites DEF Demotes, Freezes, Thaws, Demoted
  <2> QED
    BY <1>1, <2>1 DEF Progresses, BypassesDiscrepancyGuard
<1>2. Serial(r) /\ [Next]_vars => [Guarded]_vars
  BY <1>1
<1> QED
  BY <1>2, SerialHolds, PTL DEF Spec, LocksUnderItsGuards

\* The same of the final clearance: no blocking obligation is outstanding, no
\* discrepancy open and no hold active when it is written.
THEOREM ClearancesGuardedWhenSerial ==
  ASSUME NEW r, Requests = {r}
  PROVE  Spec => ClearsUnderItsGuards
<1> DEFINE Guarded ==
      state # "GREEN_STAGE_2" /\ state' = "GREEN_STAGE_2" =>
        pf # "outstanding" /\ ~disc /\ ~ActiveHold
<1>1. ASSUME Serial(r), [Next]_vars, state # "GREEN_STAGE_2",
             state' = "GREEN_STAGE_2"
      PROVE  pf # "outstanding" /\ ~disc /\ ~ActiveHold
  <2>1. Progresses
    BY <1>1, StateWrites DEF Demotes, Freezes, Thaws, Demoted
  <2> QED
    BY <1>1, <2>1 DEF Progresses, BypassesDiscrepancyGuard
<1>2. Serial(r) /\ [Next]_vars => [Guarded]_vars
  BY <1>1
<1> QED
  BY <1>2, SerialHolds, PTL DEF Spec, ClearsUnderItsGuards

\* With one handler at a time nothing but a freeze or a thaw moves a deal that
\* has an active hold, of its own or of its organisation (assertNoActiveHold).
THEOREM HoldsSupersedeWhenSerial ==
  ASSUME NEW r, Requests = {r}
  PROVE  Spec => HoldsSupersedeProgression
<1> DEFINE Superseded ==
      ActiveHold => \/ state' \in {state, "HOLD"}
                    \/ state = "HOLD" /\ state' = "DRAFT"
<1>1. ASSUME Serial(r), [Next]_vars PROVE Superseded
  BY <1>1, StateWrites DEF Progresses, Demotes, Freezes, Thaws
<1>2. Serial(r) /\ [Next]_vars => [Superseded]_vars
  BY <1>1
<1> QED
  BY <1>2, SerialHolds, PTL DEF Spec, HoldsSupersedeProgression

\* With one handler at a time no contract is verified outside of the state that
\* asks for it.
LEMMA VerdictsNeedTheirState ==
  ASSUME NEW r, Requests = {r}, Serial(r), [Next]_vars,
         state # "EXECUTED_PENDING_VERIFICATION"
  PROVE  Verified' \subseteq Verified
<1>1. CASE UNCHANGED contract
  BY <1>1 DEF Verified
<1>2. CASE CommitContract(r)
  <2>1. contract \in [Contracts -> {"none", "PENDING", "VERIFIED", "REJECTED"}]
    BY DEF Serial, Inductive, TypeOK
  <2> QED
    BY <1>2, <2>1 DEF CommitContract, Verified
<1>3. CASE Judge(r)
  BY <1>3 DEF Judge, At, Serial, Current
<1>4. CASE \/ Call(r) \/ Abort(r)
           \/ Step(r) /\ ~CommitContract(r) /\ ~Judge(r)
  <2>1. UNCHANGED contract
    BY <1>4
       DEF Call, Step, Abort, contracts, StartTransition, StartClearance, StartPatch,
           StartSubmit, StartRebuild, StartVerify, PlaceHold, ReleaseHold, PatchTask,
           FailRule, BuildPostFunding, PatchPostFunding, EngineRead, CheckHolds,
           CheckDiscrepancies, CheckLock, CheckFunding, Commit, ReadAccepted, Seal,
           ReadRecord, CreateRecord, UpdateRecord, RecordUsage, ReadSeeds,
           DeleteTasks, WriteTasks, FailTasks, WritePatch, Reevaluate,
           ClearAuthoritative, CreateContract, FreezeState, ThawState
  <2> QED
    BY <1>1, <2>1
<1> QED
  BY <1>1, <1>2, <1>3, <1>4 DEF Next, vars, contracts

\* The ways on from EXECUTED in the table.
LEMMA WaysOnFromExecuted ==
  ASSUME NEW to, InTable("EXECUTED", to)
  PROVE  to \in {"LOCKED", "DISCREPANCY_RESTRICTED"}
BY DEF InTable, DEAL_TRANSITIONS, Rows

\* With one handler at a time a deal that has been moved to EXECUTED without a
\* verified contract goes on by a discrepancy or a hold only, and does not get
\* a verified contract before.
THEOREM ExecutedGoesBackWhenSerial ==
  ASSUME NEW r, Requests = {r}
  PROVE  Spec => ExecutedNeedsAnotherRound
<1> DEFINE Back ==
      state = "EXECUTED" /\ Verified = {} =>
        /\ Verified' = {}
        /\ state' \in {"EXECUTED", "DISCREPANCY_RESTRICTED", "HOLD"}
<1>1. ASSUME Serial(r), [Next]_vars, state = "EXECUTED", Verified = {}
      PROVE  /\ Verified' = {}
             /\ state' \in {"EXECUTED", "DISCREPANCY_RESTRICTED", "HOLD"}
  <2>1. Verified' = {}
    BY <1>1, VerdictsNeedTheirState
  <2>2. state' = state \/ Progresses \/ state' = "HOLD"
    BY <1>1, StateWrites DEF Demotes, Demotable, Freezes, Thaws
  <2>3. CASE Progresses
    <3>1. state' \in {"LOCKED", "DISCREPANCY_RESTRICTED"}
      BY <1>1, <2>3, WaysOnFromExecuted DEF Progresses
    <3> QED
      BY <1>1, <2>1, <2>3, <3>1 DEF Progresses
  <2> QED
    BY <1>1, <2>1, <2>2, <2>3
<1>2. Serial(r) /\ [Next]_vars => [Back]_vars
  BY <1>1
<1> QED
  BY <1>2, SerialHolds, PTL DEF Spec, ExecutedNeedsAnotherRound

=============================================================================
