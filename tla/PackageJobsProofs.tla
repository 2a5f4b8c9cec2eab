------------------------- MODULE PackageJobsProofs -------------------------
(***************************************************************************)
(* Theorems about PackageJobs, for any number of formats, of deliveries    *)
(* and of changes to the deal.                                             *)
(*                                                                         *)
(* The inductive invariant has three layers.  Typed: what a run has loaded *)
(* by the place it is at.  Backed: what was charged, committed and         *)
(* certified before.  Stored: as long as no run was started beside another *)
(* there is one that works, and the objects are as far as it has come.     *)
(* That PackageRecord is implemented follows from the first two.           *)
(***************************************************************************)
EXTENDS PackageJobs, TLAPS

-----------------------------------------------------------------------------
(* Definitions.                                                            *)

Typed ==
  /\ TypeOK
  /\ \A r \in Runs :
       run[r].pc \in {"mark", "put", "commit", "certify", "audit"} =>
         run[r].deal \in Deals

\* Where the request and the queue are, and what has been done by then.
InOrder ==
  /\ creator = "enqueue" \/ queue # "none" => usage
  /\ creator # "end" => queue = "none"
  /\ queue = "none" => \A r \in Runs : run[r].pc = "none"

\* What a run has committed by the place it is at.
HasCommitted(r) ==
  /\ run[r].pc \in {"certify", "audit"} => run[r].deal \in rows
  /\ run[r].pc = "certify" => certified

Backed ==
  /\ RecordIsBacked
  /\ InOrder
  /\ \A r \in Runs : HasCommitted(r)

\* How far the objects are by the place a run is at.
HasStored(r) ==
  /\ run[r].pc = "put" =>
       status # "SUCCEEDED"
       /\ \A k \in Keys : k < run[r].key => objects[k] = run[r].deal
  /\ run[r].pc = "commit" =>
       status # "SUCCEEDED" /\ \A k \in Keys : objects[k] = run[r].deal
  /\ run[r].pc \in {"certify", "audit"} =>
       status = "SUCCEEDED" /\ bundle = run[r].deal
  /\ run[r].pc = "audit" /\ certified => manifest = bundle

OneWorks == \A r, q \in Runs : Working(r) /\ Working(q) => r = q

Stored ==
  ~overlapped =>
    /\ OneWorks
    /\ \A r \in Runs : HasStored(r)
    /\ status = "SUCCEEDED" => \A k \in Keys : objects[k] = bundle
    /\ queue = "completed" =>
         /\ status = "SUCCEEDED"
         /\ certified => manifest = bundle
         /\ \A r \in Runs : ~Working(r)

IInv == Typed /\ Backed /\ Stored

\* Where a run goes, and what it has loaded there.
Moved(r, pc, d, k) ==
  /\ run' \in [Runs -> Run]
  /\ run'[r].pc = pc
  /\ run'[r].deal = d
  /\ run'[r].key = k
  /\ \A q \in Runs : q # r => run'[q] = run[q]

-----------------------------------------------------------------------------
(* How runs move.                                                          *)

LEMMA Ranges ==
  /\ Artifacts \in Nat /\ MaxStalls \in Nat /\ MaxEdits \in Nat
  /\ 0 \in Keys /\ Artifacts \in Keys
  /\ \A k \in Keys : k # Artifacts => k + 1 \in Keys
  /\ \A k \in Keys : k < Artifacts \/ k = Artifacts
  /\ Keys \subseteq Nat
  /\ Deals \subseteq 0..MaxEdits + 1
  /\ 0 \notin Deals /\ 0 \in 0..MaxEdits + 1 /\ 1 \in Deals
BY ArtifactsAssumption, MaxStallsAssumption, MaxEditsAssumption DEF Keys, Deals

LEMMA NoRunTyped == NoRun \in Run /\ NoRun.pc = "none"
BY Ranges DEF NoRun, Run, RunPCs

LEMMA RunFields ==
  ASSUME TypeOK, NEW r \in Runs
  PROVE  /\ run \in [Runs -> Run] /\ run[r] \in Run
         /\ run[r].pc \in RunPCs
         /\ run[r].deal \in 0..MaxEdits + 1
         /\ run[r].key \in Keys
BY DEF TypeOK, Run

LEMMA CurrentIsRun == TypeOK => Current \in Runs
BY Ranges DEF TypeOK, Current, Runs

LEMMA GotoMoves ==
  ASSUME TypeOK, NEW r \in Runs, NEW pc \in RunPCs, Goto(r, pc)
  PROVE  Moved(r, pc, run[r].deal, run[r].key)
<1>1. run \in [Runs -> Run] /\ run[r] \in Run
  BY RunFields
<1>2. [run[r] EXCEPT !.pc = pc] \in Run
  BY <1>1 DEF Run
<1>3. run' = [run EXCEPT ![r] = [run[r] EXCEPT !.pc = pc]]
  BY <1>1 DEF Goto
<1> QED
  BY <1>1, <1>2, <1>3 DEF Moved, Run

LEMMA LoadMoves ==
  ASSUME TypeOK, NEW r \in Runs, LoadDeal(r)
  PROVE  Moved(r, "mark", deal, run[r].key)
<1> DEFINE x == [run[r] EXCEPT !.pc = "mark", !.deal = deal]
<1>1. run \in [Runs -> Run] /\ run[r] \in Run /\ deal \in 0..MaxEdits + 1
  BY RunFields, Ranges DEF TypeOK
<1>2. x \in Run /\ x.pc = "mark" /\ x.deal = deal /\ x.key = run[r].key
  BY <1>1 DEF Run, RunPCs
<1>3. run' = [run EXCEPT ![r] = x]
  BY <1>1 DEF LoadDeal
<1> HIDE DEF x
<1> QED
  BY <1>1, <1>2, <1>3 DEF Moved

LEMMA MarkMoves ==
  ASSUME TypeOK, NEW r \in Runs, MarkProcessing(r)
  PROVE  Moved(r, "put", run[r].deal, 0)
<1> DEFINE x == [run[r] EXCEPT !.pc = "put", !.key = 0]
<1>1. run \in [Runs -> Run] /\ run[r] \in Run
  BY RunFields
<1>2. x \in Run /\ x.pc = "put" /\ x.deal = run[r].deal /\ x.key = 0
  BY <1>1, Ranges DEF Run, RunPCs
<1>3. run' = [run EXCEPT ![r] = x]
  BY <1>1 DEF MarkProcessing
<1> HIDE DEF x
<1> QED
  BY <1>1, <1>2, <1>3 DEF Moved

LEMMA PutMoves ==
  ASSUME TypeOK, NEW r \in Runs, PutObject(r)
  PROVE  \/ run[r].key = Artifacts /\ Moved(r, "commit", run[r].deal, run[r].key)
         \/ run[r].key # Artifacts /\ Moved(r, "put", run[r].deal, run[r].key + 1)
<1>1. run \in [Runs -> Run] /\ run[r] \in Run /\ run[r].key \in Keys
  BY RunFields
<1>2. CASE run[r].key = Artifacts
  <2>1. Goto(r, "commit")
    BY <1>2 DEF PutObject, Goto
  <2> QED
    BY <1>2, <2>1, GotoMoves DEF RunPCs
<1>3. CASE run[r].key # Artifacts
  <2> DEFINE x == [run[r] EXCEPT !.key = run[r].key + 1]
  <2>1. x \in Run /\ x.pc = "put" /\ x.deal = run[r].deal /\ x.key = run[r].key + 1
    BY <1>1, <1>3, Ranges DEF Run, PutObject, At
  <2>2. run' = [run EXCEPT ![r] = x]
    BY <1>1, <1>3 DEF PutObject
  <2> HIDE DEF x
  <2> QED
    BY <1>1, <1>3, <2>1, <2>2 DEF Moved
<1> QED
  BY <1>2, <1>3

\* The steps that only change the place of a run.
LEMMA PlacesMove ==
  ASSUME TypeOK, NEW r \in Runs
  PROVE
    /\ CommitPackage(r) =>
         Moved(r, IF certified THEN "certify" ELSE "audit", run[r].deal, run[r].key)
    /\ Certify(r) =>
         Moved(r, IF manifest = 0 THEN "audit" ELSE "catch", run[r].deal, run[r].key)
    /\ AuditSuccess(r) => Moved(r, "end", run[r].deal, run[r].key)
    /\ Fail(r) => Moved(r, "catch", run[r].deal, run[r].key)
    /\ Catch(r) => Moved(r, "end", run[r].deal, run[r].key)
    /\ CatchFails(r) => Moved(r, "end", run[r].deal, run[r].key)
    /\ Die(r) => Moved(r, "dead", run[r].deal, run[r].key)
<1> DEFINE Goes(pc) == Moved(r, pc, run[r].deal, run[r].key)
<1>1. \A pc \in RunPCs : Goto(r, pc) => Goes(pc)
  BY GotoMoves
<1> HIDE DEF Goes
<1>2. /\ CommitPackage(r) => Goes(IF certified THEN "certify" ELSE "audit")
      /\ Certify(r) => Goes(IF manifest = 0 THEN "audit" ELSE "catch")
  BY <1>1 DEF CommitPackage, Certify, RunPCs
<1>3. /\ AuditSuccess(r) => Goes("end")
      /\ Fail(r) => Goes("catch")
      /\ Catch(r) => Goes("end")
      /\ CatchFails(r) => Goes("end")
      /\ Die(r) => Goes("dead")
  BY <1>1 DEF AuditSuccess, Fail, Catch, CatchFails, Die, RunPCs
<1> QED
  BY <1>2, <1>3 DEF Goes

LEMMA DeliverMoves ==
  ASSUME TypeOK, Deliver
  PROVE  /\ Current \in Runs
         /\ Moved(Current, "load", run[Current].deal, run[Current].key)
<1>1. Goto(Current, "load")
  BY DEF Deliver, Goto
<1> QED
  BY <1>1, CurrentIsRun, GotoMoves DEF RunPCs

-----------------------------------------------------------------------------
(* Types.                                                                  *)

LEMMA InitTyped == Init => Typed
<1> SUFFICES ASSUME Init PROVE Typed
  OBVIOUS
<1>1. run \in [Runs -> Run] /\ \A r \in Runs : run[r].pc = "none"
  BY NoRunTyped DEF Init
<1>2. certified \in BOOLEAN /\ hasQueue \in BOOLEAN /\ usage \in BOOLEAN
      /\ overlapped \in BOOLEAN /\ stranded \in BOOLEAN
  BY DEF Init
<1>3. /\ deal \in Deals
      /\ bundle \in 0..MaxEdits + 1
      /\ rows \subseteq Deals
      /\ manifest \in 0..MaxEdits + 1
      /\ stalls \in 0..MaxStalls
  BY Ranges DEF Init
<1>4. objects \in [Keys -> 0..MaxEdits + 1]
  BY Ranges DEF Init
<1>5. /\ status \in PackageJobStatus
      /\ creator \in CreatorPCs
      /\ queue \in QueueStates
  BY DEF Init, PackageJobStatus, CreatorPCs, QueueStates
<1> QED
  BY <1>1, <1>2, <1>3, <1>4, <1>5 DEF Typed, TypeOK

LEMMA MovesTyped ==
  ASSUME Typed, NEW r \in Runs, NEW pc, NEW d, NEW k, Moved(r, pc, d, k),
         pc \in {"mark", "put", "commit", "certify", "audit"} => d \in Deals
  PROVE  /\ run' \in [Runs -> Run]
         /\ \A q \in Runs :
              run'[q].pc \in {"mark", "put", "commit", "certify", "audit"} =>
                run'[q].deal \in Deals
BY DEF Typed, Moved

LEMMA StepTyped ==
  ASSUME Typed, [Next]_vars
  PROVE  Typed'
<1>0. TypeOK
  BY DEF Typed
<1> DEFINE RunsTyped ==
      /\ run' \in [Runs -> Run]
      /\ \A q \in Runs :
           run'[q].pc \in {"mark", "put", "commit", "certify", "audit"} =>
             run'[q].deal \in Deals
<1>1. CASE UNCHANGED vars
  BY <1>0, <1>1 DEF Typed, TypeOK, vars, package, fixed, history
<1>2. CASE Create \/ CutCreate
  <2>1. UNCHANGED <<deal, fixed, bundle, rows, manifest, objects, stalls, run, overlapped>>
    BY <1>2 DEF Create, InsertJob, RecordUsage, EnqueueJob, CutCreate, package, history
  <2>2. /\ status' \in PackageJobStatus
        /\ creator' \in CreatorPCs
        /\ queue' \in QueueStates
    BY <1>0, <1>2 DEF Create, InsertJob, RecordUsage, EnqueueJob, CutCreate, package,
                      TypeOK, PackageJobStatus, CreatorPCs, QueueStates
  <2>3. usage' \in BOOLEAN /\ stranded' \in BOOLEAN
    BY <1>0, <1>2 DEF Create, InsertJob, RecordUsage, EnqueueJob, CutCreate, history,
                      TypeOK
  <2> QED
    BY <1>0, <2>1, <2>2, <2>3 DEF Typed, TypeOK, fixed
<1>3. CASE Deliver
  <2>1. RunsTyped
    BY <1>0, <1>3, DeliverMoves, MovesTyped
  <2>2. queue' \in QueueStates /\ overlapped' \in BOOLEAN
    BY <1>3 DEF Deliver, QueueStates
  <2> QED
    BY <1>0, <1>3, <2>1, <2>2 DEF Typed, TypeOK, Deliver, package, fixed
<1>4. CASE Stall
  <2>1. queue' \in QueueStates
    BY <1>4 DEF Stall, QueueStates
  <2>2. stranded' \in BOOLEAN
    BY <1>0, <1>4 DEF Stall, TypeOK
  <2>3. stalls' \in 0..MaxStalls
    BY <1>0, <1>4, Ranges DEF Stall, TypeOK
  <2> QED
    BY <1>0, <1>4, <2>1, <2>2, <2>3 DEF Typed, TypeOK, Stall, package, fixed
<1>5. CASE EditDeal
  <2>1. deal' \in Deals
    BY <1>0, <1>5, Ranges DEF EditDeal, TypeOK, Deals
  <2> QED
    BY <1>0, <1>5, <2>1 DEF Typed, TypeOK, EditDeal, package, fixed, history
<1>6. ASSUME NEW r \in Runs, Work(r) \/ Fail(r) \/ CatchFails(r) \/ Die(r)
      PROVE  Typed'
  <2>1. CASE LoadDeal(r)
    <3>1. RunsTyped
      BY <1>0, <2>1, LoadMoves, MovesTyped DEF TypeOK
    <3> QED
      BY <1>0, <2>1, <3>1 DEF Typed, TypeOK, LoadDeal, package, fixed, history
  <2>2. CASE MarkProcessing(r)
    <3>1. RunsTyped
      BY <1>0, <2>2, MarkMoves, MovesTyped DEF Typed, MarkProcessing, At
    <3>2. status' \in PackageJobStatus
      BY <2>2 DEF MarkProcessing, PackageJobStatus
    <3> QED
      BY <1>0, <2>2, <3>1, <3>2 DEF Typed, TypeOK, MarkProcessing, fixed, history
  <2>3. CASE PutObject(r)
    <3>1. RunsTyped
      BY <1>0, <2>3, PutMoves, MovesTyped DEF Typed, PutObject, At
    <3>2. objects' \in [Keys -> 0..MaxEdits + 1]
      BY <1>0, <2>3, RunFields DEF TypeOK, PutObject
    <3> QED
      BY <1>0, <2>3, <3>1, <3>2 DEF Typed, TypeOK, PutObject, package, fixed, history
  <2>4. CASE CommitPackage(r)
    <3>1. run[r].deal \in Deals
      BY <2>4 DEF Typed, CommitPackage, At
    <3>2. RunsTyped
      BY <1>0, <2>4, <3>1, PlacesMove, MovesTyped
    <3>3. /\ rows' \subseteq Deals /\ bundle' \in 0..MaxEdits + 1
          /\ status' \in PackageJobStatus
      BY <1>0, <2>4, <3>1, Ranges DEF TypeOK, CommitPackage, PackageJobStatus
    <3> QED
      BY <1>0, <2>4, <3>2, <3>3 DEF Typed, TypeOK, CommitPackage, fixed, history
  <2>5. CASE Certify(r)
    <3>1. run[r].deal \in Deals
      BY <2>5 DEF Typed, Certify, At
    <3>2. RunsTyped
      BY <1>0, <2>5, <3>1, PlacesMove, MovesTyped
    <3>3. manifest' \in 0..MaxEdits + 1
      BY <1>0, <2>5, <3>1, Ranges DEF TypeOK, Certify
    <3> QED
      BY <1>0, <2>5, <3>2, <3>3 DEF Typed, TypeOK, Certify, fixed, history
  <2>6. CASE AuditSuccess(r)
    <3>1. RunsTyped
      BY <1>0, <2>6, PlacesMove, MovesTyped
    <3>2. queue' \in QueueStates
      BY <1>0, <2>6 DEF AuditSuccess, Tell, TypeOK, QueueStates
    <3> QED
      BY <1>0, <2>6, <3>1, <3>2 DEF Typed, TypeOK, AuditSuccess, package, fixed, history
  <2>7. CASE Fail(r)
    <3>1. RunsTyped
      BY <1>0, <2>7, PlacesMove, MovesTyped
    <3> QED
      BY <1>0, <2>7, <3>1 DEF Typed, TypeOK, Fail, package, fixed, history
  <2>8. CASE Catch(r)
    <3>1. RunsTyped
      BY <1>0, <2>8, PlacesMove, MovesTyped
    <3>2. queue' \in QueueStates /\ status' \in PackageJobStatus
      BY <1>0, <2>8 DEF Catch, Tell, TypeOK, QueueStates, PackageJobStatus
    <3> QED
      BY <1>0, <2>8, <3>1, <3>2 DEF Typed, TypeOK, Catch, fixed, history
  <2>9. CASE CatchFails(r)
    <3>1. RunsTyped
      BY <1>0, <2>9, PlacesMove, MovesTyped
    <3>2. queue' \in QueueStates
      BY <1>0, <2>9 DEF CatchFails, Tell, TypeOK, QueueStates
    <3> QED
      BY <1>0, <2>9, <3>1, <3>2 DEF Typed, TypeOK, CatchFails, package, fixed
  <2>10. CASE Die(r)
    <3>1. RunsTyped
      BY <1>0, <2>10, PlacesMove, MovesTyped
    <3>2. stranded' \in BOOLEAN
      BY <2>10 DEF Die
    <3> QED
      BY <1>0, <2>10, <3>1, <3>2 DEF Typed, TypeOK, Die, package, fixed
  <2> QED
    BY <1>6, <2>1, <2>2, <2>3, <2>4, <2>5, <2>6, <2>7, <2>8, <2>9, <2>10 DEF Work
<1> QED
  BY <1>1, <1>2, <1>3, <1>4, <1>5, <1>6 DEF Next

LEMMA JobsTyped == Spec => []Typed
<1> QED
  BY InitTyped, StepTyped, PTL DEF Spec

\* Every variable of the job, its queue and its runs keeps its type, for any number
\* of formats and deliveries.
THEOREM JobsTypeCorrect == Spec => []TypeOK
<1>1. Typed => TypeOK
  BY DEF Typed
<1> QED
  BY <1>1, JobsTyped, PTL

-----------------------------------------------------------------------------
(* What is backed.                                                         *)

LEMMA InitBacked == Init => Backed
<1> SUFFICES ASSUME Init PROVE Backed
  OBVIOUS
<1>1. \A r \in Runs : run[r].pc = "none"
  BY NoRunTyped DEF Init
<1>2. \A r \in Runs : HasCommitted(r)
  BY <1>1 DEF HasCommitted
<1> QED
  BY <1>1, <1>2 DEF Init, Backed, RecordIsBacked, InOrder

\* What the other runs have committed stays.
LEMMA OthersCommitted ==
  ASSUME Backed, NEW r \in Runs, NEW pc, NEW d, NEW k, Moved(r, pc, d, k),
         HasCommitted(r)', rows \subseteq rows', UNCHANGED certified
  PROVE  \A q \in Runs : HasCommitted(q)'
BY DEF Backed, HasCommitted, Moved

\* A run is not moved before the job has been enqueued.
LEMMA WorkIsOrdered ==
  ASSUME Backed, NEW r \in Runs, run[r].pc # "none",
         NEW pc, NEW d, NEW k, Moved(r, pc, d, k),
         UNCHANGED <<creator, usage>>, queue' = queue \/ queue' \in {"completed", "failed"}
  PROVE  InOrder' /\ usage
<1>1. queue # "none"
  BY DEF Backed, InOrder
<1> QED
  BY <1>1 DEF Backed, InOrder

LEMMA StepBacked ==
  ASSUME Typed, Backed, [Next]_vars
  PROVE  Backed'
<1>0. TypeOK /\ InOrder /\ RecordIsBacked /\ \A r \in Runs : HasCommitted(r)
  BY DEF Typed, Backed
<1>1. CASE UNCHANGED vars
  BY <1>0, <1>1 DEF Backed, RecordIsBacked, InOrder, HasCommitted, vars, package, fixed,
                    history
<1>2. CASE Create \/ CutCreate
  <2>0. UNCHANGED <<certified, bundle, rows, manifest, run>> /\ (usage => usage')
        /\ (status' = status \/ status' = "QUEUED")
    BY <1>2 DEF Create, InsertJob, RecordUsage, EnqueueJob, CutCreate, package, fixed
  <2>1. RecordIsBacked'
    BY <1>0, <2>0 DEF RecordIsBacked
  <2>2. InOrder'
    BY <1>0, <1>2, <2>0 DEF InOrder, Create, InsertJob, RecordUsage, EnqueueJob, CutCreate
  <2>3. \A r \in Runs : HasCommitted(r)'
    BY <1>0, <2>0 DEF HasCommitted
  <2> QED
    BY <2>1, <2>2, <2>3 DEF Backed
<1>3. CASE Deliver
  <2>0. UNCHANGED <<certified, package, usage, creator>> /\ queue' = "active"
        /\ queue = "waiting"
    BY <1>3 DEF Deliver, fixed
  <2>1. PICK r \in Runs : Moved(r, "load", run[r].deal, run[r].key)
    BY <1>0, <1>3, DeliverMoves
  <2>2. \A q \in Runs : HasCommitted(q)'
    BY <1>0, <2>0, <2>1 DEF HasCommitted, Moved, package
  <2> QED
    BY <1>0, <2>0, <2>2 DEF Backed, RecordIsBacked, InOrder, package
<1>4. CASE Stall
  BY <1>0, <1>4 DEF Stall, Backed, RecordIsBacked, InOrder, HasCommitted, package, fixed
<1>5. CASE EditDeal
  BY <1>0, <1>5 DEF EditDeal, Backed, RecordIsBacked, InOrder, HasCommitted, package,
                    fixed, history
<1>6. ASSUME NEW r \in Runs, Work(r) \/ Fail(r) \/ CatchFails(r) \/ Die(r)
      PROVE  Backed'
  <2>1. ASSUME NEW pc, NEW d, NEW k, Moved(r, pc, d, k), run[r].pc # "none",
               pc \notin {"certify", "audit"},
               UNCHANGED <<certified, bundle, rows, manifest, usage, creator>>,
               queue' = queue \/ queue' \in {"completed", "failed"},
               status' = status \/ status' \in {"PROCESSING", "FAILED"}
        PROVE  Backed'
    <3>1. HasCommitted(r)'
      BY <2>1 DEF HasCommitted, Moved
    <3>2. \A q \in Runs : HasCommitted(q)'
      BY <2>1, <3>1, OthersCommitted
    <3>3. InOrder'
      BY <2>1, WorkIsOrdered
    <3>4. RecordIsBacked'
      BY <1>0, <2>1 DEF RecordIsBacked
    <3> QED
      BY <3>2, <3>3, <3>4 DEF Backed
  <2>2. CASE LoadDeal(r)
    <3>1. Moved(r, "mark", deal, run[r].key)
      BY <1>0, <2>2, LoadMoves
    <3>2. run[r].pc = "load" /\ UNCHANGED <<certified, package, usage, creator, queue>>
      BY <2>2 DEF LoadDeal, At, fixed
    <3> QED
      BY <2>1, <3>1, <3>2 DEF package
  <2>3. CASE MarkProcessing(r)
    BY <1>0, <2>1, <2>3, MarkMoves DEF MarkProcessing, At, fixed
  <2>4. CASE PutObject(r)
    <3>1. Moved(r, "commit", run[r].deal, run[r].key)
          \/ Moved(r, "put", run[r].deal, run[r].key + 1)
      BY <1>0, <2>4, PutMoves
    <3>2. run[r].pc = "put" /\ UNCHANGED <<certified, package, usage, creator, queue>>
      BY <2>4 DEF PutObject, At, fixed
    <3> QED
      BY <2>1, <3>1, <3>2 DEF package
  <2>5. CASE CommitPackage(r)
    <3> DEFINE pc == IF certified THEN "certify" ELSE "audit"
    <3>1. Moved(r, pc, run[r].deal, run[r].key)
      BY <1>0, <2>5, PlacesMove
    <3>2. /\ rows' = rows \cup {run[r].deal} /\ bundle' = run[r].deal
          /\ run[r].pc = "commit" /\ UNCHANGED <<certified, manifest, usage, creator, queue>>
      BY <2>5 DEF CommitPackage, At, fixed
    <3>3. run[r].deal # 0
      BY <3>2, Ranges DEF Typed
    <3>4. HasCommitted(r)'
      BY <3>1, <3>2 DEF HasCommitted, Moved
    <3>5. \A q \in Runs : HasCommitted(q)'
      BY <3>1, <3>2, <3>4, OthersCommitted
    <3>6. InOrder' /\ usage
      BY <3>1, <3>2, WorkIsOrdered
    <3>7. RecordIsBacked'
      BY <1>0, <3>2, <3>3, <3>6 DEF RecordIsBacked
    <3> QED
      BY <3>5, <3>6, <3>7 DEF Backed
  <2>6. CASE Certify(r)
    <3> DEFINE pc == IF manifest = 0 THEN "audit" ELSE "catch"
    <3>1. Moved(r, pc, run[r].deal, run[r].key)
      BY <1>0, <2>6, PlacesMove
    <3>2. /\ manifest' = manifest \/ manifest' = run[r].deal
          /\ run[r].pc = "certify"
          /\ UNCHANGED <<certified, status, bundle, rows, usage, creator, queue>>
      BY <2>6 DEF Certify, At, fixed
    <3>3. run[r].deal \in rows /\ certified
      BY <1>0, <3>2 DEF HasCommitted
    <3>4. HasCommitted(r)'
      BY <3>1, <3>2, <3>3 DEF HasCommitted, Moved
    <3>5. \A q \in Runs : HasCommitted(q)'
      BY <3>1, <3>2, <3>4, OthersCommitted
    <3>6. InOrder'
      BY <3>1, <3>2, WorkIsOrdered
    <3>7. RecordIsBacked'
      BY <1>0, <3>2, <3>3 DEF RecordIsBacked
    <3> QED
      BY <3>5, <3>6, <3>7 DEF Backed
  <2>7. CASE AuditSuccess(r)
    BY <1>0, <2>1, <2>7, PlacesMove DEF AuditSuccess, At, Tell, package, fixed
  <2>8. CASE Fail(r)
    BY <1>0, <2>1, <2>8, PlacesMove DEF Fail, package, fixed
  <2>9. CASE Catch(r)
    BY <1>0, <2>1, <2>9, PlacesMove DEF Catch, At, Tell, fixed
  <2>10. CASE CatchFails(r)
    BY <1>0, <2>1, <2>10, PlacesMove DEF CatchFails, At, Tell, package, fixed
  <2>11. CASE Die(r)
    BY <1>0, <2>1, <2>11, PlacesMove DEF Die, Working, package, fixed
  <2> QED
    BY <1>6, <2>2, <2>3, <2>4, <2>5, <2>6, <2>7, <2>8, <2>9, <2>10, <2>11 DEF Work
<1> QED
  BY <1>1, <1>2, <1>3, <1>4, <1>5, <1>6 DEF Next

-----------------------------------------------------------------------------
(* What is stored.                                                         *)

LEMMA InitStored == Init => Stored
<1> SUFFICES ASSUME Init PROVE Stored
  OBVIOUS
<1>1. \A r \in Runs : run[r].pc = "none"
  BY NoRunTyped DEF Init
<1>2. OneWorks /\ \A r \in Runs : HasStored(r) /\ ~Working(r)
  BY <1>1 DEF OneWorks, HasStored, Working
<1> QED
  BY <1>2 DEF Init, Stored

\* Where one run works, the others are not in the way.
LEMMA OnlyOneMoves ==
  ASSUME Stored, ~overlapped, NEW r \in Runs, Working(r),
         NEW pc, NEW d, NEW k, Moved(r, pc, d, k), HasStored(r)'
  PROVE  /\ queue # "completed"
         /\ OneWorks'
         /\ \A q \in Runs : HasStored(q)'
         /\ pc \in {"end", "dead"} => \A q \in Runs : ~Working(q)'
<1>1. \A q \in Runs : q # r => ~Working(q) /\ run'[q] = run[q]
  BY DEF Stored, OneWorks, Moved
<1>2. \A q \in Runs : q # r => run'[q].pc \in {"none", "end", "dead"}
  BY <1>1 DEF Working
<1>3. \A q \in Runs : q # r => ~Working(q)' /\ HasStored(q)'
  BY <1>2 DEF Working, HasStored
<1>4. run'[r].pc = pc
  BY DEF Moved
<1> QED
  BY <1>3, <1>4 DEF Stored, OneWorks, Working

LEMMA StepStored ==
  ASSUME Typed, Backed, Stored, [Next]_vars
  PROVE  Stored'
<1> SUFFICES ASSUME ~overlapped' PROVE Stored'
  BY DEF Stored
<1>0. TypeOK /\ InOrder
  BY DEF Typed, Backed
<1>1. CASE UNCHANGED vars
  BY <1>1 DEF Stored, OneWorks, HasStored, Working, vars, package, fixed, history
<1>2. CASE Create \/ CutCreate
  <2>1. /\ creator # "end" /\ UNCHANGED <<run, overlapped>>
        /\ queue' \in {"none", "waiting"}
    BY <1>0, <1>2 DEF Create, InsertJob, RecordUsage, EnqueueJob, CutCreate, InOrder, history
  <2>2. \A r \in Runs : run'[r].pc = "none"
    BY <1>0, <2>1 DEF InOrder
  <2>3. \A r \in Runs : HasStored(r)' /\ ~Working(r)'
    BY <2>2 DEF HasStored, Working
  <2>4. status' = "SUCCEEDED" => \A k \in Keys : objects'[k] = bundle'
    BY <1>2, <2>1 DEF Create, InsertJob, RecordUsage, EnqueueJob, CutCreate, package,
                      Stored, history
  <2> QED
    BY <2>1, <2>3, <2>4 DEF Stored, OneWorks
<1>3. CASE Deliver
  <2>1. PICK r \in Runs : Moved(r, "load", run[r].deal, run[r].key)
    BY <1>0, <1>3, DeliverMoves
  <2>2. /\ ~overlapped /\ \A q \in Runs : ~Working(q)
        /\ queue' = "active" /\ UNCHANGED <<package, objects>>
    BY <1>3 DEF Deliver
  <2>3. \A q \in Runs : q # r => run'[q].pc \in {"none", "end", "dead"}
    BY <2>1, <2>2 DEF Moved, Working
  <2>4. \A q \in Runs : q # r => ~Working(q)' /\ HasStored(q)'
    BY <2>3 DEF Working, HasStored
  <2>5. HasStored(r)'
    BY <2>1 DEF Moved, HasStored
  <2>6. OneWorks'
    BY <2>4 DEF OneWorks
  <2> QED
    BY <2>2, <2>4, <2>5, <2>6 DEF Stored, package
<1>4. CASE Stall
  <2>1. /\ UNCHANGED <<package, fixed, objects, run, overlapped>>
        /\ queue' \in {"waiting", "failed"}
    BY <1>4 DEF Stall
  <2> QED
    BY <2>1 DEF Stored, OneWorks, HasStored, Working, package, fixed
<1>5. CASE EditDeal
  BY <1>5 DEF EditDeal, Stored, OneWorks, HasStored, Working, package, fixed, history
<1>6. ASSUME NEW r \in Runs, Work(r) \/ Fail(r) \/ CatchFails(r) \/ Die(r)
      PROVE  Stored'
  <2>0. /\ ~overlapped /\ Working(r) /\ HasStored(r)
        /\ status = "SUCCEEDED" => \A k \in Keys : objects[k] = bundle
    <3>1. UNCHANGED overlapped
      BY <1>6 DEF Work, LoadDeal, MarkProcessing, PutObject, CommitPackage, Certify,
                  AuditSuccess, Catch, Fail, CatchFails, Die, history
    <3>2. Working(r)
      BY <1>6 DEF Work, LoadDeal, MarkProcessing, PutObject, CommitPackage, Certify,
                  AuditSuccess, Catch, Fail, CatchFails, Die, At, Working
    <3> QED
      BY <3>1, <3>2 DEF Stored
  <2>1. ASSUME NEW pc, NEW d, NEW k, Moved(r, pc, d, k), HasStored(r)',
               status' = "SUCCEEDED" => \A j \in Keys : objects'[j] = bundle',
               queue' = queue \/ queue' = "failed"
        PROVE  Stored'
    BY <2>0, <2>1, OnlyOneMoves DEF Stored
  <2>2. CASE LoadDeal(r)
    <3>1. Moved(r, "mark", deal, run[r].key)
      BY <1>0, <2>2, LoadMoves
    <3>2. HasStored(r)'
      BY <3>1 DEF Moved, HasStored
    <3> QED
      BY <2>0, <2>1, <2>2, <3>1, <3>2 DEF LoadDeal, package
  <2>3. CASE MarkProcessing(r)
    <3>1. Moved(r, "put", run[r].deal, 0)
      BY <1>0, <2>3, MarkMoves
    <3>2. status' = "PROCESSING" /\ UNCHANGED queue
      BY <2>3 DEF MarkProcessing
    <3>3. \A k \in Keys : ~(k < 0)
      BY DEF Keys
    <3>4. HasStored(r)'
      BY <3>1, <3>2, <3>3 DEF Moved, HasStored
    <3> QED
      BY <2>1, <3>1, <3>2, <3>4
  <2>4. CASE PutObject(r)
    <3> DEFINE n == run[r].key
               d == run[r].deal
    <3>1. /\ status # "SUCCEEDED" /\ UNCHANGED <<status, queue>>
          /\ \A k \in Keys : k < n => objects[k] = d
          /\ objects' = [objects EXCEPT ![n] = d]
      BY <2>0, <2>4 DEF PutObject, At, HasStored, package
    <3>2. n \in Keys /\ objects \in [Keys -> 0..MaxEdits + 1]
      BY <1>0, RunFields DEF TypeOK
    <3> HIDE DEF n, d
    <3>3. \A k \in Keys : k < n \/ k = n => objects'[k] = d
      BY <3>1, <3>2
    <3>4. CASE n = Artifacts /\ Moved(r, "commit", d, n)
      <4>1. \A k \in Keys : objects'[k] = d
        BY <3>3, <3>4, Ranges
      <4>2. HasStored(r)'
        BY <3>1, <3>4, <4>1 DEF Moved, HasStored
      <4> QED
        BY <2>1, <3>1, <3>4, <4>2
    <3>5. CASE n # Artifacts /\ Moved(r, "put", d, n + 1)
      <4>1. \A k \in Keys : k < n + 1 => k < n \/ k = n
        BY <3>2 DEF Keys
      <4>2. \A k \in Keys : k < n + 1 => objects'[k] = d
        BY <3>3, <4>1
      <4>3. HasStored(r)'
        BY <3>1, <3>5, <4>2 DEF Moved, HasStored
      <4> QED
        BY <2>1, <3>1, <3>5, <4>3
    <3> QED
      BY <1>0, <2>4, <3>4, <3>5, PutMoves DEF n, d
  <2>5. CASE CommitPackage(r)
    <3> DEFINE pc == IF certified THEN "certify" ELSE "audit"
    <3>1. Moved(r, pc, run[r].deal, run[r].key)
      BY <1>0, <2>5, PlacesMove
    <3>2. /\ status' = "SUCCEEDED" /\ bundle' = run[r].deal
          /\ UNCHANGED <<certified, objects, queue>>
          /\ \A k \in Keys : objects[k] = run[r].deal
      BY <2>0, <2>5 DEF CommitPackage, At, HasStored, fixed
    <3>3. HasStored(r)'
      BY <3>1, <3>2 DEF Moved, HasStored
    <3> HIDE DEF pc
    <3> QED
      BY <2>1, <3>1, <3>2, <3>3
  <2>6. CASE Certify(r)
    <3>1. /\ status = "SUCCEEDED" /\ bundle = run[r].deal
          /\ UNCHANGED <<status, bundle, objects, queue>>
      BY <2>0, <2>6 DEF Certify, At, HasStored
    <3>2. CASE manifest = 0
      <4>1. Moved(r, "audit", run[r].deal, run[r].key) /\ manifest' = run[r].deal
        BY <1>0, <2>6, <3>2, PlacesMove DEF Certify
      <4>2. HasStored(r)'
        BY <3>1, <4>1 DEF Moved, HasStored
      <4> QED
        BY <2>0, <2>1, <3>1, <4>1, <4>2
    <3>3. CASE manifest # 0
      <4>1. Moved(r, "catch", run[r].deal, run[r].key)
        BY <1>0, <2>6, <3>3, PlacesMove
      <4>2. HasStored(r)'
        BY <4>1 DEF Moved, HasStored
      <4> QED
        BY <2>0, <2>1, <3>1, <4>1, <4>2
    <3> QED
      BY <3>2, <3>3
  <2>7. CASE AuditSuccess(r)
    <3>1. Moved(r, "end", run[r].deal, run[r].key)
      BY <1>0, <2>7, PlacesMove
    <3>2. /\ status = "SUCCEEDED"
          /\ certified => manifest = bundle
          /\ UNCHANGED <<status, bundle, manifest, certified, objects, overlapped>>
      BY <2>0, <2>7 DEF AuditSuccess, At, HasStored, package, fixed, history
    <3>3. HasStored(r)'
      BY <3>1 DEF Moved, HasStored
    <3>4. OneWorks' /\ \A q \in Runs : HasStored(q)' /\ ~Working(q)'
      BY <2>0, <3>1, <3>3, OnlyOneMoves
    <3> QED
      BY <2>0, <3>2, <3>4 DEF Stored
  <2>8. CASE Fail(r)
    <3>1. Moved(r, "catch", run[r].deal, run[r].key)
      BY <1>0, <2>8, PlacesMove
    <3>2. HasStored(r)'
      BY <3>1 DEF Moved, HasStored
    <3> QED
      BY <2>0, <2>1, <2>8, <3>1, <3>2 DEF Fail, package
  <2>9. CASE Catch(r) \/ CatchFails(r)
    <3>1. Moved(r, "end", run[r].deal, run[r].key)
      BY <1>0, <2>9, PlacesMove
    <3>2. HasStored(r)'
      BY <3>1 DEF Moved, HasStored
    <3>3. queue' = queue \/ queue' = "failed"
      BY <2>9 DEF Catch, CatchFails, Tell
    <3> QED
      BY <2>0, <2>1, <2>9, <3>1, <3>2, <3>3 DEF Catch, CatchFails, package
  <2>10. CASE Die(r)
    <3>1. Moved(r, "dead", run[r].deal, run[r].key)
      BY <1>0, <2>10, PlacesMove
    <3>2. HasStored(r)'
      BY <3>1 DEF Moved, HasStored
    <3> QED
      BY <2>0, <2>1, <2>10, <3>1, <3>2 DEF Die, package
  <2> QED
    BY <1>6, <2>2, <2>3, <2>4, <2>5, <2>6, <2>7, <2>8, <2>9, <2>10 DEF Work
<1> QED
  BY <1>1, <1>2, <1>3, <1>4, <1>5, <1>6 DEF Next

\* What a job names was charged, committed and, where it has a manifest, certified;
\* and unless a run was started beside another, a package that succeeded is stored
\* as it was recorded and a job the queue completed has succeeded.
THEOREM PackagesAlwaysTraceable == Spec => []PackageIsTraceable
<1>1. Init => IInv
  BY InitTyped, InitBacked, InitStored DEF IInv
<1>2. IInv /\ [Next]_vars => IInv'
  BY StepTyped, StepBacked, StepStored DEF IInv
<1>3. IInv => PackageIsTraceable
  BY DEF IInv, Backed, Stored, PackageIsTraceable, PackageIsStored
<1> QED
  BY <1>1, <1>2, <1>3, PTL DEF Spec

-----------------------------------------------------------------------------
(* What the job leaves in the database.                                    *)

\* A run has loaded a deal that there was.
Loaded == \A r \in Runs : run[r].deal <= deal

\* The request that has inserted the job has not charged it yet.
Requested ==
  /\ creator = "start" => status = "none" /\ ~usage
  /\ creator = "usage" => status = "QUEUED" /\ ~usage

LEMMA LoadedStep ==
  ASSUME Typed, Loaded, [Next]_vars
  PROVE  Loaded'
<1>0. /\ TypeOK /\ deal \in Nat
      /\ \A r \in Runs : run[r].deal \in Nat /\ run[r].deal <= deal
  BY RunFields, Ranges DEF Typed, TypeOK, Loaded, Deals
<1>1. ASSUME NEW r \in Runs, NEW pc, NEW d, NEW k, Moved(r, pc, d, k),
             d \in {deal, run[r].deal}, deal' = deal
      PROVE  Loaded'
  BY <1>0, <1>1 DEF Loaded, Moved
<1>2. CASE UNCHANGED vars \/ Create \/ CutCreate \/ Stall
  BY <1>0, <1>2 DEF vars, Create, InsertJob, RecordUsage, EnqueueJob, CutCreate,
                    Stall, Loaded
<1>3. CASE EditDeal
  BY <1>0, <1>3 DEF EditDeal, Loaded
<1>4. CASE Deliver
  BY <1>0, <1>1, <1>4, DeliverMoves DEF Deliver
<1>5. ASSUME NEW r \in Runs, Work(r) \/ Fail(r) \/ CatchFails(r) \/ Die(r)
      PROVE  Loaded'
  <2>1. deal' = deal
    BY <1>5 DEF Work, LoadDeal, MarkProcessing, PutObject, CommitPackage, Certify,
                AuditSuccess, Catch, Fail, CatchFails, Die
  <2>2. CASE LoadDeal(r)
    BY <1>0, <1>1, <2>1, <2>2, LoadMoves
  <2>3. CASE MarkProcessing(r) \/ PutObject(r)
    BY <1>0, <1>1, <2>1, <2>3, MarkMoves, PutMoves
  <2>4. CASE CommitPackage(r) \/ Certify(r) \/ AuditSuccess(r) \/ Catch(r)
    BY <1>0, <1>1, <2>1, <2>4, PlacesMove
  <2>5. CASE Fail(r) \/ CatchFails(r) \/ Die(r)
    BY <1>0, <1>1, <2>1, <2>5, PlacesMove
  <2> QED
    BY <1>5, <2>2, <2>3, <2>4, <2>5 DEF Work
<1> QED
  BY <1>2, <1>3, <1>4, <1>5 DEF Next

LEMMA RequestedStep ==
  ASSUME Backed, Requested, [Next]_vars
  PROVE  Requested'
<1>1. CASE Create \/ CutCreate
  BY <1>1 DEF Create, InsertJob, RecordUsage, EnqueueJob, CutCreate, Requested,
              package
<1>2. CASE Deliver \/ Stall \/ EditDeal \/ UNCHANGED vars
  BY <1>2 DEF Deliver, Stall, EditDeal, vars, Requested, package
<1>3. ASSUME NEW r \in Runs, Work(r) \/ Fail(r) \/ CatchFails(r) \/ Die(r)
      PROVE  Requested'
  <2>1. run[r].pc # "none"
    BY <1>3 DEF Work, LoadDeal, MarkProcessing, PutObject, CommitPackage, Certify,
                AuditSuccess, Catch, Fail, CatchFails, Die, Working, At
  <2>2. creator = "end"
    BY <2>1 DEF Backed, InOrder
  <2>3. creator' = creator
    BY <1>3 DEF Work, LoadDeal, MarkProcessing, PutObject, CommitPackage, Certify,
                AuditSuccess, Catch, Fail, CatchFails, Die
  <2> QED
    BY <2>2, <2>3 DEF Requested
<1> QED
  BY <1>1, <1>2, <1>3 DEF Next

\* Every step of the request, the queue and the runs is a step of PackageRecord,
\* or invisible there.
LEMMA RecordStep ==
  ASSUME Typed, Backed, Loaded, Requested, [Next]_vars
  PROVE  [Record!Next]_(Record!vars)
<1> USE DEF Record!vars, Record!job
<1>1. CASE UNCHANGED vars
  BY <1>1 DEF vars, fixed, package
<1>2. CASE Create
  <2>1. CASE InsertJob
    <3>1. Record!Request
      BY <2>1 DEF InsertJob, Requested, fixed, Record!Request
    <3> QED
      BY <3>1 DEF Record!Next
  <2>2. CASE RecordUsage
    <3>1. Record!Charge
      BY <2>2 DEF RecordUsage, Requested, fixed, package, Record!Charge
    <3> QED
      BY <3>1 DEF Record!Next
  <2>3. CASE EnqueueJob
    BY <2>3 DEF EnqueueJob, fixed, package
  <2> QED
    BY <1>2, <2>1, <2>2, <2>3 DEF Create
<1>3. CASE CutCreate \/ Deliver \/ Stall
  BY <1>3 DEF CutCreate, Deliver, Stall, fixed, package
<1>4. CASE EditDeal
  <2>1. Record!Change
    BY <1>4 DEF EditDeal, fixed, package, Record!Change
  <2> QED
    BY <2>1 DEF Record!Next
<1>5. ASSUME NEW r \in Runs, Work(r) \/ Fail(r) \/ CatchFails(r) \/ Die(r)
      PROVE  [Record!Next]_(Record!vars)
  <2>1. usage
    <3>1. run[r].pc # "none"
      BY <1>5 DEF Work, LoadDeal, MarkProcessing, PutObject, CommitPackage,
                  Certify, AuditSuccess, Catch, Fail, CatchFails, Die, Working, At
    <3> QED
      BY <3>1 DEF Backed, InOrder
  <2>2. run[r].pc \in {"commit", "certify"} => run[r].deal \in 1..deal
    <3>1. run[r].deal <= deal /\ deal \in Nat
      BY DEF Loaded, Typed, TypeOK, Deals
    <3>2. run[r].pc \in {"commit", "certify"} => run[r].deal \in Deals
      BY DEF Typed
    <3> QED
      BY <3>1, <3>2 DEF Deals
  <2>3. CASE \/ LoadDeal(r) \/ PutObject(r) \/ AuditSuccess(r) \/ Fail(r)
             \/ CatchFails(r) \/ Die(r)
    BY <2>3 DEF LoadDeal, PutObject, AuditSuccess, Fail, CatchFails, Die, fixed,
                package
  <2>4. CASE MarkProcessing(r)
    <3>1. Record!Mark("PROCESSING")
      BY <2>1, <2>4 DEF MarkProcessing, fixed, Record!Mark
    <3> QED
      BY <3>1 DEF Record!Next
  <2>5. CASE Catch(r)
    <3>1. Record!Mark("FAILED")
      BY <2>1, <2>5 DEF Catch, fixed, Record!Mark
    <3> QED
      BY <3>1 DEF Record!Next
  <2>6. CASE CommitPackage(r)
    <3>1. run[r].deal \in 1..deal
      BY <2>2, <2>6 DEF CommitPackage, At
    <3>2. Record!Make(run[r].deal)
      BY <2>1, <2>6 DEF CommitPackage, fixed, Record!Make
    <3> QED
      BY <3>1, <3>2 DEF Record!Next
  <2>7. CASE Certify(r)
    <3>1. run[r].pc = "certify" /\ run[r].deal \in rows /\ certified
      BY <2>7 DEF Certify, At, Backed, HasCommitted
    <3>2. CASE manifest = 0
      <4>1. Record!Certify(run[r].deal)
        BY <2>7, <3>1, <3>2 DEF Certify, fixed, Record!Certify
      <4> QED
        BY <2>2, <3>1, <4>1 DEF Record!Next
    <3>3. CASE manifest # 0
      BY <2>7, <3>3 DEF Certify, fixed
    <3> QED
      BY <3>2, <3>3
  <2> QED
    BY <1>5, <2>3, <2>4, <2>5, <2>6, <2>7 DEF Work
<1> QED
  BY <1>1, <1>2, <1>3, <1>4, <1>5 DEF Next

\* For any number of deliveries, formats and changes, however runs overlap: the
\* job is charged once and first, recorded packages stay, and the first manifest
\* stays, of a package that was recorded.
THEOREM PackageRecordImplemented == Spec => ImplementsPackage
<1>1. Init => Record!Init
  BY DEF Init, Record!Init
<1>2. Init => Loaded /\ Requested
  <2> SUFFICES ASSUME Init PROVE Loaded /\ Requested
    OBVIOUS
  <2>1. \A r \in Runs : run[r].deal = 0
    BY DEF Init, NoRun
  <2> QED
    BY <2>1 DEF Init, Loaded, Requested
<1>3. Init => Typed /\ Backed
  BY InitTyped, InitBacked
<1>4. Typed /\ Backed /\ Loaded /\ Requested /\ [Next]_vars
        => (Typed /\ Backed /\ Loaded /\ Requested)'
  BY StepTyped, StepBacked, LoadedStep, RequestedStep
<1>5. Typed /\ Backed /\ Loaded /\ Requested /\ [Next]_vars
        => [Record!Next]_(Record!vars)
  BY RecordStep
<1> QED
  BY <1>1, <1>2, <1>3, <1>4, <1>5, PTL DEF Spec, ImplementsPackage, Record!Spec

=============================================================================
