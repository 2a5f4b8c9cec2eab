---------------------------- MODULE PackageJobs ----------------------------
(***************************************************************************)
(* A package job of the API: the request that creates it, the queue that   *)
(* delivers it, and the worker that stores the package, records it and     *)
(* certifies it.  Jobs share nothing but the deal they read: one is        *)
(* modelled.                                                               *)
(*                                                                         *)
(* The queue delivers a job again when its lock is not renewed in time.    *)
(* The worker may have died, or be slow and go on beside the new delivery, *)
(* so that each delivery is a run of its own.                              *)
(***************************************************************************)
EXTENDS Integers

CONSTANTS
  Artifacts,   \* the formats that are asked for
  MaxStalls,   \* the deliveries after the first: the queue's maxStalledCount
  MaxEdits     \* bound: changes to the deal while the job is there

ASSUME ArtifactsAssumption == Artifacts \in Nat \ {0}
ASSUME MaxStallsAssumption == MaxStalls \in Nat
ASSUME MaxEditsAssumption == MaxEdits \in Nat

VARIABLES
  deal,        \* what the deal holds, counted up by each change
  certified,   \* the job is of a kind that is certified
  hasQueue,    \* REDIS_URL is set
  status,      \* PackageJob.status, none before the job is there
  bundle,      \* PackageJob.bundleSha256: the deal it was made of, 0 when null
  rows,        \* GeneratedPackage: the deals that rows were added for
  manifest,    \* PackageManifest.manifestJson, 0 when there is no row
  objects,     \* the objects of the package, each with the deal it was made of
  usage,       \* the export has been charged
  creator,     \* the request that creates the job
  queue,       \* the job in the queue
  stalls,      \* how often it has been delivered again
  run,         \* the runs of the worker, by delivery
  overlapped,  \* history: a run was started beside another
  stranded     \* history: the job was given up without a word to the database

package == <<status, bundle, rows, manifest>>
fixed == <<certified, hasQueue>>
history == <<overlapped, stranded>>
vars == <<deal, fixed, package, objects, usage, creator, queue, stalls, run, history>>

Deals == 1..MaxEdits + 1
Keys == 0..Artifacts    \* manifest.json, and a bundle for each format
Runs == 1..MaxStalls + 1

PackageJobStatus == {"none", "QUEUED", "PROCESSING", "SUCCEEDED", "FAILED"}
CreatorPCs == {"start", "usage", "enqueue", "end"}
QueueStates == {"none", "waiting", "active", "completed", "failed"}
RunPCs == {"none", "load", "mark", "put", "commit", "certify", "audit", "catch",
           "end", "dead"}
Run == [pc: RunPCs, deal: 0..MaxEdits + 1, key: Keys]
NoRun == [pc |-> "none", deal |-> 0, key |-> 0]

Init ==
  /\ deal = 1
  /\ certified \in BOOLEAN
  /\ hasQueue \in BOOLEAN
  /\ status = "none"
  /\ bundle = 0
  /\ rows = {}
  /\ manifest = 0
  /\ objects = [k \in Keys |-> 0]
  /\ usage = FALSE
  /\ creator = "start"
  /\ queue = "none"
  /\ stalls = 0
  /\ run = [r \in Runs |-> NoRun]
  /\ overlapped = FALSE
  /\ stranded = FALSE

-----------------------------------------------------------------------------
(* createPackageJob.                                                       *)

InsertJob ==
  /\ creator = "start"
  /\ creator' = "usage"
  /\ status' = "QUEUED"
  /\ UNCHANGED <<deal, fixed, bundle, rows, manifest, objects, usage, queue, stalls,
                 run, history>>

\* The key of the usage event is that of the job, which is new.
RecordUsage ==
  /\ creator = "usage"
  /\ creator' = "enqueue"
  /\ usage' = TRUE
  /\ UNCHANGED <<deal, fixed, package, objects, queue, stalls, run, history>>

\* Without a queue the request returns the job that nobody will work on.
EnqueueJob ==
  /\ creator = "enqueue"
  /\ creator' = "end"
  /\ queue' = IF hasQueue THEN "waiting" ELSE "none"
  /\ stranded' = (stranded \/ ~hasQueue)
  /\ UNCHANGED <<deal, fixed, package, objects, usage, stalls, run, overlapped>>

\* The process dies or a statement fails: the job that was inserted stays.
CutCreate ==
  /\ creator \in {"usage", "enqueue"}
  /\ creator' = "end"
  /\ stranded' = TRUE
  /\ UNCHANGED <<deal, fixed, package, objects, usage, queue, stalls, run, overlapped>>

-----------------------------------------------------------------------------
(* The queue.                                                              *)

Current == stalls + 1
Working(r) == run[r].pc \notin {"none", "end", "dead"}

Deliver ==
  /\ queue = "waiting"
  /\ queue' = "active"
  /\ run' = [run EXCEPT ![Current].pc = "load"]
  /\ overlapped' = (overlapped \/ \E r \in Runs : Working(r))
  /\ UNCHANGED <<deal, fixed, package, objects, usage, creator, stalls, stranded>>

\* A job whose lock has run out is delivered again, or else fails in the queue.
Stall ==
  /\ queue = "active"
  /\ IF stalls < MaxStalls
       THEN /\ queue' = "waiting" /\ stalls' = stalls + 1
            /\ UNCHANGED stranded
       ELSE /\ queue' = "failed" /\ stranded' = TRUE
            /\ UNCHANGED stalls
  /\ UNCHANGED <<deal, fixed, package, objects, usage, creator, run, overlapped>>

\* A run that ends tells the queue, which listens to the current delivery only.
Tell(r, result) ==
  queue' = IF r = Current /\ queue = "active" THEN result ELSE queue

-----------------------------------------------------------------------------
(* processPackageJob, in a worker that catches what it throws.             *)

At(r, pc) == run[r].pc = pc
Goto(r, pc) == run' = [run EXCEPT ![r].pc = pc]

\* One query reads the job with the deal and its documents.
LoadDeal(r) ==
  /\ At(r, "load")
  /\ run' = [run EXCEPT ![r].pc = "mark", ![r].deal = deal]
  /\ UNCHANGED <<deal, fixed, package, objects, usage, creator, queue, stalls, history>>

\* Seeded fault: the job keeps its status while it is processed.
MarkNothing(r) ==
  /\ At(r, "mark")
  /\ run' = [run EXCEPT ![r].pc = "put", ![r].key = 0]
  /\ UNCHANGED <<deal, fixed, package, objects, usage, creator, queue, stalls, history>>

MarkProcessing(r) ==
  /\ At(r, "mark")
  /\ status' = "PROCESSING"
  /\ run' = [run EXCEPT ![r].pc = "put", ![r].key = 0]
  /\ UNCHANGED <<deal, fixed, bundle, rows, manifest, objects, usage, creator, queue,
                 stalls, history>>

\* Seeded fault: the objects are counted from one.
PutPastTheLast(r) ==
  /\ At(r, "put")
  /\ LET k == run[r].key
     IN  /\ objects' = [objects EXCEPT ![k] = run[r].deal]
         /\ run' = [run EXCEPT ![r].pc = IF k > Artifacts THEN "commit" ELSE "put",
                               ![r].key = k + 1]
  /\ UNCHANGED <<deal, fixed, package, usage, creator, queue, stalls, history>>

\* The objects of every run have the same keys.
PutObject(r) ==
  /\ At(r, "put")
  /\ LET k == run[r].key
     IN  /\ objects' = [objects EXCEPT ![k] = run[r].deal]
         /\ run' = IF k = Artifacts THEN [run EXCEPT ![r].pc = "commit"]
                                    ELSE [run EXCEPT ![r].key = k + 1]
  /\ UNCHANGED <<deal, fixed, package, usage, creator, queue, stalls, history>>

\* One transaction; rows are added, whatever rows there are.
CommitPackage(r) ==
  /\ At(r, "commit")
  /\ rows' = rows \cup {run[r].deal}
  /\ bundle' = run[r].deal
  /\ status' = "SUCCEEDED"
  /\ Goto(r, IF certified THEN "certify" ELSE "audit")
  /\ UNCHANGED <<deal, fixed, manifest, objects, usage, creator, queue, stalls, history>>

\* Seeded fault: a second manifest takes the place of the first.
CertifyAgain(r) ==
  /\ At(r, "certify")
  /\ manifest' = run[r].deal
  /\ Goto(r, "audit")
  /\ UNCHANGED <<deal, fixed, status, bundle, rows, objects, usage, creator, queue,
                 stalls, history>>

\* persistPackageCertificationRecord: the manifest of a job is unique, a second
\* one is an error.
Certify(r) ==
  /\ At(r, "certify")
  /\ IF manifest = 0
       THEN manifest' = run[r].deal /\ Goto(r, "audit")
       ELSE Goto(r, "catch") /\ UNCHANGED manifest
  /\ UNCHANGED <<deal, fixed, status, bundle, rows, objects, usage, creator, queue,
                 stalls, history>>

AuditSuccess(r) ==
  /\ At(r, "audit")
  /\ Goto(r, "end")
  /\ Tell(r, "completed")
  /\ UNCHANGED <<deal, fixed, package, objects, usage, creator, stalls, history>>

\* A statement fails, wherever it is.
Fail(r) ==
  /\ run[r].pc \in {"load", "mark", "put", "commit", "certify", "audit"}
  /\ Goto(r, "catch")
  /\ UNCHANGED <<deal, fixed, package, objects, usage, creator, queue, stalls, history>>

\* Seeded fault: the error is passed on to the queue only.
CatchNothing(r) ==
  /\ At(r, "catch")
  /\ Goto(r, "end")
  /\ Tell(r, "failed")
  /\ UNCHANGED <<deal, fixed, package, objects, usage, creator, stalls, history>>

\* The job is marked failed, whatever its status, and the error thrown again.
Catch(r) ==
  /\ At(r, "catch")
  /\ status' = "FAILED"
  /\ Goto(r, "end")
  /\ Tell(r, "failed")
  /\ UNCHANGED <<deal, fixed, bundle, rows, manifest, objects, usage, creator, stalls,
                 history>>

\* The mark fails too.
CatchFails(r) ==
  /\ At(r, "catch")
  /\ Goto(r, "end")
  /\ Tell(r, "failed")
  /\ stranded' = TRUE
  /\ UNCHANGED <<deal, fixed, package, objects, usage, creator, stalls, overlapped>>

\* There is another delivery if the job is waiting, or its current run dies.
Awaited(r) == queue = "waiting" \/ (queue = "active" /\ r = Current)

\* The process dies.
Die(r) ==
  /\ Working(r)
  /\ Goto(r, "dead")
  /\ stranded' = (stranded \/ ~Awaited(r))
  /\ UNCHANGED <<deal, fixed, package, objects, usage, creator, queue, stalls, overlapped>>

-----------------------------------------------------------------------------
\* The deal and its documents change.
EditDeal ==
  /\ deal <= MaxEdits
  /\ deal' = deal + 1
  /\ UNCHANGED <<fixed, package, objects, usage, creator, queue, stalls, run, history>>

\* What a run does next by itself.
Work(r) ==
  \/ LoadDeal(r)
  \/ MarkProcessing(r)
  \/ PutObject(r)
  \/ CommitPackage(r)
  \/ Certify(r)
  \/ AuditSuccess(r)
  \/ Catch(r)

Create == InsertJob \/ RecordUsage \/ EnqueueJob

Next ==
  \/ Create
  \/ CutCreate
  \/ Deliver
  \/ Stall
  \/ EditDeal
  \/ \E r \in Runs : Work(r) \/ Fail(r) \/ CatchFails(r) \/ Die(r)

\* The request and a run go on while their process lives; the queue delivers what
\* waits, and notices that the run of a job has died.
Fairness ==
  /\ WF_vars(Create)
  /\ WF_vars(Deliver)
  /\ WF_vars(At(Current, "dead") /\ Stall)
  /\ \A r \in Runs : WF_vars(Work(r))

Spec == Init /\ [][Next]_vars /\ Fairness

-----------------------------------------------------------------------------
TypeOK ==
  /\ deal \in Deals
  /\ certified \in BOOLEAN
  /\ hasQueue \in BOOLEAN
  /\ status \in PackageJobStatus
  /\ bundle \in 0..MaxEdits + 1
  /\ rows \subseteq Deals
  /\ manifest \in 0..MaxEdits + 1
  /\ objects \in [Keys -> 0..MaxEdits + 1]
  /\ usage \in BOOLEAN
  /\ creator \in CreatorPCs
  /\ queue \in QueueStates
  /\ stalls \in 0..MaxStalls
  /\ run \in [Runs -> Run]
  /\ overlapped \in BOOLEAN
  /\ stranded \in BOOLEAN

\* What the job names is what was committed, only of a job that was charged; a
\* manifest is of a committed package.
RecordIsBacked ==
  /\ bundle # 0 => bundle \in rows
  /\ manifest # 0 => certified /\ manifest \in rows
  /\ status = "SUCCEEDED" => bundle # 0
  /\ rows # {} => usage

\* Unless a run was started beside another, a package that succeeded is stored as
\* it was recorded, and a job the queue completed has succeeded, with the manifest
\* of its package when it is certified.
PackageIsStored ==
  ~overlapped =>
    /\ status = "SUCCEEDED" => \A k \in Keys : objects[k] = bundle
    /\ queue = "completed" =>
         /\ status = "SUCCEEDED"
         /\ certified => manifest = bundle

\* A package can be traced to its objects: across deliveries, errors at any
\* statement, dying workers and changes of the deal.
PackageIsTraceable == RecordIsBacked /\ PackageIsStored

\* Whatever runs of a job overlap, and wherever one ends, it is charged once and
\* before any work, a package that was recorded stays, of a state of the deal
\* that there was, and the first manifest is the only one (processPackageJob,
\* persistPackageCertificationRecord).
Record ==
  INSTANCE PackageRecord WITH
    charged <- usage,
    packages <- rows,
    current <- bundle,
    certificate <- manifest
ImplementsPackage == Record!Spec

\* A job that was created ends as succeeded or failed, unless the request was cut
\* short, there is no queue, the queue gave it up or the failure was not recorded.
JobsEnd ==
  status \in {"QUEUED", "PROCESSING"} ~>
    status \in {"SUCCEEDED", "FAILED"} \/ stranded
=============================================================================
