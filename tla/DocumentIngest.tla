--------------------------- MODULE DocumentIngest ---------------------------
(***************************************************************************)
(* The ingest of one document of the API: an upload intent, the client's   *)
(* PUTs into the staging area, the finalize that copies the bytes to their *)
(* permanent key and adds a DocumentVersion, the versions registered       *)
(* without an upload, and the queue that validates versions.               *)
(*                                                                         *)
(* PostgreSQL, the object store and the queue are three systems: a step is *)
(* one call of one of them, and a handler may be cut short between two.    *)
(* The rows of a transaction become visible together; an object that has   *)
(* been copied inside it stays when it is rolled back.                     *)
(***************************************************************************)
EXTENDS Integers

CONSTANTS
  Requests,     \* slots for requests that are served at the same time
  MaxIntents,   \* bound: upload intents
  Bytes,        \* contents, named by their SHA-256
  NoBytes,
  MaxVersions   \* bound: versions of the document

ASSUME MaxVersionsAssumption == MaxVersions \in Nat
ASSUME MaxIntentsAssumption == MaxIntents \in Nat
ASSUME NoBytesAssumption == NoBytes \notin Bytes

VARIABLES
  hasQueue,    \* REDIS_URL is set: getDocumentValidationQueue is not null
  intent,      \* DocumentUploadIntent.status of each intent
  staging,     \* the object store: the staging key of each intent
  objects,     \* the object store: the permanent key of each version
  rows,        \* the DocumentVersion rows
  ingest,      \* Document.ingestStatus
  job,         \* the validation job of each version
  req,         \* the requests being served
  replaced,    \* history: the uploads whose staged object the client has
               \* replaced between its digest and its copy
  stranded     \* history: a validation that was due has been dropped

store == <<staging, objects>>
database == <<intent, rows, ingest>>
history == <<replaced, stranded>>
vars == <<hasQueue, store, database, job, req, history>>

Versions == 1..MaxVersions
Intents == 1..MaxIntents   \* in the order of their creation
NoIntent == 0
IntentStatus == {"none", "PENDING", "COMPLETED", "EXPIRED"}
DocumentIngestStatus == {"UPLOADED", "VALIDATING", "ACCEPTED"}

\* A version: its content, whether it seals the document, and the intent it was
\* uploaded for; a registered version has none, and a storage key of its own.
DocumentVersion ==
  [version: Versions, sha256: Bytes, isImmutable: BOOLEAN,
   intent: Intents \cup {NoIntent}]

\* A job of the queue: waiting or being worked on, done but for its report, or
\* kept under its id after it has completed or failed.
JobState == {"none", "queued", "written", "kept"}

NoJob == [state |-> "none", stalled |-> FALSE]
Kept == [state |-> "kept", stalled |-> FALSE]

PCs == {"idle", "lookups", "last", "copy", "create", "cleanup", "register",
        "enqueue"}

\* A request, with what it has read: its intent, the content of the staged
\* object and the number of its version.
Request == [pc: PCs, intent: Intents \cup {NoIntent}, sha256: Bytes \cup {NoBytes},
            version: 0..MaxVersions]
Idle == [pc |-> "idle", intent |-> NoIntent, sha256 |-> NoBytes, version |-> 0]

\* createDocumentStub, on an open deal.
Init ==
  /\ hasQueue \in BOOLEAN
  /\ intent = [i \in Intents |-> "none"]
  /\ staging = [i \in Intents |-> NoBytes]
  /\ objects = [v \in Versions |-> NoBytes]
  /\ rows = {}
  /\ ingest = "UPLOADED"
  /\ job = [v \in Versions |-> NoJob]
  /\ req = [r \in Requests |-> Idle]
  /\ replaced = {}
  /\ stranded = FALSE

-----------------------------------------------------------------------------
At(r, pc) == req[r].pc = pc
Goto(r, pc) == req' = [req EXCEPT ![r].pc = pc]
Finish(r) == req' = [req EXCEPT ![r] = Idle]
Start(r, start) == req' = [req EXCEPT ![r] = start]

VersionsOf(set) == {d.version : d \in set}

\* One more than the last version.
NextVersion ==
  IF rows = {} THEN 1
  ELSE 1 + CHOOSE v \in VersionsOf(rows) : \A w \in VersionsOf(rows) : w <= v

-----------------------------------------------------------------------------
(* The client's side.                                                      *)

\* createDocumentUploadIntent.
CreateUploadIntent(i) ==
  /\ intent[i] = "none"
  /\ \A j \in 1..i - 1 : intent[j] # "none"
  /\ intent' = [intent EXCEPT ![i] = "PENDING"]
  /\ UNCHANGED <<hasQueue, store, rows, ingest, job, req, history>>

\* A request has taken the digest of the staged object and has yet to copy it.
Digested(i) == \E r \in Requests : req[r].intent = i /\ req[r].pc \in {"last", "copy"}

\* A PUT with the presigned URL, which the client may repeat until it expires,
\* whether or not a finalize is under way or has completed the intent.
Put(i, b) ==
  /\ intent[i] # "none"
  /\ staging' = [staging EXCEPT ![i] = b]
  /\ replaced' = IF Digested(i) THEN replaced \cup {i} ELSE replaced
  /\ UNCHANGED <<hasQueue, objects, database, job, req, stranded>>

-----------------------------------------------------------------------------
(* finalizeDocumentUpload.                                                 *)

IntentPending(i) == intent[i] = "PENDING"

\* An intent that is past its expiresAt is marked, and the request ends.
FinalizeLate(i) ==
  /\ IntentPending(i)
  /\ intent' = [intent EXCEPT ![i] = "EXPIRED"]
  /\ UNCHANGED <<hasQueue, store, rows, ingest, job, req, history>>

\* The checks of the intent.  A request that the checks of the hold and of the
\* state of the deal refuse changes nothing: it is one that does not start.
StartFinalize(r, i) ==
  /\ At(r, "idle")
  /\ IntentPending(i)
  /\ Start(r, [Idle EXCEPT !.pc = "lookups", !.intent = i])
  /\ UNCHANGED <<hasQueue, store, database, job, history>>

Sealed == \E d \in rows : d.isImmutable

\* Seeded fault: an upload of which nothing is staged is not refused.
CheckUnstaged(r) ==
  /\ At(r, "lookups")
  /\ LET sha256 == staging[req[r].intent]
     IN  IF Sealed \/ \E d \in rows : d.sha256 = sha256
           THEN Finish(r)
           ELSE req' = [req EXCEPT ![r].pc = "last", ![r].sha256 = sha256]
  /\ UNCHANGED <<hasQueue, store, database, job, history>>

\* The size and the SHA-256 of the staged object, then the look-up of an
\* immutable version and of the same content.
CheckStaged(r) ==
  /\ At(r, "lookups")
  /\ LET sha256 == staging[req[r].intent]
     IN  IF \/ sha256 = NoBytes
            \/ Sealed
            \/ \E d \in rows : d.sha256 = sha256
           THEN Finish(r)
           ELSE req' = [req EXCEPT ![r].pc = "last", ![r].sha256 = sha256]
  /\ UNCHANGED <<hasQueue, store, database, job, history>>

\* The last version, the first statement of the transaction.
ReadLast(r) ==
  /\ At(r, "last")
  /\ IF NextVersion \in Versions
       THEN req' = [req EXCEPT ![r].pc = "copy", ![r].version = NextVersion]
       ELSE Finish(r)
  /\ UNCHANGED <<hasQueue, store, database, job, history>>

\* Seeded fault: the row is created before the object is there.
CopyLater(r) ==
  /\ At(r, "copy")
  /\ Goto(r, "create")
  /\ UNCHANGED <<hasQueue, store, database, job, history>>

\* copyObjectInBucket: what is at the permanent key is replaced.  A staged
\* object that has been deleted in the meantime fails the request.
Copy(r) ==
  /\ At(r, "copy")
  /\ LET staged == staging[req[r].intent]
     IN  IF staged = NoBytes
           THEN Finish(r) /\ UNCHANGED objects
           ELSE /\ objects' = [objects EXCEPT ![req[r].version] = staged]
                /\ Goto(r, "create")
  /\ UNCHANGED <<hasQueue, staging, database, job, history>>

\* The unique index.
NumberFree(v) == v \notin VersionsOf(rows)

\* The version, the completed intent and the status of the document, committed
\* together, or not at all when the number is taken.
CreateVersion(r, sealing) ==
  /\ At(r, "create")
  /\ IF NumberFree(req[r].version)
       THEN /\ rows' = rows \cup
                 {[version |-> req[r].version, sha256 |-> req[r].sha256,
                   isImmutable |-> sealing, intent |-> req[r].intent]}
            /\ intent' = [intent EXCEPT ![req[r].intent] = "COMPLETED"]
            /\ ingest' = "VALIDATING"
            /\ Goto(r, "cleanup")
       ELSE Finish(r) /\ UNCHANGED <<rows, intent, ingest>>
  /\ UNCHANGED <<hasQueue, store, job, history>>

\* deleteObjectIfPresent; the audit event comes before the queue.
DeleteStaged(r) ==
  /\ At(r, "cleanup")
  /\ staging' = [staging EXCEPT ![req[r].intent] = NoBytes]
  /\ Goto(r, "enqueue")
  /\ UNCHANGED <<hasQueue, objects, database, job, history>>

-----------------------------------------------------------------------------
(* registerDocumentVersion and reprocessDocumentVersion.                   *)

StartRegister(r) ==
  /\ At(r, "idle")
  /\ NextVersion \in Versions
  /\ Start(r, [Idle EXCEPT !.pc = "register", !.version = NextVersion])
  /\ UNCHANGED <<hasQueue, store, database, job, history>>

\* The version is registered under a key of its own, with the digest that the
\* client states, sealing the document or not.
Register(r, b, sealing) ==
  /\ At(r, "register")
  /\ IF NumberFree(req[r].version)
       THEN rows' = rows \cup
              {[version |-> req[r].version, sha256 |-> b,
                isImmutable |-> sealing, intent |-> NoIntent]}
       ELSE UNCHANGED rows
  /\ Finish(r)
  /\ UNCHANGED <<hasQueue, store, intent, ingest, job, history>>

\* The version asked for, or the last one, is validated again.
StartReprocess(r, v) ==
  /\ At(r, "idle")
  /\ v \in VersionsOf(rows)
  /\ ingest' = "VALIDATING"
  /\ Start(r, [Idle EXCEPT !.pc = "enqueue", !.version = v])
  /\ UNCHANGED <<hasQueue, store, intent, rows, job, history>>

-----------------------------------------------------------------------------
(* The queue and its workers.                                              *)

Strand == stranded' = TRUE

\* Seeded fault: nothing takes the place of the queue when there is none.
EnqueueOnly(r) ==
  /\ At(r, "enqueue")
  /\ Finish(r)
  /\ IF hasQueue /\ job[req[r].version].state = "none"
       THEN job' = [job EXCEPT ![req[r].version].state = "queued"]
       ELSE UNCHANGED job
  /\ UNCHANGED <<hasQueue, store, database, history>>

\* enqueueDocumentValidation.  The id of a job is that of the document and the
\* version: an add is ignored while one is kept under it, whatever became of
\* it.  Without a queue the validation is done at once.
Enqueue(r) ==
  /\ At(r, "enqueue")
  /\ Finish(r)
  /\ LET v == req[r].version
     IN  CASE ~hasQueue ->
                ingest' = "ACCEPTED" /\ UNCHANGED <<job, stranded>>
           [] hasQueue /\ job[v].state = "none" ->
                /\ job' = [job EXCEPT ![v].state = "queued"]
                /\ UNCHANGED <<ingest, stranded>>
           [] hasQueue /\ job[v].state = "queued" ->
                UNCHANGED <<ingest, job, stranded>>
           [] OTHER ->
                Strand /\ UNCHANGED <<ingest, job>>
  /\ UNCHANGED <<hasQueue, store, intent, rows, replaced>>

\* The add is refused: Redis cannot be reached, or does not take the id.
AddFails(r) ==
  /\ At(r, "enqueue")
  /\ hasQueue
  /\ Strand
  /\ Finish(r)
  /\ UNCHANGED <<hasQueue, store, database, job, replaced>>

\* The handler is cut short: a statement fails or the process dies.
Crash(r) ==
  /\ ~At(r, "idle")
  /\ IF At(r, "cleanup") \/ At(r, "enqueue")
       THEN Strand ELSE UNCHANGED stranded
  /\ Finish(r)
  /\ UNCHANGED <<hasQueue, store, database, job, replaced>>

\* runDocumentValidationInline: the document is accepted, whichever of its
\* versions the job was for.
Validate(v) ==
  /\ job[v].state = "queued"
  /\ ingest' = "ACCEPTED"
  /\ job' = [job EXCEPT ![v].state = "written"]
  /\ UNCHANGED <<hasQueue, store, intent, rows, req, history>>

Complete(v) ==
  /\ job[v].state = "written"
  /\ job' = [job EXCEPT ![v] = Kept]
  /\ UNCHANGED <<hasQueue, store, database, req, history>>

\* A job is tried once; what it throws makes it a failed job.
FailJob(v) ==
  /\ job[v].state \in {"queued", "written"}
  /\ job' = [job EXCEPT ![v] = Kept]
  /\ Strand
  /\ UNCHANGED <<hasQueue, store, database, req, replaced>>

\* The worker dies: its job is taken again, once; the second time it fails.
Stall(v) ==
  /\ job[v].state \in {"queued", "written"}
  /\ IF job[v].stalled
       THEN /\ job' = [job EXCEPT ![v] = Kept]
            /\ Strand
       ELSE /\ job' = [job EXCEPT ![v] = [state |-> "queued", stalled |-> TRUE]]
            /\ UNCHANGED stranded
  /\ UNCHANGED <<hasQueue, store, database, req, replaced>>

-----------------------------------------------------------------------------
\* What a handler does next by itself.
Step(r) ==
  \/ CheckStaged(r)
  \/ ReadLast(r)
  \/ Copy(r)
  \/ \E sealing \in BOOLEAN : CreateVersion(r, sealing)
  \/ DeleteStaged(r)
  \/ \E b \in Bytes, sealing \in BOOLEAN : Register(r, b, sealing)
  \/ Enqueue(r)

Arrive(r) ==
  \/ \E i \in Intents : StartFinalize(r, i)
  \/ StartRegister(r)
  \/ \E v \in Versions : StartReprocess(r, v)

Work(v) == Validate(v) \/ Complete(v)

Client ==
  \E i \in Intents :
    FinalizeLate(i) \/ CreateUploadIntent(i) \/ \E b \in Bytes : Put(i, b)

Fault ==
  \/ \E r \in Requests : AddFails(r) \/ Crash(r)
  \/ \E v \in Versions : FailJob(v) \/ Stall(v)

Next ==
  \/ Client
  \/ \E r \in Requests : Arrive(r) \/ Step(r)
  \/ \E v \in Versions : Work(v)
  \/ Fault

\* A handler that is not cut short goes on, and while jobs wait or are under way
\* the workers get on with some of them.
Fairness ==
  /\ \A r \in Requests : WF_vars(Step(r))
  /\ WF_vars(\E v \in Versions : Work(v))

Spec == Init /\ [][Next]_vars /\ Fairness

-----------------------------------------------------------------------------
TypeOK ==
  /\ hasQueue \in BOOLEAN
  /\ intent \in [Intents -> IntentStatus]
  /\ staging \in [Intents -> Bytes \cup {NoBytes}]
  /\ objects \in [Versions -> Bytes \cup {NoBytes}]
  /\ rows \subseteq DocumentVersion
  /\ ingest \in DocumentIngestStatus
  /\ job \in [Versions -> [state: JobState, stalled: BOOLEAN]]
  /\ req \in [Requests -> Request]
  /\ replaced \subseteq Intents
  /\ stranded \in BOOLEAN

\* However requests overlap, a number names one version and none is left out:
\* the loser of a race for a number fails (unique index, schema.prisma).
GaplessVersions ==
  /\ \A d, e \in rows : d.version = e.version => d = e
  /\ \A d \in rows : \A v \in 1..d.version : v \in VersionsOf(rows)

\* A version that was uploaded is in the object store before it is listed,
\* wherever a handler is cut short.
StoredBeforeListed ==
  \A d \in rows : d.intent # NoIntent => objects[d.version] # NoBytes

\* The object at the key of a version is the one whose digest the row states
\* (ARCHITECTURE.md: no overwrite of sealed blobs), as long as requests come one
\* at a time and the client does not replace what it has staged between the
\* digest and the copy.  What it stages after that changes nothing.
BlobsMatchRows ==
  \A d \in rows :
    d.intent \notin replaced \cup {NoIntent} => objects[d.version] = d.sha256

\* An upload becomes one version at most, its content is new to the document,
\* and it follows no version that seals the document (the checks before the
\* transaction in document-upload-service.ts).
UploadsAreNew ==
  \A d, e \in rows :
    e.intent # NoIntent =>
      /\ d.intent = e.intent => d = e
      /\ d.version < e.version => d.sha256 # e.sha256 /\ ~d.isImmutable

\* With requests that come one at a time, whatever fails in between, the rows
\* are a history that is only continued, and the object of an uploaded version
\* stays what it was when its row was added: what the row states, unless the
\* client has replaced it between the digest and the copy
\* (finalizeDocumentUpload, registerDocumentVersion).
History ==
  INSTANCE VersionHistory WITH
    versions <- rows,
    archive <- {<<d.version, objects[d.version]>> :
                  d \in {e \in rows : e.intent # NoIntent}}
ImplementsHistory == History!Spec

\* The same of the numbers alone: it holds however many requests overlap.
ImplementsNumbering == History!Numbering

\* A document that is being validated is accepted in the end, unless its
\* handler was cut short, its job was refused or has failed, or an earlier job
\* for the same version was still kept under its id.
ValidationEnds == ingest = "VALIDATING" ~> ingest = "ACCEPTED" \/ stranded
=============================================================================
