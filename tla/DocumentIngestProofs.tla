------------------------ MODULE DocumentIngestProofs ------------------------
(***************************************************************************)
(* Theorems about DocumentIngest, for any number of requests at a time,    *)
(* and three for requests that come one at a time.                         *)
(*                                                                         *)
(* The inductive invariant has three layers.  Typed: what a request has    *)
(* read, by the place it is at.  Numbered: the numbers below that of a     *)
(* request are taken, so that the unique index leaves no gap.  Stored: a   *)
(* request that is about to add its row has copied the object.  Serial     *)
(* adds, for one request, that what it has read is still so, but for a     *)
(* staged object that the client replaces meanwhile; from it VersionHistory*)
(* follows, whose numbering follows from Numbered alone.                   *)
(***************************************************************************)
EXTENDS DocumentIngest, TLAPS

-----------------------------------------------------------------------------
(* Types.                                                                  *)

\* What a request has read by the time it is at its next step.
HasRead(r) ==
  /\ req[r].pc \in {"lookups", "last", "copy", "create", "cleanup"} =>
       req[r].intent \in Intents
  /\ req[r].pc \in {"last", "copy", "create"} => req[r].sha256 \in Bytes
  /\ req[r].pc \in {"copy", "create", "cleanup", "register", "enqueue"} =>
       req[r].version \in Versions

\* The last version that NextVersion chooses.
HasLast ==
  rows # {} => \E v \in VersionsOf(rows) : \A w \in VersionsOf(rows) : w <= v

Typed ==
  /\ TypeOK
  /\ HasLast
  /\ \A r \in Requests : HasRead(r)

LEMMA IdleTyped == Idle \in Request /\ Idle.pc = "idle"
BY MaxVersionsAssumption DEF Idle, Request, PCs, NoIntent

LEMMA VersionsInRange == Versions \subseteq 0..MaxVersions /\ Versions \subseteq Nat
BY MaxVersionsAssumption DEF Versions

LEMMA VersionsAreNumbers ==
  ASSUME TypeOK
  PROVE  VersionsOf(rows) \subseteq Versions
<1>1. \A d \in rows : d \in DocumentVersion
  BY DEF TypeOK
<1> QED
  BY <1>1 DEF VersionsOf, DocumentVersion

LEMMA InitTyped == Init => Typed
<1> SUFFICES ASSUME Init PROVE Typed
  OBVIOUS
<1>1. TypeOK
  <2>1. job \in [Versions -> [state: JobState, stalled: BOOLEAN]]
    BY DEF Init, NoJob, JobState
  <2>2. req \in [Requests -> Request]
    BY IdleTyped DEF Init
  <2>3. /\ intent \in [Intents -> IntentStatus]
        /\ staging \in [Intents -> Bytes \cup {NoBytes}]
        /\ objects \in [Versions -> Bytes \cup {NoBytes}]
    BY DEF Init, IntentStatus
  <2>4. hasQueue \in BOOLEAN /\ stranded \in BOOLEAN /\ replaced \subseteq Intents
    BY DEF Init
  <2>5. /\ rows \subseteq DocumentVersion
        /\ ingest \in DocumentIngestStatus
    BY DEF Init, DocumentIngestStatus
  <2> QED
    BY <2>1, <2>2, <2>3, <2>4, <2>5 DEF TypeOK
<1>2. HasLast
  BY DEF Init, HasLast
<1>3. \A r \in Requests : HasRead(r)
  BY DEF Init, Idle, HasRead
<1> QED
  BY <1>1, <1>2, <1>3 DEF Typed

\* The next version is greater than each version there is.
LEMMA NextVersionIsLast ==
  ASSUME Typed, NextVersion \in Versions
  PROVE  /\ \A w \in VersionsOf(rows) : w < NextVersion
         /\ rows = {} => NextVersion = 1
         /\ rows # {} => NextVersion - 1 \in VersionsOf(rows)
<1>1. VersionsOf(rows) \subseteq Versions
  BY VersionsAreNumbers DEF Typed
<1>2. CASE rows = {}
  BY <1>2 DEF NextVersion, VersionsOf
<1>3. CASE rows # {}
  <2> DEFINE Top(n) == \A w \in VersionsOf(rows) : w <= n
  <2>1. \E n \in VersionsOf(rows) : Top(n)
    BY <1>3 DEF Typed, HasLast
  <2>2. PICK n \in VersionsOf(rows) :
          n = (CHOOSE v \in VersionsOf(rows) : Top(v)) /\ Top(n)
    BY <2>1
  <2>3. NextVersion = 1 + n
    BY <1>3, <2>2 DEF NextVersion
  <2>4. n \in Nat
    BY <1>1, <2>2, VersionsInRange
  <2>5. ASSUME NEW w \in VersionsOf(rows) PROVE w < 1 + n
    <3>1. w \in Nat /\ w <= n
      BY <1>1, <2>2, VersionsInRange
    <3> QED
      BY <2>4, <3>1
  <2>6. NextVersion - 1 = n
    BY <2>3, <2>4
  <2> QED
    BY <1>3, <2>2, <2>3, <2>5, <2>6
<1> QED
  BY <1>2, <1>3

\* With one row more there is a last version again.
LEMMA LastAfterInsert ==
  ASSUME Typed, NEW d \in DocumentVersion, rows' = rows \cup {d}
  PROVE  HasLast'
<1>1. VersionsOf(rows') = VersionsOf(rows) \cup {d.version}
  BY DEF VersionsOf
<1>2. VersionsOf(rows) \subseteq Nat /\ d.version \in Nat
  BY VersionsAreNumbers, MaxVersionsAssumption
  DEF Typed, Versions, DocumentVersion
<1>3. CASE rows = {}
  BY <1>1, <1>2, <1>3 DEF HasLast, VersionsOf
<1>4. CASE rows # {}
  <2>1. PICK v \in VersionsOf(rows) : \A w \in VersionsOf(rows) : w <= v
    BY <1>4 DEF Typed, HasLast
  <2>2. CASE d.version <= v
    BY <1>1, <2>1, <2>2 DEF HasLast
  <2>3. CASE ~(d.version <= v)
    <3>1. \A w \in VersionsOf(rows') : w <= d.version
      BY <1>1, <1>2, <2>1, <2>3
    <3> QED
      BY <1>1, <3>1 DEF HasLast
  <2> QED
    BY <2>2, <2>3
<1> QED
  BY <1>3, <1>4

\* A step that leaves the rows alone and one request where it has read enough.
LEMMA OneRequestMoves ==
  ASSUME Typed, NEW r \in Requests, NEW x \in Request,
         req' = [req EXCEPT ![r] = x], HasRead(r)'
  PROVE  /\ req' \in [Requests -> Request]
         /\ \A q \in Requests : HasRead(q)'
<1>1. req \in [Requests -> Request]
  BY DEF Typed, TypeOK
<1>2. \A q \in Requests : q # r => req'[q] = req[q]
  BY <1>1
<1>3. \A q \in Requests : q # r => HasRead(q)'
  BY <1>2 DEF HasRead, Typed
<1> QED
  BY <1>1, <1>3

LEMMA FinishTyped ==
  ASSUME Typed, NEW r \in Requests, Finish(r)
  PROVE  /\ req' \in [Requests -> Request]
         /\ \A q \in Requests : HasRead(q)'
<1>1. req'[r] = Idle /\ req' = [req EXCEPT ![r] = Idle]
  BY DEF Typed, TypeOK, Finish
<1>2. HasRead(r)'
  BY <1>1, IdleTyped DEF HasRead
<1> QED
  BY <1>1, <1>2, IdleTyped, OneRequestMoves

\* A request that goes on to a place where no more has to be read.
LEMMA GotoTyped ==
  ASSUME Typed, NEW r \in Requests, NEW pc \in PCs, Goto(r, pc),
         \/ req[r].pc = "copy" /\ pc = "create"
         \/ req[r].pc = "create" /\ pc = "cleanup"
         \/ req[r].pc = "cleanup" /\ pc = "enqueue"
  PROVE  /\ req' \in [Requests -> Request]
         /\ \A q \in Requests : HasRead(q)'
<1>1. req[r] \in Request /\ HasRead(r)
  BY DEF Typed, TypeOK
<1> DEFINE x == [req[r] EXCEPT !.pc = pc]
<1>2. req' = [req EXCEPT ![r] = x] /\ req'[r] = x
  BY DEF Goto, Typed, TypeOK
<1>3. /\ x \in Request
      /\ x.pc = pc /\ x.intent = req[r].intent
      /\ x.sha256 = req[r].sha256 /\ x.version = req[r].version
  BY <1>1 DEF Request
<1>4. HasRead(r)'
  BY <1>1, <1>2, <1>3 DEF HasRead
<1> HIDE DEF x
<1> QED
  BY <1>2, <1>3, <1>4, OneRequestMoves

\* A request that starts: it has read its intent, or its version.
LEMMA StartTyped ==
  ASSUME Typed, NEW r \in Requests, NEW x \in Request, Start(r, x),
         \/ x.pc = "lookups" /\ x.intent \in Intents
         \/ x.pc \in {"register", "enqueue"} /\ x.version \in Versions
  PROVE  /\ req' \in [Requests -> Request]
         /\ \A q \in Requests : HasRead(q)'
<1>1. req' = [req EXCEPT ![r] = x] /\ req'[r] = x
  BY DEF Start, Typed, TypeOK
<1>2. HasRead(r)'
  BY <1>1 DEF HasRead
<1> QED
  BY <1>1, <1>2, OneRequestMoves

\* What the client does, and the failures.
LEMMA ClientTyped ==
  ASSUME Typed, Client
  PROVE  Typed'
<1>1. /\ intent' \in [Intents -> IntentStatus]
      /\ staging' \in [Intents -> Bytes \cup {NoBytes}]
      /\ replaced' \subseteq Intents
  BY DEF Client, FinalizeLate, CreateUploadIntent, Put, Typed, TypeOK,
         IntentStatus, store, database, history
<1>2. UNCHANGED <<hasQueue, objects, rows, ingest, job, req, stranded>>
  BY DEF Client, FinalizeLate, CreateUploadIntent, Put, store, database, history
<1> QED
  BY <1>1, <1>2 DEF Typed, TypeOK, HasLast, HasRead

LEMMA ArriveTyped ==
  ASSUME Typed, NEW r \in Requests, Arrive(r)
  PROVE  Typed'
<1>1. /\ UNCHANGED <<hasQueue, store, intent, rows, job, history>>
      /\ ingest' \in DocumentIngestStatus
  BY DEF Arrive, StartFinalize, StartRegister, StartReprocess, database, Typed,
         TypeOK, DocumentIngestStatus
<1>2. VersionsOf(rows) \subseteq Versions
  BY VersionsAreNumbers DEF Typed
<1>3. ASSUME NEW i \in Intents, StartFinalize(r, i)
      PROVE  /\ req' \in [Requests -> Request]
             /\ \A q \in Requests : HasRead(q)'
  <2> DEFINE x == [Idle EXCEPT !.pc = "lookups", !.intent = i]
  <2>1. x \in Request /\ x.pc = "lookups" /\ x.intent \in Intents
    BY IdleTyped DEF Request, PCs
  <2>2. Start(r, x)
    BY <1>3 DEF StartFinalize
  <2> HIDE DEF x
  <2> QED
    BY <2>1, <2>2, StartTyped
<1>4. ASSUME NEW pc \in {"register", "enqueue"}, NEW v \in Versions,
             Start(r, [Idle EXCEPT !.pc = pc, !.version = v])
      PROVE  /\ req' \in [Requests -> Request]
             /\ \A q \in Requests : HasRead(q)'
  <2> DEFINE x == [Idle EXCEPT !.pc = pc, !.version = v]
  <2>1. x \in Request /\ x.pc \in {"register", "enqueue"} /\ x.version \in Versions
    BY IdleTyped, VersionsInRange DEF Request, PCs
  <2>2. Start(r, x)
    BY <1>4
  <2> HIDE DEF x
  <2> QED
    BY <2>1, <2>2, StartTyped
<1>5. req' \in [Requests -> Request] /\ \A q \in Requests : HasRead(q)'
  BY <1>3, <1>4 DEF Arrive, StartRegister, StartReprocess
<1> QED
  BY <1>1, <1>5 DEF store, history, Typed, TypeOK, HasLast

LEMMA WorkTyped ==
  ASSUME Typed, NEW v \in Versions, Work(v)
  PROVE  Typed'
<1>1. ingest' \in DocumentIngestStatus
  BY DEF Work, Validate, Complete, database, Typed, TypeOK, DocumentIngestStatus
<1>2. job' \in [Versions -> [state: JobState, stalled: BOOLEAN]]
  <2>1. job \in [Versions -> [state: JobState, stalled: BOOLEAN]]
    BY DEF Typed, TypeOK
  <2>2. CASE Validate(v)
    <3>1. job' = [job EXCEPT ![v].state = "written"] /\ "written" \in JobState
      BY <2>2 DEF Validate, JobState
    <3> QED
      BY <2>1, <3>1
  <2>3. CASE Complete(v)
    <3>1. /\ job' = [job EXCEPT ![v] = Kept]
          /\ Kept \in [state: JobState, stalled: BOOLEAN]
      BY <2>3 DEF Complete, Kept, JobState
    <3> QED
      BY <2>1, <3>1
  <2> QED
    BY <2>2, <2>3 DEF Work
<1>3. UNCHANGED <<hasQueue, store, intent, rows, req, history>>
  BY DEF Work, Validate, Complete, database
<1> QED
  BY <1>1, <1>3, <1>2 DEF store, history, Typed, TypeOK, HasLast, HasRead

LEMMA FaultTyped ==
  ASSUME Typed, Fault
  PROVE  Typed'
<1>1. ASSUME NEW r \in Requests, AddFails(r) \/ Crash(r)
      PROVE  Typed'
  <2>1. /\ UNCHANGED <<hasQueue, store, database, job, replaced>>
        /\ stranded' \in BOOLEAN /\ Finish(r)
    BY <1>1 DEF AddFails, Crash, Strand, Typed, TypeOK
  <2>2. req' \in [Requests -> Request] /\ \A q \in Requests : HasRead(q)'
    BY <2>1, FinishTyped
  <2> QED
    BY <2>1, <2>2 DEF store, database, Typed, TypeOK, HasLast
<1>2. ASSUME NEW v \in Versions, FailJob(v) \/ Stall(v)
      PROVE  Typed'
  <2>1. UNCHANGED <<hasQueue, store, database, req, replaced>>
    BY <1>2 DEF FailJob, Stall
  <2>2. stranded' \in BOOLEAN
    BY <1>2 DEF FailJob, Stall, Strand, Typed, TypeOK
  <2>3. job' \in [Versions -> [state: JobState, stalled: BOOLEAN]]
    <3>1. job \in [Versions -> [state: JobState, stalled: BOOLEAN]]
      BY DEF Typed, TypeOK
    <3>2. /\ Kept \in [state: JobState, stalled: BOOLEAN]
          /\ [state |-> "queued", stalled |-> TRUE]
               \in [state: JobState, stalled: BOOLEAN]
      BY DEF Kept, JobState
    <3>3. \/ job' = [job EXCEPT ![v] = Kept]
          \/ job' = [job EXCEPT ![v] = [state |-> "queued", stalled |-> TRUE]]
      BY <1>2 DEF FailJob, Stall
    <3> QED
      BY <3>1, <3>2, <3>3
  <2> QED
    BY <2>1, <2>2, <2>3 DEF store, database, Typed, TypeOK, HasLast, HasRead
<1> QED
  BY <1>1, <1>2 DEF Fault

LEMMA StepTyped ==
  ASSUME Typed, NEW r \in Requests, Step(r)
  PROVE  Typed'
<1> USE DEF At
<1>1. TypeOK /\ HasLast /\ req[r] \in Request /\ HasRead(r)
  BY DEF Typed, TypeOK
<1>2. ASSUME UNCHANGED <<hasQueue, store, database, job, history>>,
             req' \in [Requests -> Request], \A q \in Requests : HasRead(q)'
      PROVE  Typed'
  BY <1>1, <1>2 DEF store, database, history, Typed, TypeOK, HasLast
<1>3. CASE CheckStaged(r)
  <2>1. CASE Finish(r)
    BY <1>2, <1>3, <2>1, FinishTyped DEF CheckStaged
  <2>2. CASE ~Finish(r)
    <3> DEFINE x == [req[r] EXCEPT !.pc = "last", !.sha256 = staging[req[r].intent]]
    <3>1. /\ staging[req[r].intent] \in Bytes
          /\ req' = [req EXCEPT ![r] = x]
      BY <1>1, <1>3, <2>2 DEF CheckStaged, HasRead, TypeOK
    <3>2. /\ x \in Request /\ x.pc = "last" /\ x.intent = req[r].intent
          /\ x.sha256 \in Bytes
      BY <1>1, <3>1 DEF Request, PCs
    <3> HIDE DEF x
    <3>3. HasRead(r)'
      BY <1>1, <1>3, <3>1, <3>2 DEF HasRead, TypeOK, CheckStaged
    <3> QED
      BY <1>2, <1>3, <3>1, <3>2, <3>3, OneRequestMoves DEF CheckStaged
  <2> QED
    BY <2>1, <2>2
<1>4. CASE ReadLast(r)
  <2>1. CASE Finish(r)
    BY <1>2, <1>4, <2>1, FinishTyped DEF ReadLast
  <2>2. CASE ~Finish(r)
    <3> DEFINE x == [req[r] EXCEPT !.pc = "copy", !.version = NextVersion]
    <3>1. NextVersion \in Versions /\ req' = [req EXCEPT ![r] = x]
      BY <1>1, <1>4, <2>2 DEF ReadLast, TypeOK
    <3>2. /\ x \in Request /\ x.pc = "copy" /\ x.intent = req[r].intent
          /\ x.sha256 = req[r].sha256 /\ x.version = NextVersion
      BY <1>1, <3>1, VersionsInRange DEF Request, PCs
    <3> HIDE DEF x
    <3>3. HasRead(r)'
      BY <1>1, <1>4, <3>1, <3>2 DEF HasRead, TypeOK, ReadLast
    <3> QED
      BY <1>2, <1>4, <3>1, <3>2, <3>3, OneRequestMoves DEF ReadLast
  <2> QED
    BY <2>1, <2>2
<1>5. CASE Copy(r)
  <2>1. /\ UNCHANGED <<hasQueue, staging, database, job, history>>
        /\ objects' \in [Versions -> Bytes \cup {NoBytes}]
    BY <1>1, <1>5 DEF Copy, HasRead, TypeOK
  <2>2. req' \in [Requests -> Request] /\ \A q \in Requests : HasRead(q)'
    BY <1>5, FinishTyped, GotoTyped DEF Copy, PCs
  <2> QED
    BY <1>1, <2>1, <2>2 DEF database, history, Typed, TypeOK, HasLast
<1>6. ASSUME NEW sealing \in BOOLEAN, CreateVersion(r, sealing)
      PROVE  Typed'
  <2>1. req' \in [Requests -> Request] /\ \A q \in Requests : HasRead(q)'
    BY <1>6, FinishTyped, GotoTyped DEF CreateVersion, PCs
  <2>2. UNCHANGED <<hasQueue, store, job, history>>
    BY <1>6 DEF CreateVersion
  <2>3. intent' \in [Intents -> IntentStatus] /\ ingest' \in DocumentIngestStatus
    BY <1>1, <1>6
    DEF CreateVersion, TypeOK, IntentStatus, DocumentIngestStatus
  <2> DEFINE d == [version |-> req[r].version, sha256 |-> req[r].sha256,
                   isImmutable |-> sealing, intent |-> req[r].intent]
  <2>4. d \in DocumentVersion
    BY <1>1, <1>6 DEF CreateVersion, HasRead, DocumentVersion
  <2>5. rows' = rows \/ rows' = rows \cup {d}
    BY <1>6 DEF CreateVersion
  <2> HIDE DEF d
  <2>6. rows' \subseteq DocumentVersion /\ HasLast'
    BY <1>1, <2>4, <2>5, LastAfterInsert DEF TypeOK, HasLast
  <2> QED
    BY <1>1, <2>1, <2>2, <2>3, <2>6 DEF store, history, Typed, TypeOK
<1>7. CASE DeleteStaged(r)
  <2>1. /\ UNCHANGED <<hasQueue, objects, database, job, history>>
        /\ staging' \in [Intents -> Bytes \cup {NoBytes}]
    BY <1>1, <1>7 DEF DeleteStaged, TypeOK
  <2>2. req' \in [Requests -> Request] /\ \A q \in Requests : HasRead(q)'
    BY <1>7, GotoTyped DEF DeleteStaged, PCs
  <2> QED
    BY <1>1, <2>1, <2>2 DEF database, history, Typed, TypeOK, HasLast
<1>8. ASSUME NEW b \in Bytes, NEW sealing \in BOOLEAN, Register(r, b, sealing)
      PROVE  Typed'
  <2>1. req' \in [Requests -> Request] /\ \A q \in Requests : HasRead(q)'
    BY <1>8, FinishTyped DEF Register
  <2>2. UNCHANGED <<hasQueue, store, intent, ingest, job, history>>
    BY <1>8 DEF Register
  <2> DEFINE d == [version |-> req[r].version, sha256 |-> b,
                   isImmutable |-> sealing, intent |-> NoIntent]
  <2>3. d \in DocumentVersion
    BY <1>1, <1>8 DEF Register, HasRead, DocumentVersion
  <2>4. rows' = rows \/ rows' = rows \cup {d}
    BY <1>8 DEF Register
  <2> HIDE DEF d
  <2>5. rows' \subseteq DocumentVersion /\ HasLast'
    BY <1>1, <2>3, <2>4, LastAfterInsert DEF TypeOK, HasLast
  <2> QED
    BY <1>1, <2>1, <2>2, <2>5 DEF store, history, Typed, TypeOK
<1>9. CASE Enqueue(r)
  <2>1. req' \in [Requests -> Request] /\ \A q \in Requests : HasRead(q)'
    BY <1>9, FinishTyped DEF Enqueue
  <2>2. UNCHANGED <<hasQueue, store, intent, rows, replaced>>
    BY <1>9 DEF Enqueue
  <2>3. /\ job' \in [Versions -> [state: JobState, stalled: BOOLEAN]]
        /\ ingest' \in DocumentIngestStatus /\ stranded' \in BOOLEAN
    <3>1. CASE ~hasQueue
      BY <1>1, <1>9, <3>1 DEF Enqueue, TypeOK, DocumentIngestStatus
    <3>2. CASE hasQueue /\ job[req[r].version].state = "none"
      BY <1>1, <1>9, <3>2 DEF Enqueue, TypeOK, JobState
    <3>3. CASE hasQueue /\ job[req[r].version].state = "queued"
      BY <1>1, <1>9, <3>3 DEF Enqueue, TypeOK
    <3>4. CASE hasQueue /\ job[req[r].version].state \notin {"none", "queued"}
      BY <1>1, <1>9, <3>4 DEF Enqueue, TypeOK, Strand
    <3> QED
      BY <1>1, <3>1, <3>2, <3>3, <3>4 DEF TypeOK
  <2> QED
    BY <1>1, <2>1, <2>2, <2>3 DEF store, Typed, TypeOK, HasLast
<1> QED
  BY <1>3, <1>4, <1>5, <1>6, <1>7, <1>8, <1>9 DEF Step

LEMMA NextTyped == Typed /\ [Next]_vars => Typed'
<1> SUFFICES ASSUME Typed, [Next]_vars PROVE Typed'
  OBVIOUS
<1>1. CASE Next
  BY <1>1, ClientTyped, ArriveTyped, StepTyped, WorkTyped, FaultTyped DEF Next
<1>2. CASE UNCHANGED vars
  BY <1>2 DEF vars, store, database, history, Typed, TypeOK, HasLast, HasRead
<1> QED
  BY <1>1, <1>2

\* Every reachable state is well typed, a request has read what its next step
\* uses, and NextVersion always finds a last version.
THEOREM IngestTyped == Spec => []Typed
BY InitTyped, NextTyped, PTL DEF Spec

\* Every reachable state is well typed.
THEOREM IngestTypeCorrect == Spec => []TypeOK
<1>1. Typed => TypeOK
  BY DEF Typed
<1> QED
  BY <1>1, IngestTyped, PTL

-----------------------------------------------------------------------------
(* What a step can do to a request, to the rows and to the objects.        *)

\* A row is added by a request that is at its last statement, under the number
\* it has read, and only when the number is free.
Adds(r, d) ==
  /\ rows' = rows \cup {d}
  /\ d.version = req[r].version
  /\ d.version \notin VersionsOf(rows)
  /\ \/ At(r, "create") /\ d.intent = req[r].intent /\ d.sha256 = req[r].sha256
     \/ At(r, "register") /\ d.intent = NoIntent
  /\ UNCHANGED <<store, replaced>>

LEMMA RowsGrow ==
  ASSUME Typed, [Next]_vars
  PROVE  \/ rows' = rows
         \/ \E r \in Requests : \E d \in DocumentVersion : Adds(r, d)
<1>1. ASSUME NEW r \in Requests, NEW sealing \in BOOLEAN, CreateVersion(r, sealing)
      PROVE  rows' = rows \/ \E d \in DocumentVersion : Adds(r, d)
  <2> DEFINE d == [version |-> req[r].version, sha256 |-> req[r].sha256,
                   isImmutable |-> sealing, intent |-> req[r].intent]
  <2>1. d \in DocumentVersion
    BY <1>1 DEF CreateVersion, At, Typed, TypeOK, HasRead, Request, DocumentVersion
  <2>2. rows' = rows \/ Adds(r, d)
    BY <1>1 DEF CreateVersion, NumberFree, Adds, history
  <2> QED
    BY <2>1, <2>2
<1>2. ASSUME NEW r \in Requests, NEW b \in Bytes, NEW sealing \in BOOLEAN,
             Register(r, b, sealing)
      PROVE  rows' = rows \/ \E d \in DocumentVersion : Adds(r, d)
  <2> DEFINE d == [version |-> req[r].version, sha256 |-> b,
                   isImmutable |-> sealing, intent |-> NoIntent]
  <2>1. d \in DocumentVersion
    BY <1>2 DEF Register, At, Typed, TypeOK, HasRead, DocumentVersion
  <2>2. rows' = rows \/ Adds(r, d)
    BY <1>2 DEF Register, NumberFree, Adds, history
  <2> QED
    BY <2>1, <2>2
<1>3. ASSUME NEW r \in Requests, Arrive(r) \/ Step(r)
      PROVE  rows' = rows \/ \E d \in DocumentVersion : Adds(r, d)
  BY <1>1, <1>2, <1>3
  DEF Arrive, StartFinalize, StartRegister, StartReprocess, Step, CheckStaged,
      ReadLast, Copy, DeleteStaged, Enqueue, database
<1>4. CASE Client \/ Fault \/ (\E v \in Versions : Work(v)) \/ UNCHANGED vars
  BY <1>4 DEF Client, FinalizeLate, CreateUploadIntent, Put, Fault, AddFails, Crash,
              FailJob, Stall, Work, Validate, Complete, database, vars
<1> QED
  BY <1>3, <1>4 DEF Next

\* Nothing takes an object away from its permanent key, and only a copy
\* replaces one.
Copies(r) ==
  /\ At(r, "copy")
  /\ staging[req[r].intent] # NoBytes
  /\ objects' = [objects EXCEPT ![req[r].version] = staging[req[r].intent]]
  /\ req' = [req EXCEPT ![r].pc = "create"]
  /\ UNCHANGED <<rows, staging>>

LEMMA ObjectsStay ==
  ASSUME Typed, [Next]_vars
  PROVE  \/ objects' = objects
         \/ \E r \in Requests : Copies(r)
<1>1. ASSUME NEW r \in Requests, Copy(r)
      PROVE  objects' = objects \/ Copies(r)
  BY <1>1 DEF Copy, Copies, Goto, database
<1>2. ASSUME NEW r \in Requests, Arrive(r) \/ Step(r)
      PROVE  objects' = objects \/ Copies(r)
  BY <1>1, <1>2
  DEF Arrive, StartFinalize, StartRegister, StartReprocess, Step, CheckStaged,
      ReadLast, CreateVersion, DeleteStaged, Register, Enqueue, store
<1>3. CASE Client \/ Fault \/ (\E v \in Versions : Work(v)) \/ UNCHANGED vars
  BY <1>3 DEF Client, FinalizeLate, CreateUploadIntent, Put, Fault, AddFails, Crash,
              FailJob, Stall, Work, Validate, Complete, store, vars
<1> QED
  BY <1>2, <1>3 DEF Next

\* Only a PUT replaces the object of an upload, between its digest and its copy.
Replaces(i) ==
  /\ replaced' = replaced \cup {i}
  /\ Digested(i)
  /\ UNCHANGED <<objects, rows>>

LEMMA ReplacedByPut ==
  ASSUME [Next]_vars
  PROVE  \/ replaced' = replaced
         \/ \E i \in Intents : Replaces(i)
<1>1. CASE Client
  BY <1>1 DEF Client, FinalizeLate, CreateUploadIntent, Put, Replaces, database,
              history
<1>2. ASSUME NEW r \in Requests, Arrive(r) \/ Step(r)
      PROVE  replaced' = replaced
  BY <1>2
  DEF Arrive, StartFinalize, StartRegister, StartReprocess, Step, CheckStaged,
      ReadLast, Copy, CreateVersion, DeleteStaged, Register, Enqueue, history
<1>3. CASE Fault \/ (\E v \in Versions : Work(v)) \/ UNCHANGED vars
  BY <1>3 DEF Fault, AddFails, Crash, FailJob, Stall, Work, Validate, Complete,
              history, vars
<1> QED
  BY <1>1, <1>2, <1>3 DEF Next

\* A request that a step moves to where a number is used has just read it, or
\* has just copied its object.
Numbers(q) ==
  \/ req'[q] = req[q]
  \/ req'[q].pc \notin {"copy", "create", "register"}
  \/ /\ req'[q].pc \in {"copy", "register"}
     /\ req'[q].version = NextVersion
     /\ NextVersion \in Versions
     /\ rows' = rows
  \/ /\ req[q].pc = "copy"
     /\ req'[q].pc = "create"
     /\ req'[q].version = req[q].version
     /\ objects'[req[q].version] # NoBytes

LEMMA RequestsMove ==
  ASSUME Typed, [Next]_vars
  PROVE  \A q \in Requests : Numbers(q)
<1>1. req \in [Requests -> Request]
  BY DEF Typed, TypeOK
<1>2. ASSUME NEW r \in Requests, Finish(r)
      PROVE  \A q \in Requests : Numbers(q)
  BY <1>1, <1>2 DEF Finish, Numbers, Idle
<1>3. ASSUME NEW r \in Requests, NEW pc, Goto(r, pc),
             pc \notin {"copy", "create", "register"}
      PROVE  \A q \in Requests : Numbers(q)
  <2>1. req[r] \in Request
    BY <1>1
  <2>2. req'[r].pc = pc
    BY <1>1, <1>3, <2>1 DEF Goto, Request
  <2>3. \A q \in Requests : q # r => req'[q] = req[q]
    BY <1>1, <1>3 DEF Goto
  <2> QED
    BY <1>3, <2>2, <2>3 DEF Numbers
<1>4. ASSUME NEW r \in Requests, Arrive(r)
      PROVE  \A q \in Requests : Numbers(q)
  <2>1. \A q \in Requests : q # r => req'[q] = req[q]
    BY <1>1, <1>4 DEF Arrive, StartFinalize, StartRegister, StartReprocess, Start
  <2>2. CASE \E i \in Intents : StartFinalize(r, i)
    <3>1. req'[r].pc = "lookups"
      BY <1>1, <2>2 DEF StartFinalize, Start, Idle
    <3> QED
      BY <2>1, <3>1 DEF Numbers
  <2>3. CASE StartRegister(r)
    <3>1. req'[r] = [Idle EXCEPT !.pc = "register", !.version = NextVersion]
      BY <1>1, <2>3 DEF StartRegister, Start
    <3>2. req'[r].pc = "register" /\ req'[r].version = NextVersion
      BY <3>1 DEF Idle
    <3> QED
      BY <2>1, <2>3, <3>2 DEF Numbers, StartRegister, database
  <2>4. CASE \E v \in Versions : StartReprocess(r, v)
    <3>1. req'[r].pc = "enqueue"
      BY <1>1, <2>4 DEF StartReprocess, Start, Idle
    <3> QED
      BY <2>1, <3>1 DEF Numbers
  <2> QED
    BY <1>4, <2>2, <2>3, <2>4 DEF Arrive
<1>5. ASSUME NEW r \in Requests, Step(r)
      PROVE  \A q \in Requests : Numbers(q)
  <2>1. req[r] \in Request /\ HasRead(r)
    BY DEF Typed, TypeOK
  <2>2. CASE Finish(r)
    BY <1>2, <2>2
  <2>3. CASE CheckStaged(r) /\ ~Finish(r)
    <3>1. PICK b : req' = [req EXCEPT ![r] = [req[r] EXCEPT !.pc = "last", !.sha256 = b]]
      BY <1>1, <2>1, <2>3 DEF CheckStaged
    <3>2. req'[r].pc = "last"
      BY <1>1, <2>1, <3>1 DEF Request
    <3>3. \A q \in Requests : q # r => req'[q] = req[q]
      BY <1>1, <3>1
    <3> QED
      BY <3>2, <3>3 DEF Numbers
  <2>4. CASE ReadLast(r) /\ ~Finish(r)
    <3>1. /\ req' = [req EXCEPT ![r] =
                [req[r] EXCEPT !.pc = "copy", !.version = NextVersion]]
          /\ NextVersion \in Versions /\ rows' = rows
      BY <1>1, <2>1, <2>4 DEF ReadLast, database
    <3>2. req'[r].pc = "copy" /\ req'[r].version = NextVersion
      BY <1>1, <2>1, <3>1 DEF Request
    <3>3. \A q \in Requests : q # r => req'[q] = req[q]
      BY <1>1, <3>1
    <3> QED
      BY <3>1, <3>2, <3>3 DEF Numbers
  <2>5. CASE Copy(r) /\ ~Finish(r)
    <3>1. /\ req' = [req EXCEPT ![r] = [req[r] EXCEPT !.pc = "create"]]
          /\ req[r].pc = "copy"
          /\ staging[req[r].intent] # NoBytes
          /\ objects' = [objects EXCEPT ![req[r].version] = staging[req[r].intent]]
      BY <1>1, <2>1, <2>5 DEF Copy, Goto, At
    <3>2. req'[r].pc = "create" /\ req'[r].version = req[r].version
      BY <1>1, <2>1, <3>1 DEF Request
    <3>3. objects'[req[r].version] # NoBytes
      BY <2>1, <3>1 DEF Typed, TypeOK, HasRead
    <3>4. \A q \in Requests : q # r => req'[q] = req[q]
      BY <1>1, <3>1
    <3> QED
      BY <3>1, <3>2, <3>3, <3>4 DEF Numbers
  <2>6. CASE \E sealing \in BOOLEAN : CreateVersion(r, sealing)
    BY <1>2, <1>3, <2>6 DEF CreateVersion
  <2>7. CASE DeleteStaged(r)
    BY <1>3, <2>7 DEF DeleteStaged
  <2> QED
    BY <1>5, <2>2, <2>3, <2>4, <2>5, <2>6, <2>7 DEF Step, Register, Enqueue
<1>6. CASE Client \/ (\E v \in Versions : Work(v)) \/ UNCHANGED vars
  BY <1>6 DEF Client, FinalizeLate, CreateUploadIntent, Put, Work, Validate,
              Complete, vars, Numbers
<1>7. CASE Fault
  BY <1>2, <1>7 DEF Fault, AddFails, Crash, FailJob, Stall, Numbers
<1> QED
  BY <1>4, <1>5, <1>6, <1>7 DEF Next

-----------------------------------------------------------------------------
(* Numbers without a gap.                                                  *)

\* The numbers below one that a request has read are taken, and stay so.
Numbered ==
  /\ GaplessVersions
  /\ \A r \in Requests :
       req[r].pc \in {"copy", "create", "register"} =>
         \A v \in 1..req[r].version - 1 : v \in VersionsOf(rows)

LEMMA NextVersionFollows ==
  ASSUME Typed, GaplessVersions, NextVersion \in Versions
  PROVE  \A v \in 1..NextVersion - 1 : v \in VersionsOf(rows)
<1>1. VersionsOf(rows) \subseteq Versions
  BY VersionsAreNumbers DEF Typed
<1>2. CASE rows = {}
  BY <1>2, NextVersionIsLast
<1>3. CASE rows # {}
  <2>1. NextVersion - 1 \in VersionsOf(rows)
    BY <1>3, NextVersionIsLast
  <2>2. PICK d \in rows : d.version = NextVersion - 1
    BY <2>1 DEF VersionsOf
  <2> QED
    BY <2>2 DEF GaplessVersions
<1> QED
  BY <1>2, <1>3

LEMMA NumberedStep == Numbered /\ Typed /\ [Next]_vars => Numbered'
<1> SUFFICES ASSUME Numbered, Typed, [Next]_vars PROVE Numbered'
  OBVIOUS
<1>1. VersionsOf(rows) \subseteq VersionsOf(rows')
  BY RowsGrow DEF Adds, VersionsOf
<1>2. GaplessVersions'
  <2>1. CASE rows' = rows
    BY <2>1 DEF Numbered, GaplessVersions, VersionsOf
  <2>2. ASSUME NEW r \in Requests, NEW d \in DocumentVersion, Adds(r, d)
        PROVE  GaplessVersions'
    <3>1. \A e \in rows : e.version # d.version
      BY <2>2 DEF Adds, VersionsOf
    <3>2. \A e, f \in rows' : e.version = f.version => e = f
      BY <2>2, <3>1 DEF Adds, Numbered, GaplessVersions
    <3>3. \A v \in 1..d.version : v \in VersionsOf(rows')
      <4>1. \A v \in 1..d.version - 1 : v \in VersionsOf(rows')
        BY <1>1, <2>2 DEF Adds, Numbered, At
      <4>2. d.version \in VersionsOf(rows')
        BY <2>2 DEF Adds, VersionsOf
      <4>3. d.version \in Nat
        BY VersionsInRange DEF DocumentVersion
      <4> QED
        BY <4>1, <4>2, <4>3
    <3>4. \A e \in rows : \A v \in 1..e.version : v \in VersionsOf(rows')
      BY <1>1 DEF Numbered, GaplessVersions
    <3> QED
      BY <2>2, <3>2, <3>3, <3>4 DEF Adds, GaplessVersions
  <2> QED
    BY <2>1, <2>2, RowsGrow
<1>3. ASSUME NEW q \in Requests, req'[q].pc \in {"copy", "create", "register"}
      PROVE  \A v \in 1..req'[q].version - 1 : v \in VersionsOf(rows')
  <2>1. CASE req'[q] = req[q]
    BY <1>1, <1>3, <2>1 DEF Numbered
  <2>2. CASE req'[q].version = NextVersion /\ NextVersion \in Versions
    BY <1>1, <2>2, NextVersionFollows DEF Numbered
  <2>3. CASE req[q].pc = "copy" /\ req'[q].version = req[q].version
    BY <1>1, <2>3 DEF Numbered
  <2> QED
    BY <1>3, <2>1, <2>2, <2>3, RequestsMove DEF Numbers
<1> QED
  BY <1>2, <1>3 DEF Numbered

\* A request only uses a number whose predecessors are all listed.
THEOREM IngestNumbered == Spec => []Numbered
<1>1. Init => Numbered
  BY DEF Init, Idle, Numbered, GaplessVersions
<1> QED
  BY <1>1, NumberedStep, IngestTyped, PTL DEF Spec

\* However many requests overlap, the numbers of the versions have no gap and
\* none names two versions.
THEOREM VersionsStayGapless == Spec => []GaplessVersions
<1>1. Numbered => GaplessVersions
  BY DEF Numbered
<1> QED
  BY <1>1, IngestNumbered, PTL

-----------------------------------------------------------------------------
(* Objects before rows.                                                    *)

Stored ==
  /\ StoredBeforeListed
  /\ \A r \in Requests :
       req[r].pc = "create" => objects[req[r].version] # NoBytes

LEMMA StoredStep == Stored /\ Typed /\ [Next]_vars => Stored'
<1> SUFFICES ASSUME Stored, Typed, [Next]_vars PROVE Stored'
  OBVIOUS
<1>1. \A v \in Versions : objects[v] # NoBytes => objects'[v] # NoBytes
  BY ObjectsStay DEF Copies, Typed, TypeOK
<1>2. \A e \in rows : e.version \in Versions
  BY DEF Typed, TypeOK, DocumentVersion
<1>3. StoredBeforeListed'
  <2>1. CASE rows' = rows
    BY <1>1, <1>2, <2>1 DEF Stored, StoredBeforeListed
  <2>2. ASSUME NEW r \in Requests, NEW d \in DocumentVersion, Adds(r, d)
        PROVE  StoredBeforeListed'
    <3>1. d.intent # NoIntent => objects'[d.version] # NoBytes
      BY <2>2 DEF Adds, At, store, Stored
    <3> QED
      BY <1>1, <1>2, <2>2, <3>1 DEF Adds, Stored, StoredBeforeListed
  <2> QED
    BY <2>1, <2>2, RowsGrow
<1>4. ASSUME NEW q \in Requests, req'[q].pc = "create"
      PROVE  objects'[req'[q].version] # NoBytes
  <2>1. CASE req'[q] = req[q]
    <3>1. req[q].version \in Versions
      BY <1>4, <2>1 DEF Typed, HasRead
    <3> QED
      BY <1>1, <1>4, <2>1, <3>1 DEF Stored
  <2>2. CASE req'[q] # req[q]
    BY <1>4, <2>2, RequestsMove DEF Numbers
  <2> QED
    BY <2>1, <2>2
<1> QED
  BY <1>3, <1>4 DEF Stored

\* A request that is about to add the row of an upload has copied its object.
THEOREM IngestStored == Spec => []Stored
<1>1. Init => Stored
  BY DEF Init, Idle, Stored, StoredBeforeListed
<1> QED
  BY <1>1, StoredStep, IngestTyped, PTL DEF Spec

\* However many requests overlap and wherever one is cut short, an uploaded
\* version that is listed has an object at its key.
THEOREM ObjectsComeFirst == Spec => []StoredBeforeListed
<1>1. Stored => StoredBeforeListed
  BY DEF Stored
<1> QED
  BY <1>1, IngestStored, PTL

-----------------------------------------------------------------------------
(* One request at a time.                                                  *)

\* What the only request has checked still holds when it uses it.
Checked(q) ==
  /\ req[q].pc \in {"lookups", "last", "copy", "create"} =>
       intent[req[q].intent] \in {"PENDING", "EXPIRED"}
  /\ req[q].pc \in {"last", "copy", "create"} =>
       \A d \in rows : d.sha256 # req[q].sha256 /\ ~d.isImmutable
  /\ req[q].pc \in {"last", "copy"} =>
       req[q].intent \in replaced \/ staging[req[q].intent] = req[q].sha256
  /\ req[q].pc \in {"copy", "create"} => req[q].version \notin VersionsOf(rows)
  /\ req[q].pc = "create" =>
       req[q].intent \in replaced \/ objects[req[q].version] = req[q].sha256

Serial(q) ==
  /\ BlobsMatchRows
  /\ UploadsAreNew
  /\ \A d \in rows : d.intent # NoIntent => intent[d.intent] = "COMPLETED"
  /\ Checked(q)

\* A free number whose predecessors are taken comes after every number.
LEMMA FreeIsLast ==
  ASSUME Typed, Numbered, NEW r \in Requests,
         req[r].pc \in {"create", "register"},
         req[r].version \notin VersionsOf(rows)
  PROVE  \A d \in rows : d.version < req[r].version
<1>1. req[r].version \in Nat \ {0} /\ \A d \in rows : d.version \in Nat \ {0}
  BY MaxVersionsAssumption
  DEF Typed, TypeOK, HasRead, Versions, DocumentVersion
<1>2. SUFFICES ASSUME NEW d \in rows, ~(d.version < req[r].version) PROVE FALSE
  OBVIOUS
<1>3. req[r].version \in 1..d.version
  BY <1>1, <1>2
<1> QED
  BY <1>3 DEF Numbered, GaplessVersions

\* The rows that a step leaves alone.
LEMMA SameRows ==
  ASSUME NEW q \in Requests, Serial(q), Typed, rows' = rows,
         \A i \in Intents : intent[i] = "COMPLETED" => intent'[i] = "COMPLETED",
         \A d \in rows : objects'[d.version] = objects[d.version],
         replaced \subseteq replaced', Checked(q)'
  PROVE  Serial(q)'
<1>1. \A d \in rows : d.intent # NoIntent => d.intent \in Intents
  BY DEF Typed, TypeOK, DocumentVersion
<1> QED
  BY <1>1 DEF Serial, BlobsMatchRows, UploadsAreNew

LEMMA SerialStep ==
  ASSUME NEW q \in Requests, Requests = {q}, Serial(q), Typed, Numbered,
         [Next]_vars
  PROVE  Serial(q)'
<1> USE DEF At
<1>1. /\ req \in [Requests -> Request] /\ req[q] \in Request /\ HasRead(q)
      /\ intent \in [Intents -> IntentStatus]
      /\ staging \in [Intents -> Bytes \cup {NoBytes}]
      /\ objects \in [Versions -> Bytes \cup {NoBytes}]
      /\ Checked(q)
  BY DEF Typed, TypeOK, Serial
<1>2. ASSUME Finish(q) PROVE Checked(q)'
  <2>1. req'[q].pc = "idle"
    BY <1>1, <1>2 DEF Finish, Idle
  <2> QED
    BY <2>1 DEF Checked
<1>3. ASSUME UNCHANGED <<store, rows, req, replaced>>,
             \A i \in Intents : /\ intent[i] = "COMPLETED" => intent'[i] = "COMPLETED"
                                /\ intent[i] \in {"PENDING", "EXPIRED"} =>
                                     intent'[i] \in {"PENDING", "EXPIRED"}
      PROVE  Serial(q)'
  <2>1. Checked(q)'
    BY <1>1, <1>3 DEF Checked, HasRead, store
  <2> QED
    BY <1>3, <2>1, SameRows DEF store
<1>4. CASE Client
  <2>1. CASE \E i \in Intents : FinalizeLate(i)
    BY <1>1, <1>3, <2>1 DEF FinalizeLate, IntentPending, history
  <2>2. CASE \E i \in Intents : CreateUploadIntent(i)
    BY <1>1, <1>3, <2>2 DEF CreateUploadIntent, history
  <2>3. ASSUME NEW i \in Intents, NEW b \in Bytes, Put(i, b)
        PROVE  Serial(q)'
    <3>1. /\ UNCHANGED <<objects, intent, rows, req>>
          /\ replaced \subseteq replaced'
          /\ \A j \in Intents : j # i => staging'[j] = staging[j]
      BY <1>1, <2>3 DEF Put, database
    <3>2. req[q].pc \in {"last", "copy"} /\ req[q].intent = i => i \in replaced'
      BY <2>3 DEF Put, Digested
    <3>3. Checked(q)'
      BY <1>1, <3>1, <3>2 DEF Checked, HasRead
    <3> QED
      BY <3>1, <3>3, SameRows
  <2> QED
    BY <1>4, <2>1, <2>2, <2>3 DEF Client
<1>5. CASE \E v \in Versions : Work(v)
  BY <1>3, <1>5 DEF Work, Validate, Complete, database, store, history
<1>6. CASE Fault
  <2>1. CASE \E v \in Versions : FailJob(v) \/ Stall(v)
    BY <1>3, <2>1 DEF FailJob, Stall, database
  <2>2. CASE \E r \in Requests : AddFails(r) \/ Crash(r)
    <3>1. Finish(q) /\ UNCHANGED <<store, database, replaced>>
      BY <2>2 DEF AddFails, Crash
    <3> QED
      BY <1>2, <3>1, SameRows DEF store, database
  <2> QED
    BY <1>6, <2>1, <2>2 DEF Fault
<1>7. CASE UNCHANGED vars
  BY <1>3, <1>7 DEF vars, database, history
<1>8. CASE Arrive(q)
  <2>1. UNCHANGED <<store, intent, rows, replaced>>
    BY <1>8 DEF Arrive, StartFinalize, StartRegister, StartReprocess, database,
               history
  <2>2. CASE \E i \in Intents : StartFinalize(q, i)
    <3>1. PICK i \in Intents : StartFinalize(q, i)
      BY <2>2
    <3>2. req'[q] = [Idle EXCEPT !.pc = "lookups", !.intent = i]
      BY <1>1, <3>1 DEF StartFinalize, Start
    <3>3. req'[q].pc = "lookups" /\ req'[q].intent = i /\ intent'[i] = "PENDING"
      BY <2>1, <3>1, <3>2 DEF Idle, StartFinalize, IntentPending
    <3>4. Checked(q)'
      BY <3>3 DEF Checked
    <3> QED
      BY <2>1, <3>4, SameRows DEF store
  <2>3. CASE StartRegister(q) \/ \E v \in Versions : StartReprocess(q, v)
    <3>1. req'[q].pc \in {"register", "enqueue"}
      BY <1>1, <2>3 DEF StartRegister, StartReprocess, Start, Idle
    <3>2. Checked(q)'
      BY <3>1 DEF Checked
    <3> QED
      BY <2>1, <3>2, SameRows DEF store
  <2> QED
    BY <1>8, <2>2, <2>3 DEF Arrive
<1>9. CASE CheckStaged(q)
  <2>1. UNCHANGED <<store, intent, rows, replaced>>
    BY <1>9 DEF CheckStaged, database, history
  <2>2. CASE ~Finish(q)
    <3>1. /\ req' = [req EXCEPT ![q] =
                [req[q] EXCEPT !.pc = "last", !.sha256 = staging[req[q].intent]]]
          /\ \A d \in rows : d.sha256 # staging[req[q].intent] /\ ~d.isImmutable
          /\ req[q].pc = "lookups"
      BY <1>1, <1>9, <2>2 DEF CheckStaged, Sealed
    <3>2. /\ req'[q].pc = "last" /\ req'[q].intent = req[q].intent
          /\ req'[q].sha256 = staging[req[q].intent]
      BY <1>1, <3>1 DEF Request
    <3>3. Checked(q)'
      BY <1>1, <2>1, <3>1, <3>2 DEF Checked, store
    <3> QED
      BY <2>1, <3>3, SameRows DEF store
  <2> QED
    BY <1>2, <2>1, <2>2, SameRows DEF store
<1>10. CASE ReadLast(q)
  <2>1. UNCHANGED <<store, intent, rows, replaced>>
    BY <1>10 DEF ReadLast, database, history
  <2>2. CASE ~Finish(q)
    <3>1. /\ req' = [req EXCEPT ![q] =
                [req[q] EXCEPT !.pc = "copy", !.version = NextVersion]]
          /\ NextVersion \in Versions
          /\ req[q].pc = "last"
      BY <1>1, <1>10, <2>2 DEF ReadLast
    <3>2. /\ req'[q].pc = "copy" /\ req'[q].intent = req[q].intent
          /\ req'[q].sha256 = req[q].sha256 /\ req'[q].version = NextVersion
      BY <1>1, <3>1 DEF Request
    <3>3. NextVersion \notin VersionsOf(rows)
      BY <3>1, NextVersionIsLast, VersionsInRange
    <3>4. Checked(q)'
      BY <1>1, <2>1, <3>1, <3>2, <3>3 DEF Checked, VersionsOf, store
    <3> QED
      BY <2>1, <3>4, SameRows DEF store
  <2> QED
    BY <1>2, <2>1, <2>2, SameRows DEF store
<1>11. CASE Copy(q)
  <2>1. UNCHANGED <<staging, intent, rows, replaced>>
    BY <1>11 DEF Copy, database, history
  <2>2. CASE Finish(q) /\ UNCHANGED objects
    BY <1>2, <2>1, <2>2, SameRows
  <2>3. CASE ~(Finish(q) /\ UNCHANGED objects)
    <3>1. /\ req' = [req EXCEPT ![q] = [req[q] EXCEPT !.pc = "create"]]
          /\ objects' = [objects EXCEPT ![req[q].version] = staging[req[q].intent]]
          /\ req[q].pc = "copy"
      BY <1>1, <1>11, <2>3 DEF Copy, Goto
    <3>2. /\ req'[q].pc = "create" /\ req'[q].intent = req[q].intent
          /\ req'[q].sha256 = req[q].sha256 /\ req'[q].version = req[q].version
      BY <1>1, <3>1 DEF Request
    <3>3. req[q].intent \in replaced \/ objects'[req[q].version] = req[q].sha256
      BY <1>1, <3>1 DEF Checked, HasRead
    <3>4. Checked(q)'
      BY <1>1, <2>1, <3>1, <3>2, <3>3 DEF Checked, VersionsOf
    <3>5. \A d \in rows : objects'[d.version] = objects[d.version]
      BY <1>1, <3>1 DEF Checked, VersionsOf
    <3> QED
      BY <2>1, <3>4, <3>5, SameRows
  <2> QED
    BY <2>2, <2>3
<1>12. ASSUME NEW sealing \in BOOLEAN, CreateVersion(q, sealing)
       PROVE  Serial(q)'
  <2>1. UNCHANGED <<store, replaced>>
    BY <1>12 DEF CreateVersion, history
  <2>2. CASE ~NumberFree(req[q].version)
    BY <1>2, <1>12, <2>1, <2>2, SameRows DEF CreateVersion, store
  <2>3. CASE NumberFree(req[q].version)
    <3> DEFINE n == [version |-> req[q].version, sha256 |-> req[q].sha256,
                     isImmutable |-> sealing, intent |-> req[q].intent]
    <3>1. /\ rows' = rows \cup {n} /\ req[q].pc = "create"
          /\ intent' = [intent EXCEPT ![req[q].intent] = "COMPLETED"]
          /\ Goto(q, "cleanup")
      BY <1>12, <2>3 DEF CreateVersion
    <3>2. /\ n.version = req[q].version /\ n.sha256 = req[q].sha256
          /\ n.intent = req[q].intent /\ n.intent \in Intents
      BY <1>1, <3>1 DEF HasRead
    <3> HIDE DEF n
    <3>3. \A d \in rows : /\ d.version \in Nat /\ n.version \in Nat
                          /\ d.version < n.version
      BY <2>3, <3>1, <3>2, FreeIsLast, VersionsInRange
      DEF NumberFree, Typed, TypeOK, HasRead, DocumentVersion
    <3>4. \A d \in rows : d.sha256 # n.sha256 /\ ~d.isImmutable
      BY <1>1, <3>1, <3>2 DEF Checked
    <3>5. \A d \in rows : d.intent # NoIntent => d.intent # n.intent
      BY <1>1, <3>1, <3>2 DEF Checked, Serial
    <3>6. n.intent \in replaced \/ objects'[n.version] = n.sha256
      BY <1>1, <2>1, <3>1, <3>2 DEF Checked, store
    <3>7. req'[q].pc = "cleanup"
      BY <1>1, <3>1 DEF Goto, Request
    <3>8. BlobsMatchRows'
      BY <2>1, <3>1, <3>6 DEF Serial, BlobsMatchRows, store
    <3>9. UploadsAreNew'
      <4> SUFFICES ASSUME NEW d \in rows', NEW e \in rows', e.intent # NoIntent
                   PROVE  /\ d.intent = e.intent => d = e
                          /\ d.version < e.version =>
                               d.sha256 # e.sha256 /\ ~d.isImmutable
        BY DEF UploadsAreNew
      <4>1. CASE d \in rows /\ e \in rows
        BY <4>1 DEF Serial, UploadsAreNew
      <4>2. CASE d \in rows /\ e = n
        BY <3>4, <3>5, <4>2
      <4>3. CASE d = n /\ e \in rows
        BY <3>3, <3>5, <4>3
      <4>4. CASE d = n /\ e = n
        <5>1. n.version \in Nat
          BY <1>1, <3>1, <3>2, VersionsInRange DEF HasRead
        <5>2. ~(n.version < n.version)
          BY <5>1
        <5> QED
          BY <4>4, <5>2
      <4> QED
        BY <3>1, <4>1, <4>2, <4>3, <4>4
    <3>10. \A d \in rows' : d.intent # NoIntent => intent'[d.intent] = "COMPLETED"
      <4>1. \A d \in rows : d.intent # NoIntent => d.intent \in Intents
        BY DEF Typed, TypeOK, DocumentVersion
      <4> QED
        BY <1>1, <3>1, <3>2, <4>1 DEF Serial
    <3>11. Checked(q)'
      BY <3>7 DEF Checked
    <3> QED
      BY <3>8, <3>9, <3>10, <3>11 DEF Serial
  <2> QED
    BY <2>2, <2>3
<1>13. CASE DeleteStaged(q)
  <2>1. req'[q].pc = "enqueue" /\ UNCHANGED <<objects, intent, rows, replaced>>
    BY <1>1, <1>13 DEF DeleteStaged, Goto, Request, database, history
  <2>2. Checked(q)'
    BY <2>1 DEF Checked
  <2> QED
    BY <2>1, <2>2, SameRows
<1>14. ASSUME NEW b \in Bytes, NEW sealing \in BOOLEAN, Register(q, b, sealing)
       PROVE  Serial(q)'
  <2>1. /\ UNCHANGED <<store, intent, replaced>>
        /\ Checked(q)' /\ req[q].pc = "register"
    BY <1>2, <1>14 DEF Register, history
  <2>2. CASE rows' = rows
    BY <2>1, <2>2, SameRows DEF store
  <2>3. CASE NumberFree(req[q].version)
    <3> DEFINE n == [version |-> req[q].version, sha256 |-> b,
                     isImmutable |-> sealing, intent |-> NoIntent]
    <3>1. rows' = rows \cup {n}
      BY <1>14, <2>3 DEF Register
    <3>2. n.version = req[q].version /\ n.intent = NoIntent
      OBVIOUS
    <3> HIDE DEF n
    <3>3. \A d \in rows : ~(n.version < d.version)
      <4>1. \A d \in rows : /\ d.version \in Nat /\ n.version \in Nat
                            /\ d.version < n.version
        BY <2>1, <2>3, <3>2, FreeIsLast, VersionsInRange
        DEF NumberFree, Typed, TypeOK, HasRead, DocumentVersion
      <4> QED
        BY <4>1
    <3>4. BlobsMatchRows'
      BY <2>1, <3>1, <3>2 DEF Serial, BlobsMatchRows, store
    <3>5. UploadsAreNew'
      <4> SUFFICES ASSUME NEW d \in rows', NEW e \in rows', e.intent # NoIntent
                   PROVE  /\ d.intent = e.intent => d = e
                          /\ d.version < e.version =>
                               d.sha256 # e.sha256 /\ ~d.isImmutable
        BY DEF UploadsAreNew
      <4>1. e \in rows
        BY <3>1, <3>2
      <4>2. CASE d \in rows
        BY <4>1, <4>2 DEF Serial, UploadsAreNew
      <4>3. CASE d = n
        BY <3>2, <3>3, <4>1, <4>3
      <4> QED
        BY <3>1, <4>2, <4>3
    <3>6. \A d \in rows' : d.intent # NoIntent => intent'[d.intent] = "COMPLETED"
      BY <2>1, <3>1, <3>2 DEF Serial
    <3> QED
      BY <2>1, <3>4, <3>5, <3>6 DEF Serial
  <2> QED
    BY <1>14, <2>2, <2>3 DEF Register
<1>15. CASE Enqueue(q)
  BY <1>2, <1>15, SameRows DEF Enqueue, store
<1>16. CASE Step(q)
  BY <1>9, <1>10, <1>11, <1>12, <1>13, <1>14, <1>15, <1>16 DEF Step
<1> QED
  BY <1>4, <1>5, <1>6, <1>7, <1>8, <1>16 DEF Next

LEMMA SerialInit ==
  ASSUME NEW q \in Requests
  PROVE  Init => Serial(q)
BY DEF Init, Idle, Serial, Checked, BlobsMatchRows, UploadsAreNew

\* With one request at a time, whatever fails in between, the object at the key
\* of an uploaded version has the digest that its row states, unless the client
\* has replaced the staged object between the digest and the copy; nothing that
\* the client stages before or after that makes a difference.
THEOREM BlobsMatchWhenSerial ==
  ASSUME NEW q, Requests = {q}
  PROVE  Spec => []BlobsMatchRows
<1>1. Init => Serial(q)
  BY SerialInit
<1>2. Serial(q) /\ Typed /\ Numbered /\ [Next]_vars => Serial(q)'
  BY SerialStep
<1>3. Serial(q) => BlobsMatchRows
  BY DEF Serial
<1> QED
  BY <1>1, <1>2, <1>3, IngestTyped, IngestNumbered, PTL DEF Spec

\* With one request at a time, an upload becomes one version at most, of new
\* content, and after none that seals the document.
THEOREM UploadsNewWhenSerial ==
  ASSUME NEW q, Requests = {q}
  PROVE  Spec => []UploadsAreNew
<1>1. Init => Serial(q)
  BY SerialInit
<1>2. Serial(q) /\ Typed /\ Numbered /\ [Next]_vars => Serial(q)'
  BY SerialStep
<1>3. Serial(q) => UploadsAreNew
  BY DEF Serial
<1> QED
  BY <1>1, <1>2, <1>3, IngestTyped, IngestNumbered, PTL DEF Spec

-----------------------------------------------------------------------------
(* The history of the versions.                                            *)

\* A row that is added carries the next number.
LEMMA AddedFollows ==
  ASSUME Typed, Numbered, NEW r \in Requests, NEW d \in DocumentVersion,
         Adds(r, d)
  PROVE  d \in rows' \ rows /\ History!Continue(d)
<1>1. req[r].pc \in {"create", "register"} /\ d.version = req[r].version
  BY DEF Adds, At
<1>2. \A e \in rows : e.version < d.version
  BY <1>1, FreeIsLast DEF Adds
<1>3. \A v \in 1..d.version - 1 : \E e \in rows : e.version = v
  BY <1>1 DEF Numbered, VersionsOf
<1>4. d \notin rows
  BY DEF Adds, VersionsOf
<1> QED
  BY <1>2, <1>3, <1>4 DEF Adds, History!Continue, History!Follows

\* However many requests overlap, and whatever fails, a listed version is never
\* altered or taken away, and a new one has the next number.
THEOREM NumberingImplemented == Spec => ImplementsNumbering
<1>1. Init => rows = {}
  BY DEF Init
<1>2. Typed /\ Numbered /\ [Next]_vars
        => [\E d \in rows' \ rows : History!Continue(d)]_rows
  BY RowsGrow, AddedFollows
<1> QED
  BY <1>1, <1>2, IngestTyped, IngestNumbered, PTL
     DEF Spec, ImplementsNumbering, History!Numbering

Archive == {<<d.version, objects[d.version]>> :
              d \in {e \in rows : e.intent # NoIntent}}

\* No step takes the object of a listed version away.
LEMMA ListedObjectsStay ==
  ASSUME NEW q \in Requests, Requests = {q}, Serial(q), Typed, [Next]_vars
  PROVE  \A d \in rows : objects'[d.version] = objects[d.version]
<1>1. \A d \in rows : d.version \in Versions /\ d.version \in VersionsOf(rows)
  BY DEF Typed, TypeOK, DocumentVersion, VersionsOf
<1>2. ASSUME Copies(q)
      PROVE  \A d \in rows : objects'[d.version] = objects[d.version]
  BY <1>1, <1>2 DEF Copies, At, Serial, Checked, Typed, TypeOK
<1> QED
  BY <1>2, ObjectsStay

\* With one request at a time an upload that is replaced is not yet a version.
LEMMA ReplacedIsNoVersion ==
  ASSUME NEW q \in Requests, Requests = {q}, Serial(q), NEW i \in Intents,
         Replaces(i)
  PROVE  \A e \in rows : e.intent # i
<1>1. req[q].intent = i /\ req[q].pc \in {"last", "copy"}
  BY DEF Replaces, Digested
<1>2. intent[i] # "COMPLETED"
  BY <1>1 DEF Serial, Checked
<1>3. i # NoIntent
  BY MaxIntentsAssumption DEF Intents, NoIntent
<1> QED
  BY <1>2, <1>3 DEF Serial

\* With one request at a time every step continues the history, or leaves it.
LEMMA HistoryStep ==
  ASSUME NEW q \in Requests, Requests = {q}, Serial(q), Serial(q)',
         Typed, Numbered, Stored, [Next]_vars
  PROVE  [History!Next]_(History!vars)
<1>1. \A d \in rows : objects'[d.version] = objects[d.version]
  BY ListedObjectsStay
<1>2. rows' = rows => Archive' = Archive
  BY <1>1 DEF Archive
<1>3. CASE rows' = rows /\ replaced' = replaced
  BY <1>2, <1>3 DEF History!vars, Archive
<1>4. ASSUME NEW i \in Intents, Replaces(i)
      PROVE  History!Next
  <2>1. rows' = rows /\ replaced' = replaced \cup {i}
    BY <1>4 DEF Replaces
  <2>2. History!Replace(i)
    BY <1>2, <1>4, <2>1, ReplacedIsNoVersion DEF History!Replace, Archive
  <2> QED
    BY <2>2 DEF History!Next
<1>5. ASSUME NEW d \in DocumentVersion, Adds(q, d)
      PROVE  History!Next
  <2>1. /\ rows' = rows \cup {d} /\ d \in rows' \ rows
        /\ History!Continue(d)
        /\ UNCHANGED <<objects, replaced>>
    BY <1>5, AddedFollows DEF Adds, store
  <2>2. CASE d.intent = NoIntent
    <3>1. Archive' = Archive
      BY <2>1, <2>2 DEF Archive
    <3>2. History!Register(d)
      BY <2>1, <2>2, <3>1 DEF History!Register, Archive
    <3> QED
      BY <2>1, <3>2 DEF History!Next
  <2>3. CASE d.intent # NoIntent
    <3>1. Archive' = Archive \cup {<<d.version, objects[d.version]>>}
      BY <2>1, <2>3 DEF Archive
    <3>2. objects[d.version] \in Bytes
      BY <1>5, <2>3 DEF Adds, At, Stored, DocumentVersion, Typed, TypeOK
    <3>3. d.intent \notin replaced => objects[d.version] = d.sha256
      BY <2>1, <2>3 DEF Serial, BlobsMatchRows
    <3>4. \A e \in rows : e.version < d.version
      BY <2>1 DEF History!Continue, History!Follows
    <3>5. \A e \in rows :
            e.intent # d.intent /\ e.sha256 # d.sha256 /\ ~e.isImmutable
      BY <2>1, <2>3, <3>4 DEF Serial, UploadsAreNew
    <3>6. History!Upload(d)
      BY <2>1, <2>3, <3>1, <3>2, <3>3, <3>5 DEF History!Upload, Archive
    <3> QED
      BY <2>1, <3>6 DEF History!Next
  <2> QED
    BY <2>2, <2>3
<1>6. rows' # rows => \E d \in DocumentVersion : Adds(q, d)
  BY RowsGrow
<1> QED
  BY <1>3, <1>4, <1>5, <1>6, ReplacedByPut

\* With one request at a time, whatever fails in between, the document's history
\* is only continued: an uploaded version keeps the object it was listed with,
\* follows no version that seals the document, and states a content of its own;
\* the object is what it states, unless the client has replaced what it staged
\* between the digest and the copy.
THEOREM HistoryImplemented ==
  ASSUME NEW q, Requests = {q}
  PROVE  Spec => ImplementsHistory
<1>1. Init => Serial(q)
  BY SerialInit
<1>2. Serial(q) /\ Typed /\ Numbered /\ [Next]_vars => Serial(q)'
  BY SerialStep
<1>3. Init => History!Init
  BY DEF Init, History!Init
<1>4. Serial(q) /\ Serial(q)' /\ Typed /\ Numbered /\ Stored /\ [Next]_vars
        => [History!Next]_(History!vars)
  BY HistoryStep
<1> QED
  BY <1>1, <1>2, <1>3, <1>4, IngestTyped, IngestNumbered, IngestStored, PTL
     DEF Spec, ImplementsHistory, History!Spec

=============================================================================
