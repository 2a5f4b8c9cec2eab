--------------------------- MODULE CustodyLedger ---------------------------
(***************************************************************************)
(* CustodyService.handleCommand for the commands on one deal: the command  *)
(* is checked against the read model, its event is appended to the journal *)
(* (QLDB), the digest of the journal is fetched, and the projection is     *)
(* updated in PostgreSQL, with retries.  The journal and the database are  *)
(* two systems: nothing spans both.                                        *)
(*                                                                         *)
(* An event is named by its place in the journal.  A step is one call of   *)
(* the journal or one statement of the projection's transaction, whose     *)
(* writes become visible together.                                         *)
(***************************************************************************)
EXTENDS Integers, Sequences, FiniteSets

CONSTANTS
  Kinds,        \* the event types that are emitted
  Calls,        \* slots for commands that are handled at the same time
  MaxEvents,    \* bound: events ever appended
  MaxAttempts,  \* RetryingCustodyProjectionWriter: maxAttempts
  MaxFaults,    \* bound: attempts at the projection that fail, in all
  DigestFails,  \* the digest of the journal may be refused
  Crashes       \* a handler may be cut short

ASSUME MaxEventsAssumption == MaxEvents \in Nat
ASSUME MaxAttemptsAssumption == MaxAttempts \in Nat \ {0}
ASSUME MaxFaultsAssumption == MaxFaults \in Nat
ASSUME SwitchesAssumption == DigestFails \in BOOLEAN /\ Crashes \in BOOLEAN
ASSUME KindsAssumption == "DealCreated" \in Kinds

VARIABLES
  ledger,      \* the journal: the kind of each event, in the order of appends
  rows,        \* the CustodyLedgerEvent rows, by place in the journal
  projection,  \* the CustodyDealProjection row; version 0 stands for none
  created,     \* the DealCreated command of the deal has been issued
  faults,      \* attempts at the projection that have failed
  call         \* the commands being handled

stored == <<ledger, rows, projection>>
vars == <<stored, created, faults, call>>

\* The parts of DealAggregate that the emitted events can change.
DealAggregate == [version: 0..MaxEvents, phase: {"intake", "underwriting"}]

INITIAL_DEAL_AGGREGATE == [version |-> 0, phase |-> "intake"]

PCs == {"idle", "append", "digest", "project", "write"}

\* A command: its event once it is appended, the attempt it is at, and the
\* projection row that attempt has read.
Command == [pc: PCs, kind: Kinds, event: 0..MaxEvents,
            attempt: 1..MaxAttempts, base: DealAggregate]

Rest == [pc |-> "idle", kind |-> "DealCreated", event |-> 0, attempt |-> 1,
         base |-> INITIAL_DEAL_AGGREGATE]

Init ==
  /\ ledger = <<>>
  /\ rows = {}
  /\ projection = INITIAL_DEAL_AGGREGATE
  /\ created = FALSE
  /\ faults = 0
  /\ call = [c \in Calls |-> Rest]

-----------------------------------------------------------------------------
At(c, pc) == call[c].pc = pc
Goto(c, pc) == call' = [call EXCEPT ![c].pc = pc]
Finish(c) == call' = [call EXCEPT ![c] = Rest]

\* A command that the aggregate allows: the deal's creation is recorded once,
\* by the handler that inserts the deal; views and stipulations any number of
\* times.  A view whose expectedVersion is not the projected one changes
\* nothing; one that has it, or states none, goes on.
Validate(c, kind) ==
  /\ At(c, "idle")
  /\ kind = "DealCreated" => ~created
  /\ created' = (created \/ kind = "DealCreated")
  /\ call' = [call EXCEPT ![c] = [Rest EXCEPT !.pc = "append", !.kind = kind]]
  /\ UNCHANGED <<stored, faults>>

\* Seeded fault: the projection is written first, the journal afterwards.
AppendAfterProjection(c) ==
  /\ At(c, "append")
  /\ Len(ledger) < MaxEvents
  /\ rows' = rows \cup {Len(ledger) + 1}
  /\ Finish(c)
  /\ UNCHANGED <<ledger, projection, created, faults>>

\* The insert into the journal; at the bound it fails and the call ends.
AppendEvent(c) ==
  /\ At(c, "append")
  /\ IF Len(ledger) < MaxEvents
       THEN /\ ledger' = Append(ledger, call[c].kind)
            /\ call' = [call EXCEPT ![c].pc = "digest",
                                    ![c].event = Len(ledger) + 1]
       ELSE Finish(c) /\ UNCHANGED ledger
  /\ UNCHANGED <<rows, projection, created, faults>>

\* fetchJournalDigest, after the insert has been committed: when it throws,
\* the command fails and its event is not projected.
FetchDigest(c) ==
  /\ At(c, "digest")
  /\ \/ Goto(c, "project")
     \/ DigestFails /\ Finish(c)
  /\ UNCHANGED <<stored, created, faults>>

\* Seeded fault: the look-up of the event among the rows is missing, and so is
\* its unique key.
ReadProjectionOnly(c) ==
  /\ At(c, "project")
  /\ call' = [call EXCEPT ![c].pc = "write", ![c].base = projection]
  /\ UNCHANGED <<stored, created, faults>>

\* applyCustodyEvent: an event that has a row is done; otherwise the
\* projection row is read.
ReadProjection(c) ==
  /\ At(c, "project")
  /\ IF call[c].event \in rows
       THEN Finish(c)
       ELSE call' = [call EXCEPT ![c].pc = "write", ![c].base = projection]
  /\ UNCHANGED <<stored, created, faults>>

\* foldEvent, for the kinds that are emitted: the creation of the deal takes it
\* to underwriting, the others are only counted.
foldEvent(aggregate, kind) ==
  [version |-> aggregate.version + 1,
   phase |-> IF kind = "DealCreated" THEN "underwriting" ELSE aggregate.phase]

\* Seeded fault: the fold is taken of a fresh aggregate.
FoldOfNothing(c) ==
  /\ rows' = rows \cup {call[c].event}
  /\ projection' = foldEvent(INITIAL_DEAL_AGGREGATE, call[c].kind)
  /\ UNCHANGED ledger

\* The row of the event and the upsert of the projection, committed together.
\* The upsert overwrites whatever has been committed since the read.
Project(c) ==
  /\ rows' = rows \cup {call[c].event}
  /\ projection' = foldEvent(call[c].base, call[c].kind)
  /\ UNCHANGED ledger

WriteProjection(c) ==
  /\ At(c, "write")
  /\ Project(c)
  /\ Finish(c)
  /\ UNCHANGED <<created, faults>>

\* Seeded fault: attempts are not limited.
RetryWithoutEnd(c) ==
  call' = [call EXCEPT ![c].pc = "project", ![c].attempt = @ + 1]

\* Seeded fault: the last attempt is not made.
RetryOnceLess(c) ==
  IF call[c].attempt < MaxAttempts - 1
    THEN call' = [call EXCEPT ![c].pc = "project", ![c].attempt = @ + 1]
    ELSE Finish(c)

\* After a failed attempt, another one or none.
Retry(c) ==
  IF call[c].attempt < MaxAttempts
    THEN call' = [call EXCEPT ![c].pc = "project", ![c].attempt = @ + 1]
    ELSE Finish(c)

\* An attempt fails and is rolled back, or it commits and the answer is lost.
FailAttempt(c) ==
  /\ faults < MaxFaults
  /\ faults' = faults + 1
  /\ \/ call[c].pc \in {"project", "write"} /\ UNCHANGED stored
     \/ At(c, "write") /\ Project(c)
  /\ Retry(c)
  /\ UNCHANGED created

\* The process dies; what the journal and the database hold stays.
Abort(c) ==
  /\ Crashes
  /\ ~At(c, "idle")
  /\ Finish(c)
  /\ UNCHANGED <<stored, created, faults>>

Step(c) ==
  AppendEvent(c) \/ FetchDigest(c) \/ ReadProjection(c) \/ WriteProjection(c)

Next ==
  \E c \in Calls :
    \/ \E kind \in Kinds : Validate(c, kind)
    \/ Step(c) \/ FailAttempt(c) \/ Abort(c)

\* A handler that is not cut short goes on.
Fairness == \A c \in Calls : WF_vars(Step(c))

Spec == Init /\ [][Next]_vars /\ Fairness

-----------------------------------------------------------------------------
TypeOK ==
  /\ ledger \in Seq(Kinds) /\ Len(ledger) <= MaxEvents
  /\ rows \subseteq 1..MaxEvents
  /\ projection \in DealAggregate
  /\ created \in BOOLEAN
  /\ faults \in 0..MaxFaults
  /\ call \in [Calls -> Command]

\* The read model never runs ahead of the evidence: every applied event is in
\* the journal, whatever fails between the two systems (handleCommand).
RowsAreInLedger == rows \subseteq DOMAIN ledger

\* However commands interleave and attempts are repeated, an event is never
\* counted twice (applyCustodyEvent, idempotent on the event).
NeverOvercounted == projection.version <= Cardinality(rows)

\* With one command at a time the projection is the fold of the events applied
\* to it, through failures, lost answers and crashes: CustodyRecord is
\* implemented (applyCustodyEvent).
Promise == INSTANCE CustodyRecord
ImplementsRecord == Promise!Spec

\* When no handler is cut short, every event in the journal reaches the
\* projection, if fewer attempts fail than one command has
\* (RetryingCustodyProjectionWriter).
EveryEventIsProjected ==
  \A e \in 1..MaxEvents : e \in DOMAIN ledger ~> e \in rows

-----------------------------------------------------------------------------
\* The inductive invariant: events in hand are in the journal and differ from
\* call to call, and an attempt that is about to write has read a version that
\* the rows bound.
InHand(c) == call[c].pc \in {"digest", "project", "write"}

Fits(c) ==
  /\ InHand(c) => /\ call[c].event \in DOMAIN ledger
                  /\ ledger[call[c].event] = call[c].kind
  /\ At(c, "write") => /\ call[c].event \notin rows
                       /\ call[c].base.version <= Cardinality(rows)

EventsDiffer ==
  \A c, d \in Calls :
    c # d /\ InHand(c) /\ InHand(d) => call[c].event # call[d].event

Inductive ==
  /\ TypeOK
  /\ RowsAreInLedger
  /\ NeverOvercounted
  /\ \A c \in Calls : Fits(c)
  /\ EventsDiffer

\* With one call, what it has read is what there is, and the projection is the
\* summary of the rows.
Current ==
  /\ \A c \in Calls : At(c, "write") => call[c].base = projection
  /\ projection = Promise!Summary(ledger, rows)

=============================================================================
