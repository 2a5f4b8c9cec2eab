----------------------------- MODULE AuditChain -----------------------------
(***************************************************************************)
(* recordAudit: calls that append to the hash chain of AuditEvent, from    *)
(* several instances of the program with a clock each.  (The web           *)
(* application's recordDealAuditEvent is the same code over a table and a  *)
(* lock key of its own.)                                                   *)
(*                                                                         *)
(* A call is one interactive transaction: it takes the advisory lock,      *)
(* reads the row with the greatest createdAt and the clock, and inserts.   *)
(* The lock is released when the transaction ends, after its row has       *)
(* become visible; under READ COMMITTED the read sees every row committed  *)
(* before.                                                                 *)
(*                                                                         *)
(* A hash is taken to be perfect: it is the sequence of events it stands   *)
(* for, so that two hashes are equal when their inputs are.                *)
(***************************************************************************)
EXTENDS Integers, Sequences

CONSTANTS
  Calls,      \* slots for calls of recordAudit in flight
  Instances,  \* processes, each with its clock
  Blobs,      \* contents of an event
  MaxTime,    \* bound: milliseconds a clock shows
  MaxEvents   \* bound: rows ever inserted

ASSUME MaxTimeAssumption == MaxTime \in Nat
ASSUME MaxEventsAssumption == MaxEvents \in Nat

VARIABLES
  events,  \* the AuditEvent rows, in the order they were committed
  clock,   \* Date.now() of each instance
  holder,  \* the calls that hold pg_advisory_xact_lock: at most one
  call     \* the calls in flight

vars == <<events, clock, holder, call>>

Times == 0..MaxTime
Entry == [blob: Blobs, at: Times]
Hash == Seq(Entry)
NoHash == <<>>  \* the empty string, and the null of the first row

\* A row: its chainHash determines its content and the hash it follows.
AuditEvent == [at: Times, previousChainHash: Hash, chainHash: Hash]

Idle == [pc |-> "idle", event |-> [at |-> 0, previousChainHash |-> NoHash,
                                   chainHash |-> NoHash]]

Init ==
  /\ events = <<>>
  /\ clock = [i \in Instances |-> 0]
  /\ holder = {}
  /\ call = [c \in Calls |-> Idle]

-----------------------------------------------------------------------------
\* The rows that ORDER BY createdAt DESC LIMIT 1 may return.
Latest ==
  {e \in DOMAIN events : \A f \in DOMAIN events : events[f].at <= events[e].at}

\* Seeded fault: the hash of the row before is left out of the input.
computeHashAlone(previous, blob, at) == <<[blob |-> blob, at |-> at]>>

computeAuditChainHash(previous, blob, at) ==
  Append(previous, [blob |-> blob, at |-> at])

Begin(c) ==
  /\ call[c].pc = "idle"
  /\ call' = [call EXCEPT ![c].pc = "waiting"]
  /\ UNCHANGED <<events, clock, holder>>

TakeLock(c) ==
  /\ call[c].pc = "waiting"
  /\ holder = {}
  /\ holder' = {c}
  /\ call' = [call EXCEPT ![c].pc = "locked"]
  /\ UNCHANGED <<events, clock>>

\* Seeded fault: the oldest row is taken for the last one.
ReadOldest(c, i, blob) ==
  /\ call[c].pc = "locked"
  /\ LET previous == IF events = <<>> THEN NoHash ELSE events[1].chainHash
     IN call' = [call EXCEPT ![c] =
          [pc |-> "read",
           event |-> [at |-> clock[i], previousChainHash |-> previous,
                      chainHash |-> computeAuditChainHash(previous, blob, clock[i])]]]
  /\ UNCHANGED <<events, clock, holder>>

\* The last row and then the clock of instance i, with no await in between.
ReadLast(c, i, blob) ==
  /\ call[c].pc = "locked"
  /\ \E previous \in IF events = <<>> THEN {NoHash}
                     ELSE {events[e].chainHash : e \in Latest} :
       call' = [call EXCEPT ![c] =
         [pc |-> "read",
          event |-> [at |-> clock[i], previousChainHash |-> previous,
                     chainHash |-> computeAuditChainHash(previous, blob, clock[i])]]]
  /\ UNCHANGED <<events, clock, holder>>

\* The insert, the commit and with it the release of the lock.
Insert(c) ==
  /\ call[c].pc = "read"
  /\ Len(events) < MaxEvents
  /\ events' = Append(events, call[c].event)
  /\ holder' = holder \ {c}
  /\ call' = [call EXCEPT ![c] = Idle]
  /\ UNCHANGED clock

\* The transaction is rolled back: a crash, a lost connection, or the five
\* seconds of an interactive transaction are over, the wait for the lock
\* included.
Abort(c) ==
  /\ call[c].pc # "idle"
  /\ holder' = holder \ {c}
  /\ call' = [call EXCEPT ![c] = Idle]
  /\ UNCHANGED <<events, clock>>

\* Seeded fault: the bound is missed.
TickPastBound(i) ==
  /\ clock[i] <= MaxTime
  /\ clock' = [clock EXCEPT ![i] = @ + 1]
  /\ UNCHANGED <<events, holder, call>>

\* Time passes at one instance; nothing keeps the clocks together.
Tick(i) ==
  /\ clock[i] < MaxTime
  /\ clock' = [clock EXCEPT ![i] = @ + 1]
  /\ UNCHANGED <<events, holder, call>>

Next ==
  \/ \E c \in Calls :
       \/ Begin(c) \/ TakeLock(c) \/ Insert(c) \/ Abort(c)
       \/ \E i \in Instances, blob \in Blobs : ReadLast(c, i, blob)
  \/ \E i \in Instances : Tick(i)

Spec == Init /\ [][Next]_vars

-----------------------------------------------------------------------------
TypeOK ==
  /\ events \in Seq(AuditEvent)
  /\ clock \in [Instances -> Times]
  /\ holder \subseteq Calls
  /\ call \in [Calls -> [pc: {"idle", "waiting", "locked", "read"},
                         event: AuditEvent]]

\* The times in the rows increase in the order of the commits.
Ordered == \A e, f \in DOMAIN events : e < f => events[e].at < events[f].at

\* As long as the times increase from row to row, the chain is linear: every
\* row names the row before it, however many calls are in flight and however
\* they end (recordAudit).
LinearWhenOrdered ==
  Ordered => \A e \in DOMAIN events :
    e > 1 => events[e].previousChainHash = events[e - 1].chainHash

\* Whatever the clocks show, the first row, and it alone, is a genesis event,
\* and every other row continues a row committed before it: the rows form one
\* tree (recordAudit).
OneTree ==
  \A e \in DOMAIN events :
    IF e = 1
      THEN events[e].previousChainHash = NoHash
      ELSE \E f \in 1..(e - 1) :
             events[e].previousChainHash = events[f].chainHash

\* The hash of a row answers for its whole past: whatever the clocks show, each
\* of its beginnings is the hash of a row committed before it, back to the
\* genesis event; and while the times increase it answers for every row there
\* was (computeAuditChainHash over what recordAudit has read).
HashCoversHistory ==
  \A e \in DOMAIN events :
    /\ \A n \in 1..Len(events[e].chainHash) - 1 :
         \E f \in 1..e - 1 :
           events[f].chainHash = SubSeq(events[e].chainHash, 1, n)
    /\ Ordered => Len(events[e].chainHash) = e

-----------------------------------------------------------------------------
\* The inductive invariant: only the holder is past the lock, and what it has
\* read still describes the table.
Locked(c) == call[c].pc \in {"locked", "read"}

Follows(c) ==
  IF events = <<>>
    THEN call[c].event.previousChainHash = NoHash
    ELSE \E e \in Latest :
           call[c].event.previousChainHash = events[e].chainHash

\* A row is hashed with the hash it follows.
Hashed(event) ==
  \E blob \in Blobs :
    event.chainHash =
      computeAuditChainHash(event.previousChainHash, blob, event.at)

Inductive ==
  /\ TypeOK
  /\ \A c \in Calls : Locked(c) => holder = {c}
  /\ \A c \in Calls : call[c].pc = "read" => Follows(c) /\ Hashed(call[c].event)
  /\ LinearWhenOrdered
  /\ OneTree
  /\ HashCoversHistory

=============================================================================
