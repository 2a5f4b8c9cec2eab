-------------------------- MODULE AuditChainProofs --------------------------
(***************************************************************************)
(* Theorems about AuditChain, for any number of calls and instances and    *)
(* any behaviour of the clocks.                                            *)
(*                                                                         *)
(* The invariant that carries them is Inductive: a call that is past the   *)
(* lock is its only holder, and hence what it has read of the table is     *)
(* still the last row when it inserts.  What its hash answers for is then  *)
(* that of the row before and the new event.                               *)
(***************************************************************************)
EXTENDS AuditChain, SequenceTheorems, TLAPS

\* A typed hash extended by a typed event is a typed hash
\* (computeAuditChainHash).
LEMMA HashType ==
  ASSUME NEW p \in Hash, NEW b \in Blobs, NEW t \in Times
  PROVE  computeAuditChainHash(p, b, t) \in Hash
BY DEF Hash, Entry, computeAuditChainHash

\* The beginnings of a hash are those of the one it extends, and that one
\* (computeAuditChainHash).
LEMMA HashBeginnings ==
  ASSUME NEW p \in Hash, NEW b \in Blobs, NEW t \in Times,
         NEW n \in 1..Len(p)
  PROVE  /\ Len(computeAuditChainHash(p, b, t)) = Len(p) + 1
         /\ SubSeq(computeAuditChainHash(p, b, t), 1, n) = SubSeq(p, 1, n)
         /\ SubSeq(p, 1, Len(p)) = p
<1> DEFINE x == [blob |-> b, at |-> t]
<1>1. x \in Entry /\ p \in Seq(Entry) /\ <<x>> \in Seq(Entry)
  BY DEF Hash, Entry
<1>2. Append(p, x) = p \o <<x>> /\ Len(Append(p, x)) = Len(p) + 1
  BY <1>1, AppendIsConcat, AppendProperties
<1>3. 1 \in 1..Len(p)
  BY <1>1
<1>4. SubSeq(p \o <<x>>, 1, n) = SubSeq(p, 1, n)
  BY <1>1, <1>3, SubSeqOfConcat1
<1> QED
  BY <1>1, <1>2, <1>4, SubSeqFull DEF computeAuditChainHash

LEMMA InitInductive == Init => Inductive
<1> SUFFICES ASSUME Init PROVE Inductive
  OBVIOUS
<1>1. 0 \in Times
  BY MaxTimeAssumption DEF Times
<1>2. NoHash \in Hash /\ Idle.event \in AuditEvent /\ Idle.pc = "idle"
  BY <1>1 DEF NoHash, Hash, Idle, AuditEvent
<1>3. TypeOK
  BY <1>1, <1>2 DEF Init, TypeOK, Idle
<1>4. \A c \in Calls : call[c].pc = "idle"
  BY <1>2 DEF Init
<1>5. LinearWhenOrdered /\ OneTree /\ HashCoversHistory
  BY DEF Init, LinearWhenOrdered, OneTree, HashCoversHistory
<1> QED
  BY <1>3, <1>4, <1>5 DEF Inductive, Locked

\* Reading the last row and the clock keeps the types.
LEMMA ReadLastTyped ==
  ASSUME TypeOK, NEW c \in Calls, NEW i \in Instances, NEW b \in Blobs,
         ReadLast(c, i, b)
  PROVE  /\ TypeOK'
         /\ call'[c].pc = "read"
         /\ \A d \in Calls \ {c} : call'[d] = call[d]
         /\ IF events = <<>>
              THEN call'[c].event.previousChainHash = NoHash
              ELSE \E e \in Latest :
                     call'[c].event.previousChainHash = events[e].chainHash
         /\ Hashed(call'[c].event)
<1>1. PICK p \in IF events = <<>> THEN {NoHash}
                 ELSE {events[e].chainHash : e \in Latest} :
        call' = [call EXCEPT ![c] =
          [pc |-> "read",
           event |-> [at |-> clock[i], previousChainHash |-> p,
                      chainHash |-> computeAuditChainHash(p, b, clock[i])]]]
  BY DEF ReadLast
<1>2. p \in Hash
  <2>1. CASE events = <<>>
    BY <1>1, <2>1 DEF NoHash, Hash
  <2>2. CASE events # <<>>
    <3>1. PICK e \in Latest : p = events[e].chainHash
      BY <1>1, <2>2
    <3>2. events[e] \in AuditEvent
      BY DEF TypeOK, Latest
    <3> QED
      BY <3>1, <3>2 DEF AuditEvent
  <2> QED
    BY <2>1, <2>2
<1>3. clock[i] \in Times
  BY DEF TypeOK
<1>4. computeAuditChainHash(p, b, clock[i]) \in Hash
  BY <1>2, <1>3, HashType
<1>5. [at |-> clock[i], previousChainHash |-> p,
       chainHash |-> computeAuditChainHash(p, b, clock[i])] \in AuditEvent
  BY <1>2, <1>3, <1>4 DEF AuditEvent
<1>6. TypeOK'
  BY <1>1, <1>5 DEF TypeOK, ReadLast
<1>7. /\ call'[c].pc = "read" /\ call'[c].event.previousChainHash = p
      /\ call'[c].event.at = clock[i]
      /\ call'[c].event.chainHash = computeAuditChainHash(p, b, clock[i])
  BY <1>1 DEF TypeOK
<1>8. \A d \in Calls \ {c} : call'[d] = call[d]
  BY <1>1 DEF TypeOK
<1> QED
  BY <1>1, <1>6, <1>7, <1>8 DEF Hashed

\* Two calls are never past the lock together.
LEMMA OneHolder ==
  ASSUME Inductive, NEW c \in Calls, NEW d \in Calls, Locked(c), Locked(d)
  PROVE  c = d
BY DEF Inductive

\* The insert of the holder continues the last row of an ordered table.
LEMMA InsertLinear ==
  ASSUME Inductive, NEW c \in Calls, Insert(c)
  PROVE  LinearWhenOrdered'
<1> SUFFICES ASSUME Ordered', NEW e \in DOMAIN events', e > 1
             PROVE  events'[e].previousChainHash = events'[e - 1].chainHash
  BY DEF LinearWhenOrdered
<1> DEFINE n == Len(events)
<1>1. /\ events \in Seq(AuditEvent) /\ n \in Nat /\ DOMAIN events = 1..n
      /\ call[c].event \in AuditEvent /\ call[c].pc = "read"
  BY DEF Inductive, TypeOK, Insert
<1>2. /\ events' = Append(events, call[c].event)
      /\ DOMAIN events' = 1..(n + 1)
      /\ \A k \in 1..n : events'[k] = events[k]
      /\ events'[n + 1] = call[c].event
  BY <1>1 DEF Insert
<1>3. Ordered
  BY <1>1, <1>2 DEF Ordered
<1>4. CASE e \in 1..n
  <2>1. events[e].previousChainHash = events[e - 1].chainHash
    BY <1>1, <1>3, <1>4 DEF Inductive, LinearWhenOrdered
  <2> QED
    BY <1>1, <1>2, <1>4, <2>1
<1>5. CASE e = n + 1
  <2>1. n \in 1..n /\ events # <<>>
    BY <1>1, <1>5
  <2>2. PICK f \in Latest :
          call[c].event.previousChainHash = events[f].chainHash
    BY <1>1, <2>1 DEF Inductive, Follows
  <2>3. f \in 1..n /\ events[n].at <= events[f].at
    BY <1>1, <2>1 DEF Latest
  <2>4. ~(f < n)
    <3>1. \A k \in 1..n : events[k].at \in Int
      <4> SUFFICES ASSUME NEW k \in 1..n PROVE events[k].at \in Int
        OBVIOUS
      <4>1. events[k] \in AuditEvent
        BY <1>1
      <4> QED
        BY <4>1, MaxTimeAssumption DEF AuditEvent, Times
    <3>2. f < n => events[f].at < events[n].at
      BY <1>1, <1>3, <2>1, <2>3 DEF Ordered
    <3> QED
      BY <2>1, <2>3, <3>1, <3>2
  <2>5. f = n
    BY <1>1, <2>3, <2>4
  <2> QED
    BY <1>1, <1>2, <1>5, <2>1, <2>2, <2>5
<1> QED
  BY <1>1, <1>2, <1>4, <1>5

\* The insert of the holder continues some row, or is the genesis event.
LEMMA InsertTree ==
  ASSUME Inductive, NEW c \in Calls, Insert(c)
  PROVE  OneTree'
<1> DEFINE n == Len(events)
<1>1. /\ events \in Seq(AuditEvent) /\ n \in Nat /\ DOMAIN events = 1..n
      /\ call[c].event \in AuditEvent /\ call[c].pc = "read"
  BY DEF Inductive, TypeOK, Insert
<1>2. /\ DOMAIN events' = 1..(n + 1)
      /\ \A k \in 1..n : events'[k] = events[k]
      /\ events'[n + 1] = call[c].event
  BY <1>1 DEF Insert
<1> SUFFICES ASSUME NEW e \in 1..(n + 1)
             PROVE  IF e = 1
                      THEN events'[e].previousChainHash = NoHash
                      ELSE \E f \in 1..(e - 1) :
                             events'[e].previousChainHash = events'[f].chainHash
  BY <1>2 DEF OneTree
<1>3. CASE e \in 1..n
  <2>1. IF e = 1
          THEN events[e].previousChainHash = NoHash
          ELSE \E f \in 1..(e - 1) :
                 events[e].previousChainHash = events[f].chainHash
    BY <1>1, <1>3 DEF Inductive, OneTree
  <2> QED
    BY <1>1, <1>2, <1>3, <2>1
<1>4. CASE e = n + 1
  <2>1. CASE n = 0
    <3>1. events = <<>>
      BY <1>1, <2>1
    <3> QED
      BY <1>1, <1>2, <1>4, <2>1, <3>1 DEF Inductive, Follows
  <2>2. CASE n # 0
    <3>1. events # <<>>
      BY <1>1, <2>2
    <3>2. PICK f \in Latest :
            call[c].event.previousChainHash = events[f].chainHash
      BY <1>1, <3>1 DEF Inductive, Follows
    <3>3. f \in 1..n
      BY <1>1 DEF Latest
    <3> QED
      BY <1>1, <1>2, <1>4, <2>2, <3>2, <3>3
  <2> QED
    BY <2>1, <2>2
<1> QED
  BY <1>1, <1>3, <1>4

\* The insert of the holder keeps the hashes answering for what is before them.
LEMMA InsertCovers ==
  ASSUME Inductive, NEW c \in Calls, Insert(c)
  PROVE  HashCoversHistory'
<1> DEFINE n == Len(events)
           new == call[c].event
           p == new.previousChainHash
<1>1. /\ events \in Seq(AuditEvent) /\ n \in Nat /\ DOMAIN events = 1..n
      /\ new \in AuditEvent /\ call[c].pc = "read"
  BY DEF Inductive, TypeOK, Insert
<1>2. /\ DOMAIN events' = 1..(n + 1)
      /\ \A k \in 1..n : events'[k] = events[k]
      /\ events'[n + 1] = new
  BY <1>1 DEF Insert
<1>3. Ordered' => Ordered
  BY <1>1, <1>2 DEF Ordered
<1>4. PICK b \in Blobs : new.chainHash = computeAuditChainHash(p, b, new.at)
  BY <1>1 DEF Inductive, Hashed
<1>5. p \in Hash /\ new.at \in Times
  BY <1>1 DEF AuditEvent
<1>6. ASSUME NEW e \in 1..n
      PROVE  /\ \A m \in 1..Len(events'[e].chainHash) - 1 :
                  \E f \in 1..e - 1 :
                    events'[f].chainHash = SubSeq(events'[e].chainHash, 1, m)
             /\ Ordered' => Len(events'[e].chainHash) = e
  <2>1. /\ \A m \in 1..Len(events[e].chainHash) - 1 :
             \E f \in 1..e - 1 :
               events[f].chainHash = SubSeq(events[e].chainHash, 1, m)
        /\ Ordered => Len(events[e].chainHash) = e
    BY <1>1 DEF Inductive, HashCoversHistory
  <2>2. \A f \in 1..e - 1 : events'[f] = events[f]
    BY <1>1, <1>2
  <2> QED
    BY <1>2, <1>3, <2>1, <2>2
<1>7. /\ \A m \in 1..Len(new.chainHash) - 1 :
           \E f \in 1..n : events[f].chainHash = SubSeq(new.chainHash, 1, m)
      /\ Ordered' => Len(new.chainHash) = n + 1
  <2>1. CASE n = 0
    <3>1. events = <<>> /\ p = NoHash
      <4>1. events = <<>>
        BY <1>1, <2>1
      <4> QED
        BY <1>1, <4>1 DEF Inductive, Follows
    <3>2. Len(new.chainHash) = 1
      BY <1>4, <3>1 DEF NoHash, computeAuditChainHash
    <3> QED
      BY <2>1, <3>2
  <2>2. CASE n # 0
    <3>1. events # <<>>
      BY <1>1, <2>2
    <3>2. PICK l \in Latest : p = events[l].chainHash
      BY <1>1, <3>1 DEF Inductive, Follows
    <3>3. l \in 1..n
      BY <1>1 DEF Latest
    <3>4. Len(new.chainHash) = Len(p) + 1
      BY <1>4, <1>5 DEF computeAuditChainHash, Hash
    <3>5. ASSUME NEW m \in 1..Len(p)
          PROVE  \E f \in 1..n : events[f].chainHash = SubSeq(new.chainHash, 1, m)
      <4>1. SubSeq(new.chainHash, 1, m) = SubSeq(p, 1, m) /\ SubSeq(p, 1, Len(p)) = p
        BY <1>4, <1>5, <3>5, HashBeginnings
      <4>2. CASE m = Len(p)
        BY <3>2, <3>3, <4>1, <4>2
      <4>3. CASE m # Len(p)
        <5>1. Len(p) \in Nat /\ m \in 1..Len(p) - 1
          BY <1>5, <4>3 DEF Hash
        <5>2. PICK f \in 1..l - 1 :
                events[f].chainHash = SubSeq(events[l].chainHash, 1, m)
          BY <1>1, <3>2, <3>3, <5>1 DEF Inductive, HashCoversHistory
        <5>3. f \in 1..n
          BY <1>1, <3>3
        <5> QED
          BY <3>2, <4>1, <5>2, <5>3
      <4> QED
        BY <4>2, <4>3
    <3>6. Ordered' => Len(p) = n
      <4> SUFFICES ASSUME Ordered' PROVE Len(p) = n
        OBVIOUS
      <4>1. \A k \in 1..n : events[k].at \in Int
        <5> SUFFICES ASSUME NEW k \in 1..n PROVE events[k].at \in Int
          OBVIOUS
        <5>1. events[k] \in AuditEvent
          BY <1>1
        <5> QED
          BY <5>1, MaxTimeAssumption DEF AuditEvent, Times
      <4>2. n \in 1..n /\ l = n
        <5>1. events[n].at <= events[l].at
          BY <1>1, <2>2 DEF Latest
        <5>2. l < n => events[l].at < events[n].at
          BY <1>1, <1>3, <2>2, <3>3 DEF Ordered
        <5>3. n \in 1..n
          BY <1>1, <2>2
        <5>4. events[n].at \in Int /\ events[l].at \in Int
          BY <3>3, <4>1, <5>3
        <5>5. ~(l < n)
          BY <5>1, <5>2, <5>4
        <5>6. n \in Int /\ l \in Int /\ l <= n
          BY <1>1, <3>3
        <5> QED
          BY <5>3, <5>5, <5>6
      <4>3. Len(events[n].chainHash) = n
        BY <1>1, <1>3, <4>2 DEF Inductive, HashCoversHistory
      <4> QED
        BY <3>2, <4>2, <4>3
    <3>7. Len(new.chainHash) - 1 = Len(p)
      BY <1>5, <3>4 DEF Hash
    <3> QED
      BY <3>4, <3>5, <3>6, <3>7
  <2> QED
    BY <2>1, <2>2
<1>8. \A f \in 1..n : events'[f] = events[f]
  BY <1>2
<1>9. \A e \in 1..(n + 1) : e \in 1..n \/ e = n + 1
  BY <1>1
<1>10. (n + 1) - 1 = n
  BY <1>1
<1> QED
  BY <1>2, <1>6, <1>7, <1>8, <1>9, <1>10 DEF HashCoversHistory

\* Every step keeps the invariant.
LEMMA StepInductive == Inductive /\ [Next]_vars => Inductive'
<1> SUFFICES ASSUME Inductive, [Next]_vars PROVE Inductive'
  OBVIOUS
<1>1. TypeOK
  BY DEF Inductive
<1>2. \A c \in Calls : call[c].pc = "read" => Locked(c)
  BY DEF Locked
<1>0. ASSUME UNCHANGED events PROVE HashCoversHistory'
  BY <1>0 DEF Inductive, HashCoversHistory, Ordered
<1>3. ASSUME NEW c \in Calls, Begin(c) PROVE Inductive'
  <2>1. /\ TypeOK'
        /\ \A d \in Calls : /\ Locked(d)' => Locked(d)
                            /\ call'[d].pc = "read" => call'[d] = call[d]
    BY <1>1, <1>3 DEF Begin, TypeOK, Locked
  <2> QED
    BY <1>0, <1>3, <2>1
       DEF Begin, Inductive, Hashed, Follows, Latest, LinearWhenOrdered, Ordered, OneTree
<1>4. ASSUME NEW c \in Calls, TakeLock(c) PROVE Inductive'
  <2>1. /\ TypeOK'
        /\ \A d \in Calls : call'[d].pc = "read" => call'[d] = call[d]
        /\ \A d \in Calls \ {c} : call'[d] = call[d]
    BY <1>1, <1>4 DEF TakeLock, TypeOK
  <2>2. \A d \in Calls : ~Locked(d)
    BY <1>4 DEF TakeLock, Inductive
  <2>3. \A d \in Calls : Locked(d)' => holder' = {d}
    BY <1>4, <2>1, <2>2 DEF TakeLock, Locked
  <2>4. events' = events
    BY <1>4 DEF TakeLock
  <2>5. ASSUME NEW d \in Calls, call'[d].pc = "read" PROVE Follows(d)' /\ Hashed(call'[d].event)
    <3>1. Follows(d) /\ Hashed(call[d].event)
      BY <2>1, <2>5 DEF Inductive
    <3> QED
      BY <2>1, <2>4, <2>5, <3>1 DEF Follows, Latest
  <2>6. LinearWhenOrdered' /\ OneTree' /\ HashCoversHistory'
    BY <1>0, <2>4 DEF Inductive, LinearWhenOrdered, Ordered, OneTree
  <2> QED
    BY <2>1, <2>3, <2>5, <2>6 DEF Inductive, Hashed
<1>5. ASSUME NEW c \in Calls, NEW i \in Instances, NEW b \in Blobs,
             ReadLast(c, i, b)
      PROVE  Inductive'
  <2>1. /\ TypeOK'
        /\ call'[c].pc = "read"
        /\ \A d \in Calls \ {c} : call'[d] = call[d]
        /\ IF events = <<>>
             THEN call'[c].event.previousChainHash = NoHash
             ELSE \E e \in Latest :
                    call'[c].event.previousChainHash = events[e].chainHash
        /\ Hashed(call'[c].event)
    BY <1>1, <1>5, ReadLastTyped
  <2>2. events' = events /\ holder' = holder /\ Latest' = Latest
    BY <1>5 DEF ReadLast, Latest
  <2>3. Locked(c) /\ holder = {c}
    BY <1>5 DEF ReadLast, Locked, Inductive
  <2>4. \A d \in Calls : Locked(d)' => holder' = {d}
    BY <2>1, <2>2, <2>3 DEF Locked, Inductive
  <2>5. \A d \in Calls : call'[d].pc = "read" => Follows(d)' /\ Hashed(call'[d].event)
    BY <2>1, <2>2 DEF Follows, Inductive
  <2> QED
    BY <1>0, <2>1, <2>2, <2>4, <2>5
       DEF Inductive, Hashed, LinearWhenOrdered, Ordered, OneTree
<1>6. ASSUME NEW c \in Calls, Insert(c) PROVE Inductive'
  <2>1. Locked(c)
    BY <1>6 DEF Insert, Locked
  <2>2. TypeOK'
    <3>1. Idle \in [pc: {"idle", "waiting", "locked", "read"}, event: AuditEvent]
      BY MaxTimeAssumption DEF Idle, AuditEvent, NoHash, Hash, Times
    <3>2. events' \in Seq(AuditEvent)
      BY <1>1, <1>6 DEF Insert, TypeOK
    <3> QED
      BY <1>1, <1>6, <3>1, <3>2 DEF Insert, TypeOK
  <2>3. \A d \in Calls : ~Locked(d)'
    <3>1. call'[c].pc = "idle" /\ \A d \in Calls \ {c} : call'[d] = call[d]
      BY <1>1, <1>6 DEF Insert, TypeOK, Idle
    <3>2. \A d \in Calls \ {c} : ~Locked(d)
      BY <2>1, OneHolder
    <3> QED
      BY <3>1, <3>2 DEF Locked
  <2>4. \A d \in Calls : call'[d].pc # "read"
    BY <2>3 DEF Locked
  <2>5. LinearWhenOrdered' /\ OneTree' /\ HashCoversHistory'
    BY <1>6, InsertLinear, InsertTree, InsertCovers
  <2> QED
    BY <2>2, <2>3, <2>4, <2>5 DEF Inductive
<1>7. ASSUME NEW c \in Calls, Abort(c) PROVE Inductive'
  <2>1. TypeOK'
    <3>1. Idle \in [pc: {"idle", "waiting", "locked", "read"}, event: AuditEvent]
      BY MaxTimeAssumption DEF Idle, AuditEvent, NoHash, Hash, Times
    <3> QED
      BY <1>1, <1>7, <3>1 DEF Abort, TypeOK
  <2>2. call'[c].pc = "idle" /\ \A d \in Calls \ {c} : call'[d] = call[d]
    BY <1>1, <1>7 DEF Abort, TypeOK, Idle
  <2>3. \A d \in Calls : Locked(d)' => Locked(d) /\ d # c
    BY <2>2 DEF Locked
  <2>4. \A d \in Calls : Locked(d)' => holder' = {d}
    BY <1>7, <2>3 DEF Abort, Inductive
  <2>5. \A d \in Calls : call'[d].pc = "read" => call'[d] = call[d]
    BY <2>2
  <2> QED
    BY <1>0, <1>7, <2>1, <2>4, <2>5
       DEF Abort, Inductive, Hashed, Follows, Latest, LinearWhenOrdered, Ordered, OneTree
<1>8. ASSUME NEW i \in Instances, Tick(i) PROVE Inductive'
  <2>1. TypeOK'
    BY <1>1, <1>8, MaxTimeAssumption DEF Tick, TypeOK, Times
  <2> QED
    BY <1>0, <1>8, <2>1
       DEF Tick, Inductive, Hashed, Locked, Follows, Latest, LinearWhenOrdered, Ordered,
           OneTree
<1>9. CASE UNCHANGED vars
  BY <1>0, <1>9
     DEF vars, Inductive, Hashed, TypeOK, Locked, Follows, Latest, LinearWhenOrdered,
         Ordered, OneTree
<1> QED
  BY <1>3, <1>4, <1>5, <1>6, <1>7, <1>8, <1>9 DEF Next

\* The inductive invariant holds of every reachable state.
THEOREM InductiveHolds == Spec => []Inductive
BY InitInductive, StepInductive, PTL DEF Spec

\* Every reachable state is well typed (recordAudit).
THEOREM TypeCorrect == Spec => []TypeOK
<1>1. Inductive => TypeOK
  BY DEF Inductive
<1> QED
  BY <1>1, InductiveHolds, PTL

\* While times increase from row to row the chain is linear, however many
\* calls are in flight and however they end (recordAudit).
THEOREM ChainIsLinear == Spec => []LinearWhenOrdered
<1>1. Inductive => LinearWhenOrdered
  BY DEF Inductive
<1> QED
  BY <1>1, InductiveHolds, PTL

\* Whatever the clocks show there is one genesis event, and every other row
\* continues a row committed before it (recordAudit).
THEOREM ChainIsOneTree == Spec => []OneTree
<1>1. Inductive => OneTree
  BY DEF Inductive
<1> QED
  BY <1>1, InductiveHolds, PTL

\* The hash of a row answers for all rows it continues, whatever the clocks show,
\* and for all rows before it while times increase (computeAuditChainHash).
THEOREM HashesCoverHistory == Spec => []HashCoversHistory
<1>1. Inductive => HashCoversHistory
  BY DEF Inductive
<1> QED
  BY <1>1, InductiveHolds, PTL

=============================================================================
