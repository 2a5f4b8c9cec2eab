------------------------ MODULE CustodyLedgerProofs ------------------------
(***************************************************************************)
(* Theorems about CustodyLedger.                                           *)
(*                                                                         *)
(* For any number of commands at a time: the read model never runs ahead   *)
(* of the journal and never counts an event twice.  For one command at a   *)
(* time: CustodyRecord is implemented.  Both hold whatever fails.          *)
(***************************************************************************)
EXTENDS CustodyLedger, FiniteSetTheorems, TLAPS

\* Sets of places in the journal are finite, and not larger than the bound.
LEMMA PlacesAreFinite ==
  ASSUME NEW S \in SUBSET (1..MaxEvents)
  PROVE  IsFiniteSet(S) /\ Cardinality(S) \in 0..MaxEvents
<1>1. /\ IsFiniteSet(1..MaxEvents)
      /\ Cardinality(1..MaxEvents) = IF 1 > MaxEvents THEN 0 ELSE MaxEvents - 1 + 1
  BY MaxEventsAssumption, FS_Interval
<1>2. Cardinality(1..MaxEvents) = MaxEvents
  BY <1>1, MaxEventsAssumption
<1>3. IsFiniteSet(S) /\ Cardinality(S) <= MaxEvents
  BY <1>1, <1>2, FS_Subset
<1>4. Cardinality(S) \in Nat
  BY <1>3, FS_CardinalityType
<1> QED
  BY <1>3, <1>4, MaxEventsAssumption

LEMMA RestTyped == Rest \in Command /\ Rest.pc = "idle"
BY MaxEventsAssumption, MaxAttemptsAssumption, KindsAssumption
   DEF Rest, Command, PCs, DealAggregate, INITIAL_DEAL_AGGREGATE

LEMMA InitInductive == Init => Inductive
<1> SUFFICES ASSUME Init PROVE Inductive
  OBVIOUS
<1>1. INITIAL_DEAL_AGGREGATE \in DealAggregate
  BY MaxEventsAssumption DEF INITIAL_DEAL_AGGREGATE, DealAggregate
<1>2. TypeOK
  <2>1. ledger \in Seq(Kinds) /\ Len(ledger) <= MaxEvents
    BY MaxEventsAssumption DEF Init
  <2>2. call \in [Calls -> Command]
    BY RestTyped DEF Init
  <2>3. faults \in 0..MaxFaults
    BY MaxFaultsAssumption DEF Init
  <2> QED
    BY <1>1, <2>1, <2>2, <2>3 DEF Init, TypeOK
<1>3. RowsAreInLedger
  BY DEF Init, RowsAreInLedger
<1>4. NeverOvercounted
  BY FS_EmptySet DEF Init, NeverOvercounted, INITIAL_DEAL_AGGREGATE
<1>5. \A c \in Calls : call[c].pc = "idle"
  BY RestTyped DEF Init
<1> QED
  BY <1>2, <1>3, <1>4, <1>5 DEF Inductive, Fits, EventsDiffer, InHand, At

\* A step of one handler that appends nothing keeps the invariant when what it
\* does to the rows and to its own fields is in order.
LEMMA OneCall ==
  ASSUME Inductive, NEW c \in Calls,
         TypeOK', RowsAreInLedger', NeverOvercounted',
         UNCHANGED ledger,
         rows \subseteq rows', Cardinality(rows) <= Cardinality(rows'),
         InHand(c)' => InHand(c) /\ call'[c].event = call[c].event,
         Fits(c)',
         \A d \in Calls \ {c} :
           call'[d] = call[d] /\ (InHand(d) => call[d].event \notin rows' \ rows)
  PROVE  Inductive'
<1>1. \A d \in Calls : InHand(d)' => InHand(d) /\ call'[d].event = call[d].event
  BY DEF InHand
<1>2. EventsDiffer'
  BY <1>1 DEF Inductive, EventsDiffer
<1>3. ASSUME NEW d \in Calls, d # c PROVE Fits(d)'
  <2>1. Fits(d) /\ call'[d] = call[d]
    BY <1>3 DEF Inductive
  <2>2. InHand(d)' => /\ call'[d].event \in DOMAIN ledger'
                      /\ ledger'[call'[d].event] = call'[d].kind
    BY <2>1 DEF Fits, InHand
  <2>3. At(d, "write")' => call'[d].event \notin rows'
    BY <1>3, <2>1 DEF Fits, InHand, At
  <2>4. At(d, "write")' => call'[d].base.version <= Cardinality(rows')
    <3>1. /\ call[d].base.version \in Int /\ Cardinality(rows) \in Int
          /\ Cardinality(rows') \in Int
      <4>1. rows \subseteq 1..MaxEvents /\ rows' \subseteq 1..MaxEvents
        BY DEF Inductive, TypeOK
      <4>2. Cardinality(rows) \in 0..MaxEvents /\ Cardinality(rows') \in 0..MaxEvents
        BY <4>1, PlacesAreFinite
      <4>3. call[d].base \in DealAggregate
        BY DEF Inductive, TypeOK, Command
      <4> QED
        BY <4>2, <4>3, MaxEventsAssumption DEF DealAggregate
    <3> QED
      BY <2>1, <3>1 DEF Fits, At
  <2> QED
    BY <2>2, <2>3, <2>4 DEF Fits
<1> QED
  BY <1>2, <1>3 DEF Inductive

\* Writing the projection applies one event more, and counts it at most once.
LEMMA ProjectOnce ==
  ASSUME Inductive, NEW c \in Calls, At(c, "write"), Project(c)
  PROVE  /\ UNCHANGED ledger
         /\ rows' = rows \cup {call[c].event}
         /\ call[c].event \notin rows
         /\ rows' \subseteq 1..MaxEvents
         /\ projection' \in DealAggregate
         /\ Cardinality(rows') = Cardinality(rows) + 1
         /\ RowsAreInLedger' /\ NeverOvercounted'
<1>1. /\ TypeOK /\ RowsAreInLedger /\ Fits(c) /\ InHand(c)
      /\ call[c] \in Command
  BY DEF Inductive, TypeOK, InHand, At
<1>2. /\ rows' = rows \cup {call[c].event}
      /\ projection' = foldEvent(call[c].base, call[c].kind)
      /\ ledger' = ledger
  BY DEF Project
<1>3. /\ call[c].event \in DOMAIN ledger /\ call[c].event \notin rows
      /\ call[c].base.version <= Cardinality(rows)
  BY <1>1 DEF Fits
<1>4. DOMAIN ledger \subseteq 1..MaxEvents
  BY <1>1, MaxEventsAssumption DEF TypeOK
<1>5. rows' \subseteq 1..MaxEvents /\ RowsAreInLedger'
  BY <1>1, <1>2, <1>3, <1>4 DEF RowsAreInLedger
<1>6. Cardinality(rows') = Cardinality(rows) + 1
  <2>1. IsFiniteSet(rows)
    BY <1>1, PlacesAreFinite DEF TypeOK
  <2> QED
    BY <1>2, <1>3, <2>1, FS_AddElement
<1>7. Cardinality(rows) \in Nat /\ Cardinality(rows') \in 0..MaxEvents
  <2>1. Cardinality(rows) \in 0..MaxEvents
    BY <1>1, PlacesAreFinite DEF TypeOK
  <2>2. Cardinality(rows') \in 0..MaxEvents
    BY <1>5, PlacesAreFinite
  <2> QED
    BY <2>1, <2>2
<1>8. call[c].base.version \in Nat /\ call[c].base.phase \in {"intake", "underwriting"}
  BY <1>1 DEF Command, DealAggregate
<1>9. /\ projection'.version = call[c].base.version + 1
      /\ projection' \in [version: {projection'.version},
                          phase: {"intake", "underwriting"}]
  BY <1>2, <1>8 DEF foldEvent
<1>10. projection'.version <= Cardinality(rows')
  BY <1>3, <1>6, <1>7, <1>8, <1>9
<1>11. projection'.version \in 0..MaxEvents
  BY <1>7, <1>8, <1>9, <1>10, MaxEventsAssumption
<1> QED
  BY <1>2, <1>3, <1>5, <1>6, <1>9, <1>10, <1>11
     DEF NeverOvercounted, DealAggregate

\* What the next attempt, or none, leaves of the handler.
LEMMA RetryFields ==
  ASSUME TypeOK, NEW c \in Calls, Retry(c)
  PROVE  /\ call' \in [Calls -> Command]
         /\ \A d \in Calls \ {c} : call'[d] = call[d]
         /\ \/ call'[c] = Rest
            \/ /\ call'[c].pc = "project"
               /\ call'[c].event = call[c].event
               /\ call'[c].kind = call[c].kind
<1>1. CASE call[c].attempt < MaxAttempts
  <2>1. call' = [call EXCEPT ![c].pc = "project", ![c].attempt = @ + 1]
    BY <1>1 DEF Retry
  <2>2. call[c] \in Command /\ call[c].attempt + 1 \in 1..MaxAttempts
    BY <1>1, MaxAttemptsAssumption DEF TypeOK, Command
  <2> QED
    BY <2>1, <2>2 DEF TypeOK, Command, PCs
<1>2. CASE ~(call[c].attempt < MaxAttempts)
  BY <1>2, RestTyped DEF Retry, Finish, TypeOK
<1> QED
  BY <1>1, <1>2

\* A handler that ends, with nothing else changed in the stores.
LEMMA FinishInductive ==
  ASSUME Inductive, NEW c \in Calls, Finish(c),
         UNCHANGED <<stored, created, faults>>
  PROVE  Inductive'
<1>1. call' \in [Calls -> Command] /\ call'[c] = Rest
  BY RestTyped DEF Finish, Inductive, TypeOK
<1>2. \A d \in Calls \ {c} : call'[d] = call[d]
  BY DEF Finish, Inductive, TypeOK
<1>3. TypeOK' /\ RowsAreInLedger' /\ NeverOvercounted'
  BY <1>1 DEF stored, Inductive, TypeOK, RowsAreInLedger, NeverOvercounted
<1>4. Fits(c)' /\ ~InHand(c)'
  BY <1>1, RestTyped DEF Fits, InHand, At
<1>5. Cardinality(rows) <= Cardinality(rows')
  <2>1. Cardinality(rows) \in 0..MaxEvents
    BY PlacesAreFinite DEF Inductive, TypeOK
  <2> QED
    BY <2>1 DEF stored
<1> QED
  BY <1>2, <1>3, <1>4, <1>5, OneCall DEF stored

\* The insert into the journal keeps the invariant: the new place is no one's.
LEMMA AppendInductive ==
  ASSUME Inductive, NEW c \in Calls, AppendEvent(c)
  PROVE  Inductive'
<1>1. CASE Len(ledger) < MaxEvents
  <2> DEFINE n == Len(ledger) + 1
  <2>1. /\ TypeOK /\ ledger \in Seq(Kinds) /\ call[c] \in Command
        /\ Len(ledger) \in Nat /\ DOMAIN ledger = 1..Len(ledger)
    BY DEF Inductive, TypeOK
  <2>2. /\ ledger' = Append(ledger, call[c].kind)
        /\ call' = [call EXCEPT ![c].pc = "digest", ![c].event = n]
        /\ UNCHANGED <<rows, projection, created, faults>>
    BY <1>1 DEF AppendEvent
  <2>3. n \in 1..MaxEvents
    BY <1>1, <2>1, MaxEventsAssumption
  <2>4. /\ DOMAIN ledger' = 1..n /\ ledger'[n] = call[c].kind
        /\ \A k \in DOMAIN ledger : ledger'[k] = ledger[k]
        /\ ledger' \in Seq(Kinds) /\ Len(ledger') = n
    BY <2>1, <2>2 DEF Command
  <2>5. /\ call'[c].pc = "digest" /\ call'[c].event = n
        /\ call'[c].kind = call[c].kind
        /\ \A d \in Calls \ {c} : call'[d] = call[d]
    BY <2>2 DEF Inductive, TypeOK
  <2>6. TypeOK'
    <3>1. n \in 0..MaxEvents
      BY <2>3, MaxEventsAssumption
    <3> HIDE DEF n
    <3>2. call' \in [Calls -> Command]
      BY <2>1, <2>2, <3>1 DEF TypeOK, Command, PCs
    <3>3. Len(ledger') <= MaxEvents
      BY <2>3, <2>4
    <3> QED
      BY <2>1, <2>2, <2>4, <3>2, <3>3 DEF TypeOK
  <2>7. RowsAreInLedger' /\ NeverOvercounted'
    BY <2>1, <2>2, <2>4 DEF Inductive, RowsAreInLedger, NeverOvercounted
  <2>8. Fits(c)'
    BY <2>3, <2>4, <2>5 DEF Fits, InHand, At
  <2>9. ASSUME NEW d \in Calls, d # c PROVE Fits(d)'
    <3>1. Fits(d) /\ call'[d] = call[d] /\ rows' = rows
      BY <2>2, <2>5, <2>9 DEF Inductive
    <3> QED
      BY <2>1, <2>4, <3>1 DEF Fits, InHand, At
  <2>10. \A d \in Calls \ {c} : InHand(d) => call[d].event # n
    BY <2>1 DEF Inductive, Fits
  <2>11. EventsDiffer'
    BY <2>5, <2>10 DEF Inductive, EventsDiffer, InHand
  <2> QED
    BY <2>6, <2>7, <2>8, <2>9, <2>11 DEF Inductive
<1>2. CASE ~(Len(ledger) < MaxEvents)
  BY <1>2, FinishInductive DEF AppendEvent, stored
<1> QED
  BY <1>1, <1>2

\* Writing the projection keeps the invariant, whether the handler ends with it
\* or tries again because the answer is lost.
LEMMA ProjectInductive ==
  ASSUME Inductive, NEW c \in Calls, At(c, "write"), Project(c),
         Finish(c) \/ Retry(c),
         created' \in BOOLEAN, faults' \in 0..MaxFaults
  PROVE  Inductive'
<1>1. /\ UNCHANGED ledger
      /\ rows' = rows \cup {call[c].event}
      /\ rows' \subseteq 1..MaxEvents
      /\ projection' \in DealAggregate
      /\ Cardinality(rows') = Cardinality(rows) + 1
      /\ RowsAreInLedger' /\ NeverOvercounted'
  BY ProjectOnce
<1>2. TypeOK /\ InHand(c) /\ Fits(c)
  BY DEF Inductive, InHand, At
<1>3. /\ call' \in [Calls -> Command]
      /\ \A d \in Calls \ {c} : call'[d] = call[d]
      /\ \/ call'[c] = Rest
         \/ /\ call'[c].pc = "project"
            /\ call'[c].event = call[c].event
            /\ call'[c].kind = call[c].kind
  <2>1. CASE Finish(c)
    BY <1>2, <2>1, RestTyped DEF Finish, TypeOK
  <2>2. CASE Retry(c)
    BY <1>2, <2>2, RetryFields
  <2> QED
    BY <2>1, <2>2
<1>4. TypeOK'
  BY <1>1, <1>2, <1>3 DEF TypeOK
<1>5. Fits(c)' /\ (InHand(c)' => InHand(c) /\ call'[c].event = call[c].event)
  <2>1. CASE call'[c] = Rest
    BY <2>1, RestTyped DEF Fits, InHand, At
  <2>2. CASE /\ call'[c].pc = "project"
             /\ call'[c].event = call[c].event
             /\ call'[c].kind = call[c].kind
    BY <1>1, <1>2, <2>2 DEF Fits, InHand, At
  <2> QED
    BY <1>3, <2>1, <2>2
<1>6. \A d \in Calls \ {c} : InHand(d) => call[d].event \notin rows' \ rows
  BY <1>1, <1>2 DEF Inductive, EventsDiffer
<1>7. Cardinality(rows) <= Cardinality(rows')
  <2>1. Cardinality(rows) \in 0..MaxEvents
    BY <1>2, PlacesAreFinite DEF TypeOK
  <2> QED
    BY <1>1, <2>1
<1> QED
  BY <1>1, <1>3, <1>4, <1>5, <1>6, <1>7, OneCall

\* Steps that leave the stores alone and give the handler new fields.
LEMMA FieldsInductive ==
  ASSUME Inductive, NEW c \in Calls, UNCHANGED stored,
         call' \in [Calls -> Command],
         \A d \in Calls \ {c} : call'[d] = call[d],
         created' \in BOOLEAN, faults' \in 0..MaxFaults,
         Fits(c)',
         InHand(c)' => InHand(c) /\ call'[c].event = call[c].event
  PROVE  Inductive'
<1>1. TypeOK' /\ RowsAreInLedger' /\ NeverOvercounted'
  BY DEF stored, Inductive, TypeOK, RowsAreInLedger, NeverOvercounted
<1>2. Cardinality(rows) <= Cardinality(rows')
  <2>1. Cardinality(rows) \in 0..MaxEvents
    BY PlacesAreFinite DEF Inductive, TypeOK
  <2> QED
    BY <2>1 DEF stored
<1> QED
  BY <1>1, <1>2, OneCall DEF stored

\* Every step keeps the invariant.
LEMMA StepInductive == Inductive /\ [Next]_vars => Inductive'
<1> SUFFICES ASSUME Inductive, [Next]_vars PROVE Inductive'
  OBVIOUS
<1>1. TypeOK /\ \A c \in Calls : Fits(c) /\ call[c] \in Command
  BY DEF Inductive, TypeOK
<1>2. ASSUME NEW c \in Calls, NEW kind \in Kinds, Validate(c, kind)
      PROVE  Inductive'
  <2>1. /\ call' \in [Calls -> Command]
        /\ \A d \in Calls \ {c} : call'[d] = call[d]
        /\ call'[c].pc = "append"
    BY <1>1, <1>2, RestTyped DEF Validate, TypeOK, Rest, Command, PCs
  <2>2. Fits(c)' /\ ~InHand(c)'
    BY <2>1 DEF Fits, InHand, At
  <2>3. created' \in BOOLEAN /\ faults' \in 0..MaxFaults /\ UNCHANGED stored
    BY <1>1, <1>2 DEF Validate, TypeOK
  <2> QED
    BY <2>1, <2>2, <2>3, FieldsInductive
<1>3. ASSUME NEW c \in Calls, AppendEvent(c) PROVE Inductive'
  BY <1>3, AppendInductive
<1>4. ASSUME NEW c \in Calls, FetchDigest(c) PROVE Inductive'
  <2>1. CASE Finish(c)
    BY <1>4, <2>1, FinishInductive DEF FetchDigest
  <2>2. CASE Goto(c, "project")
    <3>1. /\ call' \in [Calls -> Command]
          /\ \A d \in Calls \ {c} : call'[d] = call[d]
          /\ call'[c].pc = "project" /\ call'[c].event = call[c].event
          /\ call'[c].kind = call[c].kind
      BY <1>1, <2>2 DEF Goto, TypeOK, Command, PCs
    <3>2. InHand(c) /\ UNCHANGED <<stored, created, faults>>
      BY <1>4 DEF FetchDigest, InHand, At
    <3>3. Fits(c)'
      BY <1>1, <3>1, <3>2 DEF Fits, InHand, At, stored
    <3> QED
      BY <1>1, <3>1, <3>2, <3>3, FieldsInductive DEF TypeOK
  <2> QED
    BY <1>4, <2>1, <2>2 DEF FetchDigest
<1>5. ASSUME NEW c \in Calls, ReadProjection(c) PROVE Inductive'
  <2>1. CASE call[c].event \in rows
    BY <1>5, <2>1, FinishInductive DEF ReadProjection
  <2>2. CASE call[c].event \notin rows
    <3>1. call' = [call EXCEPT ![c].pc = "write", ![c].base = projection]
      BY <1>5, <2>2 DEF ReadProjection
    <3>2. /\ call' \in [Calls -> Command]
          /\ \A d \in Calls \ {c} : call'[d] = call[d]
          /\ call'[c].pc = "write" /\ call'[c].event = call[c].event
          /\ call'[c].kind = call[c].kind /\ call'[c].base = projection
      BY <1>1, <3>1 DEF TypeOK, Command, PCs
    <3>3. InHand(c) /\ UNCHANGED <<stored, created, faults>>
      BY <1>5 DEF ReadProjection, InHand, At
    <3>4. Fits(c)'
      BY <1>1, <2>2, <3>2, <3>3
         DEF Fits, InHand, At, stored, Inductive, NeverOvercounted
    <3> QED
      BY <1>1, <3>2, <3>3, <3>4, FieldsInductive DEF TypeOK
  <2> QED
    BY <2>1, <2>2
<1>6. ASSUME NEW c \in Calls, WriteProjection(c) PROVE Inductive'
  BY <1>1, <1>6, ProjectInductive DEF WriteProjection, TypeOK
<1>7. ASSUME NEW c \in Calls, FailAttempt(c) PROVE Inductive'
  <2>1. faults' \in 0..MaxFaults /\ created' \in BOOLEAN /\ Retry(c)
    BY <1>1, <1>7, MaxFaultsAssumption DEF FailAttempt, TypeOK
  <2>2. CASE At(c, "write") /\ Project(c)
    BY <2>1, <2>2, ProjectInductive
  <2>3. CASE call[c].pc \in {"project", "write"} /\ UNCHANGED stored
    <3>1. /\ call' \in [Calls -> Command]
          /\ \A d \in Calls \ {c} : call'[d] = call[d]
          /\ \/ call'[c] = Rest
             \/ /\ call'[c].pc = "project"
                /\ call'[c].event = call[c].event
                /\ call'[c].kind = call[c].kind
      BY <1>1, <2>1, RetryFields
    <3>2. Fits(c)' /\ (InHand(c)' => InHand(c) /\ call'[c].event = call[c].event)
      <4>1. CASE call'[c] = Rest
        BY <4>1, RestTyped DEF Fits, InHand, At
      <4>2. CASE /\ call'[c].pc = "project"
                 /\ call'[c].event = call[c].event
                 /\ call'[c].kind = call[c].kind
        BY <1>1, <2>3, <4>2 DEF Fits, InHand, At, stored
      <4> QED
        BY <3>1, <4>1, <4>2
    <3> QED
      BY <2>1, <2>3, <3>1, <3>2, FieldsInductive
  <2> QED
    BY <1>7, <2>2, <2>3 DEF FailAttempt
<1>8. ASSUME NEW c \in Calls, Abort(c) PROVE Inductive'
  BY <1>8, FinishInductive DEF Abort
<1>9. CASE UNCHANGED vars
  BY <1>9
     DEF vars, stored, Inductive, TypeOK, RowsAreInLedger, NeverOvercounted,
         Fits, EventsDiffer, InHand, At
<1> QED
  BY <1>2, <1>3, <1>4, <1>5, <1>6, <1>7, <1>8, <1>9 DEF Next, Step

\* The inductive invariant holds of every reachable state.
THEOREM InductiveHolds == Spec => []Inductive
BY InitInductive, StepInductive, PTL DEF Spec

\* The read model never runs ahead of the journal (handleCommand).
THEOREM RowsStayInLedger == Spec => []RowsAreInLedger
<1>1. Inductive => RowsAreInLedger
  BY DEF Inductive
<1> QED
  BY <1>1, InductiveHolds, PTL

\* However commands interleave and attempts are repeated, no event is counted
\* twice (applyCustodyEvent).
THEOREM NoEventCountsTwice == Spec => []NeverOvercounted
<1>1. Inductive => NeverOvercounted
  BY DEF Inductive
<1> QED
  BY <1>1, InductiveHolds, PTL

\* Every variable stays in its set.
THEOREM TypeCorrect == Spec => []TypeOK
<1>1. Inductive => TypeOK
  BY DEF Inductive
<1> QED
  BY <1>1, InductiveHolds, PTL

-----------------------------------------------------------------------------
\* The instance counts as FiniteSets does.
LEMMA SameCount == \A S : Promise!Cardinality(S) = Cardinality(S)
BY DEF Promise!Cardinality, Cardinality, Promise!IsFiniteSet, IsFiniteSet

\* An event that is appended changes nothing in the summary of earlier ones.
LEMMA SummaryOfPrefix ==
  ASSUME ledger \in Seq(Kinds), RowsAreInLedger, NEW kind \in Kinds,
         ledger' = Append(ledger, kind)
  PROVE  Promise!Summary(ledger', rows) = Promise!Summary(ledger, rows)
<1>1. \A e \in rows : ledger'[e] = ledger[e]
  BY DEF RowsAreInLedger
<1> QED
  BY <1>1 DEF Promise!Summary

\* A write that is based on the current projection applies the event: the fold
\* of the event is the summary of one row more.
LEMMA ProjectApplies ==
  ASSUME Inductive, Current, NEW c \in Calls, At(c, "write"), Project(c)
  PROVE  /\ call[c].event \in DOMAIN ledger
         /\ Promise!Apply(call[c].event)
         /\ projection' = Promise!Summary(ledger', rows')
<1> DEFINE e == call[c].event
<1>1. /\ e \in DOMAIN ledger /\ e \notin rows /\ ledger[e] = call[c].kind
      /\ call[c].base = projection
      /\ projection = Promise!Summary(ledger, rows)
  BY DEF Inductive, Fits, InHand, At, Current
<1>2. rows' = rows \cup {e} /\ ledger' = ledger
      /\ projection' = foldEvent(projection, ledger[e])
  BY <1>1 DEF Project
<1>3. Cardinality(rows') = Cardinality(rows) + 1
  BY ProjectOnce
<1>4. (\E x \in rows' : ledger[x] = "DealCreated")
        <=> (ledger[e] = "DealCreated"
               \/ \E x \in rows : ledger[x] = "DealCreated")
  BY <1>2
<1>5. projection' = Promise!Summary(ledger, rows')
  <2>1. /\ projection.version = Cardinality(rows)
        /\ projection.phase = IF \E x \in rows : ledger[x] = "DealCreated"
                                THEN "underwriting" ELSE "intake"
    BY <1>1, SameCount DEF Promise!Summary
  <2>2. CASE ledger[e] = "DealCreated"
    BY <1>2, <1>3, <1>4, <2>1, <2>2, SameCount DEF Promise!Summary, foldEvent
  <2>3. CASE ledger[e] # "DealCreated"
    BY <1>2, <1>3, <1>4, <2>1, <2>3, SameCount DEF Promise!Summary, foldEvent
  <2> QED
    BY <2>2, <2>3
<1> QED
  BY <1>1, <1>2, <1>5 DEF Promise!Apply

\* With one command at a time each step is a step of the record, or none.
LEMMA StepImplements ==
  ASSUME \A c, d \in Calls : c = d
  PROVE  Inductive /\ Current /\ [Next]_vars
           => Current' /\ [Promise!Next]_(Promise!vars)
<1> SUFFICES ASSUME Inductive, Current, [Next]_vars
             PROVE  Current' /\ [Promise!Next]_(Promise!vars)
  OBVIOUS
<1>1. TypeOK /\ projection = Promise!Summary(ledger, rows)
  BY DEF Inductive, Current
<1>2. ASSUME UNCHANGED stored,
             \A c \in Calls : At(c, "write")' => call'[c].base = projection
      PROVE  Current' /\ [Promise!Next]_(Promise!vars)
  BY <1>1, <1>2 DEF stored, Current, Promise!vars, Promise!Summary
<1>3. ASSUME NEW c \in Calls, UNCHANGED stored,
             At(c, "write")' => call'[c].base = projection
      PROVE  Current' /\ [Promise!Next]_(Promise!vars)
  BY <1>2, <1>3
<1>4. ASSUME NEW c \in Calls, Finish(c) PROVE ~At(c, "write")'
  BY <1>1, <1>4, RestTyped DEF Finish, TypeOK, At
<1>5. ASSUME NEW c \in Calls, Retry(c) PROVE ~At(c, "write")'
  BY <1>1, <1>5, RetryFields, RestTyped DEF At
<1>6. ASSUME NEW c \in Calls, NEW kind \in Kinds, Validate(c, kind)
      PROVE  Current' /\ [Promise!Next]_(Promise!vars)
  <2>1. call'[c].pc = "append"
    BY <1>1, <1>6, RestTyped DEF Validate, TypeOK, Rest
  <2> QED
    BY <1>3, <1>6, <2>1 DEF Validate, At
<1>7. ASSUME NEW c \in Calls, AppendEvent(c)
      PROVE  Current' /\ [Promise!Next]_(Promise!vars)
  <2>1. CASE Len(ledger) < MaxEvents
    <3>1. /\ ledger' = Append(ledger, call[c].kind)
          /\ call' = [call EXCEPT ![c].pc = "digest",
                                  ![c].event = Len(ledger) + 1]
          /\ UNCHANGED <<rows, projection>>
      BY <1>7, <2>1 DEF AppendEvent
    <3>2. call[c].kind \in Kinds
      BY <1>1 DEF TypeOK, Command
    <3>3. call'[c].pc = "digest"
      BY <1>1, <3>1 DEF TypeOK
    <3>4. \A d \in Calls : ~At(d, "write")'
      BY <3>3 DEF At
    <3>5. Promise!Summary(ledger', rows) = Promise!Summary(ledger, rows)
      BY <1>1, <3>1, <3>2, SummaryOfPrefix DEF Inductive, TypeOK
    <3>6. Current'
      BY <1>1, <3>1, <3>4, <3>5 DEF Current, Promise!Summary
    <3> QED
      BY <3>1, <3>2, <3>6 DEF Promise!Next, Promise!Record
  <2>2. CASE ~(Len(ledger) < MaxEvents)
    BY <1>3, <1>4, <1>7, <2>2 DEF AppendEvent, stored
  <2> QED
    BY <2>1, <2>2
<1>8. ASSUME NEW c \in Calls, FetchDigest(c)
      PROVE  Current' /\ [Promise!Next]_(Promise!vars)
  <2>1. CASE Goto(c, "project")
    <3>1. call'[c].pc = "project"
      BY <1>1, <2>1 DEF Goto, TypeOK
    <3> QED
      BY <1>3, <1>8, <3>1 DEF FetchDigest, At
  <2>2. CASE Finish(c)
    BY <1>3, <1>4, <1>8, <2>2 DEF FetchDigest
  <2> QED
    BY <1>8, <2>1, <2>2 DEF FetchDigest
<1>9. ASSUME NEW c \in Calls, ReadProjection(c)
      PROVE  Current' /\ [Promise!Next]_(Promise!vars)
  <2>1. CASE call[c].event \in rows
    BY <1>3, <1>4, <1>9, <2>1 DEF ReadProjection
  <2>2. CASE call[c].event \notin rows
    <3>1. call'[c].base = projection
      BY <1>1, <1>9, <2>2 DEF ReadProjection, TypeOK, Command
    <3> QED
      BY <1>3, <1>9, <3>1 DEF ReadProjection
  <2> QED
    BY <2>1, <2>2
<1>10. ASSUME NEW c \in Calls, At(c, "write"), Project(c), ~At(c, "write")'
       PROVE  Current' /\ [Promise!Next]_(Promise!vars)
  <2>1. /\ call[c].event \in DOMAIN ledger
        /\ Promise!Apply(call[c].event)
        /\ projection' = Promise!Summary(ledger', rows')
    BY <1>10, ProjectApplies
  <2>2. \A d \in Calls : ~At(d, "write")'
    BY <1>10
  <2>3. Current'
    BY <2>1, <2>2 DEF Current, Promise!Summary
  <2> QED
    BY <2>1, <2>3 DEF Promise!Next
<1>11. ASSUME NEW c \in Calls, WriteProjection(c)
       PROVE  Current' /\ [Promise!Next]_(Promise!vars)
  BY <1>4, <1>10, <1>11 DEF WriteProjection
<1>12. ASSUME NEW c \in Calls, FailAttempt(c)
       PROVE  Current' /\ [Promise!Next]_(Promise!vars)
  BY <1>3, <1>5, <1>10, <1>12 DEF FailAttempt
<1>13. ASSUME NEW c \in Calls, Abort(c)
       PROVE  Current' /\ [Promise!Next]_(Promise!vars)
  BY <1>3, <1>4, <1>13 DEF Abort
<1>14. CASE UNCHANGED vars
  BY <1>2, <1>14 DEF vars, Current, At
<1> QED
  BY <1>6, <1>7, <1>8, <1>9, <1>11, <1>12, <1>13, <1>14 DEF Next, Step

\* When commands on a deal are handled one at a time the ledger and the read
\* model keep their promise, through failures, lost answers and crashes
\* (handleCommand, applyCustodyEvent).
THEOREM RecordImplemented ==
  ASSUME \A c, d \in Calls : c = d
  PROVE  Spec => ImplementsRecord
<1>1. Init => Promise!Init /\ Current
  <2> SUFFICES ASSUME Init PROVE Promise!Init /\ Current
    OBVIOUS
  <2>1. \A c \in Calls : ~At(c, "write")
    BY RestTyped DEF Init, At
  <2>2. projection = Promise!Summary(ledger, rows)
    BY FS_EmptySet, SameCount DEF Init, Promise!Summary, INITIAL_DEAL_AGGREGATE
  <2> QED
    BY <2>1, <2>2 DEF Init, Promise!Init, Current, INITIAL_DEAL_AGGREGATE
<1>2. Inductive /\ Current /\ [Next]_vars
        => Current' /\ [Promise!Next]_(Promise!vars)
  BY StepImplements
<1> QED
  BY <1>1, <1>2, InductiveHolds, PTL DEF Spec, ImplementsRecord, Promise!Spec

=============================================================================
