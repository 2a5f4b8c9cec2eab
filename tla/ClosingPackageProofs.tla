------------------------ MODULE ClosingPackageProofs ------------------------
(***************************************************************************)
(* Theorems about ClosingPackage, for any number of requests at a time and *)
(* any number of amendments.                                               *)
(*                                                                         *)
(* The inductive invariant has three layers.  Typed: types, and which      *)
(* amendment a decision is about.  Traced: what a request carries by the   *)
(* place it is at; each request between its endorsement and its assignment *)
(* stands for a transfer that is not yet assigned.  Settled: as long as no *)
(* request has been overtaken, what each has read is still so.             *)
(* That ContractTitle is implemented follows from the first two.           *)
(***************************************************************************)
EXTENDS ClosingPackage, FiniteSetTheorems, TLAPS

-----------------------------------------------------------------------------
(* Definitions.                                                            *)

Typed ==
  /\ TypeOK
  /\ \A r \in Requests : req[r].pc \in ReadsAmendment =>
       req[r].amendment \in Amendments

\* What a request carries by the place it is at.
Carries(r) ==
  /\ req[r].pc \in ReadsContract => req[r].hash \in 1..Len(seals)
  /\ req[r].pc \in {"endorse", "record"} => instrument
  /\ req[r].pc \in {"reject", "assign", "instrument", "endorse", "record", "classify"} =>
       Len(seals) > 0
  /\ req[r].pc = "classify" => assigned > 0

Endorsed == {r \in Requests : req[r].pc = "record"}

Traced ==
  /\ RecordIsTraceable
  /\ \A r \in Requests : Carries(r)
  /\ \A a \in Amendments : amendment[a] # "none" => Len(seals) > 0
  /\ assigned + Cardinality(Endorsed) <= transfers

\* What a request has read is still so.
IsFresh(r) ==
  /\ req[r].pc \in ReadsContract => req[r].hash = contract.hash
  /\ req[r].pc = "reconcile" => req[r].vehicle \in {agreed, AsRead}
  /\ req[r].pc \in ReadsAmendment =>
       amendment[req[r].amendment] = "PENDING_LENDER_APPROVAL"

\* The amendments and the documents that seal the contract agree.
SealsAgree ==
  /\ \A a \in Amendments :
       amendment[a] = "APPROVED" <=> \E k \in DOMAIN seals : seals[k].amendment = a
  /\ \A j, k \in DOMAIN seals :
       seals[k].amendment # 0 =>
         /\ seals[k].parent = k - 1
         /\ seals[j].amendment = seals[k].amendment => j = k

Settled ==
  ~overtaken =>
    /\ status = "CLOSING_PACKAGE_READY" => manifest = contract.hash
    /\ vehicle \in {agreed, AsRead}
    /\ SealsAgree
    /\ \A r \in Requests : IsFresh(r)

IInv == Typed /\ Traced /\ Settled

\* Where a request goes, and what it carries there.
Moved(r, pc, a, hash, vin) ==
  /\ req' \in [Requests -> Request]
  /\ req'[r].pc = pc
  /\ req'[r].amendment = a
  /\ req'[r].hash = hash
  /\ req'[r].vehicle = vin
  /\ \A q \in Requests : q # r => req'[q] = req[q]

-----------------------------------------------------------------------------
(* How requests move.                                                      *)

LEMMA RangesTyped ==
  /\ Idle \in Request
  /\ Idle.pc = "idle" /\ Idle.amendment = 0 /\ Idle.hash = 0 /\ Idle.vehicle = 0
  /\ 0 \in 0..MaxAmendments
  /\ Amendments \subseteq 0..MaxAmendments
  /\ AsRead \in Vehicles /\ 0..MaxAmendments \subseteq Vehicles
<1>1. AsRead \in Vehicles /\ 0..MaxAmendments \subseteq Vehicles
  BY MaxAmendmentsAssumption DEF Vehicles, AsRead
<1> QED
  BY <1>1, MaxAmendmentsAssumption DEF Idle, Request, PCs, Amendments

LEMMA RequestFields ==
  ASSUME TypeOK, NEW r \in Requests
  PROVE  /\ req[r].pc \in PCs
         /\ req[r].amendment \in 0..MaxAmendments
         /\ req[r].hash \in Nat
         /\ req[r].vehicle \in Vehicles
BY DEF TypeOK, Request

LEMMA GotoMoves ==
  ASSUME TypeOK, NEW r \in Requests, NEW pc \in PCs, Goto(r, pc)
  PROVE  Moved(r, pc, req[r].amendment, req[r].hash, req[r].vehicle)
<1>1. req \in [Requests -> Request] /\ req[r] \in Request
  BY DEF TypeOK
<1>2. req' = [req EXCEPT ![r] = [req[r] EXCEPT !.pc = pc]]
  BY <1>1 DEF Goto
<1>3. [req[r] EXCEPT !.pc = pc] \in Request
  BY <1>1 DEF Request
<1> QED
  BY <1>1, <1>2, <1>3 DEF Moved, Request

LEMMA FinishMoves ==
  ASSUME TypeOK, NEW r \in Requests, Finish(r)
  PROVE  Moved(r, "idle", 0, 0, 0)
BY RangesTyped DEF TypeOK, Finish, Moved

LEMMA StartMoves ==
  ASSUME TypeOK, NEW r \in Requests, NEW x \in Request, Start(r, x)
  PROVE  Moved(r, x.pc, x.amendment, x.hash, x.vehicle) /\ req[r].pc = "idle"
BY DEF TypeOK, Start, At, Moved

LEMMA CheckMoves ==
  ASSUME TypeOK, NEW r \in Requests,
         req' = [req EXCEPT ![r] = [Idle EXCEPT !.pc = "check"]]
  PROVE  Moved(r, "check", 0, 0, 0)
<1>1. [Idle EXCEPT !.pc = "check"] \in Request
  BY RangesTyped DEF Idle, Request, PCs
<1> QED
  BY <1>1 DEF TypeOK, Moved, Idle

\* Each action moves its request from one place to another.
LEMMA ActionsMove ==
  ASSUME TypeOK, NEW r \in Requests
  PROVE
    /\ StartSend(r) => Moved(r, "send", 0, 0, 0)
    /\ Send(r) => Moved(r, "idle", 0, 0, 0)
    /\ StartSign(r) => Moved(r, "sign", 0, 0, 0)
    /\ Sign(r) => Moved(r, "assign", req[r].amendment, req[r].hash, req[r].vehicle)
    /\ ReadAssignment(r) =>
         Moved(r, IF assigned = 0 THEN "instrument" ELSE "classify",
               req[r].amendment, req[r].hash, req[r].vehicle)
    /\ EnsureInstrument(r) =>
         Moved(r, "endorse", req[r].amendment, req[r].hash, req[r].vehicle)
    /\ Endorse(r) => Moved(r, "record", req[r].amendment, req[r].hash, req[r].vehicle)
    /\ RecordAssignment(r) =>
         Moved(r, "classify", req[r].amendment, req[r].hash, req[r].vehicle)
    /\ ClassifyForSale(r) =>
         Moved(r, "check", req[r].amendment, req[r].hash, req[r].vehicle)
    /\ Reject(r) => Moved(r, "idle", 0, 0, 0)
    /\ Approve(r) => Moved(r, "check", 0, 0, 0)
    /\ RetryAutopublish(r) => Moved(r, "check", 0, 0, 0)
    /\ MarkGenerating(r) =>
         Moved(r, "extract", req[r].amendment, req[r].hash, req[r].vehicle)
    /\ Extract(r) => \E vin \in {vehicle, AsRead} :
         Moved(r, "reconcile", req[r].amendment, req[r].hash, vin)
    /\ Reconcile(r) => Moved(r, "publish", req[r].amendment, req[r].hash, 0)
    /\ Publish(r) => Moved(r, "idle", 0, 0, 0)
    /\ FailPublish(r) => Moved(r, "undo", 0, 0, 0)
    /\ UndoMark(r) => Moved(r, "idle", 0, 0, 0)
    /\ Crash(r) => Moved(r, "idle", 0, 0, 0)
<1>1. /\ [Idle EXCEPT !.pc = "send"] \in Request
      /\ [Idle EXCEPT !.pc = "sign"] \in Request
      /\ [Idle EXCEPT !.pc = "check"] \in Request
  BY RangesTyped DEF Idle, Request, PCs
<1>2. StartSend(r) => Moved(r, "send", 0, 0, 0)
  BY <1>1, StartMoves DEF StartSend, Idle
<1>3. StartSign(r) => Moved(r, "sign", 0, 0, 0)
  BY <1>1, StartMoves DEF StartSign, Idle
<1>4. RetryAutopublish(r) => Moved(r, "check", 0, 0, 0)
  BY <1>1, StartMoves DEF RetryAutopublish, Idle
<1>5. Approve(r) => Moved(r, "check", 0, 0, 0)
  BY CheckMoves DEF Approve
<1>6. Send(r) \/ Reject(r) \/ Publish(r) \/ UndoMark(r) \/ Crash(r) =>
        Moved(r, "idle", 0, 0, 0)
  BY FinishMoves DEF Send, Reject, Publish, UndoMark, Crash
<1> DEFINE Goes(pc) == Moved(r, pc, req[r].amendment, req[r].hash, req[r].vehicle)
<1>7. \A pc \in PCs : Goto(r, pc) => Goes(pc)
  BY GotoMoves
<1>8. /\ Sign(r) => Goes("assign")
      /\ EnsureInstrument(r) => Goes("endorse")
      /\ Endorse(r) => Goes("record")
      /\ RecordAssignment(r) => Goes("classify")
      /\ ClassifyForSale(r) => Goes("check")
      /\ MarkGenerating(r) => Goes("extract")
  BY <1>7 DEF PCs, Sign, EnsureInstrument, Endorse, RecordAssignment, ClassifyForSale,
              MarkGenerating
<1>9. ReadAssignment(r) => Goes(IF assigned = 0 THEN "instrument" ELSE "classify")
  BY <1>7 DEF PCs, ReadAssignment
<1>10. ASSUME NEW pc \in PCs, NEW vin \in Vehicles,
              req' = [req EXCEPT ![r].pc = pc, ![r].vehicle = vin]
       PROVE  Moved(r, pc, req[r].amendment, req[r].hash, vin)
  <2>1. req \in [Requests -> Request] /\ req[r] \in Request
    BY DEF TypeOK
  <2> DEFINE x == [req[r] EXCEPT !.pc = pc, !.vehicle = vin]
  <2>2. x \in Request /\ x.pc = pc /\ x.amendment = req[r].amendment
        /\ x.hash = req[r].hash /\ x.vehicle = vin
    BY <2>1 DEF Request
  <2>3. req' = [req EXCEPT ![r] = x]
    BY <1>10, <2>1
  <2> HIDE DEF x
  <2> QED
    BY <2>1, <2>2, <2>3 DEF Moved
<1>11. ASSUME Extract(r)
       PROVE  \E vin \in {vehicle, AsRead} :
                Moved(r, "reconcile", req[r].amendment, req[r].hash, vin)
  <2>1. PICK vin \in {vehicle, AsRead} :
          req' = [req EXCEPT ![r].pc = "reconcile", ![r].vehicle = vin]
    BY <1>11 DEF Extract
  <2>2. vin \in Vehicles
    BY RangesTyped DEF TypeOK
  <2> QED
    BY <1>10, <2>1, <2>2 DEF PCs
<1>12. Reconcile(r) => Moved(r, "publish", req[r].amendment, req[r].hash, 0)
  <2>1. 0 \in Vehicles /\ "publish" \in PCs
    BY RangesTyped DEF PCs
  <2> QED
    BY <1>10, <2>1 DEF Reconcile
<1>13. FailPublish(r) => Moved(r, "undo", 0, 0, 0)
  <2>1. [Idle EXCEPT !.pc = "undo"] \in Request
    BY RangesTyped DEF Idle, Request, PCs
  <2> QED
    BY <2>1 DEF TypeOK, FailPublish, Moved, Idle
<1> QED
  BY <1>2, <1>3, <1>4, <1>5, <1>6, <1>8, <1>9, <1>11, <1>12, <1>13

LEMMA DecisionMoves ==
  ASSUME TypeOK, NEW r \in Requests, NEW a \in Amendments,
         NEW pc \in {"approve", "reject"}, StartDecision(r, a, pc)
  PROVE  Moved(r, pc, a, contract.hash, 0) /\ req[r].pc = "idle"
<1> DEFINE x == [Idle EXCEPT !.pc = pc, !.amendment = a, !.hash = contract.hash]
<1>1. contract.hash \in Nat
  BY DEF TypeOK
<1>2. x \in Request /\ x.pc = pc /\ x.amendment = a /\ x.hash = contract.hash
      /\ x.vehicle = 0
  BY <1>1, RangesTyped DEF Idle, Request, PCs
<1>3. Start(r, x)
  BY DEF StartDecision
<1> HIDE DEF x
<1> QED
  BY <1>2, <1>3, StartMoves

LEMMA CheckDealMoves ==
  ASSUME TypeOK, NEW r \in Requests, CheckDeal(r)
  PROVE  \/ contract.version > 0
            /\ Moved(r, "mark", req[r].amendment, contract.hash, req[r].vehicle)
         \/ Moved(r, "idle", 0, 0, 0)
<1>1. CASE Finish(r)
  BY <1>1, FinishMoves
<1>2. CASE ~Finish(r)
  <2> DEFINE x == [req[r] EXCEPT !.pc = "mark", !.hash = contract.hash]
  <2>1. /\ req \in [Requests -> Request] /\ req[r] \in Request
        /\ contract.hash \in Nat
    BY DEF TypeOK
  <2>2. x \in Request /\ x.pc = "mark" /\ x.amendment = req[r].amendment
        /\ x.hash = contract.hash /\ x.vehicle = req[r].vehicle
    BY <2>1 DEF Request, PCs
  <2>3. req' = [req EXCEPT ![r] = x] /\ contract.version > 0
    BY <1>2, <2>1 DEF CheckDeal
  <2> HIDE DEF x
  <2> QED
    BY <2>1, <2>2, <2>3 DEF Moved
<1> QED
  BY <1>1, <1>2

-----------------------------------------------------------------------------
(* Types.                                                                  *)

\* What another document does to the contract.
LEMMA SealContractAppends ==
  ASSUME TypeOK, NEW a \in 0..MaxAmendments, NEW parent \in Nat,
         SealContract(a, parent)
  PROVE  /\ contract' \in [version: Nat, hash: Nat]
         /\ contract'.version = contract.version + 1
         /\ contract'.hash = Len(seals) + 1
         /\ seals' \in Seq(Seal)
         /\ Len(seals') = Len(seals) + 1
         /\ DOMAIN seals' = 1..Len(seals) + 1
         /\ DOMAIN seals = 1..Len(seals)
         /\ \A k \in 1..Len(seals) : seals'[k] = seals[k]
         /\ seals'[Len(seals) + 1] = [amendment |-> a, parent |-> parent]
<1> DEFINE x == [amendment |-> a, parent |-> parent]
<1>1. seals \in Seq(Seal) /\ Len(seals) \in Nat /\ contract.version \in Nat
  BY DEF TypeOK
<1>2. x \in Seal /\ x = [amendment |-> a, parent |-> parent]
  BY DEF Seal
<1>3. seals' = Append(seals, x)
  BY DEF SealContract
<1>4. /\ contract' \in [version: Nat, hash: Nat]
      /\ contract'.version = contract.version + 1
      /\ contract'.hash = Len(seals) + 1
  BY <1>1 DEF SealContract
<1> HIDE DEF x
<1> QED
  BY <1>1, <1>2, <1>3, <1>4

LEMMA MovesTyped ==
  ASSUME Typed, NEW r \in Requests, NEW pc, NEW a, NEW hash, NEW vin,
         Moved(r, pc, a, hash, vin), pc \in ReadsAmendment => a \in Amendments
  PROVE  /\ req' \in [Requests -> Request]
         /\ \A q \in Requests : req'[q].pc \in ReadsAmendment =>
              req'[q].amendment \in Amendments
BY DEF Typed, Moved

LEMMA InitTyped == Init => Typed
<1> SUFFICES ASSUME Init PROVE Typed
  OBVIOUS
<1>1. contract \in [version: Nat, hash: Nat]
  BY DEF Init
<1>2. seals \in Seq(Seal)
  <2> DEFINE x == [amendment |-> 0, parent |-> 0]
  <2>1. x \in Seal
    BY RangesTyped DEF Seal
  <2>2. seals = <<>> \/ seals = <<x>>
    BY DEF Init
  <2> HIDE DEF x
  <2>3. <<>> \in Seq(Seal)
    OBVIOUS
  <2>4. <<x>> \in Seq(Seal)
    BY <2>1
  <2> QED
    BY <2>2, <2>3, <2>4
<1>3. req \in [Requests -> Request] /\ \A r \in Requests : req[r].pc = "idle"
  BY RangesTyped DEF Init
<1>4. /\ status \in DealStatus
      /\ vehicle \in Vehicles
      /\ amendment \in [Amendments -> AmendmentStatus]
      /\ manifest \in Nat
      /\ transfers \in Nat
      /\ assigned \in Nat
      /\ agreed \in 0..MaxAmendments
  BY RangesTyped DEF Init, DealStatus, AmendmentStatus
<1>5. /\ instrument \in BOOLEAN
      /\ forSale \in BOOLEAN
      /\ overtaken \in BOOLEAN
      /\ cut \in BOOLEAN
  BY DEF Init
<1> QED
  BY <1>1, <1>2, <1>3, <1>4, <1>5 DEF Typed, TypeOK, ReadsAmendment

LEMMA RequestsStayTyped ==
  ASSUME Typed, NEW r \in Requests,
         Arrive(r) \/ Step(r) \/ FailPublish(r) \/ Crash(r)
  PROVE  /\ req' \in [Requests -> Request]
         /\ \A q \in Requests : req'[q].pc \in ReadsAmendment =>
              req'[q].amendment \in Amendments
<1> USE DEF ReadsAmendment
<1>0. TypeOK
  BY DEF Typed
<1>1. CASE \E pc \in PCs \ ReadsAmendment : \E a, hash, vin : Moved(r, pc, a, hash, vin)
  BY <1>1, MovesTyped
<1>2. CASE StartSend(r) \/ StartSign(r) \/ RetryAutopublish(r)
  BY <1>0, <1>1, <1>2, ActionsMove DEF PCs
<1>3. CASE \E a \in Amendments, pc \in {"approve", "reject"} : StartDecision(r, a, pc)
  BY <1>0, <1>3, DecisionMoves, MovesTyped
<1>4. CASE \/ Send(r) \/ Sign(r) \/ EnsureInstrument(r) \/ Endorse(r)
           \/ RecordAssignment(r) \/ ClassifyForSale(r) \/ Reject(r) \/ Approve(r)
  BY <1>0, <1>1, <1>4, ActionsMove DEF PCs
<1>5. CASE \/ MarkGenerating(r) \/ Extract(r) \/ Reconcile(r) \/ Publish(r)
           \/ UndoMark(r) \/ FailPublish(r) \/ Crash(r)
  BY <1>0, <1>1, <1>5, ActionsMove DEF PCs
<1>6. CASE ReadAssignment(r)
  BY <1>0, <1>1, <1>6, ActionsMove DEF PCs
<1>7. CASE CheckDeal(r)
  BY <1>0, <1>1, <1>7, CheckDealMoves DEF PCs
<1> QED
  BY <1>2, <1>3, <1>4, <1>5, <1>6, <1>7 DEF Arrive, Step

LEMMA StepTyped ==
  ASSUME Typed, [Next]_vars
  PROVE  Typed'
<1>0. TypeOK
  BY DEF Typed
<1> USE DEF DealStatus, AmendmentStatus
<1>1. CASE UNCHANGED vars
  BY <1>0, <1>1 DEF Typed, TypeOK, ReadsAmendment, vars, sealed, title, history
<1>2. ASSUME NEW a \in Amendments, RequestAmendment(a)
      PROVE  Typed'
  BY <1>2 DEF Typed, TypeOK, ReadsAmendment, RequestAmendment, sealed, title, history
<1>3. ASSUME NEW r \in Requests, Arrive(r) \/ Step(r) \/ FailPublish(r) \/ Crash(r)
      PROVE  Typed'
  <2> DEFINE ReqTyped == /\ req' \in [Requests -> Request]
                         /\ \A q \in Requests : req'[q].pc \in ReadsAmendment =>
                              req'[q].amendment \in Amendments
  <2>0. ReqTyped
    BY <1>3, RequestsStayTyped
  <2>1. ASSUME ReqTyped, TypeOK, UNCHANGED <<status, sealed, vehicle, amendment,
                                     manifest, title, history>>
        PROVE  Typed'
    BY <2>1 DEF Typed, TypeOK, sealed, title, history
  <2>2. CASE Arrive(r)
    BY <1>0, <2>0, <2>1, <2>2
    DEF Arrive, StartSend, StartSign, StartDecision, RetryAutopublish
  <2>3. CASE ReadAssignment(r) \/ CheckDeal(r) \/ Extract(r) \/ FailPublish(r)
    BY <1>0, <2>0, <2>1, <2>3 DEF ReadAssignment, CheckDeal, Extract, FailPublish
  <2>4. CASE Send(r) \/ MarkGenerating(r) \/ UndoMark(r)
    BY <1>0, <2>0, <2>4
    DEF Typed, TypeOK, Send, MarkGenerating, UndoMark, sealed, title, history
  <2>5. CASE Sign(r)
    <3>1. contract' \in [version: Nat, hash: Nat] /\ seals' \in Seq(Seal)
      BY <1>0, <2>5, RangesTyped, SealContractAppends DEF Sign
    <3>2. overtaken' \in BOOLEAN
      BY <2>5 DEF Sign, Overtake
    <3> QED
      BY <1>0, <2>0, <2>5, <3>1, <3>2 DEF Typed, TypeOK, Sign, title
  <2>6. CASE EnsureInstrument(r)
    BY <1>0, <2>0, <2>6 DEF Typed, TypeOK, EnsureInstrument, sealed, history
  <2>7. CASE Endorse(r)
    BY <1>0, <2>0, <2>7 DEF Typed, TypeOK, Endorse, sealed, history
  <2>8. CASE RecordAssignment(r)
    BY <1>0, <2>0, <2>8 DEF Typed, TypeOK, RecordAssignment, sealed, history
  <2>9. CASE ClassifyForSale(r)
    BY <1>0, <2>0, <2>9 DEF Typed, TypeOK, ClassifyForSale, sealed, history
  <2>10. CASE Reject(r)
    <3>1. overtaken' \in BOOLEAN
      BY <2>10 DEF Reject, Overtake
    <3> QED
      BY <1>0, <2>0, <2>10, <3>1 DEF Typed, TypeOK, Reject, sealed, title
  <2>11. CASE Approve(r)
    <3>1. req[r].amendment \in Amendments
      BY <2>11 DEF Typed, Approve, At, ReadsAmendment
    <3>2. req[r].amendment \in 0..MaxAmendments
      BY <3>1, RangesTyped
    <3>3. contract' \in [version: Nat, hash: Nat] /\ seals' \in Seq(Seal)
      BY <1>0, <2>11, <3>2, SealContractAppends, RequestFields DEF Approve
    <3>4. amendment' \in [Amendments -> AmendmentStatus]
      BY <1>0, <2>11 DEF TypeOK, Approve
    <3>5. overtaken' \in BOOLEAN
      BY <2>11 DEF Approve, Overtake
    <3>6. vehicle' \in Vehicles /\ agreed' \in 0..MaxAmendments
      BY <2>11, <3>2, RangesTyped DEF Approve
    <3>7. status' \in DealStatus /\ UNCHANGED <<manifest, title, cut>>
      BY <2>11 DEF Approve
    <3> QED
      BY <1>0, <2>0, <3>3, <3>4, <3>5, <3>6, <3>7 DEF Typed, TypeOK, title
  <2>12. CASE Reconcile(r)
    BY <1>0, <2>0, <2>12, RequestFields
    DEF Typed, TypeOK, Reconcile, sealed, title, history
  <2>13. CASE Publish(r)
    BY <1>0, <2>0, <2>13, RequestFields
    DEF Typed, TypeOK, Publish, sealed, title, history
  <2>14. CASE Crash(r)
    BY <1>0, <2>0, <2>14 DEF Typed, TypeOK, Crash, sealed, title
  <2> QED
    BY <1>3, <2>2, <2>3, <2>4, <2>5, <2>6, <2>7, <2>8, <2>9, <2>10, <2>11, <2>12,
       <2>13, <2>14 DEF Step
<1> QED
  BY <1>1, <1>2, <1>3 DEF Next

\* The types are invariant, and so is that a decision is about an amendment.
LEMMA PackageTyped == Spec => []Typed
<1> QED
  BY InitTyped, StepTyped, PTL DEF Spec

\* Every variable of the deal, its contract, its amendments and the requests
\* being served keeps its type, for any number of requests and amendments.
THEOREM PackageTypeCorrect == Spec => []TypeOK
<1>1. Typed => TypeOK
  BY DEF Typed
<1> QED
  BY <1>1, PackageTyped, PTL

-----------------------------------------------------------------------------
(* The record.                                                             *)

LEMMA InitTraced == Init => Traced
<1> SUFFICES ASSUME Init PROVE Traced
  OBVIOUS
<1>1. \A r \in Requests : req[r].pc = "idle"
  BY RangesTyped DEF Init
<1>2. Endorsed = {}
  BY <1>1 DEF Endorsed
<1>3. Cardinality(Endorsed) = 0
  BY <1>2, FS_EmptySet
<1>4. \A r \in Requests : Carries(r)
  BY <1>1 DEF Carries, ReadsContract
<1>5. \A a \in Amendments : amendment[a] = "none"
  BY DEF Init
<1>6. assigned <= transfers /\ assigned \in {0, 1}
  BY DEF Init
<1>7. CASE status = "RISC_UNSIGNED_REVIEW"
  <2>1. RecordIsTraceable
    BY <1>7 DEF Init, RecordIsTraceable, SealsAreCounted, TitleIsInOrder
  <2> QED
    BY <1>3, <1>4, <1>5, <1>6, <2>1 DEF Init, Traced
<1>8. CASE status # "RISC_UNSIGNED_REVIEW"
  <2> DEFINE x == [amendment |-> 0, parent |-> 0]
  <2>1. seals = <<x>> /\ x.amendment = 0
    BY <1>8 DEF Init
  <2> HIDE DEF x
  <2>2. Len(seals) = 1 /\ DOMAIN seals = {1} /\ seals[1].amendment = 0
    BY <2>1
  <2>3. SealsAreCounted
    BY <1>8, <2>2 DEF Init, SealsAreCounted
  <2>4. TitleIsInOrder
    BY <1>8, <2>2 DEF Init, TitleIsInOrder
  <2> QED
    BY <1>3, <1>4, <1>5, <1>6, <2>3, <2>4 DEF Init, Traced, RecordIsTraceable
<1> QED
  BY <1>7, <1>8

\* The requests that stand for a transfer, after one of them has moved.
LEMMA EndorsedAfter ==
  ASSUME TypeOK, NEW r \in Requests, NEW pc, NEW a, NEW hash, NEW vin,
         Moved(r, pc, a, hash, vin)
  PROVE  /\ Cardinality(Endorsed) \in Nat
         /\ Cardinality(Endorsed') \in Nat
         /\ pc # "record" => Cardinality(Endorsed') <= Cardinality(Endorsed)
         /\ pc # "record" /\ req[r].pc = "record" =>
              Cardinality(Endorsed') = Cardinality(Endorsed) - 1
         /\ pc = "record" => Cardinality(Endorsed') <= Cardinality(Endorsed) + 1
<1>1. IsFiniteSet(Endorsed) /\ Cardinality(Endorsed) \in Nat
  <2>1. Endorsed \subseteq Requests
    BY DEF Endorsed
  <2> QED
    BY <2>1, RequestsAssumption, FS_Subset, FS_CardinalityType
<1>2. CASE pc = "record"
  <2>1. Endorsed' = Endorsed \cup {r}
    BY <1>2 DEF Endorsed, Moved
  <2> QED
    BY <1>1, <1>2, <2>1, FS_AddElement
<1>3. CASE pc # "record" /\ req[r].pc = "record"
  <2>1. Endorsed' = Endorsed \ {r} /\ r \in Endorsed
    BY <1>3 DEF Endorsed, Moved
  <2>2. IsFiniteSet(Endorsed') /\ Cardinality(Endorsed') = Cardinality(Endorsed) - 1
    BY <1>1, <2>1, FS_RemoveElement
  <2>3. Cardinality(Endorsed') \in Nat
    BY <2>2, FS_CardinalityType
  <2> QED
    BY <1>1, <1>3, <2>2, <2>3
<1>4. CASE pc # "record" /\ req[r].pc # "record"
  <2>1. Endorsed' = Endorsed
    BY <1>4 DEF Endorsed, Moved
  <2> QED
    BY <1>1, <1>4, <2>1
<1> QED
  BY <1>2, <1>3, <1>4

\* What the other requests carry lasts: documents, transfers and assignments are
\* only added.
LEMMA OthersCarry ==
  ASSUME TypeOK, TypeOK', Traced, NEW r \in Requests, NEW pc, NEW a, NEW hash, NEW vin,
         Moved(r, pc, a, hash, vin), Carries(r)',
         Len(seals) <= Len(seals'), instrument => instrument', assigned <= assigned'
  PROVE  \A q \in Requests : Carries(q)'
<1> SUFFICES ASSUME NEW q \in Requests, q # r PROVE Carries(q)'
  OBVIOUS
<1>1. Carries(q) /\ req'[q] = req[q]
  BY DEF Traced, Moved
<1>2. /\ Len(seals) \in Nat /\ Len(seals') \in Nat
      /\ assigned \in Nat /\ assigned' \in Nat /\ req[q].hash \in Nat
  BY RequestFields DEF TypeOK
<1>3. req[q].pc \in ReadsContract => req[q].hash \in 1..Len(seals')
  BY <1>1, <1>2 DEF Carries
<1> QED
  BY <1>1, <1>2, <1>3 DEF Carries

\* A step that seals, endorses and assigns nothing.
LEMMA QuietTraced ==
  ASSUME Typed, Typed', Traced,
         NEW r \in Requests, NEW pc, NEW a, NEW hash, NEW vin,
         Moved(r, pc, a, hash, vin), pc # "record", Carries(r)',
         UNCHANGED <<sealed, instrument, transfers, assigned>>,
         \A b \in Amendments : amendment'[b] # "none" =>
           amendment[b] # "none" \/ Len(seals) > 0,
         forSale' => forSale \/ assigned > 0,
         manifest' \in 0..Len(seals),
         status' = "CLOSING_PACKAGE_READY" => manifest' # 0
  PROVE  Traced'
<1>1. TypeOK /\ TypeOK' /\ Len(seals) \in Nat /\ assigned \in Nat /\ transfers \in Nat
  BY DEF Typed, TypeOK
<1>2. RecordIsTraceable'
  <2>1. SealsAreCounted'
    BY DEF Traced, RecordIsTraceable, SealsAreCounted, sealed
  <2>2. TitleIsInOrder'
    BY DEF Traced, RecordIsTraceable, TitleIsInOrder, sealed
  <2> QED
    BY <2>1, <2>2 DEF RecordIsTraceable
<1>3. \A q \in Requests : Carries(q)'
  BY <1>1, OthersCarry DEF sealed
<1>4. assigned' + Cardinality(Endorsed') <= transfers'
  BY <1>1, EndorsedAfter DEF Traced
<1> QED
  BY <1>2, <1>3, <1>4 DEF Traced, sealed

\* Another document leaves what is traced traceable.
LEMMA SealTraced ==
  ASSUME Typed, Typed', Traced,
         NEW b \in 0..MaxAmendments, NEW parent \in Nat, SealContract(b, parent),
         b # 0 => parent \in 1..Len(seals),
         NEW r \in Requests, NEW pc, NEW a, NEW hash, NEW vin,
         Moved(r, pc, a, hash, vin), pc \in {"assign", "check"},
         UNCHANGED <<manifest, title>>, status' # "CLOSING_PACKAGE_READY"
  PROVE  Traced'
<1>0. TypeOK /\ TypeOK'
  BY DEF Typed
<1>1. /\ Len(seals) \in Nat /\ assigned \in Nat /\ transfers \in Nat
      /\ manifest \in Nat
  BY <1>0 DEF TypeOK
<1> DEFINE x == [amendment |-> b, parent |-> parent]
<1>2. /\ contract'.version = contract.version + 1
      /\ contract'.hash = Len(seals) + 1
      /\ Len(seals') = Len(seals) + 1
      /\ DOMAIN seals' = 1..Len(seals) + 1
      /\ DOMAIN seals = 1..Len(seals)
      /\ \A k \in 1..Len(seals) : seals'[k] = seals[k]
      /\ seals'[Len(seals) + 1] = x
  BY <1>0, SealContractAppends
<1>3. x.amendment = b /\ x.parent = parent
  OBVIOUS
<1> HIDE DEF x
<1>4. SealsAreCounted'
  <2>1. contract'.version = Len(seals') /\ contract'.hash = Len(seals')
    BY <1>1, <1>2 DEF Traced, RecordIsTraceable, SealsAreCounted
  <2>2. ASSUME NEW k \in DOMAIN seals', seals'[k].amendment # 0
        PROVE  seals'[k].parent \in 1..k - 1
    <3>1. CASE k = Len(seals) + 1
      <4>1. seals'[k] = x /\ b # 0 /\ k - 1 = Len(seals)
        BY <1>1, <1>2, <1>3, <2>2, <3>1
      <4> QED
        BY <1>3, <4>1
    <3>2. CASE k # Len(seals) + 1
      <4>1. k \in DOMAIN seals /\ seals'[k] = seals[k]
        BY <1>1, <1>2, <3>2
      <4> QED
        BY <2>2, <4>1 DEF Traced, RecordIsTraceable, SealsAreCounted
    <3> QED
      BY <3>1, <3>2
  <2> QED
    BY <2>1, <2>2 DEF SealsAreCounted
<1>5. TitleIsInOrder'
  <2>1. manifest' \in 0..Len(seals')
    BY <1>1, <1>2 DEF Traced, RecordIsTraceable, TitleIsInOrder
  <2>2. Len(seals') > 0
    BY <1>1, <1>2
  <2> QED
    BY <2>1, <2>2 DEF Traced, RecordIsTraceable, TitleIsInOrder, title
<1>6. \A q \in Requests : Carries(q)'
  <2>1. Len(seals') > 0
    BY <1>1, <1>2
  <2>2. Carries(r)'
    BY <2>1 DEF Carries, Moved, ReadsContract
  <2>3. Len(seals) <= Len(seals') /\ assigned <= assigned'
    BY <1>1, <1>2 DEF title
  <2> QED
    BY <1>0, <2>2, <2>3, OthersCarry DEF title
<1>7. \A d \in Amendments : amendment'[d] # "none" => Len(seals') > 0
  BY <1>1, <1>2
<1>8. assigned' + Cardinality(Endorsed') <= transfers'
  <2>1. UNCHANGED <<assigned, transfers>>
    BY DEF title
  <2>2. Cardinality(Endorsed') <= Cardinality(Endorsed)
        /\ Cardinality(Endorsed) \in Nat /\ Cardinality(Endorsed') \in Nat
    BY <1>0, EndorsedAfter
  <2> QED
    BY <1>1, <2>1, <2>2 DEF Traced
<1> QED
  BY <1>4, <1>5, <1>6, <1>7, <1>8 DEF Traced, RecordIsTraceable

\* A step that does not touch the documents, nor the amendments: the transfers
\* and the assignments are added in their order.
LEMMA TitleTraced ==
  ASSUME Typed, Typed', Traced, NEW r \in Requests,
         EnsureInstrument(r) \/ Endorse(r) \/ RecordAssignment(r)
  PROVE  Traced'
<1>0. TypeOK /\ TypeOK'
  BY DEF Typed
<1>1. /\ Len(seals) \in Nat /\ assigned \in Nat /\ transfers \in Nat
      /\ UNCHANGED <<status, contract, seals, amendment, manifest, forSale>>
  BY <1>0 DEF TypeOK, EnsureInstrument, Endorse, RecordAssignment, sealed
<1>2. SealsAreCounted'
  BY <1>1 DEF Traced, RecordIsTraceable, SealsAreCounted
<1>3. Carries(r) /\ TitleIsInOrder /\ Len(seals) > 0
  BY DEF Traced, RecordIsTraceable, Carries, EnsureInstrument, Endorse,
         RecordAssignment, At
<1>4. /\ Cardinality(Endorsed) \in Nat
      /\ assigned + Cardinality(Endorsed) <= transfers
  <2>1. Moved(r, "endorse", req[r].amendment, req[r].hash, req[r].vehicle)
        \/ Moved(r, "record", req[r].amendment, req[r].hash, req[r].vehicle)
        \/ Moved(r, "classify", req[r].amendment, req[r].hash, req[r].vehicle)
    BY <1>0, ActionsMove
  <2> QED
    BY <1>0, <2>1, EndorsedAfter DEF Traced
<1>5. CASE EnsureInstrument(r)
  <2>1. Moved(r, "endorse", req[r].amendment, req[r].hash, req[r].vehicle)
    BY <1>0, <1>5, ActionsMove
  <2>2. instrument' /\ UNCHANGED <<transfers, assigned>>
    BY <1>5 DEF EnsureInstrument
  <2>3. Carries(r)'
    BY <1>1, <1>3, <2>1, <2>2 DEF Carries, Moved, ReadsContract
  <2>4. \A q \in Requests : Carries(q)'
    BY <1>0, <1>1, <2>1, <2>2, <2>3, OthersCarry
  <2>5. TitleIsInOrder'
    BY <1>1, <1>3, <2>2 DEF TitleIsInOrder
  <2>6. Cardinality(Endorsed') <= Cardinality(Endorsed) /\ Cardinality(Endorsed') \in Nat
    BY <1>0, <2>1, EndorsedAfter
  <2>7. assigned' + Cardinality(Endorsed') <= transfers'
    BY <1>1, <1>4, <2>2, <2>6
  <2> QED
    BY <1>1, <1>2, <2>4, <2>5, <2>7 DEF Traced, RecordIsTraceable
<1>6. CASE Endorse(r)
  <2>1. Moved(r, "record", req[r].amendment, req[r].hash, req[r].vehicle)
    BY <1>0, <1>6, ActionsMove
  <2>2. transfers' = transfers + 1 /\ UNCHANGED <<instrument, assigned>> /\ instrument
    BY <1>3, <1>6 DEF Endorse, Carries, At
  <2>3. Carries(r)'
    BY <1>1, <1>3, <2>1, <2>2 DEF Carries, Moved, ReadsContract
  <2>4. \A q \in Requests : Carries(q)'
    BY <1>0, <1>1, <2>1, <2>2, <2>3, OthersCarry
  <2>5. TitleIsInOrder'
    BY <1>1, <1>3, <2>2 DEF TitleIsInOrder
  <2>6. Cardinality(Endorsed') <= Cardinality(Endorsed) + 1
        /\ Cardinality(Endorsed') \in Nat
    BY <1>0, <2>1, EndorsedAfter
  <2>7. assigned' + Cardinality(Endorsed') <= transfers'
    BY <1>1, <1>4, <2>2, <2>6
  <2> QED
    BY <1>1, <1>2, <2>4, <2>5, <2>7 DEF Traced, RecordIsTraceable
<1>7. CASE RecordAssignment(r)
  <2>1. Moved(r, "classify", req[r].amendment, req[r].hash, req[r].vehicle)
    BY <1>0, <1>7, ActionsMove
  <2>2. assigned' = assigned + 1 /\ UNCHANGED <<instrument, transfers>>
        /\ req[r].pc = "record"
    BY <1>7 DEF RecordAssignment, At
  <2>3. Carries(r)'
    BY <1>1, <1>3, <2>1, <2>2 DEF Carries, Moved, ReadsContract
  <2>4. \A q \in Requests : Carries(q)'
    BY <1>0, <1>1, <2>1, <2>2, <2>3, OthersCarry
  <2>5. /\ Cardinality(Endorsed') = Cardinality(Endorsed) - 1
        /\ Cardinality(Endorsed') \in Nat
    BY <1>0, <2>1, <2>2, EndorsedAfter
  <2>6. assigned' + Cardinality(Endorsed') <= transfers'
    BY <1>1, <1>4, <2>2, <2>5
  <2>7. TitleIsInOrder'
    BY <1>1, <1>3, <2>2, <2>5, <2>6 DEF TitleIsInOrder
  <2> QED
    BY <1>1, <1>2, <2>4, <2>6, <2>7 DEF Traced, RecordIsTraceable
<1> QED
  BY <1>5, <1>6, <1>7

LEMMA StepTraced ==
  ASSUME Typed, Typed', Traced, [Next]_vars
  PROVE  Traced'
<1>0. /\ TypeOK /\ TypeOK' /\ Len(seals) \in Nat
      /\ contract.hash = Len(seals) /\ contract.version = Len(seals)
      /\ RecordIsTraceable /\ TitleIsInOrder
      /\ \A r \in Requests : Carries(r)
  BY DEF Typed, TypeOK, Traced, RecordIsTraceable, SealsAreCounted
<1>1. CASE UNCHANGED vars
  BY <1>1 DEF Traced, RecordIsTraceable, SealsAreCounted, TitleIsInOrder, Carries,
              Endorsed, vars, sealed, title, history
<1>2. ASSUME NEW a \in Amendments, RequestAmendment(a)
      PROVE  Traced'
  <2>1. Len(seals) > 0
    BY <1>0, <1>2 DEF RequestAmendment
  <2> QED
    BY <1>2, <2>1 DEF RequestAmendment, Traced, RecordIsTraceable, SealsAreCounted,
                      TitleIsInOrder, Carries, Endorsed, sealed, title, history
<1>3. ASSUME NEW r \in Requests, Arrive(r) \/ Step(r) \/ FailPublish(r) \/ Crash(r)
      PROVE  Traced'
  <2> DEFINE Quiet ==
        /\ UNCHANGED <<sealed, instrument, transfers, assigned>>
        /\ \A b \in Amendments : amendment'[b] # "none" =>
           amendment[b] # "none" \/ Len(seals) > 0
        /\ forSale' => forSale \/ assigned > 0
        /\ manifest' \in 0..Len(seals)
        /\ status' = "CLOSING_PACKAGE_READY" => manifest' # 0
      Goes(pc) ==
        \E a, hash, vin :
          /\ Moved(r, pc, a, hash, vin)
          /\ pc \in ReadsContract => hash \in 1..Len(seals)
          /\ pc \in {"reject", "assign", "instrument"} => Len(seals) > 0
          /\ pc = "classify" => Len(seals) > 0 /\ assigned > 0
  <2>1. ASSUME Quiet, NEW pc, Goes(pc), pc \notin {"endorse", "record"}
        PROVE  Traced'
    <3>1. PICK a, hash, vin :
            /\ Moved(r, pc, a, hash, vin)
            /\ pc \in ReadsContract => hash \in 1..Len(seals)
            /\ pc \in {"reject", "assign", "instrument"} => Len(seals) > 0
            /\ pc = "classify" => Len(seals) > 0 /\ assigned > 0
      BY <2>1
    <3>2. Carries(r)'
      BY <2>1, <3>1 DEF Carries, Moved, sealed
    <3> QED
      BY <2>1, <3>1, <3>2, QuietTraced
  <2>2. ASSUME UNCHANGED <<status, sealed, vehicle, amendment, manifest, title>>
        PROVE  Quiet
    BY <1>0, <2>2 DEF TitleIsInOrder, title
  <2> USE DEF ReadsContract
  <2>3. CASE StartSend(r) \/ StartSign(r) \/ RetryAutopublish(r)
    <3>1. Quiet
      BY <2>2, <2>3 DEF StartSend, StartSign, RetryAutopublish
    <3> QED
      BY <1>0, <2>1, <2>3, <3>1, ActionsMove
  <2>4. ASSUME NEW a \in Amendments, NEW pc \in {"approve", "reject"},
               StartDecision(r, a, pc)
        PROVE  Traced'
    <3>1. Quiet /\ amendment[a] # "none"
      BY <2>2, <2>4 DEF StartDecision
    <3>2. contract.hash \in 1..Len(seals)
      BY <1>0, <3>1 DEF Traced
    <3>3. Moved(r, pc, a, contract.hash, 0)
      BY <1>0, <2>4, DecisionMoves
    <3>4. Goes(pc)
      BY <3>2, <3>3
    <3> HIDE DEF Quiet, Goes
    <3> QED
      BY <2>1, <3>1, <3>4
  <2>5. CASE Send(r) \/ UndoMark(r)
    <3>1. Quiet
      BY <1>0, <2>5 DEF Send, UndoMark, TitleIsInOrder, title
    <3> QED
      BY <1>0, <2>1, <2>5, <3>1, ActionsMove
  <2>6. CASE Sign(r)
    <3>1. Moved(r, "assign", req[r].amendment, req[r].hash, req[r].vehicle)
      BY <1>0, <2>6, ActionsMove
    <3> QED
      BY <2>6, <3>1, RangesTyped, SealTraced DEF Sign
  <2>7. CASE ReadAssignment(r)
    <3>1. Quiet
      BY <2>2, <2>7 DEF ReadAssignment
    <3>2. Len(seals) > 0 /\ assigned \in Nat
      BY <1>0, <2>7 DEF ReadAssignment, At, Carries, TypeOK
    <3>3. CASE assigned = 0
      BY <1>0, <2>1, <2>7, <3>1, <3>2, <3>3, ActionsMove
    <3>4. CASE assigned # 0
      BY <1>0, <2>1, <2>7, <3>1, <3>2, <3>4, ActionsMove
    <3> QED
      BY <3>3, <3>4
  <2>8. CASE EnsureInstrument(r) \/ Endorse(r) \/ RecordAssignment(r)
    BY <2>8, TitleTraced
  <2>9. CASE ClassifyForSale(r)
    <3>1. Quiet
      BY <1>0, <2>9 DEF ClassifyForSale, TitleIsInOrder, Carries, At
    <3> QED
      BY <1>0, <2>1, <2>9, <3>1, ActionsMove
  <2>10. CASE Reject(r)
    <3>1. Len(seals) > 0
      BY <1>0, <2>10 DEF Reject, Carries, At
    <3>2. Quiet
      BY <1>0, <2>10, <3>1 DEF Reject, TitleIsInOrder, title
    <3> QED
      BY <1>0, <2>1, <2>10, <3>2, ActionsMove
  <2>11. CASE Approve(r)
    <3>1. req[r].amendment \in 0..MaxAmendments /\ req[r].hash \in 1..Len(seals)
          /\ req[r].hash \in Nat
      BY <1>0, <2>11, RequestFields DEF Approve, At, Carries
    <3>2. Moved(r, "check", 0, 0, 0)
      BY <1>0, <2>11, ActionsMove
    <3> QED
      BY <2>11, <3>1, <3>2, SealTraced DEF Approve
  <2>12. CASE CheckDeal(r)
    <3>1. Quiet
      BY <2>2, <2>12 DEF CheckDeal
    <3>2. contract.version > 0 => contract.hash \in 1..Len(seals)
      BY <1>0
    <3> QED
      BY <1>0, <2>1, <2>12, <3>1, <3>2, CheckDealMoves
  <2>13. CASE MarkGenerating(r)
    <3>1. Quiet
      BY <1>0, <2>13 DEF MarkGenerating, TitleIsInOrder, title
    <3>2. req[r].hash \in 1..Len(seals)
      BY <1>0, <2>13 DEF MarkGenerating, At, Carries
    <3> QED
      BY <1>0, <2>1, <2>13, <3>1, <3>2, ActionsMove
  <2>14. CASE Extract(r)
    <3>1. Quiet
      BY <2>2, <2>14 DEF Extract
    <3>2. req[r].hash \in 1..Len(seals)
      BY <1>0, <2>14 DEF Extract, At, Carries
    <3> QED
      BY <1>0, <2>1, <2>14, <3>1, <3>2, ActionsMove
  <2>15. CASE Reconcile(r)
    <3>1. Quiet
      BY <1>0, <2>15 DEF Reconcile, TitleIsInOrder, title
    <3>2. req[r].hash \in 1..Len(seals)
      BY <1>0, <2>15 DEF Reconcile, At, Carries
    <3> QED
      BY <1>0, <2>1, <2>15, <3>1, <3>2, ActionsMove
  <2>16. CASE Publish(r)
    <3>1. req[r].hash \in 1..Len(seals)
      BY <1>0, <2>16 DEF Publish, At, Carries
    <3>2. Quiet
      BY <1>0, <2>16, <3>1 DEF Publish, title
    <3> QED
      BY <1>0, <2>1, <2>16, <3>2, ActionsMove
  <2>17. CASE FailPublish(r) \/ Crash(r)
    <3>1. Quiet
      BY <2>2, <2>17 DEF FailPublish, Crash
    <3> QED
      BY <1>0, <2>1, <2>17, <3>1, ActionsMove
  <2> QED
    BY <1>3, <2>3, <2>4, <2>5, <2>6, <2>7, <2>8, <2>9, <2>10, <2>11, <2>12, <2>13,
       <2>14, <2>15, <2>16, <2>17 DEF Arrive, Step
<1> QED
  BY <1>1, <1>2, <1>3 DEF Next

LEMMA PackageTraced == Spec => [](Typed /\ Traced)
<1>1. Init => Typed /\ Traced
  BY InitTyped, InitTraced
<1>2. Typed /\ Traced /\ [Next]_vars => (Typed /\ Traced)'
  BY StepTyped, StepTraced
<1> QED
  BY <1>1, <1>2, PTL DEF Spec

\* The version and the hash of the contract name its last document, an amendment
\* replaces an earlier hash, and a package, a transfer, an assignment and a loan
\* for sale each rest on the one before: however the handlers overlap and
\* wherever they are cut short.
THEOREM RecordAlwaysTraceable == Spec => []RecordIsTraceable
<1>1. Typed /\ Traced => RecordIsTraceable
  BY DEF Traced
<1> QED
  BY <1>1, PackageTraced, PTL

-----------------------------------------------------------------------------
(* Deals that are settled.                                                 *)

LEMMA InitSettled == Init => Settled
<1> SUFFICES ASSUME Init PROVE Settled
  OBVIOUS
<1>1. \A r \in Requests : IsFresh(r)
  BY RangesTyped DEF Init, IsFresh, ReadsContract, ReadsAmendment
<1>2. vehicle \in {agreed, AsRead}
  BY DEF Init
<1>3. status = "CLOSING_PACKAGE_READY" => manifest = contract.hash
  BY DEF Init
<1>4. SealsAgree
  <2> DEFINE x == [amendment |-> 0, parent |-> 0]
  <2>1. (seals = <<>> \/ seals = <<x>>) /\ x.amendment = 0
    BY DEF Init
  <2> HIDE DEF x
  <2>2. \A k \in DOMAIN seals : seals[k].amendment = 0
    BY <2>1
  <2>3. \A a \in Amendments : amendment[a] = "none" /\ a # 0
    BY MaxAmendmentsAssumption DEF Init, Amendments
  <2> QED
    BY <2>2, <2>3 DEF SealsAgree
<1> QED
  BY <1>1, <1>2, <1>3, <1>4 DEF Settled

\* A document for an amendment that is pending, in the place of the last hash, or
\* for no amendment, keeps the agreement.
LEMMA SealAgrees ==
  ASSUME TypeOK, SealsAgree,
         NEW b \in 0..MaxAmendments, NEW parent \in Nat, SealContract(b, parent),
         \/ b = 0 /\ amendment' = amendment
         \/ /\ b \in Amendments
            /\ amendment[b] = "PENDING_LENDER_APPROVAL"
            /\ amendment' = [amendment EXCEPT ![b] = "APPROVED"]
            /\ parent = Len(seals)
  PROVE  SealsAgree'
<1> DEFINE x == [amendment |-> b, parent |-> parent]
           n == Len(seals) + 1
<1>1. /\ DOMAIN seals' = 1..n
      /\ DOMAIN seals = 1..Len(seals)
      /\ \A k \in 1..Len(seals) : seals'[k] = seals[k]
      /\ seals'[n] = x
      /\ Len(seals) \in Nat
  BY SealContractAppends DEF TypeOK
<1>2. x.amendment = b /\ x.parent = parent
  OBVIOUS
<1> HIDE DEF x
<1>0. Len(seals) \in Nat
  BY DEF TypeOK
<1>10. n \in 1..n /\ n - 1 = Len(seals)
  BY <1>0
<1>11. \A k \in 1..n : k # n => k \in 1..Len(seals)
  BY <1>0
<1>12. \A k \in 1..Len(seals) : k \in 1..n /\ k # n
  BY <1>0
<1> HIDE DEF n
<1>3. /\ n \in DOMAIN seals' /\ n - 1 = Len(seals)
      /\ \A k \in DOMAIN seals' : k # n => k \in DOMAIN seals /\ seals'[k] = seals[k]
  BY <1>1, <1>10, <1>11
<1>13. \A k \in DOMAIN seals : k \in DOMAIN seals' /\ seals'[k] = seals[k]
  BY <1>1, <1>12
<1>4. seals'[n].amendment = b /\ seals'[n].parent = parent
  BY <1>1, <1>2
<1>5. 0 \notin Amendments /\ DOMAIN amendment = Amendments
  BY MaxAmendmentsAssumption DEF Amendments, TypeOK
<1>6. b # 0 => \A k \in DOMAIN seals : seals[k].amendment # b
  BY DEF SealsAgree
<1>7. ASSUME NEW a \in Amendments
      PROVE  amendment'[a] = "APPROVED" <=>
               \E k \in DOMAIN seals' : seals'[k].amendment = a
  <2>1. CASE a = b
    <3>1. amendment'[a] = "APPROVED"
      BY <1>5, <2>1
    <3> QED
      BY <1>3, <1>4, <2>1, <3>1
  <2>2. CASE a # b
    <3>1. amendment'[a] = amendment[a]
      BY <1>5, <2>2
    <3>2. (\E k \in DOMAIN seals' : seals'[k].amendment = a) <=>
            \E k \in DOMAIN seals : seals[k].amendment = a
      <4>1. ASSUME NEW k \in DOMAIN seals', seals'[k].amendment = a
            PROVE  k \in DOMAIN seals /\ seals[k].amendment = a
        BY <1>3, <1>4, <2>2, <4>1
      <4>2. ASSUME NEW k \in DOMAIN seals, seals[k].amendment = a
            PROVE  k \in DOMAIN seals' /\ seals'[k].amendment = a
        BY <1>13, <4>2
      <4> QED
        BY <4>1, <4>2
    <3> QED
      BY <3>1, <3>2 DEF SealsAgree
  <2> QED
    BY <2>1, <2>2
<1>8. ASSUME NEW j \in DOMAIN seals', NEW k \in DOMAIN seals', seals'[k].amendment # 0
      PROVE  /\ seals'[k].parent = k - 1
             /\ seals'[j].amendment = seals'[k].amendment => j = k
  <2>1. CASE k = n
    <3>1. b # 0 /\ seals'[k].amendment = b /\ parent = k - 1
      BY <1>3, <1>4, <1>8, <2>1
    <3>2. seals'[j].amendment = b => j = n
      BY <1>3, <1>6, <3>1
    <3> QED
      BY <1>4, <2>1, <3>1, <3>2
  <2>2. CASE k # n
    <3>1. k \in DOMAIN seals /\ seals'[k] = seals[k] /\ seals[k].amendment # 0
      BY <1>3, <1>8, <2>2
    <3>2. seals[k].parent = k - 1
      BY <3>1 DEF SealsAgree
    <3>3. CASE j = n
      BY <1>4, <1>6, <3>1, <3>2, <3>3
    <3>4. CASE j # n
      <4>1. j \in DOMAIN seals /\ seals'[j] = seals[j]
        BY <1>3, <3>4
      <4> QED
        BY <3>1, <3>2, <4>1 DEF SealsAgree
    <3> QED
      BY <3>3, <3>4
  <2> QED
    BY <2>1, <2>2
<1> QED
  BY <1>7, <1>8 DEF SealsAgree

\* A step that seals and decides nothing, and leaves the vehicle as it was agreed
\* or read.
LEMMA QuietSettled ==
  ASSUME TypeOK, Settled, NEW r \in Requests, NEW pc, NEW a, NEW hash, NEW vin,
         Moved(r, pc, a, hash, vin), IsFresh(r)', UNCHANGED overtaken,
         UNCHANGED <<sealed, amendment, agreed>>,
         ~overtaken => vehicle' \in {agreed, AsRead},
         ~overtaken /\ status' = "CLOSING_PACKAGE_READY" => manifest' = contract.hash
  PROVE  Settled'
<1> SUFFICES ASSUME ~overtaken PROVE Settled'
  BY DEF Settled
<1>1. ASSUME NEW q \in Requests, q # r PROVE IsFresh(q)'
  <2>1. req'[q] = req[q] /\ IsFresh(q)
    BY <1>1 DEF Settled, Moved
  <2> QED
    BY <2>1 DEF IsFresh, sealed
<1>2. SealsAgree'
  BY DEF Settled, SealsAgree, sealed
<1> QED
  BY <1>1, <1>2 DEF Settled, sealed

\* A decision or a document, when no other request has read what it changes.
LEMMA DecisionSettled ==
  ASSUME Typed, Typed', Traced, Settled, NEW r \in Requests,
         Sign(r) \/ Reject(r) \/ Approve(r)
  PROVE  Settled'
<1> SUFFICES ASSUME ~overtaken' PROVE Settled'
  BY DEF Settled
<1>1. ~overtaken
  BY DEF Sign, Reject, Approve, Overtake
<1>2. /\ TypeOK /\ Len(seals) \in Nat /\ contract.hash = Len(seals)
      /\ SealsAgree /\ vehicle \in {agreed, AsRead} /\ IsFresh(r)
      /\ amendment \in [Amendments -> AmendmentStatus]
  BY <1>1 DEF Typed, TypeOK, Traced, RecordIsTraceable, SealsAreCounted, Settled
<1>3. CASE Sign(r)
  <2>1. Moved(r, "assign", req[r].amendment, req[r].hash, req[r].vehicle)
    BY <1>2, <1>3, ActionsMove
  <2>2. SealsAgree'
    BY <1>2, <1>3, RangesTyped, SealAgrees DEF Sign
  <2>3. ASSUME NEW q \in Requests PROVE IsFresh(q)'
    <3>1. CASE q = r
      BY <2>1, <3>1 DEF IsFresh, Moved, ReadsContract, ReadsAmendment
    <3>2. CASE q # r
      <4>1. req'[q] = req[q] /\ req[q].pc \notin ReadsContract /\ IsFresh(q)
        BY <1>1, <1>3, <2>1, <3>2 DEF Moved, Sign, Overtake, Settled
      <4> QED
        BY <1>3, <4>1 DEF IsFresh, Sign, ReadsContract
    <3> QED
      BY <3>1, <3>2
  <2> QED
    BY <1>2, <1>3, <2>2, <2>3 DEF Settled, Sign
<1>4. CASE Reject(r)
  <2>1. Moved(r, "idle", 0, 0, 0)
    BY <1>2, <1>4, ActionsMove
  <2> DEFINE a == req[r].amendment
  <2>2. a \in Amendments /\ amendment[a] = "PENDING_LENDER_APPROVAL"
    BY <1>2, <1>4 DEF Reject, At, IsFresh, ReadsAmendment, Typed
  <2>3. amendment' = [amendment EXCEPT ![a] = "REJECTED"] /\ UNCHANGED seals
    BY <1>4 DEF Reject, sealed
  <2> HIDE DEF a
  <2>4. \A b \in Amendments : amendment'[b] = "APPROVED" <=> amendment[b] = "APPROVED"
    BY <1>2, <2>2, <2>3
  <2>5. SealsAgree'
    BY <1>2, <2>3, <2>4 DEF SealsAgree
  <2>6. ASSUME NEW q \in Requests PROVE IsFresh(q)'
    <3>1. CASE q = r
      BY <2>1, <3>1 DEF IsFresh, Moved, ReadsContract, ReadsAmendment
    <3>2. CASE q # r
      <4>1. req'[q] = req[q] /\ req[q].pc \notin ReadsAmendment /\ IsFresh(q)
        BY <1>1, <1>4, <2>1, <3>2 DEF Moved, Reject, Overtake, Settled
      <4> QED
        BY <1>4, <4>1 DEF IsFresh, Reject, sealed
    <3> QED
      BY <3>1, <3>2
  <2> QED
    BY <1>1, <1>2, <1>4, <2>5, <2>6 DEF Settled, Reject, sealed
<1>5. CASE Approve(r)
  <2>1. Moved(r, "check", 0, 0, 0)
    BY <1>2, <1>5, ActionsMove
  <2>2. /\ req[r].amendment \in Amendments
        /\ amendment[req[r].amendment] = "PENDING_LENDER_APPROVAL"
        /\ req[r].hash = Len(seals)
    BY <1>2, <1>5 DEF Approve, At, IsFresh, ReadsAmendment, ReadsContract, Typed
  <2>3. req[r].amendment \in 0..MaxAmendments /\ req[r].hash \in Nat
    BY <1>2, RequestFields
  <2>4. SealsAgree'
    BY <1>2, <1>5, <2>2, <2>3, SealAgrees DEF Approve
  <2>5. ASSUME NEW q \in Requests PROVE IsFresh(q)'
    <3>1. CASE q = r
      BY <2>1, <3>1 DEF IsFresh, Moved, ReadsContract, ReadsAmendment
    <3>2. CASE q # r
      <4>1. req'[q] = req[q] /\ req[q].pc \notin ReadsContract \cup ReadsAmendment
        BY <1>5, <2>1, <3>2 DEF Moved, Approve, Overtake
      <4> QED
        BY <4>1 DEF IsFresh, ReadsContract, ReadsAmendment
    <3> QED
      BY <3>1, <3>2
  <2>6. vehicle' = agreed' /\ status' # "CLOSING_PACKAGE_READY"
    BY <1>5 DEF Approve
  <2> QED
    BY <2>4, <2>5, <2>6 DEF Settled
<1> QED
  BY <1>3, <1>4, <1>5

LEMMA StepSettled ==
  ASSUME Typed, Typed', Traced, Settled, [Next]_vars
  PROVE  Settled'
<1>0. TypeOK
  BY DEF Typed
<1>1. CASE UNCHANGED vars
  BY <1>1 DEF Settled, SealsAgree, IsFresh, vars, sealed, title, history
<1>2. ASSUME NEW a \in Amendments, RequestAmendment(a)
      PROVE  Settled'
  <2>0. amendment[a] = "none" /\ DOMAIN amendment = Amendments
        /\ amendment' = [amendment EXCEPT ![a] = "PENDING_LENDER_APPROVAL"]
        /\ UNCHANGED <<status, sealed, vehicle, manifest, title, req, history>>
    BY <1>0, <1>2 DEF RequestAmendment, TypeOK
  <2>1. \A b \in Amendments : amendment'[b] = "APPROVED" <=> amendment[b] = "APPROVED"
    BY <2>0
  <2>2. SealsAgree => SealsAgree'
    BY <2>0, <2>1 DEF SealsAgree, sealed
  <2>3. \A q \in Requests : Typed /\ IsFresh(q) => IsFresh(q)'
    BY <2>0 DEF IsFresh, sealed, history, Typed
  <2> QED
    BY <2>0, <2>2, <2>3 DEF Settled, sealed, history
<1>3. ASSUME NEW r \in Requests, Arrive(r) \/ Step(r) \/ FailPublish(r) \/ Crash(r)
      PROVE  Settled'
  <2> DEFINE Quiet ==
        /\ UNCHANGED <<sealed, amendment, agreed, overtaken>>
        /\ ~overtaken => vehicle' \in {agreed, AsRead}
        /\ ~overtaken /\ status' = "CLOSING_PACKAGE_READY" => manifest' = contract.hash
      Goes(pc) ==
        \E a, hash, vin :
          /\ Moved(r, pc, a, hash, vin)
          /\ pc \in ReadsContract => hash = contract.hash \/ overtaken
          /\ pc = "reconcile" => vin \in {agreed, AsRead} \/ overtaken
          /\ pc \in ReadsAmendment => amendment[a] = "PENDING_LENDER_APPROVAL"
  <2>1. ASSUME Quiet, NEW pc, Goes(pc)
        PROVE  Settled'
    <3>1. CASE overtaken
      BY <2>1, <3>1 DEF Settled
    <3>2. CASE ~overtaken
      <4>1. PICK a, hash, vin :
              /\ Moved(r, pc, a, hash, vin)
              /\ pc \in ReadsContract => hash = contract.hash
              /\ pc = "reconcile" => vin \in {agreed, AsRead}
              /\ pc \in ReadsAmendment => amendment[a] = "PENDING_LENDER_APPROVAL"
        BY <2>1, <3>2
      <4>2. IsFresh(r)'
        BY <2>1, <4>1 DEF IsFresh, Moved, sealed
      <4> QED
        BY <1>0, <2>1, <4>1, <4>2, QuietSettled
    <3> QED
      BY <3>1, <3>2
  <2>2. ASSUME UNCHANGED <<status, sealed, vehicle, amendment, manifest, title, history>>
        PROVE  Quiet
    BY <2>2 DEF Settled, history
  <2>3. req[r].pc \in ReadsContract => req[r].hash = contract.hash \/ overtaken
    BY DEF Settled, IsFresh
  <2> USE DEF ReadsContract, ReadsAmendment
  <2>4. CASE StartSend(r) \/ StartSign(r) \/ RetryAutopublish(r)
    <3>1. Quiet
      BY <2>2, <2>4 DEF StartSend, StartSign, RetryAutopublish
    <3> QED
      BY <1>0, <2>1, <2>4, <3>1, ActionsMove
  <2>5. ASSUME NEW a \in Amendments, NEW pc \in {"approve", "reject"},
               StartDecision(r, a, pc)
        PROVE  Settled'
    <3>1. Quiet /\ amendment[a] = "PENDING_LENDER_APPROVAL"
      BY <2>2, <2>5 DEF StartDecision
    <3>2. Moved(r, pc, a, contract.hash, 0)
      BY <1>0, <2>5, DecisionMoves
    <3>3. Goes(pc)
      BY <3>1, <3>2
    <3> HIDE DEF Quiet, Goes
    <3> QED
      BY <2>1, <3>1, <3>3
  <2>6. CASE Send(r) \/ UndoMark(r) \/ MarkGenerating(r)
    <3>1. Quiet
      BY <2>6 DEF Settled, Send, UndoMark, MarkGenerating, history
    <3>2. MarkGenerating(r) => req[r].hash = contract.hash \/ overtaken
      BY <2>3 DEF MarkGenerating, At
    <3> QED
      BY <1>0, <2>1, <2>6, <3>1, <3>2, ActionsMove
  <2>7. CASE Sign(r) \/ Reject(r) \/ Approve(r)
    BY <2>7, DecisionSettled
  <2>8. CASE ReadAssignment(r)
    <3>1. Quiet
      BY <2>2, <2>8 DEF ReadAssignment
    <3> DEFINE pc == IF assigned = 0 THEN "instrument" ELSE "classify"
    <3>2. Moved(r, pc, req[r].amendment, req[r].hash, req[r].vehicle)
          /\ pc \in {"instrument", "classify"}
      BY <1>0, <2>8, ActionsMove
    <3> HIDE DEF pc, Quiet
    <3> QED
      BY <2>1, <3>1, <3>2
  <2>9. CASE \/ EnsureInstrument(r) \/ Endorse(r) \/ RecordAssignment(r)
             \/ ClassifyForSale(r)
    <3>1. Quiet
      BY <2>9 DEF Settled, EnsureInstrument, Endorse, RecordAssignment,
                  ClassifyForSale, history
    <3> QED
      BY <1>0, <2>1, <2>9, <3>1, ActionsMove
  <2>10. CASE CheckDeal(r)
    <3>1. Quiet
      BY <2>2, <2>10 DEF CheckDeal
    <3> QED
      BY <1>0, <2>1, <2>10, <3>1, CheckDealMoves
  <2>11. CASE Extract(r) \/ FailPublish(r)
    <3>1. Quiet
      BY <2>2, <2>11 DEF Extract, FailPublish
    <3>2. /\ req[r].hash = contract.hash \/ overtaken
          /\ vehicle \in {agreed, AsRead} \/ overtaken
      BY <2>3, <2>11 DEF Extract, FailPublish, At, Settled
    <3> QED
      BY <1>0, <2>1, <2>11, <3>1, <3>2, ActionsMove
  <2>12. CASE Reconcile(r)
    <3>1. CASE overtaken
      BY <2>12, <3>1 DEF Settled, Reconcile, history
    <3>2. CASE ~overtaken
      <4>1. IsFresh(r) /\ At(r, "reconcile")
        BY <2>12, <3>2 DEF Settled, Reconcile
      <4>2. Quiet
        BY <2>12, <3>2, <4>1 DEF Settled, Reconcile, history, IsFresh, At
      <4>3. req[r].hash = contract.hash
        BY <4>1 DEF IsFresh, At
      <4> QED
        BY <1>0, <2>1, <2>12, <4>2, <4>3, ActionsMove
    <3> QED
      BY <3>1, <3>2
  <2>13. CASE Publish(r)
    <3>1. Quiet
      BY <2>3, <2>13 DEF Settled, Publish, At, history
    <3> QED
      BY <1>0, <2>1, <2>13, <3>1, ActionsMove
  <2>14. CASE Crash(r)
    <3>1. Quiet
      BY <2>14 DEF Settled, Crash
    <3> QED
      BY <1>0, <2>1, <2>14, <3>1, ActionsMove
  <2> QED
    BY <1>3, <2>4, <2>5, <2>6, <2>7, <2>8, <2>9, <2>10, <2>11, <2>12, <2>13, <2>14
    DEF Arrive, Step
<1> QED
  BY <1>1, <1>2, <1>3 DEF Next

\* Until something is sealed or decided between what another request has read and
\* its commit, a package that is ready is that of the contract in force, each
\* approved amendment has sealed the contract once, in the place of the hash
\* before, and the vehicle is that of the last approved amendment, or one that
\* the language model has read.
THEOREM SettledDealsAlwaysAgree == Spec => []SettledDealsAgree
<1>1. Init => IInv
  BY InitTyped, InitTraced, InitSettled DEF IInv
<1>2. IInv /\ [Next]_vars => IInv'
  BY StepTyped, StepTraced, StepSettled DEF IInv
<1>3. IInv => SettledDealsAgree
  BY DEF IInv, Settled, SealsAgree, SettledDealsAgree
<1> QED
  BY <1>1, <1>2, <1>3, PTL DEF Spec

-----------------------------------------------------------------------------
(* The title.                                                              *)

\* Every step of the requests is a step of ContractTitle, or invisible there.
LEMMA TitleStep ==
  ASSUME Typed, Typed', Traced, Traced', [Next]_vars
  PROVE  [Title!Next]_(Title!vars)
<1>0. /\ TypeOK /\ TypeOK' /\ Len(seals) \in Nat
      /\ \A r \in Requests : Carries(r)
  BY DEF Typed, TypeOK, Traced
<1> USE DEF Title!vars, Title!title, At
<1>1. CASE UNCHANGED vars
  BY <1>1 DEF vars, sealed, title
<1>2. ASSUME NEW a \in Amendments, RequestAmendment(a)
      PROVE  UNCHANGED <<seals, title, manifest>>
  BY <1>2 DEF RequestAmendment, sealed
<1>3. ASSUME NEW r \in Requests, Arrive(r) \/ Step(r) \/ FailPublish(r) \/ Crash(r)
      PROVE  [Title!Next]_(Title!vars)
  <2>1. CASE Sign(r)
    <3>1. Title!Seal(0, 0)
      BY <2>1 DEF Sign, SealContract, title, Title!Seal
    <3>2. 0 \in 0..Len(seals) /\ 0 \in 0..MaxAmendments
      BY <1>0, RangesTyped
    <3> QED
      BY <3>1, <3>2 DEF Title!Next
  <2>2. CASE Approve(r)
    <3>1. /\ req[r].amendment \in 0..MaxAmendments
          /\ req[r].hash \in 1..Len(seals)
      BY <1>0, <2>2, RequestFields DEF Approve, Carries, ReadsContract
    <3>2. Title!Seal(req[r].amendment, req[r].hash)
      BY <2>2, <3>1 DEF Approve, SealContract, title, Title!Seal
    <3>3. req[r].hash \in 0..Len(seals)
      BY <1>0, <3>1
    <3> QED
      BY <3>1, <3>2, <3>3 DEF Title!Next
  <2>3. CASE EnsureInstrument(r)
    <3>1. seals # <<>>
      BY <1>0, <2>3 DEF EnsureInstrument, Carries
    <3>2. Title!Issue
      BY <2>3, <3>1 DEF EnsureInstrument, sealed, Title!Issue
    <3> QED
      BY <3>2 DEF Title!Next
  <2>4. CASE Endorse(r)
    <3>1. instrument
      BY <1>0, <2>4 DEF Endorse, Carries
    <3>2. Title!Endorse
      BY <2>4, <3>1 DEF Endorse, sealed, Title!Endorse
    <3> QED
      BY <3>2 DEF Title!Next
  <2>5. CASE RecordAssignment(r)
    <3>1. assigned' = assigned + 1 /\ transfers' = transfers
      BY <2>5 DEF RecordAssignment
    <3>2. assigned' <= transfers'
      BY DEF Traced, RecordIsTraceable, TitleIsInOrder
    <3>3. assigned < transfers
      BY <1>0, <3>1, <3>2 DEF TypeOK
    <3>4. Title!Assign
      BY <2>5, <3>3 DEF RecordAssignment, sealed, Title!Assign
    <3> QED
      BY <3>4 DEF Title!Next
  <2>6. CASE ClassifyForSale(r)
    <3>1. assigned > 0
      BY <1>0, <2>6 DEF ClassifyForSale, Carries
    <3>2. Title!Offer
      BY <2>6, <3>1 DEF ClassifyForSale, sealed, Title!Offer
    <3> QED
      BY <3>2 DEF Title!Next
  <2>7. CASE Publish(r)
    <3>1. req[r].hash \in 1..Len(seals)
      BY <1>0, <2>7 DEF Publish, Carries, ReadsContract
    <3>2. Title!Publish(req[r].hash)
      BY <2>7 DEF Publish, sealed, title, Title!Publish
    <3> QED
      BY <3>1, <3>2 DEF Title!Next
  <2>8. CASE \/ Arrive(r) \/ Send(r) \/ ReadAssignment(r) \/ Reject(r)
             \/ CheckDeal(r) \/ MarkGenerating(r) \/ Extract(r)
             \/ Reconcile(r) \/ UndoMark(r) \/ FailPublish(r) \/ Crash(r)
    BY <2>8
       DEF Arrive, StartSend, StartSign, StartDecision, RetryAutopublish, Send,
           ReadAssignment, Reject, CheckDeal, MarkGenerating, Extract, Reconcile,
           UndoMark, FailPublish, Crash, sealed, title
  <2> QED
    BY <1>3, <2>1, <2>2, <2>3, <2>4, <2>5, <2>6, <2>7, <2>8 DEF Step
<1> QED
  BY <1>1, <1>2, <1>3 DEF Next, title

\* For any number of requests and amendments, with or without crashes: no
\* document, endorsement, assignment or offer is taken back, and each rests on
\* the one before it.
THEOREM TitleImplemented == Spec => ImplementsTitle
<1>1. Init => Title!Init
  BY DEF Init, Title!Init
<1>2. Typed /\ Typed' /\ Traced /\ Traced' /\ [Next]_vars
        => [Title!Next]_(Title!vars)
  BY TitleStep
<1> QED
  BY <1>1, <1>2, PackageTraced, PTL DEF Spec, ImplementsTitle, Title!Spec

=============================================================================
