------------------------- MODULE DealWorkflowProofs -------------------------
(***************************************************************************)
(* Theorems about DealWorkflow, for any number of requests at a time.      *)
(*                                                                         *)
(* The inductive invariant has three parts.  Typed adds to the types that  *)
(* each series has a greatest number, which nextDocVersion chooses.  Story *)
(* is what makes a stale status harmless to the record: whatever a request *)
(* has checked is a milestone, and milestones stay.  Columns are the       *)
(* properties of columns that one statement writes together.               *)
(***************************************************************************)
EXTENDS DealWorkflow, TLAPS

-----------------------------------------------------------------------------
(* Types and numbers.                                                      *)

LEMMA ZeroIsHash == 0 \in Hashes
BY MaxHashesAssumption DEF Hashes

LEMMA IdleTyped == Idle \in Request /\ SeriesOf("none") = {}
BY ZeroIsHash DEF Idle, Request, SeriesOf

LEMMA DocumentVersion == \A d \in Document : d.version \in Nat \ {0}
BY DEF Document

HasGreatest(s) ==
  docs[s] # <<>> =>
    \E i \in DOMAIN docs[s] : \A j \in DOMAIN docs[s] :
      docs[s][j].version <= docs[s][i].version

\* A request that will add a document has read a number for it.
HasNumber(r) == SeriesOf(req[r].op) # {} => req[r].version # 0

Typed ==
  /\ TypeOK
  /\ \A s \in Series : HasGreatest(s)
  /\ \A r \in Requests : HasNumber(r)

\* The number of the next document is one more than some greatest number.
LEMMA NextVersionTyped ==
  ASSUME Typed, NEW s \in Series
  PROVE  /\ nextDocVersion(s) \in Nat \ {0}
         /\ \A i \in DOMAIN docs[s] : docs[s][i].version < nextDocVersion(s)
<1>1. docs[s] \in Seq(Document) /\ HasGreatest(s)
  BY DEF Typed, TypeOK
<1>2. CASE docs[s] = <<>>
  BY <1>2 DEF nextDocVersion
<1>3. CASE docs[s] # <<>>
  <2> DEFINE Versions == {docs[s][i].version : i \in DOMAIN docs[s]}
             Top(n) == \A i \in DOMAIN docs[s] : docs[s][i].version <= n
  <2>1. \E n \in Versions : Top(n)
    BY <1>1, <1>3 DEF HasGreatest
  <2>2. PICK n \in Versions : n = (CHOOSE m \in Versions : Top(m)) /\ Top(n)
    BY <2>1
  <2>3. \A i \in DOMAIN docs[s] : docs[s][i].version \in Nat \ {0}
    <3>1. \A i \in DOMAIN docs[s] : docs[s][i] \in Document
      BY <1>1
    <3> QED
      BY <3>1, DocumentVersion
  <2>4. nextDocVersion(s) = 1 + n
    BY <1>3, <2>2 DEF nextDocVersion
  <2>5. n \in Nat
    BY <2>2, <2>3
  <2>6. \A i \in DOMAIN docs[s] : docs[s][i].version <= n
    BY <2>2
  <2> HIDE DEF Versions, Top
  <2> QED
    BY <2>3, <2>4, <2>5, <2>6
<1> QED
  BY <1>2, <1>3

\* A series with one document more has a greatest number again.
LEMMA GreatestAfterAppend ==
  ASSUME Typed, NEW s \in Series, NEW d \in Document,
         docs'[s] = Append(docs[s], d)
  PROVE  HasGreatest(s)' /\ docs'[s] \in Seq(Document)
<1>1. docs[s] \in Seq(Document) /\ HasGreatest(s)
  BY DEF Typed, TypeOK
<1>2. /\ docs'[s] \in Seq(Document)
      /\ Len(docs'[s]) = Len(docs[s]) + 1
      /\ docs'[s][Len(docs[s]) + 1] = d
      /\ \A i \in DOMAIN docs[s] : docs'[s][i] = docs[s][i]
      /\ DOMAIN docs[s] = 1..Len(docs[s])
      /\ DOMAIN docs'[s] = 1..Len(docs[s]) + 1
      /\ Len(docs[s]) \in Nat
  BY <1>1
<1>3. \A i \in DOMAIN docs[s] : docs[s][i].version \in Nat
  <2>1. \A i \in DOMAIN docs[s] : docs[s][i] \in Document
    BY <1>1
  <2> QED
    BY <2>1, DocumentVersion
<1>4. d.version \in Nat
  BY DEF Document
<1> DEFINE last == Len(docs[s]) + 1
<1>5. \A j \in DOMAIN docs'[s] : j = last \/ j \in DOMAIN docs[s]
  BY <1>2
<1>6. last \in DOMAIN docs'[s]
  BY <1>2
<1>7. CASE \A j \in DOMAIN docs[s] : docs[s][j].version <= d.version
  <2>1. \A j \in DOMAIN docs'[s] : docs'[s][j].version <= docs'[s][last].version
    BY <1>2, <1>4, <1>5, <1>7
  <2> QED
    BY <1>2, <1>6, <2>1 DEF HasGreatest
<1>8. CASE \E k \in DOMAIN docs[s] : ~(docs[s][k].version <= d.version)
  <2>1. PICK k \in DOMAIN docs[s] : ~(docs[s][k].version <= d.version)
    BY <1>8
  <2>2. docs[s] # <<>>
    BY <1>1, <2>1
  <2>3. PICK i \in DOMAIN docs[s] :
          \A j \in DOMAIN docs[s] : docs[s][j].version <= docs[s][i].version
    BY <1>1, <2>2 DEF HasGreatest
  <2>4. docs[s][k].version <= docs[s][i].version
    BY <2>1, <2>3
  <2>5. d.version <= docs[s][i].version
    BY <1>3, <1>4, <2>1, <2>3, <2>4
  <2>6. i \in DOMAIN docs'[s] /\ docs'[s][i] = docs[s][i]
    BY <1>2, <2>3
  <2>7. \A j \in DOMAIN docs'[s] : docs'[s][j].version <= docs'[s][i].version
    BY <1>2, <1>5, <2>3, <2>5, <2>6
  <2> QED
    BY <1>2, <2>6, <2>7 DEF HasGreatest
<1> QED
  BY <1>2, <1>7, <1>8

LEMMA InitTyped == Init => Typed
<1> SUFFICES ASSUME Init PROVE Typed
  OBVIOUS
<1>1. TypeOK
  <2>1. docs \in [Series -> Seq(Document)]
    BY DEF Init
  <2>2. req \in [Requests -> Request]
    BY IdleTyped DEF Init
  <2> QED
    BY <2>1, <2>2, ZeroIsHash DEF Init, TypeOK, DealStatus, MockupLenderStatus
<1>2. \A s \in Series : docs[s] = <<>>
  BY DEF Init
<1> QED
  BY <1>1, <1>2 DEF Init, Idle, SeriesOf, Typed, HasGreatest, HasNumber

\* The document of a request has the number that the request has read.
LEMMA DocTyped ==
  ASSUME Typed, NEW r \in Requests, SeriesOf(req[r].op) # {}
  PROVE  Doc(r) \in Document
<1>1. req[r] \in Request /\ req[r].version # 0
  BY DEF Typed, TypeOK, HasNumber
<1>2. req[r].version \in Nat \ {0}
  BY <1>1 DEF Request
<1> QED
  BY <1>2, ZeroIsHash DEF Doc, Document

\* A request that ends leaves the others as they are.
LEMMA FinishTyped ==
  ASSUME Typed, NEW r \in Requests, Finish(r)
  PROVE  /\ req' \in [Requests -> Request]
         /\ \A q \in Requests : HasNumber(q)'
<1>1. req \in [Requests -> Request] /\ req' = [req EXCEPT ![r] = Idle]
  BY DEF Typed, TypeOK, Finish
<1>2. req' \in [Requests -> Request]
  BY <1>1, IdleTyped
<1>3. \A q \in Requests : q # r => req'[q] = req[q]
  BY <1>1
<1>4. req'[r].op = "none"
  BY <1>1 DEF Idle
<1> QED
  BY <1>2, <1>3, <1>4, IdleTyped DEF Typed, HasNumber

\* Documents that are added keep the rows typed and the numbers with a top.
LEMMA AppendTyped ==
  ASSUME Typed,
         NEW s \in Series, NEW d \in Document,
         docs' = [docs EXCEPT ![s] = Append(@, d)]
  PROVE  docs' \in [Series -> Seq(Document)] /\ \A t \in Series : HasGreatest(t)'
<1>1. docs \in [Series -> Seq(Document)]
  BY DEF Typed, TypeOK
<1>2. docs'[s] = Append(docs[s], d) /\ \A t \in Series \ {s} : docs'[t] = docs[t]
  BY <1>1
<1>3. HasGreatest(s)' /\ docs'[s] \in Seq(Document)
  BY <1>2, GreatestAfterAppend
<1>4. \A t \in Series \ {s} : HasGreatest(t)'
  BY <1>2 DEF Typed, HasGreatest
<1> QED
  BY <1>1, <1>2, <1>3, <1>4

LEMMA AppendTwoTyped ==
  ASSUME Typed,
         NEW s \in Series, NEW d \in Document,
         NEW t \in Series, NEW e \in Document, s # t,
         docs' = [docs EXCEPT ![s] = Append(@, d), ![t] = Append(@, e)]
  PROVE  docs' \in [Series -> Seq(Document)] /\ \A u \in Series : HasGreatest(u)'
<1>1. docs \in [Series -> Seq(Document)]
  BY DEF Typed, TypeOK
<1>2. /\ docs'[s] = Append(docs[s], d) /\ docs'[t] = Append(docs[t], e)
      /\ \A u \in Series \ {s, t} : docs'[u] = docs[u]
  BY <1>1
<1>3. /\ HasGreatest(s)' /\ docs'[s] \in Seq(Document)
      /\ HasGreatest(t)' /\ docs'[t] \in Seq(Document)
  BY <1>2, GreatestAfterAppend
<1>4. \A u \in Series \ {s, t} : HasGreatest(u)'
  BY <1>2 DEF Typed, HasGreatest
<1> QED
  BY <1>1, <1>2, <1>3, <1>4

LEMMA BeginTyped ==
  ASSUME Typed, NEW r \in Requests, NEW op \in Ops, Begin(r, op)
  PROVE  Typed'
<1>1. /\ hashes' \in Hashes
      /\ op = "package" => hashes' # 0
  BY MaxHashesAssumption DEF Begin, Typed, TypeOK, Hashes
<1>2. PICK version \in IF SeriesOf(op) = {} THEN {0}
                       ELSE {nextDocVersion(s) : s \in SeriesOf(op)} :
        req' = [req EXCEPT ![r] = [op |-> op, version |-> version,
                                   hash |-> IF op = "package" THEN hashes' ELSE 0]]
  BY DEF Begin
<1>3. SeriesOf(op) \subseteq Series
  BY DEF SeriesOf, Series
<1>4. version \in Nat /\ (SeriesOf(op) # {} => version # 0)
  BY <1>2, <1>3, NextVersionTyped
<1>5. [op |-> op, version |-> version,
       hash |-> IF op = "package" THEN hashes' ELSE 0] \in Request
  BY <1>1, <1>4, MaxHashesAssumption DEF Request, Hashes
<1>6. req' \in [Requests -> Request]
  BY <1>2, <1>5 DEF Typed, TypeOK
<1>7. \A q \in Requests : HasNumber(q)'
  BY <1>2, <1>4 DEF Typed, TypeOK, HasNumber
<1>8. TypeOK' /\ \A s \in Series : HasGreatest(s)'
  BY <1>1, <1>6 DEF Begin, stored, row, Typed, TypeOK, HasGreatest
<1> QED
  BY <1>7, <1>8 DEF Typed

LEMMA CommitTyped ==
  ASSUME Typed, NEW r \in Requests, Commit(r)
  PROVE  Typed'
<1> USE DEF Serving
<1>1. TypeOK /\ req[r] \in Request
  BY DEF Typed, TypeOK
<1>2. ASSUME NEW s \in Series, SeriesOf(req[r].op) # {}, AddDoc(s, Doc(r))
      PROVE  docs' \in [Series -> Seq(Document)] /\ \A t \in Series : HasGreatest(t)'
  BY <1>2, DocTyped, AppendTyped DEF AddDoc
<1>3. CASE acknowledgeDisclosure(r)
  <2>1. docs' \in [Series -> Seq(Document)] /\ \A t \in Series : HasGreatest(t)'
    BY <1>2, <1>3 DEF acknowledgeDisclosure, SeriesOf, Series
  <2> QED
    BY <1>1, <1>3, <2>1, FinishTyped
       DEF acknowledgeDisclosure, Typed, TypeOK, DealStatus
<1>4. CASE uploadGreenStageDoc(r)
  <2>1. docs' \in [Series -> Seq(Document)] /\ \A t \in Series : HasGreatest(t)'
    BY <1>2, <1>4 DEF uploadGreenStageDoc, SeriesOf, Series
  <2> QED
    BY <1>1, <1>4, <2>1, FinishTyped DEF uploadGreenStageDoc, row, Typed, TypeOK
<1>5. CASE uploadAdditionalDisclosureCopy(r)
  <2>1. docs' \in [Series -> Seq(Document)] /\ \A t \in Series : HasGreatest(t)'
    BY <1>2, <1>5 DEF uploadAdditionalDisclosureCopy, SeriesOf, Series
  <2> QED
    BY <1>1, <1>5, <2>1, FinishTyped
       DEF uploadAdditionalDisclosureCopy, row, Typed, TypeOK
<1>6. CASE submitUnsignedRISC(r)
  <2>1. [version |-> nextDocVersion("MOCKUP_PACKET"), hash |-> 0] \in Document
    BY NextVersionTyped, MaxHashesAssumption DEF Series, Document, Hashes
  <2>2. Doc(r) \in Document
    BY <1>6, DocTyped DEF submitUnsignedRISC, SeriesOf
  <2>3. docs' \in [Series -> Seq(Document)] /\ \A t \in Series : HasGreatest(t)'
    BY <1>6, <2>1, <2>2, AppendTwoTyped DEF submitUnsignedRISC, Series
  <2> QED
    BY <1>1, <1>6, <2>3, FinishTyped
       DEF submitUnsignedRISC, Typed, TypeOK, DealStatus, MockupLenderStatus
<1>7. ASSUME NEW decision \in Decisions, lenderReviewMockup(r, decision)
      PROVE  Typed'
  BY <1>1, <1>7, FinishTyped
     DEF lenderReviewMockup, ReviewOutcome, Decisions, Typed, TypeOK, DealStatus,
         MockupLenderStatus, HasGreatest
<1>8. CASE dealerResubmitAfterCounter(r)
  BY <1>1, <1>8, FinishTyped
     DEF dealerResubmitAfterCounter, Typed, TypeOK, DealStatus,
         MockupLenderStatus, HasGreatest
<1>9. CASE generateFinalOfficialPackage(r)
  <2>1. req[r].hash \in Hashes
    BY <1>1 DEF Request
  <2>2. /\ [version |-> nextDocVersion("FINAL_RISC"), hash |-> req[r].hash] \in Document
        /\ [version |-> nextDocVersion("FINAL_COORDINATED_PACKAGE"),
            hash |-> req[r].hash] \in Document
    BY <2>1, NextVersionTyped DEF Series, Document
  <2>3. docs' \in [Series -> Seq(Document)] /\ \A t \in Series : HasGreatest(t)'
    BY <1>9, <2>2, AppendTwoTyped DEF generateFinalOfficialPackage, Series
  <2>4. contract' \in [version: Nat, hash: Hashes] /\ finalHash' \in Hashes
    BY <1>1, <1>9, <2>1 DEF generateFinalOfficialPackage, UpsertContract, TypeOK
  <2> QED
    BY <1>1, <1>9, <2>3, <2>4, FinishTyped
       DEF generateFinalOfficialPackage, Typed, TypeOK, DealStatus
<1>10. CASE uploadExecutedFinalPackage(r)
  <2>1. docs' \in [Series -> Seq(Document)] /\ \A t \in Series : HasGreatest(t)'
    BY <1>2, <1>10 DEF uploadExecutedFinalPackage, SeriesOf, Series
  <2> QED
    BY <1>1, <1>10, <2>1, FinishTyped
       DEF uploadExecutedFinalPackage, Typed, TypeOK, DealStatus
<1>11. CASE lenderMarkFunded(r)
  BY <1>1, <1>11, FinishTyped
     DEF lenderMarkFunded, Typed, TypeOK, DealStatus, HasGreatest
<1> QED
  BY <1>3, <1>4, <1>5, <1>6, <1>7, <1>8, <1>9, <1>10, <1>11 DEF Commit

LEMMA AbortTyped ==
  ASSUME Typed, NEW r \in Requests, Abort(r)
  PROVE  Typed'
<1>1. req' \in [Requests -> Request] /\ \A q \in Requests : HasNumber(q)'
  BY FinishTyped DEF Abort
<1> QED
  BY <1>1 DEF Abort, stored, row, Typed, TypeOK, HasGreatest

LEMMA NextTyped == Typed /\ [Next]_vars => Typed'
<1> SUFFICES ASSUME Typed, [Next]_vars PROVE Typed'
  OBVIOUS
<1>1. CASE Next
  BY <1>1, BeginTyped, CommitTyped, AbortTyped DEF Next
<1>2. CASE UNCHANGED vars
  BY <1>2 DEF vars, stored, row, Typed, TypeOK, HasGreatest, HasNumber
<1> QED
  BY <1>1, <1>2

\* Every reachable state is well typed, and every series has a greatest number:
\* the aggregate of nextDocVersion always finds one.
THEOREM WorkflowTyped == Spec => []Typed
BY InitTyped, NextTyped, PTL DEF Spec

\* Every reachable state is well typed.
THEOREM WorkflowTypeCorrect == Spec => []TypeOK
<1>1. Typed => TypeOK
  BY DEF Typed
<1> QED
  BY <1>1, WorkflowTyped, PTL

-----------------------------------------------------------------------------
(* The story of the custody events.                                        *)

Needs == Milestone!Needs
Milestones == Milestone!Milestones

\* What the status that a request has checked stands for.
Requires(op) ==
  CASE op = "submit"   -> {"INITIAL_DISCLOSURE_ACCEPTED"}
    [] op = "review"   -> {"RISC_UNSIGNED"}
    [] op = "resubmit" -> {"COUNTER_OFFERED"}
    [] op = "package"  -> {"APPROVED_NO_CHANGES"}
    [] op = "executed" -> {"FINAL_PACKAGE_GENERATED"}
    [] op = "fund"     -> {"FINAL_EXECUTED_UPLOAD"}
    [] OTHER           -> {}

Closed == \A m \in custody : Needs[m] \subseteq custody
Warranted == \A r \in Requests : Requires(req[r].op) \subseteq custody

Story ==
  /\ custody \subseteq Milestones
  /\ Closed
  /\ Warranted
  /\ StatusIsDocumented

LEMMA MilestonesListed ==
  /\ Milestones = {"INITIAL_DISCLOSURE_ACCEPTED", "RISC_UNSIGNED",
                   "APPROVED_NO_CHANGES", "COUNTER_OFFERED", "REJECTED",
                   "COUNTER_RESUBMIT", "FINAL_PACKAGE_GENERATED",
                   "FINAL_EXECUTED_UPLOAD", "FUNDED_APPROVAL"}
  /\ Needs["INITIAL_DISCLOSURE_ACCEPTED"] = {}
  /\ Needs["RISC_UNSIGNED"] = {"INITIAL_DISCLOSURE_ACCEPTED"}
  /\ Needs["APPROVED_NO_CHANGES"] = {"RISC_UNSIGNED"}
  /\ Needs["COUNTER_OFFERED"] = {"RISC_UNSIGNED"}
  /\ Needs["REJECTED"] = {"RISC_UNSIGNED"}
  /\ Needs["COUNTER_RESUBMIT"] = {"COUNTER_OFFERED"}
  /\ Needs["FINAL_PACKAGE_GENERATED"] = {"APPROVED_NO_CHANGES"}
  /\ Needs["FINAL_EXECUTED_UPLOAD"] = {"FINAL_PACKAGE_GENERATED"}
  /\ Needs["FUNDED_APPROVAL"] = {"FINAL_EXECUTED_UPLOAD"}
BY DEF Needs, Milestones, Milestone!Needs, Milestone!Milestones

LEMMA InitStory == Init => Story
BY DEF Init, Story, Closed, Warranted, Requires, Idle, StatusIsDocumented, Evidence

\* The check of the status gives a request what it requires.
LEMMA CheckWarrants ==
  ASSUME Story, NEW op \in Ops, status \in AllowedIn(op)
  PROVE  Requires(op) \subseteq custody
<1>1. Evidence(status) \subseteq custody /\ custody \subseteq Milestones /\ Closed
  BY DEF Story, StatusIsDocumented
<1>2. "no operation leads here" \notin custody
  BY <1>1, MilestonesListed
<1>3. /\ "COUNTER_OFFERED" \in custody => "RISC_UNSIGNED" \in custody
      /\ "RISC_UNSIGNED" \in custody => "INITIAL_DISCLOSURE_ACCEPTED" \in custody
      /\ "FINAL_EXECUTED_UPLOAD" \in custody => "FINAL_PACKAGE_GENERATED" \in custody
  BY <1>1, MilestonesListed DEF Closed
<1>4. CASE op = "submit"
  <2>1. status \in {"DISCLOSURE_SIGNED", "LENDER_COUNTER"}
    BY <1>1, <1>2, <1>4 DEF AllowedIn, Structuring, Evidence
  <2> QED
    BY <1>1, <1>3, <1>4, <2>1 DEF Requires, Evidence
<1>5. CASE op = "review"
  BY <1>1, <1>2, <1>5 DEF AllowedIn, Requires, Evidence
<1>6. CASE op = "resubmit"
  BY <1>1, <1>2, <1>6 DEF AllowedIn, Requires, Evidence
<1>7. CASE op = "package"
  BY <1>1, <1>7 DEF AllowedIn, PackagedFrom, Requires, Evidence
<1>8. CASE op = "executed"
  BY <1>1, <1>3, <1>8 DEF AllowedIn, ExecutedFrom, Requires, Evidence
<1>9. CASE op = "fund"
  BY <1>1, <1>9 DEF AllowedIn, Requires, Evidence
<1>10. CASE op \in {"acknowledge", "greenDoc", "copy"}
  BY <1>10 DEF Requires
<1> QED
  BY <1>4, <1>5, <1>6, <1>7, <1>8, <1>9, <1>10 DEF Ops

\* A request that ends by recording a milestone it has warranted, and by
\* writing a status that the milestone accounts for, continues the story.
LEMMA RecordContinues ==
  ASSUME Typed, Story, NEW r \in Requests, NEW m \in Milestones,
         Needs[m] \subseteq custody, Record(m), Finish(r),
         Evidence(status') \subseteq custody \cup {m}
  PROVE  Story' /\ Milestone!Next
<1>1. custody' = custody \cup {m}
  BY DEF Record
<1>2. custody' \subseteq Milestones /\ Closed'
  BY <1>1 DEF Story, Closed
<1>3. \A q \in Requests : Requires(req'[q].op) \subseteq custody'
  BY <1>1 DEF Story, Warranted, Typed, TypeOK, Finish, Idle, Requires
<1>4. StatusIsDocumented'
  BY <1>1 DEF StatusIsDocumented
<1>5. Milestone!Next
  BY <1>1 DEF Milestone!Next, Milestone!Reach, Needs, Milestones
<1> QED
  BY <1>2, <1>3, <1>4, <1>5 DEF Story, Warranted, Milestones

\* A request that ends without a record leaves the story as it is.
LEMMA SilentContinues ==
  ASSUME Typed, Story, NEW r \in Requests, UNCHANGED <<custody, status>>, Finish(r)
  PROVE  Story'
BY DEF Typed, TypeOK, Story, Closed, Warranted, StatusIsDocumented, Finish, Idle,
       Requires, Milestones

LEMMA CommitStory ==
  ASSUME Typed, Story, NEW r \in Requests, Commit(r)
  PROVE  Story' /\ [Milestone!Next]_custody
<1> USE DEF Serving
<1>1. Requires(req[r].op) \subseteq custody
  BY DEF Story, Warranted
<1>2. CASE acknowledgeDisclosure(r)
  BY <1>2, RecordContinues, MilestonesListed DEF acknowledgeDisclosure, Evidence
<1>3. CASE uploadGreenStageDoc(r)
  BY <1>3, SilentContinues DEF uploadGreenStageDoc, row
<1>4. CASE uploadAdditionalDisclosureCopy(r)
  BY <1>4, SilentContinues DEF uploadAdditionalDisclosureCopy, row
<1>5. CASE submitUnsignedRISC(r)
  BY <1>1, <1>5, RecordContinues, MilestonesListed
     DEF submitUnsignedRISC, Requires, Evidence
<1>6. ASSUME NEW decision \in Decisions, lenderReviewMockup(r, decision)
      PROVE  Story' /\ Milestone!Next
  <2>1. decision \in Milestones /\ Needs[decision] \subseteq custody
    BY <1>1, <1>6, MilestonesListed
       DEF lenderReviewMockup, Requires, Decisions, MockupLenderStatus
  <2>2. Evidence(status') \subseteq custody \cup {decision}
    <3>1. "INITIAL_DISCLOSURE_ACCEPTED" \in custody
      BY <1>1, <1>6, MilestonesListed DEF lenderReviewMockup, Requires, Story, Closed
    <3> QED
      BY <1>6, <3>1
         DEF lenderReviewMockup, ReviewOutcome, Decisions, MockupLenderStatus, Evidence
  <2> QED
    BY <1>6, <2>1, <2>2, RecordContinues DEF lenderReviewMockup
<1>7. CASE dealerResubmitAfterCounter(r)
  <2>1. "RISC_UNSIGNED" \in custody
    BY <1>1, <1>7, MilestonesListed
       DEF dealerResubmitAfterCounter, Requires, Story, Closed
  <2> QED
    BY <1>1, <1>7, <2>1, RecordContinues, MilestonesListed
       DEF dealerResubmitAfterCounter, Requires, Evidence
<1>8. CASE generateFinalOfficialPackage(r)
  BY <1>1, <1>8, RecordContinues, MilestonesListed
     DEF generateFinalOfficialPackage, Requires, Evidence
<1>9. CASE uploadExecutedFinalPackage(r)
  BY <1>1, <1>9, RecordContinues, MilestonesListed
     DEF uploadExecutedFinalPackage, Requires, Evidence
<1>10. CASE lenderMarkFunded(r)
  BY <1>1, <1>10, RecordContinues, MilestonesListed
     DEF lenderMarkFunded, Requires, Evidence
<1>11. (uploadGreenStageDoc(r) \/ uploadAdditionalDisclosureCopy(r))
         => UNCHANGED custody
  BY DEF uploadGreenStageDoc, uploadAdditionalDisclosureCopy
<1> QED
  BY <1>2, <1>3, <1>4, <1>5, <1>6, <1>7, <1>8, <1>9, <1>10, <1>11 DEF Commit

LEMMA NextStory ==
  Typed /\ Story /\ [Next]_vars => Story' /\ [Milestone!Next]_custody
<1> SUFFICES ASSUME Typed, Story, [Next]_vars
             PROVE  Story' /\ [Milestone!Next]_custody
  OBVIOUS
<1>1. ASSUME NEW r \in Requests, NEW op \in Ops, Begin(r, op)
      PROVE  Story' /\ UNCHANGED custody
  <2>1. Requires(op) \subseteq custody /\ UNCHANGED <<custody, status>>
    BY <1>1, CheckWarrants DEF Begin, stored, row
  <2>2. \A q \in Requests : req'[q].op = IF q = r THEN op ELSE req[q].op
    BY <1>1 DEF Begin, Typed, TypeOK
  <2>3. Warranted'
    BY <2>1, <2>2 DEF Story, Warranted
  <2> QED
    BY <2>1, <2>3 DEF Story, Closed, StatusIsDocumented, Milestones
<1>2. ASSUME NEW r \in Requests, Abort(r)
      PROVE  Story' /\ UNCHANGED custody
  BY <1>2, SilentContinues DEF Abort, stored, row
<1>3. CASE UNCHANGED vars
  BY <1>3 DEF vars, stored, row, Story, Closed, Warranted, StatusIsDocumented, Milestones
<1> QED
  BY <1>1, <1>2, <1>3, CommitStory DEF Next

THEOREM StoryHolds == Spec => []Story
BY InitTyped, NextTyped, InitStory, NextStory, PTL DEF Spec

\* The status of a deal is always accounted for by its custody events.
THEOREM StatusAlwaysDocumented == Spec => []StatusIsDocumented
<1>1. Story => StatusIsDocumented
  BY DEF Story
<1> QED
  BY <1>1, StoryHolds, PTL

\* DealWorkflow implements DealMilestones.
THEOREM WorkflowImplementsMilestones == Spec => ImplementsMilestones
<1>1. Init => Milestone!Init
  BY DEF Init, Milestone!Init
<1> QED
  BY <1>1, InitTyped, NextTyped, InitStory, NextStory, PTL
     DEF Spec, ImplementsMilestones, Milestone!Spec

-----------------------------------------------------------------------------
(* Columns that one statement writes together.                             *)

LEMMA NextFlags == ReviewFlagsAgree /\ [Next]_vars => ReviewFlagsAgree'
<1> SUFFICES ASSUME ReviewFlagsAgree, [Next]_vars PROVE ReviewFlagsAgree'
  OBVIOUS
<1> USE DEF ReviewFlagsAgree
<1>1. ASSUME NEW r \in Requests, NEW op \in Ops, Begin(r, op)
      PROVE  ReviewFlagsAgree'
  BY <1>1 DEF Begin, stored, row
<1>2. ASSUME NEW r \in Requests, Abort(r) PROVE ReviewFlagsAgree'
  BY <1>2 DEF Abort, stored, row
<1>3. ASSUME NEW r \in Requests, Commit(r) PROVE ReviewFlagsAgree'
  <2>1. ASSUME NEW decision \in Decisions, lenderReviewMockup(r, decision)
        PROVE  ReviewFlagsAgree'
    <3>1. /\ status' = ReviewOutcome(decision)
          /\ mockup' = decision
          /\ reauth' = (decision = "COUNTER_OFFERED")
      BY <2>1 DEF lenderReviewMockup
    <3>2. CASE decision = "APPROVED_NO_CHANGES"
      BY <3>1, <3>2 DEF ReviewOutcome
    <3>3. CASE decision = "COUNTER_OFFERED"
      BY <3>1, <3>3 DEF ReviewOutcome
    <3>4. CASE decision = "REJECTED"
      BY <3>1, <3>4 DEF ReviewOutcome
    <3> QED
      BY <3>2, <3>3, <3>4 DEF Decisions, MockupLenderStatus
  <2>2. CASE acknowledgeDisclosure(r)
    BY <2>2 DEF acknowledgeDisclosure
  <2>3. CASE uploadGreenStageDoc(r) \/ uploadAdditionalDisclosureCopy(r)
    BY <2>3 DEF uploadGreenStageDoc, uploadAdditionalDisclosureCopy, row
  <2>4. CASE submitUnsignedRISC(r)
    BY <2>4 DEF submitUnsignedRISC
  <2>5. CASE dealerResubmitAfterCounter(r)
    BY <2>5 DEF dealerResubmitAfterCounter
  <2>6. CASE generateFinalOfficialPackage(r)
    BY <2>6 DEF generateFinalOfficialPackage
  <2>7. CASE uploadExecutedFinalPackage(r)
    BY <2>7 DEF uploadExecutedFinalPackage
  <2>8. CASE lenderMarkFunded(r)
    BY <2>8 DEF lenderMarkFunded
  <2> QED
    BY <1>3, <2>1, <2>2, <2>3, <2>4, <2>5, <2>6, <2>7, <2>8 DEF Commit
<1>4. CASE UNCHANGED vars
  BY <1>4 DEF vars, stored, row
<1> QED
  BY <1>1, <1>2, <1>3, <1>4 DEF Next

\* The columns of the lender's review agree, whichever request is the last.
THEOREM ReviewFlagsAlwaysAgree == Spec => []ReviewFlagsAgree
<1>1. Init => ReviewFlagsAgree
  BY DEF Init, ReviewFlagsAgree
<1> QED
  BY <1>1, NextFlags, PTL DEF Spec

\* In a series that is numbered 1, 2, 3 ... the next number is the length plus
\* one, and a document with it continues the numbers.
LEMMA NumberedAfterAppend ==
  ASSUME Typed, LockedSeriesAreNumbered, NEW s \in {"MOCKUP_PACKET", "FINAL_RISC"},
         NEW h \in Hashes,
         docs'[s] = Append(docs[s], [version |-> nextDocVersion(s), hash |-> h])
  PROVE  /\ \A i \in DOMAIN docs'[s] : docs'[s][i].version = i
         /\ Len(docs'[s]) = Len(docs[s]) + 1
         /\ docs'[s][Len(docs[s]) + 1].hash = h
<1>1. docs[s] \in Seq(Document) /\ s \in Series
  BY DEF Typed, TypeOK, Series
<1>2. \A i \in DOMAIN docs[s] : docs[s][i].version = i
  BY DEF LockedSeriesAreNumbered
<1>3. nextDocVersion(s) = Len(docs[s]) + 1
  <2>1. CASE docs[s] = <<>>
    BY <2>1 DEF nextDocVersion
  <2>2. CASE docs[s] # <<>>
    <3> DEFINE Versions == {docs[s][i].version : i \in DOMAIN docs[s]}
               Top(n) == \A i \in DOMAIN docs[s] : docs[s][i].version <= n
    <3>1. Versions = 1..Len(docs[s]) /\ Len(docs[s]) \in Nat \ {0}
      BY <1>1, <1>2, <2>2
    <3>2. \A n \in Versions : Top(n) <=> n = Len(docs[s])
      BY <1>1, <1>2, <3>1
    <3>3. Len(docs[s]) \in 1..Len(docs[s])
      BY <3>1
    <3>4. \E n \in Versions : Top(n)
      BY <3>1, <3>2, <3>3
    <3>5. PICK n \in Versions : n = (CHOOSE m \in Versions : Top(m)) /\ Top(n)
      BY <3>4
    <3>6. nextDocVersion(s) = 1 + n
      BY <2>2, <3>5 DEF nextDocVersion
    <3>7. n = Len(docs[s])
      BY <3>2, <3>5
    <3> QED
      BY <3>1, <3>6, <3>7
  <2> QED
    BY <2>1, <2>2
<1> QED
  BY <1>1, <1>2, <1>3

Numbered(s) == \A i \in DOMAIN docs[s] : docs[s][i].version = i

\* What the hash of the deal and the number of its contract rest on.
Sealed == PackageHashAgrees /\ LockedSeriesAreNumbered

LEMMA InitSealed == Init => Sealed
BY DEF Init, Series, Sealed, PackageHashAgrees, LockedSeriesAreNumbered

\* A document in a series that is not FINAL_RISC leaves the seal alone.
LEMMA OtherDocumentSealed ==
  ASSUME Typed, Sealed, UNCHANGED <<finalHash, contract>>,
         docs'["FINAL_RISC"] = docs["FINAL_RISC"],
         \/ docs'["FINAL_COORDINATED_PACKAGE"] = docs["FINAL_COORDINATED_PACKAGE"]
         \/ \E d \in Document : docs'["FINAL_COORDINATED_PACKAGE"] =
                                Append(docs["FINAL_COORDINATED_PACKAGE"], d),
         Numbered("MOCKUP_PACKET")'
  PROVE  Sealed'
<1>1. docs["FINAL_COORDINATED_PACKAGE"] \in Seq(Document)
  BY DEF Typed, TypeOK, Series
<1>2. \A i \in DOMAIN docs["FINAL_COORDINATED_PACKAGE"] :
        /\ i \in DOMAIN docs'["FINAL_COORDINATED_PACKAGE"]
        /\ docs'["FINAL_COORDINATED_PACKAGE"][i] = docs["FINAL_COORDINATED_PACKAGE"][i]
  BY <1>1
<1>3. LockedSeriesAreNumbered'
  BY DEF Sealed, LockedSeriesAreNumbered, Numbered
<1>4. PackageHashAgrees'
  BY <1>2 DEF Sealed, PackageHashAgrees
<1> QED
  BY <1>3, <1>4 DEF Sealed

LEMMA NextSealed == Typed /\ Sealed /\ [Next]_vars => Sealed'
<1> SUFFICES ASSUME Typed, Sealed, [Next]_vars PROVE Sealed'
  OBVIOUS
<1>1. docs \in [Series -> Seq(Document)] /\ Numbered("MOCKUP_PACKET")
  BY DEF Typed, TypeOK, Sealed, LockedSeriesAreNumbered, Numbered
<1>2. ASSUME UNCHANGED <<finalHash, contract, docs>> PROVE Sealed'
  BY <1>2 DEF Sealed, PackageHashAgrees, LockedSeriesAreNumbered
<1>3. ASSUME NEW r \in Requests, NEW op \in Ops, Begin(r, op) PROVE Sealed'
  BY <1>2, <1>3 DEF Begin, stored, row
<1>4. ASSUME NEW r \in Requests, Abort(r) PROVE Sealed'
  BY <1>2, <1>4 DEF Abort, stored, row
<1>5. ASSUME NEW r \in Requests, Commit(r) PROVE Sealed'
  <2> USE DEF Serving, Series
  <2>1. CASE acknowledgeDisclosure(r)
    BY <1>1, <2>1, OtherDocumentSealed DEF acknowledgeDisclosure, AddDoc, Numbered
  <2>2. CASE uploadGreenStageDoc(r)
    BY <1>1, <2>2, OtherDocumentSealed DEF uploadGreenStageDoc, AddDoc, row, Numbered
  <2>3. CASE uploadAdditionalDisclosureCopy(r)
    BY <1>1, <2>3, OtherDocumentSealed
       DEF uploadAdditionalDisclosureCopy, AddDoc, row, Numbered
  <2>4. CASE submitUnsignedRISC(r)
    <3>1. docs'["MOCKUP_PACKET"] = Append(docs["MOCKUP_PACKET"],
            [version |-> nextDocVersion("MOCKUP_PACKET"), hash |-> 0])
      BY <1>1, <2>4 DEF submitUnsignedRISC
    <3>2. Numbered("MOCKUP_PACKET")'
      BY <3>1, NumberedAfterAppend, ZeroIsHash DEF Sealed, Numbered
    <3>3. UNCHANGED <<finalHash, contract>>
      BY <2>4 DEF submitUnsignedRISC
    <3>4. /\ docs'["FINAL_RISC"] = docs["FINAL_RISC"]
          /\ docs'["FINAL_COORDINATED_PACKAGE"] = docs["FINAL_COORDINATED_PACKAGE"]
      BY <1>1, <2>4 DEF submitUnsignedRISC
    <3> QED
      BY <3>2, <3>3, <3>4, OtherDocumentSealed
  <2>5. ASSUME NEW decision \in Decisions, lenderReviewMockup(r, decision)
        PROVE  Sealed'
    BY <1>2, <2>5 DEF lenderReviewMockup
  <2>6. CASE dealerResubmitAfterCounter(r)
    BY <1>2, <2>6 DEF dealerResubmitAfterCounter
  <2>7. CASE generateFinalOfficialPackage(r)
    <3> DEFINE h == req[r].hash
    <3>1. h \in Hashes
      BY DEF Typed, TypeOK, Request
    <3>2. /\ docs'["FINAL_RISC"] = Append(docs["FINAL_RISC"],
               [version |-> nextDocVersion("FINAL_RISC"), hash |-> h])
          /\ docs'["FINAL_COORDINATED_PACKAGE"] =
               Append(docs["FINAL_COORDINATED_PACKAGE"],
                 [version |-> nextDocVersion("FINAL_COORDINATED_PACKAGE"), hash |-> h])
          /\ docs'["MOCKUP_PACKET"] = docs["MOCKUP_PACKET"]
      BY <1>1, <2>7 DEF generateFinalOfficialPackage
    <3>3. /\ \A i \in DOMAIN docs'["FINAL_RISC"] : docs'["FINAL_RISC"][i].version = i
          /\ Len(docs'["FINAL_RISC"]) = Len(docs["FINAL_RISC"]) + 1
          /\ docs'["FINAL_RISC"][Len(docs["FINAL_RISC"]) + 1].hash = h
      BY <3>1, <3>2, NumberedAfterAppend DEF Sealed
    <3>4. LockedSeriesAreNumbered'
      BY <1>1, <3>2, <3>3 DEF LockedSeriesAreNumbered, Numbered
    <3>5. \E i \in DOMAIN docs'["FINAL_COORDINATED_PACKAGE"] :
            docs'["FINAL_COORDINATED_PACKAGE"][i].hash = h
      <4>1. docs["FINAL_COORDINATED_PACKAGE"] \in Seq(Document)
        BY <1>1
      <4>2. Len(docs["FINAL_COORDINATED_PACKAGE"]) + 1
              \in DOMAIN docs'["FINAL_COORDINATED_PACKAGE"]
        BY <3>2, <4>1
      <4>3. docs'["FINAL_COORDINATED_PACKAGE"][Len(docs["FINAL_COORDINATED_PACKAGE"]) + 1]
              = [version |-> nextDocVersion("FINAL_COORDINATED_PACKAGE"), hash |-> h]
        BY <3>2, <4>1
      <4> QED
        BY <4>2, <4>3
    <3>6. /\ finalHash' = h
          /\ contract' = [version |-> contract.version + 1, hash |-> h]
          /\ contract.version = Len(docs["FINAL_RISC"])
      BY <2>7 DEF generateFinalOfficialPackage, UpsertContract, Sealed, PackageHashAgrees
    <3>7. PackageHashAgrees'
      BY <3>3, <3>5, <3>6 DEF PackageHashAgrees
    <3> QED
      BY <3>4, <3>7 DEF Sealed
  <2>8. CASE uploadExecutedFinalPackage(r)
    <3>1. Doc(r) \in Document
      BY <2>8, DocTyped DEF uploadExecutedFinalPackage, SeriesOf
    <3>2. /\ docs'["FINAL_COORDINATED_PACKAGE"] =
               Append(docs["FINAL_COORDINATED_PACKAGE"], Doc(r))
          /\ docs'["FINAL_RISC"] = docs["FINAL_RISC"]
          /\ docs'["MOCKUP_PACKET"] = docs["MOCKUP_PACKET"]
          /\ UNCHANGED <<finalHash, contract>>
      BY <1>1, <2>8 DEF uploadExecutedFinalPackage, AddDoc
    <3> QED
      BY <1>1, <3>1, <3>2, OtherDocumentSealed DEF Numbered
  <2>9. CASE lenderMarkFunded(r)
    BY <1>2, <2>9 DEF lenderMarkFunded
  <2> QED
    BY <1>5, <2>1, <2>2, <2>3, <2>4, <2>5, <2>6, <2>7, <2>8, <2>9 DEF Commit
<1>6. CASE UNCHANGED vars
  BY <1>2, <1>6 DEF vars, stored, row
<1> QED
  BY <1>3, <1>4, <1>5, <1>6 DEF Next

THEOREM SealedHolds == Spec => []Sealed
BY InitTyped, NextTyped, InitSealed, NextSealed, PTL DEF Spec

\* The hashes of the deal, its contract and its last official documents agree.
THEOREM PackageHashAlwaysAgrees == Spec => []PackageHashAgrees
<1>1. Sealed => PackageHashAgrees
  BY DEF Sealed
<1> QED
  BY <1>1, SealedHolds, PTL

\* The series numbered under a row lock are numbered 1, 2, 3 ...
THEOREM LockedSeriesAlwaysNumbered == Spec => []LockedSeriesAreNumbered
<1>1. Sealed => LockedSeriesAreNumbered
  BY DEF Sealed
<1> QED
  BY <1>1, SealedHolds, PTL

-----------------------------------------------------------------------------
(* Funding.                                                                *)

LEMMA NextSettled == Typed /\ [Next]_vars => (Settled => Settled')
<1> SUFFICES ASSUME Typed, [Next]_vars, Settled PROVE Settled'
  OBVIOUS
<1>1. status = "FUNDED" /\ \A r \in Requests : req[r].op \in {"none", "copy"}
  BY DEF Settled
<1>2. ASSUME NEW r \in Requests, NEW op \in Ops, Begin(r, op) PROVE Settled'
  <2>1. op = "copy"
    BY <1>1, <1>2 DEF Begin, AllowedIn, Structuring, PackagedFrom, ExecutedFrom, Ops
  <2> QED
    BY <1>1, <1>2, <2>1 DEF Begin, stored, row, Settled, Typed, TypeOK
<1>3. ASSUME NEW r \in Requests, Commit(r) PROVE Settled'
  <2>1. uploadAdditionalDisclosureCopy(r)
    BY <1>1, <1>3
       DEF Commit, Serving, acknowledgeDisclosure, uploadGreenStageDoc,
           submitUnsignedRISC, lenderReviewMockup, dealerResubmitAfterCounter,
           generateFinalOfficialPackage, uploadExecutedFinalPackage, lenderMarkFunded
  <2> QED
    BY <1>1, <2>1
       DEF uploadAdditionalDisclosureCopy, row, Finish, Idle, Settled, Typed, TypeOK
<1>4. ASSUME NEW r \in Requests, Abort(r) PROVE Settled'
  BY <1>1, <1>4 DEF Abort, stored, row, Finish, Idle, Settled, Typed, TypeOK
<1>5. CASE UNCHANGED vars
  BY <1>1, <1>5 DEF vars, stored, row, Settled
<1> QED
  BY <1>2, <1>3, <1>4, <1>5 DEF Next

\* A funded deal that no earlier request is still working on stays funded.
THEOREM FundedDealsStay == Spec => FundingIsFinal
<1>1. Typed /\ [Next]_vars => [Settled => Settled']_vars
  BY NextSettled
<1> QED
  BY <1>1, InitTyped, NextTyped, PTL DEF Spec, FundingIsFinal
=============================================================================
