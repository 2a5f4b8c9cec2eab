--------------------------- MODULE CustodyRecord ---------------------------
(***************************************************************************)
(* What the custody ledger and its read model promise for one deal: events *)
(* are only ever appended; each is applied to the projection once, in any  *)
(* order and with any delay; and the projection is at every moment the     *)
(* summary of the events applied so far.  CustodyLedger implements it when *)
(* commands are handled one at a time.                                     *)
(***************************************************************************)
EXTENDS Integers, Sequences, FiniteSets

CONSTANT Kinds  \* the event types that are emitted

VARIABLES
  ledger,     \* the journal: the kind of each event, in the order of appends
  rows,       \* the applied events, by their place in the journal
  projection  \* the read model of the deal

vars == <<ledger, rows, projection>>

\* The version counts the applied events; the deal has left intake when its
\* creation is among them (DealAggregate).
Summary(journal, applied) ==
  [version |-> Cardinality(applied),
   phase |-> IF \E e \in applied : journal[e] = "DealCreated"
               THEN "underwriting" ELSE "intake"]

Init ==
  /\ ledger = <<>>
  /\ rows = {}
  /\ projection = [version |-> 0, phase |-> "intake"]

Record(kind) ==
  /\ ledger' = Append(ledger, kind)
  /\ UNCHANGED <<rows, projection>>

Apply(e) ==
  /\ e \notin rows
  /\ rows' = rows \cup {e}
  /\ projection' = Summary(ledger, rows')
  /\ UNCHANGED ledger

Next ==
  \/ \E kind \in Kinds : Record(kind)
  \/ \E e \in DOMAIN ledger : Apply(e)

Spec == Init /\ [][Next]_vars

=============================================================================
