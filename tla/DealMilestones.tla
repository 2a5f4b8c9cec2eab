--------------------------- MODULE DealMilestones ---------------------------
(***************************************************************************)
(* What the custody events of a deal promise to those who read them: a     *)
(* milestone is recorded only after those it rests on, and none is ever    *)
(* taken back.  DealWorkflow implements it, whatever its requests overlap. *)
(***************************************************************************)
VARIABLE reached  \* the milestones that have been recorded

\* The milestones, by the custody events that record them, each with those
\* that must come before it.
Needs == [
  INITIAL_DISCLOSURE_ACCEPTED |-> {},
  RISC_UNSIGNED               |-> {"INITIAL_DISCLOSURE_ACCEPTED"},
  APPROVED_NO_CHANGES         |-> {"RISC_UNSIGNED"},
  COUNTER_OFFERED             |-> {"RISC_UNSIGNED"},
  REJECTED                    |-> {"RISC_UNSIGNED"},
  COUNTER_RESUBMIT            |-> {"COUNTER_OFFERED"},
  FINAL_PACKAGE_GENERATED     |-> {"APPROVED_NO_CHANGES"},
  FINAL_EXECUTED_UPLOAD       |-> {"FINAL_PACKAGE_GENERATED"},
  FUNDED_APPROVAL             |-> {"FINAL_EXECUTED_UPLOAD"}]

Milestones == DOMAIN Needs

Init == reached = {}

Reach(m) ==
  /\ Needs[m] \subseteq reached
  /\ reached' = reached \cup {m}

Next == \E m \in Milestones : Reach(m)

Spec == Init /\ [][Next]_reached
=============================================================================
