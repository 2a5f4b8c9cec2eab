----------------------------- MODULE DealStates -----------------------------
(***************************************************************************)
(* The constant tables of the deal state machine: the states and roles of  *)
(* schema.prisma, the allow-list of state-transition-config.ts, and the    *)
(* state predicates of state-guards.ts, hold-service.ts, lock-guard.ts,    *)
(* transaction-material-state.ts and completion-protocol.ts.  Nothing here *)
(* has state: DealLifecycle turns these tables into behaviour.             *)
(***************************************************************************)

TransactionState ==
  {"DRAFT", "RED", "INVALID", "YELLOW", "CONDITIONAL",
   "GREEN_STAGE_1", "APPROVED", "EXECUTED", "EXECUTED_PENDING_VERIFICATION",
   "LOCKED", "POST_FUNDING_PENDING", "COMPLETED", "GREEN_STAGE_2",
   "DISCREPANCY_RESTRICTED", "HOLD", "ARCHIVED", "PURGED"}

UserRole ==
  {"ADMIN", "DEALER_USER", "FINANCE_MANAGER", "COMPLIANCE_OFFICER", "AUDITOR"}

\* The role lists that occur in the allow-list; "ALL" means everybody but the
\* auditor, which is also what the four-role rows list.
DealTeam == UserRole \ {"AUDITOR"}
Desk     == {"FINANCE_MANAGER", "COMPLIANCE_OFFICER", "ADMIN"}
Funding  == {"FINANCE_MANAGER", "ADMIN"}
Control  == {"COMPLIANCE_OFFICER", "ADMIN"}
Admin    == {"ADMIN"}

Rows(froms, tos, roles) == [from: froms, to: tos, role: roles]

\* The 42 rows of the allow-list, grouped by their role lists; a row gives one
\* element for each of its roles.
DEAL_TRANSITIONS ==
  UNION {
    Rows({"DRAFT"}, {"RED", "INVALID", "YELLOW", "CONDITIONAL"}, DealTeam),
    Rows({"RED"}, {"YELLOW", "CONDITIONAL", "DRAFT"}, DealTeam),
    Rows({"INVALID"}, {"CONDITIONAL", "DRAFT"}, DealTeam),
    Rows({"YELLOW"}, {"RED"}, DealTeam),
    Rows({"YELLOW", "CONDITIONAL"}, {"GREEN_STAGE_1", "APPROVED"}, Desk),
    Rows({"LOCKED"}, {"POST_FUNDING_PENDING"}, Desk),
    Rows({"POST_FUNDING_PENDING"}, {"COMPLETED", "GREEN_STAGE_2"}, Desk),
    Rows({"GREEN_STAGE_1", "APPROVED"},
         {"EXECUTED", "EXECUTED_PENDING_VERIFICATION"}, Funding),
    Rows({"EXECUTED", "EXECUTED_PENDING_VERIFICATION"}, {"LOCKED"}, Control),
    Rows({"DRAFT", "YELLOW", "GREEN_STAGE_1", "APPROVED", "EXECUTED",
          "EXECUTED_PENDING_VERIFICATION"}, {"DISCREPANCY_RESTRICTED"}, Control),
    Rows({"DRAFT", "YELLOW", "GREEN_STAGE_1", "APPROVED"}, {"HOLD"}, Control),
    Rows({"DISCREPANCY_RESTRICTED"}, {"YELLOW", "CONDITIONAL"}, Control),
    Rows({"CONDITIONAL"}, {"INVALID"}, Control),
    Rows({"COMPLETED"}, {"GREEN_STAGE_2"}, Control),
    Rows({"GREEN_STAGE_2", "COMPLETED", "DRAFT"}, {"ARCHIVED"}, Admin),
    Rows({"HOLD"}, {"DRAFT"}, Admin),
    Rows({"ARCHIVED"}, {"PURGED"}, Admin) }

\* findTransitionDef: there is a row for the pair.
InTable(from, to) ==
  \E role \in UserRole :
    [from |-> from, to |-> to, role |-> role] \in DEAL_TRANSITIONS

\* roleCanUseTransition, for a user holding the one role.
RoleCanUse(from, to, role) ==
  [from |-> from, to |-> to, role |-> role] \in DEAL_TRANSITIONS

-----------------------------------------------------------------------------
\* The states a deal is in once it has been locked and until it is archived.
PostLock == {"LOCKED", "POST_FUNDING_PENDING", "COMPLETED", "GREEN_STAGE_2"}

\* hold-service.ts: buyer, vehicle and financial rows may not be patched.
NO_PATCH_STATES ==
  PostLock \cup {"EXECUTED", "EXECUTED_PENDING_VERIFICATION",
                 "ARCHIVED", "PURGED", "HOLD"}

\* execution-workflow-service.ts: an executed instrument may be submitted.
PRE_EXECUTION_STATES ==
  {"GREEN_STAGE_1", "APPROVED", "EXECUTED_PENDING_VERIFICATION"}

\* Seeded fault: a lock is let through as well.
BypassesEvenForLock(from, to) ==
  \/ to \in {"DISCREPANCY_RESTRICTED", "HOLD", "ARCHIVED", "PURGED", "LOCKED"}
  \/ from = "DISCREPANCY_RESTRICTED" /\ to \in {"YELLOW", "CONDITIONAL"}

\* state-guards.ts: moves that open discrepancies do not block.
BypassesDiscrepancyGuard(from, to) ==
  \/ to \in {"DISCREPANCY_RESTRICTED", "HOLD", "ARCHIVED", "PURGED"}
  \/ from = "DISCREPANCY_RESTRICTED" /\ to \in {"YELLOW", "CONDITIONAL"}

\* transaction-material-state.ts: a material edit moves these states back.
Demotable == {"GREEN_STAGE_1", "APPROVED", "YELLOW", "CONDITIONAL"}

Demoted(from) ==
  IF from \in {"GREEN_STAGE_1", "APPROVED"} THEN "YELLOW" ELSE "DRAFT"

-----------------------------------------------------------------------------
\* completion-protocol.ts: the kinds of task a rebuild can write.  Several
\* rows of one kind (two discrepancies, three obligations) count as one, and
\* "evidence" stands for a failed lender line that cannot be overridden or a
\* rejected document.  The sweep is the one kind that blocks nothing.
BlockerTasks == {"remediate_conditions", "executed_file_verification",
                 "discrepancy", "post_funding", "evidence"}
TaskKeys == BlockerTasks \cup {"post_funding_sweep"}

SeedsFromState(s) ==
  CASE s \in {"YELLOW", "CONDITIONAL", "RED", "INVALID"} ->
         {"remediate_conditions"}
    [] s \in {"GREEN_STAGE_1", "APPROVED", "EXECUTED",
              "EXECUTED_PENDING_VERIFICATION"} -> {"executed_file_verification"}
    [] s \in PostLock -> {"post_funding_sweep"}
    [] OTHER -> {}

=============================================================================
