----------------------------- MODULE TaskStates -----------------------------
(* state_machine.py, constants.py and outcomes.py: the names a task status   *)
(* can have, the transition table the operator calls consult, and the sets   *)
(* of statuses the rest of the program asks about.  No state.                *)

\* STATE_ALIASES: statuses the database still holds under their old name.
Aliases ==
  [QUEUED |-> "NEW", PROJECT_DETECTED |-> "CLASSIFIED",
   WORKTREE_READY |-> "WORKTREE_CREATED", RUNNING |-> "EXECUTING",
   REVIEWING |-> "CODEX_REVIEWING", READY_TO_PUBLISH |-> "PLANNED",
   COMPLETED |-> "DONE", COMPLETED_WITH_PATCH |-> "DONE_WITH_BLOCK",
   COMPLETED_NO_CHANGES |-> "DONE", COMPLETED_WITH_ARTIFACTS |-> "DONE",
   COMPLETED_WITH_PARTIAL_ARTIFACTS |-> "DONE", DRY_RUN_COMPLETED |-> "DONE"]

OldNames == DOMAIN Aliases

Resolve(s) == IF s \in OldNames THEN Aliases[s] ELSE s

\* resolve_state_old returns the FIRST alias of a state in table order, which
\* matters for DONE alone.
ResolveOld(s) ==
  IF s = "DONE" THEN "COMPLETED"
  ELSE IF \E o \in OldNames : Aliases[o] = s
       THEN CHOOSE o \in OldNames : Aliases[o] = s
       ELSE s

Transitions ==
  [NEW |-> {"CLASSIFIED", "NEEDS_USER"},
   CLASSIFIED |-> {"DYNAMIC_RISK_SCORED", "NEEDS_USER"},
   DYNAMIC_RISK_SCORED |-> {"APPROVAL_DECIDED"},
   APPROVAL_DECIDED |->
     {"AUTO_SILENT", "AUTO_WITH_SUMMARY", "SOFT_APPROVAL_WAITING",
      "HARD_APPROVAL_WAITING", "BLOCKED"},
   AUTO_SILENT |-> {"PLANNED"},
   AUTO_WITH_SUMMARY |-> {"PLANNED"},
   SOFT_APPROVAL_WAITING |-> {"PLANNED", "CANCELLED"},
   HARD_APPROVAL_WAITING |-> {"PLANNED", "CANCELLED", "NEEDS_USER"},
   BLOCKED |-> {"NEEDS_USER", "CANCELLED"},
   PLANNED |-> {"ROUTED"},
   ROUTED |-> {"WORKTREE_CREATED", "ESCALATED"},
   WORKTREE_CREATED |-> {"EXECUTING", "FAILED_FINAL"},
   EXECUTING |-> {"VERIFYING", "RETRYING", "FAILED", "FAILED_FINAL", "CANCELLED"},
   RETRYING |-> {"EXECUTING", "ESCALATED"},
   VERIFYING |-> {"CODEX_REVIEWING", "FAILED", "FAILED_FINAL"},
   CODEX_REVIEWING |->
     {"POLICY_LEARNING", "NEEDS_USER", "NEEDS_REVIEW", "FAILED_FINAL"},
   POLICY_LEARNING |-> {"PR_CREATED", "DONE", "DONE_WITH_BLOCK", "ROLLED_BACK"},
   PR_CREATED |-> {"DONE", "ROLLED_BACK"},
   NEEDS_USER |-> {"NEW", "CANCELLED"},
   NEEDS_REVIEW |-> {"PLANNED", "CANCELLED"},
   ESCALATED |-> {"NEEDS_USER", "FAILED_FINAL"},
   FAILED |-> {"RETRYING", "ESCALATED", "FAILED_FINAL", "NEEDS_USER"},
   DONE |-> {}, DONE_WITH_BLOCK |-> {}, FAILED_FINAL |-> {"ROLLED_BACK"},
   CANCELLED |-> {}, ROLLED_BACK |-> {}]

States == DOMAIN Transitions
Statuses == States \cup OldNames \cup {"PUBLISHING"}

\* _build_old_transitions: the same table under the old names.
OldTransitions(s) ==
  UNION {{ResolveOld(t) : t \in Transitions[f]} :
            f \in {f \in States : ResolveOld(f) = s}}

\* _TRANSITIONS_MERGED: a state's own row wins over the old one.
MergedTransitions(s) ==
  IF s \in States THEN Transitions[s]
  ELSE IF s = "PUBLISHING"
       THEN {"PR_CREATED", "COMPLETED_WITH_PATCH", "FAILED_FINAL"}
       ELSE OldTransitions(s)

CanTransition(from, to) ==
  LET allowed == MergedTransitions(Resolve(from)) \cup MergedTransitions(from)
  IN  Resolve(to) \in allowed \/ to \in allowed

\* Terminal in the sense of the transition table.
FinalStates == {s \in Statuses : MergedTransitions(Resolve(s)) = {}}

\* outcomes.should_record_outcome
SuccessStatuses ==
  {"COMPLETED_WITH_PATCH", "COMPLETED_NO_CHANGES", "COMPLETED_WITH_ARTIFACTS",
   "COMPLETED_WITH_PARTIAL_ARTIFACTS", "PR_CREATED", "DONE",
   "DRY_RUN_COMPLETED"}
FailedStatuses == {"FAILED", "FAILED_FINAL"}
ApprovalStatuses ==
  {"HARD_APPROVAL_WAITING", "SOFT_APPROVAL_WAITING", "NEEDS_USER",
   "NEEDS_REVIEW"}
\* Mutant: a status added to the pipeline, not to the outcomes.
OutcomeStatusesWithoutPartial ==
  (SuccessStatuses \ {"COMPLETED_WITH_PARTIAL_ARTIFACTS"})
    \cup FailedStatuses \cup ApprovalStatuses \cup {"BLOCKED", "CANCELLED"}

OutcomeStatuses ==
  SuccessStatuses \cup FailedStatuses \cup ApprovalStatuses
    \cup {"BLOCKED", "CANCELLED"}
=============================================================================
