--------------------------- MODULE DashboardStatus ---------------------------
(* dashboard_status.py: how the console shows a task, from its status and from *)
(* what the console sees around it, a record                                   *)
(*   [fresh, process, missing, orphan, scheduler, next]:                       *)
(* the heartbeat is fresh; the status in process.json; artifacts are missing;  *)
(* a worktree is left over; retries are scheduled reliably; when the next      *)
(* attempt is due.                                                             *)
EXTENDS TaskStates

QueuedStatuses ==
  {"NEW", "QUEUED", "PROJECT_DETECTED", "CLASSIFIED", "DYNAMIC_RISK_SCORED",
   "APPROVAL_DECIDED", "AUTO_SILENT", "AUTO_WITH_SUMMARY", "READY_TO_PUBLISH", "PLANNED",
   "ROUTED", "WORKTREE_CREATED", "WORKTREE_READY"}
ActiveStatuses ==
  {"EXECUTING", "RUNNING", "VERIFYING", "CODEX_REVIEWING", "REVIEWING", "PUBLISHING",
   "POLICY_LEARNING"}
\* Mutant: a status that waits for the user, unknown to the console.
AskingStatusesBefore ==
  {"HARD_APPROVAL_WAITING", "SOFT_APPROVAL_WAITING", "NEEDS_USER", "BLOCKED"}

AskingStatuses == ApprovalStatuses \cup {"BLOCKED", "DONE_WITH_BLOCK"}
DoneStatuses == SuccessStatuses \cup {"COMPLETED"}
ClosedStatuses == {"CANCELLED", "ROLLED_BACK"}

Sights == [fresh : BOOLEAN, process : {"none", "running", "failed", "timed_out"},
           missing : BOOLEAN, orphan : BOOLEAN, scheduler : BOOLEAN,
           next : {"none", "due", "later"}]
Nothing == [fresh |-> FALSE, process |-> "none", missing |-> FALSE, orphan |-> FALSE,
            scheduler |-> FALSE, next |-> "none"]

\* _status: a name, a big status, and four flags.
Shown(big, flags) ==
  [big |-> big, terminal |-> "terminal" \in flags, asks |-> "asks" \in flags,
   live |-> "live" \in flags, stale |-> "stale" \in flags]

\* What the status alone says.
ByStatus(status) ==
  IF status \in AskingStatuses THEN Shown("Approval", {"asks"})
  ELSE IF status \in QueuedStatuses THEN Shown("Queued", {})
  ELSE IF status \in FailedStatuses THEN Shown("Failed", {"terminal"})
  ELSE IF status \in DoneStatuses THEN Shown("Done", {"terminal"})
  ELSE IF status \in ClosedStatuses THEN Shown("Closed", {"terminal"})
  ELSE Shown("Alerts", {"stale"})

\* A retry or an escalation, which need a scheduler.
Waiting(status, sight) ==
  IF status = "ESCALATED"
  THEN IF sight.next # "none" THEN Shown("Queued", {}) ELSE Shown("Alerts", {"stale"})
  ELSE IF sight.scheduler /\ sight.next = "later" THEN Shown("Queued", {})
  ELSE IF sight.scheduler /\ sight.next = "due" /\ sight.fresh
       THEN Shown("Running", {"live"})
       ELSE Shown("Alerts", {"stale"})

\* Mutant: the process is looked at whatever became of the task.
DeriveFromProcess(status, sight) ==
  IF sight.process \in {"failed", "timed_out"} THEN Shown("Failed", {})
  ELSE IF sight.missing \/ sight.orphan THEN Shown("Alerts", {})
  ELSE IF status \in {"RETRYING", "ESCALATED"} THEN Waiting(status, sight)
  ELSE IF status \in ActiveStatuses
  THEN IF sight.fresh THEN Shown("Running", {"live"}) ELSE Shown("Alerts", {"stale"})
  ELSE ByStatus(status)

\* derive_dashboard_status.
Derive(status, sight) ==
  IF /\ status \notin DoneStatuses \cup ClosedStatuses
     /\ sight.process \in {"failed", "timed_out"}
  THEN Shown("Failed", {})
  ELSE IF sight.missing \/ sight.orphan THEN Shown("Alerts", {})
  ELSE IF status \in {"RETRYING", "ESCALATED"} THEN Waiting(status, sight)
  ELSE IF status \in ActiveStatuses
  THEN IF sight.fresh THEN Shown("Running", {"live"}) ELSE Shown("Alerts", {"stale"})
  ELSE ByStatus(status)
=============================================================================
