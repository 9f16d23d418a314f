---------------------------- MODULE TaskLifecycle ----------------------------
(* One task from its submission to rest: the executor that submit_task       *)
(* starts, the executors that approve_task starts, the operator who cancels,  *)
(* rejects or rolls back, the status queries that run the stale worker       *)
(* reaper, and the console, which records outcomes that are missing.  They   *)
(* are separate processes that meet in the task's database row, its run      *)
(* directory and its git worktree.                                           *)
EXTENDS Naturals, Sequences, TaskStates

CONSTANTS
  MaxApprovals,  \* approve_task calls that pass their check
  ApproveIn,     \* statuses in which the user chooses to approve
  MaxAttempts,   \* length of the longest retry chain
  MaxRequests,   \* other requests of the user that pass their check: to cancel or
                 \* reject, to roll back, to see the quality of tasks (backfill)
  MaxReaps,      \* status queries that reap
  MaxPauses,     \* pauses of 120 s in the heartbeat of a live worker
  MaxCrashes     \* executors that die

ASSUME LifecycleAssumption ==
  /\ MaxApprovals \in Nat /\ MaxAttempts \in Nat \ {0}
  /\ MaxRequests \in Nat /\ MaxReaps \in Nat /\ MaxPauses \in Nat /\ MaxCrashes \in Nat
  /\ ApproveIn \subseteq Statuses

Submitted == 1                       \* the executor of submit_task
Runs == 1..(MaxApprovals + 1)        \* the others resume after an approval
Reaper == 0
Actors == Runs \cup {Reaper}         \* whoever calls set_status

VARIABLES
  status,       \* tasks.status
  artifact,     \* the status in task.json
  trail,        \* the last row of task_events that changes the status
  outcome,      \* terminal_status of the task_outcomes row
  todo,         \* statuses each actor is about to set, one set_status each
  at,           \* its place inside set_status, "write" when outside
  seen,         \* the status in the row as set_status read it last
  alone,        \* history: nobody else was inside when the last one entered
  pc,           \* where each executor is
  attempt,      \* its attempt number
  decision,     \* what the approval gate decided
  requiresDiff, \* task_requires_diff of the task as submitted
  rowRequiresDiff, \* the same, asked of the database row, which lacks options
  dryRun, chain,   \* dry run, attempts the retry chain has in the end
  worktree,     \* the executor whose worktree is under run_dir, 0 for none
  branch,       \* the branch ai/<task_id> exists
  process,      \* status in control/process.json
  heartbeat,    \* control/heartbeat.json exists
  worker,       \* the executor that started that process, 0 before
  cancelFile,   \* control/cancel.requested exists
  published,    \* executors that published a patch or a PR
  opc,          \* where the operator's call is
  killed,       \* history: a cancel killed the process of a worker
  rpc,          \* the status query: the row was read, then the files
  bpc, bseen,   \* the console's backfill, and the status it read
  cancels, rollbacks, reaps, pauses, backfills, crashes

row == <<status, artifact, trail, outcome>>
calls == <<todo, at, seen, alone>>
kind == <<requiresDiff, rowRequiresDiff, dryRun, chain>>
task == <<decision, kind>>
files == <<worktree, branch>>
control == <<process, heartbeat, worker, cancelFile>>
operator == <<opc, killed, cancels, rollbacks>>
query == <<rpc, reaps, pauses>>
console == <<bpc, bseen, backfills>>
others == <<operator, query, console>>     \* whoever is not an executor
vars == <<row, calls, pc, attempt, task, files, control, published, others,
          crashes>>

RunPCs == {"off", "gate", "route", "prepare", "attempt", "work", "working",
           "degraded", "pipeline", "verify", "review", "publish", "end",
           "raised", "crashed"}
Decisions == {"none", "risk_blocked", "blocked", "hard", "soft", "silent",
              "summary"}

\* submit_task has created the row, the "created" event and task.json, and
\* calls execute.
Init ==
  /\ status = "QUEUED" /\ artifact = "QUEUED" /\ outcome = "none"
  /\ trail = "QUEUED"
  /\ todo = [a \in Actors |-> <<>>]
  /\ at = [a \in Actors |-> "write"]
  /\ seen = [a \in Actors |-> "none"] /\ alone = TRUE
  /\ pc = [r \in Runs |-> IF r = Submitted THEN "gate" ELSE "off"]
  /\ attempt = [r \in Runs |-> 0]
  /\ decision = "none"
  /\ requiresDiff \in BOOLEAN /\ rowRequiresDiff \in BOOLEAN
  /\ dryRun \in BOOLEAN /\ chain \in 1..MaxAttempts
  /\ worktree = 0 /\ branch = FALSE
  /\ process = "none" /\ heartbeat = FALSE /\ worker = 0
  /\ cancelFile = FALSE
  /\ published = {}
  /\ opc = "idle" /\ killed = FALSE /\ rpc = "idle"
  /\ bpc = "idle" /\ bseen = "none"
  /\ cancels = 0 /\ rollbacks = 0 /\ reaps = 0 /\ pauses = 0
  /\ backfills = 0 /\ crashes = 0

-----------------------------------------------------------------------------
(* TaskLifecycleController.set_status: no transaction and no can_transition. *)
(* It writes the row; reads it again and writes task.json; appends the event; *)
(* and, for some statuses, reads the row once more and writes the outcome.   *)
(* Before the first write it reads the old status, for the payload of the    *)
(* event only, which is left out.                                            *)

WriteRow(a) ==
  /\ todo[a] # <<>> /\ at[a] = "write"
  /\ status' = Head(todo[a])
  /\ at' = [at EXCEPT ![a] = "sync"]
  /\ alone' = /\ \A b \in Actors : at[b] = "write"
              /\ bpc = "idle" /\ opc \notin {"cancelEvent", "rollbackEvent"}
  /\ UNCHANGED <<artifact, trail, outcome, todo, seen>>

\* Read the row, to do what follows with the status it has now.
ReadRow(a, from, next) ==
  /\ todo[a] # <<>> /\ at[a] = from
  /\ seen' = [seen EXCEPT ![a] = status]
  /\ at' = [at EXCEPT ![a] = next]
  /\ UNCHANGED <<row, todo, alone>>

\* sync_task_artifact_from_db
ReadForArtifact(a) == ReadRow(a, "sync", "artifact")

\* Mutant: a task.json that says the task is over is left alone.
SyncArtifactOnce(a) ==
  /\ todo[a] # <<>> /\ at[a] = "artifact"
  /\ artifact' = IF artifact \in FailedStatuses THEN artifact ELSE seen[a]
  /\ seen' = [seen EXCEPT ![a] = "none"]
  /\ at' = [at EXCEPT ![a] = "event"]
  /\ UNCHANGED <<status, trail, outcome, todo, alone>>

SyncArtifact(a) ==
  /\ todo[a] # <<>> /\ at[a] = "artifact"
  /\ artifact' = seen[a]
  /\ seen' = [seen EXCEPT ![a] = "none"]
  /\ at' = [at EXCEPT ![a] = "event"]
  /\ UNCHANGED <<status, trail, outcome, todo, alone>>

AppendEvent(a) ==
  /\ todo[a] # <<>> /\ at[a] = "event"
  /\ trail' = Head(todo[a])
  /\ IF Head(todo[a]) \in OutcomeStatuses
     THEN at' = [at EXCEPT ![a] = "record"] /\ UNCHANGED todo
     ELSE /\ at' = [at EXCEPT ![a] = "write"]
          /\ todo' = [todo EXCEPT ![a] = Tail(@)]
  /\ UNCHANGED <<status, artifact, outcome, seen, alone>>

\* record_task_outcome
ReadForOutcome(a) == ReadRow(a, "record", "outcome")

RecordOutcome(a) ==
  /\ todo[a] # <<>> /\ at[a] = "outcome"
  /\ outcome' = seen[a]
  /\ seen' = [seen EXCEPT ![a] = "none"]
  /\ at' = [at EXCEPT ![a] = "write"]
  /\ todo' = [todo EXCEPT ![a] = Tail(@)]
  /\ UNCHANGED <<status, artifact, trail, alone>>

SetStatus(a) ==
  /\ \/ WriteRow(a) \/ ReadForArtifact(a) \/ SyncArtifact(a) \/ AppendEvent(a)
     \/ ReadForOutcome(a) \/ RecordOutcome(a)
  /\ UNCHANGED <<pc, attempt, task, files, control, published, others, crashes>>

-----------------------------------------------------------------------------
(* The executor: TaskExecutionService.execute.                               *)

Ready(r, where) == pc[r] = where /\ todo[r] = <<>>

\* Set these statuses one after the other, then be at "where".
Then(r, statuses, where) ==
  /\ todo' = [todo EXCEPT ![r] = statuses]
  /\ pc' = [pc EXCEPT ![r] = where]
  /\ UNCHANGED <<row, at, seen, alone>>

Scored == <<"CLASSIFIED", "DYNAMIC_RISK_SCORED", "APPROVAL_DECIDED">>

\* Mutant: a hard approval waits no more than a soft one.
GateThroughHard(r) ==
  /\ Ready(r, "gate")
  /\ \/ decision' = "blocked" /\ Then(r, <<"CLASSIFIED", "BLOCKED">>, "end")
     \/ /\ decision' = "hard"
        /\ Then(r, Append(Scored, "HARD_APPROVAL_WAITING"), "route")
  /\ UNCHANGED <<attempt, kind, files, control, published, others, crashes>>

\* TaskExecutionGate.run without _approval_granted.  A soft approval does not
\* wait.
Gate(r) ==
  /\ Ready(r, "gate")
  /\ \/ decision' = "risk_blocked" /\ Then(r, <<"FAILED_FINAL">>, "end")
     \/ decision' = "blocked" /\ Then(r, <<"CLASSIFIED", "BLOCKED">>, "end")
     \/ /\ decision' = "hard"
        /\ Then(r, Append(Scored, "HARD_APPROVAL_WAITING"), "end")
     \/ /\ decision' = "soft"
        /\ Then(r, Append(Scored, "SOFT_APPROVAL_WAITING"), "route")
     \/ /\ decision' = "silent"
        /\ Then(r, Append(Scored, "AUTO_SILENT"), "route")
     \/ /\ decision' = "summary"
        /\ Then(r, Append(Scored, "AUTO_WITH_SUMMARY"), "route")
  /\ UNCHANGED <<attempt, kind, files, control, published, others, crashes>>

Route(r) ==
  /\ Ready(r, "route")
  /\ Then(r, <<"ROUTED">>, "prepare")
  /\ UNCHANGED <<attempt, task, files, control, published, others, crashes>>

IsDryRun(r) == r = Submitted /\ dryRun   \* an approval executes for real

\* Mutant: the return code of git is not looked at.
PrepareWorktreeUnchecked(r) ==
  /\ Ready(r, "prepare")
  /\ worktree' = IF IsDryRun(r) \/ ~branch THEN r ELSE 0
  /\ branch' = (branch \/ ~IsDryRun(r))
  /\ Then(r, <<"WORKTREE_READY", "WORKTREE_READY">>, "attempt")
  /\ UNCHANGED <<attempt, task, control, published, others, crashes>>

\* prepare_worktree removes what is under the target path, then adds the
\* worktree with a NEW branch: git refuses when the branch exists, and may fail
\* or time out after it made the branch; the error leaves execute.  A dry run
\* only makes the directory.  The status is set again after the memory refresh.
PrepareWorktree(r) ==
  /\ Ready(r, "prepare")
  /\ \/ /\ IsDryRun(r)
        /\ worktree' = IF worktree = 0 THEN r ELSE worktree
        /\ Then(r, <<"WORKTREE_READY", "WORKTREE_READY">>, "attempt")
        /\ UNCHANGED branch
     \/ /\ ~IsDryRun(r) /\ ~branch
        /\ worktree' = r /\ branch' = TRUE
        /\ Then(r, <<"WORKTREE_READY", "WORKTREE_READY">>, "attempt")
     \/ /\ ~IsDryRun(r)
        /\ worktree' = 0 /\ branch' \in {branch, TRUE}
        /\ Then(r, <<>>, "raised")
  /\ UNCHANGED <<attempt, task, control, published, others, crashes>>

\* The declared permissions are checked before each attempt.
StartAttempt(r) ==
  /\ Ready(r, "attempt")
  /\ \/ Then(r, <<"BLOCKED">>, "end")
     \/ Then(r, <<"HARD_APPROVAL_WAITING">>, "end")
     \/ Then(r, <<"EXECUTING">>, "work")
  /\ attempt' = [attempt EXCEPT ![r] = @ + 1]
  /\ UNCHANGED <<task, files, control, published, others, crashes>>

RequiresDiff(a) == IF a = Submitted THEN requiresDiff ELSE rowRequiresDiff

\* Mutant: the exhausted chain leaves the status alone.
RetryOrLeave(r) ==
  IF attempt[r] < chain THEN Then(r, <<"RETRYING">>, "attempt")
                        ELSE Then(r, <<>>, "end")

\* The next attempt of the chain, or the end of the loop.
RetryOrFail(r) ==
  IF attempt[r] < chain THEN Then(r, <<"RETRYING">>, "attempt")
                        ELSE Then(r, <<"FAILED_FINAL">>, "end")

\* worker.run starts a process (run_managed_process, see ManagedProcess), or
\* is blocked or raises before that, or comes back with a mock result: when the
\* worker's program is missing, and in a dry run.
StartWorker(r) ==
  /\ Ready(r, "work")
  /\ \/ /\ ~IsDryRun(r)
        /\ process' = "running" /\ worker' = r
        /\ Then(r, <<>>, "working")
     \/ /\ Then(r, <<"BLOCKED">>, "end") \/ Then(r, <<"FAILED_FINAL">>, "end")
        /\ UNCHANGED <<process, worker>>
     \/ /\ IF RequiresDiff(r) /\ ~IsDryRun(r) THEN RetryOrFail(r)
                                              ELSE Then(r, <<>>, "degraded")
        /\ UNCHANGED <<process, worker>>
  /\ UNCHANGED <<attempt, task, files, heartbeat, cancelFile, published,
                 others, crashes>>

\* The first poll that finds the worker alive.
FirstHeartbeat(r) ==
  /\ Ready(r, "working") /\ ~heartbeat
  /\ heartbeat' = TRUE
  /\ UNCHANGED <<row, calls, pc, attempt, task, files, process, worker,
                 cancelFile, published, others, crashes>>

ProcessEnds ==
  /\ process' = IF process = "cancelled" THEN process ELSE "ended"
  /\ heartbeat' = TRUE

\* Mutant: the cancel request is not asked for when the worker is done.
WorkerReturnsRegardless(r) ==
  /\ Ready(r, "working")
  /\ Then(r, <<>>, "pipeline")
  /\ ProcessEnds
  /\ UNCHANGED <<attempt, task, files, worker, cancelFile, published, others, crashes>>

\* The diff audit, _terminal_for_worker_outcome and decide_post_attempt for a
\* worker that ran to its end.
WorkerReturns(r) ==
  /\ Ready(r, "working") /\ ~cancelFile
  /\ \/ Then(r, <<>>, "pipeline")                     \* success
     \/ Then(r, <<"EXECUTING">>, "pipeline")          \* failed, but with a diff
     \/ Then(r, <<"BLOCKED">>, "end")                 \* diff denied
     \/ Then(r, <<"HARD_APPROVAL_WAITING">>, "end")   \* diff to be asked about
     \/ Then(r, <<"FAILED_FINAL">>, "end")            \* not retryable
     \/ RetryOrFail(r)                                \* no diff, or retryable
  /\ ProcessEnds
  /\ UNCHANGED <<attempt, task, files, worker, cancelFile, published, others, crashes>>

\* A cancel request makes every later result "cancelled", without a diff and
\* without a retry.
WorkerCancelled(r) ==
  /\ Ready(r, "working") /\ cancelFile
  /\ Then(r, <<"CANCELLED">>, "end")
  /\ ProcessEnds
  /\ UNCHANGED <<attempt, task, files, worker, cancelFile, published, others, crashes>>

\* run_managed_process raises; process.json stays as it is.
WorkerException(r) ==
  /\ Ready(r, "working")
  /\ Then(r, <<"FAILED_FINAL">>, "end")
  /\ UNCHANGED <<attempt, task, files, control, published, others, crashes>>

-----------------------------------------------------------------------------
(* TaskCompletionPipeline.run.  A resumed executor works on the database row, *)
(* which has no risk_level: task["risk_level"] raises KeyError.              *)

Pipeline == UNCHANGED <<attempt, task, files, control, others, crashes>>

Resumed(r) == r # Submitted

DegradedMock(r) ==
  /\ Ready(r, "degraded")
  /\ IF Resumed(r)
     THEN Then(r, <<>>, "raised")
     ELSE Then(r, <<IF IsDryRun(r) THEN "DRY_RUN_COMPLETED" ELSE "NEEDS_USER">>,
               "end")
  /\ UNCHANGED published /\ Pipeline

StartVerify(r) ==
  /\ Ready(r, "pipeline")
  /\ Then(r, <<"VERIFYING">>, "verify")
  /\ UNCHANGED published /\ Pipeline

\* A command or git runs out of time, which nothing catches; verification
\* fails, a read-only task is finished by it, or the review is next.
Verify(r) ==
  /\ Ready(r, "verify")
  /\ \/ Then(r, <<>>, "raised")
     \/ Then(r, <<"FAILED_FINAL">>, "end")
     \/ /\ ~RequiresDiff(r)
        /\ IF Resumed(r)
           THEN Then(r, <<>>, "raised")
           ELSE \E s \in {"COMPLETED_WITH_ARTIFACTS",
                          "COMPLETED_WITH_PARTIAL_ARTIFACTS"} :
                  Then(r, <<s>>, "end")
     \/ Then(r, <<"CODEX_REVIEWING">>, "review")
  /\ UNCHANGED published /\ Pipeline

\* Degraded, rejected or approved; an approval learns and then waits for
\* nobody.
Review(r) ==
  /\ Ready(r, "review")
  /\ IF Resumed(r)
     THEN Then(r, <<>>, "raised")
     ELSE \/ Then(r, <<"NEEDS_REVIEW">>, "end")
          \/ Then(r, <<"FAILED_FINAL">>, "end")
          \/ Then(r, <<"POLICY_LEARNING", "PLANNED">>, "publish")
  /\ UNCHANGED published /\ Pipeline

\* create_pr_or_patch; git push or gh may run out of time, which nothing catches.
Publish(r) ==
  /\ Ready(r, "publish")
  /\ \/ Then(r, <<>>, "raised") /\ UNCHANGED published
     \/ /\ \E s \in {"PR_CREATED", "COMPLETED_WITH_PATCH"} : Then(r, <<s>>, "end")
        /\ published' = published \cup {r}
     \/ /\ Then(r, <<"COMPLETED_NO_CHANGES">>, "end")
        /\ UNCHANGED published
  /\ Pipeline

\* External: the process of an executor dies, in its last set_status too; what
\* it was about to do is lost.
Crash(r) ==
  /\ pc[r] \notin {"off", "crashed"} /\ crashes < MaxCrashes
  /\ pc[r] \in {"end", "raised"} => todo[r] # <<>>
  /\ crashes' = crashes + 1
  /\ pc' = [pc EXCEPT ![r] = "crashed"]
  /\ todo' = [todo EXCEPT ![r] = <<>>]
  /\ at' = [at EXCEPT ![r] = "write"]
  /\ seen' = [seen EXCEPT ![r] = "none"]
  /\ alone' = (alone /\ at[r] = "write")
  /\ UNCHANGED <<row, attempt, task, files, control, published, others>>

-----------------------------------------------------------------------------
(* approve_task: the check reads the row, then set_status and execute.       *)
Approve(r) ==
  /\ pc[r] = "off" /\ status \in ApproveIn
  /\ CanTransition(status, "PLANNED")
  /\ Then(r, <<"PLANNED">>, "route")
  /\ UNCHANGED <<attempt, task, files, control, published, others, crashes>>

-----------------------------------------------------------------------------
(* cancel_task and reject_task; rollback_task.  Both write the row without   *)
(* set_status.                                                               *)

MayRequest == cancels + rollbacks + backfills < MaxRequests

CheckCancel ==
  /\ opc = "idle" /\ MayRequest
  /\ CanTransition(status, "CANCELLED")
  /\ cancels' = cancels + 1 /\ opc' = "request"
  /\ UNCHANGED <<row, control, killed, rollbacks>>

RequestCancel ==
  /\ opc = "request"
  /\ cancelFile' = TRUE
  /\ process' = IF process = "running" THEN "cancelled" ELSE process
  /\ killed' = (killed \/ process = "running")
  /\ opc' = "cancelRow"
  /\ UNCHANGED <<row, heartbeat, worker, cancels, rollbacks>>

CheckRollback ==
  /\ opc = "idle" /\ MayRequest
  /\ CanTransition(status, "ROLLED_BACK")
  /\ rollbacks' = rollbacks + 1 /\ opc' = "rollbackRow"
  /\ UNCHANGED <<row, control, killed, cancels>>

OperatorWritesRow ==
  /\ \/ opc = "cancelRow" /\ status' = "CANCELLED" /\ opc' = "cancelEvent"
     \/ opc = "rollbackRow" /\ status' = "ROLLED_BACK" /\ opc' = "rollbackEvent"
  /\ UNCHANGED <<artifact, trail, outcome, control, killed, cancels, rollbacks>>

OperatorAppendsEvent ==
  /\ \/ opc = "cancelEvent" /\ trail' = "CANCELLED"
     \/ opc = "rollbackEvent" /\ trail' = "ROLLED_BACK"
  /\ opc' = "idle"
  /\ UNCHANGED <<status, artifact, outcome, control, killed, cancels, rollbacks>>

OperatorStep == RequestCancel \/ OperatorWritesRow \/ OperatorAppendsEvent

Operator ==
  /\ CheckCancel \/ CheckRollback \/ OperatorStep
  /\ UNCHANGED <<calls, pc, attempt, task, files, published, query, console,
                 crashes>>

-----------------------------------------------------------------------------
(* get_task_status and its like: reap_stale_worker_task on the row just read. *)

ReadForReap ==
  /\ rpc = "idle" /\ todo[Reaper] = <<>> /\ reaps < MaxReaps
  /\ status \in {"EXECUTING", "VERIFYING", "CODEX_REVIEWING"}
  /\ rpc' = "files"
  /\ UNCHANGED <<todo, process, reaps, pauses>>

Watched == \E r \in Runs : pc[r] = "working" /\ worker = r

\* process.json says running, and heartbeat.json is 120 s old because no
\* executor watches the process any more, or because it paused.
FilesLookStale ==
  /\ process = "running" /\ heartbeat
  /\ \/ ~Watched /\ UNCHANGED pauses
     \/ Watched /\ pauses < MaxPauses /\ pauses' = pauses + 1

\* Mutant: the heartbeat of a process nobody watches never looks old enough.
ReadFilesNeverStale ==
  /\ rpc = "files" /\ rpc' = "idle"
  /\ UNCHANGED <<pauses, todo, process, reaps>>

ReadFiles ==
  /\ rpc = "files"
  /\ \/ FilesLookStale /\ rpc' = "write"
     \/ /\ process # "running" \/ ~heartbeat \/ Watched
        /\ rpc' = "idle" /\ UNCHANGED pauses
  /\ UNCHANGED <<todo, process, reaps>>

\* process.json as it was read goes back with its new status; a read-only task
\* may have a success in its stream.
WriteFiles ==
  /\ rpc = "write" /\ rpc' = "idle"
  /\ process' = "reaped" /\ reaps' = reaps + 1
  /\ \/ todo' = [todo EXCEPT ![Reaper] = <<"FAILED_FINAL">>]
     \/ /\ ~rowRequiresDiff
        /\ todo' = [todo EXCEPT ![Reaper] = <<"COMPLETED_WITH_ARTIFACTS">>]
  /\ UNCHANGED pauses

StatusQuery ==
  /\ ReadForReap \/ ReadFiles \/ WriteFiles
  /\ UNCHANGED <<row, at, seen, alone, pc, attempt, task, files, heartbeat, worker,
                 cancelFile, published, operator, console, crashes>>

-----------------------------------------------------------------------------
(* metrics_quality: _backfill_task_outcomes on the rows just listed.         *)

ListForBackfill ==
  /\ bpc = "idle" /\ MayRequest
  /\ status \in OutcomeStatuses
  /\ bpc' = "check" /\ bseen' = status /\ backfills' = backfills + 1
  /\ UNCHANGED outcome

CheckOutcome ==
  /\ bpc = "check"
  /\ IF outcome = "none" THEN bpc' = "upsert" /\ UNCHANGED bseen
                         ELSE bpc' = "idle" /\ bseen' = "none"
  /\ UNCHANGED <<outcome, backfills>>

BackfillOutcome ==
  /\ bpc = "upsert"
  /\ outcome' = bseen
  /\ bpc' = "idle" /\ bseen' = "none"
  /\ UNCHANGED backfills

Backfill ==
  /\ ListForBackfill \/ CheckOutcome \/ BackfillOutcome
  /\ UNCHANGED <<status, artifact, trail, calls, pc, attempt, task, files, control,
                 published, operator, query, crashes>>

-----------------------------------------------------------------------------
RunStep(r) ==
  \/ SetStatus(r)
  \/ Gate(r) \/ Route(r) \/ PrepareWorktree(r) \/ StartAttempt(r)
  \/ StartWorker(r) \/ FirstHeartbeat(r) \/ WorkerReturns(r) \/ WorkerCancelled(r)
  \/ WorkerException(r)
  \/ DegradedMock(r) \/ StartVerify(r) \/ Verify(r) \/ Review(r) \/ Publish(r)

RunStopped(r) ==
  pc[r] \in {"off", "end", "raised", "crashed"} /\ todo[r] = <<>>

Quiet ==
  /\ \A r \in Runs : RunStopped(r)
  /\ todo[Reaper] = <<>> /\ rpc = "idle" /\ opc = "idle" /\ bpc = "idle"

Next ==
  \/ \E r \in Runs : RunStep(r) \/ Crash(r) \/ Approve(r)
  \/ Operator
  \/ StatusQuery \/ SetStatus(Reaper) \/ Backfill
  \/ Quiet /\ UNCHANGED vars

Spec == Init /\ [][Next]_vars

\* An executor that runs keeps running: workers end (AttemptEnds in
\* ManagedProcess).  An operator call goes on to its end, and the console
\* polls the status of tasks; nothing makes a user look at their quality.
Fairness ==
  /\ \A r \in Runs : WF_vars(RunStep(r))
  /\ WF_vars(OperatorStep /\ Operator)
  /\ WF_vars(StatusQuery) /\ WF_vars(SetStatus(Reaper))

FairSpec == Spec /\ Fairness
-----------------------------------------------------------------------------
Resting ==
  FinalStates \cup {"PR_CREATED", "FAILED_FINAL", "NEEDS_USER", "NEEDS_REVIEW",
                   "HARD_APPROVAL_WAITING", "BLOCKED"}

(* No worker runs for a task the gate refused, whatever the operators do     *)
(* later; for a task that needs a hard approval only an executor that        *)
(* resumed after the user's approval runs one.                               *)
WorkIsAuthorised ==
  /\ decision \in {"risk_blocked", "blocked"} => worker = 0
  /\ decision = "hard" => worker # Submitted

(* A worker, and what verifies, reviews and publishes its work, is in the    *)
(* worktree made for it, which nobody has replaced (docs/WORKER_CONTRACT.md). *)
WorkerHasItsWorktree ==
  \A r \in Runs :
    pc[r] \in {"work", "working", "pipeline", "verify", "review", "publish"}
      => worktree = r

AtWork == {"attempt", "work", "working", "degraded", "pipeline", "verify",
           "review", "publish"}
Works(r) == pc[r] \in AtWork /\ ~IsDryRun(r)

(* Whatever the user approves, and whenever: two executors never work on the *)
(* task at the same time, for the branch of the first refuses the second for *)
(* good; and the directory of the one that works is its own, or removed by a *)
(* later approval, or an empty one that a dry run made anew, but never the   *)
(* worktree of another (prepare_worktree).                                   *)
OneExecutorWorks ==
  \A r \in Runs : Works(r) =>
    /\ \A s \in Runs : Works(s) => s = r
    /\ worktree \in {0, r} \/ IsDryRun(worktree)

(* cancel_task and rollback_task write the row without set_status, and so    *)
(* neither task.json nor an outcome.                                         *)
OperatorStatuses == {"CANCELLED", "ROLLED_BACK"}

(* When nobody is in the middle of anything, task.json, the last event and   *)
(* the outcome have what the row says, whoever wrote it: executors before    *)
(* and after an approval, the reaper after a death or a pause, the user's    *)
(* rollback, the console's backfill; provided the last set_status was not    *)
(* interfered with, that is, nobody else was in the middle of its own writes *)
(* when it began, and it was finished (set_status).                          *)
StoriesAgree ==
  Quiet /\ alone /\ status \notin OperatorStatuses =>
    /\ artifact = status /\ trail = status
    /\ status \in OutcomeStatuses => outcome = status

(* A task whose worker process a cancel killed publishes nothing and does    *)
(* not complete, whatever its executor, later approvals, the canceller and   *)
(* the reaper write in whatever order; but that the reaper may complete a    *)
(* read-only task from what the worker's stream shows, and that a dry run    *)
(* beside the killed worker says so of itself.                               *)
KilledWorkIsNotCompleted ==
  Quiet /\ killed =>
    /\ published = {}
    /\ status \in SuccessStatuses =>
         \/ status = "DRY_RUN_COMPLETED" /\ dryRun
         \/ status = "COMPLETED_WITH_ARTIFACTS" /\ ~rowRequiresDiff /\ reaps > 0

(* Every submitted task comes to rest for good, through any number of        *)
(* retries, a cancel and queries that reap, unless its executor dies or an   *)
(* exception ends it, which leaves the status it had.                        *)
SubmittedSettles ==
  <>[](RunStopped(Submitted)
         /\ (status \in Resting \/ pc[Submitted] \in {"crashed", "raised"}))

(* A task whose executor died while its worker ran comes to rest: the next   *)
(* status queries reap it.                                                   *)
CrashedWorkSettles ==
  (\E r \in Runs : pc[r] = "crashed" /\ worker = r /\ process = "running"
                  /\ heartbeat /\ status = "EXECUTING")
    ~> status \in Resting
=============================================================================
