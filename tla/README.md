# World: a verification project for the task orchestrator

The repository is an orchestrator for coding agents. A user submits a task; an
approval gate decides whether it may run, a router picks worker models, each
worker runs as a child process in a git worktree, and its result is audited,
verified, reviewed and published. Operators approve, cancel, reject and roll
back tasks through an MCP server and a console while all this happens, and
status queries recover tasks whose orchestrator died. Everything meets in a
SQLite database, in a run directory of JSON files and in git.

The TLA+ modules in this directory model the core of that system. They are
translated from `src/orchestrator/`; `PROJECT.json` maps every definition to
the lines it stands for.

## Inventory

| Component | State it keeps | Operations | Modules |
|---|---|---|---|
| control files (`control_files.py`) | JSON files under `run_dir/control`, a lock directory for each | `read/write/update_json_file`, `FileLock`, removal of stale locks | `AtomicJsonFile`, `ControlFileLock` |
| worker processes (`process_control.py`, `stale_worker_reaper.py`) | the child process, `process.json`, `heartbeat.json`, `cancel.requested` | `run_managed_process`, `request_cancel`, `StaleWorkerReaper.reap` | `ManagedProcess` |
| task states (`state_machine.py`, `outcomes.py`) | none: tables | `can_transition`, `apply_event`, outcome sets | `TaskStates` |
| task lifecycle (`task_lifecycle.py`, `task_execution_service.py`, `task_operations.py`, `terminal_handlers.py`, `scheduler.py`, ...) | row in `tasks`, rows in `task_events` and `task_outcomes`, `task.json`, worktree and branch | `execute`, `set_status`, `approve_task`, `cancel_task`, `reject_task`, `rollback_task`, status queries | `TaskLifecycle` |
| worker attempts (`task_attempt_runner.py`, `worker_attempt_executor.py`, `post_attempt_policy.py`, `read_only_salvage.py`, `workers/`) | the retry chain, one shared worktree, attempt artifacts, metrics rows | run the chain, fail over, audit, salvage, classify, decide | `WorkerAttempts` |
| verification, review, publication (`verifier.py`, `reviewer.py`, `pr.py`, `task_completion_pipeline.py`, `task_review.py`, `terminal_handlers.py`) | verify and review artifacts, patch, outcome record | run commands, check changed paths, review, publish, record | `Completion` |
| approval policy (`approval_*.py`, `policy_*.py`, `risk_policy.py`) | `approval_events`, `learned_patterns`, `policy_suggestions`, overrides | decide, record an outcome, learn from it, revoke; suggest | `ApprovalPolicy` |
| task submission (`task_protocol.py`, `task_submission.py`, ...) | none: a request becomes a plan | front matter, options and goal to protocol and plan | `TaskProtocol` |
| routing (`router*.py`, `routing/`) | none; reads history | features, safety gate, candidates, scores, chain, override | `Routing` |
| permissions (`permissions.py`, `worker_permission_audit.py`) | none | verdict over paths, commands, providers, diffs | `Permissions` |
| accounting (`token_ledger.py`, `baselines.py`, `metrics.py`) | `token_ledger.json`, rows | collect rows, choose a baseline, claim savings | `TokenLedger` |
| console (`console/streams.py`, `console/queries.py`, `dashboard_status.py`) | a slot counter, alerts | event stream, status shown for a task | `ConsoleStream`, `DashboardStatus` |
| database (`db.py`) | SQLite | one transaction per call | rows in the modules that use them |
| worlds, registry, discovery, prompts, entry points | files and text | scans, rendering, argument parsing | `Routing` (what a world changes), else not modelled |

How they interact. `submit_task` builds a plan, writes the row and calls the
executor, which holds no lock on the task and runs in the process that submitted
it. The executor asks the approval gate and the router, runs the attempts and
hands the result to the completion pipeline. Attempts start worker processes
through `run_managed_process`, which shares the control directory with
`request_cancel` (called by `cancel_task`, from another process) and with the
reaper (called by every status query, from any process). `approve_task` starts
another executor for the same task. All of them write the row: the executors
and reapers through `set_status`, the operators with `update_task`; the console's
quality page adds outcomes that are missing. At the end the executor
calls `record_policy_learning`, as does `rollback_task`; the gate of every later
task reads what was learned, and the router reads the metrics rows. The console
reads rows and files from a process of its own.

What makes each of them correct:

- an update of a control file is atomic and no caller waits for ever;
- a cancelled worker stops and is never reported as done; nobody takes a watched
  worker for dead;
- the vocabularies of statuses (old, new, console, outcomes) mean the same;
- a task comes to rest, with its records in agreement unless two writers met, and
  works only where and when it may, one executor at a time;
- a retry chain ends, does not come back to an exhausted provider, and what it
  hands over was audited;
- what is published as a patch was verified and reviewed, and the record says so;
- an approval without a user rests on verified work, and danger is refused;
- a router offers no worker that the permission profiles exclude and does not
  hold a good record against a model;
- ledger and metrics rows tell what happened;
- an event stream neither skips nor repeats, and returns its slot.

The hard behaviours: `set_status` is up to seven separate accesses; checks are made
long before the write they guard; a worker may outlive its executor; a heartbeat
that pauses looks like a death; a lock directory may be removed after another
process replaced it; a task may be executed twice; the failover rewrites the
chain that the loop enumerates; attempts share a worktree; test commands run
after the audit; Codex may answer anything or nothing; a stream learns that its
client left only when it writes. `PROJECT.json` lists them under `hazards`, each
at the line where it bites, with the properties that cover it.

## Modules

`MC*` modules give a module its constants and bounds for TLC; `*_proofs` modules
hold theorems. `ControlFileLock` implements `AtomicJsonFile`; `WorkerAttempts`
composes the executor with the second writer of the ledger of `TokenLedger`;
`Completion` extends `TaskProtocol`, `TaskStates` and `Permissions`, `Routing`
extends `TaskProtocol`, and `MCDecisions` brings all the decision modules together.

### ControlFileLock, AtomicJsonFile

`AtomicJsonFile` is what callers of `update_json_file` rely on: a file that
changes atomically, each update building on the one before. `ControlFileLock`
is `FileLock` with its accesses one by one: `mkdir`, the `stat` of a lock that
was in the way, `rmdir` of a stale one, load, replace and release, the deadline,
and the death of a process that holds the lock (`Crash`, external). A call
counts the updates, so a lost update is a count too low. A lock ages
(`LockAges`) only when its holder died: `STALE_LOCK_SEC` is far longer than a
call. `CallsAreAtomic` is the refinement to `AtomicJsonFile`.

### ManagedProcess

One task's worker over its attempts. The runner is `run_managed_process`: spawn,
first `process.json`, poll and heartbeat, cancel file and clock, the decision
after `proc.wait`, the merge into `process.json`, the last heartbeat. The
canceller is `request_cancel` and the reaper is `StaleWorkerReaper.reap`, split
into its two reads and its blind write. Each control file access is atomic,
which is what `ControlFileLock` shows. A child that was killed dies later
(`ChildDies`); a worker that hangs is one that never exits.

### TaskLifecycle, TaskStates

One task with the executor that `submit_task` starts, executors that
`approve_task` starts, an operator, status queries and the console's quality
page. `todo[a]` are the statuses actor `a` is about to set; each goes through
the steps of `set_status`, and any other actor may step in between: write the
row (`WriteRow`; the read before it only fills in the event), read it for
`task.json` (`ReadForArtifact`) and write that (`SyncArtifact`), append the
event (`AppendEvent`), and for some statuses read the row once more
(`ReadForOutcome`) and write the outcome derived from it (`RecordOutcome`).
`seen[a]` is the status that was read and is yet to be written. The read and the
write of `task.json` after the row was read are one step, since only the status
is modelled. `_backfill_task_outcomes` of the console lists the row, looks
whether it has an outcome, and writes one, in three steps. The phases of an
executor (`pc`) follow `TaskExecutionService.execute`: gate, route, prepare,
attempts, verification, review, publication. An exception leaves an executor
where the code catches none (`raised`): git refuses or fails in
`prepare_worktree`, a command, `git push` or `gh` runs out of time, a resumed
executor looks for `risk_level`. What a gate, a worker, a verifier or a reviewer
decides is a choice here and is modelled by `ApprovalPolicy`, `WorkerAttempts`
and `Completion`. A resumed executor (`r # Submitted`) runs on the database row,
which lacks the task's options and its `risk_level`. The worker's process is
abstracted to the status in `process.json`, the cancel file and the heartbeat;
their interplay in detail is `ManagedProcess`, which has the runner's last look
at the cancel file and its return as separate steps; here they are one. That a
connection to the database times out is left out. An executor dies between any
two of its accesses, in its last `set_status` too (`Crash`). History variables
for the properties: `killed`, a cancel terminated a worker; `alone`, nobody else
was in the middle of writing when the last `set_status` began, and nobody died
in it. `TaskStates` holds the names, aliases and transition tables and the
status sets of the outcomes.

### WorkerAttempts, TokenLedger

The retry loop of one task over the chain of its route. An attempt is checked
against the declared paths (`Preflight`), run (an adapter refuses, mocks, raises,
or runs and leaves edits in the worktree), audited against the permission
profile, salvaged when it is read-only work, classified and written to the
metrics (`Finalize`). The loop then decides: accept, stop, retry, or fail over to
the other OpenCode side, which rewrites the rest of the chain. Edits accumulate
in `tree`, since no attempt resets the worktree; words of a failure are classes
(`Whys`). The ledger is a snapshot of sections read at several moments and a
replacing write; the operator's command line may refresh it at any time
(`Operator`), and chooses among the baselines.

### Completion

One execution from the result of the attempts to its records. Each verification
command is a step: permission check, exit code, timeout, and possibly an edit of
the worktree. Then `make_diff` and `changed_files` (git may fail), the scan of
forbidden paths, the review (Codex missing, late, unparseable, approving or
refusing, with the local rules in its place), the endings for read-only and mock
work, the patch or the pull request, the terminal handlers with their outcome,
and what policy learning is told. `cases` are the results the attempts hand over.

### ApprovalPolicy

The tasks of one project. `DecideByRule`, `DecideByPattern` and `RefuseCommand`
are `ApprovalGraph.decide` behind `evaluate_task`, in its order: commands and
forbidden paths, overrides, learned patterns, production paths and risk. What a
goal or a path matches is a choice made at submission (`touches`). The ways a
task ends are those that call `record_policy_learning`, each with the tests,
review, paths and rollback flag it passes; `calls` holds an outcome while its
caller is in `on_task_complete`, which writes `approval_events` (`RecordEvent`)
and `learned_patterns` (`UpdatePattern`) in two transactions; `half` says that
the first is done. A pattern counts successes, failures and rollbacks; its trust
is computed from them in integers (`Trusted`), but for the 0.5 that a row has
as inserted (`inserted`). A process dies between any two steps (`Crash`). Soft
approvals that the user also approves, and reaped tasks, are in `TaskLifecycle`.

### Routing, Permissions, TaskProtocol, DashboardStatus

Pure operators, no state. A goal is the set of cues (classes of words) it
contains, a path its kind, scores are integers (hundredths), a project its stack
and preferences. `Routing` goes from the features of a task to its chain: hard
rules, safety gate, candidates, capability and history scores with their margin,
budget, the shape of the task, escalation and the user's override.
`TaskProtocol` is the protocol of a request and the three readers that ask it
whether files must be written. `Permissions` are the profiles of the workers and
the verdicts over paths, commands and providers. `DashboardStatus` is what the
console shows for a row and its files.

### ConsoleStream

Server threads, clients and the writers of events and heartbeats. A client
connects (while a slot is free), is sent the newest page and then what follows
`lastId`; a poll looks for stale heartbeats and sends those it has not sent as
alerts, and a keepalive when there is nothing at all. A client that left is
noticed by a write that fails (`WriteFails`), which releases the slot.
`QueryAlerts` and `ResolveAlert` are requests of other clients to the same table.

## Runs

| Run | Question | Bounds |
|---|---|---|
| `LockCrash` | Does a lock whose holder died get recovered, without an update lost before the death and without a caller that waits for ever? | two processes, two calls each, two tries before the deadline, one death |
| `LockCrashTwoWaiters` | Does that hold with two waiters? No, see Divergences | three processes, one call each, one death |
| `ProcessControl` | What can a cancel, a death of the runner, a pause of its heartbeat and status queries that reap do to an attempt, each at any point? | two attempts, one poll before the timeout, one death, one pause, two reaps |
| `LifecycleApproved` | Is work authorised, and do two executors ever work at once, when the user may approve a task that waits, softly or hard, at any moment? | one approval, chain of one |
| `LifecycleWriters` | Do row, `task.json`, last event and outcome agree at rest when the last writer was not interfered with, whoever wrote before? Can a task whose worker a cancel killed publish or complete, also when a heartbeat paused and a reaper writes late? | one request (cancel, rollback or backfill), one reap, one pause, one death, chain of one |
| `LifecycleCrash` | Does every task settle, also one whose executor died? | chain of up to two, one request, one reap, one death |
| `LifecycleSoftApproved` | Does an approval of a running soft approval leave the worker its worktree? No, see Divergences | one approval |
| `Policy` | Are learned approvals earned, counts backed by the audit log, dangers refused, rollbacks no gain? | three tasks, two types (one under a BLOCKED override), one path, one rollback, one revocation, one death |
| `Attempts` | Does the loop end, leave exhausted sides alone, hand over only what was audited, and do rows and ledger tell what happened? | five chains of the router (escalation to OpenCode, fallback, two sides of OpenCode, a worker with the wrong model), four kinds of edits, four attempts with the failover, two baselines |
| `Decisions` | Do the tables of statuses, router, profiles, protocol readers and console agree with each other? | all pairs of statuses, some 125,000 tasks |
| `Completion` | Is what a patch publishes checked, reviewed and free of forbidden paths, and do outcome, learning, row and event agree? | 598 results of the attempts, two faults (git, timeout) in one execution |
| `Console` | Is a stream continuous and complete, and do slots come back? | two clients for one slot, one worker, pages of two, four events |

The bounds are enough for every step of one actor to meet every step of another
at least once, and for the second attempt of a chain to meet what the first one
left. Two attempts exercise both sides of `idx + 1 < len(retry_chain)`; four, a
failover with attempts before and after it. Three tasks are what a learned
approval takes: two outcomes make a row trusted, the third task is approved by
it. Four events are twice the page, so a page can be full and a client can fall
behind by a whole one. In `Completion` each of the commands can fail, be
refused, or edit a file before the next. The two clients of `Console` share one slot: they
compete for it and meet in the alert table. Every run is exhaustive within its bounds.
`LifecycleWriters` is the largest (5.9 million states) and, with `Attempts` and
`LifecycleCrash`, the slowest (some two minutes each). `MaxRequests` counts cancels,
rejections, rollbacks and backfills together: each of them meets every other actor
of a run, but no two of them meet. The bounds of the lifecycle are split over
runs, each with what its question needs; the theorems below have none of them.
`LifecycleCrash` has no pauses: a reap after one would use up the only reap, and a
death after it would be left to a query that the bound forbids.

The deadlock check is off in `Policy`, where a finite set of tasks comes to its
end, and in `Decisions`, which has no behaviour but the choice of its input;
elsewhere resting is an explicit stuttering step. `Policy` uses the symmetry of
tasks, which its safety properties allow. `Decisions` enumerates its questions
as initial states: the pairs of statuses, and for tasks `AskBroad` (words, types,
paths, projects), `AskDeep` (history and budget) and `AskProtocol` (options, front
matter, overrides); a task is planned in one step.

## Fairness

- `ControlFileLock`: a process inside a call goes on; sleeping and retrying is
  a loop with a deadline, and a lock whose holder died gets old.
- `ManagedProcess`: the runner, a canceller in the middle of its call and a
  reaper in the middle of its call are scheduled, and a killed child dies. The
  worker need not ever exit and nobody has to cancel or ask for the status.
- `TaskLifecycle`: an executor that runs goes on (its worker ends, which is
  `AttemptEnds` of `ManagedProcess`), an operator's call goes on to its end, and
  the console polls the status of tasks, which is what runs the reaper. No
  fairness on approvals, cancels or deaths, nor on the backfill: the quality page
  is loaded only when a user opens it.
- `WorkerAttempts`: the executor goes on (its workers end, as above); the
  operator need not refresh the ledger.
- `Completion`: one thread, which goes on; every external command it waits for
  has a timeout.
- `ConsoleStream`: each stream has a server thread of its own, and a client that
  is still there reads. Nobody has to connect, leave, append or beat.

## Proofs

TLAPS proves the following for every value of the constants. Each proof module
first shows an inductive invariant (`IInv`, and another one for each group of
properties that needs more), one step per action, then that it implies the
property. Every invariant was first checked by TLC on the runs of its module.
All safety properties of the passing runs are theorems.

`ControlFileLock_proofs`: `TypeCorrect`; `LockExcludes`, until a process dies
with the lock, at most one is in the critical section (`ExclusionUntilCrash`);
`LockImplementsAtomicFile`, without deaths (`MaxCrashes = 0`) the calls implement
`AtomicJsonFile`. Before any death the lock directory is there exactly when some
process is between `AcquireLock` and `ReleaseLock`, that process is unique, the
lock never looks stale, and what a process loaded is what the file holds.
Exclusion alone is not inductive: without the first part a second `mkdir` could
succeed, and without the third a waiter could remove the directory.

`ManagedProcess_proofs`: `ResultsMatchRecords` (`ResultMatchesRecord`): the result
of a runner whose heartbeat never paused is the one in `process.json`, whatever
cancellers did. It says nothing of a runner that a pause made look dead: a reaper
may write over the file. `KillsAreReported` (`KilledIsReported`) is about that
runner too: a killed worker is reported as cancelled or timed out although a
reaper wrote its old snapshot over the "cancelled", because the runner also asks
for the cancel file, which no reaper touches. `RunnersAreSpared`
(`ReaperSparesRunners`). As long as the runner is watched (alive, its heartbeat
never paused), its heartbeat is not stale (`StaleIsUnwatched`), `process.json` is
that of the current attempt but before its first write (`FileIsCurrent`), and what
`request_cancel` did to the file is in what the runner will merge
(`CancelIsKept`). Whether watched or not, a worker that is dying or dead of a kill
has a cancel file or a runner that ran out of time behind it (`KillIsKnown`).

`TaskLifecycle_proofs`: `WorkNeedsTheGate` (`WorkIsAuthorised`). The gate
decides once (`GateDecidesOnce`); the submitted executor ends at a hard approval
(`HardApprovalWaits`); and before the decision and after a refusal nobody else
comes in: the row has only early names, from which no operator starts an executor and no reaper acts
(`NobodyCameIn`, which rests on lemmas about the table of aliases).

`UndisturbedStoriesAgree` (`StoriesAgree`) holds with any number of approvals,
cancels, reaps, pauses, rollbacks, backfills and deaths: of the last
`set_status` it asks only that nobody else was in the middle of writing when it
began, and that it was finished. When two do meet the records may differ (see
Divergences). The invariant (`Stories`) is that, since such a beginning, either
nobody is inside `set_status` and the records agree, or one actor is, and what
is behind it agrees with the row: what it has read, then the artifact, then the
event (`Inside`). An operator or a backfill that comes later ends the claim or
has read the row as it is. That an actor has something to set while it is
inside, and which statuses these are, is `CInv`.

`OneExecutorAtATime` (`OneExecutorWorks`) assumes nothing about approvals: soft ones,
repeated ones, before or after a dry run. Who works has made the branch, the branch
is never removed, and `git worktree add -b` refuses everybody else (`OneWorks`).
What it does not say is that the worker keeps its directory: a second executor
removes it before git refuses, which `LifecycleSoftApproved` shows
(`WorkerHasItsWorktree`).

`KilledTasksDoNotComplete` (`KilledWorkIsNotCompleted`), again for any approvals,
pauses, reaps, rollbacks and deaths. While a process runs, whoever works waits for
it and nothing has been published; after a kill the cancel file is there, so the
wait ends in a refusal (`WorkFollows`). A success is set by an executor at its end,
which then no longer works and keeps all others from working (`SuccessIsLast`);
what else anyone has yet to set is harmless: a refusal, a dry run's own word, or
the reaper's completion of a read-only task, the exceptions the property names.

`ApprovalPolicy_proofs`: `TypeCorrect`; `ApprovalsAreEarned`, a task approved by a
learned pattern has behind it another task of its type that passed tests and
review, and two outcomes of the pattern in the audit log, one of them verified;
`RollbacksEarnNothing`; `CountsAreTrue`; `DangersAreRefused`. That an approval is earned is about
the task; the decision only sees a pattern. `PatternsAreBacked` ties what a
pattern counts to the audit log and to a task that passed; it is kept by an
update only because the outcome in flight has left such traces itself, in a row
of its own (`HalvesAreBacked`), which needs that what callers claim is true
(`ClaimsAreTrue`) and that a caller records one outcome at a time
(`EarlyCallersAreIdle`). Steps that start to record an outcome share one shape
(`Takes`), for which each part is proved once. `RollbackEarnsNothing` adds
arithmetic (`RollbackLowersTrust`): a row that has only been inserted has at most
one success, and a rollback outweighs two. `CountsAreTrue`, for a finite number of
tasks, rests on a sum (`CountsAdd`): what a pattern counts and the outcomes that
are between the two writes add up to what the audit log shows, and a death only
takes an outcome out of flight, which turns the equality into an inequality.

`WorkerAttempts_proofs`: `PatchesAreAudited` (`AuditCoversResult`): the files of
the result that goes on are the whole tracked change of the shared worktree, all
of it allowed. `RowsAreTrue` (`RowsTellTheOutcome`): no row but that of the
returned attempt says success. `StopsEndTheRun` (`StopsAreFinal`). The parts:
a decision is made only at the end (`DecidedLast`), a result with files
has those of the whole worktree and was audited (`ResultIsTree`), a run that goes
on does so after a failure (`FailureGoesOn`), and the only row of a success is
that of the result in hand (`RowOfResult`). `LedgerIsOfOneMoment`
(`LedgerIsConsistent`): the snapshots in memory and the file are `Sound`, their
claim that of the baselines they list, and once the review is accounted for no
row of an attempt changes any more (`ReviewedLast`). `DrySidesAreLeft`
(`SidesNotRevisited`): a dry side is one the failover has used, or is about to
(`DryIsKnown`); until a failover the chain knows one side, and after it the other
side is at most the next attempt and none comes later (`SidesAhead`), which rests
on what `WithoutSide` leaves of a chain of any length. Where these proofs would
take an induction over a sequence they take the least counterexample instead,
from the library's well-founded orders.

`Completion_proofs`: `VerifiedIsChecked`, `PatchesAreReviewed` (`PatchIsReviewed`),
`PatchesSpareForbidden`. `PatchesAreReviewed` is about patches: what is in one was
verified as acceptable and approved, and from medium risk on it was shown to Codex.
It does not say that Codex approved it: an answer without a verdict leaves the
verdict to the local rules (`reviewer.py:83`). Nor is it about pull requests, whose
commits nobody verified (see Divergences). The commands that ran, followed by those still to do,
are the ones the policy wants, as long as none failed (`CommandsKept`); each
verdict holds what it was computed from (`VerdictsHold`); and each stage was
passed before the next (`StagesPassed`). `RecordsOfEndAgree` (`RecordsAgree`) and
`AcceptanceIsDelivery` (`AcceptedIsDelivered`) are proved together (`RInv`): the
verdicts are known when the records are written (`VerdictsKnown`), and what was
approved is recorded as approved (`ApprovalRecorded`).

`ConsoleStream_proofs`: `StreamsAreContinuous`: the rows read but not yet sent
follow `lastId`, which is the last one received (`RowsFollow`), and alerts to be
sent are new (`AlertsAreNew`). `SlotsAreCounted`: the counter of the streams is
the number of connections and never above the limit.

`Decisions_proofs` says of every task, project, history and request what the run
asks of a sample. `GeneralSpec` starts with any question (`IsQuestion`: any
request, type, risk, paths, budget, override and project, a shape the router
knows or none, and a history of numbers); the questions of the run are among
them (`SampleOfQuestions`). The state says only that a route is the answer to its
question (`DInv`); the rest are lemmas about the operators.
`PlannedProvidersFit`: whatever is selected and every step of every chain is
something its worker may run. `ReadOnlyTasksAreNotEscalated`: the shapes left to
a task that changes nothing have chains of their own.
`BetterHistoryIsNoReason`: with a higher rate for one model, its candidates
score higher and the others the same (`ScoreGrows`, through products and
quotients of integers); so the best candidate keeps its worker
(`TopKeepsWorker`), the rules of `resolve_conflicts` keep theirs
(`ResolvedKeepsWorker`), and the choice between Flash and Pro, with its margin
in favour of the default, is kept (`ChoiceIsKept`). It is proved for any higher
rate (`RouteIsKept`), of which the property samples four.
`ReadersOfProtocolAgree`, `FinishedIsShownFinished` and `TablesOfStatusesAgree`
need no history; the last one follows from what the tables of aliases and of
transitions are to each other (`CallsSeeStates`), not from going through all
pairs.

The assumptions are those of the modules: bounds are natural numbers, the kinds
of the constants (`PolicyAssumption`, `LifecycleAssumption`,
`CompletionAssumption`: the commands of each case are sequences over `Commands`;
`AttemptsAssumption`: edits are sets of permissions; `ConsoleAssumption`: finitely
many clients), and that `None` is no ordinary value (`NoneAssumption` in several
modules, `ProtocolAssumption`: neither `None` nor `Unknown` is a mode, a policy or
a Boolean; `HistoryAssumption`: `None` is no row of the history).
`RoutesAssumption` of `WorkerAttempts` is about the program: a planned chain is
not empty and names OpenCode on one side only. `retry_chain_for_shape`
(`router_route_policy.py`) and the override (`task_routing.py:47`) plan no other,
and the failover, which works on such a chain, is the only one that adds a side.
On a chain that planned both sides it could return to a dry one.

Model-checked only: all liveness (`EveryCallEnds`, `AttemptEnds`,
`CancelStopsWorker`, `SubmittedSettles`, `CrashedWorkSettles`, `RunEnds`,
`EveryExecutionIsRecorded`, `EventsArrive`, `SlotsComeBack`), which is out of
the prover's reach. `SubmittedSettles` excepts an executor that died or that an
exception ended: such a task keeps the status it had, VERIFYING after a command
that ran out of time. The properties that runs show violated are of course not
theorems.

## Divergences

Checked by the violation runs and listed under `findings`:

- `LockCrashTwoWaiters`: `_remove_stale_lock` looks at the age of the lock
  directory and removes whatever is there later. With two waiters behind a dead
  holder, one removes the fresh lock of the other and an update is lost.
- `LifecycleSoftApproved`: a soft approval executes at once and may also be
  approved, which starts a second executor; its `prepare_worktree` removes the
  directory the first one works in before git refuses the branch.

The following is what the models have to follow, where a document or the intent
of the code says otherwise, or what limits a property. No run states it.

Control and lifecycle:

- an approved task is executed from the database row; `task["risk_level"]` raises
  `KeyError` in review and in the terminal handlers (`task_review.py:50`,
  `terminal_handlers.py:62`), and a second `git worktree add -b` fails: the task
  is left where it was; so is one whose verification command ran out of time;
- a resumed executor has lost the options of the task;
- the reaper writes back the `process.json` it read before a cancel or a result;
  a task it marks so cannot be cancelled any more, though its orphan may live;
- an executor that dies before the first heartbeat is never reaped;
- a `TimeoutError` of the lock in the write of a heartbeat leaves the child alone;
- `record_task_outcome` reads the row (`task_outcome_recording.py:20`) and writes the
  outcome later (`:37`); a reaper that saw a paused heartbeat writes its status
  between the two, or the executor between the reaper's, and the task rests with an
  outcome that is not of its row. The same holds of `task.json`
  (`task_artifact_repair.py:57`, `:80`). `StoriesAgree` leaves out such a meeting;
- `set_status` does not ask `can_transition`, so an executor that was between two
  statuses goes on from CANCELLED, which `state_machine.py:54` calls terminal;
- a late reap may complete a cancelled read-only task (the exception that
  `KilledWorkIsNotCompleted` names); a rollback while policy learning runs is
  overwritten;
- the backfill only adds outcomes that are missing, and does so from a row that may
  have changed since it was listed;
- `cancel_task` writes the row with `update_task`: no outcome is recorded;
- an approval may come while the first executor is still inside `set_status`, so
  the last event need not name the final status, nor the outcome the row's.

Attempts and accounting:

- an exhausted side is avoided, but a chain may repeat an OpenCode attempt, and
  failed OpenCode attempts are never recovered;
- read-only salvage can accept an attempt beside leftover edits which nobody
  audited; the gate for a missing diff is satisfied by leftovers of an earlier
  attempt; new files that git does not track are invisible to the audit;
- `auth` as a substring makes "author" on stderr an authentication failure;
- attempts that end in a denied audit or an exception leave no metrics row, and
  `attempts/NN/result.json` keeps "success" for one without a diff;
- the older of two ledger snapshots may be written last; it stays until the next
  refresh.

Completion:

- the time limit of a verification command is not caught (`verifier.py:80`); a
  failing `git diff` reads as no changed files, so the forbidden paths pass
  (`verifier.py:108`);
- a patch is published whose verification ran no command (`verifier.py:142`), or
  which at low risk only the local rules reviewed (`reviewer.py:44`);
- an answer of Codex without "approved" counts as approved (`reviewer.py:83`);
- a pull request pushes HEAD, the worker's own commits, which were not reviewed,
  and leaves out the reviewed edits, which were not committed (`pr.py:31`);
- "Publish allowed: False" in `final.md` does not keep anything from being
  published; a read-only task whose worker changed files is published as a patch;
- a degraded review at low risk is learned as a success and recorded as an
  outcome that is not accepted; the failure reason of a successful task may be
  that of an earlier attempt.

Approval policy (`docs/DYNAMIC_APPROVAL_GRAPH.md`):

- a failure can raise trust: one success is inserted with 0.5, and the failure
  after it computes 0.75, which is trusted;
- a task that ends with a pull request records a second outcome without tests
  and review, which counts as a failure;
- `rollback_task` learns on the database row, which has no `task_type`: every
  rollback counts against `routine_coding`; patterns of paths hear only of
  successes;
- a learned pattern or an override decides before production paths are looked at,
  and an override lifts a block;
- the next outcome makes a revoked pattern active again;
- the confidence stays at 0.1, so suggestions are never generated.

Routing, protocol and console:

- the router's block is a flag nobody reads: adapters refuse the empty model;
- the success rate in the history is that of workers, not of verified outcomes
  (`db.py:695`); few rows of the cheap model flip the default;
- a single-file patch escalates to GLM, GLM ignores the budget, and a project's
  OpenCode model and its preference for low cost have no effect after the V3
  shape (`docs/MODEL_ROUTING.md:88-90`);
- an explicit read budget of 0 falls back to the global default, not to that of
  the profile;
- a project with a world loses mode and type of its tasks before routing;
- the console shows a finally failed task with a failed process record as not
  final, hides the user's action of a task in review behind a failed process, and
  shows BLOCKED as waiting, where the outcomes count it as failed;
- the stream sleeps only when it has nothing at all to say: with a stale worker
  whose alert was sent it neither writes nor sleeps, and its slot is kept after
  the client left, which `SlotsComeBack` leaves out (`Busy`); a resolved alert is
  reopened by the next poll; and a stream starts at the newest page, so what came
  before is not sent.

## Left for later

What a further development would take up, in this order:

1. `TaskContract`, what a task promises its user, refined by `TaskLifecycle`, and
   an executor of `TaskLifecycle` composed with `Completion` and `WorkerAttempts`
   instead of choices;
2. the worktree of an approved task: the branch that is left behind;
3. suggestions and changing overrides in `ApprovalPolicy`;
4. proofs that an executor of `TaskLifecycle` implements such a contract, step by
   step, and that its choices include what `Completion` and `WorkerAttempts`
   decide.

## Not modelled

- `project_registry.py`, `project_profiler.py`, discovery and memory: scans of a
  file system and text heuristics. What the rest uses of them, a project's stack,
  commands and defaults, is an input of `Routing` and `Completion`.
- Prompt building, agents files, reports, the command line, the MCP front end and
  the static console: rendering and argument parsing.
- The parsing of worker streams and the command lines of the adapters; a stream
  is what it says (`said`) and a failure its class.
- The schema and migrations of the database, and the retry of `connect`
  (`db.py:247`), which yields again when a caller's block raises "locked": one
  caller and one exception, which needs no interleaving.
- Prices and token estimates: arithmetic without interaction.
- The summaries and dismissals of the console, and cleaning up by hand.
