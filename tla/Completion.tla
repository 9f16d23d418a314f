------------------------------ MODULE Completion ------------------------------
(* What becomes of the result of the attempts: task_completion_pipeline.py     *)
(* with the verification commands, the review, the terminal handlers and the   *)
(* publication it calls, and the four records that are left of it: the metrics *)
(* row of the last attempt, what policy learning was told, the outcome that    *)
(* task_outcome_recording.py derives from the row and the artifacts, and what  *)
(* was published.                                                              *)
(*                                                                             *)
(* One execution; that others move the status meanwhile is in TaskLifecycle.   *)
EXTENDS TaskProtocol, TaskStates, Permissions

CONSTANTS
  Cases,        \* what may be handed over: records [task, work, worker, push, dry]
  Commands,     \* test and build commands of the projects
  Edits,        \* files that a verification command may change
  MaxFaults     \* bound on git failures and command timeouts together

(* A task has the fields of TaskProtocol, and risk (None in the database row   *)
(* that an approval resumes from), forbidden, the patterns of its forbidden    *)
(* paths, and commands, its test and build commands.  A work, the result of    *)
(* the attempts, is [status, mock, partial, changed, committed]: the files it  *)
(* changed, and those the worker committed by itself, which git diff does not  *)
(* show.                                                                       *)

ASSUME CompletionAssumption ==
  /\ \A c \in Cases : c.task.commands \in [test : Seq(Commands), build : Seq(Commands)]
  /\ MaxFaults \in Nat

\* Python's None is no verdict, no name of a failure and no record.
ASSUME NoneAssumption ==
  /\ None \notin BOOLEAN
  /\ None \notin {"dangerous_command", "forbidden_path", "build_failed", "tests_failed",
                  "review_unavailable", "review_rejected"}
  /\ None \notin [as : {"patch", "pr"},
                  files : SUBSET (Edits \cup UNION {c.work.changed \cup c.work.committed :
                                                     c \in Cases})]
  /\ None \notin [approved : BOOLEAN, degraded : BOOLEAN, blocking : BOOLEAN,
                  mode : {"degraded_mock", "skipped_read_only", "local_fallback", "codex"}]

VARIABLES
  case,       \* the case at hand
  stage,      \* where run() is
  todo,       \* the commands still to run, each with its kind
  ran,        \* CommandResult list
  tree,       \* files of the worktree that differ from HEAD
  patch,      \* verify/diff.patch: files in it
  verify,     \* verify/verify.json, or None
  review,     \* review/review.json, or None
  row,        \* failure, build and review of the last attempt's metrics row
  status,     \* status of the task row
  learned,    \* what policy learning was told, in order
  published,  \* publish.json with the files published, or None
  outcome,    \* outcome.json, or None
  faults      \* git failures and timeouts so far

vars == <<case, stage, todo, ran, tree, patch, verify, review, row, status, learned,
          published, outcome, faults>>

task == case.task
work == case.work

-----------------------------------------------------------------------------
(* The outcome: outcomes.derive_task_outcome over the row and the artifacts.  *)

FirstBool(a, b) == IF a # None THEN a ELSE b

Bucket(s, degraded) ==
  IF s \in SuccessStatuses THEN IF degraded THEN "degraded" ELSE "success"
  ELSE IF s \in FailedStatuses \cup {"BLOCKED"} THEN "failed"
  ELSE IF s \in ApprovalStatuses THEN "approval" ELSE "cancelled"

\* Mutant: an approval is enough.
AcceptanceByReview(s, approved, degraded) ==
  IF s \in SuccessStatuses /\ approved # FALSE THEN "accepted"
  ELSE IF s \in FailedStatuses \cup {"BLOCKED"} THEN "rejected" ELSE "unknown"

Acceptance(s, approved, degraded) ==
  IF s \in SuccessStatuses /\ approved # FALSE /\ ~degraded THEN "accepted"
  ELSE IF s \in FailedStatuses \cup {"BLOCKED"} \/ degraded THEN "rejected" ELSE "unknown"

Quality(bucket, tests, build, approved, degraded) ==
  IF bucket = "success" /\ tests = TRUE /\ build = TRUE /\ approved = TRUE THEN "verified"
  ELSE IF degraded THEN "degraded"
  ELSE IF bucket = "approval" THEN "needs_user"
  ELSE IF bucket \in {"failed", "cancelled"} THEN bucket ELSE "unknown"

DeriveOutcome(s, v, r, metrics) ==
  LET approved == FirstBool(r.approved, metrics.review)
      build == FirstBool(v.build, metrics.build)
      degraded == r.degraded \/ work.mock
      bucket == Bucket(s, degraded)
  IN  [bucket |-> bucket, degraded |-> degraded, approved |-> approved,
       quality |-> Quality(bucket, v.tests, build, approved, degraded),
       acceptance |-> Acceptance(s, approved, degraded),
       rework |-> degraded \/ bucket \in {"failed", "approval", "degraded"} \/ r.blocking]

NoReview == [approved |-> None, degraded |-> FALSE, mode |-> "none", blocking |-> FALSE]

\* set_status: the outcome is derived as soon as the status asks for one.
SetStatus(s) ==
  /\ status' = s
  /\ outcome' = IF s \in OutcomeStatuses
                THEN DeriveOutcome(s, verify', IF review' = None THEN NoReview ELSE review', row')
                ELSE outcome

\* record_policy_learning, and the end of the execution.
Learn(success, tests, approved) ==
  learned' = Append(learned, [success |-> success, tests |-> tests, review |-> approved])

WriteRow(failure, build, approved) ==
  row' = [failure |-> failure, build |-> build, review |-> approved]

Ended(stages) == stage' = "ended" /\ UNCHANGED stages

-----------------------------------------------------------------------------
(* The steps of TaskCompletionPipeline.run.                                   *)

Init ==
  /\ case \in Cases
  /\ stage = "start" /\ todo = <<>> /\ ran = <<>>
  /\ tree = case.work.changed /\ patch = {}
  /\ verify = None /\ review = None /\ published = None /\ outcome = None
  /\ row = [failure |-> None, build |-> None, review |-> None]
  /\ status = "EXECUTING" /\ learned = <<>> /\ faults = 0

\* _dry_verify and degraded_mock_review: nothing ran, nothing is verified.
MockArtifacts ==
  /\ verify' = [tests |-> TRUE, build |-> TRUE, permitted |-> TRUE, changed |-> {},
                allowed |-> TRUE]
  /\ review' = [approved |-> FALSE, degraded |-> TRUE, mode |-> "degraded_mock",
                blocking |-> TRUE]

\* handle_degraded_mock.
HandleMock ==
  /\ stage = "start" /\ work.mock /\ task.risk # None
  /\ MockArtifacts
  /\ WriteRow("review_unavailable", TRUE, FALSE)
  /\ SetStatus(IF case.dry THEN "DRY_RUN_COMPLETED" ELSE "NEEDS_USER")
  /\ Learn(FALSE, FALSE, FALSE)
  /\ Ended(<<case, todo, ran, tree, patch, published, faults>>)

Tagged(kind, commands) == [i \in DOMAIN commands |-> [kind |-> kind, command |-> commands[i]]]

\* The commands of the policy, none for an answer without changes.
WantedOf(kind) ==
  LET commands == CommandsFor(IF task.policy = None THEN "full" ELSE task.policy, task.commands)
  IN  IF SkipsVerification(task, work.changed) THEN <<>> ELSE Tagged(kind, commands[kind])

Wanted == WantedOf("test") \o WantedOf("build")

StartVerify ==
  /\ stage = "start" /\ ~work.mock
  /\ stage' = "verifying" /\ todo' = Wanted
  /\ UNCHANGED <<verify, review, row>>
  /\ SetStatus("VERIFYING")
  /\ UNCHANGED <<case, ran, tree, patch, learned, published, faults>>

\* One turn of run_commands.  A command that may not run unasked, or that
\* fails, ends the commands of its kind: build commands run after failed tests.
RunCommand ==
  /\ stage = "verifying" /\ todo # <<>>
  /\ LET next == Head(todo)
         check == CheckCommand(case.worker, next.command)
         others == IF next.kind = "test" THEN WantedOf("build") ELSE <<>>
         Result(code) == Append(ran, [kind |-> next.kind, command |-> next.command,
                                      code |-> code, check |-> check])
     IN  \/ /\ check # "allow"
            /\ ran' = Result(IF check = "deny" THEN 126 ELSE 125)
            /\ todo' = others
            /\ UNCHANGED tree
         \/ /\ check = "allow"
            /\ \E code \in {0, 1}, edits \in SUBSET Edits :
                 /\ ran' = Result(code)
                 /\ tree' = tree \cup edits
                 /\ todo' = IF code = 0 THEN Tail(todo) ELSE others
  /\ UNCHANGED <<case, stage, patch, verify, review, row, status, learned, published,
                 outcome, faults>>

\* Nothing catches the TimeoutExpired of a command: the execution is over, and
\* the task keeps its status.
CommandTimesOut ==
  /\ stage = "verifying" /\ todo # <<>> /\ faults < MaxFaults
  /\ CheckCommand(case.worker, Head(todo).command) = "allow"
  /\ stage' = "raised" /\ faults' = faults + 1
  /\ UNCHANGED <<case, todo, ran, tree, patch, verify, review, row, status, learned,
                 published, outcome>>

\* Mutant: one command that passed is enough.
PassedAny(kind) ==
  LET codes == {ran[i].code : i \in {i \in DOMAIN ran : ran[i].kind = kind}}
  IN  codes = {} \/ 0 \in codes

\* tests_passed and build_passed; nothing to run is passed.
Passed(kind) == \A i \in DOMAIN ran : ran[i].kind = kind => ran[i].code = 0

\* classify_verify_failure.
VerifyFailure(v) ==
  IF ~v.permitted THEN "dangerous_command"
  ELSE IF ~v.allowed THEN "forbidden_path"
  ELSE IF ~v.build THEN "build_failed" ELSE "tests_failed"

Acceptable(v) == v.tests /\ v.build /\ v.allowed /\ v.permitted

\* Mutant: the files are those that the worker reported.
ChangedFilesReported(lost) == IF lost THEN {} ELSE work.changed

\* changed_files and make_diff, after the commands; when git fails, none.
ChangedFiles(lost) == IF lost THEN {} ELSE tree

\* The rest of verify, and of TaskVerificationRunner.run.
Verified(lostFiles, lostDiff) ==
  /\ patch' = IF lostDiff THEN {} ELSE tree
  /\ verify' = [tests |-> Passed("test"), build |-> Passed("build"),
                permitted |-> \A i \in DOMAIN ran : ran[i].check = "allow",
                changed |-> ChangedFiles(lostFiles),
                allowed |-> \A p \in ChangedFiles(lostFiles) : ~PathMatches(p, task.forbidden)]

EndVerify ==
  /\ stage = "verifying" /\ todo = <<>>
  /\ \E lostFiles, lostDiff \in BOOLEAN :
       /\ faults' = faults + (IF lostFiles THEN 1 ELSE 0) + (IF lostDiff THEN 1 ELSE 0)
       /\ faults' <= MaxFaults
       /\ Verified(lostFiles, lostDiff)
  /\ stage' = "verified"
  /\ UNCHANGED <<case, todo, ran, tree, review, row, status, learned, published, outcome>>

VerifyFails ==
  /\ stage = "verified" /\ ~Acceptable(verify)
  /\ WriteRow(VerifyFailure(verify), verify.build, None)
  /\ UNCHANGED <<verify, review>>
  /\ SetStatus("FAILED_FINAL")
  /\ Learn(FALSE, FALSE, FALSE)
  /\ Ended(<<case, todo, ran, tree, patch, published, faults>>)

IsAnswer == FinishesAsAnswer(task, work.status, work.changed)

\* read_only_review: the answer approves itself.
ReadOnlyReview ==
  [approved |-> TRUE, degraded |-> FALSE, mode |-> "skipped_read_only", blocking |-> FALSE]

\* handle_read_only_completion.
FinishAnswer ==
  /\ stage = "verified" /\ Acceptable(verify) /\ IsAnswer /\ task.risk # None
  /\ review' = ReadOnlyReview
  /\ WriteRow(None, verify.build, TRUE)
  /\ UNCHANGED verify
  /\ SetStatus(IF work.partial THEN "COMPLETED_WITH_PARTIAL_ARTIFACTS"
               ELSE "COMPLETED_WITH_ARTIFACTS")
  /\ Learn(TRUE, verify.tests, TRUE)
  /\ Ended(<<case, todo, ran, tree, patch, published, faults>>)

StartReview ==
  /\ stage = "verified" /\ Acceptable(verify) /\ ~IsAnswer
  /\ stage' = "reviewing"
  /\ UNCHANGED <<verify, review, row>>
  /\ SetStatus("CODEX_REVIEWING")
  /\ UNCHANGED <<case, todo, ran, tree, patch, learned, published, faults>>

\* A task resumed from its database row has no risk_level: reading it raises,
\* after the handlers have written their artifacts.
RiskIsMissing ==
  /\ task.risk = None
  /\ \/ stage = "start" /\ work.mock /\ MockArtifacts
     \/ /\ stage = "verified" /\ Acceptable(verify) /\ IsAnswer
        /\ review' = ReadOnlyReview /\ UNCHANGED verify
     \/ stage = "reviewing" /\ UNCHANGED <<verify, review>>
  /\ stage' = "raised"
  /\ UNCHANGED <<case, todo, ran, tree, patch, row, status, learned, published, outcome,
                 faults>>

\* Mutant: work of medium risk does without Codex.
NeedsCodexHigh(risk) == risk \in {"high", "max"}

\* run_codex_review and review_degraded_blocks_publish.
NeedsCodex(risk) == risk \in {"medium", "high", "max"}

\* run_codex_review, for what Codex answers: it approves, with or without
\* blocking issues, rejects, gives an object without a verdict, which counts as
\* the approval of the local review, or gives nothing that can be used.
ReviewOf(answer) ==
  LET local == verify.tests /\ verify.allowed
  IN  IF answer = "unavailable"
      THEN [approved |-> local /\ ~NeedsCodex(task.risk), degraded |-> TRUE,
            mode |-> "local_fallback", blocking |-> ~local \/ NeedsCodex(task.risk)]
      ELSE [approved |-> local /\ answer # "rejects", degraded |-> FALSE, mode |-> "codex",
            blocking |-> ~local \/ answer = "approves_with_issues"]

\* Mutant: what the review found leaves the row of the attempt as it was.
ReviewRowKept(r) == UNCHANGED row

\* The row that the review leaves.
ReviewRow(r) ==
  IF r.approved /\ ~(r.degraded /\ NeedsCodex(task.risk))
  THEN WriteRow(None, verify.build, TRUE)
  ELSE WriteRow(IF r.degraded /\ NeedsCodex(task.risk) THEN "review_unavailable"
                ELSE "review_rejected", verify.build, FALSE)

\* TaskReviewRunner.run, and what the pipeline does with it.  PLANNED replaces
\* POLICY_LEARNING before the publication starts.
Review ==
  /\ stage = "reviewing" /\ task.risk # None
  /\ \E answer \in {"approves", "approves_with_issues", "rejects", "silent", "unavailable"} :
       review' = ReviewOf(answer)
  /\ UNCHANGED verify
  /\ ReviewRow(review')
  /\ \/ /\ review'.degraded /\ NeedsCodex(task.risk)
        /\ SetStatus("NEEDS_REVIEW")
        /\ Learn(FALSE, FALSE, FALSE) /\ stage' = "ended"
     \/ /\ ~(review'.degraded /\ NeedsCodex(task.risk)) /\ ~review'.approved
        /\ SetStatus("FAILED_FINAL")
        /\ Learn(FALSE, FALSE, FALSE) /\ stage' = "ended"
     \/ /\ ~(review'.degraded /\ NeedsCodex(task.risk)) /\ review'.approved
        /\ SetStatus("PLANNED")
        /\ Learn(TRUE, verify.tests, TRUE) /\ stage' = "publishing"
  /\ UNCHANGED <<case, todo, ran, tree, patch, published, faults>>

\* create_pr_or_patch and TaskPublishRunner.run.  What is pushed is HEAD: the
\* commits of the worker, if any; without one there is no pull request.
Publish ==
  /\ stage = "publishing"
  /\ UNCHANGED <<verify, review, row>>
  /\ \/ /\ published' = [as |-> "patch", files |-> patch]
        /\ SetStatus(IF patch = {} THEN "COMPLETED_NO_CHANGES" ELSE "COMPLETED_WITH_PATCH")
        /\ UNCHANGED learned
     \/ /\ case.push /\ work.committed # {}
        /\ published' = [as |-> "pr", files |-> work.committed]
        /\ SetStatus("PR_CREATED")
        /\ Learn(TRUE, FALSE, FALSE)
  /\ Ended(<<case, todo, ran, tree, patch, faults>>)

Done == stage \in {"ended", "raised"} /\ UNCHANGED vars

Next ==
  \/ HandleMock \/ StartVerify \/ RunCommand \/ CommandTimesOut \/ EndVerify
  \/ VerifyFails \/ FinishAnswer \/ StartReview \/ RiskIsMissing \/ Review \/ Publish
  \/ Done

Spec == Init /\ [][Next]_vars /\ WF_vars(Next)

-----------------------------------------------------------------------------
Over == stage = "ended"
Last == learned[Len(learned)]

(* Quality "verified" means what it says, though it is derived later and from  *)
(* other records: the worker was no mock, every command of the task's policy   *)
(* ran and exited with 0, and the review approved.                             *)
VerifiedMeansChecked ==
  outcome # None /\ outcome.quality = "verified" =>
    /\ ~work.mock /\ review.approved
    /\ [i \in DOMAIN ran |-> [kind |-> ran[i].kind, command |-> ran[i].command]] = Wanted
    /\ \A i \in DOMAIN ran : ran[i].code = 0

(* A published patch has the files that verification judged, if git answered, *)
(* though commands ran and edited after the worker; verification found it      *)
(* acceptable, the review approved it, and from medium risk on Codex has       *)
(* answered: the local rules alone do not publish then.  An answer without a   *)
(* verdict leaves them the verdict all the same (reviewer.py).  A pull request *)
(* is left out: it pushes the worker's own commits, which neither step saw.    *)
PatchIsReviewed ==
  published # None /\ published.as = "patch" =>
    /\ Acceptable(verify) /\ review.approved
    /\ faults = 0 => published.files = verify.changed
    /\ task.risk \in {"medium", "high", "max"} => review.mode = "codex"

(* As long as git answers, a published patch touches no forbidden path, even   *)
(* when it was a test command that edited the file after the worker's own      *)
(* changes were audited.                                                       *)
ForbiddenIsNotPublished ==
  published # None /\ published.as = "patch" /\ faults = 0 =>
    \A p \in published.files : ~PathMatches(p, task.forbidden)

(* The three records that outlive the task agree.  Policy learning is told of *)
(* a success only where the outcome has an approved result, and of a failure  *)
(* where it has none.  The metrics row that routing learns from has no        *)
(* failure and an approving review for a success, and names the failure of    *)
(* everything that was stopped; a command that may not run unasked is named   *)
(* as what it is, whatever its exit code makes tests and build look like.     *)
RecordsAgree ==
  Over => /\ IF Last.success THEN outcome.bucket \in {"success", "degraded"} /\ outcome.approved
                             ELSE outcome.bucket # "success"
          /\ outcome.bucket = "success" => row.failure = None /\ row.review = TRUE
          /\ outcome.bucket \in {"failed", "approval"} => row.failure # None
          /\ (\E i \in DOMAIN ran : ran[i].check # "allow") =>
               row.failure = "dangerous_command" /\ status = "FAILED_FINAL"

(* Accepted work was delivered: approved, by a real worker, and either an     *)
(* answer to a task that changes nothing, or published after Codex answered   *)
(* for it; the approval of the local rules publishes low-risk work but is not      *)
(* taken for an acceptance.                                                    *)
AcceptedIsDelivered ==
  outcome # None /\ outcome.acceptance = "accepted" =>
    /\ outcome.approved /\ ~work.mock
    /\ \/ published # None /\ review.mode = "codex"
       \/ review.mode = "skipped_read_only" /\ work.changed = {}

(* Every execution leaves an outcome, unless it ended in an exception.         *)
EveryExecutionIsRecorded == <>(outcome # None \/ stage = "raised")
=============================================================================
