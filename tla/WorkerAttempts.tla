---------------------------- MODULE WorkerAttempts ----------------------------
(* The attempts of one task: TaskAttemptRunner walks a chain of workers, each *)
(* edits the worktree of the task and may fail in its own way, its edits are  *)
(* audited, its result is classified and recorded, and the chain is retried,  *)
(* rewritten on a quota failure, or ended.  Every record refreshes the ledger,*)
(* which the operator refreshes too.                                          *)
EXTENDS TokenLedger

CONSTANTS
  Routes,      \* the routes execution can start from
  Edits,       \* what the edits of one attempt touch, a set of subsets of
               \* {"allowed", "ask", "denied"}
  MaxAttempts  \* the longest chain, a failover included

VARIABLES
  needsDiff,  \* task_requires_diff
  dryRun,
  declared,   \* what the permissions say of the declared paths
  chain,      \* retry_chain, which a failover rewrites
  idx,        \* the attempt of the chain
  step,       \* where the attempt is
  next,       \* where it goes once the ledger is written
  tree,       \* tracked changes in the worktree, of all attempts
  result,     \* WorkerResult of the last attempt, or None
  failure,    \* how it is classified, or "none"
  used,       \* opencode_failover_used_sides
  ranDry,     \* sides whose quota an attempt has found exhausted
  outcome     \* how the run ends

input == <<needsDiff, dryRun, declared>>
vars == <<ledger, input, chain, idx, step, next, tree, result, failure, used,
          ranDry, outcome>>

Statuses == {"success", "failed", "cancelled", "blocked"}
Sides == {"wsl", "windows"}
Whys == {"plain", "quota", "auth", "missing", "turns"}   \* what the logs say
Permissions == {"allowed", "ask", "denied"}

ASSUME AttemptsAssumption == Edits \subseteq SUBSET Permissions /\ MaxAttempts \in Nat

Reasons == {"none", "forbidden_path", "cancelled", "opencode_quota_exhausted",
            "auth_failed", "command_missing", "max_turns", "max_turns_with_diff",
            "worker_no_diff", "worker_failed", "worker_exception"}
Steps == {"start", "running", "returned", "recorded", "snapshot", "decide",
          "retry", "review", "over"}
Outcomes == {"none", "accepted", "recovered", "failed", "blocked", "waiting",
             "cancelled"}

Claude(model) == [worker |-> "claude_code", model |-> model, side |-> "none"]
OpenCode(side) == [worker |-> "opencode", model |-> "glm", side |-> side]
AttemptKinds == {Claude(m) : m \in {"deepseek", "glm"}}
                  \cup {OpenCode(s) : s \in Sides}

\* build_retry_chain: the chain of the route, or one from its fallbacks.
RetryChain(route) ==
  IF route.chain # <<>> THEN route.chain
  ELSE LET planned == <<route.primary>> \o route.fallbacks
           hasOpenCode == \E i \in DOMAIN planned :
                             planned[i].worker = "opencode"
       IN  IF route.escalate /\ ~hasOpenCode
           THEN planned \o <<OpenCode("wsl"), OpenCode("wsl")>>
           ELSE planned

\* The router plans OpenCode on one side: GLM through WSL, or the one attempt
\* that a task is pinned to.
OneSide(attempts) ==
  \A i, j \in DOMAIN attempts :
    {attempts[i].side, attempts[j].side} \subseteq Sides
      => attempts[i].side = attempts[j].side

ASSUME RoutesAssumption ==
  \A r \in Routes : LET planned == RetryChain(r)
                    IN  planned \in Seq(AttemptKinds) /\ planned # <<>> /\ OneSide(planned)

Attempt == chain[idx]

Init ==
  /\ needsDiff \in BOOLEAN /\ dryRun \in BOOLEAN /\ declared \in Permissions
  /\ chain \in {RetryChain(r) : r \in Routes}
  /\ idx = 1 /\ step = "start" /\ next = "decide"
  /\ tree = {} /\ result = None /\ failure = "none"
  /\ used = {} /\ ranDry = {} /\ outcome = "none"
  /\ LedgerInit(MaxAttempts)

-----------------------------------------------------------------------------
(* WorkerAttemptExecutor.run.                                                *)

End(how) == step' = "over" /\ outcome' = how

\* check_declared_permissions, before the worker is started.
Preflight ==
  /\ step = "start"
  /\ \/ declared = "denied" /\ End("blocked")
     \/ declared = "ask" /\ End("waiting")
     \/ declared = "allowed" /\ step' = "running" /\ UNCHANGED outcome
  /\ result' = None /\ failure' = "none"
  /\ UNCHANGED <<ledger, input, chain, idx, next, tree, used, ranDry>>

\* Mutant: a worker reports the files this attempt changed.
DiffOwn(all, own) == own

\* git diff --name-only HEAD: the changes of earlier attempts are still there.
Diff(all, own) == all

Result(status, files, why, said) ==
  [status |-> status, files |-> files, why |-> why, said |-> said]

Mock == Result("success", {}, "plain", FALSE)

Return(r, touched) ==
  /\ step = "running"
  /\ result' = r
  /\ tree' = tree \cup touched
  /\ ranDry' = IF r.status = "failed" /\ r.why = "quota"
               THEN ranDry \cup ({Attempt.side} \cap Sides) ELSE ranDry
  /\ step' = "returned"
  /\ UNCHANGED <<ledger, input, chain, idx, next, failure, used, outcome>>

\* GLM models, denied providers and denied commands are refused.
ClaudeRefuses ==
  /\ Attempt.worker = "claude_code"
  /\ Return(Result("blocked", {}, "plain", FALSE), {})

\* A dry run, or no program to run.
ClaudeMocks ==
  /\ Attempt.worker = "claude_code" /\ Attempt.model # "glm"
  /\ Return(Mock, {})

\* A failed run keeps its diff; a cancelled or timed out one does not.
RunClaude ==
  /\ Attempt.worker = "claude_code" /\ Attempt.model # "glm" /\ ~dryRun
  /\ \E own \in Edits, said \in BOOLEAN :
       \/ Return(Result("cancelled", {}, "plain", FALSE), own)
       \/ Return(Result("success", Diff(tree \cup own, own), "plain", TRUE), own)
       \/ \E why \in Whys, files \in {{}, Diff(tree \cup own, own)} :
            Return(Result("failed", files, why, said), own)

OpenCodeMocks ==
  /\ Attempt.worker = "opencode"
  /\ Return(Mock, {})

\* Only a run that succeeds looks at the worktree; a denied command is refused.
RunOpenCode ==
  /\ Attempt.worker = "opencode" /\ ~dryRun
  /\ \/ Return(Result("blocked", {}, "plain", FALSE), {})
     \/ \E own \in Edits, said \in BOOLEAN :
          \/ Return(Result("cancelled", {}, "plain", FALSE), own)
          \/ Return(Result("success", Diff(tree \cup own, own), "plain", TRUE),
                    own)
          \/ \E why \in Whys : Return(Result("failed", {}, why, said), own)

\* The adapter raises: no result, no row.
RunRaises ==
  /\ step = "running"
  /\ \E own \in IF dryRun THEN {{}} ELSE Edits : tree' = tree \cup own
  /\ failure' = "worker_exception"
  /\ End("failed")
  /\ UNCHANGED <<ledger, input, chain, idx, next, result, used, ranDry>>

\* check_write_paths over a list of files: one that is denied denies them all.
Audit(files) ==
  IF "denied" \in files THEN "denied"
  ELSE IF "ask" \in files THEN "ask"
  ELSE "allowed"

\* check_diff_permissions stops the run before anything is recorded.
AuditStops ==
  /\ step = "returned"
  /\ \/ /\ Audit(result.files) = "denied" /\ End("blocked")
        /\ result' = [result EXCEPT !.status = "blocked"]
        /\ failure' = "forbidden_path"
     \/ /\ Audit(result.files) = "ask" /\ End("waiting")
        /\ UNCHANGED <<result, failure>>
  /\ UNCHANGED <<ledger, input, chain, idx, next, tree, used, ranDry>>

\* classify_worker_failure, in the order of its tests.
Classify(r) ==
  IF r.status = "blocked" THEN "forbidden_path"
  ELSE IF r.status = "cancelled" THEN "cancelled"
  ELSE IF r.why = "quota" THEN "opencode_quota_exhausted"
  ELSE IF r.why = "auth" THEN "auth_failed"
  ELSE IF r.why = "missing" THEN "command_missing"
  ELSE IF r.why = "turns" /\ r.files # {} THEN "max_turns_with_diff"
  ELSE IF r.why = "turns" THEN "max_turns"
  ELSE IF r.files = {} THEN "worker_no_diff"
  ELSE "worker_failed"

Retryable(reason) ==
  reason \notin {"forbidden_path", "cancelled", "auth_failed", "command_missing",
                 "worker_exception"}

\* Read-only work that failed for want of turns, or of a diff, counts when the
\* worker said something that reads like an answer.
Salvaged(r) ==
  /\ ~needsDiff /\ r.files = {} /\ r.said
  /\ Classify(r) \in {"max_turns", "worker_no_diff"}

\* _finalize_worker_result: result.json, the metrics row, then the ledger.
Finalize ==
  /\ step = "returned"
  /\ Audit(result.files) = "allowed"
  /\ LET ok == result.status = "success" \/ Salvaged(result)
         status == IF ok THEN "success" ELSE result.status
     IN /\ result' = [result EXCEPT !.status = status]
        /\ failure' = IF ok THEN "none" ELSE Classify(result)
        /\ UpsertMetrics(idx, status)
  /\ step' = "recorded" /\ next' = "decide"
  /\ UNCHANGED <<input, chain, idx, tree, used, ranDry, outcome>>

Refresh ==
  /\ step = "recorded" /\ TakeSnapshot("executor") /\ step' = "snapshot"
  /\ UNCHANGED <<input, chain, idx, next, tree, result, failure, used, ranDry,
                 outcome>>

Refreshed ==
  /\ step = "snapshot" /\ WriteLedger("executor") /\ step' = next
  /\ UNCHANGED <<input, chain, idx, next, tree, result, failure, used, ranDry,
                 outcome>>

-----------------------------------------------------------------------------
(* TaskAttemptRunner.run, after an attempt that completed.                   *)

QuotaFailure ==
  Attempt.worker = "opencode" /\ failure = "opencode_quota_exhausted"

Counterpart(attempt) ==
  OpenCode(IF attempt.side = "wsl" THEN "windows" ELSE "wsl")

UsedSides == IF QuotaFailure THEN used \cup {Attempt.side} ELSE used

CanFailOver == QuotaFailure /\ Counterpart(Attempt).side \notin UsedSides

Rest == SubSeq(chain, idx + 1, Len(chain))

GoOn(rest) ==
  /\ step = "decide" /\ CanFailOver
  /\ used' = UsedSides
  /\ chain' = SubSeq(chain, 1, idx) \o <<Counterpart(Attempt)>> \o rest
  /\ step' = "retry"
  /\ UNCHANGED <<ledger, input, idx, next, tree, result, failure, ranDry,
                 outcome>>

\* Mutant: the rest of the chain is kept as it is.
FailOverKeepingSide == GoOn(Rest)

OnSide(attempt, side) == attempt.worker = "opencode" /\ attempt.side = side

\* The list of the attempts that do not return to a side.
WithoutSide(attempts, side) ==
  LET kept[i \in 0..Len(attempts)] ==
        IF i = 0 THEN <<>>
        ELSE IF OnSide(attempts[i], side) THEN kept[i - 1]
        ELSE Append(kept[i - 1], attempts[i])
  IN  kept[Len(attempts)]

\* The other side continues in the same worktree; the rest of the chain loses
\* the side that ran dry.
FailOver == GoOn(WithoutSide(Rest, Attempt.side))

Retry ==
  /\ step = "retry"
  /\ idx' = idx + 1 /\ step' = "start"
  /\ UNCHANGED <<ledger, input, chain, next, tree, result, failure, used, ranDry,
                 outcome>>

Deciding == step = "decide" /\ ~CanFailOver /\ used' = UsedSides

NoDiff == result.status = "success" /\ ~dryRun /\ needsDiff /\ result.files = {}

\* A patch goes on to verification and review; so does a failed worker's.
DecideAccept ==
  /\ Deciding
  /\ \/ result.status = "success" /\ ~NoDiff /\ outcome' = "accepted"
     \/ result.status = "failed" /\ result.files # {} /\ outcome' = "recovered"
  /\ step' = IF result.files = {} THEN "over" ELSE "review"
  /\ UNCHANGED <<ledger, input, chain, idx, next, tree, result, failure, ranDry>>

AsNoDiff(then) ==
  /\ Deciding /\ NoDiff
  /\ result' = [result EXCEPT !.status = "failed"]
  /\ failure' = "worker_no_diff"
  /\ next' = then
  /\ outcome' = IF then = "over" THEN "failed" ELSE outcome
  /\ UNCHANGED <<input, chain, idx, tree, ranDry>>

\* Mutant: the row keeps the status it was first written with.
DecideNoDiffRowKept ==
  /\ AsNoDiff(IF idx < Len(chain) THEN "retry" ELSE "over")
  /\ step' = next' /\ UNCHANGED ledger

\* A success without a diff is a failure after all: its row is written again.
DecideNoDiff ==
  /\ AsNoDiff(IF idx < Len(chain) THEN "retry" ELSE "over")
  /\ UpsertMetrics(idx, "failed") /\ step' = "recorded"

DecideStop ==
  /\ Deciding
  /\ \/ result.status \in {"blocked", "cancelled"} /\ End(result.status)
     \/ /\ result.status = "failed" /\ result.files = {}
        /\ ~Retryable(failure) /\ End("failed")
  /\ UNCHANGED <<ledger, input, chain, idx, next, tree, result, failure, ranDry>>

\* Mutant: a cancelled attempt is retried like any that failed.
DecideRetryCancelled ==
  /\ Deciding
  /\ result.status \in {"failed", "cancelled"} /\ result.files = {}
  /\ IF idx < Len(chain) THEN step' = "retry" /\ UNCHANGED outcome ELSE End("failed")
  /\ UNCHANGED <<ledger, input, chain, idx, next, tree, result, failure, ranDry>>

\* Mutant: the last attempt is tried until it succeeds.
DecideRetryForever ==
  /\ Deciding
  /\ result.status = "failed" /\ result.files = {} /\ Retryable(failure)
  /\ step' = IF idx < Len(chain) THEN "retry" ELSE "start"
  /\ UNCHANGED <<ledger, input, chain, idx, next, tree, result, failure, ranDry,
                 outcome>>

DecideRetry ==
  /\ Deciding
  /\ result.status = "failed" /\ result.files = {} /\ Retryable(failure)
  /\ \/ idx < Len(chain) /\ step' = "retry" /\ UNCHANGED outcome
     \/ idx = Len(chain) /\ End("failed")
  /\ UNCHANGED <<ledger, input, chain, idx, next, tree, result, failure, ranDry>>

\* Verification passes and the review is accounted for.
Review ==
  /\ step = "review"
  /\ \E actual \in BOOLEAN : RecordCodexUsage("world_review", actual)
  /\ step' = "recorded" /\ next' = "over"
  /\ UNCHANGED <<input, chain, idx, tree, result, failure, used, ranDry, outcome>>

-----------------------------------------------------------------------------
\* Another process: record_task_baseline, and its refresh.
Operator ==
  /\ \/ RecordBaseline
     \/ TakeSnapshot("operator") /\ snapshot["operator"] = None
        /\ baselines # file.baselines
     \/ WriteLedger("operator")
  /\ UNCHANGED <<input, chain, idx, step, next, tree, result, failure, used,
                 ranDry, outcome>>

Executor ==
  \/ Preflight \/ ClaudeRefuses \/ ClaudeMocks \/ RunClaude
  \/ OpenCodeMocks \/ RunOpenCode \/ RunRaises \/ AuditStops
  \/ Finalize \/ Refresh \/ Refreshed \/ FailOver \/ Retry
  \/ DecideAccept \/ DecideNoDiff \/ DecideStop \/ DecideRetry \/ Review

Done == step = "over" /\ UNCHANGED vars

Next == Executor \/ Operator \/ Done

\* The executor's thread runs on; managed processes end (ManagedProcess).
Spec == Init /\ [][Next]_vars /\ WF_vars(Executor)

-----------------------------------------------------------------------------
(* The loop over a chain that is rewritten while it runs comes to an end.    *)
RunEnds == <>(step = "over")

(* "Do not return to the side whose quota was exhausted later in this chain":*)
(* no attempt is made on a side that an earlier one found out of quota.      *)
SidesNotRevisited ==
  step = "running" => Attempt.side \notin ranDry

(* The patch that goes on to verification is the whole tracked change of the *)
(* worktree, edits left by failed attempts included, and all of it has been  *)
(* audited.                                                                  *)
AuditCoversResult ==
  outcome \in {"accepted", "recovered"} /\ result.files # {}
    => result.files = tree /\ tree = {"allowed"}

(* The metrics that routing learns from call an attempt a success only when  *)
(* the run ended with its result: one per task, and not the attempt whose    *)
(* empty diff was found later.                                               *)
RowsTellTheOutcome ==
  \A n \in Attempts(metrics) :
    metrics[n] = "success" =>
      n = idx /\ (step = "over" => outcome = "accepted")

(* A worker that was cancelled, or that must not go on, has no successor.    *)
StopsAreFinal ==
  [][result # None /\ result.status \in {"cancelled", "blocked"}
       => idx' = idx]_vars

(* The sections of token_ledger.json are of one moment, whoever wrote it: a   *)
(* ledger that counts the review counts every attempt that led to it, and one *)
(* that lists actual Codex usage claims a measured saving, whatever estimate  *)
(* was recorded later, and never without it.                                  *)
LedgerIsConsistent ==
  /\ "world_review" \in file.codex.phases => file.attempts = Attempts(metrics)
  /\ (file.claim = "measured") = IsActual(file.baselines)
=============================================================================
