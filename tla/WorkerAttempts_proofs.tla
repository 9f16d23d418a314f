------------------------- MODULE WorkerAttempts_proofs -------------------------
(* What the attempts of a task leave behind, for any route, any edits and any *)
(* number of attempts and baselines.                                         *)
EXTENDS WorkerAttempts, WellFoundedInduction, TLAPS

\* Where an attempt has a result, and where it has passed the audit.
HasResult == step \in {"returned", "recorded", "snapshot", "decide", "retry", "review"}
Audited == step \in {"recorded", "snapshot", "decide", "retry", "review"}
\* The ledger is written, and the run goes on to p.
GoesTo(p) == step = p \/ (step \in {"recorded", "snapshot"} /\ next = p)

Results == [status : Statuses, files : SUBSET Permissions, why : Whys, said : BOOLEAN]

Succeeded(n) == n \in Attempts(metrics) /\ metrics[n] = "success"

Types ==
  /\ step \in Steps /\ next \in {"decide", "retry", "over"} /\ outcome \in Outcomes
  /\ idx \in Nat /\ tree \subseteq Permissions
  /\ metrics \in [1..MaxAttempts -> Statuses \cup {None}]
  /\ HasResult => result \in Results

(* The outcome is decided after the last attempt.                             *)
DecidedLast == outcome # "none" => GoesTo("over") \/ step = "review"

(* A result with files is that of the whole worktree, and was audited.       *)
ResultIsTree ==
  /\ HasResult /\ result.files # {} => result.files = tree
  /\ Audited => Audit(result.files) = "allowed"

(* A run that goes on does so after a failure.                               *)
FailureGoesOn ==
  /\ GoesTo("decide") /\ failure = "opencode_quota_exhausted" => result.status = "failed"
  /\ GoesTo("retry") => result.status = "failed"

(* The only row of a success is that of the result in hand.                   *)
RowOfResult ==
  /\ \A n \in 1..MaxAttempts : Succeeded(n) => n = idx
  /\ step \in {"start", "running", "returned"} \/ GoesTo("retry") => ~Succeeded(idx)
  /\ GoesTo("decide") /\ Succeeded(idx) => result.status = "success"
  /\ (step = "review" \/ GoesTo("over")) /\ Succeeded(idx) => outcome = "accepted"

IInv ==
  /\ Types /\ DecidedLast /\ ResultIsTree /\ FailureGoesOn /\ RowOfResult
  /\ AuditCoversResult

-----------------------------------------------------------------------------
LEMMA InitIInv == Init => IInv
<1> SUFFICES ASSUME Init PROVE IInv
  OBVIOUS
<1>1. metrics = [n \in 1..MaxAttempts |-> None]
  BY DEF Init, LedgerInit
<1>2. Types
  BY <1>1 DEF Init, Types, Steps, Outcomes, HasResult
<1>3. \A n \in 1..MaxAttempts : ~Succeeded(n)
  BY <1>1 DEF Succeeded, Attempts
<1>4. RowOfResult
  BY <1>1, <1>3 DEF Init, RowOfResult, GoesTo, Succeeded, Attempts
<1> QED
  BY <1>2, <1>4 DEF Init, IInv, DecidedLast, ResultIsTree, FailureGoesOn, AuditCoversResult,
     HasResult, Audited, GoesTo

(* What an operator does, and what leaves the rows alone.                    *)
LEMMA SameRows ==
  ASSUME UNCHANGED metrics
  PROVE  \A n : Succeeded(n)' = Succeeded(n)
BY DEF Succeeded, Attempts

LEMMA NewRow ==
  ASSUME Types, NEW status \in Statuses, UNCHANGED idx, metrics' = [metrics EXCEPT ![idx] = status]
  PROVE  /\ metrics' \in [1..MaxAttempts -> Statuses \cup {None}]
         /\ \A n : n # idx => (Succeeded(n)' <=> Succeeded(n))
         /\ Succeeded(idx)' => status = "success"
<1>1. metrics' \in [1..MaxAttempts -> Statuses \cup {None}]
  BY DEF Types
<1>2. DOMAIN metrics' = DOMAIN metrics
  BY DEF Types
<1>3. \A n \in DOMAIN metrics : metrics'[n] = IF n = idx THEN status ELSE metrics[n]
  BY DEF Types
<1>4. \A n : Succeeded(n) <=> n \in DOMAIN metrics /\ metrics[n] # None /\ metrics[n] = "success"
  BY DEF Succeeded, Attempts
<1>5. \A n : Succeeded(n)' <=> n \in DOMAIN metrics' /\ metrics'[n] # None /\ metrics'[n] = "success"
  BY DEF Succeeded, Attempts
<1>6. ASSUME NEW n, n # idx PROVE Succeeded(n)' <=> Succeeded(n)
  <2>1. n \in DOMAIN metrics => metrics'[n] = metrics[n]
    BY <1>3, <1>6
  <2> QED
    BY <1>2, <1>4, <1>5, <2>1
<1>7. Succeeded(idx)' => status = "success"
  BY <1>2, <1>3, <1>5
<1> QED
  BY <1>1, <1>6, <1>7

(* A step that changes neither the attempt nor its rows.                     *)
LEMMA Quiet ==
  ASSUME IInv, UNCHANGED <<idx, step, next, tree, result, failure, outcome, metrics>>
  PROVE  IInv'
BY SameRows DEF IInv, Types, DecidedLast, ResultIsTree, FailureGoesOn, RowOfResult,
   AuditCoversResult, HasResult, Audited, GoesTo

LEMMA AuditAllowed ==
  ASSUME NEW files \in SUBSET Permissions, Audit(files) = "allowed", files # {}
  PROVE  files = {"allowed"}
BY DEF Audit, Permissions

LEMMA StepIInv == IInv /\ [Next]_vars => IInv'
<1> SUFFICES ASSUME IInv, [Next]_vars PROVE IInv'
  OBVIOUS
<1> USE DEF IInv, Types, DecidedLast, ResultIsTree, FailureGoesOn, RowOfResult,
        AuditCoversResult, HasResult, Audited, GoesTo, ledger, input
<1>1. CASE Preflight
  BY <1>1, SameRows DEF Preflight, End, Steps, Outcomes
<1>2. ASSUME step = "running", step' = "returned", result' \in Results,
             tree' \subseteq Permissions, result'.files # {} => result'.files = tree',
             UNCHANGED <<metrics, idx, next, failure, outcome>>
      PROVE  IInv'
  BY <1>2, SameRows DEF Steps
<1>3. ASSUME ClaudeRefuses \/ ClaudeMocks \/ RunClaude \/ OpenCodeMocks \/ RunOpenCode
      PROVE  IInv'
  <2>1. ASSUME NEW r, NEW own \in SUBSET Permissions, Return(r, own), r \in Results,
               r.files # {} => r.files = tree \cup own
        PROVE  IInv'
    BY <1>2, <2>1 DEF Return
  <2>2. ASSUME NEW status \in Statuses, NEW why \in Whys, NEW said \in BOOLEAN,
               NEW own \in SUBSET Permissions, NEW files \in {{}, tree \cup own},
               Return(Result(status, files, why, said), own)
        PROVE  IInv'
    <3>1. files \in SUBSET Permissions
      BY <2>2
    <3>2. Result(status, files, why, said) \in Results
      BY <2>2, <3>1 DEF Result, Results
    <3>3. Result(status, files, why, said).files = files
      BY DEF Result
    <3> QED
      BY <2>1, <2>2, <3>2, <3>3
  <2> HIDE DEF IInv, Types, DecidedLast, ResultIsTree, FailureGoesOn, RowOfResult,
           AuditCoversResult
  <2> USE DEF Statuses, Whys, Diff, Mock
  <2>3. CASE ClaudeRefuses
    BY <2>2, <2>3 DEF ClaudeRefuses
  <2>4. CASE ClaudeMocks \/ OpenCodeMocks
    BY <2>2, <2>4 DEF ClaudeMocks, OpenCodeMocks
  <2>5. CASE RunClaude
    BY <2>2, <2>5, AttemptsAssumption DEF RunClaude
  <2>6. CASE RunOpenCode
    BY <2>2, <2>6, AttemptsAssumption DEF RunOpenCode
  <2> QED
    BY <1>3, <2>3, <2>4, <2>5, <2>6
<1>4. CASE RunRaises
  BY <1>4, SameRows, AttemptsAssumption DEF RunRaises, End, Steps, Outcomes
<1>5. CASE AuditStops
  BY <1>5, SameRows DEF AuditStops, End, Steps, Outcomes
<1>6. CASE Finalize
  <2> DEFINE ok == result.status = "success" \/ Salvaged(result)
             said == IF ok THEN "success" ELSE result.status
  <2>1. said \in Statuses
    BY <1>6 DEF Finalize, Results, Statuses
  <2>2. /\ step = "returned" /\ step' = "recorded" /\ next' = "decide"
        /\ Audit(result.files) = "allowed"
        /\ result' = [result EXCEPT !.status = said]
        /\ failure' = IF ok THEN "none" ELSE Classify(result)
        /\ metrics' = [metrics EXCEPT ![idx] = said]
        /\ UNCHANGED <<idx, tree, outcome>>
    BY <1>6 DEF Finalize, UpsertMetrics
  <2>3. result' \in Results /\ result'.files = result.files /\ result'.status = said
    BY <2>1, <2>2 DEF Results
  <2>4. Types' /\ DecidedLast'
    BY <2>1, <2>2, <2>3, NewRow DEF Steps
  <2>5. ResultIsTree' /\ AuditCoversResult'
    BY <2>2, <2>3
  <2>6. FailureGoesOn'
    <3>1. failure' = "opencode_quota_exhausted" => ~ok /\ result.status \notin {"blocked", "cancelled"}
      BY <2>2 DEF Classify
    <3> QED
      BY <2>1, <2>2, <2>3, <3>1 DEF Statuses
  <2>7. RowOfResult'
    BY <2>1, <2>2, <2>3, NewRow
  <2> QED
    BY <2>4, <2>5, <2>6, <2>7
<1>7. CASE Refresh
  BY <1>7, SameRows DEF Refresh, TakeSnapshot, Steps
<1>8. CASE Refreshed
  BY <1>8, SameRows DEF Refreshed, WriteLedger, Steps
<1>9. CASE FailOver
  <2>1. /\ step = "decide" /\ failure = "opencode_quota_exhausted" /\ step' = "retry"
        /\ UNCHANGED <<metrics, idx, next, tree, result, failure, outcome>>
    BY <1>9 DEF FailOver, GoOn, CanFailOver, QuotaFailure
  <2> QED
    BY <2>1, SameRows DEF Steps
<1>10. CASE Retry
  <2>1. /\ step = "retry" /\ step' = "start" /\ idx' = idx + 1
        /\ UNCHANGED <<metrics, next, tree, result, failure, outcome>>
    BY <1>10 DEF Retry
  <2>2. \A n : ~Succeeded(n)
    <3>1. \A n : Succeeded(n) => n \in 1..MaxAttempts
      BY DEF Succeeded, Attempts
    <3> QED
      BY <2>1, <3>1
  <2>3. \A n : ~Succeeded(n)'
    BY <2>1, <2>2, SameRows
  <2>4. ~Succeeded(idx)'
    BY <2>1, <2>3 DEF Succeeded, Attempts
  <2> QED
    BY <2>1, <2>3, <2>4 DEF Steps
<1>11. CASE DecideAccept
  <2>1. /\ step = "decide" /\ UNCHANGED <<metrics, idx, next, tree, result, failure>>
        /\ \/ result.status = "success" /\ outcome' = "accepted"
           \/ result.status = "failed" /\ outcome' = "recovered"
        /\ step' = IF result.files = {} THEN "over" ELSE "review"
    BY <1>11 DEF DecideAccept, Deciding
  <2>2. result.files # {} => result.files = {"allowed"}
    BY <2>1, AuditAllowed DEF Results
  <2>3. Types' /\ DecidedLast' /\ ResultIsTree' /\ FailureGoesOn' /\ AuditCoversResult'
    BY <2>1, <2>2 DEF Steps, Outcomes
  <2>4. RowOfResult'
    BY <2>1, SameRows
  <2> QED
    BY <2>3, <2>4
<1>12. CASE DecideNoDiff
  <2>1. /\ step = "decide" /\ step' = "recorded" /\ result.files = {}
        /\ result' = [result EXCEPT !.status = "failed"] /\ failure' = "worker_no_diff"
        /\ next' \in {"retry", "over"}
        /\ outcome' = IF next' = "over" THEN "failed" ELSE outcome
        /\ metrics' = [metrics EXCEPT ![idx] = "failed"]
        /\ UNCHANGED <<idx, tree>>
    BY <1>12 DEF DecideNoDiff, AsNoDiff, Deciding, NoDiff, UpsertMetrics
  <2>2. result' \in Results /\ result'.files = {} /\ result'.status = "failed"
    BY <2>1 DEF Results, Statuses
  <2>3. "failed" \in Statuses /\ Audit({}) = "allowed"
    BY DEF Statuses, Audit
  <2>4. Types'
    BY <2>1, <2>2, <2>3, NewRow DEF Steps, Outcomes
  <2>5. DecidedLast' /\ ResultIsTree' /\ FailureGoesOn' /\ AuditCoversResult'
    BY <2>1, <2>2, <2>3
  <2>6. RowOfResult'
    BY <2>1, <2>2, <2>3, NewRow
  <2> QED
    BY <2>4, <2>5, <2>6
<1>13. CASE DecideStop
  BY <1>13, SameRows DEF DecideStop, Deciding, End, Steps, Outcomes
<1>14. CASE DecideRetry
  BY <1>14, SameRows DEF DecideRetry, Deciding, End, Steps, Outcomes
<1>15. CASE Review
  BY <1>15, SameRows DEF Review, RecordCodexUsage, Steps
<1>16. CASE Operator
  BY <1>16, Quiet DEF Operator, RecordBaseline, TakeSnapshot, WriteLedger
<1>17. CASE Done \/ UNCHANGED vars
  BY <1>17, Quiet DEF Done, vars
<1> QED
  BY <1>1, <1>3, <1>4, <1>5, <1>6, <1>7, <1>8, <1>9, <1>10, <1>11, <1>12, <1>13, <1>14, <1>15,
     <1>16, <1>17 DEF Next, Executor

LEMMA Invariance == Spec => []IInv
BY InitIInv, StepIInv, PTL DEF Spec

(* The patch that goes on to verification is the whole change of the          *)
(* worktree, whatever failed attempts left in it, and all of it was audited   *)
(* (worker_attempt_executor.py, task_attempt_runner.py).                      *)
THEOREM PatchesAreAudited == Spec => []AuditCoversResult
BY Invariance, PTL DEF IInv

(* No row of the metrics calls an attempt a success but that of the result    *)
(* the run ended with (attempt_recording.py, task_attempt_runner.py).         *)
THEOREM RowsAreTrue == Spec => []RowsTellTheOutcome
<1>1. IInv => RowsTellTheOutcome
  BY DEF IInv, Types, RowOfResult, RowsTellTheOutcome, Succeeded, Attempts, GoesTo
<1> QED
  BY <1>1, Invariance, PTL

(* Nothing comes after a worker that was cancelled or blocked                 *)
(* (task_attempt_runner.py).                                                  *)
THEOREM StopsEndTheRun == Spec => StopsAreFinal
<1> DEFINE Act == result # None /\ result.status \in {"cancelled", "blocked"} => idx' = idx
<1>1. IInv /\ [Next]_vars => [Act]_vars
  <2> SUFFICES ASSUME IInv, Next, result.status \in {"cancelled", "blocked"} PROVE idx' = idx
    BY DEF vars
  <2>1. ~Retry
    BY DEF Retry, IInv, FailureGoesOn, GoesTo
  <2> QED
    BY <2>1 DEF Next, Executor, Operator, Done, Preflight, ClaudeRefuses, ClaudeMocks,
       RunClaude, OpenCodeMocks, RunOpenCode, Return, RunRaises, AuditStops, Finalize, Refresh,
       Refreshed, FailOver, GoOn, DecideAccept, DecideNoDiff, AsNoDiff, DecideStop,
       DecideRetry, Review, vars
<1> QED
  BY <1>1, Invariance, PTL DEF Spec, StopsAreFinal

-----------------------------------------------------------------------------
(* Natural numbers are well ordered: facts about sequences of any length, for *)
(* which induction is needed, are proved with the least counterexample.       *)

Below == {p \in Nat \X Nat : p[1] < p[2]}

LEMMA BelowWellFounded == IsWellFoundedOn(Below, Nat)
<1>1. Below = OpToRel(<, Nat)
  BY Zenon DEF OpToRel, Below
<1> QED
  BY <1>1, NatLessThanWellFounded, Zenon

LEMMA LeastNatural ==
  ASSUME NEW T \in SUBSET Nat, T # {}
  PROVE  \E x \in T : \A y \in T : x <= y
<1>1. PICK x \in T : \A y \in T : ~ (<<y, x>> \in Below)
  BY BelowWellFounded, WFMin
<1>2. ASSUME NEW y \in T PROVE x <= y
  <2>1. x \in Nat /\ y \in Nat /\ <<y, x>> \in Nat \X Nat
    OBVIOUS
  <2>2. ~(y < x)
    BY <1>1, <2>1 DEF Below
  <2> QED
    BY <2>1, <2>2
<1> QED
  BY <1>2

LEMMA LargestIndex ==
  ASSUME NEW n \in Nat, NEW T \in SUBSET (1..n), T # {}
  PROVE  \E x \in T : \A y \in T : y <= x
<1> DEFINE U == {n - i : i \in T}
<1>1. \A i \in T : i \in 1..n /\ n - i \in Nat
  OBVIOUS
<1>2. U \in SUBSET Nat
  BY <1>1
<1>3. \A i \in T : n - i \in U
  OBVIOUS
<1>4. U # {}
  BY <1>3
<1>5. \A u \in U : \E x \in T : u = n - x
  OBVIOUS
<1> HIDE DEF U
<1>6. PICK u \in U : \A v \in U : u <= v
  BY <1>2, <1>4, LeastNatural
<1>7. PICK x \in T : u = n - x
  BY <1>5, <1>6
<1>8. \A y \in T : y <= x
  BY <1>1, <1>3, <1>6, <1>7
<1> QED
  BY <1>8

-----------------------------------------------------------------------------
(* The ledger.                                                               *)

Baselines == [actual : BOOLEAN]

(* The claim of a ledger is that of the baselines it lists.                   *)
ClaimIsTrue(l) == (l.claim = "measured") = IsActual(l.baselines)

(* Once the review is accounted for, no row of an attempt changes any more.   *)
ReviewedLast == (\E e \in codex : e[1] = "world_review") => GoesTo("over")

CountsAll(l) ==
  "world_review" \in l.codex.phases => GoesTo("over") /\ l.attempts = Attempts(metrics)

Sound(l) == ClaimIsTrue(l) /\ CountsAll(l)

LInv ==
  /\ baselines \in Seq(Baselines) /\ DOMAIN snapshot = Writers
  /\ ReviewedLast
  /\ \A w \in Writers : snapshot[w] # None => Sound(snapshot[w])
  /\ Sound(file)

LEMMA ClaimOfBaselines ==
  ASSUME NEW bs \in Seq(Baselines)
  PROVE  (Claim(bs) = "measured") = IsActual(bs)
<1>1. Len(bs) \in Nat /\ DOMAIN bs = 1..Len(bs)
  OBVIOUS
<1>2. \A i \in DOMAIN bs : bs[i].actual \in BOOLEAN
  <2> SUFFICES ASSUME NEW i \in DOMAIN bs PROVE bs[i].actual \in BOOLEAN
    OBVIOUS
  <2>1. bs[i] \in Baselines
    OBVIOUS
  <2> QED
    BY <2>1 DEF Baselines
<1>3. IsActual(bs) \in BOOLEAN
  BY DEF IsActual
<1>4. CASE bs = <<>>
  <2>1. ~IsActual(bs)
    BY <1>4 DEF IsActual
  <2>2. Claim(bs) # "measured"
    BY <1>4 DEF Claim
  <2> QED
    BY <1>3, <2>1, <2>2
<1>5. CASE bs # <<>>
  <2> DEFINE preferred == {i \in DOMAIN bs : bs[i].actual = IsActual(bs)}
             best == CHOOSE i \in preferred : \A j \in preferred : j <= i
  <2>1. 1 \in DOMAIN bs
    BY <1>1, <1>5
  <2>2. preferred # {}
    BY <1>2, <2>1 DEF IsActual
  <2>3. preferred \in SUBSET (1..Len(bs))
    BY <1>1
  <2>4. preferred = {i \in DOMAIN bs : bs[i].actual = IsActual(bs)}
    OBVIOUS
  <2> HIDE DEF preferred
  <2>5. \E i \in preferred : \A j \in preferred : j <= i
    BY <1>1, <2>2, <2>3, LargestIndex
  <2>6. best \in preferred
    BY <2>5
  <2>7. bs[best].actual = IsActual(bs)
    BY <2>4, <2>6
  <2>8. Baseline(bs) = bs[best]
    BY <2>4 DEF Baseline
  <2> QED
    BY <1>3, <1>5, <2>7, <2>8 DEF Claim
<1> QED
  BY <1>4, <1>5

LEMMA BuildIsSound ==
  ASSUME baselines \in Seq(Baselines), ReviewedLast
  PROVE  Sound(Build(metrics, codex, baselines))
<1> DEFINE l == Build(metrics, codex, baselines)
<1>1. l.claim = Claim(baselines) /\ l.baselines = baselines
      /\ l.attempts = Attempts(metrics) /\ l.codex.phases = {e[1] : e \in codex}
  BY DEF Build, CodexSection
<1>2. ClaimIsTrue(l)
  BY <1>1, ClaimOfBaselines DEF ClaimIsTrue
<1>3. CountsAll(l)
  BY <1>1 DEF CountsAll, ReviewedLast
<1> QED
  BY <1>2, <1>3 DEF Sound

LEMMA InitLInv == Init => LInv
<1> SUFFICES ASSUME Init PROVE LInv
  OBVIOUS
<1>1. /\ codex = {<<"planning_dispatch", FALSE>>} /\ baselines = <<>>
      /\ snapshot = [w \in Writers |-> None] /\ file = Build(metrics, codex, baselines)
  BY DEF Init, LedgerInit
<1>2. baselines \in Seq(Baselines) /\ ReviewedLast
  BY <1>1 DEF ReviewedLast
<1> QED
  BY <1>1, <1>2, BuildIsSound DEF LInv

(* A step after which the same rows are final, and that only moves snapshots  *)
(* around.                                                                    *)
LEMMA SoundStays ==
  ASSUME NEW l, Sound(l), UNCHANGED metrics, GoesTo("over") => GoesTo("over")'
  PROVE  Sound(l)'
BY DEF Sound, ClaimIsTrue, CountsAll, IsActual, Attempts

(* A step before the review: no ledger counts it yet.                        *)
LEMMA SoundBefore ==
  ASSUME NEW l, Sound(l), ~GoesTo("over")
  PROVE  Sound(l)'
BY DEF Sound, ClaimIsTrue, CountsAll, IsActual

LEMMA StepLInv == IInv /\ LInv /\ [Next]_vars => LInv'
<1> SUFFICES ASSUME IInv, LInv, [Next]_vars PROVE LInv'
  OBVIOUS
<1>1. ASSUME UNCHANGED ledger, GoesTo("over") => GoesTo("over")' PROVE LInv'
  BY <1>1, SoundStays DEF ledger, LInv, ReviewedLast
<1>2. ASSUME UNCHANGED <<codex, baselines, snapshot, file>>, ~GoesTo("over") PROVE LInv'
  BY <1>2, SoundBefore DEF LInv, ReviewedLast
<1>3. ASSUME UNCHANGED metrics, UNCHANGED <<codex, baselines>>,
             GoesTo("over") => GoesTo("over")', NEW w \in Writers,
             TakeSnapshot(w) \/ WriteLedger(w)
      PROVE  LInv'
  <2>1. \A l : Sound(l) => Sound(l)'
    BY <1>3, SoundStays
  <2>2. Sound(Build(metrics, codex, baselines))
    BY BuildIsSound DEF LInv
  <2>3. CASE TakeSnapshot(w)
    BY <1>3, <2>1, <2>2, <2>3 DEF TakeSnapshot, LInv, ReviewedLast
  <2>4. CASE WriteLedger(w)
    BY <1>3, <2>1, <2>4 DEF WriteLedger, LInv, ReviewedLast
  <2> QED
    BY <1>3, <2>3, <2>4
<1>4. CASE Preflight \/ RunRaises \/ AuditStops \/ FailOver \/ Retry \/ DecideAccept
           \/ DecideStop \/ DecideRetry
  BY <1>1, <1>4 DEF Preflight, RunRaises, AuditStops, FailOver, GoOn, Retry, DecideAccept,
     DecideStop, DecideRetry, Deciding, GoesTo
<1>5. CASE ClaudeRefuses \/ ClaudeMocks \/ RunClaude \/ OpenCodeMocks \/ RunOpenCode
  <2>1. \E r, own : Return(r, own)
    BY <1>5 DEF ClaudeRefuses, ClaudeMocks, RunClaude, OpenCodeMocks, RunOpenCode
  <2> QED
    BY <1>1, <2>1 DEF Return, GoesTo
<1>6. CASE Finalize \/ DecideNoDiff
  BY <1>2, <1>6 DEF Finalize, DecideNoDiff, AsNoDiff, Deciding, UpsertMetrics, GoesTo
<1>7. CASE Refresh \/ Refreshed
  <2>1. "executor" \in Writers
    BY DEF Writers
  <2> QED
    BY <1>3, <1>7, <2>1 DEF Refresh, Refreshed, TakeSnapshot, WriteLedger, GoesTo
<1>8. CASE Review
  <2>1. /\ UNCHANGED <<metrics, baselines, snapshot, file>> /\ step = "review"
        /\ GoesTo("over")'
    BY <1>8 DEF Review, RecordCodexUsage, GoesTo
  <2> QED
    BY <2>1, SoundStays DEF LInv, ReviewedLast
<1>9. CASE Operator
  <2>1. GoesTo("over") => GoesTo("over")'
    BY <1>9 DEF Operator, GoesTo
  <2>2. CASE RecordBaseline
    <3>1. /\ UNCHANGED <<metrics, codex, snapshot, file>>
          /\ \E b \in Baselines : baselines' = Append(baselines, b)
      BY <2>2 DEF RecordBaseline, ManualBaseline, ReplayBaseline, Baselines
    <3>2. baselines' \in Seq(Baselines)
      BY <3>1 DEF LInv
    <3> QED
      BY <2>1, <3>1, <3>2, SoundStays DEF LInv, ReviewedLast
  <2>3. CASE TakeSnapshot("operator") \/ WriteLedger("operator")
    <3>1. "operator" \in Writers
      BY DEF Writers
    <3> QED
      BY <1>3, <2>1, <2>3, <3>1 DEF TakeSnapshot, WriteLedger
  <2> QED
    BY <1>9, <2>2, <2>3 DEF Operator
<1>10. CASE Done \/ UNCHANGED vars
  BY <1>1, <1>10 DEF Done, vars, GoesTo
<1> QED
  BY <1>4, <1>5, <1>6, <1>7, <1>8, <1>9, <1>10 DEF Next, Executor

(* The sections of token_ledger.json are of one moment, for any routes, edits *)
(* and numbers of attempts and baselines, though the executor and the operator *)
(* rebuild it concurrently (token_ledger.py).                                 *)
THEOREM LedgerIsOfOneMoment == Spec => []LedgerIsConsistent
<1>1. Init => LInv
  BY InitLInv
<1>2. LInv => LedgerIsConsistent
  BY DEF LInv, Sound, ClaimIsTrue, CountsAll, LedgerIsConsistent
<1> QED
  BY <1>1, <1>2, StepLInv, Invariance, PTL DEF Spec

-----------------------------------------------------------------------------
(* The rest of the chain after a failover.                                   *)

(* The list comprehension keeps attempts of the list, none on the side.      *)
LEMMA WithoutSideKeeps ==
  ASSUME NEW S, NEW attempts \in Seq(S), NEW side
  PROVE  WithoutSide(attempts, side) \in Seq({a \in S : ~OnSide(a, side)})
<1> DEFINE n == Len(attempts)
           Kept == {a \in S : ~OnSide(a, side)}
           Grown(list, i) == IF OnSide(attempts[i], side) THEN list
                             ELSE Append(list, attempts[i])
           Solves(f, k) == f = [i \in 0..k |-> IF i = 0 THEN <<>> ELSE Grown(f[i - 1], i)]
<1>1. n \in Nat
  OBVIOUS
<1>2. \A i \in 1..n : attempts[i] \in S
  OBVIOUS
<1>3. \A list \in Seq(Kept), i \in 1..n : Grown(list, i) \in Seq(Kept)
  <2> SUFFICES ASSUME NEW list \in Seq(Kept), NEW i \in 1..n PROVE Grown(list, i) \in Seq(Kept)
    OBVIOUS
  <2>1. CASE OnSide(attempts[i], side)
    BY <2>1
  <2>2. CASE ~OnSide(attempts[i], side)
    <3>1. attempts[i] \in Kept
      BY <1>2, <2>2
    <3> HIDE DEF Kept
    <3> QED
      BY <2>2, <3>1
  <2> QED
    BY <2>1, <2>2
<1>4. <<>> \in Seq(Kept)
  OBVIOUS
<1> HIDE DEF Kept, Grown, n
<1>5. \A k \in 0..n : \E f : Solves(f, k)
  <2> DEFINE T == {k \in 0..n : \A f : ~Solves(f, k)}
  <2> SUFFICES ASSUME T # {} PROVE FALSE
    OBVIOUS
  <2>1. T \in SUBSET Nat
    BY <1>1
  <2>2. PICK k \in T : \A j \in T : k <= j
    <3> HIDE DEF T
    <3> QED
      BY <2>1, LeastNatural
  <2>3. k \in 0..n /\ (\A f : ~Solves(f, k))
    OBVIOUS
  <2>4. k # 0
    <3>1. SUFFICES ASSUME k = 0 PROVE FALSE
      OBVIOUS
    <3> DEFINE f == [i \in 0..0 |-> <<>>]
    <3>2. Solves(f, 0)
      OBVIOUS
    <3> QED
      BY <2>3, <3>1, <3>2
  <2>5. k - 1 \in 0..n /\ k - 1 \notin T
    <3> HIDE DEF T, Solves
    <3>1. k - 1 \in 0..n /\ ~(k <= k - 1)
      BY <1>1, <2>3, <2>4
    <3> QED
      BY <2>2, <3>1
  <2>6. PICK f : Solves(f, k - 1)
    BY <2>5
  <2> DEFINE g == [i \in 0..k |-> IF i = k THEN Grown(f[k - 1], k) ELSE f[i]]
  <2>7. \A i \in 0..k : g[i] = IF i = 0 THEN <<>> ELSE Grown(g[i - 1], i)
    <3> SUFFICES ASSUME NEW i \in 0..k PROVE g[i] = IF i = 0 THEN <<>> ELSE Grown(g[i - 1], i)
      OBVIOUS
    <3>1. CASE i = k
      BY <2>3, <2>4, <3>1
    <3>2. CASE i # k
      <4>1. i \in 0..(k - 1) /\ g[i] = f[i] /\ (i # 0 => g[i - 1] = f[i - 1])
        BY <2>3, <3>2
      <4>2. f[i] = IF i = 0 THEN <<>> ELSE Grown(f[i - 1], i)
        BY <2>6, <4>1
      <4> QED
        BY <4>1, <4>2
    <3> QED
      BY <3>1, <3>2
  <2>8. Solves(g, k)
    BY <2>7
  <2> QED
    BY <2>3, <2>8
<1> DEFINE kept == CHOOSE f : Solves(f, n)
<1>6. Solves(kept, n)
  <2>1. \E f : Solves(f, n)
    BY <1>1, <1>5
  <2> QED
    BY <2>1, Zenon
<1>7. \A i \in 0..n : kept[i] = IF i = 0 THEN <<>> ELSE Grown(kept[i - 1], i)
  BY <1>6
<1>8. WithoutSide(attempts, side) = kept[n]
  BY DEF WithoutSide, Grown, n
<1> HIDE DEF kept, Solves
<1>9. \A i \in 0..n : kept[i] \in Seq(Kept)
  <2> DEFINE T == {i \in 0..n : kept[i] \notin Seq(Kept)}
  <2> SUFFICES ASSUME T # {} PROVE FALSE
    OBVIOUS
  <2>1. T \in SUBSET Nat
    BY <1>1
  <2>2. PICK i \in T : \A j \in T : i <= j
    <3> HIDE DEF T
    <3> QED
      BY <2>1, LeastNatural
  <2>3. i \in 0..n /\ kept[i] \notin Seq(Kept)
    OBVIOUS
  <2>4. i # 0
    BY <1>4, <1>7, <2>3
  <2>5. i - 1 \in 0..n /\ i \in 1..n /\ i - 1 \notin T
    BY <1>1, <2>2, <2>3, <2>4
  <2>6. kept[i - 1] \in Seq(Kept)
    BY <2>5
  <2> QED
    BY <1>3, <1>7, <2>3, <2>4, <2>5, <2>6
<1> QED
  BY <1>1, <1>8, <1>9 DEF Kept

(* A chain is never left without an attempt to make.                         *)
ChainType ==
  /\ chain \in Seq(AttemptKinds) /\ idx \in 1..Len(chain)
  /\ GoesTo("retry") => idx < Len(chain)

(* The attempt in hand has found its side out of quota.                      *)
FoundDry ==
  \/ step = "returned" /\ result.status = "failed" /\ result.why = "quota"
  \/ GoesTo("decide") /\ failure = "opencode_quota_exhausted"

(* A side that ran dry is known to the failover, or about to be.             *)
DryIsKnown ==
  /\ used \subseteq Sides /\ ranDry \subseteq Sides
  /\ step # "over" => ranDry \subseteq IF FoundDry THEN used \cup {Attempt.side} ELSE used

InAttempt == step \in {"start", "running", "returned"} \/ GoesTo("decide")

FollowsOther(attempt) == attempt.side \in Sides => used = {Counterpart(attempt).side}

(* Until a failover the chain knows one side; after it, the other side is the *)
(* next attempt or the one in hand, and none comes after.                     *)
SidesAhead ==
  /\ used = {} => OneSide(chain)
  /\ used # {} =>
       /\ InAttempt => FollowsOther(Attempt)
       /\ \A j \in (idx + 1)..Len(chain) :
            chain[j].side \in Sides => step = "retry" /\ j = idx + 1 /\ FollowsOther(chain[j])

SInv == ChainType /\ DryIsKnown /\ SidesAhead

LEMMA InitSInv == Init => SInv
<1> SUFFICES ASSUME Init PROVE SInv
  OBVIOUS
<1>1. PICK r \in Routes : chain = RetryChain(r)
  BY DEF Init
<1>2. chain \in Seq(AttemptKinds) /\ chain # <<>> /\ OneSide(chain)
  BY <1>1, RoutesAssumption
<1>3. idx = 1 /\ step = "start" /\ used = {} /\ ranDry = {}
  BY DEF Init
<1>4. ChainType
  BY <1>2, <1>3 DEF ChainType, GoesTo
<1>5. DryIsKnown /\ SidesAhead
  BY <1>2, <1>3 DEF DryIsKnown, SidesAhead
<1> QED
  BY <1>4, <1>5 DEF SInv

LEMMA SideOfOpenCode ==
  ASSUME NEW a \in AttemptKinds
  PROVE  /\ a.worker = "opencode" <=> a.side \in Sides
         /\ a.side \in Sides \cup {"none"}
BY DEF AttemptKinds, Claude, OpenCode, Sides

LEMMA CounterpartSide ==
  ASSUME NEW a, a.side \in Sides
  PROVE  /\ Counterpart(a) \in AttemptKinds /\ Counterpart(a).side \in Sides
         /\ Counterpart(a).side # a.side /\ Counterpart(Counterpart(a)).side = a.side
<1>1. \A s \in Sides : OpenCode(s) \in AttemptKinds /\ OpenCode(s).side = s
  BY DEF AttemptKinds, OpenCode
<1>2. Counterpart(a) = OpenCode(IF a.side = "wsl" THEN "windows" ELSE "wsl")
  BY DEF Counterpart
<1>3. Counterpart(Counterpart(a)) = OpenCode(IF Counterpart(a).side = "wsl" THEN "windows" ELSE "wsl")
  BY DEF Counterpart
<1> QED
  BY <1>1, <1>2, <1>3 DEF Sides

(* A step that leaves the chain, the attempt and what is known of the sides.  *)
LEMMA SameSides ==
  ASSUME SInv, UNCHANGED <<chain, idx, used, ranDry>>,
         GoesTo("retry")' => GoesTo("retry") \/ idx < Len(chain),
         step' # "over" => step # "over" /\ (FoundDry => FoundDry'),
         InAttempt' => InAttempt, step = "retry" => step' = "retry"
  PROVE  SInv'
<1>1. ChainType'
  BY DEF SInv, ChainType
<1>2. DryIsKnown'
  BY DEF SInv, DryIsKnown, Attempt
<1>3. SidesAhead'
  BY DEF SInv, SidesAhead, OneSide, FollowsOther, Counterpart, OpenCode, Attempt
<1> QED
  BY <1>1, <1>2, <1>3 DEF SInv

(* A decision that ends the run, reviews it or goes on with the same chain.   *)
LEMMA DecidedSides ==
  ASSUME SInv, Deciding, UNCHANGED <<chain, idx, ranDry>>, ~InAttempt',
         GoesTo("retry")' => idx < Len(chain)
  PROVE  SInv'
<1> DEFINE side == Attempt.side
<1>1. Attempt \in AttemptKinds
  BY DEF SInv, ChainType, Attempt
<1>2. step = "decide" /\ InAttempt /\ step # "retry" /\ step # "over"
  BY DEF Deciding, InAttempt, GoesTo
<1>3. ChainType'
  BY DEF SInv, ChainType
<1>4. CASE ~QuotaFailure
  <2>1. used' = used
    BY <1>4 DEF Deciding, UsedSides
  <2>2. FoundDry => Attempt.worker # "opencode"
    BY <1>2, <1>4 DEF QuotaFailure, FoundDry
  <2>3. FoundDry => side = "none" /\ "none" \notin Sides
    BY <1>1, <2>2, SideOfOpenCode DEF Sides
  <2>4. DryIsKnown'
    BY <1>2, <2>1, <2>3 DEF SInv, DryIsKnown
  <2>5. SidesAhead'
    BY <1>2, <2>1 DEF SInv, SidesAhead, OneSide
  <2> QED
    BY <1>3, <2>4, <2>5 DEF SInv
<1>5. CASE QuotaFailure
  <2>1. used' = used \cup {side} /\ side \in Sides
    BY <1>1, <1>5, SideOfOpenCode DEF Deciding, UsedSides, QuotaFailure
  <2>2. Counterpart(Attempt).side \in used
    BY <1>5, <2>1, CounterpartSide DEF Deciding, CanFailOver, UsedSides
  <2>3. \A j \in (idx + 1)..Len(chain) : chain[j].side \notin Sides
    BY <1>2, <2>2 DEF SInv, SidesAhead
  <2>4. DryIsKnown'
    BY <1>2, <2>1 DEF SInv, DryIsKnown
  <2>5. SidesAhead'
    BY <2>1, <2>3 DEF SidesAhead
  <2> QED
    BY <1>3, <2>4, <2>5 DEF SInv
<1> QED
  BY <1>4, <1>5

LEMMA ReturnedSides ==
  ASSUME SInv, NEW r, NEW own, Return(r, own)
  PROVE  SInv'
<1>1. /\ step = "running" /\ step' = "returned" /\ result' = r
      /\ ranDry' = IF r.status = "failed" /\ r.why = "quota"
                   THEN ranDry \cup ({Attempt.side} \cap Sides) ELSE ranDry
      /\ UNCHANGED <<chain, idx, used>>
  BY DEF Return
<1>2. ChainType'
  BY <1>1 DEF SInv, ChainType, GoesTo
<1>3. ranDry \subseteq used
  BY <1>1 DEF SInv, DryIsKnown, FoundDry, GoesTo
<1>4. Attempt' = Attempt
  BY <1>1 DEF Attempt
<1>5. DryIsKnown'
  BY <1>1, <1>3, <1>4 DEF SInv, DryIsKnown, FoundDry
<1>6. SidesAhead'
  BY <1>1 DEF SInv, SidesAhead, OneSide, FollowsOther, Counterpart, OpenCode, Attempt, InAttempt
<1> QED
  BY <1>2, <1>5, <1>6 DEF SInv

LEMMA FailedOverSides ==
  ASSUME SInv, FailOver
  PROVE  SInv'
<1> DEFINE side == Attempt.side
           other == Counterpart(Attempt)
           rest == WithoutSide(Rest, side)
           Ahead == {a \in AttemptKinds : a.side \notin Sides}
<1>1. /\ step = "decide" /\ CanFailOver /\ used' = UsedSides /\ step' = "retry"
      /\ chain' = SubSeq(chain, 1, idx) \o <<other>> \o rest
      /\ UNCHANGED <<idx, ranDry>>
  BY DEF FailOver, GoOn
<1>2. Attempt \in AttemptKinds /\ chain \in Seq(AttemptKinds) /\ idx \in 1..Len(chain)
  BY DEF SInv, ChainType, Attempt
<1>3. side \in Sides /\ used' = used \cup {side} /\ other.side \notin used
  BY <1>1, <1>2, SideOfOpenCode DEF CanFailOver, QuotaFailure, UsedSides
<1>4. other \in AttemptKinds /\ Counterpart(other).side = side
  BY <1>3, CounterpartSide
<1>5. used = {} /\ OneSide(chain)
  <2>1. InAttempt
    BY <1>1 DEF InAttempt, GoesTo
  <2> QED
    BY <1>3, <2>1 DEF SInv, SidesAhead, FollowsOther
<1>6. rest \in Seq(Ahead)
  <2> DEFINE S == {a \in AttemptKinds : a.side \in Sides => a.side = side}
  <2>1. \A j \in 1..Len(chain) : chain[j] \in S
    BY <1>2, <1>3, <1>5 DEF OneSide, Attempt
  <2>2. Rest \in Seq(S)
    <3>1. chain \in Seq(S)
      BY <1>2, <2>1
    <3> HIDE DEF S
    <3> QED
      BY <1>2, <3>1 DEF Rest
  <2>3. rest \in Seq({a \in S : ~OnSide(a, side)})
    <3> HIDE DEF S, side
    <3> QED
      BY <2>2, WithoutSideKeeps
  <2>4. {a \in S : ~OnSide(a, side)} \subseteq Ahead
    BY SideOfOpenCode DEF OnSide
  <2>5. \A A, B : A \subseteq B => Seq(A) \subseteq Seq(B)
    OBVIOUS
  <2> QED
    BY <2>3, <2>4, <2>5
<1> HIDE DEF rest, other, side
<1> DEFINE n == Len(rest)
<1>7. n \in Nat /\ (\A j \in 1..n : rest[j] \in Ahead) /\ rest \in Seq(AttemptKinds)
  <2>1. rest \in Seq(AttemptKinds)
    BY <1>6
  <2> HIDE DEF Ahead
  <2> QED
    BY <1>6, <2>1
<1>8. SubSeq(chain, 1, idx) \in Seq(AttemptKinds) /\ Len(SubSeq(chain, 1, idx)) = idx
      /\ SubSeq(chain, 1, idx)[idx] = chain[idx]
  BY <1>2
<1>9. /\ chain' \in Seq(AttemptKinds) /\ Len(chain') = idx + 1 + n
      /\ chain'[idx] = chain[idx] /\ chain'[idx + 1] = other
      /\ \A j \in (idx + 2)..(idx + 1 + n) : chain'[j] = rest[j - idx - 1]
  <2> DEFINE head == SubSeq(chain, 1, idx)
  <2> HIDE DEF head, Ahead
  <2>1. chain' = (head \o <<other>>) \o rest /\ head \in Seq(AttemptKinds) /\ Len(head) = idx
        /\ head[idx] = chain[idx] /\ idx \in Nat /\ idx >= 1
    BY <1>1, <1>2, <1>8 DEF head
  <2>2. <<other>> \in Seq(AttemptKinds)
    BY <1>4
  <2>3. head \o <<other>> \in Seq(AttemptKinds) /\ Len(head \o <<other>>) = idx + 1
        /\ (head \o <<other>>)[idx] = chain[idx] /\ (head \o <<other>>)[idx + 1] = other
    BY <2>1, <2>2
  <2> DEFINE front == head \o <<other>>
  <2> HIDE DEF front
  <2>4. front \in Seq(AttemptKinds) /\ Len(front) = idx + 1 /\ front[idx] = chain[idx]
        /\ front[idx + 1] = other /\ chain' = front \o rest
    BY <2>1, <2>3 DEF front
  <2>5. front \o rest \in Seq(AttemptKinds) /\ Len(front \o rest) = idx + 1 + n
    <3>1. \A u, v \in Seq(AttemptKinds) :
            u \o v \in Seq(AttemptKinds) /\ Len(u \o v) = Len(u) + Len(v)
      OBVIOUS
    <3> QED
      BY <1>7, <2>4, <3>1
  <2>6. \A j \in 1..(idx + 1) : (front \o rest)[j] = front[j]
    BY <1>7, <2>1, <2>4
  <2>7. \A j \in (idx + 2)..(idx + 1 + n) : (front \o rest)[j] = rest[j - idx - 1]
    <3> SUFFICES ASSUME NEW j \in (idx + 2)..(idx + 1 + n)
                 PROVE  (front \o rest)[j] = rest[j - idx - 1]
      OBVIOUS
    <3>1. j \in 1..(Len(front) + Len(rest)) /\ j > Len(front) /\ j - Len(front) = j - idx - 1
      BY <1>7, <2>1, <2>4
    <3> QED
      BY <1>7, <2>4, <3>1
  <2>8. idx \in 1..(idx + 1) /\ idx + 1 \in 1..(idx + 1)
    BY <2>1
  <2> QED
    BY <2>4, <2>5, <2>6, <2>7, <2>8
<1>10. ChainType'
  BY <1>1, <1>2, <1>7, <1>9 DEF ChainType
<1>11. DryIsKnown'
  BY <1>1, <1>3 DEF SInv, DryIsKnown, side
<1>12. SidesAhead'
  <2>1. used' = {side} /\ used' # {} /\ ~InAttempt'
    BY <1>1, <1>3, <1>5 DEF InAttempt, GoesTo
  <2>2. ASSUME NEW j \in ((idx + 1)..Len(chain))', chain'[j].side \in Sides
        PROVE  j = idx' + 1 /\ FollowsOther(chain[j])'
    <3>1. j = idx + 1
      BY <1>1, <1>2, <1>7, <1>9, <2>2
    <3>2. chain'[j] = other
      BY <1>9, <3>1
    <3>3. Counterpart(chain'[j]).side = side
      BY <1>4, <3>2
    <3>4. Counterpart(chain[j])' = Counterpart(chain'[j])
      BY DEF Counterpart, OpenCode
    <3> QED
      BY <1>1, <2>1, <3>1, <3>3, <3>4 DEF FollowsOther
  <2> QED
    BY <1>1, <2>1, <2>2 DEF SidesAhead
<1> QED
  BY <1>10, <1>11, <1>12 DEF SInv

LEMMA RetriedSides ==
  ASSUME IInv, SInv, Retry
  PROVE  SInv'
<1>1. step = "retry" /\ step' = "start" /\ idx' = idx + 1
      /\ UNCHANGED <<chain, used, ranDry>>
  BY DEF Retry
<1>2. idx < Len(chain) /\ chain \in Seq(AttemptKinds) /\ idx \in 1..Len(chain)
  BY <1>1 DEF SInv, ChainType, GoesTo
<1>3. ChainType'
  BY <1>1, <1>2 DEF ChainType, GoesTo
<1>4. DryIsKnown'
  BY <1>1 DEF SInv, DryIsKnown, FoundDry, GoesTo
<1>5. SidesAhead'
  <2>1. CASE used = {}
    BY <1>1, <2>1 DEF SInv, SidesAhead, OneSide
  <2>2. CASE used # {}
    <3>1. idx + 1 \in (idx + 1)..Len(chain)
      BY <1>2
    <3>2. FollowsOther(chain[idx + 1])
      BY <2>2, <3>1 DEF SInv, SidesAhead, FollowsOther
    <3>3. FollowsOther(Attempt)'
      BY <1>1, <3>2 DEF FollowsOther, Attempt, Counterpart, OpenCode
    <3>4. \A j \in (idx + 2)..Len(chain) : chain[j].side \notin Sides
      BY <1>2, <2>2 DEF SInv, SidesAhead
    <3>5. \A j \in (idx' + 1)..Len(chain') : chain'[j].side \notin Sides
      BY <1>1, <1>2, <3>4
    <3> QED
      BY <1>1, <2>2, <3>3, <3>5 DEF SidesAhead
  <2> QED
    BY <2>1, <2>2
<1> QED
  BY <1>3, <1>4, <1>5 DEF SInv

LEMMA StepSInv == IInv /\ SInv /\ [Next]_vars => SInv'
<1> SUFFICES ASSUME IInv, SInv, [Next]_vars PROVE SInv'
  OBVIOUS
<1>1. CASE Preflight \/ RunRaises \/ AuditStops
  BY <1>1, SameSides DEF Preflight, RunRaises, AuditStops, End, GoesTo, FoundDry, InAttempt
<1>2. CASE Refresh \/ Review
  BY <1>2, SameSides DEF Refresh, Review, GoesTo, FoundDry, InAttempt
<1>3. CASE Refreshed
  <2>1. /\ step = "snapshot" /\ step' = next
        /\ UNCHANGED <<chain, idx, next, result, failure, used, ranDry>>
    BY <1>3 DEF Refreshed
  <2>2. next \in {"decide", "retry", "over"}
    BY DEF IInv, Types
  <2> QED
    BY <2>1, <2>2, SameSides DEF GoesTo, FoundDry, InAttempt
<1>4. CASE ClaudeRefuses \/ ClaudeMocks \/ RunClaude \/ OpenCodeMocks \/ RunOpenCode
  <2>1. \E r, own : Return(r, own)
    BY <1>4 DEF ClaudeRefuses, ClaudeMocks, RunClaude, OpenCodeMocks, RunOpenCode
  <2> QED
    BY <2>1, ReturnedSides
<1>5. CASE Finalize
  <2>1. /\ step = "returned" /\ step' = "recorded" /\ next' = "decide"
        /\ UNCHANGED <<chain, idx, used, ranDry>>
    BY <1>5 DEF Finalize
  <2>2. FoundDry => failure' = "opencode_quota_exhausted"
    <3>1. result.status = "failed" /\ result.why = "quota"
            => Classify(result) = "opencode_quota_exhausted" /\ ~Salvaged(result)
      BY DEF Classify, Salvaged
    <3> QED
      BY <1>5, <2>1, <3>1 DEF Finalize, FoundDry, GoesTo
  <2> QED
    BY <2>1, <2>2, SameSides DEF GoesTo, FoundDry, InAttempt
<1>6. CASE FailOver
  BY <1>6, FailedOverSides
<1>7. CASE Retry
  BY <1>7, RetriedSides
<1>8. CASE DecideAccept \/ DecideNoDiff \/ DecideStop \/ DecideRetry
  BY <1>8, DecidedSides DEF DecideAccept, DecideNoDiff, AsNoDiff, DecideStop, DecideRetry, End,
     InAttempt, GoesTo
<1>9. CASE Operator \/ Done \/ UNCHANGED vars
  BY <1>9, SameSides DEF Operator, Done, vars, GoesTo, FoundDry, InAttempt
<1> QED
  BY <1>1, <1>2, <1>3, <1>4, <1>5, <1>6, <1>7, <1>8, <1>9 DEF Next, Executor

(* No attempt is made on a side that an earlier one found out of quota, for    *)
(* any routes that plan OpenCode on one side, however long their chains       *)
(* (task_attempt_runner.py, opencode_failover.py).                            *)
THEOREM DrySidesAreLeft == Spec => []SidesNotRevisited
<1>1. SInv => SidesNotRevisited
  <2> SUFFICES ASSUME SInv, step = "running", Attempt.side \in ranDry PROVE FALSE
    BY DEF SidesNotRevisited
  <2>1. Attempt.side \in used /\ Attempt.side \in Sides
    BY DEF SInv, DryIsKnown, FoundDry, GoesTo
  <2>2. used = {Counterpart(Attempt).side}
    BY <2>1 DEF SInv, SidesAhead, InAttempt, FollowsOther
  <2> QED
    BY <2>1, <2>2, CounterpartSide
<1> QED
  BY <1>1, InitSInv, StepSInv, Invariance, PTL DEF Spec
=============================================================================
