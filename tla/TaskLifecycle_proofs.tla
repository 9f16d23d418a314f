------------------------- MODULE TaskLifecycle_proofs -------------------------
(* The lifecycle of a task for any number of approvals, in any statuses, of   *)
(* attempts, cancels, rollbacks, status queries, pauses, backfills and        *)
(* deaths: no worker runs for a task that the gate refused; a set_status      *)
(* nobody interferes with leaves records that agree; one executor works at a  *)
(* time; and a task whose worker a cancel killed does not complete.           *)
EXTENDS TaskLifecycle, SequenceTheorems, TLAPS

\* The statuses that a task can have until an executor passes its gate: from
\* none of them may it be approved.
Early == {"QUEUED", "CLASSIFIED", "BLOCKED", "FAILED_FINAL", "CANCELLED", "ROLLED_BACK"}

Refusing == {"none", "risk_blocked", "blocked"}
Beyond == {"route", "prepare", "attempt", "work", "working", "degraded", "pipeline",
           "verify", "review", "publish"}

(* Before the gate has decided, and once it has refused, nobody else comes in: *)
(* no executor resumes, no status query has anything to reap.                 *)
NobodyCameIn ==
  decision \in Refusing =>
    /\ status \in Early /\ todo \in [Actors -> Seq(Early)]
    /\ \A r \in Runs \ {Submitted} : pc[r] = "off"
    /\ pc[Submitted] \in {"gate", "end", "crashed"}
    /\ worker = 0 /\ rpc = "idle"

(* The gate decides once.                                                     *)
GateDecidesOnce ==
  /\ pc \in [Runs -> RunPCs] /\ decision \in Decisions
  /\ \A r \in Runs : pc[r] = "gate" => r = Submitted /\ decision = "none"

(* The executor of submit_task ends at a hard approval.                       *)
HardApprovalWaits ==
  decision = "hard" => pc[Submitted] \in {"end", "crashed"} /\ worker # Submitted

IInv == NobodyCameIn /\ GateDecidesOnce /\ HardApprovalWaits

-----------------------------------------------------------------------------
(* The table of transitions.                                                 *)

LEMMA PlannedHasAnAlias == \A s : ResolveOld(s) # "PLANNED"
<1> SUFFICES ASSUME NEW s, ResolveOld(s) = "PLANNED" PROVE FALSE
  OBVIOUS
<1>1. s # "DONE"
  BY DEF ResolveOld
<1>2. "READY_TO_PUBLISH" \in OldNames /\ Aliases["READY_TO_PUBLISH"] = "PLANNED"
      /\ "PLANNED" \notin OldNames
  BY DEF OldNames, Aliases
<1>3. CASE \E o \in OldNames : Aliases[o] = s
  <2>1. ResolveOld(s) = CHOOSE o \in OldNames : Aliases[o] = s
    BY <1>1, <1>3 DEF ResolveOld
  <2>2. (CHOOSE o \in OldNames : Aliases[o] = s) \in OldNames
    BY <1>3
  <2> QED
    BY <1>2, <2>1, <2>2
<1>4. CASE ~\E o \in OldNames : Aliases[o] = s
  <2>1. s = "PLANNED"
    BY <1>1, <1>4 DEF ResolveOld
  <2> QED
    BY <1>2, <1>4, <2>1
<1> QED
  BY <1>3, <1>4

LEMMA NoApprovalEarly == \A s \in Early : ~CanTransition(s, "PLANNED")
<1> SUFFICES ASSUME NEW s \in Early PROVE ~CanTransition(s, "PLANNED")
  OBVIOUS
<1>1. Resolve("PLANNED") = "PLANNED"
  BY DEF Resolve, OldNames, Aliases
<1>2. Resolve(s) \in {"NEW", "CLASSIFIED", "BLOCKED", "FAILED_FINAL", "CANCELLED",
                      "ROLLED_BACK"}
  BY DEF Early, Resolve, OldNames, Aliases
<1>3. ASSUME NEW t PROVE "PLANNED" \notin OldTransitions(t)
  BY PlannedHasAnAlias DEF OldTransitions
<1>4. ASSUME NEW t \in {"QUEUED", "NEW", "CLASSIFIED", "BLOCKED", "FAILED_FINAL", "CANCELLED",
                        "ROLLED_BACK"}
      PROVE  "PLANNED" \notin MergedTransitions(t)
  <2>1. CASE t = "QUEUED"
    BY <1>3, <2>1 DEF MergedTransitions, States, Transitions
  <2>2. CASE t # "QUEUED"
    <3>1. t \in States /\ "PLANNED" \notin Transitions[t]
      BY <1>4, <2>2 DEF States, Transitions
    <3> QED
      BY <3>1 DEF MergedTransitions
  <2> QED
    BY <2>1, <2>2
<1> QED
  BY <1>1, <1>2, <1>4 DEF CanTransition, Early

-----------------------------------------------------------------------------
(* What an executor does beyond its gate.                                    *)

\* Executor r moves on, and may have started a worker.
MovesOn(r) ==
  /\ pc[r] \in Beyond /\ decision' = decision /\ worker' \in {worker, r}
  /\ \E where \in RunPCs \ {"gate", "off"} : pc' = [pc EXCEPT ![r] = where]

StepsBeyond(r) ==
  \/ Route(r) \/ PrepareWorktree(r) \/ StartAttempt(r) \/ StartWorker(r) \/ WorkerReturns(r)
  \/ WorkerCancelled(r) \/ WorkerException(r) \/ DegradedMock(r) \/ StartVerify(r) \/ Verify(r)
  \/ Review(r) \/ Publish(r)

LEMMA RunnersMoveOn ==
  ASSUME NEW r \in Runs, StepsBeyond(r)
  PROVE  MovesOn(r)
<1> USE DEF MovesOn, Ready, Then, task, control, Beyond, RunPCs
<1>1. CASE Route(r)
  BY <1>1 DEF Route
<1>2. CASE PrepareWorktree(r)
  BY <1>2 DEF PrepareWorktree
<1>3. CASE StartAttempt(r)
  BY <1>3 DEF StartAttempt
<1>4. CASE StartWorker(r)
  BY <1>4 DEF StartWorker, RetryOrFail
<1>5. CASE WorkerReturns(r)
  BY <1>5 DEF WorkerReturns, RetryOrFail
<1>6. CASE WorkerCancelled(r) \/ WorkerException(r)
  BY <1>6 DEF WorkerCancelled, WorkerException
<1>7. CASE DegradedMock(r) \/ StartVerify(r) \/ Publish(r)
  BY <1>7 DEF DegradedMock, StartVerify, Publish, Pipeline
<1>8. CASE Verify(r)
  BY <1>8 DEF Verify, Pipeline
<1>9. CASE Review(r)
  BY <1>9 DEF Review, Pipeline
<1> QED
  BY <1>1, <1>2, <1>3, <1>4, <1>5, <1>6, <1>7, <1>8, <1>9 DEF StepsBeyond

LEMMA SubmittedRuns == Submitted \in Runs /\ Runs \subseteq Actors /\ Reaper \in Actors
                         /\ Submitted # 0
BY LifecycleAssumption DEF Submitted, Runs, Actors, Reaper

LEMMA InitIInv == Init => IInv
<1> SUFFICES ASSUME Init PROVE IInv
  OBVIOUS
<1>1. \A a \in Actors : <<>> \in Seq(Early)
  OBVIOUS
<1>2. todo \in [Actors -> Seq(Early)]
  BY <1>1 DEF Init
<1>3. pc \in [Runs -> RunPCs] /\ pc[Submitted] = "gate"
      /\ \A r \in Runs \ {Submitted} : pc[r] = "off"
  BY SubmittedRuns DEF Init, RunPCs
<1> QED
  BY <1>2, <1>3, SubmittedRuns
     DEF Init, IInv, NobodyCameIn, GateDecidesOnce, HardApprovalWaits, Early, Refusing, Decisions

\* One access of set_status.
LEMMA SetStatusKeeps ==
  ASSUME IInv, NEW a \in Actors, SetStatus(a)
  PROVE  IInv'
<1>1. UNCHANGED <<pc, decision, worker, rpc>>
  BY DEF SetStatus, task, control, others, query
<1>2. ASSUME status \in Early, todo \in [Actors -> Seq(Early)]
      PROVE  status' \in Early /\ todo' \in [Actors -> Seq(Early)]
  <2>1. todo[a] \in Seq(Early)
    BY <1>2
  <2>2. todo[a] # <<>> => Head(todo[a]) \in Early /\ Tail(todo[a]) \in Seq(Early)
    BY <2>1
  <2>3. /\ todo[a] # <<>>
        /\ status' = status \/ status' = Head(todo[a])
        /\ todo' = todo \/ todo' = [todo EXCEPT ![a] = Tail(todo[a])]
    BY DEF SetStatus, WriteRow, ReadForArtifact, ReadForOutcome, ReadRow, SyncArtifact,
           AppendEvent, RecordOutcome, row
  <2> QED
    BY <1>2, <2>2, <2>3
<1> QED
  BY <1>1, <1>2 DEF IInv, NobodyCameIn, GateDecidesOnce, HardApprovalWaits

LEMMA GateKeeps ==
  ASSUME IInv, NEW r \in Runs, Gate(r)
  PROVE  IInv'
<1>1. r = Submitted /\ decision = "none" /\ pc[r] = "gate"
  BY DEF Gate, Ready, IInv, GateDecidesOnce
<1>2. /\ status \in Early /\ todo \in [Actors -> Seq(Early)] /\ worker = 0 /\ rpc = "idle"
      /\ \A s \in Runs \ {Submitted} : pc[s] = "off"
  BY <1>1 DEF IInv, NobodyCameIn, Refusing
<1>3. UNCHANGED <<status, worker, rpc>>
  BY DEF Gate, Then, row, control, others, query
<1>4. \E where \in {"end", "route"} : pc' = [pc EXCEPT ![r] = where]
  BY DEF Gate, Then
<1>5. decision' \in Decisions \ {"none"}
  BY DEF Gate, Decisions
<1>6. decision' \in {"risk_blocked", "blocked", "hard"} => pc' = [pc EXCEPT ![r] = "end"]
  BY DEF Gate, Then
<1>7. decision' \in Refusing => todo' \in [Actors -> Seq(Early)]
  <2>1. <<"FAILED_FINAL">> \in Seq(Early) /\ <<"CLASSIFIED", "BLOCKED">> \in Seq(Early)
    BY DEF Early
  <2>2. decision' \in Refusing =>
           \E statuses \in {<<"FAILED_FINAL">>, <<"CLASSIFIED", "BLOCKED">>} :
             todo' = [todo EXCEPT ![r] = statuses]
    BY <1>5 DEF Gate, Then, Refusing
  <2> QED
    BY <1>2, <2>1, <2>2
<1>8. pc \in [Runs -> RunPCs]
  BY DEF IInv, GateDecidesOnce
<1>9. NobodyCameIn'
  BY <1>1, <1>2, <1>3, <1>5, <1>6, <1>7, <1>8 DEF NobodyCameIn, Refusing, Decisions
<1>10. GateDecidesOnce'
  BY <1>1, <1>2, <1>4, <1>5, <1>8 DEF GateDecidesOnce, RunPCs
<1>11. HardApprovalWaits'
  BY <1>1, <1>2, <1>3, <1>6, <1>8, SubmittedRuns DEF HardApprovalWaits
<1> QED
  BY <1>9, <1>10, <1>11 DEF IInv

LEMMA MovingOnKeeps ==
  ASSUME IInv, NEW r \in Runs, MovesOn(r)
  PROVE  IInv'
<1>1. decision \notin Refusing
  BY DEF IInv, NobodyCameIn, MovesOn, Beyond
<1>2. decision = "hard" => r # Submitted
  BY DEF IInv, HardApprovalWaits, MovesOn, Beyond
<1>3. PICK where \in RunPCs \ {"gate", "off"} : pc' = [pc EXCEPT ![r] = where]
  BY DEF MovesOn
<1>4. GateDecidesOnce'
  BY <1>1, <1>3 DEF IInv, GateDecidesOnce, MovesOn, Refusing
<1>5. HardApprovalWaits'
  BY <1>2, <1>3, SubmittedRuns DEF IInv, GateDecidesOnce, HardApprovalWaits, MovesOn
<1> QED
  BY <1>1, <1>4, <1>5 DEF IInv, NobodyCameIn, MovesOn

LEMMA CrashKeeps ==
  ASSUME IInv, NEW r \in Runs, Crash(r)
  PROVE  IInv'
<1>1. /\ pc[r] # "off" /\ pc' = [pc EXCEPT ![r] = "crashed"]
      /\ todo' = [todo EXCEPT ![r] = <<>>]
      /\ UNCHANGED <<status, decision, worker, rpc>>
  BY DEF Crash, row, task, control, others, query
<1>2. pc \in [Runs -> RunPCs]
  BY DEF IInv, GateDecidesOnce
<1>3. NobodyCameIn'
  <2> SUFFICES ASSUME decision \in Refusing PROVE NobodyCameIn'
    BY <1>1 DEF NobodyCameIn
  <2>1. NobodyCameIn /\ r = Submitted
    BY <1>1 DEF IInv, NobodyCameIn
  <2>2. <<>> \in Seq(Early)
    OBVIOUS
  <2>3. todo' \in [Actors -> Seq(Early)]
    BY <1>1, <2>1, <2>2 DEF NobodyCameIn
  <2> QED
    BY <1>1, <1>2, <2>1, <2>3, SubmittedRuns DEF NobodyCameIn
<1>4. GateDecidesOnce' /\ HardApprovalWaits'
  BY <1>1, <1>2, SubmittedRuns DEF IInv, GateDecidesOnce, HardApprovalWaits, RunPCs
<1> QED
  BY <1>3, <1>4 DEF IInv

LEMMA ApproveKeeps ==
  ASSUME IInv, NEW r \in Runs, Approve(r)
  PROVE  IInv'
<1>1. /\ pc[r] = "off" /\ CanTransition(status, "PLANNED") /\ pc' = [pc EXCEPT ![r] = "route"]
      /\ UNCHANGED <<decision, worker>>
  BY DEF Approve, Then, task, control
<1>2. decision \notin Refusing
  BY <1>1, NoApprovalEarly DEF IInv, NobodyCameIn
<1>3. decision = "hard" => r # Submitted
  BY <1>1 DEF IInv, HardApprovalWaits
<1>4. GateDecidesOnce'
  BY <1>1, <1>2 DEF IInv, GateDecidesOnce, RunPCs
<1>5. HardApprovalWaits'
  BY <1>1, <1>3, SubmittedRuns DEF IInv, GateDecidesOnce, HardApprovalWaits
<1> QED
  BY <1>1, <1>2, <1>4, <1>5 DEF IInv, NobodyCameIn

\* The steps of operators and status queries.
LEMMA OthersKeep ==
  ASSUME IInv, UNCHANGED <<pc, decision, worker>>,
         decision \in Refusing =>
           /\ status' \in {status, "CANCELLED", "ROLLED_BACK"}
           /\ UNCHANGED <<todo, rpc>>
  PROVE  IInv'
BY DEF IInv, NobodyCameIn, GateDecidesOnce, HardApprovalWaits, Early

LEMMA NextIInv == IInv /\ [Next]_vars => IInv'
<1> SUFFICES ASSUME IInv, [Next]_vars PROVE IInv'
  OBVIOUS
<1>1. ASSUME NEW r \in Runs, RunStep(r) PROVE IInv'
  <2>1. CASE SetStatus(r)
    BY <2>1, SetStatusKeeps, SubmittedRuns
  <2>2. CASE Gate(r)
    BY <2>2, GateKeeps
  <2>3. CASE FirstHeartbeat(r)
    BY <2>3, OthersKeep DEF FirstHeartbeat, row, calls, task, others, query
  <2>4. CASE StepsBeyond(r)
    BY <2>4, RunnersMoveOn, MovingOnKeeps
  <2> QED
    BY <1>1, <2>1, <2>2, <2>3, <2>4 DEF RunStep, StepsBeyond
<1>2. CASE Operator
  <2>1. UNCHANGED <<pc, decision, todo, rpc>>
    BY <1>2 DEF Operator, calls, task, query
  <2>2. UNCHANGED worker /\ status' \in {status, "CANCELLED", "ROLLED_BACK"}
    BY <1>2 DEF Operator, CheckCancel, CheckRollback, OperatorStep, RequestCancel,
       OperatorWritesRow, OperatorAppendsEvent, row, control
  <2> QED
    BY <2>1, <2>2, OthersKeep
<1>3. CASE StatusQuery
  <2>1. UNCHANGED <<pc, decision, worker, status>>
    BY <1>3 DEF StatusQuery, row, task
  <2>2. decision \in Refusing => FALSE
    <3>1. decision \in Refusing => rpc = "idle" /\ status \in Early
      BY DEF IInv, NobodyCameIn
    <3> QED
      BY <1>3, <3>1 DEF StatusQuery, ReadForReap, ReadFiles, WriteFiles, Early
  <2> QED
    BY <2>1, <2>2, OthersKeep
<1>4. CASE Backfill
  <2>1. UNCHANGED <<pc, decision, worker, status, todo, rpc>>
    BY <1>4 DEF Backfill, calls, task, control, query
  <2> QED
    BY <2>1, OthersKeep
<1>5. CASE UNCHANGED vars
  BY <1>5, OthersKeep DEF vars, row, calls, task, control, others, query
<1> QED
  BY <1>1, <1>2, <1>3, <1>4, <1>5, CrashKeeps, ApproveKeeps, SetStatusKeeps, SubmittedRuns DEF Next

LEMMA Invariance == Spec => []IInv
BY InitIInv, NextIInv, PTL DEF Spec

(* No worker runs for a task that the gate refused, in whatever statuses the  *)
(* user approves, and whatever is cancelled, rolled back or reaped meanwhile;  *)
(* for a hard approval only an executor that resumed after it runs one        *)
(* (task_execution_gate.py, task_operations.py).                              *)
THEOREM WorkNeedsTheGate == Spec => []WorkIsAuthorised
<1>1. IInv => WorkIsAuthorised
  BY DEF IInv, NobodyCameIn, HardApprovalWaits, WorkIsAuthorised, Refusing
<1> QED
  BY <1>1, Invariance, PTL
-----------------------------------------------------------------------------
(* Who is about to set which statuses, in any execution.                      *)

Places == {"write", "sync", "artifact", "event", "record", "outcome"}

\* What set_status is called with.
Named ==
  {"CLASSIFIED", "DYNAMIC_RISK_SCORED", "APPROVAL_DECIDED", "AUTO_SILENT", "AUTO_WITH_SUMMARY",
   "SOFT_APPROVAL_WAITING", "HARD_APPROVAL_WAITING", "BLOCKED", "PLANNED", "ROUTED",
   "WORKTREE_READY", "EXECUTING", "RETRYING", "VERIFYING", "CODEX_REVIEWING",
   "POLICY_LEARNING", "PR_CREATED", "COMPLETED_WITH_PATCH", "COMPLETED_NO_CHANGES",
   "COMPLETED_WITH_ARTIFACTS", "COMPLETED_WITH_PARTIAL_ARTIFACTS", "DRY_RUN_COMPLETED",
   "NEEDS_USER", "NEEDS_REVIEW", "FAILED_FINAL", "CANCELLED"}
Unfinished == Named \ SuccessStatuses

CallsType ==
  /\ todo \in [Actors -> Seq(Named)] /\ at \in [Actors -> Places]
  /\ seen \in [Actors -> {"none", "QUEUED", "ROLLED_BACK"} \cup Named]
  /\ status \in {"QUEUED", "ROLLED_BACK"} \cup Named /\ reaps \in Nat

(* Only those who came in have statuses to set, a status query sets one after *)
(* the other, and who has nothing to set is outside of set_status.           *)
CallsInOrder ==
  /\ \A r \in Runs : pc[r] = "off" => todo[r] = <<>>
  /\ rpc # "idle" => todo[Reaper] = <<>>
  /\ \A a \in Actors : todo[a] = <<>> => at[a] = "write"

CInv == CallsType /\ CallsInOrder

\* Executor r, which has nothing left to set, goes on to set some statuses.  A
\* success is set by a dry run, or at the end of the completion pipeline.
Advances(r) ==
  /\ todo[r] = <<>> /\ pc[r] \in Beyond \cup {"gate"}
  /\ \E statuses \in Seq(Named), where \in RunPCs \ {"gate", "off"} :
       /\ Then(r, statuses, where)
       /\ \/ statuses \in Seq(Unfinished)
          \/ IsDryRun(r) /\ statuses = <<"DRY_RUN_COMPLETED">>
          \/ pc[r] \in {"verify", "publish"} /\ where = "end"
  /\ UNCHANGED <<kind, others, crashes>>

LEMMA UnfinishedNames ==
  /\ {"FAILED_FINAL", "BLOCKED", "CLASSIFIED", "DYNAMIC_RISK_SCORED", "APPROVAL_DECIDED",
      "AUTO_SILENT", "AUTO_WITH_SUMMARY", "SOFT_APPROVAL_WAITING", "HARD_APPROVAL_WAITING",
      "ROUTED", "WORKTREE_READY", "EXECUTING", "RETRYING", "CANCELLED", "NEEDS_USER",
      "NEEDS_REVIEW", "VERIFYING", "CODEX_REVIEWING", "POLICY_LEARNING", "PLANNED"}
       \subseteq Unfinished
  /\ Unfinished \subseteq Named
  /\ Scored \in Seq(Unfinished)
<1>1. {"CLASSIFIED", "DYNAMIC_RISK_SCORED", "APPROVAL_DECIDED"} \subseteq Unfinished
  BY DEF Unfinished, Named, SuccessStatuses
<1> QED
  BY <1>1 DEF Unfinished, Named, SuccessStatuses, Scored

LEMMA Wider ==
  ASSUME NEW S, NEW T, S \subseteq T, NEW s \in Seq(S)
  PROVE  s \in Seq(T)
OBVIOUS

LEMMA ScoredStatuses ==
  ASSUME NEW s \in Unfinished
  PROVE  Append(Scored, s) \in Seq(Unfinished)
BY UnfinishedNames

LEMMA Advance ==
  ASSUME NEW r \in Runs, NEW old \in Beyond \cup {"gate"}, Ready(r, old),
         NEW where \in RunPCs \ {"gate", "off"}, NEW statuses \in Seq(Unfinished),
         Then(r, statuses, where), UNCHANGED <<kind, others, crashes>>
  PROVE  Advances(r)
<1>1. statuses \in Seq(Named)
  BY UnfinishedNames, Wider
<1> QED
  BY <1>1 DEF Advances, Ready

LEMMA AdvanceToSuccess ==
  ASSUME NEW r \in Runs, NEW s \in Named,
         \/ Ready(r, "degraded") /\ IsDryRun(r) /\ s = "DRY_RUN_COMPLETED"
         \/ Ready(r, "verify") \/ Ready(r, "publish"),
         Then(r, <<s>>, "end"), UNCHANGED <<kind, others, crashes>>
  PROVE  Advances(r)
<1>1. <<s>> \in Seq(Named) /\ "end" \in RunPCs \ {"gate", "off"}
  BY DEF RunPCs
<1> QED
  BY <1>1 DEF Advances, Ready, Beyond

LEMMA StepsAdvance ==
  ASSUME NEW r \in Runs, Gate(r) \/ StepsBeyond(r)
  PROVE  Advances(r)
<1> DEFINE From == Beyond \cup {"gate"}
           To == RunPCs \ {"gate", "off"}
           Same == UNCHANGED <<kind, others, crashes>>
<1>1. \A old \in From, where \in To :
        Ready(r, old) /\ Then(r, <<>>, where) /\ Same => Advances(r)
  <2>1. <<>> \in Seq(Unfinished)
    OBVIOUS
  <2> QED
    BY <2>1, Advance
<1>2. \A old \in From, where \in To, s \in Unfinished :
        Ready(r, old) /\ Then(r, <<s>>, where) /\ Same => Advances(r)
  <2>1. \A s \in Unfinished : <<s>> \in Seq(Unfinished)
    OBVIOUS
  <2> QED
    BY <2>1, Advance
<1>3. \A old \in From, where \in To, s, t \in Unfinished :
        Ready(r, old) /\ Then(r, <<s, t>>, where) /\ Same => Advances(r)
  <2>1. \A s, t \in Unfinished : <<s, t>> \in Seq(Unfinished)
    OBVIOUS
  <2> QED
    BY <2>1, Advance
<1>4. \A old \in From, where \in To, s \in Unfinished :
        Ready(r, old) /\ Then(r, Append(Scored, s), where) /\ Same => Advances(r)
  BY ScoredStatuses, Advance
<1>5. {"end", "raised", "route", "prepare", "attempt", "work", "working", "degraded", "pipeline",
       "verify", "review", "publish"} \subseteq To
  BY DEF RunPCs
<1>6. {"gate", "route", "prepare", "attempt", "work", "working", "degraded", "pipeline",
       "verify", "review", "publish"} \subseteq From
  BY DEF Beyond
<1> HIDE DEF From, To
<1> USE UnfinishedNames, <1>5, <1>6
<1>10. CASE Gate(r)
  BY <1>2, <1>3, <1>4, <1>10 DEF Gate
<1>11. CASE Route(r)
  BY <1>2, <1>11 DEF Route, task
<1>12. CASE PrepareWorktree(r)
  BY <1>1, <1>3, <1>12 DEF PrepareWorktree, task
<1>13. CASE StartAttempt(r)
  BY <1>2, <1>13 DEF StartAttempt, task
<1>14. CASE StartWorker(r)
  BY <1>1, <1>2, <1>14 DEF StartWorker, RetryOrFail, task
<1>15. CASE WorkerReturns(r)
  BY <1>1, <1>2, <1>15 DEF WorkerReturns, RetryOrFail, task
<1>16. CASE WorkerCancelled(r) \/ WorkerException(r)
  BY <1>2, <1>16 DEF WorkerCancelled, WorkerException, task
<1>17. CASE DegradedMock(r)
  <2>1. "DRY_RUN_COMPLETED" \in Named
    BY DEF Named
  <2> QED
    BY <1>1, <1>2, <1>17, <2>1, AdvanceToSuccess DEF DegradedMock, Pipeline, task
<1>18. CASE StartVerify(r)
  BY <1>2, <1>18 DEF StartVerify, Pipeline, task
<1>19. CASE Verify(r)
  <2>1. {"COMPLETED_WITH_ARTIFACTS", "COMPLETED_WITH_PARTIAL_ARTIFACTS"} \subseteq Named
    BY DEF Named
  <2> QED
    BY <1>1, <1>2, <1>19, <2>1, AdvanceToSuccess DEF Verify, Pipeline, task
<1>20. CASE Review(r)
  BY <1>1, <1>2, <1>3, <1>20 DEF Review, Pipeline, task
<1>21. CASE Publish(r)
  <2>1. {"PR_CREATED", "COMPLETED_WITH_PATCH", "COMPLETED_NO_CHANGES"} \subseteq Named
    BY DEF Named
  <2> QED
    BY <1>1, <1>21, <2>1, AdvanceToSuccess DEF Publish, Pipeline, task
<1> QED
  BY <1>10, <1>11, <1>12, <1>13, <1>14, <1>15, <1>16, <1>17, <1>18, <1>19, <1>20, <1>21
     DEF StepsBeyond

LEMMA RunnersAdvance ==
  ASSUME NEW r \in Runs, RunStep(r)
  PROVE  SetStatus(r) \/ FirstHeartbeat(r) \/ Advances(r)
BY StepsAdvance DEF RunStep, StepsBeyond

LEMMA InitCInv == Init => CInv
<1> SUFFICES ASSUME Init PROVE CInv
  OBVIOUS
<1>1. \A a \in Actors : <<>> \in Seq(Named)
  OBVIOUS
<1>2. CallsType
  BY <1>1 DEF Init, CallsType, Places
<1>3. CallsInOrder
  BY SubmittedRuns DEF Init, CallsInOrder
<1> QED
  BY <1>2, <1>3 DEF CInv

\* What one access of set_status does.
Wrote(a) ==
  /\ at[a] = "write" /\ at' = [at EXCEPT ![a] = "sync"]
  /\ alone' = /\ \A b \in Actors : at[b] = "write"
              /\ bpc = "idle" /\ opc \notin {"cancelEvent", "rollbackEvent"}
  /\ status' = Head(todo[a]) /\ UNCHANGED <<artifact, trail, outcome, todo, seen>>
Looked(a) ==
  /\ \/ at[a] = "sync" /\ at' = [at EXCEPT ![a] = "artifact"]
     \/ at[a] = "record" /\ at' = [at EXCEPT ![a] = "outcome"]
  /\ seen' = [seen EXCEPT ![a] = status] /\ UNCHANGED <<row, todo, alone>>
Synced(a) ==
  /\ at[a] = "artifact" /\ at' = [at EXCEPT ![a] = "event"]
  /\ seen' = [seen EXCEPT ![a] = "none"]
  /\ artifact' = seen[a] /\ UNCHANGED <<status, trail, outcome, todo, alone>>
Logged(a) ==
  /\ at[a] = "event" /\ Head(todo[a]) \in OutcomeStatuses
  /\ at' = [at EXCEPT ![a] = "record"]
  /\ trail' = Head(todo[a]) /\ UNCHANGED <<status, artifact, outcome, todo, seen, alone>>
Finished(a) ==
  /\ at' = [at EXCEPT ![a] = "write"] /\ todo' = [todo EXCEPT ![a] = Tail(todo[a])]
  /\ \/ /\ at[a] = "event" /\ Head(todo[a]) \notin OutcomeStatuses
        /\ trail' = Head(todo[a]) /\ UNCHANGED <<status, artifact, outcome, seen, alone>>
     \/ /\ at[a] = "outcome" /\ seen' = [seen EXCEPT ![a] = "none"]
        /\ outcome' = seen[a] /\ UNCHANGED <<status, artifact, trail, alone>>

LEMMA OneAccess ==
  ASSUME CInv, NEW a \in Actors, SetStatus(a)
  PROVE  /\ todo[a] # <<>> /\ Head(todo[a]) \in Named /\ Tail(todo[a]) \in Seq(Named)
         /\ Wrote(a) \/ Looked(a) \/ Synced(a) \/ Logged(a) \/ Finished(a)
         /\ UNCHANGED <<pc, kind, files, control, published, others, crashes>>
<1> USE DEF SetStatus, WriteRow, ReadForArtifact, ReadForOutcome, ReadRow, SyncArtifact,
            AppendEvent, RecordOutcome
<1>1. todo[a] \in Seq(Named) /\ todo[a] # <<>>
  BY DEF CInv, CallsType
<1>2. Head(todo[a]) \in Named /\ Tail(todo[a]) \in Seq(Named)
  BY <1>1
<1>3. Wrote(a) \/ Looked(a) \/ Synced(a) \/ Logged(a) \/ Finished(a)
  BY DEF Wrote, Looked, Synced, Logged, Finished
<1> QED
  BY <1>1, <1>2, <1>3 DEF task

LEMMA AccessKeepsCalls ==
  ASSUME CInv, NEW a \in Actors, SetStatus(a)
  PROVE  CInv'
<1> USE DEF Wrote, Looked, Synced, Logged, Finished, row, CInv, CallsType
<1>1. /\ todo[a] # <<>> /\ Head(todo[a]) \in Named /\ Tail(todo[a]) \in Seq(Named)
      /\ Wrote(a) \/ Looked(a) \/ Synced(a) \/ Logged(a) \/ Finished(a)
  BY OneAccess
<1>2. todo' \in [Actors -> Seq(Named)] /\ at' \in [Actors -> Places]
  BY <1>1 DEF Places
<1>3. /\ seen' \in [Actors -> {"none", "QUEUED", "ROLLED_BACK"} \cup Named]
      /\ status' \in {"QUEUED", "ROLLED_BACK"} \cup Named
  BY <1>1
<1>4. \A b \in Actors : todo[b] = <<>> => todo'[b] = <<>> /\ at'[b] = at[b]
  BY <1>1
<1>5. todo'[a] = <<>> => at'[a] = "write"
  BY <1>1
<1>6. \A b \in Actors \ {a} : todo'[b] = todo[b] /\ at'[b] = at[b]
  BY <1>1
<1>7. UNCHANGED <<pc, rpc, reaps>>
  BY OneAccess DEF others, query
<1>8. CallsType'
  BY <1>2, <1>3, <1>7
<1>9. CallsInOrder'
  BY <1>4, <1>5, <1>6, <1>7, SubmittedRuns DEF CallsInOrder
<1> QED
  BY <1>8, <1>9

LEMMA StepCInv == IInv /\ CInv /\ [Next]_vars => CInv'
<1> SUFFICES ASSUME IInv, CInv, [Next]_vars PROVE CInv'
  OBVIOUS
<1> USE DEF CInv
<1>1. ASSUME NEW r \in Runs, NEW statuses \in Seq(Named), NEW where \in RunPCs \ {"off"},
             todo[r] = <<>>, Then(r, statuses, where), UNCHANGED <<rpc, reaps>>
      PROVE  CInv'
  <2>1. CallsType'
    BY <1>1, SubmittedRuns DEF CallsType, Then, row
  <2>2. CallsInOrder'
    <3>1. r \in Actors /\ r # Reaper
      BY SubmittedRuns DEF Runs, Reaper
    <3>2. \A b \in Actors \ {r} : todo'[b] = todo[b]
      BY <1>1 DEF CallsType, Then
    <3>3. \A q \in Runs : pc'[q] = "off" => pc[q] = "off" /\ q # r
      BY <1>1 DEF IInv, GateDecidesOnce, Then
    <3>4. at' = at
      BY <1>1 DEF Then
    <3> QED
      BY <1>1, <3>1, <3>2, <3>3, <3>4, SubmittedRuns DEF CallsInOrder, CallsType
  <2> QED
    BY <2>1, <2>2
<1>2. ASSUME NEW r \in Runs, Advances(r) PROVE CInv'
  <2>1. PICK statuses \in Seq(Named), where \in RunPCs \ {"gate", "off"} :
          Then(r, statuses, where)
    BY <1>2 DEF Advances
  <2> QED
    BY <1>1, <1>2, <2>1 DEF Advances, others, query
<1>3. ASSUME NEW r \in Runs, Crash(r) PROVE CInv'
  <2>1. /\ todo' = [todo EXCEPT ![r] = <<>>] /\ at' = [at EXCEPT ![r] = "write"]
        /\ seen' = [seen EXCEPT ![r] = "none"] /\ pc' = [pc EXCEPT ![r] = "crashed"]
        /\ UNCHANGED <<status, rpc, reaps>>
    BY <1>3 DEF Crash, row, others, query
  <2>2. r \in Actors /\ r # Reaper /\ pc \in [Runs -> RunPCs]
    BY SubmittedRuns DEF Runs, Reaper, IInv, GateDecidesOnce
  <2>3. CallsType'
    BY <2>1, <2>2 DEF CallsType, Places
  <2>4. \A q \in Runs : pc'[q] = "off" => pc[q] = "off" /\ q # r
    BY <2>1, <2>2
  <2>5. \A b \in Actors \ {r} : todo'[b] = todo[b] /\ at'[b] = at[b]
    BY <2>1 DEF CallsType
  <2>6. todo'[r] = <<>> /\ at'[r] = "write"
    BY <2>1, <2>2 DEF CallsType
  <2> QED
    BY <2>1, <2>2, <2>3, <2>4, <2>5, <2>6, SubmittedRuns DEF CallsInOrder
<1>4. ASSUME NEW r \in Runs, Approve(r) PROVE CInv'
  <2>1. <<"PLANNED">> \in Seq(Named) /\ "route" \in RunPCs \ {"off"}
    BY DEF RunPCs, Named
  <2>2. todo[r] = <<>>
    BY <1>4 DEF Approve, CallsInOrder
  <2> QED
    BY <1>1, <1>4, <2>1, <2>2 DEF Approve, others, query
<1>5. CASE Operator
  <2>1. UNCHANGED <<todo, at, seen, pc, rpc, reaps>>
    BY <1>5 DEF Operator, calls, query
  <2>2. status' \in {status, "CANCELLED", "ROLLED_BACK"}
    BY <1>5 DEF Operator, CheckCancel, CheckRollback, OperatorStep, RequestCancel,
         OperatorWritesRow, OperatorAppendsEvent, row
  <2>3. "CANCELLED" \in Named
    BY DEF Named
  <2> QED
    BY <2>1, <2>2, <2>3 DEF CallsType, CallsInOrder
<1>6. CASE StatusQuery
  <2>1. UNCHANGED <<status, at, seen, pc>>
    BY <1>6 DEF StatusQuery, row
  <2>2. /\ reaps' \in Nat
        /\ rpc' # "idle" => todo'[Reaper] = <<>>
        /\ todo' = todo \/ \E s \in {"FAILED_FINAL", "COMPLETED_WITH_ARTIFACTS"} :
                              todo' = [todo EXCEPT ![Reaper] = <<s>>]
    BY <1>6, SubmittedRuns DEF StatusQuery, ReadForReap, ReadFiles, WriteFiles, FilesLookStale,
         CallsType, CallsInOrder
  <2>3. \A s \in {"FAILED_FINAL", "COMPLETED_WITH_ARTIFACTS"} : <<s>> \in Seq(Named)
    BY DEF Named
  <2>4. \A r \in Runs : r # Reaper
    BY DEF Runs, Reaper
  <2>5. todo' \in [Actors -> Seq(Named)] /\ \A a \in Actors \ {Reaper} : todo'[a] = todo[a]
    BY <2>2, <2>3 DEF CallsType
  <2>6. todo'[Reaper] = <<>> => todo[Reaper] = <<>>
    <3>1. \A s : <<s>> # <<>>
      OBVIOUS
    <3> QED
      BY <2>2, <3>1, SubmittedRuns DEF CallsType
  <2> QED
    BY <2>1, <2>2, <2>4, <2>5, <2>6, SubmittedRuns DEF CallsType, CallsInOrder
<1>7. CASE Backfill
  BY <1>7 DEF Backfill, calls, query, CallsType, CallsInOrder
<1>8. ASSUME NEW r \in Runs, FirstHeartbeat(r) PROVE CInv'
  BY <1>8 DEF FirstHeartbeat, row, calls, others, query, CallsType, CallsInOrder
<1>9. CASE UNCHANGED vars
  BY <1>9 DEF vars, row, calls, others, query, CallsType, CallsInOrder
<1> QED
  BY <1>2, <1>3, <1>4, <1>5, <1>6, <1>7, <1>8, <1>9, AccessKeepsCalls, RunnersAdvance,
     SubmittedRuns DEF Next

-----------------------------------------------------------------------------
(* The row, task.json, the events and the outcome.                           *)

Agreed ==
  /\ artifact = status /\ trail = status
  /\ status \in OutcomeStatuses => outcome = status

\* Only a is in the middle of set_status, and what it did so far agrees.
Inside(a) ==
  /\ at[a] # "write" /\ \A b \in Actors \ {a} : at[b] = "write"
  /\ Head(todo[a]) = status
  /\ at[a] \in {"artifact", "outcome"} => seen[a] = status
  /\ at[a] \in {"event", "record", "outcome"} => artifact = status
  /\ at[a] \in {"record", "outcome"} => trail = status

(* When the last set_status began alone, the records agree or are being       *)
(* brought to agree; the console, if it is about to record an outcome, has    *)
(* read the row as it is.                                                    *)
Stories ==
  alone /\ status \notin OperatorStatuses =>
    /\ opc \notin {"cancelEvent", "rollbackEvent"}
    /\ bpc # "idle" => bseen = status
    /\ \/ (\A a \in Actors : at[a] = "write") /\ Agreed
       \/ \E a \in Actors : Inside(a)

LEMMA InitStories == Init => Stories
<1>1. "QUEUED" \notin OutcomeStatuses
  BY DEF OutcomeStatuses, SuccessStatuses, FailedStatuses, ApprovalStatuses
<1> QED
  BY <1>1 DEF Init, Stories, Agreed

\* A step that leaves the records and whoever is inside set_status as they are.
LEMMA RecordsStay ==
  ASSUME CInv, Stories, UNCHANGED <<status, artifact, trail, outcome, at, seen, bpc, bseen>>,
         alone' => alone, opc' \in {"cancelEvent", "rollbackEvent"} => opc' = opc,
         \A a \in Actors : todo[a] # <<>> => todo'[a] = todo[a]
  PROVE  Stories'
<1>1. \A a \in Actors : at[a] # "write" => todo[a] # <<>>
  BY DEF CInv, CallsInOrder
<1>2. \A a \in Actors : Inside(a) => Inside(a)'
  BY <1>1 DEF Inside
<1> QED
  BY <1>2 DEF Stories, Agreed

LEMMA AccessKeepsStories ==
  ASSUME CInv, Stories, NEW a \in Actors, SetStatus(a)
  PROVE  Stories'
<1> SUFFICES ASSUME alone', status' \notin OperatorStatuses
             PROVE  /\ opc \notin {"cancelEvent", "rollbackEvent"}
                    /\ bpc # "idle" => bseen = status'
                    /\ \/ (\A b \in Actors : at'[b] = "write") /\ Agreed'
                       \/ \E b \in Actors : Inside(b)'
  BY OneAccess DEF Stories, others, operator, console
<1>1. /\ todo[a] # <<>>
      /\ Wrote(a) \/ Looked(a) \/ Synced(a) \/ Logged(a) \/ Finished(a)
  BY OneAccess
<1>2. /\ todo \in [Actors -> Seq(Named)] /\ at \in [Actors -> Places]
      /\ DOMAIN seen = Actors
  BY DEF CInv, CallsType
<1>3. CASE Wrote(a)
  <2>1. /\ \A b \in Actors : at[b] = "write"
        /\ bpc = "idle" /\ opc \notin {"cancelEvent", "rollbackEvent"}
    BY <1>3 DEF Wrote
  <2>2. Inside(a)'
    BY <1>2, <1>3, <2>1 DEF Wrote, Inside
  <2> QED
    BY <2>1, <2>2
<1>4. CASE ~Wrote(a)
  <2>1. alone /\ status' = status /\ at[a] # "write"
    BY <1>1, <1>4 DEF Looked, Synced, Logged, Finished, row
  <2>2. /\ opc \notin {"cancelEvent", "rollbackEvent"}
        /\ bpc # "idle" => bseen = status
        /\ Inside(a)
    BY <2>1 DEF Stories, Inside
  <2>3. CASE Looked(a)
    <3>1. Inside(a)'
      BY <1>2, <2>2, <2>3 DEF Looked, Inside, row
    <3> QED
      BY <2>1, <2>2, <3>1
  <2>4. CASE Synced(a)
    <3>1. Inside(a)'
      BY <1>2, <2>2, <2>4 DEF Synced, Inside
    <3> QED
      BY <2>1, <2>2, <3>1
  <2>5. CASE Logged(a)
    <3>1. Inside(a)'
      BY <1>2, <2>2, <2>5 DEF Logged, Inside
    <3> QED
      BY <2>1, <2>2, <3>1
  <2>6. CASE Finished(a)
    <3>1. \A b \in Actors : at'[b] = "write"
      BY <1>2, <2>2, <2>6 DEF Finished, Inside
    <3>2. Agreed'
      BY <1>2, <2>2, <2>6 DEF Finished, Inside, Agreed
    <3> QED
      BY <2>1, <2>2, <3>1, <3>2
  <2> QED
    BY <1>1, <1>4, <2>3, <2>4, <2>5, <2>6
<1> QED
  BY <1>3, <1>4

LEMMA StepStories == IInv /\ CInv /\ Stories /\ [Next]_vars => Stories'
<1> SUFFICES ASSUME IInv, CInv, Stories, [Next]_vars PROVE Stories'
  OBVIOUS
<1>1. ASSUME NEW r \in Runs, NEW statuses, NEW where, Then(r, statuses, where), todo[r] = <<>>,
             UNCHANGED others
      PROVE  Stories'
  <2>1. \A a \in Actors : todo[a] # <<>> => todo'[a] = todo[a]
    BY <1>1 DEF Then, CInv, CallsType
  <2> QED
    BY <1>1, <2>1, RecordsStay DEF Then, row, others, operator, console
<1>2. ASSUME NEW r \in Runs, Advances(r) PROVE Stories'
  BY <1>1, <1>2 DEF Advances
<1>3. ASSUME NEW r \in Runs, Approve(r) PROVE Stories'
  BY <1>1, <1>3 DEF Approve, CInv, CallsInOrder
<1>4. ASSUME NEW r \in Runs, Crash(r) PROVE Stories'
  <2> SUFFICES ASSUME alone', status \notin OperatorStatuses PROVE Stories'
    BY <1>4 DEF Crash, Stories, row
  <2>1. /\ at[r] = "write" /\ alone
        /\ at' = [at EXCEPT ![r] = "write"] /\ seen' = [seen EXCEPT ![r] = "none"]
        /\ todo' = [todo EXCEPT ![r] = <<>>]
        /\ UNCHANGED <<status, artifact, trail, outcome, opc, bpc, bseen>>
    BY <1>4 DEF Crash, row, others, operator, console
  <2>2. \A a \in Actors \ {r} : at'[a] = at[a] /\ seen'[a] = seen[a] /\ todo'[a] = todo[a]
    BY <2>1 DEF CInv, CallsType
  <2>3. at' = at
    BY <2>1, SubmittedRuns DEF CInv, CallsType
  <2>4. \A a \in Actors : Inside(a) => Inside(a)'
    BY <2>1, <2>2, <2>3 DEF Inside
  <2> QED
    BY <2>1, <2>3, <2>4 DEF Stories, Agreed
<1>5. CASE Operator
  <2>1. UNCHANGED <<todo, at, seen, alone, bpc, bseen>>
    BY <1>5 DEF Operator, calls, console
  <2>2. CASE CheckCancel \/ CheckRollback \/ RequestCancel
    BY <2>1, <2>2, RecordsStay DEF CheckCancel, CheckRollback, RequestCancel, row
  <2>3. CASE OperatorWritesRow
    BY <2>3 DEF OperatorWritesRow, Stories, OperatorStatuses
  <2>4. CASE OperatorAppendsEvent
    <3>1. opc \in {"cancelEvent", "rollbackEvent"} /\ status' = status
      BY <2>4 DEF OperatorAppendsEvent
    <3> QED
      BY <2>1, <3>1 DEF Stories
  <2> QED
    BY <1>5, <2>2, <2>3, <2>4 DEF Operator, OperatorStep
<1>6. CASE StatusQuery
  <2>1. UNCHANGED <<status, artifact, trail, outcome, at, seen, alone, opc, bpc, bseen>>
    BY <1>6 DEF StatusQuery, row, operator, console
  <2>2. \A a \in Actors : todo[a] # <<>> => todo'[a] = todo[a]
    BY <1>6 DEF StatusQuery, ReadForReap, ReadFiles, WriteFiles, FilesLookStale, CInv, CallsType,
         CallsInOrder
  <2> QED
    BY <2>1, <2>2, RecordsStay
<1>7. CASE Backfill
  <2>1. UNCHANGED <<status, artifact, trail, todo, at, seen, alone, opc>>
    BY <1>7 DEF Backfill, calls, operator
  <2>2. \A a \in Actors : Inside(a) => Inside(a)'
    BY <2>1 DEF Inside
  <2>3. /\ bpc' # "idle" => (bpc # "idle" /\ bseen' = bseen) \/ bseen' = status
        /\ outcome' = outcome \/ (bpc # "idle" /\ outcome' = bseen)
    BY <1>7 DEF Backfill, ListForBackfill, CheckOutcome, BackfillOutcome
  <2> QED
    BY <2>1, <2>2, <2>3 DEF Stories, Agreed
<1>8. ASSUME NEW r \in Runs, FirstHeartbeat(r) PROVE Stories'
  BY <1>8, RecordsStay DEF FirstHeartbeat, row, calls, others, operator, console
<1>9. CASE UNCHANGED vars
  BY <1>9, RecordsStay DEF vars, row, calls, others, operator, console
<1> QED
  BY <1>2, <1>3, <1>4, <1>5, <1>6, <1>7, <1>8, <1>9, AccessKeepsStories, RunnersAdvance,
     SubmittedRuns DEF Next

LEMMA CallsInvariance == Spec => [](IInv /\ CInv /\ Stories)
BY InitIInv, NextIInv, InitCInv, StepCInv, InitStories, StepStories, PTL DEF Spec

(* When nobody is in the middle of anything, task.json, the last event and    *)
(* the outcome are those of the row, if the last set_status began alone and   *)
(* was finished, whoever wrote before it and in whatever order: for any       *)
(* number of approvals, attempts, cancels, rollbacks, reaps, pauses,          *)
(* backfills and deaths (set_status, sync_task_artifact_from_db,              *)
(* record_task_outcome, _backfill_task_outcomes).                            *)
THEOREM UndisturbedStoriesAgree == Spec => []StoriesAgree
<1>1. CInv /\ Stories => StoriesAgree
  <2> SUFFICES ASSUME CInv, Stories, Quiet, alone, status \notin OperatorStatuses
               PROVE  Agreed
    BY DEF StoriesAgree, Agreed
  <2>1. \A a \in Actors : at[a] = "write"
    BY DEF Quiet, RunStopped, Actors, CInv, CallsInOrder
  <2> QED
    BY <2>1 DEF Stories, Inside
<1> QED
  BY <1>1, CallsInvariance, PTL

-----------------------------------------------------------------------------
(* One executor works at a time, and what it published or was killed at.      *)

\* A dry run starts no process.
Real == {"working", "pipeline", "verify", "review", "publish"}

(* Who works has made the branch, which stays and refuses everybody else.     *)
OneWorks ==
  /\ OneExecutorWorks
  /\ \A r \in Runs : /\ Works(r) => branch = TRUE
                     /\ IsDryRun(r) => pc[r] \notin Real

NobodyWorks == branch = TRUE /\ \A r \in Runs : ~Works(r)
OnlyWaits == branch = TRUE /\ published = {} /\ \A r \in Runs : Works(r) => pc[r] = "working"

(* Who published has ended.  While a process runs, and when one has been      *)
(* killed, whoever works waits for its worker and nothing was published; and  *)
(* once one has been killed the cancel request is there.                     *)
WorkFollows ==
  /\ published # {} => NobodyWorks
  /\ process = "running" => OnlyWaits
  /\ killed => OnlyWaits /\ cancelFile = TRUE

\* The statuses that may be set although the worker was killed.
Harmless ==
  {"QUEUED", "ROLLED_BACK"} \cup Unfinished
    \cup (IF dryRun = TRUE THEN {"DRY_RUN_COMPLETED"} ELSE {})
    \cup (IF rowRequiresDiff = FALSE /\ reaps > 0 THEN {"COMPLETED_WITH_ARTIFACTS"} ELSE {})

(* A success other than these comes from the executor that works, at its end. *)
SuccessIsLast ==
  \/ NobodyWorks /\ process # "running" /\ ~killed
  \/ status \in Harmless /\ \A a \in Actors : todo[a] \in Seq(Harmless)

WorkType == killed \in BOOLEAN /\ dryRun \in BOOLEAN /\ rowRequiresDiff \in BOOLEAN

WInv == WorkType /\ OneWorks /\ WorkFollows

LEMMA InitWInv == Init => WInv
<1> SUFFICES ASSUME Init PROVE WInv
  OBVIOUS
<1>1. \A r \in Runs : pc[r] \in {"gate", "off"}
  BY DEF Init
<1>2. \A r \in Runs : ~Works(r)
  BY <1>1 DEF Works, AtWork
<1>3. OneWorks
  BY <1>1, <1>2 DEF OneWorks, OneExecutorWorks, Real
<1> QED
  BY <1>2, <1>3 DEF Init, WInv, WorkType, WorkFollows

\* Executor r is somewhere else, but does not begin to work, and goes on with
\* its work after its worker only if no process runs and nobody cancelled.
LEMMA MoveKeepsWork ==
  ASSUME IInv, WInv, NEW r \in Runs, NEW where \in RunPCs \ {"working"},
         pc' = [pc EXCEPT ![r] = where],
         where \in AtWork => pc[r] \in AtWork,
         where \in Real => pc[r] \in Real,
         where \in AtWork /\ pc[r] = "working" => process' # "running" /\ cancelFile # TRUE,
         UNCHANGED <<files, kind, cancelFile, killed, published>>,
         process' = process \/ process' # "running"
  PROVE  WInv'
<1>1. pc \in [Runs -> RunPCs] /\ \A s \in Runs \ {r} : pc'[s] = pc[s]
  BY DEF IInv, GateDecidesOnce
<1>2. pc'[r] = where
  BY <1>1
<1>3. \A s \in Runs : IsDryRun(s)' = IsDryRun(s)
  BY DEF IsDryRun, kind
<1>4. \A s \in Runs : Works(s)' => Works(s)
  BY <1>1, <1>2, <1>3 DEF Works
<1>5. OneWorks'
  <2>1. IsDryRun(worktree)' <=> IsDryRun(worktree)
    BY DEF IsDryRun, files, kind
  <2>2. OneExecutorWorks'
    BY <1>4, <2>1 DEF WInv, OneWorks, OneExecutorWorks, files
  <2> QED
    BY <1>1, <1>2, <1>3, <1>4, <2>2 DEF WInv, OneWorks, files
<1>6. WorkFollows'
  <2>1. published' # {} => NobodyWorks'
    BY <1>4 DEF WInv, WorkFollows, NobodyWorks, files
  <2>2. ASSUME OnlyWaits, process' = "running" \/ cancelFile = TRUE PROVE OnlyWaits'
    <3>1. Works(r)' => FALSE
      <4> SUFFICES ASSUME Works(r)' PROVE FALSE
        OBVIOUS
      <4>1. Works(r) /\ where \in AtWork
        BY <1>2, <1>4 DEF Works
      <4> QED
        BY <2>2, <4>1 DEF OnlyWaits
    <3> QED
      BY <1>1, <1>4, <2>2, <3>1 DEF OnlyWaits, files
  <2> QED
    BY <2>1, <2>2 DEF WInv, WorkFollows
<1> QED
  BY <1>5, <1>6 DEF WInv, WorkType, kind

\* A step that moves no executor.
LEMMA OthersKeepWork ==
  ASSUME WInv, UNCHANGED <<pc, files, kind, published>>,
         process' = process \/ process' # "running",
         \/ UNCHANGED <<killed, cancelFile>>
         \/ cancelFile' = TRUE /\ killed' = (killed \/ process = "running")
  PROVE  WInv'
<1>1. \A s \in Runs : (Works(s)' <=> Works(s)) /\ (IsDryRun(s)' <=> IsDryRun(s))
  BY DEF Works, IsDryRun, kind
<1>2. IsDryRun(worktree)' <=> IsDryRun(worktree)
  BY DEF IsDryRun, files, kind
<1>3. OneWorks'
  BY <1>1, <1>2 DEF WInv, OneWorks, OneExecutorWorks, files
<1>4. (NobodyWorks' <=> NobodyWorks) /\ (OnlyWaits' <=> OnlyWaits)
  BY <1>1 DEF NobodyWorks, OnlyWaits, files
<1>5. WorkType'
  BY DEF WInv, WorkType, kind
<1>6. process' = "running" => OnlyWaits
  BY DEF WInv, WorkFollows
<1>7. killed' => OnlyWaits /\ cancelFile' = TRUE
  BY DEF WInv, WorkFollows
<1> QED
  BY <1>3, <1>4, <1>5, <1>6, <1>7 DEF WInv, WorkFollows

\* A worktree is made where no branch is, and so when nobody works.
LEMMA PrepareKeepsWork ==
  ASSUME IInv, WInv, NEW r \in Runs, PrepareWorktree(r)
  PROVE  WInv'
<1>1. /\ pc[r] = "prepare" /\ pc \in [Runs -> RunPCs]
      /\ UNCHANGED <<kind, control, killed, published>>
  BY DEF PrepareWorktree, Ready, IInv, GateDecidesOnce, task, others, operator
<1>2. ~Works(r) /\ \A s \in Runs : IsDryRun(s)' = IsDryRun(s)
  BY <1>1 DEF Works, AtWork, IsDryRun, kind
<1>3. WorkType'
  BY <1>1 DEF WInv, WorkType, kind
<1>4. \A s \in Runs \ {r} : pc'[s] = pc[s] /\ (Works(s)' <=> Works(s))
  BY <1>1, <1>2 DEF PrepareWorktree, Then, Works
<1>5. CASE /\ ~IsDryRun(r) /\ ~branch /\ worktree' = r /\ branch' = TRUE
           /\ pc' = [pc EXCEPT ![r] = "attempt"]
  <2>1. \A s \in Runs : ~Works(s)
    BY <1>5 DEF WInv, OneWorks
  <2>2. /\ \A s \in Runs : Works(s)' => s = r
        /\ pc'[r] = "attempt"
    BY <1>1, <1>4, <1>5, <2>1
  <2>3. OneWorks'
    BY <1>2, <1>4, <1>5, <2>2 DEF OneWorks, OneExecutorWorks, WInv, Real
  <2>4. branch # TRUE
    BY <1>5
  <2>5. published = {} /\ process # "running" /\ ~killed
    BY <2>4 DEF WInv, WorkFollows, NobodyWorks, OnlyWaits
  <2> QED
    BY <1>1, <1>3, <2>3, <2>5 DEF WInv, WorkFollows, control
<1>6. CASE /\ branch' \in {branch, TRUE}
           /\ \/ worktree' = 0 /\ pc' = [pc EXCEPT ![r] = "raised"]
              \/ /\ IsDryRun(r) /\ worktree' \in {r, worktree}
                 /\ pc' = [pc EXCEPT ![r] = "attempt"]
  <2>1. ~Works(r)' /\ pc'[r] \notin Real
    BY <1>1, <1>2, <1>6 DEF Works, AtWork, Real
  <2>2. \A s \in Runs : Works(s)' <=> Works(s)
    BY <1>2, <1>4, <2>1
  <2>3. \A s \in Runs : Works(s) => (worktree \in {0, s} \/ IsDryRun(worktree))'
    <3>1. \A s \in Runs : Works(s) => worktree \in {0, s} \/ IsDryRun(worktree)
      BY DEF WInv, OneWorks, OneExecutorWorks
    <3>2. CASE worktree' = 0
      BY <3>2
    <3>3. CASE worktree' = worktree
      <4>1. IsDryRun(worktree) => IsDryRun(worktree)'
        BY <1>1, <3>3 DEF IsDryRun, kind
      <4> QED
        BY <3>1, <3>3, <4>1
    <3>4. CASE worktree' = r /\ IsDryRun(r)
      BY <1>1, <3>4 DEF IsDryRun, kind
    <3> QED
      BY <1>6, <3>2, <3>3, <3>4
  <2>4. \A s \in Runs : /\ Works(s)' => branch' = TRUE
                        /\ IsDryRun(s)' => pc'[s] \notin Real
    BY <1>2, <1>4, <1>6, <2>1, <2>2 DEF WInv, OneWorks
  <2>5. OneWorks'
    <3>1. \A s, t \in Runs : Works(s) /\ Works(t) => t = s
      BY DEF WInv, OneWorks, OneExecutorWorks
    <3> QED
      BY <2>2, <2>3, <2>4, <3>1 DEF OneWorks, OneExecutorWorks
  <2>6. (NobodyWorks => NobodyWorks') /\ (OnlyWaits => OnlyWaits')
    BY <1>1, <1>4, <1>6, <2>1, <2>2 DEF NobodyWorks, OnlyWaits
  <2> QED
    BY <1>1, <1>3, <2>5, <2>6 DEF WInv, WorkFollows, control
<1> QED
  BY <1>5, <1>6 DEF PrepareWorktree, Then

\* A worker starts, for who works and alone does so.
LEMMA WorkerStarts ==
  ASSUME IInv, WInv, NEW r \in Runs, pc[r] = "work", ~IsDryRun(r),
         pc' = [pc EXCEPT ![r] = "working"],
         UNCHANGED <<files, kind, cancelFile, killed, published>>
  PROVE  WInv'
<1>1. /\ pc'[r] = "working" /\ \A s \in Runs \ {r} : pc'[s] = pc[s]
      /\ \A s \in Runs : IsDryRun(s)' <=> IsDryRun(s)
  BY DEF IInv, GateDecidesOnce, IsDryRun, kind
<1>2. Works(r) /\ Works(r)'
  BY <1>1 DEF Works, AtWork
<1>3. \A s \in Runs : (Works(s)' <=> Works(s)) /\ (Works(s) => s = r)
  BY <1>1, <1>2 DEF Works, WInv, OneWorks, OneExecutorWorks
<1>4. branch = TRUE /\ branch' = branch
  BY <1>2 DEF WInv, OneWorks, files
<1>5. OneWorks'
  <2>1. (worktree \in {0, r} \/ IsDryRun(worktree))'
    <3>1. worktree \in {0, r} \/ IsDryRun(worktree)
      BY <1>2 DEF WInv, OneWorks, OneExecutorWorks
    <3> QED
      BY <3>1 DEF IsDryRun, files, kind
  <2>2. \A s \in Runs : /\ Works(s)' => branch' = TRUE
                        /\ IsDryRun(s)' => pc'[s] \notin Real
    BY <1>1, <1>4 DEF WInv, OneWorks
  <2> QED
    BY <1>2, <1>3, <2>1, <2>2 DEF OneWorks, OneExecutorWorks
<1>6. ~killed /\ published = {}
  BY <1>2 DEF WInv, WorkFollows, NobodyWorks, OnlyWaits
<1>7. OnlyWaits'
  BY <1>1, <1>3, <1>4, <1>6 DEF OnlyWaits
<1> QED
  BY <1>5, <1>6, <1>7 DEF WInv, WorkType, WorkFollows, kind

\* Who publishes worked alone, and ends.
LEMMA PublicationEndsWork ==
  ASSUME IInv, WInv, NEW r \in Runs, pc[r] \in {"verify", "publish"},
         pc' = [pc EXCEPT ![r] = "end"],
         UNCHANGED <<files, kind, control, killed>>
  PROVE  WInv' /\ NobodyWorks' /\ process # "running" /\ ~killed
<1>1. /\ pc'[r] = "end" /\ \A s \in Runs \ {r} : pc'[s] = pc[s]
      /\ \A s \in Runs : IsDryRun(s)' <=> IsDryRun(s)
  BY DEF IInv, GateDecidesOnce, IsDryRun, kind
<1>2. Works(r)
  BY DEF Works, AtWork, WInv, OneWorks, Real
<1>3. \A s \in Runs : ~Works(s)'
  BY <1>1, <1>2 DEF Works, AtWork, WInv, OneWorks, OneExecutorWorks
<1>4. branch' = TRUE
  BY <1>2 DEF WInv, OneWorks, files
<1>5. OneWorks'
  BY <1>1, <1>3 DEF WInv, OneWorks, OneExecutorWorks, Real
<1>6. process # "running" /\ ~killed
  BY <1>2 DEF WInv, WorkFollows, OnlyWaits
<1>7. NobodyWorks'
  BY <1>3, <1>4 DEF NobodyWorks
<1> QED
  BY <1>5, <1>6, <1>7 DEF WInv, WorkType, WorkFollows, kind, control

LEMMA StepsKeepWork ==
  ASSUME IInv, WInv, NEW r \in Runs, Gate(r) \/ StepsBeyond(r) \/ Crash(r) \/ Approve(r)
  PROVE  WInv'
<1> DEFINE Same == UNCHANGED <<files, kind, cancelFile, killed, published>>
           To(where) == pc' = [pc EXCEPT ![r] = where]
<1> USE DEF Ready, Then, task, control, others, operator
<1>1. ASSUME NEW where \in RunPCs \ AtWork, To(where), Same,
             process' = process \/ process' # "running"
      PROVE  WInv'
  <2>1. where \in RunPCs \ {"working"} /\ where \notin AtWork /\ where \notin Real
    BY DEF AtWork, Real
  <2> QED
    BY <1>1, <2>1, MoveKeepsWork
<1>2. ASSUME NEW where \in AtWork \ {"working"}, To(where), Same, pc[r] \in AtWork,
             where \in Real => pc[r] \in Real,
             \/ pc[r] # "working" /\ process' = process
             \/ process' # "running" /\ ~cancelFile
      PROVE  WInv'
  <2>1. where \in RunPCs \ {"working"}
    BY DEF AtWork, RunPCs
  <2> QED
    BY <1>2, <2>1, MoveKeepsWork
<1>3. {"end", "raised", "crashed", "route", "prepare"} \subseteq RunPCs \ AtWork
  BY DEF RunPCs, AtWork
<1>4. /\ {"attempt", "work", "degraded"} \subseteq AtWork \ ({"working"} \cup Real)
      /\ {"pipeline", "verify", "review", "publish"} \subseteq (AtWork \ {"working"}) \cap Real
      /\ "working" \in AtWork \cap Real
  BY DEF AtWork, Real
<1> HIDE DEF To
<1>10. CASE Gate(r) \/ Route(r) \/ Approve(r) \/ Crash(r)
  <2>1. \E where \in {"end", "route", "prepare", "crashed"} : To(where)
    BY <1>10 DEF Gate, Route, Approve, Crash, To
  <2>2. Same /\ process' = process
    BY <1>10 DEF Gate, Route, Approve, Crash
  <2> QED
    BY <1>1, <1>3, <2>1, <2>2
<1>11. CASE PrepareWorktree(r)
  BY <1>11, PrepareKeepsWork
<1>12. CASE StartAttempt(r)
  <2>1. \E where \in {"end", "work"} : To(where)
    BY <1>12 DEF StartAttempt, To
  <2>2. pc[r] = "attempt" /\ Same /\ process' = process
    BY <1>12 DEF StartAttempt
  <2> QED
    BY <1>1, <1>2, <1>3, <1>4, <2>1, <2>2
<1>13. CASE StartWorker(r)
  <2>1. pc[r] = "work" /\ Same
    BY <1>13 DEF StartWorker
  <2>2. CASE ~IsDryRun(r) /\ To("working")
    BY <2>1, <2>2, WorkerStarts DEF To
  <2>3. CASE process' = process /\ \E where \in {"end", "attempt", "degraded"} : To(where)
    BY <1>1, <1>2, <1>3, <1>4, <2>1, <2>3
  <2> QED
    BY <1>13, <2>2, <2>3 DEF StartWorker, RetryOrFail, To
<1>14. CASE WorkerReturns(r)
  <2>1. \E where \in {"pipeline", "end", "attempt"} : To(where)
    BY <1>14 DEF WorkerReturns, RetryOrFail, To
  <2>2. pc[r] = "working" /\ Same /\ process' # "running" /\ ~cancelFile
    BY <1>14 DEF WorkerReturns, ProcessEnds
  <2> QED
    BY <1>1, <1>2, <1>3, <1>4, <2>1, <2>2
<1>15. CASE WorkerCancelled(r) \/ WorkerException(r)
  <2>1. To("end") /\ Same /\ (process' = process \/ process' # "running")
    BY <1>15 DEF WorkerCancelled, WorkerException, ProcessEnds, To
  <2> QED
    BY <1>1, <1>3, <2>1
<1>16. CASE DegradedMock(r) \/ StartVerify(r) \/ Verify(r) \/ Review(r)
  <2>1. Same /\ process' = process
    BY <1>16 DEF DegradedMock, StartVerify, Verify, Review, Pipeline
  <2>2. \/ \E where \in {"end", "raised"} : To(where)
        \/ pc[r] = "pipeline" /\ To("verify")
        \/ pc[r] = "verify" /\ To("review")
        \/ pc[r] = "review" /\ To("publish")
    BY <1>16 DEF DegradedMock, StartVerify, Verify, Review, To
  <2>3. pc[r] \in {"pipeline", "verify", "review"} => pc[r] \in AtWork \cap Real /\ pc[r] # "working"
    BY <1>4
  <2> QED
    BY <1>1, <1>2, <1>3, <1>4, <2>1, <2>2, <2>3
<1>17. CASE Publish(r)
  <2>1. pc[r] = "publish" /\ UNCHANGED <<files, kind, control, killed>>
    BY <1>17 DEF Publish, Pipeline
  <2>2. CASE To("end")
    BY <2>1, <2>2, PublicationEndsWork DEF To
  <2>3. CASE To("raised") /\ UNCHANGED published
    BY <1>1, <1>3, <2>1, <2>3
  <2> QED
    BY <1>17, <2>2, <2>3 DEF Publish, To
<1> QED
  BY <1>10, <1>11, <1>12, <1>13, <1>14, <1>15, <1>16, <1>17 DEF StepsBeyond

LEMMA StepWInv == IInv /\ CInv /\ WInv /\ [Next]_vars => WInv'
<1> SUFFICES ASSUME IInv, CInv, WInv, [Next]_vars PROVE WInv'
  OBVIOUS
<1>1. ASSUME NEW r \in Runs, RunStep(r) \/ Crash(r) \/ Approve(r) PROVE WInv'
  <2>1. CASE SetStatus(r)
    BY <2>1, OneAccess, OthersKeepWork, SubmittedRuns DEF control, others, operator
  <2>2. CASE FirstHeartbeat(r)
    BY <2>2, OthersKeepWork DEF FirstHeartbeat, task, others, operator
  <2> QED
    BY <1>1, <2>1, <2>2, StepsKeepWork DEF RunStep, StepsBeyond
<1>2. CASE Operator
  <2>1. UNCHANGED <<pc, files, kind, published>>
    BY <1>2 DEF Operator, task
  <2>2. CASE RequestCancel
    BY <2>1, <2>2, OthersKeepWork DEF RequestCancel
  <2>3. CASE UNCHANGED <<process, killed, cancelFile>>
    BY <2>1, <2>3, OthersKeepWork
  <2> QED
    BY <1>2, <2>2, <2>3 DEF Operator, CheckCancel, CheckRollback, OperatorStep, OperatorWritesRow,
       OperatorAppendsEvent, control
<1>3. CASE StatusQuery
  <2>1. UNCHANGED <<pc, files, kind, published, killed, cancelFile>>
    BY <1>3 DEF StatusQuery, task, operator
  <2>2. process' \in {process, "reaped"}
    BY <1>3 DEF StatusQuery, ReadForReap, ReadFiles, WriteFiles
  <2> QED
    BY <2>1, <2>2, OthersKeepWork
<1>4. CASE SetStatus(Reaper)
  BY <1>4, OneAccess, OthersKeepWork, SubmittedRuns DEF control, others, operator
<1>5. CASE Backfill
  BY <1>5, OthersKeepWork DEF Backfill, task, control, operator
<1>6. CASE UNCHANGED vars
  BY <1>6, OthersKeepWork DEF vars, task, control, others, operator
<1> QED
  BY <1>1, <1>2, <1>3, <1>4, <1>5, <1>6 DEF Next

\* Nobody begins to work once the branch is there and nobody does.
LEMMA NobodyBegins ==
  ASSUME IInv, CInv, WInv, NobodyWorks, [Next]_vars
  PROVE  /\ NobodyWorks'
         /\ process # "running" => process' # "running"
         /\ process # "running" /\ ~killed => ~killed'
<1> USE DEF Ready, Then, task, files, control, others, operator
<1>1. /\ pc \in [Runs -> RunPCs] /\ branch = TRUE
      /\ \A r \in Runs : IsDryRun(r) \/ pc[r] \notin AtWork
  BY DEF IInv, GateDecidesOnce, NobodyWorks, Works
<1>2. ASSUME branch' = TRUE, UNCHANGED kind,
             \/ pc' = pc
             \/ \E r \in Runs, where \in RunPCs :
                  /\ pc' = [pc EXCEPT ![r] = where]
                  /\ where \in AtWork => pc[r] \in AtWork \/ IsDryRun(r)
      PROVE  NobodyWorks'
  <2>1. \A r \in Runs : IsDryRun(r)' <=> IsDryRun(r)
    BY <1>2 DEF IsDryRun, kind
  <2> QED
    BY <1>1, <1>2, <2>1 DEF NobodyWorks, Works
<1>3. ASSUME NEW r \in Runs, Gate(r) \/ StepsBeyond(r) \/ Crash(r) \/ Approve(r)
      PROVE  /\ NobodyWorks' /\ UNCHANGED killed
             /\ process # "running" => process' # "running"
  <2>1. CASE PrepareWorktree(r)
    <3>1. branch' = TRUE /\ UNCHANGED <<kind, process, killed>>
      BY <1>1, <2>1 DEF PrepareWorktree
    <3>2. \E where \in RunPCs : /\ pc' = [pc EXCEPT ![r] = where]
                                /\ where \in AtWork => IsDryRun(r)
      BY <1>1, <2>1 DEF PrepareWorktree, RunPCs, AtWork
    <3> QED
      BY <1>2, <3>1, <3>2
  <2>2. CASE ~PrepareWorktree(r)
    <3>1. UNCHANGED <<branch, killed>> /\ UNCHANGED kind
      BY <1>3, <2>2 DEF Gate, StepsBeyond, Crash, Approve, Route, StartAttempt, StartWorker,
         WorkerReturns, WorkerCancelled, WorkerException, DegradedMock, StartVerify, Verify,
         Review, Publish, Pipeline
    <3>2. \E where \in RunPCs : /\ pc' = [pc EXCEPT ![r] = where]
                                /\ where \in AtWork => pc[r] \in AtWork
      <4>1. CASE Gate(r) \/ Crash(r) \/ Approve(r) \/ Route(r)
        BY <4>1 DEF Gate, Crash, Approve, Route, RunPCs, AtWork
      <4>2. CASE StepsBeyond(r) /\ ~Route(r)
        <5>1. pc[r] \in AtWork
          BY <2>2, <4>2 DEF StepsBeyond, StartAttempt, StartWorker, WorkerReturns,
             WorkerCancelled, WorkerException, DegradedMock, StartVerify, Verify, Review,
             Publish, AtWork
        <5> QED
          BY <4>2, <5>1, RunnersMoveOn DEF MovesOn
      <4> QED
        BY <1>3, <4>1, <4>2
    <3>3. process # "running" => process' # "running"
      <4>1. CASE StartWorker(r)
        <5>1. IsDryRun(r)
          BY <1>1, <4>1 DEF StartWorker, AtWork
        <5> QED
          BY <4>1, <5>1 DEF StartWorker
      <4>2. CASE ~StartWorker(r)
        BY <1>3, <2>2, <4>2 DEF Gate, StepsBeyond, Crash, Approve, Route, StartAttempt,
           WorkerReturns, ProcessEnds, WorkerCancelled, WorkerException, DegradedMock,
           StartVerify, Verify, Review, Publish, Pipeline
      <4> QED
        BY <4>1, <4>2
    <3> QED
      BY <1>1, <1>2, <3>1, <3>2, <3>3
  <2> QED
    BY <2>1, <2>2
<1>4. ASSUME UNCHANGED <<pc, branch, kind>>, process' = process \/ process' # "running",
             killed' => killed \/ process = "running"
      PROVE  /\ NobodyWorks'
             /\ process # "running" => process' # "running"
             /\ process # "running" /\ ~killed => ~killed'
  <2>1. NobodyWorks'
    BY <1>1, <1>2, <1>4
  <2>2. process # "running" => process' # "running"
    BY <1>4
  <2> QED
    BY <1>4, <2>1, <2>2
<1>5. ASSUME NEW a \in Actors, SetStatus(a)
      PROVE  UNCHANGED <<pc, branch, kind, process, killed>>
  BY <1>5, OneAccess
<1>6. CASE Operator
  <2>1. UNCHANGED <<pc, branch, kind>>
    BY <1>6 DEF Operator
  <2>2. CASE RequestCancel
    <3>1. process' = process \/ process' # "running"
      BY <2>2 DEF RequestCancel
    <3>2. killed' => killed \/ process = "running"
      <4>1. killed' = (killed \/ process = "running")
        BY <2>2 DEF RequestCancel
      <4>2. CASE ~killed /\ process # "running"
        <5>1. (killed \/ process = "running") <=> FALSE
          BY <4>2
        <5> QED
          BY <4>1, <5>1, Zenon
      <4> QED
        BY <4>2
    <3> HIDE DEF task, files, control, others, operator
    <3> QED
      BY <1>4, <2>1, <3>1, <3>2
  <2>3. CASE UNCHANGED <<process, killed>>
    BY <1>4, <2>1, <2>3
  <2> QED
    BY <1>6, <2>2, <2>3 DEF Operator, CheckCancel, CheckRollback, OperatorStep,
       OperatorWritesRow, OperatorAppendsEvent
<1>7. CASE StatusQuery
  BY <1>4, <1>7 DEF StatusQuery, ReadForReap, ReadFiles, WriteFiles
<1>8. CASE Backfill
  BY <1>4, <1>8 DEF Backfill
<1>9. CASE UNCHANGED vars
  BY <1>4, <1>9 DEF vars
<1>10. ASSUME NEW r \in Runs, FirstHeartbeat(r)
       PROVE  UNCHANGED <<pc, branch, kind, process, killed>>
  BY <1>10 DEF FirstHeartbeat
<1> QED
  BY <1>3, <1>4, <1>5, <1>6, <1>7, <1>8, <1>9, <1>10, SubmittedRuns DEF Next, RunStep, StepsBeyond

LEMMA StepSuccess == IInv /\ CInv /\ WInv /\ SuccessIsLast /\ [Next]_vars => SuccessIsLast'
<1> SUFFICES ASSUME IInv, CInv, WInv, SuccessIsLast, [Next]_vars PROVE SuccessIsLast'
  OBVIOUS
<1> DEFINE Mild == status \in Harmless /\ \A a \in Actors : todo[a] \in Seq(Harmless)
<1>1. CASE NobodyWorks /\ process # "running" /\ ~killed
  BY <1>1, NobodyBegins DEF SuccessIsLast
<1>2. CASE Mild
  <2> USE <1>2
  <2> SUFFICES Mild' \/ (NobodyWorks' /\ process' # "running" /\ ~killed')
    BY DEF SuccessIsLast
  <2>1. ASSUME UNCHANGED <<kind, reaps>> PROVE Harmless' = Harmless
    BY <2>1 DEF Harmless, kind
  <2>2. ASSUME NEW a \in Actors, NEW statuses \in Seq(Harmless), UNCHANGED <<status, kind, reaps>>,
               todo' = [todo EXCEPT ![a] = statuses]
        PROVE  Mild'
    <3>1. \A b \in Actors : todo'[b] \in Seq(Harmless)
      BY <2>2 DEF CInv, CallsType
    <3> QED
      BY <2>1, <2>2, <3>1
  <2>3. Unfinished \subseteq Harmless
    BY DEF Harmless
  <2>4. ASSUME NEW r \in Runs, Advances(r)
        PROVE  Mild' \/ (pc[r] \in {"verify", "publish"} /\ pc' = [pc EXCEPT ![r] = "end"])
    <3>1. UNCHANGED <<status, kind, reaps>> /\ r \in Actors
      BY <2>4, SubmittedRuns DEF Advances, Then, row, others, query
    <3>2. PICK statuses \in Seq(Named), where \in RunPCs \ {"gate", "off"} :
            /\ Then(r, statuses, where)
            /\ \/ statuses \in Seq(Unfinished)
               \/ IsDryRun(r) /\ statuses = <<"DRY_RUN_COMPLETED">>
               \/ pc[r] \in {"verify", "publish"} /\ where = "end"
      BY <2>4 DEF Advances
    <3>3. CASE statuses \in Seq(Unfinished)
      <4>1. statuses \in Seq(Harmless)
        BY <2>3, <3>3, Wider
      <4> QED
        BY <2>2, <3>1, <3>2, <4>1 DEF Then
    <3>4. CASE IsDryRun(r) /\ statuses = <<"DRY_RUN_COMPLETED">>
      <4>1. dryRun = TRUE
        BY <3>4 DEF IsDryRun, WInv, WorkType
      <4>2. "DRY_RUN_COMPLETED" \in Harmless
        BY <4>1 DEF Harmless
      <4>3. statuses \in Seq(Harmless)
        BY <3>4, <4>2
      <4> QED
        BY <2>2, <3>1, <3>2, <4>3 DEF Then
    <3> QED
      BY <3>2, <3>3, <3>4 DEF Then
  <2>5. ASSUME NEW a \in Actors, SetStatus(a) PROVE Mild'
    <3>1. /\ todo[a] # <<>> /\ UNCHANGED <<kind, reaps>>
          /\ status' = status \/ status' = Head(todo[a])
          /\ todo' = todo \/ todo' = [todo EXCEPT ![a] = Tail(todo[a])]
      BY <2>5, OneAccess DEF Wrote, Looked, Synced, Logged, Finished, row, others, query
    <3>2. Head(todo[a]) \in Harmless /\ Tail(todo[a]) \in Seq(Harmless)
      BY <3>1
    <3>3. \A b \in Actors : todo'[b] \in Seq(Harmless)
      BY <3>1, <3>2 DEF CInv, CallsType
    <3> QED
      BY <2>1, <3>1, <3>2, <3>3
  <2>6. ASSUME NEW r \in Runs, Gate(r) \/ StepsBeyond(r)
        PROVE  Mild' \/ (NobodyWorks' /\ process' # "running" /\ ~killed')
    <3>1. CASE pc[r] \in {"verify", "publish"} /\ pc' = [pc EXCEPT ![r] = "end"]
      <4>1. UNCHANGED <<files, kind, control, killed>>
        <5>1. Verify(r) \/ Publish(r)
          BY <2>6, <3>1 DEF Gate, StepsBeyond, Ready, Route, PrepareWorktree, StartAttempt,
             StartWorker, WorkerReturns, WorkerCancelled, WorkerException, DegradedMock,
             StartVerify, Review
        <5> QED
          BY <5>1 DEF Verify, Publish, Pipeline, Then, task, others, operator
      <4>2. NobodyWorks' /\ process # "running" /\ ~killed
        BY <3>1, <4>1, PublicationEndsWork
      <4> QED
        BY <4>1, <4>2 DEF control
    <3> QED
      BY <2>4, <2>6, <3>1, StepsAdvance
  <2>7. ASSUME NEW r \in Runs, Crash(r) \/ Approve(r) PROVE Mild'
    <3>1. \E statuses \in {<<>>, <<"PLANNED">>} : todo' = [todo EXCEPT ![r] = statuses]
      BY <2>7 DEF Crash, Approve, Then
    <3>2. <<>> \in Seq(Harmless) /\ <<"PLANNED">> \in Seq(Harmless)
      BY <2>3, UnfinishedNames
    <3>3. UNCHANGED <<status, kind, reaps>>
      BY <2>7 DEF Crash, Approve, Then, row, task, others, query
    <3> QED
      BY <2>2, <3>1, <3>2, <3>3, SubmittedRuns
  <2>8. CASE Operator
    <3>1. UNCHANGED <<todo, kind, reaps>> /\ status' \in {status, "CANCELLED", "ROLLED_BACK"}
      BY <2>8 DEF Operator, CheckCancel, CheckRollback, OperatorStep, RequestCancel,
         OperatorWritesRow, OperatorAppendsEvent, row, calls, task, query
    <3>2. {"CANCELLED", "ROLLED_BACK"} \subseteq Harmless
      BY <2>3, UnfinishedNames DEF Harmless
    <3> QED
      BY <2>1, <3>1, <3>2
  <2>9. CASE StatusQuery
    <3>1. UNCHANGED <<status, kind>>
      BY <2>9 DEF StatusQuery, row, task
    <3>2. CASE ReadForReap \/ ReadFiles
      BY <2>1, <3>1, <3>2 DEF ReadForReap, ReadFiles
    <3>3. CASE WriteFiles
      <4>1. /\ reaps' > 0 /\ Harmless \subseteq Harmless'
        BY <3>1, <3>3 DEF WriteFiles, CInv, CallsType, Harmless, kind
      <4>2. "FAILED_FINAL" \in Harmless'
        BY <2>3, <4>1, UnfinishedNames
      <4>3. ~rowRequiresDiff => "COMPLETED_WITH_ARTIFACTS" \in Harmless'
        <5> SUFFICES ASSUME ~rowRequiresDiff PROVE "COMPLETED_WITH_ARTIFACTS" \in Harmless'
          OBVIOUS
        <5>1. rowRequiresDiff' = FALSE
          BY <3>1 DEF kind, WInv, WorkType
        <5> QED
          BY <4>1, <5>1 DEF Harmless
      <4>4. PICK s \in Harmless' : todo' = [todo EXCEPT ![Reaper] = <<s>>]
        BY <3>3, <4>2, <4>3 DEF WriteFiles
      <4>5. \A b \in Actors : todo'[b] \in Seq(Harmless')
        <5>1. <<s>> \in Seq(Harmless')
          BY <4>4
        <5>2. \A b \in Actors : todo[b] \in Seq(Harmless')
          BY <4>1, Wider
        <5> QED
          BY <4>4, <5>1, <5>2 DEF CInv, CallsType
      <4> QED
        BY <3>1, <4>1, <4>5
    <3> QED
      BY <2>9, <3>2, <3>3 DEF StatusQuery
  <2>10. CASE Backfill \/ UNCHANGED vars \/ \E r \in Runs : FirstHeartbeat(r)
    <3>1. UNCHANGED <<status, todo, kind, reaps>>
      BY <2>10 DEF Backfill, FirstHeartbeat, vars, row, calls, task, others, query
    <3> QED
      BY <2>1, <3>1
  <2> QED
    BY <2>5, <2>6, <2>7, <2>8, <2>9, <2>10, SubmittedRuns DEF Next, RunStep, StepsBeyond
<1> QED
  BY <1>1, <1>2 DEF SuccessIsLast

LEMMA InitSuccess == Init => SuccessIsLast
<1>1. \A S : <<>> \in Seq(S)
  OBVIOUS
<1> QED
  BY <1>1 DEF Init, SuccessIsLast, Harmless

LEMMA WorkInvariance == Spec => [](WInv /\ SuccessIsLast)
<1>1. Init => WInv /\ SuccessIsLast
  BY InitWInv, InitSuccess
<1>2. IInv /\ CInv /\ WInv /\ SuccessIsLast /\ [Next]_vars => (WInv /\ SuccessIsLast)'
  BY StepWInv, StepSuccess
<1>3. Spec => [](IInv /\ CInv)
  BY CallsInvariance, PTL
<1> QED
  BY <1>1, <1>2, <1>3, PTL DEF Spec

(* Two executors never work on one task at the same time, whatever is approved *)
(* in whatever status, soft approvals and repeated ones too, and whatever is   *)
(* cancelled, rolled back or reaped and whoever dies; and nobody works in the  *)
(* worktree of another (prepare_worktree).                                     *)
THEOREM OneExecutorAtATime == Spec => []OneExecutorWorks
<1>1. WInv => OneExecutorWorks
  BY DEF WInv, OneWorks
<1> QED
  BY <1>1, WorkInvariance, PTL

(* Once a cancel killed its worker a task publishes nothing and does not       *)
(* complete, with any number of approvals, rollbacks, attempts, pauses, reaps   *)
(* and deaths; the reaper's success of a read-only task and a dry run's own     *)
(* are the exceptions (task_operations.py, stale_worker_reaper.py).            *)
THEOREM KilledTasksDoNotComplete == Spec => []KilledWorkIsNotCompleted
<1>1. WInv /\ SuccessIsLast => KilledWorkIsNotCompleted
  <2> SUFFICES ASSUME WInv, SuccessIsLast, killed PROVE
                 /\ published = {}
                 /\ status \in SuccessStatuses =>
                      \/ status = "DRY_RUN_COMPLETED" /\ dryRun
                      \/ status = "COMPLETED_WITH_ARTIFACTS" /\ ~rowRequiresDiff /\ reaps > 0
    BY DEF KilledWorkIsNotCompleted
  <2>1. published = {} /\ status \in Harmless
    BY DEF WInv, WorkFollows, OnlyWaits, SuccessIsLast
  <2>2. {"QUEUED", "ROLLED_BACK"} \cap SuccessStatuses = {}
    BY DEF SuccessStatuses
  <2> QED
    BY <2>1, <2>2 DEF Harmless, Unfinished
<1> QED
  BY <1>1, WorkInvariance, PTL
=============================================================================
