----------------------------- MODULE MCDecisions -----------------------------
(* The decisions that keep no state, checked over bounded questions: the      *)
(* names of a status and how the console shows it, and what a task is and     *)
(* which workers get it.  A behaviour is one question, then its answer.       *)
EXTENDS DashboardStatus, Routing, Permissions

VARIABLES
  from, to,  \* the question about statuses
  ask,       \* the question about a task, or None
  route      \* its answer

vars == <<from, to, ask, route>>

-----------------------------------------------------------------------------
(* The questions.                                                            *)

Silent == [mode |-> None, diff |-> None, policy |-> None]
Request(mode, diff, header, says) ==
  [mode |-> mode, diff |-> diff, policy |-> None, header |-> header, says |-> says]
NoHistory == [m \in Models |-> None]
Row(rate, attempts, cost) == [rate |-> rate, attempts |-> attempts, cost |-> cost]
PairHistory(flash, pro) ==
  [m \in Models |-> IF m = "deepseek_flash" THEN flash
                    ELSE IF m = "deepseek_pro" THEN pro ELSE None]
Plain == [worker |-> "claude_code", model |-> None, variant |-> None,
          stack |-> FALSE, world |-> FALSE]
Projects ==
  {Plain, [Plain EXCEPT !.model = Glm, !.stack = TRUE],
   [Plain EXCEPT !.worker = "opencode", !.variant = "max", !.stack = TRUE],
   [Plain EXCEPT !.world = TRUE, !.stack = TRUE]}

Question(request, type, risk, shape, paths, budget, override, project, history) ==
  [request |-> request, type |-> type, risk |-> risk, shape |-> shape, paths |-> paths,
   budget |-> budget, override |-> override, project |-> project, history |-> history]

SmallSets(S) == {{}} \cup {{x, y} : x \in S, y \in S}

\* Words, types, paths and projects, without history.
AskBroad ==
  \E mode \in {None, "read_only", "patch"}, says \in SmallSets(Cues),
     type \in TaskTypes, risk \in {"low", "high"},
     paths \in {<<>>, <<"docs">>, <<"code">>, <<"settings">>, <<"prod", "tests">>},
     p \in Projects :
    ask = Question(Request(mode, None, Silent, says), type, risk, None, paths, None,
                   None, p, NoHistory)

\* What the history and the budget change.
AskDeep ==
  \E says \in {{}, {"readme"}, {"fix"}}, paths \in {<<"docs">>, <<"code">>},
     budget \in {None, 5, 10, 40},
     flash \in {None} \cup {Row(rate, n, c) :
                              rate \in {0, 50, 100}, n \in {0, 2, 3, 12}, c \in {0, 8}},
     pro \in {None} \cup {Row(rate, n, 30) : rate \in {0, 50, 75, 100}, n \in {2, 12}} :
    ask = Question(Request(None, None, Silent, says), "routine_coding", "low", None,
                   paths, budget, None, Plain, PairHistory(flash, pro))

\* What a caller and a goal can say of the mode, with an override.
AskProtocol ==
  \E mode \in {None, Unknown, "read_only", "audit", "docs"},
     diff \in {None, Unknown, TRUE, FALSE},
     hmode \in {None, "patch", "audit"}, hdiff \in {None, FALSE},
     says \in SmallSets(GoalWords), shape \in {None, "large_refactor"},
     override \in {None, [worker |-> "opencode", model |-> None, variant |-> "high"]} :
    ask = Question(Request(mode, diff, [Silent EXCEPT !.mode = hmode, !.diff = hdiff], says),
                   "routine_coding", "low", shape, <<>>, None, override, Plain, NoHistory)

\* The task that submission and the gate make of a question.
TaskOf(q) ==
  LET made == Protocol(q.request)
  IN  [mode |-> made.mode, diff |-> made.diff, policy |-> made.policy, says |-> made.says,
       allowEmpty |-> made.allowEmpty, type |-> q.type, risk |-> q.risk, shape |-> q.shape,
       paths |-> q.paths, budget |-> q.budget, override |-> q.override]

Init ==
  \/ from \in Statuses /\ to \in Statuses /\ ask = None /\ route = None
  \/ from = "NEW" /\ to = "NEW" /\ route = None
     /\ (AskBroad \/ AskDeep \/ AskProtocol)

ApplyEvent ==
  /\ ask = None /\ CanTransition(from, to)
  /\ from' = to
  /\ UNCHANGED <<to, ask, route>>

PlanTask ==
  /\ ask # None /\ route = None
  /\ route' = RouteForTask(TaskOf(ask), ask.project, ask.history)
  /\ UNCHANGED <<from, to, ask>>

Next == ApplyEvent \/ PlanTask
Spec == Init /\ [][Next]_vars

Planned == route # None
Overridden == ask.override # None

-----------------------------------------------------------------------------
(* The tables that read a status tell the same of it.  A status and its old   *)
(* name are the same state to can_transition: no operator call is refused, or *)
(* let through, because of the name the row holds (PUBLISHING has no new      *)
(* name).  Where no operator call can move a task any more, an outcome is     *)
(* recorded for it, except that a rollback is kept out of the outcomes, as    *)
(* are two names nothing writes.  And of a task that nothing runs for, the    *)
(* console never shows a recorded success open or a failure done, and what    *)
(* waits for the user asks for them.  (A blocked task is a failure to the     *)
(* outcomes and a question to the console.)                                   *)
StatusTablesAgree ==
  LET shown == Derive(from, Nothing)
  IN  /\ from # "PUBLISHING" =>
           (CanTransition(from, to) <=> Resolve(to) \in Transitions[Resolve(from)])
      /\ from \in FinalStates \ {"ROLLED_BACK", "DONE_WITH_BLOCK", "COMPLETED"}
           => from \in OutcomeStatuses
      /\ from \in SuccessStatuses => shown.big = "Done"
      /\ from \in FailedStatuses => shown.big = "Failed"
      /\ from \in ApprovalStatuses \cup {"BLOCKED"} => shown.big = "Approval" /\ shown.asks
      /\ from = "CANCELLED" => shown.big = "Closed"
      /\ from \in FinalStates \ {"DONE_WITH_BLOCK"} => shown.terminal

(* Whatever the runtime directory still holds of a task that has ended, a    *)
(* killed worker's process.json, an old heartbeat, a due retry, the console  *)
(* does not show it failed, running or queued again.                         *)
FinishedStaysFinished ==
  from \in SuccessStatuses \cup {"CANCELLED", "ROLLED_BACK"} =>
    \A sight \in Sights : Derive(from, sight).big \in {"Done", "Closed", "Alerts"}

-----------------------------------------------------------------------------
\* What occurs in the name of a model, for the patterns of a profile.
Families(model) ==
  IF model \in {"deepseek_flash", "deepseek_pro"} THEN {"deepseek"}
  ELSE IF model \in {"mimo_v25", "mimo_v25_pro"} THEN {"mimo"}
  ELSE IF model = Glm THEN {"glm"} ELSE {}

(* The attempts that routing plans pass the provider check that each attempt *)
(* begins with, whatever the model a project asks for; and of a route the    *)
(* safety gate blocked, which the executor does not look at, no attempt      *)
(* passes it.                                                                *)
ProvidersFit ==
  Planned /\ ~Overridden =>
    \A i \in DOMAIN AttemptsOf(route) :
      LET step == AttemptsOf(route)[i]
      IN  CheckProvider(step.worker, Families(step.model)) <=> ~route.blocked

(* A task that changes nothing is not retried on GLM, whatever its words,    *)
(* its type or the shape it names: there is no patch to escalate for.  (The  *)
(* plan of a world-enabled project does not know the mode.)                  *)
ReadOnlyIsNotEscalated ==
  Planned /\ ~Overridden /\ ~ask.project.world /\ IsReadOnly(TaskOf(ask)) =>
    \A i \in 2..Len(route.chain) : route.chain[i].worker # "opencode"

(* A better record is no reason to lose the work: with a higher success rate *)
(* over the same attempts at the same cost, the model that was chosen is     *)
(* chosen again, through both the scores of the candidates and the choice by *)
(* shape.                                                                    *)
BetterHistoryNeverHurts ==
  Planned /\ ~Overridden /\ ~route.blocked =>
    LET model == route.first.model
        row == ask.history[model]
    IN  row # None => \A rate \in {50, 75, 90, 100} : rate > row.rate =>
          RouteForTask(TaskOf(ask), ask.project,
                       [ask.history EXCEPT ![model].rate = rate]).first.model = model

(* The router, the completion and the salvage decide separately whether a    *)
(* task must change files, each by words of its own.  For a task that        *)
(* submission wrote the protocol of they agree, unless the caller or the     *)
(* goal's header expects a diff in so many words; and for every task, those  *)
(* stored before there was a protocol too, partial work is salvaged as an    *)
(* answer only where the completion takes an answer for a result.            *)
ReadersAgree ==
  Planned =>
    LET t == TaskOf(ask)
    IN  /\ Named(ask.request.diff, ask.request.header.diff) \notin BOOLEAN =>
             IsReadOnly(t) = ~RequiresDiff(t) /\ IsReadOnly(t) = ~SalvageRequiresDiff(t)
        /\ \A old \in {t, [t EXCEPT !.mode = None, !.diff = None, !.policy = None]} :
             ~SalvageRequiresDiff(old) => ~RequiresDiff(old)
=============================================================================
