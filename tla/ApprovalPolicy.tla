---------------------------- MODULE ApprovalPolicy ----------------------------
(* The approval decision and what it learns from: the tasks of one project    *)
(* decide at the gate with the learned patterns of that moment, and when they *)
(* end, or are rolled back, each writes a row of approval_events and then     *)
(* updates a learned pattern, in two transactions.                            *)
EXTENDS Integers, FiniteSets

CONSTANTS
  Tasks,       \* tasks of the project
  Types,       \* task types that occur (_classify_task_type)
  Paths,       \* path patterns that occur (_derive_path_pattern)
  Overrides,   \* approval_policy_overrides: the mode for a type, or "none"
  Requests,    \* tasks that are submitted: type, risk level, and what their
               \* goal or their planned files touch
  None,        \* no outcome, no row, no pattern
  MaxRollbacks, \* tasks that are rolled back
  MaxRevokes,  \* calls of revoke_learned_rule
  MaxCrashes   \* orchestrator processes that die between two steps

ASSUME PolicyAssumption ==
  /\ "routine_coding" \in Types
  /\ "no paths" \notin Paths
  /\ Overrides \in [Types -> {"AUTO_SILENT", "AUTO_WITH_SUMMARY",
                              "SOFT_APPROVAL", "HARD_APPROVAL", "BLOCKED",
                              "none"}]
  /\ Requests \subseteq
       [type : Types, risk : {"low", "medium", "high"},
        touches : {"nothing", "command", "forbidden", "production"}]
  /\ MaxRollbacks \in Nat /\ MaxRevokes \in Nat /\ MaxCrashes \in Nat

VARIABLES
  phase,    \* where a task is
  mode,     \* what the gate decided
  by,       \* the learned pattern it decided by
  request,  \* what each task is
  calls,    \* the outcome each caller of on_task_complete is recording
  half,     \* its approval event is written, its pattern not yet
  events,   \* outcomes in approval_events, without the decisions of the user:
            \* per pattern, how many say tests passed and review approved, and
            \* how many there are
  pattern,  \* learned_patterns, a row or None per key
  rolledBack,  \* tasks rolled back, at most once each
  dead,        \* tasks whose executor died
  revokes

vars == <<phase, mode, by, request, calls, half, events, pattern, rolledBack,
          dead, revokes>>
decision == <<mode, by, request>>
others == <<rolledBack, dead, revokes>>
learning == <<calls, half, events, pattern>>

Keys == Types \X (Paths \cup {"no paths"})    \* UNIQUE(task_type, path_pattern)
TypeKey(type) == <<type, "no paths">>         \* path_pattern "type:<task_type>"

\* The executor of a task, and the operator who rolls it back.
Callers == Tasks \X {"executor", "operator"}

Modes == {"none", "risk_blocked", "BLOCKED", "HARD_APPROVAL", "SOFT_APPROVAL",
          "AUTO_SILENT", "AUTO_WITH_SUMMARY"}
Autos == {"AUTO_SILENT", "AUTO_WITH_SUMMARY"}
Phases == {"new", "waiting", "running", "learning", "pr", "passed", "failed",
           "ended"}

Outcome(key, success, rollback) ==
  [key |-> key, success |-> success, rollback |-> rollback]
Outcomes == [key : Keys, success : BOOLEAN, rollback : BOOLEAN]

\* trust_score is 0.5 in a row as inserted and computed by every update.
Patterns == [success : Nat, failure : Nat, rollback : Nat, inserted : BOOLEAN,
             active : BOOLEAN]

ASSUME NoneAssumption ==
  None \notin Keys /\ None \notin Outcomes /\ None \notin Patterns

TypeOK ==
  /\ phase \in [Tasks -> Phases]
  /\ mode \in [Tasks -> Modes]
  /\ by \in [Tasks -> Keys \cup {None}]
  /\ request \in [Tasks -> Requests]
  /\ calls \in [Callers -> Outcomes \cup {None}]
  /\ half \in [Callers -> BOOLEAN]
  /\ events \in [Keys -> [verified : Nat, all : Nat]]
  /\ pattern \in [Keys -> Patterns \cup {None}]
  /\ rolledBack \subseteq Tasks /\ dead \subseteq Tasks
  /\ revokes \in 0..MaxRevokes

Init ==
  /\ phase = [t \in Tasks |-> "new"]
  /\ mode = [t \in Tasks |-> "none"]
  /\ by = [t \in Tasks |-> None]
  /\ request \in [Tasks -> Requests]
  /\ calls = [c \in Callers |-> None]
  /\ half = [c \in Callers |-> FALSE]
  /\ events = [k \in Keys |-> [verified |-> 0, all |-> 0]]
  /\ pattern = [k \in Keys |-> None]
  /\ rolledBack = {} /\ dead = {} /\ revokes = 0

-----------------------------------------------------------------------------
(* ApprovalGraph.decide. *)

\* max(0, min(1, (s - f/2 - 2r) / (s + f + r) + 1/2)) >= 0.7, in integers; the
\* 0.5 of the insert is below it.
Trusted(p) ==
  /\ ~p.inserted
  /\ 8 * p.success >= 7 * p.failure + 22 * p.rollback

Suggested(type) ==
  CASE type \in {"docs", "test_generation", "simple_bugfix"} -> "AUTO_SILENT"
    [] type = "routine_coding"                               -> "AUTO_WITH_SUMMARY"
    [] OTHER                                                 -> "SOFT_APPROVAL"

Approves(key, type) ==
  /\ key[1] = type /\ Suggested(type) \in Autos
  /\ pattern[key] # None
  /\ pattern[key].active /\ Trusted(pattern[key])

\* The patterns that would decide for a task of this type.
Approving(type) == {key \in Keys : Approves(key, type)}

ByRisk(r) ==
  IF r.touches = "production" THEN "HARD_APPROVAL"
  ELSE IF r.risk = "low" THEN "AUTO_WITH_SUMMARY" ELSE "SOFT_APPROVAL"

\* The task waits, is over, or goes on to be executed.
Enter(t, m) ==
  phase' = [phase EXCEPT ![t] = CASE m = "HARD_APPROVAL" -> "waiting"
                                  [] m = "BLOCKED"       -> "ended"
                                  [] OTHER               -> "running"]

\* Mutant: an override or a pattern comes before the forbidden paths.
DecideForbiddenLast(t) ==
  /\ phase[t] = "new" /\ request[t].touches # "command"
  /\ mode' = [mode EXCEPT ![t] =
       IF Overrides[request[t].type] # "none" THEN Overrides[request[t].type]
       ELSE IF Approving(request[t].type) # {} THEN Suggested(request[t].type)
       ELSE IF request[t].touches = "forbidden" THEN "BLOCKED"
       ELSE ByRisk(request[t])]
  /\ Enter(t, mode'[t])
  /\ UNCHANGED <<by, request, learning, others>>

DecideByRule(t) ==
  /\ phase[t] = "new" /\ request[t].touches # "command"
  /\ LET m == IF request[t].touches = "forbidden" THEN "BLOCKED"
              ELSE IF Overrides[request[t].type] # "none" THEN Overrides[request[t].type]
              ELSE ByRisk(request[t])
     IN /\ \/ request[t].touches = "forbidden"
           \/ Overrides[request[t].type] # "none"
           \/ Approving(request[t].type) = {}
        /\ mode' = [mode EXCEPT ![t] = m]
        /\ Enter(t, m)
  /\ UNCHANGED <<by, request, learning, others>>

\* A trusted pattern of the type, whatever paths it is about, decides before
\* the risk level and the production paths are looked at.
DecideByPattern(t) ==
  /\ phase[t] = "new" /\ request[t].touches \notin {"command", "forbidden"}
  /\ Overrides[request[t].type] = "none"
  /\ \E key \in Approving(request[t].type) : by' = [by EXCEPT ![t] = key]
  /\ mode' = [mode EXCEPT ![t] = Suggested(request[t].type)]
  /\ Enter(t, Suggested(request[t].type))
  /\ UNCHANGED <<request, learning, others>>

\* evaluate_task refuses non-reversible commands before the graph is asked.
RefuseCommand(t) ==
  /\ phase[t] = "new" /\ request[t].touches = "command"
  /\ mode' = [mode EXCEPT ![t] = "risk_blocked"]
  /\ phase' = [phase EXCEPT ![t] = "failed"]
  /\ calls' = [calls EXCEPT ![<<t, "executor">>] =
                 Outcome(TypeKey(request[t].type), FALSE, FALSE)]
  /\ UNCHANGED <<by, request, half, events, pattern, others>>

\* approve_task and reject_task; a soft approval runs without either. Both
\* write a row with a user_decision, which is no outcome and teaches nothing.
UserDecides(t) ==
  /\ phase[t] = "waiting"
  /\ \E to \in {"running", "ended"} : phase' = [phase EXCEPT ![t] = to]
  /\ UNCHANGED <<decision, learning, others>>

-----------------------------------------------------------------------------
(* How a task ends, and what it calls record_policy_learning with.           *)

\* The task is in "to" and its executor has this to record.
End(t, to, outcome) ==
  /\ phase' = [phase EXCEPT ![t] = to]
  /\ calls' = [calls EXCEPT ![<<t, "executor">>] = outcome]
  /\ UNCHANGED <<decision, half, events, pattern, others>>

\* Mutant: what the caller says of itself counts, not the tests and the review.
FailButClaimSuccess(t) ==
  /\ phase[t] = "running" /\ t \notin dead
  /\ End(t, "failed", Outcome(TypeKey(request[t].type), TRUE, FALSE))

\* No tests, no review, no paths: a failure; a chain that is exhausted, which
\* counts as a rollback; a task that is blocked, unreviewed or a mock.
Fail(t) ==
  /\ phase[t] = "running" /\ t \notin dead
  /\ \/ End(t, "failed", Outcome(TypeKey(request[t].type), FALSE, FALSE))
     \/ End(t, "failed", Outcome(TypeKey(request[t].type), FALSE, TRUE))
     \/ End(t, "ended", Outcome(TypeKey(request[t].type), FALSE, FALSE))

\* Cancelled, or stopped by a permission that the user must give.
Stop(t) ==
  /\ phase[t] = "running" /\ t \notin dead
  /\ End(t, "ended", None)

\* Verified and read-only: no review, approved by rule.
CompleteReadOnly(t) ==
  /\ phase[t] = "running" /\ t \notin dead
  /\ End(t, "passed", Outcome(TypeKey(request[t].type), TRUE, FALSE))

\* Verified and reviewed: POLICY_LEARNING, with the paths of the diff if there
\* is one.
PassReview(t) ==
  /\ phase[t] = "running" /\ t \notin dead
  /\ \E path \in Paths \cup {"no paths"} :
       End(t, "learning", Outcome(<<request[t].type, path>>, TRUE, FALSE))

\* A pull request is recorded a second time, without tests, review and paths:
\* on_task_complete takes that for a failure.
Publish(t) ==
  /\ phase[t] = "learning" /\ calls[<<t, "executor">>] = None
  /\ t \notin dead
  /\ \/ End(t, "passed", None)
     \/ End(t, "pr", Outcome(TypeKey(request[t].type), FALSE, FALSE))

\* rollback_task records on the database row, which has no task_type: the
\* default of record_task_completion is "routine_coding".
Rollback(t) ==
  /\ phase[t] \in {"learning", "pr", "failed"} /\ t \notin rolledBack
  /\ Cardinality(rolledBack) < MaxRollbacks
  /\ rolledBack' = rolledBack \cup {t}
  /\ calls' = [calls EXCEPT ![<<t, "operator">>] =
                 Outcome(TypeKey("routine_coding"), FALSE, TRUE)]
  /\ UNCHANGED <<phase, decision, half, events, pattern, dead, revokes>>

-----------------------------------------------------------------------------
(* PolicyUpdateEngine.on_task_complete. *)

One(b) == IF b THEN 1 ELSE 0

RecordEvent(c) ==
  /\ calls[c] # None /\ ~half[c]
  /\ events' = [events EXCEPT ![calls[c].key] =
                  [verified |-> @.verified + One(calls[c].success),
                   all      |-> @.all + 1]]
  /\ half' = [half EXCEPT ![c] = TRUE]
  /\ UNCHANGED <<phase, decision, calls, pattern, others>>

\* Mutant: the rollback of an outcome is not counted.
UpsertedWithoutRollback(p, o) ==
  LET old == IF p = None THEN [success |-> 0, failure |-> 0, rollback |-> 0]
                              ELSE p
  IN [success  |-> old.success + One(o.success \/ o.rollback),
      failure  |-> old.failure + One(~o.success),
      rollback |-> old.rollback,
      inserted |-> p = None,
      active   |-> TRUE]

\* INSERT ... ON CONFLICT DO UPDATE: the counts add up, and active = max(active,
\* 1).
Upserted(p, o) ==
  LET old == IF p = None THEN [success |-> 0, failure |-> 0, rollback |-> 0]
                              ELSE p
  IN [success  |-> old.success + One(o.success),
      failure  |-> old.failure + One(~o.success),
      rollback |-> old.rollback + One(o.rollback),
      inserted |-> p = None,
      active   |-> TRUE]

\* Mutant: the pattern does not wait for the event.
UpdatePatternAtOnce(c) ==
  /\ calls[c] # None
  /\ pattern' = [pattern EXCEPT ![calls[c].key] = Upserted(@, calls[c])]
  /\ calls' = [calls EXCEPT ![c] = None]
  /\ half' = [half EXCEPT ![c] = FALSE]
  /\ UNCHANGED <<phase, decision, events, others>>

UpdatePattern(c) ==
  /\ calls[c] # None /\ half[c]
  /\ pattern' = [pattern EXCEPT ![calls[c].key] = Upserted(@, calls[c])]
  /\ calls' = [calls EXCEPT ![c] = None]
  /\ half' = [half EXCEPT ![c] = FALSE]
  /\ UNCHANGED <<phase, decision, events, others>>

\* revoke_learned_rule
Revoke(key) ==
  /\ pattern[key] # None /\ pattern[key].active /\ revokes < MaxRevokes
  /\ pattern' = [pattern EXCEPT ![key].active = FALSE]
  /\ revokes' = revokes + 1
  /\ UNCHANGED <<phase, decision, calls, half, events, rolledBack, dead>>

\* External: the process that executes a task dies.
Crash(t) ==
  /\ t \notin dead /\ Cardinality(dead) < MaxCrashes
  /\ phase[t] \in {"running", "learning"} \/ calls[<<t, "executor">>] # None
  /\ dead' = dead \cup {t}
  /\ calls' = [calls EXCEPT ![<<t, "executor">>] = None]
  /\ half' = [half EXCEPT ![<<t, "executor">>] = FALSE]
  /\ UNCHANGED <<phase, decision, events, pattern, rolledBack, revokes>>

-----------------------------------------------------------------------------
Gate(t) == DecideByRule(t) \/ DecideByPattern(t) \/ RefuseCommand(t)

Finish(t) ==
  \/ Fail(t) \/ Stop(t) \/ CompleteReadOnly(t) \/ PassReview(t) \/ Publish(t)

Next ==
  \/ \E t \in Tasks :
       Gate(t) \/ UserDecides(t) \/ Finish(t) \/ Rollback(t) \/ Crash(t)
  \/ \E c \in Callers : RecordEvent(c) \/ UpdatePattern(c)
  \/ \E key \in Keys : Revoke(key)

Spec == Init /\ [][Next]_vars
-----------------------------------------------------------------------------
Passed(t) == phase[t] \in {"learning", "pr", "passed"}

(* Learning is from real outcomes only (docs/DYNAMIC_APPROVAL_GRAPH.md): a    *)
(* task that runs because of a learned pattern has behind it another task of  *)
(* its type that passed its tests and its review, and the audit log shows at  *)
(* least two outcomes of that pattern, one of them verified.                 *)
AutoApprovalIsEarned ==
  \A t \in Tasks : by[t] # None =>
    /\ \E u \in Tasks \ {t} : Passed(u) /\ request[u].type = request[t].type
    /\ events[by[t]].verified >= 1 /\ events[by[t]].all >= 2

(* A pattern never counts what the audit log does not show, whichever of the *)
(* two writes of whom comes first; without deaths it counts all of it.        *)
CountsAreBacked ==
  \A k \in Keys : pattern[k] # None =>
    LET p == pattern[k] e == events[k] IN
    /\ p.success <= e.verified /\ p.success + p.failure <= e.all
    /\ dead = {} /\ (\A c \in Callers : ~half[c]) =>
         p.success = e.verified /\ p.success + p.failure = e.all

(* What is dangerous is refused, whatever was learned or decreed before.     *)
DangerNeverRuns ==
  \A t \in Tasks : request[t].touches \in {"command", "forbidden"} =>
    phase[t] \in {"new", "ended", "failed"}

TrustedKeys == {k \in Keys : pattern[k] # None /\ Trusted(pattern[k])}

(* An outcome that counts as a rollback never earns a pattern trust, not even *)
(* one whose trust score was still the 0.5 of its insert.                    *)
RollbackEarnsNothing ==
  [][\A c \in Callers :
       UpdatePattern(c) /\ calls[c].rollback => TrustedKeys' \subseteq TrustedKeys]_vars
=============================================================================
