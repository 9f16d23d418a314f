----------------------------- MODULE TaskProtocol -----------------------------
(* What a submitted task is: its mode, whether it must change files, how it is *)
(* verified, and what the router, the completion and the salvage of partial    *)
(* answers each make of that.                                                  *)
(*                                                                             *)
(* A request is a record [mode, diff, policy, header, says]: what the caller   *)
(* names, each None when it names nothing, the fields that the first lines of  *)
(* the goal give, a record [mode, diff, policy], and the kinds of words that   *)
(* the goal has.                                                               *)
EXTENDS Integers, Sequences, FiniteSets

CONSTANTS
  None,    \* no value given
  Unknown  \* a value the program does not know

Modes == {"read_only", "patch", "test", "docs", "audit"}
Policies == {"none", "changed_files_only", "unit", "full"}

\* Neither is a value that normalize_task_protocol accepts.
ASSUME ProtocolAssumption ==
  \A x \in {None, Unknown} : x \notin BOOLEAN /\ x \notin Modes /\ x \notin Policies

\* Kinds of words in a goal, as the marker lists tell them apart.
GoalWords == {"read_only", "audit", "assess", "analyze", "no_write", "docs", "test",
              "edit", "strong_edit", "run_tests", "test_command", "list_command"}

Mentions(words, kinds) == words \cap kinds # {}

\* _infer_task_mode.
InferMode(words) ==
  IF Mentions(words, {"read_only", "audit", "assess"}) THEN "read_only"
  ELSE IF Mentions(words, {"docs"}) THEN "docs"
  ELSE IF Mentions(words, {"test", "run_tests", "test_command"}) THEN "test"
  ELSE "patch"

\* A value of the caller hides the one in the header, even when it is unknown.
Named(value, header) == IF value # None THEN value ELSE header
Choice(value, allowed, default) == IF value \in allowed THEN value ELSE default

\* Mutant: a mode that changes nothing is looked for in the goal alone.
ProtocolOfGoal(request) ==
  LET header == request.header
      mode == Choice(Named(request.mode, header.mode), Modes, InferMode(request.says))
      diff == Choice(Named(request.diff, header.diff), BOOLEAN,
                     InferMode(request.says) # "read_only")
      default == IF mode = "test" THEN "unit"
                 ELSE IF mode \in {"read_only", "audit"} \/ ~diff
                 THEN "changed_files_only" ELSE "full"
  IN  [mode |-> mode, diff |-> diff, allowEmpty |-> FALSE, type |-> None,
       says |-> request.says,
       policy |-> Choice(Named(request.policy, header.policy), Policies, default)]

\* normalize_task_protocol: the fields of the task that later stages read.
Protocol(request) ==
  LET header == request.header
      mode == Choice(Named(request.mode, header.mode), Modes, InferMode(request.says))
      diff == Choice(Named(request.diff, header.diff), BOOLEAN,
                     mode \notin {"read_only", "audit"})
      default == IF mode = "test" THEN "unit"
                 ELSE IF mode \in {"read_only", "audit"} \/ ~diff
                 THEN "changed_files_only" ELSE "full"
  IN  [mode |-> mode, diff |-> diff, allowEmpty |-> FALSE, type |-> None,
       says |-> request.says,
       policy |-> Choice(Named(request.policy, header.policy), Policies, default)]

-----------------------------------------------------------------------------
(* The readers of those fields.  A task that no protocol was written to, one  *)
(* stored before there was one, has None in mode, diff and policy.            *)

\* is_read_only_task, of the router.
IsReadOnly(task) == task.mode \in {"read_only", "audit"} \/ task.diff = FALSE

\* task_requires_diff, of the attempts and of the completion.
RequiresDiff(task) ==
  IF task.diff # None THEN task.diff
  ELSE /\ task.mode \notin {"read_only", "audit"}
       /\ ~task.allowEmpty
       /\ ~Mentions(task.says, {"read_only", "no_write"})
       /\ Mentions(task.says, {"analyze", "assess"}) => Mentions(task.says, {"strong_edit"})
       /\ Mentions(task.says, {"edit", "strong_edit"}) \/ task.type # None

\* _task_requires_diff, of the salvage: a version of its own.
SalvageRequiresDiff(task) ==
  IF task.diff # None THEN task.diff
  ELSE /\ task.mode \notin {"read_only", "audit"}
       /\ ~task.allowEmpty
       /\ ~Mentions(task.says, {"read_only", "no_write"})

\* task_requests_project_verification.
RequestsVerification(task) ==
  \/ Mentions(task.says, {"run_tests"})
  \/ Mentions(task.says, {"test_command"}) /\ ~Mentions(task.says, {"list_command"})

\* skip_project_verification_for_read_only_task: skipped by the policy, never
\* skipped, or skipped for an answer.
SkipsVerification(task, changed) ==
  IF task.policy \in {"none", "changed_files_only"} THEN changed = {}
  ELSE /\ task.policy \notin {"unit", "full"}
       /\ ~RequiresDiff(task) /\ changed = {} /\ ~RequestsVerification(task)

\* verification_commands_for_policy, after `or "full"` for a task without one.
CommandsFor(policy, commands) ==
  IF policy \in {"none", "changed_files_only"} THEN [test |-> <<>>, build |-> <<>>]
  ELSE IF policy = "unit"
  THEN [test |-> IF commands.test = <<>> THEN <<>> ELSE <<Head(commands.test)>>,
        build |-> <<>>]
  ELSE commands

\* read_only_result_can_finish.
FinishesAsAnswer(task, status, changed) ==
  ~RequiresDiff(task) /\ status = "success" /\ changed = {}
=============================================================================
