---------------------------- MODULE MCCompletion ----------------------------
(* Completion on the cases that the attempts can hand over, by the mode, the *)
(* policy and the risk of the task, what the worker did, and the commands.   *)
EXTENDS Completion

Pytest == [starts |-> "pytest", has |-> {}, operators |-> FALSE]
Build == [starts |-> "build", has |-> {}, operators |-> FALSE]
Install == [starts |-> "install", has |-> {}, operators |-> FALSE]
PytestAnd == [starts |-> "pytest", has |-> {}, operators |-> TRUE]
Push == [starts |-> "git_status", has |-> {"push"}, operators |-> TRUE]

CommandLists ==
  {[test |-> <<Pytest, PytestAnd>>, build |-> <<Build>>],
   [test |-> <<Pytest, Pytest>>, build |-> <<Install>>],
   [test |-> <<Push>>, build |-> <<Build, Build>>],
   [test |-> <<Pytest, Pytest>>, build |-> <<Build>>]}
NoCommands == [test |-> <<>>, build |-> <<>>]

MCCommands == {Pytest, PytestAnd, Build, Install, Push}

Code == [dirs |-> {"src"}, name |-> "code"]
Key == [dirs |-> {"src"}, name |-> "key"]
MCEdits == {Code, Key}

Submitted ==
  {[mode |-> m, diff |-> m = "patch", allowEmpty |-> FALSE, type |-> "routine_coding",
    says |-> {}, policy |-> p, risk |-> r, forbidden |-> {"key", "secrets"}, commands |-> c] :
     m \in {"read_only", "patch"}, p \in {"none", "unit", "full"}, r \in {"low", "medium"},
     c \in CommandLists}

\* The database row that an approval resumes from has the goal and little else;
\* the default patterns of risk_policy.py stand for its forbidden paths.
Resumed ==
  {[mode |-> None, diff |-> None, allowEmpty |-> FALSE, type |-> None, says |-> words,
    policy |-> None, risk |-> None, forbidden |-> {"key", "secrets"},
    commands |-> NoCommands] : words \in {{"edit"}, {"analyze"}}}

Work(said, mock, partial, changed, committed) ==
  [status |-> said, mock |-> mock, partial |-> partial, changed |-> changed,
   committed |-> committed]

\* What task_attempt_runner.py lets through: a mock, a success with a diff where
\* one is required, a failed attempt whose diff was recovered, a salvaged answer.
Works(t) ==
  {Work("mock", TRUE, FALSE, {}, {})}
  \cup {Work("success", FALSE, FALSE, {Code}, committed) : committed \in {{}, {Code}}}
  \cup {Work("failed", FALSE, FALSE, {Code}, {})}
  \cup (IF RequiresDiff(t) THEN {} ELSE {Work("success", FALSE, FALSE, {}, {})})
  \cup (IF SalvageRequiresDiff(t) \/ RequiresDiff(t) THEN {}
        ELSE {Work("success", FALSE, TRUE, {}, {})})

MCCases ==
  UNION {{[task |-> t, work |-> w, worker |-> "claude_code", push |-> push, dry |-> dry] :
            w \in Works(t), push \in BOOLEAN, dry \in BOOLEAN} : t \in Submitted \cup Resumed}

\* A dry run has no worker but the mock.
HandedOver == {c \in MCCases : c.dry => c.work.mock}
=============================================================================
