----------------------------- MODULE Permissions -----------------------------
(* permissions.py: what the static profile of a worker lets it write, run and *)
(* be launched with.  Every check looks at the denied patterns first, then at *)
(* those that need a question, then at the allowed ones; what none matches is *)
(* denied.                                                                    *)
(*                                                                            *)
(* A path is a record [dirs, name]: the directories it lies under, at any     *)
(* depth, as _path_matches tries every pattern below any directory too, and   *)
(* the kind of its file name.  A command is a record [starts, has, operators]:*)
(* what its first words are, what occurs in it anywhere, and whether it has a *)
(* shell operator outside quotes.                                             *)
EXTENDS Integers, Sequences, FiniteSets

Workers == {"claude_code", "opencode"}

\* The profiles of config/worker_permissions.yaml.  Both workers have the same
\* rights but for the models; a name outside the file gets empty lists.
Profile(worker) ==
  IF worker \notin Workers
  THEN [write |-> [deny |-> {}, ask |-> {}, allow |-> {}],
        bash |-> [deny |-> {}, ask |-> {}, allow |-> {}],
        provider |-> [deny |-> {}, allow |-> {}]]
  ELSE [write |-> [deny  |-> {"env", "secrets", "key"},
                   ask   |-> {"manifest", "prod"},
                   allow |-> {"src", "tests", "docs", "markdown"}],
        bash |-> [deny  |-> {"push", "rm_root", "drop_database", "skip_permissions"},
                  ask   |-> {"install"},
                  allow |-> {"git_status", "pytest", "build"}],
        provider |-> IF worker = "claude_code"
                     THEN [deny |-> {"glm"}, allow |-> {"deepseek", "mimo"}]
                     ELSE [deny |-> {}, allow |-> {}]]

PathMatches(path, patterns) == (path.dirs \cup {path.name}) \cap patterns # {}

CommandMatches(command, patterns) ==
  ({command.starts} \cup command.has) \cap patterns # {}

\* _contains_shell_control_operator, quotes taken into account.
UsesShellOperators(command) == command.operators

\* check_write_path.
CheckWrite(worker, path) ==
  LET write == Profile(worker).write
  IN  IF PathMatches(path, write.deny) THEN "deny"
      ELSE IF PathMatches(path, write.ask) THEN "ask"
      ELSE IF PathMatches(path, write.allow) THEN "allow"
      ELSE "deny"

\* check_write_paths: one answer for all the paths, which can be both refused
\* and to be asked about.
CheckWrites(worker, paths) ==
  [allowed |-> \A p \in paths : CheckWrite(worker, p) # "deny",
   ask |-> \E p \in paths : CheckWrite(worker, p) = "ask"]

\* check_bash_command.
CheckCommand(worker, command) ==
  LET bash == Profile(worker).bash
  IN  IF CommandMatches(command, bash.deny) THEN "deny"
      ELSE IF UsesShellOperators(command) THEN "deny"
      ELSE IF CommandMatches(command, bash.ask) THEN "ask"
      ELSE IF CommandMatches(command, bash.allow) THEN "allow"
      ELSE "deny"

\* check_provider, for the model whose name contains the given families; the
\* empty name contains none.
CheckProvider(worker, families) ==
  LET provider == Profile(worker).provider
  IN  /\ families \cap provider.deny = {}
      /\ families \cap provider.allow # {} \/ provider.allow = {}
=============================================================================
