--------------------------- MODULE MCWorkerAttempts ---------------------------
(* Chains of the router: a model chain that escalates to OpenCode, one for    *)
(* hard bugs, one for a task pinned to Windows, and one with a mismatch.      *)
EXTENDS WorkerAttempts

Route(c, p, f, e) == [chain |-> c, primary |-> p, fallbacks |-> f, escalate |-> e]
Deep == Claude("deepseek")

MCRoutes ==
  {Route(<<>>, Deep, <<>>, TRUE),
   Route(<<>>, Deep, <<Deep>>, FALSE),
   Route(<<OpenCode("wsl"), OpenCode("wsl")>>, Deep, <<>>, FALSE),
   Route(<<OpenCode("windows")>>, Deep, <<>>, FALSE),
   Route(<<Claude("glm")>>, Deep, <<>>, FALSE)}

MCEdits == {{}, {"allowed"}, {"denied"}, {"ask"}}
=============================================================================
