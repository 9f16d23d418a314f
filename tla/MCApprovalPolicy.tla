-------------------------- MODULE MCApprovalPolicy --------------------------
(* Three tasks of two types; a rule of the user blocks routine coding.        *)
EXTENDS ApprovalPolicy, TLC

CONSTANTS t1, t2, t3, src

MCTasks == {t1, t2, t3}
MCTypes == {"docs", "routine_coding"}
MCPaths == {src}

MCOverrides ==
  [type \in MCTypes |-> IF type = "routine_coding" THEN "BLOCKED" ELSE "none"]

MCRequests ==
  {[type |-> "docs", risk |-> "high", touches |-> "production"],
   [type |-> "docs", risk |-> "medium", touches |-> "forbidden"],
   [type |-> "routine_coding", risk |-> "medium", touches |-> "command"],
   [type |-> "routine_coding", risk |-> "high", touches |-> "nothing"]}

TaskSymmetry == Permutations(MCTasks)
=============================================================================
