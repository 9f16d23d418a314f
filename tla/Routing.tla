-------------------------------- MODULE Routing --------------------------------
(* From a task to the chain of workers that tries it: plan_route understands  *)
(* the task and scores candidates, apply_router_v3 selects by the shape of the*)
(* task, its budget and the record of the models, and an override of the user *)
(* replaces the result.                                                       *)
(*                                                                            *)
(* A task is a record [type, risk, shape, says, paths, budget, override], with*)
(* the fields of its protocol: says is the set of things its goal mentions,   *)
(* paths the kinds of its target paths, one for each path.  A project is a    *)
(* record [worker, model, variant, stack, world].  The history gives each     *)
(* model None or one of Rows, in percent and in cents.                        *)
EXTENDS TaskProtocol

TaskTypes == {"routine_coding", "simple_bugfix", "complex_coding", "hard_bugfix",
              "large_refactor"}
ReadOnlyShapes == {"review_only", "multimodal_analysis"}
TaskShapes == ReadOnlyShapes \cup
  {"targeted_patch", "open_bug_hunt", "docs_update", "test_generation",
   "large_refactor", "multimodal_to_code", "config_repair"}
PathKinds == {"docs", "tests", "settings", "prod", "secret", "code"}
Cues == {"readme", "analyze", "fix", "rewrite", "add_tests", "implement",
         "find_bug", "review_only", "config", "glm", "screenshot", "auth", "prod",
         "architecture", "blocked_command", "edit_secret"}

Glm == "glm"
Models == {"deepseek_flash", "deepseek_pro", "mimo_v25", "mimo_v25_pro", Glm}

\* What the history holds of a model that has been tried.
Rows == [rate : Nat, attempts : Nat, cost : Nat]
ASSUME HistoryAssumption == None \notin Rows

\* MODEL_COST_ESTIMATES, in cents.
Cost(model) ==
  CASE model = "deepseek_flash" -> 8
    [] model = "deepseek_pro"   -> 30
    [] model = "mimo_v25"       -> 20
    [] model = "mimo_v25_pro"   -> 40
    [] model = Glm              -> 55

Smaller(a, b) == IF a < b THEN a ELSE b
PathsOf(t) == {t.paths[i] : i \in DOMAIN t.paths}

-----------------------------------------------------------------------------
(* extract_features and classify_task.                                       *)

When(condition, x) == IF condition THEN {x} ELSE {}
Says(t, cues) == t.says \cap cues # {}

Actions(t) ==
  When(Says(t, {"readme"}), "docs")
    \cup When(Says(t, {"fix", "find_bug"}) \/ t.type = "simple_bugfix", "fix")
    \cup When(Says(t, {"rewrite"}) \/ t.type = "large_refactor", "refactor")
    \cup When(Says(t, {"add_tests"}), "test")
    \cup When(Says(t, {"implement", "add_tests", "edit_secret"}), "implement")

Objects(t) ==
  (t.says \cap {"auth", "architecture"})
    \cup When(Says(t, {"screenshot"}), "ui")
    \cup When(Says(t, {"prod"}), "infra")
    \cup When(Says(t, {"readme"}), "docs")

\* The goal tells the kinds only when the paths tell none.
Kinds(t) ==
  LET known == PathsOf(t) \cap {"docs", "tests", "prod", "secret"}
  IN  IF known # {} THEN known
      ELSE When(Says(t, {"readme"}), "docs")
             \cup When(Says(t, {"add_tests"}), "tests")

NeedsCodeChange(t) == Actions(t) \cap {"fix", "refactor", "implement"} # {}
Multimodal(t) == Says(t, {"screenshot"})
ExplicitGlm(t) == Says(t, {"glm"})
RiskObjects(t) == Objects(t) \cap {"auth", "infra"} # {}

ArtifactType(t) ==
  IF "docs" \in Kinds(t) \cup Actions(t) \cup Objects(t) THEN "docs"
  ELSE IF "tests" \in Kinds(t) \/ "test" \in Actions(t) THEN "tests"
  ELSE IF Multimodal(t) THEN "multimodal"
  ELSE IF NeedsCodeChange(t) THEN "change"
  ELSE "general"

Complexity(t) ==
  IF t.type = "hard_bugfix" THEN "max"
  ELSE IF t.risk = "high" THEN "high"
  ELSE IF t.type \in {"complex_coding", "large_refactor"} THEN "high"
  ELSE IF Actions(t) \cap {"refactor", "implement"} # {} /\ RiskObjects(t) THEN "high"
  ELSE IF "docs" \in Actions(t) /\ "docs" \in Kinds(t) THEN "low"
  ELSE "medium"

\* safety_gate, with paths and commands that are never worked on.
Blocked(t) ==
  \/ "secret" \in PathsOf(t)
  \/ Says(t, {"edit_secret", "blocked_command"})

HardApproval(t) ==
  "prod" \in PathsOf(t) \/ (Says(t, {"prod"}) /\ NeedsCodeChange(t))

-----------------------------------------------------------------------------
(* build_candidates, score_candidates, resolve_conflicts.                    *)

Candidate(worker, model, intensity, variant) ==
  [worker |-> worker, model |-> model, intensity |-> intensity,
   variant |-> variant]

If(condition, sequence) == IF condition THEN sequence ELSE <<>>

Candidates(t) ==
  <<Candidate("claude_code", "deepseek_pro", "medium", None),
    Candidate("claude_code", "deepseek_flash", "low", None)>>
  \o If(Multimodal(t), <<Candidate("claude_code", "mimo_v25", "medium", None)>>)
  \o If(Multimodal(t) /\ NeedsCodeChange(t),
        <<Candidate("claude_code", "mimo_v25_pro", "high", None)>>)
  \o If(\/ ExplicitGlm(t) \/ Complexity(t) \in {"high", "max"}
        \/ "architecture" \in Objects(t),
        <<Candidate("opencode", Glm, "high",
                    IF Complexity(t) = "max" THEN "max" ELSE "high")>>)
  \o If(Complexity(t) = "max", <<Candidate("opencode", Glm, "max", "max")>>)

\* _history_adjustment, in thousandths: success against 75%, and costs above
\* those of the cheapest model, both by the evidence.
HistoryAdjustment(model, history) ==
  LET row == history[model]
      costs == {history[m].cost : m \in {n \in Models : history[n] # None}} \ {0}
      floor == CHOOSE c \in costs : \A d \in costs : c <= d
      evidence == IF row.attempts < 3 THEN 35 * row.attempts
                  ELSE 100 * Smaller(10, row.attempts)
      overFloor == IF row.cost = 0 THEN 0
                   ELSE Smaller(8000, (10000 * (row.cost - floor)) \div row.cost)
  IN  IF row = None THEN 0
      ELSE ((row.rate - 75) * 2 * evidence) \div 5 - (overFloor * evidence) \div 1000

Score(c, t, p, history) ==
  LET Points(condition, n) == IF condition THEN 1000 * n ELSE 0
      claude == c.worker = "claude_code"
      type == ArtifactType(t)
      level == Complexity(t)
  IN  Points(ExplicitGlm(t) /\ ~claude, 100)
      + Points(Multimodal(t) /\ c.model \in {"mimo_v25", "mimo_v25_pro"}, 80)
      + Points(level = "max" /\ c.intensity = "max", 75)
      + Points(level = "high" /\ c.intensity \in {"high", "max"}, 70)
      + Points(level = "medium" /\ c.intensity = "medium", 30)
      + Points(type = "docs" /\ claude, 55)
      + Points(type = "docs" /\ c.model = "deepseek_pro", 5)
      + Points("readme" \in t.says /\ claude, 30)
      + Points(type = "tests" /\ claude, 45)
      + Points(c.model = "deepseek_pro" /\ level # "low", 10)
      - Points(c.model = "deepseek_flash" /\ level \in {"high", "max"}, 5)
      - Points("architecture" \in Objects(t) /\ type = "docs" /\ ~claude, 40)
      + Points("architecture" \in Objects(t) /\ type # "docs" /\ ~claude, 20)
      + Points(RiskObjects(t) /\ NeedsCodeChange(t) /\ ~claude
                 /\ "docs" \notin Actions(t), 25)
      - Points(type = "docs" /\ ~claude, 40)
      - Points(c.model = Glm /\ level \in {"low", "medium"} /\ type # "general", 20)
      + Points(p.worker = c.worker, 20) + Points(p.model = c.model, 20)
      + HistoryAdjustment(c.model, history)

\* The candidate among some with the highest score; the sort is stable.
Best(all, score, indices) ==
  all[CHOOSE i \in indices :
        \A j \in indices : score[j] < score[i] \/ (score[j] = score[i] /\ i <= j)]

\* The first rule that applies.
ResolveByRules(t, all, score) ==
  LET Of(worker) == {i \in DOMAIN all : all[i].worker = worker}
      With(field, values) == {i \in DOMAIN all : all[i][field] \in values}
      top == Best(all, score, DOMAIN all)
      docsContext == ArtifactType(t) = "docs"
      preferred == IF NeedsCodeChange(t) THEN "mimo_v25_pro" ELSE "mimo_v25"
      bug == Of("opencode") \cap With("intensity", {"max"})
      complex == Of("opencode") \cap With("intensity", {"high"})
  IN  IF /\ docsContext /\ top.worker = "opencode"
         /\ "architecture" \in Objects(t) \/ RiskObjects(t)
      THEN Best(all, score, Of("claude_code"))
      ELSE IF ExplicitGlm(t) THEN Best(all, score, Of("opencode"))
      ELSE IF Multimodal(t) THEN Best(all, score, With("model", {preferred}))
      ELSE IF t.type = "hard_bugfix" THEN Best(all, score, bug)
      ELSE IF t.type = "complex_coding" THEN Best(all, score, complex)
      ELSE IF \/ RiskObjects(t) /\ NeedsCodeChange(t)
              \/ Complexity(t) = "high"
              \/ docsContext
           THEN Best(all, score, Of("claude_code"))
      ELSE top

ResolveConflicts(t, p, history) ==
  LET all == Candidates(t)
  IN  ResolveByRules(t, all, [i \in DOMAIN all |-> Score(all[i], t, p, history)])

\* normalize_capability_tier and capability_profile: the variant GLM runs with.
GlmVariant(hint, intensity) ==
  IF hint \in {"high", "max"} THEN hint
  ELSE IF intensity \in {"high", "max"} THEN intensity
  ELSE None

\* normalize_variant, _normalize_project_variant.
Variant(value) == IF value \in {"high", "max", "minimal"} THEN value ELSE None

\* What a project with a known stack asks for.
WithStack(c, p) ==
  IF p.stack /\ p.worker = "opencode"
  THEN [c EXCEPT !.worker = "opencode",
                 !.model = IF p.model = None THEN Glm ELSE p.model,
                 !.variant = IF @ = None THEN Variant(p.variant) ELSE @]
  ELSE IF p.stack /\ p.worker \in {"claude_code", None} /\ p.model # None
            /\ c.worker = "claude_code" /\ c.model \in {"deepseek_pro", "deepseek_flash"}
       THEN [c EXCEPT !.model = p.model] ELSE c

\* _enforce_hard_rules.
WithoutClaudeGlm(c) ==
  IF c.model = Glm /\ c.worker = "claude_code"
  THEN [c EXCEPT !.model = "deepseek_pro"] ELSE c

WithTypeRule(c, t) ==
  IF t.type \in {"complex_coding", "hard_bugfix"} /\ c.worker # "opencode"
  THEN LET level == IF t.type = "hard_bugfix" THEN "max" ELSE "high"
       IN  Candidate("opencode", Glm, level, level)
  ELSE c

\* _apply_capability_profile.
WithProfile(c) ==
  IF c.worker = "opencode"
  THEN [c EXCEPT !.variant = GlmVariant(c.variant, c.intensity)] ELSE c

PlanV2(t, p, history) ==
  LET c == ResolveConflicts(t, p, history)
  IN  WithProfile(WithTypeRule(WithoutClaudeGlm(WithStack(c, p)), t))
-----------------------------------------------------------------------------
(* apply_router_v3: the shape of the task, its model, and its retry chain.   *)

\* Mutant: what a task must not change is not looked at.
ShapeByWords(t) ==
  IF t.shape # None THEN t.shape
  ELSE IF Multimodal(t) THEN "multimodal_analysis"
  ELSE IF Says(t, {"rewrite"}) THEN "large_refactor"
  ELSE IF Says(t, {"readme"}) THEN "docs_update" ELSE "targeted_patch"

\* classify_task_shape: the first rule that applies.
Shape(t) ==
  LET rules ==
        <<<<Multimodal(t) /\ NeedsCodeChange(t), "multimodal_to_code">>,
          <<Multimodal(t), "multimodal_analysis">>,
          <<t.type \in {"hard_bugfix", "large_refactor"}, "large_refactor">>,
          <<Says(t, {"rewrite"}), "large_refactor">>,
          <<Says(t, {"review_only"}), "review_only">>,
          <<"settings" \in PathsOf(t) \/ Says(t, {"config"}), "config_repair">>,
          <<Says(t, {"add_tests"}), "test_generation">>,
          <<"docs" \in PathsOf(t) \/ Says(t, {"readme"}), "docs_update">>,
          <<Says(t, {"find_bug"}) /\ t.paths = <<>>, "open_bug_hunt">>,
          <<t.paths # <<>> \/ t.type \in {"simple_bugfix", "routine_coding"},
            "targeted_patch">>,
          <<NeedsCodeChange(t), "targeted_patch">>,
          <<Says(t, {"analyze"}), "review_only">>,
          <<TRUE, "targeted_patch">>>>
      first == CHOOSE i \in DOMAIN rules :
                 rules[i][1] /\ \A j \in 1..(i - 1) : ~rules[j][1]
      asked == IF t.shape # None THEN t.shape
               ELSE IF IsReadOnly(t) /\ Multimodal(t) THEN "multimodal_analysis"
               ELSE rules[first][2]
  IN  IF IsReadOnly(t) /\ asked \notin ReadOnlyShapes THEN "review_only" ELSE asked

\* within_budget; when no model is, all are.
Affordable(models, budget) ==
  LET within == {m \in models : budget = None \/ Cost(m) <= budget}
  IN  IF within = {} THEN models ELSE within

Reliable(row) == row # None /\ row.attempts >= 3

\* history_model_score, times 6000: the success rate counts by its evidence,
\* in sixtieths, and cheap work, expected and observed, has a bonus.
ModelScore(row, model) ==
  LET evidence == IF row.attempts = 0 THEN 0
                  ELSE IF row.attempts < 3 THEN 12
                  ELSE Smaller(60, 5 * row.attempts)
      earned == IF row = None THEN 3000
                ELSE row.rate * evidence + 50 * (60 - evidence)
      observed == IF row = None \/ row.cost = 0 THEN 0
                  ELSE Smaller(1080, 12000 \div row.cost)
  IN  earned + (6000 \div Cost(model)) + observed

\* Mutant: the default is kept when it is far behind, not when it is close.
ChooseModelSwapped(history, default, budget) ==
  LET eligible == Affordable({"deepseek_flash", "deepseek_pro"}, budget)
      score == [m \in eligible |-> ModelScore(history[m], m)]
      best == CHOOSE m \in eligible : \A n \in eligible : score[n] <= score[m]
  IN  IF default \in eligible /\ score[best] - score[default] > 240
      THEN default ELSE best

\* choose_claude_model, between Flash and Pro.
ChooseModel(history, default, budget) ==
  LET eligible == Affordable({"deepseek_flash", "deepseek_pro"}, budget)
      score == [m \in eligible |-> ModelScore(history[m], m)]
      best == CHOOSE m \in eligible :
                \A n \in eligible \ {m} :
                   score[n] < score[m] \/ (score[n] = score[m] /\ Cost(m) < Cost(n))
      cheapest == CHOOSE m \in eligible : \A n \in eligible : Cost(m) <= Cost(n)
  IN  IF \A m \in eligible : ~Reliable(history[m])
      THEN IF default \in eligible THEN default ELSE cheapest
      ELSE IF default \in eligible /\ score[best] - score[default] < 240
      THEN default ELSE best

Step(worker, model, variant) ==
  [worker |-> worker, model |-> model, variant |-> variant]
Claude(model) == Step("claude_code", model, None)
OpenCode(variant) == Step("opencode", Glm, variant)

\* select_for_shape.
Select(t, p, v2, history) ==
  LET shape == Shape(t)
      single == Len(t.paths) = 1
      own == Variant(v2.variant)
  IN  IF t.type = "hard_bugfix" THEN OpenCode("max")
      ELSE IF v2.worker = "opencode"
           THEN OpenCode(IF own = None /\ v2.model = Glm THEN Variant(p.variant)
                         ELSE own)
      ELSE IF ExplicitGlm(t) THEN OpenCode("high")
      ELSE CASE shape = "docs_update" ->
                  Claude(ChooseModel(history, "deepseek_flash", t.budget))
             [] shape = "targeted_patch" /\ single ->
                  Claude(ChooseModel(history, "deepseek_pro", t.budget))
             [] shape = "targeted_patch" /\ ~single -> Claude("deepseek_pro")
             [] shape \in {"open_bug_hunt", "test_generation", "config_repair"} ->
                  Claude("deepseek_pro")
             [] shape = "large_refactor"      -> OpenCode("max")
             [] shape = "multimodal_analysis" -> Claude("mimo_v25")
             [] shape = "multimodal_to_code"  -> Claude("mimo_v25_pro")
             [] shape = "review_only"         -> Claude("deepseek_flash")

\* retry_chain_for_shape.
Chain(shape, first) ==
  CASE shape = "docs_update" ->
         <<first, Claude(IF first.model = "deepseek_flash" THEN "deepseek_pro"
                         ELSE "deepseek_flash")>>
    [] shape = "targeted_patch" ->
         <<first>> \o If(first.model # "deepseek_pro", <<Claude("deepseek_pro")>>)
                  \o <<OpenCode("high")>>
    [] shape \in {"open_bug_hunt", "test_generation", "config_repair",
                  "multimodal_to_code", "large_refactor"} ->
         <<first, OpenCode("high")>>
    [] shape = "multimodal_analysis" -> <<first, Claude("mimo_v25_pro")>>
    [] shape = "review_only"         -> <<first>>

\* estimate_route_cost, in hundredths of a cent.
Estimate(chain) ==
  LET total[i \in 0..Len(chain)] ==
        IF i = 0 THEN 0
        ELSE total[i - 1] + Cost(chain[i].model) * (IF i = 1 THEN 100 ELSE 35)
  IN  total[Len(chain)]

\* plan_route.  A blocked route names no worker, no model and no attempts.
PlanRoute(t, p, history) ==
  LET v2 == PlanV2(t, p, history)
      first == IF Blocked(t) THEN Step("", "", None) ELSE Select(t, p, v2, history)
      chain == IF Blocked(t) THEN <<>> ELSE Chain(Shape(t), first)
  IN  [blocked |-> Blocked(t), shape |-> Shape(t), first |-> first, chain |-> chain,
       estimate |-> Estimate(chain),
       approval |-> ~Blocked(t) /\ HardApproval(t)]

\* apply_route_override: what the user names replaces the chain, and unblocks.
Override(route, t) ==
  IF t.override = None THEN route
  ELSE LET Given(field) == IF t.override[field] # None THEN t.override[field]
                           ELSE route.first[field]
           only == Step(Given("worker"), Given("model"), Given("variant"))
       IN  [route EXCEPT !.blocked = FALSE, !.first = only, !.chain = <<only>>]

\* What the plan of a world-enabled project is asked to route: the goal and the
\* risk, nothing that the protocol made of them, for a project of its own.
WorldTask(t) ==
  [t EXCEPT !.type = None, !.shape = None, !.paths = <<>>, !.budget = None,
            !.mode = None, !.diff = None, !.policy = None, !.override = None]
WorldProject(p) ==
  [p EXCEPT !.worker = "claude_code", !.model = "deepseek_pro", !.variant = None]

\* Mutant: the first step of a blocked route is the default model.
RouteForTaskDefault(t, p, history) ==
  LET route == IF p.world THEN PlanRoute(WorldTask(t), WorldProject(p), history)
               ELSE PlanRoute(t, p, history)
  IN  Override([route EXCEPT !.first = IF route.blocked THEN Claude("deepseek_pro") ELSE @],
               t)

\* route_for_task.
RouteForTask(t, p, history) ==
  Override(IF p.world THEN PlanRoute(WorldTask(t), WorldProject(p), history)
           ELSE PlanRoute(t, p, history), t)

\* build_retry_chain: a chain that is empty is replaced by the first step,
\* whose name no worker has when the route is blocked: the default worker runs it.
AttemptsOf(route) ==
  IF route.chain # <<>> THEN route.chain
  ELSE <<[route.first EXCEPT !.worker =
            IF route.first.worker = "" THEN "claude_code" ELSE route.first.worker]>>
=============================================================================
