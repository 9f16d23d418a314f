--------------------------- MODULE Decisions_proofs ---------------------------
(* What the decisions promise for every task, project, history and request,   *)
(* of which the runs ask a sample.                                           *)
EXTENDS MCDecisions, SequenceTheorems, WellFoundedInduction, TLAPS

-----------------------------------------------------------------------------
(* Tasks that change nothing.                                                *)

LEMMA ReadOnlyShape ==
  ASSUME NEW t, IsReadOnly(t)
  PROVE  Shape(t) \in ReadOnlyShapes
BY DEF Shape, ReadOnlyShapes

\* Of the chain of a shape that changes nothing only the first step can be GLM.
LEMMA ReadOnlyChain ==
  ASSUME NEW shape \in ReadOnlyShapes, NEW first
  PROVE  \A i \in 2..Len(Chain(shape, first)) : Chain(shape, first)[i].worker = "claude_code"
<1>1. CASE shape = "review_only"
  BY <1>1 DEF Chain
<1>2. CASE shape = "multimodal_analysis"
  <2>1. Chain(shape, first) = <<first, Claude("mimo_v25_pro")>>
    BY <1>2 DEF Chain
  <2> QED
    BY <2>1 DEF Claude, Step
<1> QED
  BY <1>1, <1>2 DEF ReadOnlyShapes

LEMMA ReadOnlyRoute ==
  ASSUME NEW t, NEW p, NEW history, IsReadOnly(t), t.override = None, ~p.world
  PROVE  LET chain == RouteForTask(t, p, history).chain
         IN  \A i \in 2..Len(chain) : chain[i].worker # "opencode"
<1> DEFINE plan == PlanRoute(t, p, history)
<1>1. RouteForTask(t, p, history) = plan
  BY DEF RouteForTask, Override
<1>2. CASE Blocked(t)
  <2>1. plan.chain = <<>>
    BY <1>2 DEF PlanRoute
  <2> QED
    BY <1>1, <2>1
<1>3. CASE ~Blocked(t)
  <2>1. PICK first : plan.chain = Chain(Shape(t), first)
    BY <1>3 DEF PlanRoute
  <2> QED
    BY <1>1, <2>1, ReadOnlyShape, ReadOnlyChain
<1> QED
  BY <1>2, <1>3

-----------------------------------------------------------------------------
(* The readers of the protocol.                                              *)

\* Whatever is known of a task, partial work is salvaged as an answer only
\* where the completion takes an answer for a result.
LEMMA SalvageIsStricter ==
  ASSUME NEW task, ~SalvageRequiresDiff(task)
  PROVE  ~RequiresDiff(task)
BY DEF SalvageRequiresDiff, RequiresDiff

\* Unless the caller or the header expects a diff in so many words, the mode
\* alone tells every reader whether the task must change files.
LEMMA ModeDecides ==
  ASSUME NEW t, t.mode \in Modes, t.diff = (t.mode \notin {"read_only", "audit"})
  PROVE  IsReadOnly(t) = ~RequiresDiff(t) /\ IsReadOnly(t) = ~SalvageRequiresDiff(t)
BY ProtocolAssumption DEF IsReadOnly, RequiresDiff, SalvageRequiresDiff

LEMMA ProtocolFields ==
  ASSUME NEW request
  PROVE  /\ Protocol(request).mode \in Modes /\ Protocol(request).diff \in BOOLEAN
         /\ Named(request.diff, request.header.diff) \notin BOOLEAN =>
              Protocol(request).diff = (Protocol(request).mode \notin {"read_only", "audit"})
BY DEF Protocol, Choice, InferMode, Modes

-----------------------------------------------------------------------------
(* The console.                                                              *)

LEMMA EndedIsShownEnded ==
  ASSUME NEW s \in SuccessStatuses \cup {"CANCELLED", "ROLLED_BACK"}, NEW sight
  PROVE  Derive(s, sight).big \in {"Done", "Closed", "Alerts"}
<1> USE DEF Derive, Shown
<1>1. s \in DoneStatuses \cup ClosedStatuses
  BY DEF DoneStatuses, ClosedStatuses
<1>2. s \notin ActiveStatuses /\ s \notin {"RETRYING", "ESCALATED"}
  BY DEF ActiveStatuses, SuccessStatuses
<1>3. ByStatus(s).big \in {"Done", "Closed"}
  BY DEF ByStatus, AskingStatuses, QueuedStatuses, FailedStatuses, ApprovalStatuses, DoneStatuses,
     ClosedStatuses, SuccessStatuses
<1> QED
  BY <1>1, <1>2, <1>3

-----------------------------------------------------------------------------
(* The questions, and their answers.                                         *)

LEMMA TaskFields ==
  ASSUME NEW q
  PROVE  LET t == TaskOf(q)
         IN  /\ t.override = q.override /\ t.shape = q.shape
             /\ t.mode = Protocol(q.request).mode /\ t.diff = Protocol(q.request).diff
BY DEF TaskOf, Protocol

-----------------------------------------------------------------------------
(* Workers and the models they may run.                                      *)

ClaudeModels == {"deepseek_flash", "deepseek_pro"}
Histories == [Models -> Rows \cup {None}]

\* A step that some worker may run.
Fits(step) ==
  \/ step.worker = "claude_code" /\ step.model \in ClaudeModels \cup {"mimo_v25", "mimo_v25_pro"}
  \/ step.worker = "opencode" /\ step.model = Glm

LEMMA FittingStepsPass ==
  ASSUME NEW step, Fits(step)
  PROVE  CheckProvider(step.worker, Families(step.model))
<1>1. CASE step.worker = "opencode"
  BY <1>1 DEF CheckProvider, Profile, Workers
<1>2. CASE step.worker = "claude_code" /\ step.model \in ClaudeModels
  BY <1>2 DEF CheckProvider, Profile, Workers, ClaudeModels, Families
<1>3. CASE step.worker = "claude_code" /\ step.model \in {"mimo_v25", "mimo_v25_pro"}
  BY <1>3 DEF CheckProvider, Profile, Workers, Families
<1> QED
  BY <1>1, <1>2, <1>3 DEF Fits

LEMMA StepsFit ==
  /\ \A variant : Fits(OpenCode(variant))
  /\ \A model \in ClaudeModels \cup {"mimo_v25", "mimo_v25_pro"} : Fits(Claude(model))
BY DEF Fits, OpenCode, Claude, Step

LEMMA ScoresAreNumbers ==
  ASSUME NEW row \in Rows \cup {None}, NEW model \in ClaudeModels
  PROVE  ModelScore(row, model) \in Int
<1>1. Cost(model) \in {8, 30}
  BY DEF ClaudeModels, Cost, Glm
<1>2. 6000 \div Cost(model) \in Int
  BY <1>1
<1>3. CASE row = None
  BY <1>2, <1>3 DEF ModelScore
<1>4. CASE row # None
  <2>1. row.rate \in Nat /\ row.attempts \in Nat /\ row.cost \in Nat
    BY <1>4 DEF Rows
  <2> DEFINE evidence == IF row.attempts = 0 THEN 0
                         ELSE IF row.attempts < 3 THEN 12 ELSE Smaller(60, 5 * row.attempts)
             observed == IF row.cost = 0 THEN 0 ELSE Smaller(1080, 12000 \div row.cost)
  <2>2. evidence \in Int
    BY <2>1 DEF Smaller
  <2>3. observed \in Int
    BY <2>1 DEF Smaller
  <2>4. ModelScore(row, model)
          = row.rate * evidence + 50 * (60 - evidence) + (6000 \div Cost(model)) + observed
    BY <1>4 DEF ModelScore
  <2> HIDE DEF evidence, observed
  <2> QED
    BY <1>2, <2>1, <2>2, <2>3, <2>4
<1> QED
  BY <1>3, <1>4

LEMMA ChosenModel ==
  ASSUME NEW history \in Histories, NEW default, NEW budget
  PROVE  ChooseModel(history, default, budget) \in ClaudeModels
<1> DEFINE eligible == Affordable({"deepseek_flash", "deepseek_pro"}, budget)
           score == [m \in eligible |-> ModelScore(history[m], m)]
           Better(m, n) == score[n] < score[m] \/ (score[n] = score[m] /\ Cost(m) < Cost(n))
           IsBest(m) == \A n \in eligible \ {m} : Better(m, n)
           IsCheapest(m) == \A n \in eligible : Cost(m) <= Cost(n)
           best == CHOOSE m \in eligible : IsBest(m)
           cheapest == CHOOSE m \in eligible : IsCheapest(m)
<1>1. eligible \subseteq ClaudeModels /\ eligible # {}
  BY DEF Affordable, ClaudeModels
<1>2. \A m \in eligible : score[m] \in Int
  <2>1. \A m \in ClaudeModels : history[m] \in Rows \cup {None}
    BY DEF Histories, Models, ClaudeModels
  <2> QED
    BY <1>1, <2>1, ScoresAreNumbers
<1>3. Cost("deepseek_flash") = 8 /\ Cost("deepseek_pro") = 30
  BY DEF Cost, Glm
<1>4. \/ ChooseModel(history, default, budget) \in {best, cheapest}
      \/ ChooseModel(history, default, budget) = default /\ default \in eligible
  BY DEF ChooseModel
<1> HIDE DEF eligible, score
<1>5. \/ eligible = {"deepseek_flash"} \/ eligible = {"deepseek_pro"}
      \/ eligible = {"deepseek_flash", "deepseek_pro"}
  BY <1>1 DEF ClaudeModels
<1>6. \E m \in eligible : IsCheapest(m)
  BY <1>3, <1>5
<1>7. \E m \in eligible : IsBest(m)
  <2>1. CASE eligible = {"deepseek_flash"} \/ eligible = {"deepseek_pro"}
    BY <2>1
  <2>2. CASE eligible = {"deepseek_flash", "deepseek_pro"}
    <3>1. score["deepseek_flash"] \in Int /\ score["deepseek_pro"] \in Int
      BY <1>2, <2>2
    <3>2. Better("deepseek_flash", "deepseek_pro") \/ Better("deepseek_pro", "deepseek_flash")
      BY <1>3, <3>1
    <3>3. CASE Better("deepseek_flash", "deepseek_pro")
      <4>1. IsBest("deepseek_flash")
        BY <2>2, <3>3
      <4> QED
        BY <2>2, <4>1
    <3>4. CASE Better("deepseek_pro", "deepseek_flash")
      <4>1. IsBest("deepseek_pro")
        BY <2>2, <3>4
      <4> QED
        BY <2>2, <4>1
    <3> QED
      BY <3>2, <3>3, <3>4
  <2> QED
    BY <1>5, <2>1, <2>2
<1> HIDE DEF IsBest, IsCheapest
<1>8. best \in eligible /\ cheapest \in eligible
  BY <1>6, <1>7
<1> QED
  BY <1>1, <1>4, <1>8

-----------------------------------------------------------------------------
(* The shape of a task, and the steps that it is given.                      *)

Below == {p \in Nat \X Nat : p[1] < p[2]}

LEMMA LeastNatural ==
  ASSUME NEW T \in SUBSET Nat, T # {}
  PROVE  \E x \in T : \A y \in T : x <= y
<1>1. IsWellFoundedOn(Below, Nat)
  <2>1. Below = OpToRel(<, Nat)
    BY Zenon DEF OpToRel, Below
  <2> QED
    BY <2>1, NatLessThanWellFounded, Zenon
<1>2. PICK x \in T : \A y \in T : ~ (<<y, x>> \in Below)
  BY <1>1, WFMin
<1>3. ASSUME NEW y \in T PROVE x <= y
  <2>1. x \in Nat /\ y \in Nat /\ <<y, x>> \in Nat \X Nat
    OBVIOUS
  <2>2. ~(y < x)
    BY <1>2, <2>1 DEF Below
  <2> QED
    BY <2>1, <2>2
<1> QED
  BY <1>3

LEMMA KnownShape ==
  ASSUME NEW t, t.shape \in TaskShapes \cup {None}
  PROVE  Shape(t) \in TaskShapes
<1> DEFINE rules ==
      <<<<Multimodal(t) /\ NeedsCodeChange(t), "multimodal_to_code">>,
        <<Multimodal(t), "multimodal_analysis">>,
        <<t.type \in {"hard_bugfix", "large_refactor"}, "large_refactor">>,
        <<Says(t, {"rewrite"}), "large_refactor">>,
        <<Says(t, {"review_only"}), "review_only">>,
        <<"settings" \in PathsOf(t) \/ Says(t, {"config"}), "config_repair">>,
        <<Says(t, {"add_tests"}), "test_generation">>,
        <<"docs" \in PathsOf(t) \/ Says(t, {"readme"}), "docs_update">>,
        <<Says(t, {"find_bug"}) /\ t.paths = <<>>, "open_bug_hunt">>,
        <<t.paths # <<>> \/ t.type \in {"simple_bugfix", "routine_coding"},
          "targeted_patch">>,
        <<NeedsCodeChange(t), "targeted_patch">>,
        <<Says(t, {"analyze"}), "review_only">>,
        <<TRUE, "targeted_patch">>>>
      IsFirst(i) == rules[i][1] /\ \A j \in 1..(i - 1) : ~rules[j][1]
      first == CHOOSE i \in DOMAIN rules : IsFirst(i)
<1>1. DOMAIN rules = 1..13 /\ rules[13][1]
  OBVIOUS
<1>2. \A i \in 1..13 : rules[i][2] \in TaskShapes
  <2>1. \A i \in 1..13 : \/ i = 1 \/ i = 2 \/ i = 3 \/ i = 4 \/ i = 5 \/ i = 6 \/ i = 7
                        \/ i = 8 \/ i = 9 \/ i = 10 \/ i = 11 \/ i = 12 \/ i = 13
    OBVIOUS
  <2>2. /\ rules[1][2] = "multimodal_to_code" /\ rules[2][2] = "multimodal_analysis" 
        /\ rules[3][2] = "large_refactor" /\ rules[4][2] = "large_refactor" 
        /\ rules[5][2] = "review_only" /\ rules[6][2] = "config_repair" 
        /\ rules[7][2] = "test_generation" /\ rules[8][2] = "docs_update" 
        /\ rules[9][2] = "open_bug_hunt" /\ rules[10][2] = "targeted_patch" 
        /\ rules[11][2] = "targeted_patch" /\ rules[12][2] = "review_only" 
        /\ rules[13][2] = "targeted_patch"
    OBVIOUS
  <2>3. {"multimodal_to_code", "multimodal_analysis", "large_refactor", "review_only",
         "config_repair", "test_generation", "docs_update", "open_bug_hunt",
         "targeted_patch"} \subseteq TaskShapes
    BY DEF TaskShapes, ReadOnlyShapes
  <2> HIDE DEF rules
  <2> QED
    BY <2>1, <2>2, <2>3
<1>3. \/ Shape(t) \in {"review_only", "multimodal_analysis", rules[first][2]}
      \/ t.shape # None /\ Shape(t) = t.shape
  BY DEF Shape
<1> HIDE DEF rules
<1>4. first \in 1..13
  <2> DEFINE T == {i \in 1..13 : rules[i][1]}
  <2>1. T \in SUBSET Nat /\ T # {}
    BY <1>1
  <2>2. PICK i \in T : \A j \in T : i <= j
    BY <2>1, LeastNatural
  <2>3. \A j \in 1..(i - 1) : j \in 1..13 /\ ~(i <= j)
    BY <2>2
  <2>4. IsFirst(i) /\ i \in DOMAIN rules
    BY <1>1, <2>2, <2>3
  <2> HIDE DEF IsFirst
  <2>5. first \in DOMAIN rules
    BY <2>4
  <2> QED
    BY <1>1, <2>5
<1> QED
  BY <1>2, <1>3, <1>4 DEF TaskShapes, ReadOnlyShapes

LEMMA SelectedFits ==
  ASSUME NEW t, t.shape \in TaskShapes \cup {None}, NEW p, NEW v2, NEW history \in Histories
  PROVE  Fits(Select(t, p, v2, history))
<1> DEFINE selected == Select(t, p, v2, history)
<1>1. Shape(t) \in TaskShapes
  BY KnownShape
<1>2. CASE \E variant : selected = OpenCode(variant)
  BY <1>2, StepsFit
<1>3. CASE \E model \in ClaudeModels \cup {"mimo_v25", "mimo_v25_pro"} : selected = Claude(model)
  BY <1>3, StepsFit
<1>4. CASE t.type = "hard_bugfix" \/ v2.worker = "opencode" \/ ExplicitGlm(t)
  BY <1>2, <1>4 DEF Select
<1>5. CASE ~(t.type = "hard_bugfix" \/ v2.worker = "opencode" \/ ExplicitGlm(t))
  <2>1. CASE Shape(t) = "docs_update"
    BY <1>3, <1>5, <2>1, ChosenModel DEF Select
  <2>2. CASE Shape(t) = "targeted_patch"
    <3>1. CASE Len(t.paths) = 1
      BY <1>3, <1>5, <2>2, <3>1, ChosenModel DEF Select
    <3>2. CASE Len(t.paths) # 1
      BY <1>3, <1>5, <2>2, <3>2 DEF Select, ClaudeModels
    <3> QED
      BY <3>1, <3>2
  <2>3. CASE Shape(t) \in {"open_bug_hunt", "test_generation", "config_repair"}
    BY <1>3, <1>5, <2>3 DEF Select, ClaudeModels
  <2>4. CASE Shape(t) = "large_refactor"
    BY <1>2, <1>5, <2>4 DEF Select
  <2>5. CASE Shape(t) \in {"multimodal_analysis", "multimodal_to_code"}
    BY <1>3, <1>5, <2>5 DEF Select
  <2>6. CASE Shape(t) = "review_only"
    BY <1>3, <1>5, <2>6 DEF Select, ClaudeModels
  <2> QED
    BY <1>1, <2>1, <2>2, <2>3, <2>4, <2>5, <2>6 DEF TaskShapes, ReadOnlyShapes
<1> QED
  BY <1>4, <1>5

LEMMA ChainFits ==
  ASSUME NEW shape \in TaskShapes, NEW first, Fits(first)
  PROVE  Chain(shape, first) # <<>>
         /\ \A i \in DOMAIN Chain(shape, first) : Fits(Chain(shape, first)[i])
<1> DEFINE chain == Chain(shape, first)
           S == {step \in {first, OpenCode("high"), Claude("deepseek_pro"),
                           Claude("deepseek_flash"), Claude("mimo_v25_pro")} : Fits(step)}
<1>1. /\ first \in S /\ OpenCode("high") \in S /\ Claude("deepseek_pro") \in S
      /\ Claude("deepseek_flash") \in S /\ Claude("mimo_v25_pro") \in S
  BY StepsFit DEF ClaudeModels
<1>2. \A step \in S : Fits(step)
  OBVIOUS
<1> HIDE DEF S
<1>3. chain \in Seq(S) /\ Len(chain) > 0
  <2>1. CASE shape = "targeted_patch"
    <3>1. chain = <<first>> \o If(first.model # "deepseek_pro", <<Claude("deepseek_pro")>>)
                           \o <<OpenCode("high")>>
      BY <2>1 DEF Chain
    <3>2. If(first.model # "deepseek_pro", <<Claude("deepseek_pro")>>) \in Seq(S)
      BY <1>1 DEF If
    <3> QED
      BY <1>1, <3>1, <3>2
  <2>2. CASE shape = "docs_update"
    BY <1>1, <2>2 DEF Chain
  <2>3. CASE shape \in {"open_bug_hunt", "test_generation", "config_repair", "multimodal_to_code",
                        "large_refactor"}
    <3>1. chain = <<first, OpenCode("high")>>
      BY <2>3 DEF Chain
    <3> QED
      BY <1>1, <3>1
  <2>4. CASE shape = "multimodal_analysis"
    <3>1. chain = <<first, Claude("mimo_v25_pro")>>
      BY <2>4 DEF Chain
    <3> QED
      BY <1>1, <3>1
  <2>5. CASE shape = "review_only"
    <3>1. chain = <<first>>
      BY <2>5 DEF Chain
    <3> QED
      BY <1>1, <3>1
  <2> QED
    BY <2>1, <2>2, <2>3, <2>4, <2>5 DEF TaskShapes, ReadOnlyShapes
<1> HIDE DEF chain
<1>4. chain # <<>> /\ \A i \in DOMAIN chain : Fits(chain[i])
  BY <1>2, <1>3
<1> QED
  BY <1>4 DEF chain

LEMMA PlannedAttemptsFit ==
  ASSUME NEW t, t.shape \in TaskShapes \cup {None}, NEW p, NEW history \in Histories
  PROVE  LET planned == PlanRoute(t, p, history)
         IN  \A i \in DOMAIN AttemptsOf(planned) :
               LET step == AttemptsOf(planned)[i]
               IN  CheckProvider(step.worker, Families(step.model)) <=> ~planned.blocked
<1> DEFINE planned == PlanRoute(t, p, history)
<1>1. CASE Blocked(t)
  <2> DEFINE none == Step("", "", None)
  <2>1. planned.blocked /\ planned.chain = <<>> /\ planned.first = none
    BY <1>1 DEF PlanRoute
  <2> HIDE DEF planned
  <2> DEFINE only == [none EXCEPT !.worker = "claude_code"]
  <2>2. none.worker = "" /\ only.worker = "claude_code" /\ only.model = ""
    BY DEF Step
  <2> HIDE DEF none, only
  <2>3. AttemptsOf(planned) = <<only>>
    BY <2>1, <2>2 DEF AttemptsOf, only
  <2>5. \A i \in DOMAIN AttemptsOf(planned) : AttemptsOf(planned)[i] = only
    BY <2>3
  <2>6. Families(only.model) = {}
    BY <2>2 DEF Families, Glm
  <2>7. ~CheckProvider("claude_code", {})
    BY DEF CheckProvider, Profile, Workers
  <2>8. \A i \in DOMAIN AttemptsOf(planned) :
          CheckProvider(AttemptsOf(planned)[i].worker, Families(AttemptsOf(planned)[i].model))
            <=> ~planned.blocked
    BY <2>1, <2>2, <2>5, <2>6, <2>7
  <2> QED
    BY <2>8 DEF planned
<1>2. CASE ~Blocked(t)
  <2> DEFINE first == Select(t, p, PlanV2(t, p, history), history)
  <2>1. ~planned.blocked /\ planned.chain = Chain(Shape(t), first)
    BY <1>2 DEF PlanRoute
  <2>2. Fits(first) /\ Shape(t) \in TaskShapes
    BY SelectedFits, KnownShape
  <2> HIDE DEF first, planned
  <2>3. AttemptsOf(planned) = Chain(Shape(t), first)
    BY <2>1, <2>2, ChainFits DEF AttemptsOf
  <2>4. \A i \in DOMAIN AttemptsOf(planned) : Fits(AttemptsOf(planned)[i])
    BY <2>2, <2>3, ChainFits
  <2>5. \A i \in DOMAIN AttemptsOf(planned) :
          CheckProvider(AttemptsOf(planned)[i].worker, Families(AttemptsOf(planned)[i].model))
            <=> ~planned.blocked
    BY <2>1, <2>4, FittingStepsPass
  <2> QED
    BY <2>5 DEF planned
<1> QED
  BY <1>1, <1>2

LEMMA RouteFits ==
  ASSUME NEW t, t.override = None, t.shape \in TaskShapes \cup {None}, WorldTask(t).shape = None,
         NEW p, NEW history \in Histories
  PROVE  LET planned == RouteForTask(t, p, history)
         IN  \A i \in DOMAIN AttemptsOf(planned) :
               CheckProvider(AttemptsOf(planned)[i].worker, Families(AttemptsOf(planned)[i].model))
                 <=> ~planned.blocked
<1>1. CASE p.world
  <2>1. RouteForTask(t, p, history) = PlanRoute(WorldTask(t), WorldProject(p), history)
    BY <1>1 DEF RouteForTask, Override
  <2> QED
    BY <2>1, PlannedAttemptsFit
<1>2. CASE ~p.world
  <2>1. RouteForTask(t, p, history) = PlanRoute(t, p, history)
    BY <1>2 DEF RouteForTask, Override
  <2> QED
    BY <2>1, PlannedAttemptsFit
<1> QED
  BY <1>1, <1>2


-----------------------------------------------------------------------------
(* A better record.                                                          *)

\* The record that now has is the one before had, but for a higher success
\* rate of one model.
Better(before, now, model) ==
  /\ before \in Histories /\ now \in Histories /\ model \in Models
  /\ \A m \in Models \ {model} : now[m] = before[m]
  /\ before[model] # None /\ now[model] # None
  /\ now[model].rate > before[model].rate
  /\ now[model].attempts = before[model].attempts
  /\ now[model].cost = before[model].cost

LEMMA RateIsRaised ==
  ASSUME NEW before \in Histories, NEW model \in Models, before[model] # None,
         NEW rate \in Nat, rate > before[model].rate
  PROVE  Better(before, [before EXCEPT ![model].rate = rate], model)
<1> DEFINE row == before[model]
           higher == [row EXCEPT !.rate = rate]
           now == [before EXCEPT ![model] = higher]
<1>1. row \in Rows
  BY DEF Histories
<1>2. /\ higher \in Rows /\ higher.rate = rate
      /\ higher.attempts = row.attempts /\ higher.cost = row.cost
  BY <1>1 DEF Rows
<1>0. higher # None
  BY <1>2, HistoryAssumption
<1> HIDE DEF higher
<1>3. now \in Histories /\ now[model] = higher /\ \A m \in Models \ {model} : now[m] = before[m]
  BY <1>2 DEF Histories
<1> HIDE DEF now
<1>4. Better(before, now, model)
  BY <1>0, <1>2, <1>3 DEF Better
<1> QED
  BY <1>4 DEF now, higher

\* A product of rates and a quotient, as the history is weighed.
LEMMA QuotientGrows ==
  ASSUME NEW a \in Int, NEW b \in Int, a <= b
  PROVE  a \div 5 <= b \div 5 /\ a \div 5 \in Int /\ b \div 5 \in Int
OBVIOUS

LEMMA ProductGrows ==
  ASSUME NEW a \in Int, NEW b \in Int, NEW n \in Nat, a <= b
  PROVE  a * n <= b * n /\ a * n \in Int /\ b * n \in Int
OBVIOUS

LEMMA FloorIsNumber ==
  ASSUME NEW history \in Histories, NEW model \in Models, history[model] # None,
         history[model].cost # 0
  PROVE  LET costs == {history[m].cost : m \in {n \in Models : history[n] # None}} \ {0}
         IN  (CHOOSE c \in costs : \A d \in costs : c <= d) \in Nat
<1> DEFINE costs == {history[m].cost : m \in {n \in Models : history[n] # None}} \ {0}
<1>1. costs \in SUBSET Nat
  BY DEF Histories, Rows
<1>2. history[model].cost \in costs
  OBVIOUS
<1> HIDE DEF costs
<1>3. \E c \in costs : \A d \in costs : c <= d
  BY <1>1, <1>2, LeastNatural
<1>4. (CHOOSE c \in costs : \A d \in costs : c <= d) \in costs
  BY <1>3
<1>5. (CHOOSE c \in costs : \A d \in costs : c <= d) \in Nat
  BY <1>1, <1>4
<1> QED
  BY <1>5 DEF costs

LEMMA AdjustmentGrows ==
  ASSUME NEW before, NEW now, NEW model, Better(before, now, model), NEW m \in Models
  PROVE  /\ HistoryAdjustment(m, before) \in Int /\ HistoryAdjustment(m, now) \in Int
         /\ HistoryAdjustment(m, before) <= HistoryAdjustment(m, now)
         /\ m # model => HistoryAdjustment(m, before) = HistoryAdjustment(m, now)
<1> DEFINE Costs(h) == {h[k].cost : k \in {n \in Models : h[n] # None}} \ {0}
           Floor(h) == CHOOSE c \in Costs(h) : \A d \in Costs(h) : c <= d
           Evidence(row) == IF row.attempts < 3 THEN 35 * row.attempts
                            ELSE 100 * Smaller(10, row.attempts)
           Earned(row) == ((row.rate - 75) * 2 * Evidence(row)) \div 5
           Over(row, floor) ==
             IF row.cost = 0 THEN 0
             ELSE Smaller(8000, (10000 * (row.cost - floor)) \div row.cost)
           Charged(row, floor) == (Over(row, floor) * Evidence(row)) \div 1000
           old == before[m]
           new == now[m]
<1>1. Costs(now) = Costs(before)
  <2>1. \A n \in Models : (now[n] # None) <=> (before[n] # None)
    BY DEF Better
  <2>2. \A n \in Models : before[n] # None => now[n].cost = before[n].cost
    BY DEF Better
  <2> QED
    BY <2>1, <2>2
<1>2. Floor(now) = Floor(before)
  BY <1>1
<1>3. \A h : HistoryAdjustment(m, h) = IF h[m] = None THEN 0
                                       ELSE Earned(h[m]) - Charged(h[m], Floor(h))
  BY DEF HistoryAdjustment
<1>4. CASE old = None
  <2>1. new = None /\ m # model
    BY <1>4 DEF Better
  <2> HIDE DEF Earned, Charged, Floor
  <2>2. HistoryAdjustment(m, before) = 0 /\ HistoryAdjustment(m, now) = 0
    BY <1>3, <1>4, <2>1
  <2> QED
    BY <2>2
<1>5. CASE old # None
  <2>1. /\ old \in Rows /\ new \in Rows /\ new # None
        /\ new.attempts = old.attempts /\ new.cost = old.cost /\ old.rate <= new.rate
        /\ m # model => new = old
    <3>1. before[m] \in Rows /\ now[m] # None
      BY <1>5 DEF Better, Histories
    <3>2. now[m] \in Rows
      BY <3>1 DEF Better, Histories
    <3>3. CASE m = model
      BY <3>1, <3>2, <3>3 DEF Better, Rows
    <3>4. CASE m # model
      BY <3>1, <3>2, <3>4 DEF Better, Rows
    <3> QED
      BY <3>3, <3>4
  <2>2. Evidence(old) \in Nat /\ Evidence(new) = Evidence(old)
    BY <2>1 DEF Smaller, Rows
  <2>3. Over(old, Floor(before)) \in Int /\ Over(new, Floor(before)) = Over(old, Floor(before))
    <3>1. CASE old.cost = 0
      BY <2>1, <3>1
    <3>2. CASE old.cost # 0
      <4>1. Floor(before) \in Nat
        BY <1>5, <3>2, FloorIsNumber DEF Better
      <4> HIDE DEF Floor
      <4>2. old.cost \in Nat /\ old.cost > 0
        BY <2>1, <3>2 DEF Rows
      <4>3. 10000 * (old.cost - Floor(before)) \in Int
        BY <4>1, <4>2
      <4>4. (10000 * (old.cost - Floor(before))) \div old.cost \in Int
        BY <4>2, <4>3
      <4> QED
        BY <2>1, <3>2, <4>4 DEF Smaller
    <3> QED
      BY <3>1, <3>2
  <2> HIDE DEF Evidence, Over, Floor
  <2>4. /\ Charged(old, Floor(before)) \in Int
        /\ Charged(new, Floor(before)) = Charged(old, Floor(before))
    <3>1. Over(old, Floor(before)) * Evidence(old) \in Int
      BY <2>2, <2>3
    <3> QED
      BY <2>2, <2>3, <3>1
  <2>5. Earned(old) \in Int /\ Earned(new) \in Int /\ Earned(old) <= Earned(new)
    <3>1. /\ (old.rate - 75) * 2 \in Int /\ (new.rate - 75) * 2 \in Int
          /\ (old.rate - 75) * 2 <= (new.rate - 75) * 2
      BY <2>1 DEF Rows
    <3>2. /\ (old.rate - 75) * 2 * Evidence(old) \in Int
          /\ (new.rate - 75) * 2 * Evidence(new) \in Int
          /\ (old.rate - 75) * 2 * Evidence(old) <= (new.rate - 75) * 2 * Evidence(new)
      BY <2>2, <3>1, ProductGrows
    <3> QED
      BY <3>2, QuotientGrows
  <2> HIDE DEF Earned, Charged
  <2>6. /\ HistoryAdjustment(m, before) = Earned(old) - Charged(old, Floor(before))
        /\ HistoryAdjustment(m, now) = Earned(new) - Charged(old, Floor(before))
    BY <1>2, <1>3, <1>5, <2>1, <2>4
  <2> QED
    BY <2>1, <2>4, <2>5, <2>6
<1> QED
  BY <1>4, <1>5

LEMMA ModelScoreGrows ==
  ASSUME NEW before, NEW now, NEW model, Better(before, now, model), NEW m \in ClaudeModels
  PROVE  /\ ModelScore(before[m], m) <= ModelScore(now[m], m)
         /\ m # model => ModelScore(before[m], m) = ModelScore(now[m], m)
<1> DEFINE old == before[m]
           new == now[m]
           Evidence(row) == IF row.attempts = 0 THEN 0
                            ELSE IF row.attempts < 3 THEN 12 ELSE Smaller(60, 5 * row.attempts)
           Observed(row) == IF row.cost = 0 THEN 0 ELSE Smaller(1080, 12000 \div row.cost)
<1>1. CASE m # model
  BY <1>1, ScoresAreNumbers DEF Better, Histories, Models, ClaudeModels
<1>2. CASE m = model
  <2>1. /\ old \in Rows /\ new \in Rows /\ old # None /\ new # None
        /\ new.attempts = old.attempts /\ new.cost = old.cost /\ old.rate <= new.rate
    <3>1. old \in Rows /\ new \in Rows /\ old # None /\ new # None
      BY <1>2 DEF Better, Histories
    <3> QED
      BY <1>2, <3>1 DEF Better, Rows
  <2>2. old.rate \in Nat /\ new.rate \in Nat /\ old.attempts \in Nat /\ old.cost \in Nat
    BY <2>1 DEF Rows
  <2>3. Evidence(old) \in Nat /\ Evidence(new) = Evidence(old)
    BY <2>1, <2>2 DEF Smaller
  <2>4. Observed(old) \in Int /\ Observed(new) = Observed(old)
    BY <2>1, <2>2 DEF Smaller
  <2>5. Cost(m) \in {8, 30} /\ 6000 \div Cost(m) \in Int
    <3>1. Cost(m) \in {8, 30}
      BY DEF ClaudeModels, Cost, Glm
    <3> QED
      BY <3>1
  <2>6. \A row : row # None => ModelScore(row, m)
           = row.rate * Evidence(row) + 50 * (60 - Evidence(row)) + (6000 \div Cost(m))
               + Observed(row)
    BY DEF ModelScore
  <2> HIDE DEF Evidence, Observed
  <2>7. /\ old.rate * Evidence(old) <= new.rate * Evidence(old)
        /\ old.rate * Evidence(old) \in Int /\ new.rate * Evidence(old) \in Int
    BY <2>1, <2>2, <2>3, ProductGrows
  <2>8. ModelScore(old, m) <= ModelScore(new, m)
    <3>1. ModelScore(old, m)
            = old.rate * Evidence(old) + 50 * (60 - Evidence(old)) + (6000 \div Cost(m))
                + Observed(old)
      BY <2>1, <2>6
    <3>2. ModelScore(new, m)
            = new.rate * Evidence(old) + 50 * (60 - Evidence(old)) + (6000 \div Cost(m))
                + Observed(old)
      BY <2>1, <2>3, <2>4, <2>6
    <3> QED
      BY <2>3, <2>4, <2>5, <2>7, <3>1, <3>2
  <2> QED
    BY <1>2, <2>8
<1> QED
  BY <1>1, <1>2

\* The model that choose_claude_model chose is chosen again.
LEMMA ChoiceIsKept ==
  ASSUME NEW before, NEW now, NEW default, NEW budget,
         Better(before, now, ChooseModel(before, default, budget))
  PROVE  ChooseModel(now, default, budget) = ChooseModel(before, default, budget)
<1> DEFINE chosen == ChooseModel(before, default, budget)
           eligible == Affordable({"deepseek_flash", "deepseek_pro"}, budget)
           score(h) == [m \in eligible |-> ModelScore(h[m], m)]
           Beats(h, m, n) == \/ score(h)[n] < score(h)[m]
                             \/ score(h)[n] = score(h)[m] /\ Cost(m) < Cost(n)
           best(h) == CHOOSE m \in eligible : \A n \in eligible \ {m} : Beats(h, m, n)
           cheapest == CHOOSE m \in eligible : \A n \in eligible : Cost(m) <= Cost(n)
           Unknowns(h) == \A m \in eligible : ~Reliable(h[m])
           Close(h) == default \in eligible /\ score(h)[best(h)] - score(h)[default] < 240
<1>1. \A h : ChooseModel(h, default, budget)
               = IF Unknowns(h) THEN IF default \in eligible THEN default ELSE cheapest
                 ELSE IF Close(h) THEN default ELSE best(h)
  BY DEF ChooseModel
<1>2. eligible \subseteq ClaudeModels
  BY DEF Affordable, ClaudeModels
<1>3. before \in Histories /\ now \in Histories
  BY DEF Better
<1>4. Unknowns(now) <=> Unknowns(before)
  <2>1. \A m \in ClaudeModels : Reliable(now[m]) <=> Reliable(before[m])
    BY DEF Better, Reliable, ClaudeModels, Models
  <2> QED
    BY <1>2, <2>1
<1>5. ASSUME NEW m \in eligible
      PROVE  /\ score(before)[m] \in Int /\ score(now)[m] \in Int
             /\ score(before)[m] <= score(now)[m]
             /\ m # chosen => score(before)[m] = score(now)[m]
  <2>1. m \in ClaudeModels /\ before[m] \in Rows \cup {None} /\ now[m] \in Rows \cup {None}
    BY <1>2, <1>3 DEF Histories, Models, ClaudeModels
  <2> HIDE DEF chosen
  <2>2. score(before)[m] = ModelScore(before[m], m) /\ score(now)[m] = ModelScore(now[m], m)
    OBVIOUS
  <2> HIDE DEF score, eligible
  <2> QED
    BY <2>1, <2>2, ScoresAreNumbers, ModelScoreGrows DEF chosen
<1>6. chosen \in ClaudeModels
  BY <1>3, ChosenModel
<1>7. Cost("deepseek_flash") = 8 /\ Cost("deepseek_pro") = 30
  BY DEF Cost, Glm
<1> HIDE DEF eligible, score, chosen, Unknowns, cheapest
<1>8. CASE Unknowns(before)
  BY <1>1, <1>4, <1>8 DEF chosen
<1>9. CASE ~Unknowns(before)
  <2>1. ASSUME NEW h \in {before, now}, NEW m \in eligible,
               \A n \in eligible \ {m} : Beats(h, m, n)
        PROVE  best(h) = m
    <3>1. ASSUME NEW n \in eligible, n # m, \A k \in eligible \ {n} : Beats(h, n, k)
          PROVE  FALSE
      <4>1. Beats(h, n, m) /\ Beats(h, m, n)
        BY <2>1, <3>1
      <4>2. score(h)[m] \in Int /\ score(h)[n] \in Int /\ Cost(m) \in Int /\ Cost(n) \in Int
        BY <1>2, <1>5, <1>7, <3>1 DEF ClaudeModels
      <4> QED
        BY <4>1, <4>2
    <3> HIDE DEF Beats
    <3> QED
      BY <2>1, <3>1
  <2>2. ASSUME NEW h \in {before, now}
        PROVE  best(h) \in eligible /\ \A n \in eligible \ {best(h)} : Beats(h, best(h), n)
    <3>1. \E m \in eligible : \A n \in eligible \ {m} : Beats(h, m, n)
      <4>0. eligible # {}
        BY DEF eligible, Affordable
      <4>1. \/ eligible = {"deepseek_flash"} \/ eligible = {"deepseek_pro"}
            \/ eligible = {"deepseek_flash", "deepseek_pro"}
        BY <1>2, <4>0 DEF ClaudeModels
      <4>2. CASE eligible = {"deepseek_flash"} \/ eligible = {"deepseek_pro"}
        BY <4>2
      <4>3. CASE eligible = {"deepseek_flash", "deepseek_pro"}
        <5>1. score(h)["deepseek_flash"] \in Int /\ score(h)["deepseek_pro"] \in Int
          BY <1>5, <4>3
        <5>2. \/ Beats(h, "deepseek_flash", "deepseek_pro")
              \/ Beats(h, "deepseek_pro", "deepseek_flash")
          BY <1>7, <5>1
        <5> HIDE DEF Beats
        <5> QED
          BY <4>3, <5>2
      <4> QED
        BY <4>1, <4>2, <4>3
    <3> HIDE DEF Beats
    <3> QED
      BY <3>1
  <2>3. CASE Close(before)
    <3>1. chosen = default /\ default \in eligible
      BY <1>1, <1>9, <2>3 DEF chosen
    <3>2. score(now)[best(now)] - score(now)[default] < 240
      <4> DEFINE b == best(before)
                 n == best(now)
      <4>1. b \in eligible /\ n \in eligible
        BY <2>2
      <4>2. score(before)[n] <= score(before)[b]
        <5>1. n = b \/ Beats(before, b, n)
          BY <2>2, <4>1
        <5> HIDE DEF b, n
        <5> QED
          BY <1>5, <4>1, <5>1
      <4>3. score(before)[b] - score(before)[default] < 240
        BY <2>3
      <4> HIDE DEF b, n
      <4>4. CASE n = default
        <5>1. score(now)[n] - score(now)[default] < 240
          BY <1>5, <4>1, <4>4
        <5> QED
          BY <5>1 DEF n
      <4>5. CASE n # default
        <5>1. score(now)[n] = score(before)[n] /\ score(before)[default] <= score(now)[default]
          BY <1>5, <3>1, <4>1, <4>5
        <5>2. /\ score(now)[n] \in Int /\ score(now)[default] \in Int /\ score(before)[b] \in Int
              /\ score(before)[default] \in Int
          BY <1>5, <3>1, <4>1
        <5>3. score(now)[n] - score(now)[default] < 240
          BY <4>2, <4>3, <5>1, <5>2
        <5> QED
          BY <5>3 DEF n
      <4> QED
        BY <4>4, <4>5
    <3>3. Close(now)
      BY <3>1, <3>2
    <3> HIDE DEF Close
    <3> QED
      BY <1>1, <1>4, <1>9, <3>1, <3>3 DEF chosen
  <2>4. CASE ~Close(before)
    <3>1. chosen = best(before) /\ chosen \in eligible
      BY <1>1, <1>9, <2>2, <2>4 DEF chosen
    <3>2. \A n \in eligible \ {chosen} : Beats(now, chosen, n)
      <4>1. ASSUME NEW n \in eligible \ {chosen} PROVE Beats(now, chosen, n)
        <5>1. Beats(before, chosen, n)
          BY <2>2, <3>1, <4>1
        <5>2. /\ score(now)[n] = score(before)[n] /\ score(before)[chosen] <= score(now)[chosen]
              /\ score(now)[n] \in Int /\ score(now)[chosen] \in Int
              /\ score(before)[chosen] \in Int
          BY <1>5, <3>1, <4>1
        <5> QED
          BY <5>1, <5>2
      <4> QED
        BY <4>1
    <3>3. best(now) = chosen
      BY <2>1, <3>1, <3>2
    <3>4. CASE Close(now)
      <4>1. default \in eligible /\ score(now)[chosen] - score(now)[default] < 240
        BY <3>3, <3>4
      <4>2. ~(score(before)[chosen] - score(before)[default] < 240)
        BY <2>4, <3>1, <4>1
      <4>3. CASE default # chosen
        <5>1. /\ score(now)[default] = score(before)[default]
              /\ score(before)[chosen] <= score(now)[chosen]
              /\ score(now)[default] \in Int /\ score(now)[chosen] \in Int
              /\ score(before)[chosen] \in Int
          BY <1>5, <3>1, <4>1, <4>3
        <5> QED
          BY <4>1, <4>2, <5>1
      <4>4. CASE default = chosen
        BY <1>5, <3>1, <4>2, <4>4
      <4> QED
        BY <4>3, <4>4
    <3>5. CASE ~Close(now)
      <4> HIDE DEF Close
      <4> QED
        BY <1>1, <1>4, <1>9, <3>3, <3>5 DEF chosen
    <3> QED
      BY <3>4, <3>5
  <2> QED
    BY <2>3, <2>4
<1> QED
  BY <1>8, <1>9

-----------------------------------------------------------------------------
(* The candidates, and the best among some of them.                          *)

\* GLM is what OpenCode runs, and nothing else is.
Known ==
  {c \in [worker : {"claude_code", "opencode"}, model : Models,
          intensity : {"low", "medium", "high", "max"}, variant : {None, "high", "max"}] :
     (c.worker = "opencode") <=> (c.model = Glm)}

LEMMA KnownCandidates ==
  /\ \A m \in Models \ {Glm}, level \in {"low", "medium", "high"} :
       Candidate("claude_code", m, level, None) \in Known
  /\ \A level, v \in {"high", "max"} : Candidate("opencode", Glm, level, v) \in Known
<1>1. ASSUME NEW m \in Models \ {Glm}, NEW level \in {"low", "medium", "high"}
      PROVE  Candidate("claude_code", m, level, None) \in Known
  BY DEF Known, Candidate
<1>2. ASSUME NEW level \in {"high", "max"}, NEW v \in {"high", "max"}
      PROVE  Candidate("opencode", Glm, level, v) \in Known
  BY DEF Known, Candidate, Models
<1> QED
  BY <1>1, <1>2

LEMMA ShortSeqs ==
  ASSUME NEW S, NEW x \in S
  PROVE  /\ <<x>> \in Seq(S) /\ Range(<<x>>) = {x}
         /\ <<>> \in Seq(S)
BY DEF Range

LEMMA CandidatesAreKnown ==
  ASSUME NEW t
  PROVE  /\ Candidates(t) \in Seq(Known)
         /\ \E i \in DOMAIN Candidates(t) : Candidates(t)[i].worker = "claude_code"
         /\ Multimodal(t) =>
              \E i \in DOMAIN Candidates(t) :
                Candidates(t)[i].model = IF NeedsCodeChange(t) THEN "mimo_v25_pro" ELSE "mimo_v25"
         /\ Complexity(t) = "high" =>
              \E i \in DOMAIN Candidates(t) :
                Candidates(t)[i].worker = "opencode" /\ Candidates(t)[i].intensity = "high"
<1> DEFINE all == Candidates(t)
           pro == Candidate("claude_code", "deepseek_pro", "medium", None)
           flash == Candidate("claude_code", "deepseek_flash", "low", None)
           mimo == Candidate("claude_code", "mimo_v25", "medium", None)
           mimoPro == Candidate("claude_code", "mimo_v25_pro", "high", None)
           glm == Candidate("opencode", Glm, "high",
                            IF Complexity(t) = "max" THEN "max" ELSE "high")
           glmMax == Candidate("opencode", Glm, "max", "max")
           wide == \/ ExplicitGlm(t) \/ Complexity(t) \in {"high", "max"}
                   \/ "architecture" \in Objects(t)
           s1 == <<pro, flash>>
           s2 == If(Multimodal(t), <<mimo>>)
           s3 == If(Multimodal(t) /\ NeedsCodeChange(t), <<mimoPro>>)
           s4 == If(wide, <<glm>>)
           s5 == If(Complexity(t) = "max", <<glmMax>>)
<1>1. all = (((s1 \o s2) \o s3) \o s4) \o s5
  BY DEF Candidates
<1>2. /\ pro \in Known /\ flash \in Known /\ mimo \in Known /\ mimoPro \in Known /\ glm \in Known
      /\ glmMax \in Known
  BY KnownCandidates DEF Models, Glm
<1>3. /\ pro.worker = "claude_code" /\ mimo.model = "mimo_v25" /\ mimoPro.model = "mimo_v25_pro"
      /\ glm.worker = "opencode" /\ glm.intensity = "high"
  BY DEF Candidate
<1>4. s1 \in Seq(Known) /\ pro \in Range(s1)
  BY <1>2 DEF Range
<1> HIDE DEF all, pro, flash, mimo, mimoPro, glm, glmMax, s1, wide
<1>5. /\ s2 \in Seq(Known) /\ s3 \in Seq(Known) /\ s4 \in Seq(Known) /\ s5 \in Seq(Known)
      /\ Multimodal(t) => Range(s2) = {mimo}
      /\ Multimodal(t) /\ NeedsCodeChange(t) => Range(s3) = {mimoPro}
      /\ wide => Range(s4) = {glm}
  <2>1. /\ s2 = IF Multimodal(t) THEN <<mimo>> ELSE <<>>
        /\ s3 = IF Multimodal(t) /\ NeedsCodeChange(t) THEN <<mimoPro>> ELSE <<>>
        /\ s4 = IF wide THEN <<glm>> ELSE <<>>
        /\ s5 = IF Complexity(t) = "max" THEN <<glmMax>> ELSE <<>>
    BY DEF If
  <2> HIDE DEF s2, s3, s4, s5
  <2> QED
    BY <1>2, <2>1, ShortSeqs
<1> DEFINE r2 == s1 \o s2
           r3 == r2 \o s3
           r4 == r3 \o s4
           r5 == r4 \o s5
<1> HIDE DEF s2, s3, s4, s5
<1>6. /\ all \in Seq(Known)
      /\ Range(all) = Range(s1) \cup Range(s2) \cup Range(s3) \cup Range(s4) \cup Range(s5)
  <2>1. r2 \in Seq(Known) /\ Range(r2) = Range(s1) \cup Range(s2)
    BY <1>4, <1>5, RangeConcatenation
  <2> HIDE DEF r2
  <2>2. r3 \in Seq(Known) /\ Range(r3) = Range(r2) \cup Range(s3)
    BY <2>1, <1>5, RangeConcatenation
  <2> HIDE DEF r3
  <2>3. r4 \in Seq(Known) /\ Range(r4) = Range(r3) \cup Range(s4)
    BY <2>2, <1>5, RangeConcatenation
  <2> HIDE DEF r4
  <2>4. r5 \in Seq(Known) /\ Range(r5) = Range(r4) \cup Range(s5)
    BY <2>3, <1>5, RangeConcatenation
  <2>5. all = r5
    BY <1>1 DEF r2, r3, r4, r5
  <2> HIDE DEF r5
  <2> QED
    BY <2>1, <2>2, <2>3, <2>4, <2>5
<1>7. \A c \in Range(all) : \E i \in DOMAIN all : all[i] = c
  BY DEF Range
<1>8. pro \in Range(all)
  BY <1>4, <1>6
<1>9. Multimodal(t) => \E i \in DOMAIN all :
                         all[i].model = IF NeedsCodeChange(t) THEN "mimo_v25_pro" ELSE "mimo_v25"
  <2>1. CASE Multimodal(t) /\ NeedsCodeChange(t)
    <3>1. mimoPro \in Range(all)
      BY <1>5, <1>6, <2>1
    <3> QED
      BY <1>3, <1>7, <2>1, <3>1
  <2>2. CASE Multimodal(t) /\ ~NeedsCodeChange(t)
    <3>1. mimo \in Range(all)
      BY <1>5, <1>6, <2>2
    <3> QED
      BY <1>3, <1>7, <2>2, <3>1
  <2> QED
    BY <2>1, <2>2
<1>10. Complexity(t) = "high" =>
         \E i \in DOMAIN all : all[i].worker = "opencode" /\ all[i].intensity = "high"
  <2> SUFFICES ASSUME Complexity(t) = "high"
               PROVE  \E i \in DOMAIN all : all[i].worker = "opencode" /\ all[i].intensity = "high"
    OBVIOUS
  <2>1. wide
    BY DEF wide
  <2>2. glm \in Range(all)
    BY <1>5, <1>6, <2>1
  <2> QED
    BY <1>3, <1>7, <2>2
<1>11. \E i \in DOMAIN all : all[i].worker = "claude_code"
  BY <1>3, <1>7, <1>8
<1> QED
  BY <1>6, <1>9, <1>10, <1>11 DEF all

\* An index before which nothing is better: what Best looks for.
IsBest(i, score, indices) ==
  \A j \in indices : score[j] < score[i] \/ (score[j] = score[i] /\ i <= j)

LEMMA BestExists ==
  ASSUME NEW n \in Nat, NEW indices \in SUBSET (1..n), indices # {}, NEW score,
         \A i \in indices : score[i] \in Int
  PROVE  \E i \in indices : IsBest(i, score, indices)
<1> DEFINE Upto(k) == {i \in indices : i <= k}
           Has(k) == \E i \in Upto(k) : IsBest(i, score, Upto(k))
           failing == {k \in 0..n : Upto(k) # {} /\ ~Has(k)}
<1>1. failing = {}
  <2> SUFFICES ASSUME failing # {} PROVE FALSE
    OBVIOUS
  <2>1. failing \in SUBSET Nat
    OBVIOUS
  <2>2. PICK k \in failing : \A m \in failing : k <= m
    BY <2>1, LeastNatural
  <2>0. \A i \in indices : i \in Int /\ 1 <= i
    OBVIOUS
  <2>3. k \in 1..n
    <3>1. k \in 0..n
      BY <2>2
    <3>2. PICK i \in indices : i <= k
      BY <2>2
    <3> HIDE DEF failing
    <3> QED
      BY <2>0, <3>1, <3>2
  <2>4. k - 1 \in 0..n /\ k - 1 \notin failing
    <3> HIDE DEF failing
    <3>1. k \in Int /\ ~(k <= k - 1) /\ k - 1 \in 0..n
      BY <2>3
    <3> QED
      BY <2>2, <3>1
  <2>5. CASE Upto(k - 1) = {}
    <3>1. Upto(k) = {k}
      <4>1. \A i \in Upto(k) : i = k
        BY <2>0, <2>3, <2>5
      <4> QED
        BY <2>2, <4>1
    <3>2. IsBest(k, score, Upto(k))
      BY <3>1 DEF IsBest
    <3> QED
      BY <2>2, <3>1, <3>2
  <2>6. CASE Upto(k - 1) # {}
    <3>1. PICK i \in Upto(k - 1) : IsBest(i, score, Upto(k - 1))
      BY <2>4, <2>6
    <3>2. CASE k \notin indices
      <4>1. Upto(k) = Upto(k - 1)
        <5> HIDE DEF failing
        <5>1. \A x \in indices : (x <= k) <=> (x <= k - 1)
          BY <2>0, <2>3, <3>2
        <5> QED
          BY <5>1
      <4> QED
        BY <2>2, <3>1, <4>1
    <3>3. CASE k \in indices
      <4>1. Upto(k) = Upto(k - 1) \cup {k}
        <5> HIDE DEF failing
        <5>1. \A x \in indices : (x <= k) <=> (x <= k - 1 \/ x = k)
          BY <2>0, <2>3
        <5>2. k <= k
          BY <2>3
        <5> QED
          BY <3>3, <5>1, <5>2
      <4>2. \A j \in Upto(k) : score[j] \in Int /\ j \in Int
        OBVIOUS
      <4>3. CASE score[k] <= score[i]
        <5>1. IsBest(i, score, Upto(k))
          BY <3>1, <4>1, <4>2, <4>3 DEF IsBest
        <5> QED
          BY <2>2, <3>1, <4>1, <5>1
      <4>4. CASE score[i] < score[k]
        <5>1. IsBest(k, score, Upto(k))
          BY <3>1, <4>1, <4>2, <4>4 DEF IsBest
        <5> QED
          BY <2>2, <3>3, <4>1, <5>1
      <4> QED
        BY <3>1, <4>1, <4>2, <4>3, <4>4
    <3> QED
      BY <3>2, <3>3
  <2> QED
    BY <2>5, <2>6
<1>2. Upto(n) = indices
  <2>1. \A i \in indices : i <= n
    OBVIOUS
  <2> QED
    BY <2>1
<1>3. n \in 0..n
  OBVIOUS
<1> HIDE DEF Upto
<1>4. Has(n)
  BY <1>1, <1>2, <1>3
<1> QED
  BY <1>2, <1>4

LEMMA BestIsBest ==
  ASSUME NEW all \in Seq(Known), NEW indices \in SUBSET DOMAIN all, indices # {}, NEW score,
         \A i \in indices : score[i] \in Int
  PROVE  \E i \in indices : Best(all, score, indices) = all[i] /\ IsBest(i, score, indices)
<1>1. Len(all) \in Nat /\ indices \in SUBSET (1..Len(all))
  OBVIOUS
<1>2. \E i \in indices : IsBest(i, score, indices)
  BY <1>1, BestExists
<1>3. Best(all, score, indices) = all[CHOOSE i \in indices : IsBest(i, score, indices)]
  BY DEF Best, IsBest
<1> QED
  BY <1>2, <1>3

\* A score is what the task and the project give a candidate, and what its
\* history adds.
LEMMA ScoreSplits ==
  ASSUME NEW c, NEW t, NEW p, NEW history, NEW none, HistoryAdjustment(c.model, history) \in Int,
         HistoryAdjustment(c.model, none) = 0
  PROVE  /\ Score(c, t, p, none) \in Int
         /\ Score(c, t, p, history) = Score(c, t, p, none) + HistoryAdjustment(c.model, history)
BY SMTT(60) DEF Score

LEMMA ScoreGrows ==
  ASSUME NEW before, NEW now, NEW model, Better(before, now, model), NEW c \in Known, NEW t, NEW p
  PROVE  /\ Score(c, t, p, before) \in Int /\ Score(c, t, p, now) \in Int
         /\ Score(c, t, p, before) <= Score(c, t, p, now)
         /\ c.model # model => Score(c, t, p, before) = Score(c, t, p, now)
<1>1. c.model \in Models
  BY DEF Known
<1>2. HistoryAdjustment(c.model, NoHistory) = 0
  BY <1>1 DEF HistoryAdjustment, NoHistory
<1> QED
  BY <1>1, <1>2, AdjustmentGrows, ScoreSplits

-----------------------------------------------------------------------------
(* The worker of the candidate that resolve_conflicts takes.                 *)

ScoresOf(t, p, history) ==
  [i \in DOMAIN Candidates(t) |-> Score(Candidates(t)[i], t, p, history)]

\* A rule gives the task to Claude whatever the scores are.
RuledToClaude(t) ==
  \/ Multimodal(t)
  \/ RiskObjects(t) /\ NeedsCodeChange(t)
  \/ Complexity(t) = "high"
  \/ ArtifactType(t) = "docs"

LEMMA BestCandidate ==
  ASSUME NEW t, NEW score, NEW indices \in SUBSET DOMAIN Candidates(t), indices # {},
         \A i \in DOMAIN Candidates(t) : score[i] \in Int
  PROVE  \E i \in indices : /\ Best(Candidates(t), score, indices) = Candidates(t)[i]
                            /\ IsBest(i, score, indices) /\ Candidates(t)[i] \in Known
<1>1. Candidates(t) \in Seq(Known)
  BY CandidatesAreKnown
<1>2. PICK i \in indices : /\ Best(Candidates(t), score, indices) = Candidates(t)[i]
                           /\ IsBest(i, score, indices)
  BY <1>1, BestIsBest
<1>3. Candidates(t)[i] \in Known
  BY <1>1
<1> QED
  BY <1>2, <1>3

LEMMA ClaudeByRule ==
  ASSUME NEW t, t.type \notin {"hard_bugfix", "complex_coding"}, ~ExplicitGlm(t), RuledToClaude(t),
         NEW score, \A i \in DOMAIN Candidates(t) : score[i] \in Int
  PROVE  /\ ResolveByRules(t, Candidates(t), score) \in Known
         /\ ResolveByRules(t, Candidates(t), score).worker = "claude_code"
<1> DEFINE all == Candidates(t)
           claude == {i \in DOMAIN all : all[i].worker = "claude_code"}
           wanted == IF NeedsCodeChange(t) THEN "mimo_v25_pro" ELSE "mimo_v25"
           seeing == {i \in DOMAIN all : all[i].model \in {wanted}}
           byClaude == Best(all, score, claude)
           bySight == Best(all, score, seeing)
<1>1. byClaude \in Known /\ byClaude.worker = "claude_code"
  <2>1. claude # {}
    BY CandidatesAreKnown
  <2> QED
    BY <2>1, BestCandidate
<1>2. Multimodal(t) => bySight \in Known /\ bySight.worker = "claude_code"
  <2> SUFFICES ASSUME Multimodal(t) PROVE bySight \in Known /\ bySight.worker = "claude_code"
    OBVIOUS
  <2>1. seeing # {}
    BY CandidatesAreKnown
  <2>2. bySight \in Known /\ bySight.model = wanted
    BY <2>1, BestCandidate
  <2> QED
    BY <2>2 DEF Known, Glm
<1>3. \/ ResolveByRules(t, all, score) = byClaude
      \/ Multimodal(t) /\ ResolveByRules(t, all, score) = bySight
  BY DEF ResolveByRules, RuledToClaude
<1> HIDE DEF byClaude, bySight
<1> QED
  BY <1>1, <1>2, <1>3

LEMMA TopByScore ==
  ASSUME NEW t, t.type \notin {"hard_bugfix", "complex_coding"}, ~ExplicitGlm(t), ~RuledToClaude(t),
         NEW score
  PROVE  ResolveByRules(t, Candidates(t), score)
           = Best(Candidates(t), score, DOMAIN Candidates(t))
BY DEF ResolveByRules, RuledToClaude


\* When only candidates of one worker gain, and the best one has this worker,
\* so has the best one after that.
LEMMA TopKeepsWorker ==
  ASSUME NEW t, NEW p, NEW before, NEW now, NEW model, Better(before, now, model)
  PROVE  LET all == Candidates(t)
             old == Best(all, ScoresOf(t, p, before), DOMAIN all)
             new == Best(all, ScoresOf(t, p, now), DOMAIN all)
         IN  /\ old \in Known /\ new \in Known
             /\ old.worker = "opencode" /\ model = Glm => new.worker = "opencode"
             /\ old.worker # "opencode" /\ model # Glm => new.worker # "opencode"
<1> DEFINE all == Candidates(t)
           first == ScoresOf(t, p, before)
           second == ScoresOf(t, p, now)
           old == Best(all, first, DOMAIN all)
           new == Best(all, second, DOMAIN all)
<1>1. DOMAIN all # {} /\ \A i \in DOMAIN all : all[i] \in Known /\ i \in Int
  BY CandidatesAreKnown
<1>2. \A i \in DOMAIN all : /\ first[i] \in Int /\ second[i] \in Int /\ first[i] <= second[i]
                            /\ all[i].model # model => first[i] = second[i]
  BY <1>1, ScoreGrows DEF ScoresOf
<1> HIDE DEF first, second
<1>3. PICK a \in DOMAIN all : old = all[a] /\ IsBest(a, first, DOMAIN all)
  BY <1>1, <1>2, BestCandidate
<1>4. PICK b \in DOMAIN all : new = all[b] /\ IsBest(b, second, DOMAIN all)
  BY <1>1, <1>2, BestCandidate
<1> HIDE DEF all, old, new
<1>5. ASSUME all[b].model # model PROVE a = b
  <2>1. first[b] < first[a] \/ (first[b] = first[a] /\ a <= b)
    BY <1>3, <1>4 DEF IsBest
  <2>2. second[a] < second[b] \/ (second[a] = second[b] /\ b <= a)
    BY <1>3, <1>4 DEF IsBest
  <2>3. first[a] <= second[a] /\ first[b] = second[b]
    BY <1>2, <1>3, <1>4, <1>5
  <2>4. /\ first[a] \in Int /\ first[b] \in Int /\ second[a] \in Int /\ second[b] \in Int
        /\ a \in Int /\ b \in Int
    BY <1>1, <1>2, <1>3, <1>4
  <2> QED
    BY <2>1, <2>2, <2>3, <2>4
<1>6. old \in Known /\ new \in Known
  BY <1>1, <1>3, <1>4
<1>7. old.worker = "opencode" /\ model = Glm => new.worker = "opencode"
  BY <1>3, <1>4, <1>5, <1>6 DEF Known
<1>8. old.worker # "opencode" /\ model # Glm => new.worker # "opencode"
  BY <1>3, <1>4, <1>5, <1>6 DEF Known
<1> QED
  BY <1>6, <1>7, <1>8 DEF all, old, new, first, second

LEMMA ScoresAreIntegers ==
  ASSUME NEW t, NEW p, NEW before, NEW now, NEW model, Better(before, now, model)
  PROVE  \A i \in DOMAIN Candidates(t) :
           ScoresOf(t, p, before)[i] \in Int /\ ScoresOf(t, p, now)[i] \in Int
<1>1. \A i \in DOMAIN Candidates(t) : Candidates(t)[i] \in Known
  BY CandidatesAreKnown
<1> QED
  BY <1>1, ScoreGrows DEF ScoresOf

LEMMA ResolvedKeepsWorker ==
  ASSUME NEW t, t.type \notin {"hard_bugfix", "complex_coding"}, ~ExplicitGlm(t), NEW p,
         NEW before, NEW now, NEW model, Better(before, now, model)
  PROVE  LET old == ResolveConflicts(t, p, before)
             new == ResolveConflicts(t, p, now)
         IN  /\ old \in Known /\ new \in Known
             /\ old.worker = "opencode" /\ model = Glm => new.worker = "opencode"
             /\ old.worker # "opencode" /\ model # Glm => new.worker # "opencode"
<1>1. /\ ResolveConflicts(t, p, before) = ResolveByRules(t, Candidates(t), ScoresOf(t, p, before))
      /\ ResolveConflicts(t, p, now) = ResolveByRules(t, Candidates(t), ScoresOf(t, p, now))
  BY DEF ResolveConflicts, ScoresOf
<1>2. CASE RuledToClaude(t)
  BY <1>1, <1>2, ClaudeByRule, ScoresAreIntegers
<1>3. CASE ~RuledToClaude(t)
  BY <1>1, <1>3, TopByScore, TopKeepsWorker
<1> QED
  BY <1>2, <1>3

LEMMA ComplexIsKnown ==
  ASSUME NEW t, t.type = "complex_coding", ~ExplicitGlm(t), NEW p,
         NEW before, NEW now, NEW model, Better(before, now, model)
  PROVE  ResolveConflicts(t, p, before) \in Known /\ ResolveConflicts(t, p, now) \in Known
<1> DEFINE all == Candidates(t)
           claude == {i \in DOMAIN all : all[i].worker = "claude_code"}
           wanted == IF NeedsCodeChange(t) THEN "mimo_v25_pro" ELSE "mimo_v25"
           seeing == {i \in DOMAIN all : all[i].model \in {wanted}}
           complex == {i \in DOMAIN all : all[i].worker = "opencode"}
                        \cap {i \in DOMAIN all : all[i].intensity \in {"high"}}
<1>1. Complexity(t) = "high"
  BY DEF Complexity
<1>2. claude # {} /\ complex # {} /\ (Multimodal(t) => seeing # {})
  BY <1>1, CandidatesAreKnown
<1>3. ASSUME NEW score, \A i \in DOMAIN all : score[i] \in Int
      PROVE  ResolveByRules(t, all, score) \in Known
  <2>1. \/ ResolveByRules(t, all, score) = Best(all, score, claude)
        \/ Multimodal(t) /\ ResolveByRules(t, all, score) = Best(all, score, seeing)
        \/ ResolveByRules(t, all, score) = Best(all, score, complex)
    BY DEF ResolveByRules
  <2>2. Best(all, score, claude) \in Known /\ Best(all, score, complex) \in Known
    BY <1>2, <1>3, BestCandidate
  <2>3. Multimodal(t) => Best(all, score, seeing) \in Known
    BY <1>2, <1>3, BestCandidate
  <2> QED
    BY <2>1, <2>2, <2>3
<1>4. /\ ResolveConflicts(t, p, before) = ResolveByRules(t, all, ScoresOf(t, p, before))
      /\ ResolveConflicts(t, p, now) = ResolveByRules(t, all, ScoresOf(t, p, now))
  BY DEF ResolveConflicts, ScoresOf
<1> QED
  BY <1>3, <1>4, ScoresAreIntegers

\* Whom plan_v2 gives the task: OpenCode when the project or the type asks for
\* it, else whom resolve_conflicts took.
LEMMA PlannedWorker ==
  ASSUME NEW t, NEW p, NEW history, ResolveConflicts(t, p, history) \in Known
  PROVE  PlanV2(t, p, history).worker
           = IF \/ p.stack /\ p.worker = "opencode"
                \/ t.type \in {"complex_coding", "hard_bugfix"}
             THEN "opencode" ELSE ResolveConflicts(t, p, history).worker
<1> DEFINE c == ResolveConflicts(t, p, history)
           c1 == WithStack(c, p)
           c2 == WithoutClaudeGlm(c1)
           c3 == WithTypeRule(c2, t)
           Fields == {"worker", "model", "intensity", "variant"}
           chosen == IF p.stack /\ p.worker = "opencode" THEN "opencode" ELSE c.worker
<1>1. DOMAIN c = Fields
  BY DEF Known
<1> HIDE DEF c
<1>2. DOMAIN c1 = Fields /\ c1.worker = chosen
  BY <1>1 DEF WithStack
<1> HIDE DEF c1, chosen
<1>3. DOMAIN c2 = Fields /\ c2.worker = chosen
  BY <1>2 DEF WithoutClaudeGlm
<1> HIDE DEF c2
<1>4. /\ DOMAIN c3 = Fields
      /\ c3.worker = IF t.type \in {"complex_coding", "hard_bugfix"} THEN "opencode" ELSE chosen
  BY <1>3 DEF WithTypeRule, Candidate
<1>5. PlanV2(t, p, history) = WithProfile(c3)
  BY DEF PlanV2, c, c1, c2, c3
<1> HIDE DEF c3
<1>6. WithProfile(c3).worker = c3.worker
  BY <1>4 DEF WithProfile
<1> QED
  BY <1>4, <1>5, <1>6 DEF chosen, c

\* select_for_shape selects the same model, if the history got better for it.
LEMMA SelectionIsKept ==
  ASSUME NEW t, t.shape \in TaskShapes \cup {None}, NEW p, NEW before, NEW now,
         Better(before, now, Select(t, p, PlanV2(t, p, before), before).model)
  PROVE  Select(t, p, PlanV2(t, p, now), now).model
           = Select(t, p, PlanV2(t, p, before), before).model
<1> DEFINE v2 == PlanV2(t, p, before)
           w2 == PlanV2(t, p, now)
           old == Select(t, p, v2, before)
           new == Select(t, p, w2, now)
           model == old.model
<1>1. /\ \A variant : OpenCode(variant).model = Glm
      /\ \A m : Claude(m).model = m
  BY DEF OpenCode, Claude, Step
<1>2. \A h, v : t.type = "hard_bugfix" \/ v.worker = "opencode" \/ ExplicitGlm(t)
                  => \E variant : Select(t, p, v, h) = OpenCode(variant)
  BY DEF Select
<1>3. CASE t.type = "hard_bugfix" \/ ExplicitGlm(t)
  BY <1>1, <1>2, <1>3
<1>4. CASE t.type # "hard_bugfix" /\ ~ExplicitGlm(t)
  <2>1. Shape(t) \in TaskShapes
    BY KnownShape
  <2> DEFINE Fixed(v, h) == Select(t, p, v, h).model
  <2>2. ASSUME NEW v, NEW h, v.worker # "opencode"
        PROVE  /\ Shape(t) = "docs_update" =>
                    Fixed(v, h) = ChooseModel(h, "deepseek_flash", t.budget)
               /\ Shape(t) = "targeted_patch" =>
                    Fixed(v, h) = IF Len(t.paths) = 1 THEN ChooseModel(h, "deepseek_pro", t.budget)
                                  ELSE "deepseek_pro"
               /\ Shape(t) \in {"open_bug_hunt", "test_generation", "config_repair"} =>
                    Fixed(v, h) = "deepseek_pro"
               /\ Shape(t) = "large_refactor" => Fixed(v, h) = Glm
               /\ Shape(t) = "multimodal_analysis" => Fixed(v, h) = "mimo_v25"
               /\ Shape(t) = "multimodal_to_code" => Fixed(v, h) = "mimo_v25_pro"
               /\ Shape(t) = "review_only" => Fixed(v, h) = "deepseek_flash"
    <3>1. CASE Shape(t) = "docs_update"
      BY <1>1, <1>4, <2>2, <3>1 DEF Select
    <3>2. CASE Shape(t) = "targeted_patch"
      <4>1. CASE Len(t.paths) = 1
        BY <1>1, <1>4, <2>2, <3>2, <4>1 DEF Select
      <4>2. CASE Len(t.paths) # 1
        BY <1>1, <1>4, <2>2, <3>2, <4>2 DEF Select
      <4> QED
        BY <3>2, <4>1, <4>2
    <3>3. CASE Shape(t) \in {"open_bug_hunt", "test_generation", "config_repair"}
      BY <1>1, <1>4, <2>2, <3>3 DEF Select
    <3>4. CASE Shape(t) = "large_refactor"
      BY <1>1, <1>4, <2>2, <3>4 DEF Select
    <3>5. CASE Shape(t) \in {"multimodal_analysis", "multimodal_to_code"}
      BY <1>1, <1>4, <2>2, <3>5 DEF Select
    <3>6. CASE Shape(t) = "review_only"
      BY <1>1, <1>4, <2>2, <3>6 DEF Select
    <3> QED
      BY <2>1, <3>1, <3>2, <3>3, <3>4, <3>5, <3>6 DEF TaskShapes, ReadOnlyShapes
  <2>3. CASE v2.worker = "opencode"
    <3>1. model = Glm
      BY <1>1, <1>2, <2>3
    <3>2. w2.worker = "opencode"
      <4>1. CASE t.type = "complex_coding"
        BY <1>4, <4>1, ComplexIsKnown, PlannedWorker
      <4>2. CASE t.type # "complex_coding"
        BY <1>4, <2>3, <3>1, <4>2, ResolvedKeepsWorker, PlannedWorker
      <4> QED
        BY <4>1, <4>2
    <3> QED
      BY <1>1, <1>2, <3>1, <3>2
  <2>4. CASE v2.worker # "opencode"
    <3>1. CASE model = Glm
      <4>1. ChooseModel(before, "deepseek_flash", t.budget) # Glm
            /\ ChooseModel(before, "deepseek_pro", t.budget) # Glm
        BY ChosenModel DEF Better, ClaudeModels, Glm
      <4> HIDE DEF v2, w2, Fixed
      <4>2. Fixed(v2, before) = Glm
        BY <3>1 DEF Fixed
      <4>3. Shape(t) = "large_refactor"
        BY <2>1, <2>2, <2>4, <4>1, <4>2 DEF TaskShapes, ReadOnlyShapes, Glm
      <4>4. Fixed(w2, now) = Glm
        <5>1. CASE w2.worker = "opencode"
          BY <1>1, <1>2, <5>1 DEF Fixed
        <5>2. CASE w2.worker # "opencode"
          BY <2>2, <4>3, <5>2
        <5> QED
          BY <5>1, <5>2
      <4> QED
        BY <4>2, <4>4 DEF Fixed, v2, w2
    <3>2. CASE model # Glm
      <4>1. w2.worker # "opencode"
        <5>1. t.type # "complex_coding"
          BY <1>4, <2>4, ComplexIsKnown, PlannedWorker
        <5> QED
          BY <1>4, <2>4, <3>2, <5>1, ResolvedKeepsWorker, PlannedWorker
      <4>2. \A default : ChooseModel(before, default, t.budget) = model
                           => ChooseModel(now, default, t.budget) = model
        BY ChoiceIsKept
      <4> HIDE DEF v2, w2
      <4>3. Fixed(v2, before) = model
        BY DEF v2
      <4> HIDE DEF Fixed, model
      <4>4. Fixed(w2, now) = model
        BY <2>1, <2>2, <2>4, <4>1, <4>2, <4>3 DEF TaskShapes, ReadOnlyShapes
      <4> QED
        BY <4>4 DEF Fixed, model, v2, w2
    <3> QED
      BY <3>1, <3>2
  <2> QED
    BY <2>3, <2>4
<1> QED
  BY <1>3, <1>4

LEMMA RouteIsKept ==
  ASSUME NEW t, t.override = None, t.shape \in TaskShapes \cup {None}, WorldTask(t).shape = None,
         NEW p, NEW before, NEW now, ~RouteForTask(t, p, before).blocked,
         Better(before, now, RouteForTask(t, p, before).first.model)
  PROVE  RouteForTask(t, p, now).first.model = RouteForTask(t, p, before).first.model
<1>1. ASSUME NEW u, u.shape \in TaskShapes \cup {None}, NEW q, ~PlanRoute(u, q, before).blocked,
             Better(before, now, PlanRoute(u, q, before).first.model)
      PROVE  PlanRoute(u, q, now).first.model = PlanRoute(u, q, before).first.model
  <2>1. ~Blocked(u)
    BY <1>1 DEF PlanRoute
  <2>2. \A h : PlanRoute(u, q, h).first = Select(u, q, PlanV2(u, q, h), h)
    BY <2>1 DEF PlanRoute
  <2> QED
    BY <1>1, <2>2, SelectionIsKept
<1>2. \A h : RouteForTask(t, p, h) = IF p.world THEN PlanRoute(WorldTask(t), WorldProject(p), h)
                                     ELSE PlanRoute(t, p, h)
  BY DEF RouteForTask, Override
<1> QED
  BY <1>1, <1>2


LEMMA FirstModelIsKnown ==
  ASSUME NEW t, t.override = None, t.shape \in TaskShapes \cup {None}, WorldTask(t).shape = None,
         NEW p, NEW history \in Histories, ~RouteForTask(t, p, history).blocked
  PROVE  RouteForTask(t, p, history).first.model \in Models
<1>1. ASSUME NEW u, u.shape \in TaskShapes \cup {None}, NEW q, ~PlanRoute(u, q, history).blocked
      PROVE  PlanRoute(u, q, history).first.model \in Models
  <2>1. PlanRoute(u, q, history).first = Select(u, q, PlanV2(u, q, history), history)
    BY <1>1 DEF PlanRoute
  <2>2. Fits(Select(u, q, PlanV2(u, q, history), history))
    BY <1>1, SelectedFits
  <2> QED
    BY <2>1, <2>2 DEF Fits, ClaudeModels, Models
<1>2. RouteForTask(t, p, history)
        = IF p.world THEN PlanRoute(WorldTask(t), WorldProject(p), history)
          ELSE PlanRoute(t, p, history)
  BY DEF RouteForTask, Override
<1> QED
  BY <1>1, <1>2

-----------------------------------------------------------------------------
(* The tables of statuses.                                                   *)

LEMMA NamesOfStates ==
  /\ \A s \in OldNames : Aliases[s] \in States
  /\ \A s \in States : s \notin OldNames /\ s # "PUBLISHING"
  /\ "PUBLISHING" \notin OldNames
BY DEF OldNames, States, Aliases, Transitions

LEMMA StatesLeadToStates == \A s \in States : Transitions[s] \subseteq States
<1>1. States = {"NEW", "CLASSIFIED", "DYNAMIC_RISK_SCORED", "APPROVAL_DECIDED", "AUTO_SILENT",
                "AUTO_WITH_SUMMARY", "SOFT_APPROVAL_WAITING", "HARD_APPROVAL_WAITING", "BLOCKED",
                "PLANNED", "ROUTED", "WORKTREE_CREATED", "EXECUTING", "RETRYING", "VERIFYING",
                "CODEX_REVIEWING", "POLICY_LEARNING", "PR_CREATED", "NEEDS_USER", "NEEDS_REVIEW",
                "ESCALATED", "FAILED", "DONE", "DONE_WITH_BLOCK", "FAILED_FINAL", "CANCELLED",
                "ROLLED_BACK"}
  BY DEF States, Transitions
<1> QED
  BY <1>1 DEF Transitions

\* The old name of a state is a name of that state.
LEMMA OldNameIsAName ==
  ASSUME NEW s \in States
  PROVE  Resolve(ResolveOld(s)) = s
<1>1. CASE s = "DONE"
  BY <1>1 DEF ResolveOld, Resolve, OldNames, Aliases
<1>2. CASE s # "DONE" /\ \E o \in OldNames : Aliases[o] = s
  <2>1. ResolveOld(s) = CHOOSE o \in OldNames : Aliases[o] = s
    BY <1>2 DEF ResolveOld
  <2>2. ResolveOld(s) \in OldNames /\ Aliases[ResolveOld(s)] = s
    BY <1>2, <2>1
  <2> QED
    BY <2>2 DEF Resolve
<1>3. CASE s # "DONE" /\ ~ \E o \in OldNames : Aliases[o] = s
  BY <1>3, NamesOfStates DEF ResolveOld, Resolve
<1> QED
  BY <1>1, <1>2, <1>3

\* A call is let through by the state a status means, whatever its name.
LEMMA CallsSeeStates ==
  ASSUME NEW s \in States \cup OldNames, NEW u \in Statuses
  PROVE  CanTransition(s, u) <=> Resolve(u) \in Transitions[Resolve(s)]
<1> DEFINE state == Resolve(s)
<1>1. state \in States /\ MergedTransitions(state) = Transitions[state]
  BY NamesOfStates DEF Resolve, MergedTransitions
<1>2. Resolve(u) \notin OldNames
  BY NamesOfStates DEF Resolve, Statuses
<1>3. u \in Transitions[state] => Resolve(u) = u
  BY <1>1, StatesLeadToStates, NamesOfStates DEF Resolve
<1>4. CASE s \in States
  <2>1. state = s
    BY <1>4, NamesOfStates DEF Resolve
  <2> QED
    BY <1>1, <1>3, <2>1 DEF CanTransition
<1>5. CASE s \in OldNames
  <2>1. MergedTransitions(s) = OldTransitions(s)
    BY <1>5, NamesOfStates DEF MergedTransitions
  <2>2. ASSUME NEW v \in OldTransitions(s)
        PROVE  \E t \in Transitions[state] : v = ResolveOld(t)
    <3>1. PICK f \in States : ResolveOld(f) = s /\ \E t \in Transitions[f] : v = ResolveOld(t)
      BY <2>2 DEF OldTransitions
    <3>2. f = state
      BY <3>1, OldNameIsAName
    <3> QED
      BY <3>1, <3>2
  <2>3. \A v \in OldTransitions(s) : Resolve(v) \in Transitions[state]
    BY <1>1, <2>2, StatesLeadToStates, OldNameIsAName
  <2>4. Resolve(Resolve(u)) = Resolve(u)
    BY <1>2 DEF Resolve
  <2>5. CanTransition(s, u) <=> \/ Resolve(u) \in Transitions[state] \cup OldTransitions(s)
                                \/ u \in Transitions[state] \cup OldTransitions(s)
    BY <1>1, <2>1 DEF CanTransition
  <2> QED
    BY <1>3, <2>3, <2>4, <2>5
<1> QED
  BY <1>4, <1>5

LEMMA FinalMeanings ==
  ASSUME NEW s \in FinalStates
  PROVE  Resolve(s) \in {"DONE", "DONE_WITH_BLOCK", "CANCELLED", "ROLLED_BACK"}
<1>1. s \in Statuses /\ MergedTransitions(Resolve(s)) = {}
  BY DEF FinalStates
<1>2. Resolve(s) \in States /\ Transitions[Resolve(s)] = {}
  BY <1>1, NamesOfStates DEF Resolve, Statuses, MergedTransitions
<1> QED
  BY <1>2 DEF States, Transitions

LEMMA FinalNames ==
  FinalStates \ {"ROLLED_BACK", "DONE_WITH_BLOCK", "COMPLETED"} \subseteq OutcomeStatuses
<1>1. ASSUME NEW s \in FinalStates
      PROVE  s \in OutcomeStatuses \cup {"ROLLED_BACK", "DONE_WITH_BLOCK", "COMPLETED"}
  BY FinalMeanings DEF Resolve, OldNames, Aliases, OutcomeStatuses, SuccessStatuses
<1> QED
  BY <1>1

\* How a status is shown when nothing is known beside it.
LEMMA ShownByStatus ==
  ASSUME NEW s, s \notin ActiveStatuses \cup {"RETRYING", "ESCALATED"}
  PROVE  Derive(s, Nothing) = ByStatus(s)
BY DEF Derive, Nothing

LEMMA ShownFields ==
  ASSUME NEW big, NEW flags
  PROVE  /\ Shown(big, flags).big = big
         /\ "terminal" \in flags => Shown(big, flags).terminal
         /\ "asks" \in flags => Shown(big, flags).asks
<1>1. Shown(big, flags).big = big
  BY DEF Shown
<1>2. Shown(big, flags).terminal = ("terminal" \in flags)
  BY DEF Shown
<1>3. Shown(big, flags).asks = ("asks" \in flags)
  BY DEF Shown
<1> QED
  BY <1>1, <1>2, <1>3, Zenon

LEMMA DoneIsShownDone ==
  ASSUME NEW s \in DoneStatuses
  PROVE  Derive(s, Nothing).big = "Done" /\ Derive(s, Nothing).terminal
<1>1. s \notin ActiveStatuses \cup {"RETRYING", "ESCALATED"}
  BY DEF DoneStatuses, SuccessStatuses, ActiveStatuses
<1>2. s \notin AskingStatuses \cup QueuedStatuses \cup FailedStatuses
  BY DEF DoneStatuses, SuccessStatuses, AskingStatuses, ApprovalStatuses, QueuedStatuses,
         FailedStatuses
<1>3. Derive(s, Nothing) = Shown("Done", {"terminal"})
  BY <1>1, <1>2, ShownByStatus DEF ByStatus
<1> QED
  BY <1>3, ShownFields

LEMMA ClosedIsShownClosed ==
  ASSUME NEW s \in ClosedStatuses
  PROVE  Derive(s, Nothing).big = "Closed" /\ Derive(s, Nothing).terminal
<1>1. s \notin ActiveStatuses \cup {"RETRYING", "ESCALATED"}
  BY DEF ClosedStatuses, ActiveStatuses
<1>2. s \notin AskingStatuses \cup QueuedStatuses \cup FailedStatuses \cup DoneStatuses
  BY DEF ClosedStatuses, AskingStatuses, ApprovalStatuses, QueuedStatuses, FailedStatuses,
         DoneStatuses, SuccessStatuses
<1>3. Derive(s, Nothing) = Shown("Closed", {"terminal"})
  BY <1>1, <1>2, ShownByStatus DEF ByStatus, ClosedStatuses
<1> QED
  BY <1>3, ShownFields

LEMMA FailedIsShownFailed ==
  ASSUME NEW s \in FailedStatuses
  PROVE  Derive(s, Nothing).big = "Failed"
<1>1. s \notin ActiveStatuses \cup {"RETRYING", "ESCALATED"}
  BY DEF FailedStatuses, ActiveStatuses
<1>2. s \notin AskingStatuses \cup QueuedStatuses
  BY DEF FailedStatuses, AskingStatuses, ApprovalStatuses, QueuedStatuses
<1>3. Derive(s, Nothing) = Shown("Failed", {"terminal"})
  BY <1>1, <1>2, ShownByStatus DEF ByStatus
<1> QED
  BY <1>3, ShownFields

LEMMA AskingIsShownAsking ==
  ASSUME NEW s \in AskingStatuses
  PROVE  Derive(s, Nothing).big = "Approval" /\ Derive(s, Nothing).asks
<1>1. s \notin ActiveStatuses \cup {"RETRYING", "ESCALATED"}
  BY DEF AskingStatuses, ApprovalStatuses, ActiveStatuses
<1>2. Derive(s, Nothing) = Shown("Approval", {"asks"})
  BY <1>1, ShownByStatus DEF ByStatus
<1> QED
  BY <1>2, ShownFields

LEMMA FinalIsShownFinal ==
  ASSUME NEW s \in FinalStates \ {"DONE_WITH_BLOCK"}
  PROVE  Derive(s, Nothing).terminal
<1>1. s \in DoneStatuses \cup ClosedStatuses
  BY FinalMeanings DEF Resolve, OldNames, Aliases, DoneStatuses, SuccessStatuses, ClosedStatuses
<1> QED
  BY <1>1, DoneIsShownDone, ClosedIsShownClosed

-----------------------------------------------------------------------------
(* The behaviours: one question, then its answer.  The route of a question   *)
(* is its answer by DInv, so that a property is one of the operators above.  *)

\* What is known of a question: the rows of its history are numbers, and its
\* shape is known or left out.
AskType ==
  ask # None => ask.shape \in TaskShapes \cup {None} /\ ask.history \in Histories

Answered ==
  route # None => ask # None /\ route = RouteForTask(TaskOf(ask), ask.project, ask.history)

DInv == AskType /\ Answered

LEMMA HistoryTypes ==
  /\ NoHistory \in Histories
  /\ \A flash, pro \in Rows \cup {None} : PairHistory(flash, pro) \in Histories
BY DEF NoHistory, PairHistory, Histories

\* The behaviours over every question there is, where Init asks a sample: any
\* request, type, risk, paths, budget, override and project, any history of
\* the models, and a shape that is one of the router's or left out.
IsQuestion(q) ==
  \E request, type, risk, shape, paths, budget, override, project, history :
     /\ shape \in TaskShapes \cup {None} /\ history \in Histories
     /\ q = Question(request, type, risk, shape, paths, budget, override, project, history)

GeneralInit ==
  /\ from \in Statuses /\ to \in Statuses /\ route = None
  /\ ask = None \/ IsQuestion(ask)

GeneralSpec == GeneralInit /\ [][Next]_vars

LEMMA GeneralIsTyped == GeneralInit => AskType
<1> SUFFICES ASSUME IsQuestion(ask) PROVE AskType
  BY DEF GeneralInit, AskType
<1>1. PICK request, type, risk, shape, paths, budget, override, project, history :
        /\ shape \in TaskShapes \cup {None} /\ history \in Histories
        /\ ask = Question(request, type, risk, shape, paths, budget, override, project, history)
  BY DEF IsQuestion
<1>2. ask.shape = shape /\ ask.history = history
  BY <1>1 DEF Question
<1> QED
  BY <1>1, <1>2 DEF AskType

LEMMA SampleIsOfQuestions == Init => GeneralInit
<1> SUFFICES ASSUME Init PROVE GeneralInit
  OBVIOUS
<1>0. from \in Statuses /\ to \in Statuses /\ route = None
  <2>1. "NEW" \in Statuses
    BY DEF Statuses, States, Transitions
  <2> QED
    BY <2>1 DEF Init
<1>1. CASE ask = None
  BY <1>0, <1>1 DEF GeneralInit
<1>2. CASE AskBroad
  <2>1. \E request, type, risk, paths, p :
          ask = Question(request, type, risk, None, paths, None, None, p, NoHistory)
    BY <1>2 DEF AskBroad
  <2> QED
    BY <1>0, <2>1, HistoryTypes DEF GeneralInit, IsQuestion
<1>3. CASE AskDeep
  <2>1. PICK says \in {{}, {"readme"}, {"fix"}}, paths \in {<<"docs">>, <<"code">>},
             budget \in {None, 5, 10, 40},
             flash \in {None} \cup {Row(rate, n, c) :
                                      rate \in {0, 50, 100}, n \in {0, 2, 3, 12}, c \in {0, 8}},
             pro \in {None} \cup {Row(rate, n, 30) : rate \in {0, 50, 75, 100}, n \in {2, 12}} :
          ask = Question(Request(None, None, Silent, says), "routine_coding", "low", None,
                         paths, budget, None, Plain, PairHistory(flash, pro))
    BY <1>3 DEF AskDeep
  <2>2. flash \in Rows \cup {None} /\ pro \in Rows \cup {None}
    BY <2>1 DEF Row, Rows
  <2>3. PairHistory(flash, pro) \in Histories
    BY <2>2, HistoryTypes
  <2> QED
    BY <1>0, <2>1, <2>3 DEF GeneralInit, IsQuestion
<1>4. CASE AskProtocol
  <2>1. PICK shape \in {None, "large_refactor"} :
          \E request, override :
             ask = Question(request, "routine_coding", "low", shape, <<>>, None, override, Plain,
                            NoHistory)
    BY <1>4, Zenon DEF AskProtocol
  <2>2. shape \in TaskShapes \cup {None}
    BY DEF TaskShapes
  <2> QED
    BY <1>0, <2>1, <2>2, HistoryTypes DEF GeneralInit, IsQuestion
<1> QED
  BY <1>1, <1>2, <1>3, <1>4 DEF Init

(* The questions the run asks are questions: what holds for all of them      *)
(* holds of Spec.                                                            *)
THEOREM SampleOfQuestions == Spec => GeneralSpec
BY SampleIsOfQuestions, PTL DEF Spec, GeneralSpec

(* A route is the answer to its question, and is not given a second time.    *)
THEOREM RoutesAnswerTheirQuestions == GeneralSpec => []DInv
<1>1. GeneralInit => DInv
  BY GeneralIsTyped DEF DInv, Answered, GeneralInit
<1>2. DInv /\ [Next]_vars => DInv'
  <2> SUFFICES ASSUME DInv, [Next]_vars PROVE DInv'
    OBVIOUS
  <2>1. CASE ApplyEvent
    BY <2>1 DEF ApplyEvent, DInv, AskType, Answered
  <2>2. CASE PlanTask
    BY <2>2 DEF PlanTask, DInv, AskType, Answered
  <2>3. CASE UNCHANGED vars
    BY <2>3 DEF vars, DInv, AskType, Answered
  <2> QED
    BY <2>1, <2>2, <2>3 DEF Next
<1> QED
  BY <1>1, <1>2, PTL DEF GeneralSpec

(* The attempts that routing plans pass the provider check of the attempt,   *)
(* and of a blocked route none does: the names that select_for_shape and     *)
(* retry_chain_for_shape write are names the profiles of their workers know, *)
(* for every task, project and history.                                      *)
THEOREM PlannedProvidersFit == GeneralSpec => []ProvidersFit
<1>1. DInv => ProvidersFit
  <2> SUFFICES ASSUME DInv, Planned, ~Overridden PROVE ProvidersFit
    BY DEF ProvidersFit
  <2> DEFINE t == TaskOf(ask)
  <2>1. /\ route = RouteForTask(t, ask.project, ask.history)
        /\ ask.shape \in TaskShapes \cup {None} /\ ask.history \in Histories
    BY DEF DInv, AskType, Answered, Planned
  <2>2. t.override = None /\ t.shape = ask.shape
    BY TaskFields DEF Overridden
  <2>3. WorldTask(t).shape = None
    BY DEF WorldTask, TaskOf
  <2> HIDE DEF t
  <2>4. \A i \in DOMAIN AttemptsOf(route) :
          CheckProvider(AttemptsOf(route)[i].worker, Families(AttemptsOf(route)[i].model))
            <=> ~route.blocked
    BY <2>1, <2>2, <2>3, RouteFits
  <2> QED
    BY <2>4 DEF ProvidersFit
<1> QED
  BY <1>1, RoutesAnswerTheirQuestions, PTL

(* A task that must not change files is not escalated to GLM, whatever the   *)
(* task, the project and the history: classify_task_shape leaves it only the *)
(* shapes whose retry_chain_for_shape keeps to the claude worker.            *)
THEOREM ReadOnlyTasksAreNotEscalated == GeneralSpec => []ReadOnlyIsNotEscalated
<1>1. DInv => ReadOnlyIsNotEscalated
  <2> SUFFICES ASSUME DInv, Planned, ~Overridden, ~ask.project.world, IsReadOnly(TaskOf(ask))
               PROVE  \A i \in 2..Len(route.chain) : route.chain[i].worker # "opencode"
    BY DEF ReadOnlyIsNotEscalated
  <2>1. route = RouteForTask(TaskOf(ask), ask.project, ask.history)
    BY DEF DInv, Answered, Planned
  <2>2. TaskOf(ask).override = None
    BY TaskFields DEF Overridden
  <2> QED
    BY <2>1, <2>2, ReadOnlyRoute
<1> QED
  BY <1>1, RoutesAnswerTheirQuestions, PTL

(* The three readers of a task's protocol agree whether it must change files *)
(* unless a diff was asked for or refused in so many words, and salvage is   *)
(* never the more lenient of them: for every request and every task.         *)
THEOREM ReadersOfProtocolAgree == GeneralSpec => []ReadersAgree
<1>1. ReadersAgree
  <2> SUFFICES ASSUME Planned PROVE ReadersAgree
    BY DEF ReadersAgree
  <2> DEFINE t == TaskOf(ask)
             quiet == Named(ask.request.diff, ask.request.header.diff) \notin BOOLEAN
  <2>1. /\ t.mode \in Modes
        /\ quiet => t.diff = (t.mode \notin {"read_only", "audit"})
    BY TaskFields, ProtocolFields
  <2> HIDE DEF t
  <2>2. quiet => IsReadOnly(t) = ~RequiresDiff(t) /\ IsReadOnly(t) = ~SalvageRequiresDiff(t)
    BY <2>1, ModeDecides
  <2>3. \A old \in {t, [t EXCEPT !.mode = None, !.diff = None, !.policy = None]} :
          ~SalvageRequiresDiff(old) => ~RequiresDiff(old)
    BY SalvageIsStricter
  <2> QED
    BY <2>2, <2>3 DEF ReadersAgree, t
<1> QED
  BY <1>1, PTL

(* Whatever traces a finished, cancelled or rolled back task has left in its *)
(* runtime directory, derive_task_status does not show it as failed or at    *)
(* work.                                                                     *)
THEOREM FinishedIsShownFinished == GeneralSpec => []FinishedStaysFinished
<1>1. FinishedStaysFinished
  BY EndedIsShownEnded DEF FinishedStaysFinished
<1> QED
  BY <1>1, PTL

(* The tables that read a status tell the same of it.  That a call sees the  *)
(* state and not its name is no enumeration: it follows from what the tables *)
(* of aliases and of transitions are to each other (CallsSeeStates).         *)
THEOREM TablesOfStatusesAgree == GeneralSpec => []StatusTablesAgree
<1> DEFINE FromStatus == from \in Statuses /\ to \in Statuses
<1>1. GeneralInit => FromStatus
  BY DEF GeneralInit
<1>2. FromStatus /\ [Next]_vars => FromStatus'
  BY DEF Next, ApplyEvent, PlanTask, vars
<1>3. FromStatus => StatusTablesAgree
  <2> SUFFICES ASSUME FromStatus PROVE StatusTablesAgree
    OBVIOUS
  <2> DEFINE shown == Derive(from, Nothing)
  <2>1. from # "PUBLISHING" =>
          (CanTransition(from, to) <=> Resolve(to) \in Transitions[Resolve(from)])
    BY CallsSeeStates DEF Statuses
  <2>2. from \in FinalStates \ {"ROLLED_BACK", "DONE_WITH_BLOCK", "COMPLETED"}
          => from \in OutcomeStatuses
    BY FinalNames
  <2>3. from \in SuccessStatuses => shown.big = "Done"
    BY DoneIsShownDone DEF DoneStatuses
  <2>4. from \in FailedStatuses => shown.big = "Failed"
    BY FailedIsShownFailed
  <2>5. from \in ApprovalStatuses \cup {"BLOCKED"} => shown.big = "Approval" /\ shown.asks
    BY AskingIsShownAsking DEF AskingStatuses
  <2>6. from = "CANCELLED" => shown.big = "Closed"
    BY ClosedIsShownClosed DEF ClosedStatuses
  <2>7. from \in FinalStates \ {"DONE_WITH_BLOCK"} => shown.terminal
    BY FinalIsShownFinal
  <2> HIDE DEF shown
  <2> QED
    BY <2>1, <2>2, <2>3, <2>4, <2>5, <2>6, <2>7 DEF StatusTablesAgree, shown
<1> QED
  BY <1>1, <1>2, <1>3, PTL DEF GeneralSpec

(* A better record is no reason to lose the work, for every task, project    *)
(* and history: neither the scores of the candidates, nor the choice by      *)
(* shape, nor the preference for the default turns a higher success rate     *)
(* against the model that was chosen (RouteIsKept, for any higher rate).     *)
THEOREM BetterHistoryIsNoReason == GeneralSpec => []BetterHistoryNeverHurts
<1>1. DInv => BetterHistoryNeverHurts
  <2> DEFINE model == route.first.model
             t == TaskOf(ask)
             better(rate) == [ask.history EXCEPT ![model].rate = rate]
  <2> SUFFICES ASSUME DInv, Planned, ~Overridden, ~route.blocked, ask.history[model] # None,
                      NEW rate \in {50, 75, 90, 100}, rate > ask.history[model].rate
               PROVE  RouteForTask(t, ask.project, better(rate)).first.model = model
    BY DEF BetterHistoryNeverHurts
  <2>1. /\ route = RouteForTask(t, ask.project, ask.history)
        /\ ask.shape \in TaskShapes \cup {None} /\ ask.history \in Histories
    BY DEF DInv, AskType, Answered, Planned
  <2>2. t.override = None /\ t.shape = ask.shape
    BY TaskFields DEF Overridden
  <2>3. WorldTask(t).shape = None
    BY DEF WorldTask, TaskOf
  <2> HIDE DEF t, model
  <2>4. model \in Models
    BY <2>1, <2>2, <2>3, FirstModelIsKnown DEF model
  <2>5. Better(ask.history, better(rate), model)
    BY <2>1, <2>4, RateIsRaised
  <2> HIDE DEF better
  <2>6. RouteForTask(t, ask.project, better(rate)).first.model
          = RouteForTask(t, ask.project, ask.history).first.model
    BY <2>1, <2>2, <2>3, <2>5, RouteIsKept DEF model
  <2> QED
    BY <2>1, <2>6 DEF model
<1> QED
  BY <1>1, RoutesAnswerTheirQuestions, PTL
=============================================================================
