--------------------------- MODULE Completion_proofs ---------------------------
(* What is published, and what is called verified, has been checked: for any  *)
(* cases, commands, edits by the commands and number of faults.               *)
EXTENDS Completion, SequenceTheorems, TLAPS

Todos == [kind : {"test", "build"}, command : Commands]
Codes == {0, 1, 125, 126}
Verdicts == {"allow", "ask", "deny"}
Results == [kind : {"test", "build"}, command : Commands, code : Codes, check : Verdicts]

Types ==
  /\ case \in Cases /\ faults \in Nat
  /\ todo \in Seq(Todos) /\ ran \in Seq(Results)

Working == {"verifying", "verified", "reviewing", "publishing"}
Checked == {"verified", "reviewing", "publishing"}

\* The commands behind a list of results.
Stripped(results) == [i \in DOMAIN results |-> [kind |-> results[i].kind,
                                                command |-> results[i].command]]

AllZero == \A i \in DOMAIN ran : ran[i].code = 0

(* Nothing is recorded before the end.                                       *)
Unrecorded == stage # "ended" => outcome = None /\ published = None

(* As long as no command failed, those that ran and those to run are the ones *)
(* of the policy, in order.                                                   *)
CommandsKept ==
  /\ stage = "start" => ran = <<>>
  /\ stage = "verifying" => (AllZero => Stripped(ran) \o todo = Wanted)
  /\ stage \in Checked => (AllZero => Stripped(ran) = Wanted)

(* verify.json tells what the commands and git said.                          *)
VerdictsHold ==
  stage \in Checked =>
    /\ verify.tests => Passed("test")
    /\ verify.build => Passed("build")
    /\ faults = 0 /\ verify.allowed => \A p \in patch : ~PathMatches(p, task.forbidden)
    /\ faults = 0 => patch = verify.changed

Approved == review.approved /\ (NeedsCodex(task.risk) => review.mode = "codex")

(* Every stage has passed the ones before it.                                 *)
StagesPassed ==
  /\ stage \in Working => ~work.mock
  /\ stage \in {"reviewing", "publishing"} => Acceptable(verify)
  /\ stage = "publishing" => Approved

IInv ==
  /\ Types /\ Unrecorded /\ CommandsKept /\ VerdictsHold /\ StagesPassed
  /\ VerifiedMeansChecked /\ PatchIsReviewed /\ ForbiddenIsNotPublished

-----------------------------------------------------------------------------
(* Lists of commands.                                                        *)

LEMMA TaggedType ==
  ASSUME NEW kind \in {"test", "build"}, NEW commands \in Seq(Commands)
  PROVE  Tagged(kind, commands) \in Seq(Todos)
<1>1. DOMAIN commands = 1..Len(commands) /\ Len(commands) \in Nat
      /\ \A i \in 1..Len(commands) : commands[i] \in Commands
  OBVIOUS
<1>2. Tagged(kind, commands) \in [1..Len(commands) -> Todos]
  BY <1>1 DEF Tagged, Todos
<1> QED
  BY <1>1, <1>2

LEMMA CommandsForType ==
  ASSUME NEW policy, NEW commands \in [test : Seq(Commands), build : Seq(Commands)],
         NEW kind \in {"test", "build"}
  PROVE  CommandsFor(policy, commands)[kind] \in Seq(Commands)
<1>1. commands.test \in Seq(Commands) /\ commands.build \in Seq(Commands)
  OBVIOUS
<1>2. <<>> \in Seq(Commands)
      /\ (commands.test # <<>> => <<Head(commands.test)>> \in Seq(Commands))
  BY <1>1
<1>3. CASE kind = "test"
  BY <1>1, <1>2, <1>3 DEF CommandsFor
<1>4. CASE kind = "build"
  BY <1>1, <1>2, <1>4 DEF CommandsFor
<1> QED
  BY <1>3, <1>4

LEMMA WantedType ==
  ASSUME case \in Cases, NEW kind \in {"test", "build"}
  PROVE  WantedOf(kind) \in Seq(Todos)
<1>1. task.commands \in [test : Seq(Commands), build : Seq(Commands)]
  BY CompletionAssumption DEF task
<1>2. CommandsFor(IF task.policy = None THEN "full" ELSE task.policy, task.commands)[kind]
        \in Seq(Commands)
  BY <1>1, CommandsForType
<1> QED
  BY <1>2, TaggedType DEF WantedOf

LEMMA StrippedType ==
  ASSUME NEW r \in Seq(Results)
  PROVE  /\ Stripped(r) \in Seq(Todos) /\ Len(Stripped(r)) = Len(r)
         /\ \A i \in 1..Len(r) :
              Stripped(r)[i] = [kind |-> r[i].kind, command |-> r[i].command]
<1>1. DOMAIN r = 1..Len(r) /\ Len(r) \in Nat /\ \A i \in 1..Len(r) : r[i] \in Results
  OBVIOUS
<1>2. Stripped(r) \in [1..Len(r) -> Todos]
  BY <1>1 DEF Stripped, Todos, Results
<1>3. Stripped(r) \in Seq(Todos) /\ Len(Stripped(r)) = Len(r)
  BY <1>1, <1>2
<1> QED
  BY <1>1, <1>3 DEF Stripped

LEMMA StrippedAppend ==
  ASSUME NEW r \in Seq(Results), NEW x \in Results
  PROVE  Stripped(Append(r, x))
           = Stripped(r) \o <<[kind |-> x.kind, command |-> x.command]>>
<1> DEFINE y == [kind |-> x.kind, command |-> x.command]
           a == Stripped(r)
           b == Stripped(Append(r, x))
<1>1. /\ Append(r, x) \in Seq(Results) /\ Len(Append(r, x)) = Len(r) + 1
      /\ Append(r, x)[Len(r) + 1] = x /\ Len(r) \in Nat
      /\ \A i \in 1..Len(r) : Append(r, x)[i] = r[i]
  OBVIOUS
<1>2. y \in Todos
  BY DEF Results, Todos
<1>3. a \in Seq(Todos) /\ Len(a) = Len(r)
      /\ \A i \in 1..Len(r) : a[i] = [kind |-> r[i].kind, command |-> r[i].command]
  BY StrippedType
<1>4. b \in Seq(Todos) /\ Len(b) = Len(r) + 1
      /\ \A i \in 1..(Len(r) + 1) :
           b[i] = [kind |-> Append(r, x)[i].kind, command |-> Append(r, x)[i].command]
  BY <1>1, StrippedType
<1> HIDE DEF a, b, y
<1>5. \A i \in 1..Len(r) : b[i] = a[i]
  BY <1>1, <1>3, <1>4
<1>6. b[Len(r) + 1] = y
  BY <1>1, <1>4 DEF y
<1>7. /\ a \o <<y>> \in Seq(Todos) /\ Len(a \o <<y>>) = Len(r) + 1
      /\ (a \o <<y>>)[Len(r) + 1] = y
      /\ \A i \in 1..Len(r) : (a \o <<y>>)[i] = a[i]
  <2>1. <<y>> \in Seq(Todos) /\ Len(<<y>>) = 1 /\ <<y>>[1] = y
    BY <1>2
  <2>2. /\ a \o <<y>> \in Seq(Todos) /\ Len(a \o <<y>>) = Len(a) + Len(<<y>>)
        /\ \A i \in 1..Len(a) + Len(<<y>>) :
             (a \o <<y>>)[i] = IF i <= Len(a) THEN a[i] ELSE <<y>>[i - Len(a)]
    BY <1>3, <2>1, ConcatProperties
  <2> QED
    BY <1>1, <1>3, <2>1, <2>2
<1>8. \A i \in 1..Len(b) : b[i] = (a \o <<y>>)[i]
  BY <1>1, <1>4, <1>5, <1>6, <1>7
<1>9. b = a \o <<y>>
  BY <1>4, <1>7, <1>8, SeqEqual
<1> QED
  BY <1>9 DEF a, b, y

(* A command that ran moves from the list to the results.                    *)
LEMMA CommandMoves ==
  ASSUME NEW t \in Seq(Todos), t # <<>>, NEW r \in Seq(Results), NEW x \in Results,
         x.kind = Head(t).kind, x.command = Head(t).command
  PROVE  Stripped(Append(r, x)) \o Tail(t) = Stripped(r) \o t
<1> DEFINE y == [kind |-> x.kind, command |-> x.command]
<1>1. Head(t) \in Todos /\ Tail(t) \in Seq(Todos) /\ t = <<Head(t)>> \o Tail(t)
  OBVIOUS
<1>2. y = Head(t)
  BY <1>1 DEF Todos
<1>3. Stripped(r) \in Seq(Todos) /\ <<y>> \in Seq(Todos)
  BY <1>1, <1>2, StrippedType
<1>4. (Stripped(r) \o <<y>>) \o Tail(t) = Stripped(r) \o (<<y>> \o Tail(t))
  BY <1>1, <1>3, ConcatAssociative
<1> QED
  BY <1>1, <1>2, <1>4, StrippedAppend

-----------------------------------------------------------------------------
(* What the records say.                                                     *)

LEMMA VerifiedOutcome ==
  ASSUME NEW s, NEW v, NEW r, NEW m, DeriveOutcome(s, v, r, m).quality = "verified"
  PROVE  s \in SuccessStatuses /\ ~work.mock /\ ~r.degraded
BY DEF DeriveOutcome, Quality, Bucket

LEMMA PassedAll ==
  ASSUME ran \in Seq(Results), Passed("test"), Passed("build")
  PROVE  AllZero
<1>1. \A i \in DOMAIN ran : ran[i] \in Results
  OBVIOUS
<1>2. \A i \in DOMAIN ran : ran[i].kind \in {"test", "build"}
  BY <1>1 DEF Results
<1> QED
  BY <1>2 DEF Passed, AllZero

LEMMA CasesFixed ==
  ASSUME UNCHANGED case
  PROVE  /\ task' = task /\ work' = work /\ Wanted' = Wanted
BY DEF task, work, Wanted, WantedOf

LEMMA VerdictWords ==
  ASSUME NEW worker, NEW command
  PROVE  CheckCommand(worker, command) \in Verdicts
BY DEF CheckCommand, Verdicts

(* After the verification accepted the work, all that was wanted has passed. *)
LEMMA AcceptedRan ==
  ASSUME Types, CommandsKept, VerdictsHold, stage \in Checked, Acceptable(verify)
  PROVE  /\ Stripped(ran) = Wanted /\ AllZero
         /\ [i \in DOMAIN ran |-> [kind |-> ran[i].kind, command |-> ran[i].command]] = Wanted
<1>1. verify.tests /\ verify.build
  BY DEF Acceptable
<1>2. Passed("test") /\ Passed("build")
  BY <1>1 DEF VerdictsHold
<1>3. AllZero
  BY <1>2, PassedAll DEF Types
<1>4. Stripped(ran) = Wanted
  BY <1>3 DEF CommandsKept
<1> QED
  BY <1>3, <1>4 DEF Stripped

(* A review that approves work that needs Codex is Codex's.                  *)
LEMMA CodexApproves ==
  ASSUME NEW answer, ReviewOf(answer).approved, NeedsCodex(task.risk)
  PROVE  ReviewOf(answer).mode = "codex"
BY DEF ReviewOf

-----------------------------------------------------------------------------
(* The steps.                                                                *)

LEMMA InitIInv == Init => IInv
<1> SUFFICES ASSUME Init PROVE IInv
  OBVIOUS
<1>1. Types
  BY EmptySeq DEF Init, Types
<1>2. Unrecorded /\ CommandsKept /\ VerdictsHold /\ StagesPassed
  BY DEF Init, Unrecorded, CommandsKept, VerdictsHold, StagesPassed, Working, Checked
<1>3. VerifiedMeansChecked /\ PatchIsReviewed /\ ForbiddenIsNotPublished
  BY DEF Init, VerifiedMeansChecked, PatchIsReviewed, ForbiddenIsNotPublished
<1> QED
  BY <1>1, <1>2, <1>3 DEF IInv

Goals == VerifiedMeansChecked /\ PatchIsReviewed /\ ForbiddenIsNotPublished

\* The conjuncts that only concern executions that go on.
Running == Types /\ CommandsKept /\ VerdictsHold /\ StagesPassed

LEMMA NothingRecorded ==
  ASSUME outcome' = None, published' = None
  PROVE  Unrecorded' /\ Goals'
BY DEF Unrecorded, Goals, VerifiedMeansChecked, PatchIsReviewed, ForbiddenIsNotPublished

LEMMA OverIsRunning ==
  ASSUME Types, UNCHANGED <<case, todo, ran, faults>>, stage' \in {"ended", "raised"}
  PROVE  Running'
BY DEF Running, Types, CommandsKept, VerdictsHold, StagesPassed, Working, Checked

(* A status that is no success records nothing as verified.                  *)
LEMMA NoSuccess ==
  ASSUME NEW s, s \notin SuccessStatuses \/ work.mock, outcome = None, published' = None,
         SetStatus(s)
  PROVE  Goals'
<1>1. outcome' # None =>
        \E r : outcome' = DeriveOutcome(s, verify', r, row')
  BY DEF SetStatus
<1>2. outcome' # None => outcome'.quality # "verified"
  BY <1>1, VerifiedOutcome
<1> QED
  BY <1>2 DEF Goals, VerifiedMeansChecked, PatchIsReviewed, ForbiddenIsNotPublished

LEMMA StatusWords ==
  /\ \A s \in {"VERIFYING", "CODEX_REVIEWING", "PLANNED"} : s \notin OutcomeStatuses
  /\ \A s \in {"FAILED_FINAL", "NEEDS_REVIEW"} : s \notin SuccessStatuses
BY DEF OutcomeStatuses, SuccessStatuses, FailedStatuses, ApprovalStatuses

LEMMA NextIInv == IInv /\ [Next]_vars => IInv'
<1> SUFFICES ASSUME IInv, [Next]_vars PROVE IInv'
  OBVIOUS
<1> USE DEF IInv
<1>0. Goals' /\ Unrecorded' /\ Running' => IInv'
  BY DEF Goals, Running
<1>1. CASE HandleMock
  <2>1. stage = "start" /\ work.mock /\ stage' = "ended" /\ UNCHANGED <<case, todo, ran, faults, published>>
    BY <1>1 DEF HandleMock, Ended
  <2>2. outcome = None /\ published' = None
    BY <2>1 DEF Unrecorded
  <2>3. Goals'
    BY <1>1, <2>1, <2>2, NoSuccess DEF HandleMock
  <2> QED
    BY <1>0, <2>1, <2>3, OverIsRunning DEF Unrecorded
<1>2. CASE StartVerify
  <2>1. /\ stage = "start" /\ ~work.mock /\ stage' = "verifying" /\ todo' = Wanted
        /\ UNCHANGED <<case, ran, faults, published, outcome>>
    BY <1>2, StatusWords DEF StartVerify, SetStatus
  <2>2. Goals' /\ Unrecorded'
    BY <2>1, NothingRecorded DEF Unrecorded
  <2>3. WantedOf("test") \in Seq(Todos) /\ WantedOf("build") \in Seq(Todos)
    BY WantedType DEF Types
  <2>4. Wanted \in Seq(Todos)
    BY <2>3 DEF Wanted
  <2>5. Types'
    BY <2>1, <2>4 DEF Types
  <2>6. ran = <<>> /\ Stripped(<<>>) = <<>>
    BY <2>1 DEF CommandsKept, Stripped
  <2>7. Stripped(ran') \o todo' = Wanted'
    BY <2>1, <2>4, <2>6, CasesFixed, ConcatEmptySeq
  <2>8. CommandsKept'
    BY <2>1, <2>7 DEF CommandsKept, Stripped, Checked
  <2>9. VerdictsHold' /\ StagesPassed'
    BY <2>1, CasesFixed DEF VerdictsHold, StagesPassed, Checked
  <2> QED
    BY <1>0, <2>2, <2>5, <2>8, <2>9 DEF Running
<1>3. CASE RunCommand
  <2> DEFINE next == Head(todo)
             check == CheckCommand(case.worker, next.command)
             others == IF next.kind = "test" THEN WantedOf("build") ELSE <<>>
             result(code) == [kind |-> next.kind, command |-> next.command,
                              code |-> code, check |-> check]
  <2>1. /\ stage = "verifying" /\ todo # <<>>
        /\ UNCHANGED <<case, stage, faults, published, outcome>>
    BY <1>3 DEF RunCommand
  <2>2. Goals' /\ Unrecorded'
    BY <2>1, NothingRecorded DEF Unrecorded
  <2>3. next \in Todos /\ Tail(todo) \in Seq(Todos) /\ check \in Verdicts
    BY <2>1, VerdictWords DEF Types
  <2>4. others \in Seq(Todos)
    BY WantedType, EmptySeq DEF Types
  <2>5. \A code \in Codes : result(code) \in Results
    BY <2>3 DEF Results, Todos
  <2>6. \E code \in Codes : /\ ran' = Append(ran, result(code))
                            /\ todo' = IF code = 0 THEN Tail(todo) ELSE others
    BY <1>3 DEF RunCommand, Codes
  <2>7. PICK code \in Codes : /\ ran' = Append(ran, result(code))
                              /\ todo' = IF code = 0 THEN Tail(todo) ELSE others
    BY <2>6
  <2> HIDE DEF next, check, others
  <2>8. Types'
    <3>1. ran \in Seq(Results) /\ result(code) \in Results
      BY <2>5 DEF Types
    <3>2. ran' \in Seq(Results)
      BY <2>7, <3>1
    <3> QED
      BY <2>1, <2>3, <2>4, <2>7, <3>2 DEF Types
  <2>9. CommandsKept'
    <3>1. SUFFICES ASSUME AllZero' PROVE Stripped(ran') \o todo' = Wanted'
      BY <2>1 DEF CommandsKept, Checked
    <3>2. /\ ran \in Seq(Results) /\ result(code) \in Results
          /\ ran' = Append(ran, result(code))
      BY <2>5, <2>7 DEF Types
    <3>3. /\ DOMAIN ran' = 1..(Len(ran) + 1) /\ Len(ran) \in Nat
          /\ ran'[Len(ran) + 1] = result(code)
          /\ \A i \in DOMAIN ran : i \in DOMAIN ran' /\ ran'[i] = ran[i]
      BY <3>2
    <3>4. result(code).code = 0 /\ AllZero
      BY <3>1, <3>3 DEF AllZero
    <3>5. todo' = Tail(todo)
      BY <2>7, <3>4
    <3>6. Stripped(ran) \o todo = Wanted
      BY <2>1, <3>4 DEF CommandsKept
    <3>7. result(code).kind = Head(todo).kind /\ result(code).command = Head(todo).command
      BY DEF next
    <3>8. Stripped(ran') \o Tail(todo) = Stripped(ran) \o todo
      BY <2>1, <3>2, <3>7, CommandMoves DEF Types
    <3> QED
      BY <2>1, <3>5, <3>6, <3>8, CasesFixed
  <2>10. VerdictsHold' /\ StagesPassed'
    BY <2>1, CasesFixed DEF VerdictsHold, StagesPassed, Checked, Working
  <2> QED
    BY <1>0, <2>2, <2>8, <2>9, <2>10 DEF Running
<1>4. CASE CommandTimesOut
  <2>1. /\ stage = "verifying" /\ stage' = "raised" /\ faults' = faults + 1
        /\ UNCHANGED <<case, todo, ran, published, outcome>>
    BY <1>4 DEF CommandTimesOut
  <2>2. Goals' /\ Unrecorded'
    BY <2>1, NothingRecorded DEF Unrecorded
  <2>3. Running'
    BY <2>1 DEF Running, Types, CommandsKept, VerdictsHold, StagesPassed, Working, Checked
  <2> QED
    BY <1>0, <2>2, <2>3
<1>5. CASE EndVerify
  <2>1. PICK lostFiles \in BOOLEAN, lostDiff \in BOOLEAN :
          /\ faults' = faults + (IF lostFiles THEN 1 ELSE 0) + (IF lostDiff THEN 1 ELSE 0)
          /\ Verified(lostFiles, lostDiff)
    BY <1>5 DEF EndVerify
  <2>2. /\ stage = "verifying" /\ todo = <<>> /\ stage' = "verified"
        /\ UNCHANGED <<case, todo, ran, tree, published, outcome>>
    BY <1>5 DEF EndVerify
  <2>3. Goals' /\ Unrecorded'
    BY <2>2, NothingRecorded DEF Unrecorded
  <2>4. Types'
    BY <2>1, <2>2 DEF Types
  <2>5. CommandsKept'
    <3>1. Stripped(ran) \in Seq(Todos)
      BY StrippedType DEF Types
    <3>2. AllZero => Stripped(ran) = Wanted
      BY <2>2, <3>1, ConcatEmptySeq DEF CommandsKept
    <3> QED
      BY <2>2, <3>2, CasesFixed DEF CommandsKept, Checked, AllZero, Stripped
  <2>6. (verify.tests)' => Passed("test")'
    BY <2>1, <2>2 DEF Verified, Passed
  <2>7. (verify.build)' => Passed("build")'
    BY <2>1, <2>2 DEF Verified, Passed
  <2>8. faults' = 0 /\ (verify.allowed)' => \A p \in patch' : ~PathMatches(p, task'.forbidden)
    <3>1. SUFFICES ASSUME faults' = 0, (verify.allowed)'
                   PROVE  \A p \in patch' : ~PathMatches(p, task.forbidden)
      BY <2>2, CasesFixed
    <3>2. ~lostFiles /\ ~lostDiff
      BY <2>1, <3>1 DEF Types
    <3>3. \A p \in tree : ~PathMatches(p, task.forbidden)
      BY <2>1, <3>1, <3>2 DEF Verified, ChangedFiles
    <3> QED
      BY <2>1, <3>2, <3>3 DEF Verified
  <2>9. faults' = 0 => patch' = (verify.changed)'
    <3>1. SUFFICES ASSUME faults' = 0 PROVE patch' = (verify.changed)'
      OBVIOUS
    <3>2. ~lostFiles /\ ~lostDiff
      BY <2>1, <3>1 DEF Types
    <3> QED
      BY <2>1, <3>2 DEF Verified, ChangedFiles
  <2>10. VerdictsHold'
    BY <2>6, <2>7, <2>8, <2>9 DEF VerdictsHold
  <2>11. StagesPassed'
    BY <2>2, CasesFixed DEF StagesPassed, Working
  <2> QED
    BY <1>0, <2>3, <2>4, <2>5, <2>10, <2>11 DEF Running
<1>6. CASE VerifyFails
  <2>1. stage = "verified" /\ stage' = "ended" /\ UNCHANGED <<case, todo, ran, faults, published>>
    BY <1>6 DEF VerifyFails, Ended
  <2>2. outcome = None /\ published' = None
    BY <2>1 DEF Unrecorded
  <2>3. Goals'
    BY <1>6, <2>1, <2>2, NoSuccess, StatusWords DEF VerifyFails
  <2> QED
    BY <1>0, <2>1, <2>3, OverIsRunning DEF Unrecorded
<1>7. CASE FinishAnswer
  <2>1. /\ stage = "verified" /\ Acceptable(verify) /\ stage' = "ended"
        /\ review'.approved = TRUE
        /\ UNCHANGED <<case, todo, ran, faults, published, verify>>
    BY <1>7 DEF FinishAnswer, Ended, ReadOnlyReview
  <2>2. published' = None
    BY <2>1 DEF Unrecorded
  <2>3. ~work'.mock /\ review'.approved
    BY <2>1, CasesFixed DEF StagesPassed, Working
  <2>4. Wanted' = [i \in DOMAIN ran' |-> [kind |-> ran'[i].kind, command |-> ran'[i].command]]
        /\ \A i \in DOMAIN ran' : ran'[i].code = 0
    BY <2>1, AcceptedRan, CasesFixed DEF Checked, AllZero
  <2>5. Goals'
    BY <2>2, <2>3, <2>4
       DEF Goals, VerifiedMeansChecked, PatchIsReviewed, ForbiddenIsNotPublished
  <2> QED
    BY <1>0, <2>1, <2>5, OverIsRunning DEF Unrecorded
<1>8. CASE StartReview
  <2>1. /\ stage = "verified" /\ Acceptable(verify) /\ stage' = "reviewing"
        /\ UNCHANGED <<case, todo, ran, faults, patch, verify, published, outcome>>
    BY <1>8, StatusWords DEF StartReview, SetStatus
  <2>2. Goals' /\ Unrecorded'
    BY <2>1, NothingRecorded DEF Unrecorded
  <2>3. Types' /\ CommandsKept'
    BY <2>1, CasesFixed DEF Types, CommandsKept, AllZero, Stripped, Checked
  <2>4. VerdictsHold'
    BY <2>1, CasesFixed DEF VerdictsHold, Checked, Passed
  <2>5. StagesPassed'
    BY <2>1, CasesFixed DEF StagesPassed, Working, Acceptable
  <2> QED
    BY <1>0, <2>2, <2>3, <2>4, <2>5 DEF Running
<1>9. CASE RiskIsMissing
  <2>1. /\ stage \in {"start", "verified", "reviewing"} /\ stage' = "raised"
        /\ UNCHANGED <<case, todo, ran, faults, published, outcome>>
    BY <1>9 DEF RiskIsMissing
  <2>2. Goals' /\ Unrecorded'
    BY <2>1, NothingRecorded DEF Unrecorded
  <2> QED
    BY <1>0, <2>1, <2>2, OverIsRunning
<1>10. CASE Review
  <2>1. /\ stage = "reviewing" /\ UNCHANGED <<case, todo, ran, faults, patch, verify, published>>
        /\ outcome = None /\ published' = None
    BY <1>10 DEF Review, Unrecorded
  <2>2. PICK answer : review' = ReviewOf(answer)
    BY <1>10 DEF Review
  <2>3. CASE stage' = "ended" /\ (SetStatus("NEEDS_REVIEW") \/ SetStatus("FAILED_FINAL"))
    <3>1. Goals'
      BY <2>1, <2>3, NoSuccess, StatusWords
    <3> QED
      BY <1>0, <2>1, <2>3, <3>1, OverIsRunning DEF Unrecorded
  <2>4. CASE stage' = "publishing" /\ SetStatus("PLANNED") /\ review'.approved
    <3>1. outcome' = None
      BY <2>1, <2>4, StatusWords DEF SetStatus
    <3>2. Goals' /\ Unrecorded'
      BY <2>1, <3>1, NothingRecorded
    <3>3. Types' /\ CommandsKept'
      BY <2>1, <2>4, CasesFixed DEF Types, CommandsKept, AllZero, Stripped, Checked
    <3>4. VerdictsHold'
      BY <2>1, <2>4, CasesFixed DEF VerdictsHold, Checked, Passed
    <3>5. Approved'
      BY <2>1, <2>2, <2>4, CodexApproves, CasesFixed DEF Approved
    <3>6. StagesPassed'
      BY <2>1, <2>4, <3>5, CasesFixed DEF StagesPassed, Working, Acceptable
    <3> QED
      BY <1>0, <3>2, <3>3, <3>4, <3>6 DEF Running
  <2> QED
    BY <1>10, <2>3, <2>4 DEF Review
<1>11. CASE Publish
  <2>1. /\ stage = "publishing" /\ stage' = "ended"
        /\ UNCHANGED <<case, todo, ran, faults, patch, verify, review>>
    BY <1>11 DEF Publish, Ended
  <2>2. Acceptable(verify) /\ ~work.mock /\ Approved
    BY <2>1 DEF StagesPassed, Working
  <2>3. Wanted' = [i \in DOMAIN ran' |-> [kind |-> ran'[i].kind, command |-> ran'[i].command]]
        /\ \A i \in DOMAIN ran' : ran'[i].code = 0
    BY <2>1, <2>2, AcceptedRan, CasesFixed DEF Checked, AllZero
  <2>4. VerifiedMeansChecked'
    BY <2>1, <2>2, <2>3, CasesFixed DEF VerifiedMeansChecked, Approved
  <2>5. published'.as = "patch" => published'.files = patch
    <3>1. \/ published' = [as |-> "patch", files |-> patch]
          \/ published' = [as |-> "pr", files |-> work.committed]
      BY <1>11 DEF Publish
    <3> QED
      BY <3>1
  <2>6. PatchIsReviewed'
    BY <2>1, <2>2, <2>5, CasesFixed
       DEF PatchIsReviewed, Approved, NeedsCodex, Acceptable, VerdictsHold, Checked
  <2>7. verify.allowed
    BY <2>2 DEF Acceptable
  <2>8. ForbiddenIsNotPublished'
    BY <2>1, <2>5, <2>7, CasesFixed DEF ForbiddenIsNotPublished, VerdictsHold, Checked
  <2> QED
    BY <1>0, <2>1, <2>4, <2>6, <2>8, OverIsRunning DEF Goals, Unrecorded
<1>12. CASE UNCHANGED vars
  <2>1. Goals' /\ Unrecorded'
    BY <1>12, CasesFixed DEF vars, Goals, Unrecorded, VerifiedMeansChecked,
       PatchIsReviewed, ForbiddenIsNotPublished, Acceptable
  <2>2. Types' /\ CommandsKept'
    BY <1>12, CasesFixed DEF vars, Types, CommandsKept, AllZero, Stripped
  <2>3. VerdictsHold' /\ StagesPassed'
    BY <1>12, CasesFixed DEF vars, VerdictsHold, StagesPassed, Passed, Acceptable, Approved
  <2> QED
    BY <1>0, <2>1, <2>2, <2>3 DEF Running
<1> QED
  BY <1>1, <1>2, <1>3, <1>4, <1>5, <1>6, <1>7, <1>8, <1>9, <1>10, <1>11, <1>12
     DEF Next, Done

LEMMA Invariance == Spec => []IInv
BY InitIInv, NextIInv, PTL DEF Spec

(* A task whose outcome has the quality "verified" was done by a real worker, *)
(* every command that its policy asks for ran and succeeded, and the review   *)
(* approved, whatever the cases are (outcomes.py, verifier.py).               *)
THEOREM VerifiedIsChecked == Spec => []VerifiedMeansChecked
<1>1. IInv => VerifiedMeansChecked
  BY DEF IInv
<1> QED
  BY <1>1, Invariance, PTL

(* A published patch has the files that verification judged, while git        *)
(* answers, and was accepted by it and approved by the review, for which      *)
(* Codex answered from medium risk on (task_completion_pipeline.py,           *)
(* reviewer.py).                                                              *)
THEOREM PatchesAreReviewed == Spec => []PatchIsReviewed
<1>1. IInv => PatchIsReviewed
  BY DEF IInv
<1> QED
  BY <1>1, Invariance, PTL

(* While git answers, no published patch touches a forbidden path, whatever   *)
(* files the verification commands edit (verifier.py, pr.py).                 *)
THEOREM PatchesSpareForbidden == Spec => []ForbiddenIsNotPublished
<1>1. IInv => ForbiddenIsNotPublished
  BY DEF IInv
<1> QED
  BY <1>1, Invariance, PTL

-----------------------------------------------------------------------------
(* The records that are left, for which more of the verdicts is needed.       *)

Failures == {"dangerous_command", "forbidden_path", "build_failed", "tests_failed",
             "review_unavailable", "review_rejected"}
Learnings == [success : BOOLEAN, tests : BOOLEAN, review : BOOLEAN]
Reviews == [approved : BOOLEAN, degraded : BOOLEAN, blocking : BOOLEAN,
            mode : {"degraded_mock", "skipped_read_only", "local_fallback", "codex"}]
Files == Edits \cup work.changed \cup work.committed

AllAllowed == \A i \in DOMAIN ran : ran[i].check = "allow"

(* verify.json holds verdicts, and tells of every command that was refused.   *)
VerdictsKnown ==
  stage \in Checked =>
    /\ verify.tests \in BOOLEAN /\ verify.build \in BOOLEAN /\ verify.allowed \in BOOLEAN
    /\ verify.permitted <=> AllAllowed

(* What the review leaves before the publication starts.                      *)
ApprovalRecorded ==
  stage = "publishing" =>
    /\ review \in Reviews /\ review.approved
    /\ ~review.degraded => review.mode = "codex"
    /\ row.failure = None /\ row.review = TRUE
    /\ learned # <<>> /\ Last.success

RInv ==
  /\ tree \subseteq Files /\ patch \subseteq Files /\ learned \in Seq(Learnings)
  /\ VerdictsKnown /\ ApprovalRecorded /\ RecordsAgree /\ AcceptedIsDelivered

LEMMA InitRInv == Init => RInv
<1> SUFFICES ASSUME Init PROVE RInv
  OBVIOUS
<1>1. <<>> \in Seq(Learnings)
  OBVIOUS
<1> QED
  BY <1>1 DEF Init, RInv, VerdictsKnown, ApprovalRecorded, RecordsAgree, AcceptedIsDelivered,
     Files, Checked, Over, work

(* What an outcome says of the status and the review it is derived from.     *)
LEMMA OutcomeWords ==
  ASSUME NEW s, NEW v, NEW r, NEW m
  PROVE  LET o == DeriveOutcome(s, v, r, m)
         IN  /\ s \in SuccessStatuses => o.bucket \in {"success", "degraded"}
             /\ o.bucket = "success" => s \in SuccessStatuses /\ ~r.degraded /\ ~work.mock
             /\ o.acceptance = "accepted" =>
                  s \in SuccessStatuses /\ o.approved # FALSE /\ ~r.degraded /\ ~work.mock
             /\ r.approved \in BOOLEAN => o.approved = r.approved
BY NoneAssumption DEF DeriveOutcome, Bucket, Acceptance, FirstBool

(* A failure, or a question, is neither a success nor accepted.             *)
LEMMA FailedOutcome ==
  ASSUME NEW s \in FailedStatuses \cup ApprovalStatuses, NEW v, NEW r, NEW m
  PROVE  /\ DeriveOutcome(s, v, r, m).bucket \in {"failed", "approval"}
         /\ DeriveOutcome(s, v, r, m).acceptance # "accepted"
<1>1. s \notin SuccessStatuses /\ (s \notin FailedStatuses => s # "BLOCKED")
  BY DEF FailedStatuses, ApprovalStatuses, SuccessStatuses
<1> QED
  BY <1>1 DEF DeriveOutcome, Bucket, Acceptance

LEMMA SetStatusDerives ==
  ASSUME NEW s \in OutcomeStatuses, SetStatus(s), review' \in Reviews
  PROVE  outcome' = DeriveOutcome(s, verify', review', row')
BY NoneAssumption DEF SetStatus, Reviews

LEMMA Learned ==
  ASSUME learned \in Seq(Learnings), NEW success \in BOOLEAN, NEW tests \in BOOLEAN,
         NEW approved \in BOOLEAN, Learn(success, tests, approved)
  PROVE  learned' \in Seq(Learnings) /\ learned' # <<>> /\ (Last.success)' = success
<1> DEFINE x == [success |-> success, tests |-> tests, review |-> approved]
<1>1. x \in Learnings /\ learned' = Append(learned, x)
  BY DEF Learn, Learnings
<1>2. /\ learned' \in Seq(Learnings) /\ learned' # <<>>
      /\ Len(learned') = Len(learned) + 1 /\ learned'[Len(learned) + 1] = x
  BY <1>1
<1>3. Last' = x
  BY <1>2 DEF Last
<1> QED
  BY <1>2, <1>3

LEMMA WorkFiles ==
  ASSUME UNCHANGED case PROVE Files' = Files
BY CasesFixed DEF Files

(* A status that is a failure, or that asks the user, after a failure that    *)
(* the row names, is told to nobody as a success.                            *)
LEMMA FailureRecorded ==
  ASSUME RInv, NEW s \in FailedStatuses \cup ApprovalStatuses, SetStatus(s),
         Learn(FALSE, FALSE, FALSE), UNCHANGED <<case, tree, patch, ran>>,
         stage' = "ended", row'.failure \in Failures,
         ~AllAllowed => row'.failure = "dangerous_command" /\ s = "FAILED_FINAL"
  PROVE  RInv'
<1>1. PICK r : outcome' = DeriveOutcome(s, verify', r, row')
  BY DEF SetStatus, OutcomeStatuses
<1>2. outcome'.bucket \in {"failed", "approval"} /\ outcome'.acceptance # "accepted"
  BY <1>1, FailedOutcome
<1>3. learned' \in Seq(Learnings) /\ (Last.success)' = FALSE
  BY Learned DEF RInv
<1>4. row'.failure # None
  BY NoneAssumption DEF Failures
<1>5. status' = s
  BY DEF SetStatus
<1>6. RecordsAgree'
  BY <1>2, <1>3, <1>4, <1>5 DEF RecordsAgree, AllAllowed
<1>7. AcceptedIsDelivered'
  BY <1>2 DEF AcceptedIsDelivered
<1> QED
  BY <1>3, <1>6, <1>7, WorkFiles DEF RInv, VerdictsKnown, ApprovalRecorded, Checked

(* A success that the review approved, in a row that names no failure.       *)
LEMMA SuccessRecorded ==
  ASSUME RInv, NEW s \in SuccessStatuses, SetStatus(s), UNCHANGED <<case, tree, patch, ran>>,
         stage' = "ended", learned' \in Seq(Learnings), (Last.success)' = TRUE,
         review' \in Reviews, review'.approved, row'.failure = None, row'.review = TRUE,
         AllAllowed, ~review'.degraded /\ ~work.mock =>
           \/ published' # None /\ review'.mode = "codex"
           \/ review'.mode = "skipped_read_only" /\ work.changed = {}
  PROVE  RInv'
<1>1. outcome' = DeriveOutcome(s, verify', review', row')
  BY SetStatusDerives DEF OutcomeStatuses
<1>2. review'.approved = TRUE
  BY DEF Reviews
<1>3. /\ outcome'.bucket \in {"success", "degraded"} /\ outcome'.approved = TRUE
      /\ outcome'.acceptance = "accepted" => ~review'.degraded /\ ~work.mock
  BY <1>1, <1>2, OutcomeWords
<1>4. RecordsAgree'
  BY <1>3 DEF RecordsAgree, AllAllowed
<1>5. AcceptedIsDelivered'
  BY <1>3, CasesFixed DEF AcceptedIsDelivered
<1> QED
  BY <1>4, <1>5, WorkFiles DEF RInv, VerdictsKnown, ApprovalRecorded, Checked

(* Before the end there is nothing to agree about.                           *)
LEMMA NotOver ==
  ASSUME stage' # "ended", outcome' = None
  PROVE  RecordsAgree' /\ AcceptedIsDelivered'
BY DEF RecordsAgree, AcceptedIsDelivered, Over

LEMMA ReviewType ==
  ASSUME VerdictsKnown, stage = "reviewing",
         NEW answer \in {"approves", "approves_with_issues", "rejects", "silent", "unavailable"}
  PROVE  /\ ReviewOf(answer) \in Reviews
         /\ ~ReviewOf(answer).degraded => ReviewOf(answer).mode = "codex"
<1>1. verify.tests \in BOOLEAN /\ verify.allowed \in BOOLEAN
  BY DEF VerdictsKnown, Checked
<1> QED
  BY <1>1 DEF ReviewOf, Reviews, NeedsCodex

LEMMA NextRInv == IInv /\ RInv /\ [Next]_vars => RInv'
<1> SUFFICES ASSUME IInv, RInv, [Next]_vars PROVE RInv'
  OBVIOUS
<1> USE DEF IInv
<1>1. CASE HandleMock
  <2>1. /\ stage = "start" /\ stage' = "ended" /\ UNCHANGED <<case, tree, patch, ran>>
        /\ work.mock /\ review'.degraded /\ review' \in Reviews /\ review'.approved = FALSE
        /\ row'.failure = "review_unavailable" /\ Learn(FALSE, FALSE, FALSE)
    BY <1>1 DEF HandleMock, MockArtifacts, WriteRow, Ended, Reviews
  <2>2. AllAllowed
    BY <2>1 DEF AllAllowed, CommandsKept
  <2>3. PICK s \in {"DRY_RUN_COMPLETED", "NEEDS_USER"} : SetStatus(s)
    BY <1>1 DEF HandleMock
  <2>4. outcome' = DeriveOutcome(s, verify', review', row')
    BY <2>1, <2>3, SetStatusDerives DEF OutcomeStatuses, SuccessStatuses, ApprovalStatuses
  <2>5. outcome'.bucket # "success" /\ outcome'.acceptance # "accepted"
    BY <2>1, <2>4, OutcomeWords
  <2>6. learned' \in Seq(Learnings) /\ (Last.success)' = FALSE
    BY <2>1, Learned DEF RInv
  <2>7. row'.failure # None
    BY <2>1, NoneAssumption
  <2> QED
    BY <2>1, <2>2, <2>5, <2>6, <2>7, WorkFiles
       DEF RInv, VerdictsKnown, ApprovalRecorded, Checked, RecordsAgree, AcceptedIsDelivered,
           AllAllowed
<1>2. CASE StartVerify
  <2>1. /\ stage' = "verifying" /\ outcome' = None /\ UNCHANGED <<case, tree, patch, learned>>
    BY <1>2, StatusWords DEF StartVerify, SetStatus, Unrecorded
  <2> QED
    BY <2>1, NotOver, WorkFiles DEF RInv, VerdictsKnown, ApprovalRecorded, Checked
<1>3. CASE RunCommand
  <2>1. /\ stage' = "verifying" /\ outcome' = None /\ UNCHANGED <<case, patch, learned>>
        /\ tree' \subseteq tree \cup Edits
    BY <1>3 DEF RunCommand, Unrecorded
  <2>2. tree' \subseteq Files
    BY <2>1 DEF RInv, Files
  <2> QED
    BY <2>1, <2>2, NotOver, WorkFiles DEF RInv, VerdictsKnown, ApprovalRecorded, Checked
<1>4. CASE CommandTimesOut
  <2>1. stage' = "raised" /\ outcome' = None /\ UNCHANGED <<case, tree, patch, learned>>
    BY <1>4 DEF CommandTimesOut, Unrecorded
  <2> QED
    BY <2>1, NotOver, WorkFiles DEF RInv, VerdictsKnown, ApprovalRecorded, Checked
<1>5. CASE EndVerify
  <2>1. PICK lostFiles \in BOOLEAN, lostDiff \in BOOLEAN : Verified(lostFiles, lostDiff)
    BY <1>5 DEF EndVerify
  <2>2. /\ stage' = "verified" /\ outcome' = None /\ UNCHANGED <<case, tree, ran, learned>>
    BY <1>5 DEF EndVerify, Unrecorded
  <2>3. patch' \subseteq Files
    BY <2>1 DEF Verified, RInv
  <2>4. VerdictsKnown'
    <3>1. /\ verify'.tests = Passed("test") /\ verify'.build = Passed("build")
          /\ verify'.permitted = (\A i \in DOMAIN ran : ran[i].check = "allow")
          /\ verify'.allowed = (\A p \in ChangedFiles(lostFiles) : ~PathMatches(p, task.forbidden))
      BY <2>1 DEF Verified
    <3>2. verify'.tests \in BOOLEAN /\ verify'.build \in BOOLEAN /\ verify'.allowed \in BOOLEAN
      BY <3>1 DEF Passed
    <3>3. verify'.permitted <=> AllAllowed'
      BY <2>2, <3>1 DEF AllAllowed
    <3> QED
      BY <3>2, <3>3 DEF VerdictsKnown
  <2> QED
    BY <2>2, <2>3, <2>4, NotOver, WorkFiles DEF RInv, ApprovalRecorded
<1>6. CASE VerifyFails
  <2>1. /\ stage = "verified" /\ stage' = "ended" /\ UNCHANGED <<case, tree, patch, ran>>
        /\ row'.failure = VerifyFailure(verify) /\ SetStatus("FAILED_FINAL")
        /\ Learn(FALSE, FALSE, FALSE)
    BY <1>6 DEF VerifyFails, WriteRow, Ended
  <2>2. row'.failure \in Failures /\ (~verify.permitted => row'.failure = "dangerous_command")
    BY <2>1 DEF VerifyFailure, Failures
  <2>3. ~AllAllowed => ~verify.permitted
    BY <2>1 DEF RInv, VerdictsKnown, Checked
  <2> QED
    BY <2>1, <2>2, <2>3, FailureRecorded DEF FailedStatuses
<1>7. CASE FinishAnswer
  <2>1. /\ stage = "verified" /\ stage' = "ended" /\ UNCHANGED <<case, tree, patch, ran>>
        /\ Acceptable(verify) /\ IsAnswer /\ review' = ReadOnlyReview
        /\ row'.failure = None /\ row'.review = TRUE /\ Learn(TRUE, verify.tests, TRUE)
    BY <1>7 DEF FinishAnswer, WriteRow, Ended
  <2>2. PICK s \in SuccessStatuses : SetStatus(s)
    BY <1>7 DEF FinishAnswer, SuccessStatuses
  <2>3. AllAllowed /\ verify.tests \in BOOLEAN
    BY <2>1 DEF RInv, VerdictsKnown, Checked, Acceptable
  <2>4. learned' \in Seq(Learnings) /\ (Last.success)' = TRUE
    BY <2>1, <2>3, Learned DEF RInv
  <2>5. review' \in Reviews /\ review'.approved /\ review'.mode = "skipped_read_only"
    BY <2>1 DEF ReadOnlyReview, Reviews
  <2>6. work.changed = {}
    BY <2>1 DEF IsAnswer, FinishesAsAnswer
  <2> QED
    BY <2>1, <2>2, <2>3, <2>4, <2>5, <2>6, SuccessRecorded
<1>8. CASE StartReview
  <2>1. /\ stage = "verified" /\ stage' = "reviewing" /\ outcome' = None
        /\ UNCHANGED <<case, tree, patch, learned, ran, verify>>
    BY <1>8, StatusWords DEF StartReview, SetStatus, Unrecorded
  <2> QED
    BY <2>1, NotOver, WorkFiles DEF RInv, VerdictsKnown, ApprovalRecorded, Checked, AllAllowed
<1>9. CASE RiskIsMissing
  <2>1. stage' = "raised" /\ outcome' = None /\ UNCHANGED <<case, tree, patch, learned>>
    BY <1>9 DEF RiskIsMissing, Unrecorded
  <2> QED
    BY <2>1, NotOver, WorkFiles DEF RInv, VerdictsKnown, ApprovalRecorded, Checked
<1>10. CASE Review
  <2>1. /\ stage = "reviewing" /\ outcome = None
        /\ UNCHANGED <<case, tree, patch, ran, verify>> /\ ReviewRow(review')
    BY <1>10 DEF Review, Unrecorded
  <2>2. PICK answer \in {"approves", "approves_with_issues", "rejects", "silent", "unavailable"} :
          review' = ReviewOf(answer)
    BY <1>10 DEF Review
  <2>3. review' \in Reviews /\ (~review'.degraded => review'.mode = "codex")
    BY <2>1, <2>2, ReviewType DEF RInv
  <2>4. AllAllowed /\ verify.tests \in BOOLEAN
    BY <2>1 DEF RInv, VerdictsKnown, Checked, StagesPassed, Acceptable
  <2>5. CASE /\ stage' = "ended" /\ Learn(FALSE, FALSE, FALSE)
             /\ \/ review'.degraded /\ NeedsCodex(task.risk) /\ SetStatus("NEEDS_REVIEW")
                \/ ~review'.approved /\ SetStatus("FAILED_FINAL")
    <3>1. row'.failure \in Failures
      BY <2>1, <2>5 DEF ReviewRow, WriteRow, Failures
    <3>2. PICK s \in FailedStatuses \cup ApprovalStatuses : SetStatus(s)
      BY <2>5 DEF FailedStatuses, ApprovalStatuses
    <3> QED
      BY <2>1, <2>4, <2>5, <3>1, <3>2, FailureRecorded
  <2>6. CASE /\ stage' = "publishing" /\ Learn(TRUE, verify.tests, TRUE)
             /\ ~(review'.degraded /\ NeedsCodex(task.risk)) /\ review'.approved
             /\ SetStatus("PLANNED")
    <3>1. outcome' = None
      BY <2>1, <2>6, StatusWords DEF SetStatus
    <3>2. row'.failure = None /\ row'.review = TRUE
      BY <2>1, <2>6 DEF ReviewRow, WriteRow
    <3>3. learned' \in Seq(Learnings) /\ learned' # <<>> /\ (Last.success)' = TRUE
      BY <2>4, <2>6, Learned DEF RInv
    <3>4. ApprovalRecorded'
      BY <2>3, <2>6, <3>2, <3>3 DEF ApprovalRecorded
    <3>5. VerdictsKnown'
      BY <2>1 DEF RInv, VerdictsKnown, Checked, AllAllowed
    <3> QED
      BY <2>1, <2>6, <3>1, <3>3, <3>4, <3>5, NotOver, WorkFiles DEF RInv
  <2> QED
    BY <1>10, <2>5, <2>6 DEF Review
<1>11. CASE Publish
  <2>1. /\ stage = "publishing" /\ stage' = "ended"
        /\ UNCHANGED <<case, tree, patch, ran, verify, review, row>>
    BY <1>11 DEF Publish, Ended
  <2>2. PICK s \in SuccessStatuses : SetStatus(s)
    BY <1>11 DEF Publish, SuccessStatuses
  <2>3. AllAllowed
    BY <2>1 DEF RInv, VerdictsKnown, Checked, StagesPassed, Acceptable
  <2>4. learned' \in Seq(Learnings) /\ (Last.success)' = TRUE
    <3>1. CASE UNCHANGED learned
      BY <2>1, <3>1 DEF RInv, ApprovalRecorded, Last, Learnings
    <3>2. CASE Learn(TRUE, FALSE, FALSE)
      BY <3>2, Learned DEF RInv
    <3> QED
      BY <1>11, <3>1, <3>2 DEF Publish
  <2>5. published' # None
    <3> DEFINE All == Edits \cup UNION {c.work.changed \cup c.work.committed : c \in Cases}
    <3>1. PICK as \in {"patch", "pr"}, files \in {patch, work.committed} :
            published' = [as |-> as, files |-> files]
      BY <1>11 DEF Publish
    <3>2. case \in Cases
      BY DEF Types
    <3>3. files \subseteq Files
      BY <3>1 DEF RInv, Files
    <3>4. Files \subseteq All
      BY <3>2 DEF Files, work
    <3>5. files \in SUBSET All
      BY <3>3, <3>4
    <3> HIDE DEF All
    <3>6. published' \in [as : {"patch", "pr"}, files : SUBSET All]
      BY <3>1, <3>5
    <3> QED
      BY <3>6, NoneAssumption DEF All
  <2>6. /\ review' \in Reviews /\ review'.approved /\ row'.failure = None /\ row'.review = TRUE
        /\ ~review'.degraded => review'.mode = "codex"
    BY <2>1 DEF RInv, ApprovalRecorded
  <2> QED
    BY <2>1, <2>2, <2>3, <2>4, <2>5, <2>6, SuccessRecorded
<1>12. CASE UNCHANGED vars
  BY <1>12, CasesFixed, WorkFiles
     DEF vars, RInv, VerdictsKnown, ApprovalRecorded, RecordsAgree, AcceptedIsDelivered,
         AllAllowed, Over, Last
<1> QED
  BY <1>1, <1>2, <1>3, <1>4, <1>5, <1>6, <1>7, <1>8, <1>9, <1>10, <1>11, <1>12
     DEF Next, Done

LEMMA RecordsInvariance == Spec => [](IInv /\ RInv)
<1>1. Init => IInv /\ RInv
  BY InitIInv, InitRInv
<1>2. IInv /\ RInv /\ [Next]_vars => (IInv /\ RInv)'
  BY NextIInv, NextRInv
<1> QED
  BY <1>1, <1>2, PTL DEF Spec

(* The outcome, the metrics row and what policy learning was told agree at    *)
(* the end of every execution, for any cases, commands, edits and faults      *)
(* (outcomes.py, task_terminal_handlers.py, task_completion_pipeline.py).     *)
THEOREM RecordsOfEndAgree == Spec => []RecordsAgree
<1>1. RInv => RecordsAgree
  BY DEF RInv
<1> QED
  BY <1>1, RecordsInvariance, PTL

(* What the outcome calls accepted was delivered: published after Codex saw   *)
(* it, or an approved answer without changes (outcomes.py).                   *)
THEOREM AcceptanceIsDelivery == Spec => []AcceptedIsDelivered
<1>1. RInv => AcceptedIsDelivered
  BY DEF RInv
<1> QED
  BY <1>1, RecordsInvariance, PTL
=============================================================================
