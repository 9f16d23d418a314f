------------------------ MODULE ApprovalPolicy_proofs ------------------------
(* What it takes to be approved by a learned pattern, for any number of tasks, *)
(* types, paths, overrides, rollbacks, revocations and deaths.                *)
EXTENDS ApprovalPolicy, FiniteSetTheorems, TLAPS

PassedOf(type) == \E u \in Tasks : Passed(u) /\ request[u].type = type

(* What a pattern counts has left its trace in the audit log and in a task.  *)
PatternsAreBacked ==
  \A k \in Keys : pattern[k] # None =>
    /\ events[k].all >= 1
    /\ ~pattern[k].inserted => events[k].all >= 2
    /\ pattern[k].inserted => pattern[k].success <= 1
    /\ pattern[k].success + pattern[k].failure >= 1
    /\ pattern[k].success > 0 => events[k].verified >= 1 /\ PassedOf(k[1])

(* So has what a caller is between its two writes, in a row of its own.      *)
HalvesAreBacked ==
  \A c \in Callers : half[c] =>
    /\ calls[c] # None
    /\ events[calls[c].key].all >= 1
    /\ calls[c].success => events[calls[c].key].verified >= 1
    /\ pattern[calls[c].key] # None => events[calls[c].key].all >= 2
    /\ \A d \in Callers : d # c /\ half[d] /\ calls[d].key = calls[c].key =>
         events[calls[c].key].all >= 2

(* A verified outcome is recorded only for a task that passed.               *)
ClaimsAreTrue ==
  \A c \in Callers : calls[c] # None /\ calls[c].success =>
    PassedOf(calls[c].key[1])

(* An executor records nothing before its task ends, an operator nothing     *)
(* without a rollback.                                                       *)
EarlyCallersAreIdle ==
  \A t \in Tasks :
    /\ phase[t] \in {"new", "waiting", "running"} => calls[<<t, "executor">>] = None
    /\ t \notin rolledBack => calls[<<t, "operator">>] = None

(* What counts as a rollback was not a success.                              *)
RollbacksFail ==
  \A c \in Callers : calls[c] # None /\ calls[c].rollback => ~calls[c].success

TracesInv == RollbacksFail /\ PatternsAreBacked /\ HalvesAreBacked /\ ClaimsAreTrue

IInv == TypeOK /\ TracesInv /\ EarlyCallersAreIdle /\ AutoApprovalIsEarned

-----------------------------------------------------------------------------
(* Operators.                                                                *)

LEMMA UpsertedType ==
  ASSUME NEW p \in Patterns \cup {None}, NEW o \in Outcomes
  PROVE  Upserted(p, o) \in Patterns
BY NoneAssumption DEF Upserted, Patterns, Outcomes, One

LEMMA UpsertedCounts ==
  ASSUME NEW p \in Patterns \cup {None}, NEW o \in Outcomes
  PROVE  /\ Upserted(p, o).inserted <=> p = None
         /\ Upserted(p, o).success + Upserted(p, o).failure >= 1
         /\ Upserted(p, o).inserted => Upserted(p, o).success <= 1
         /\ Upserted(p, o).success > 0 => o.success \/ (p # None /\ p.success > 0)
<1>1. /\ One(o.success) \in Nat /\ One(~o.success) \in Nat
      /\ One(o.success) + One(~o.success) = 1
      /\ One(o.success) > 0 => o.success
  BY DEF One, Outcomes
<1>2. CASE p = None
  <2>1. Upserted(p, o).inserted
    BY <1>2 DEF Upserted
  <2>2. /\ Upserted(p, o).success = 0 + One(o.success)
        /\ Upserted(p, o).failure = 0 + One(~o.success)
    BY <1>2 DEF Upserted
  <2> QED
    BY <1>1, <1>2, <2>1, <2>2
<1>3. CASE p # None
  <2>1. /\ ~Upserted(p, o).inserted
        /\ Upserted(p, o).success = p.success + One(o.success)
        /\ Upserted(p, o).failure = p.failure + One(~o.success)
        /\ p.success \in Nat /\ p.failure \in Nat
    BY <1>3 DEF Upserted, Patterns
  <2> QED
    BY <1>1, <1>3, <2>1
<1> QED
  BY <1>2, <1>3

(* A trusted pattern that counts an outcome counts a verified one.           *)
LEMMA TrustNeedsSuccess ==
  ASSUME NEW p \in Patterns, p.success + p.failure >= 1, Trusted(p)
  PROVE  p.success > 0 /\ ~p.inserted
BY DEF Trusted, Patterns

(* Counting a rollback earns no trust.                                       *)
LEMMA RollbackLowersTrust ==
  ASSUME NEW p \in Patterns \cup {None}, NEW o \in Outcomes, o.rollback,
         ~o.success, p # None /\ p.inserted => p.success <= 1,
         Trusted(Upserted(p, o))
  PROVE  p # None /\ Trusted(p)
BY NoneAssumption DEF Trusted, Upserted, Patterns, Outcomes, One

LEMMA KeyTypes ==
  /\ \A type \in Types : TypeKey(type) \in Keys /\ TypeKey(type)[1] = type
  /\ \A type \in Types, path \in Paths \cup {"no paths"} :
       <<type, path>> \in Keys /\ <<type, path>>[1] = type
  /\ \A k \in Keys : k[1] \in Types
BY DEF Keys, TypeKey

LEMMA CallerTypes ==
  \A t \in Tasks : <<t, "executor">> \in Callers /\ <<t, "operator">> \in Callers
BY DEF Callers

LEMMA RequestTypes ==
  ASSUME NEW r \in Requests
  PROVE  r.type \in Types /\ TypeKey(r.type) \in Keys /\ TypeKey(r.type)[1] = r.type
<1>1. r.type \in Types
  BY PolicyAssumption
<1> QED
  BY <1>1, KeyTypes

-----------------------------------------------------------------------------
(* The invariant holds initially.                                            *)

LEMMA InitIInv == Init => IInv
<1> SUFFICES ASSUME Init PROVE IInv
  OBVIOUS
<1> USE DEF Init
<1>1. TypeOK
  <2>1. phase \in [Tasks -> Phases] /\ mode \in [Tasks -> Modes]
    BY DEF Phases, Modes
  <2>2. /\ by \in [Tasks -> Keys \cup {None}]
        /\ calls \in [Callers -> Outcomes \cup {None}]
        /\ pattern \in [Keys -> Patterns \cup {None}]
    OBVIOUS
  <2>3. /\ half \in [Callers -> BOOLEAN]
        /\ events \in [Keys -> [verified : Nat, all : Nat]]
    OBVIOUS
  <2>4. MaxRevokes \in Nat
    BY PolicyAssumption
  <2>5. revokes \in 0..MaxRevokes
    BY <2>4
  <2> QED
    BY <2>1, <2>2, <2>3, <2>5 DEF TypeOK
<1>2. RollbacksFail /\ HalvesAreBacked /\ ClaimsAreTrue
  BY DEF RollbacksFail, HalvesAreBacked, ClaimsAreTrue
<1>3. PatternsAreBacked
  BY DEF PatternsAreBacked
<1>4. EarlyCallersAreIdle
  BY CallerTypes DEF EarlyCallersAreIdle
<1>5. AutoApprovalIsEarned
  BY DEF AutoApprovalIsEarned
<1> QED
  BY <1>1, <1>2, <1>3, <1>4, <1>5 DEF IInv, TracesInv

-----------------------------------------------------------------------------
(* What steps do to phases and to what is recorded.                          *)

(* Who passed has passed, and requests do not change.                        *)
LEMMA PassedStays ==
  ASSUME TypeOK, [Next]_vars
  PROVE  request' = request /\ \A u \in Tasks : Passed(u) => Passed(u)'
<1> DEFINE Goal == request' = request /\ \A u \in Tasks : Passed(u) => Passed(u)'
<1> USE DEF TypeOK, Passed, decision, learning, others
<1>1. ASSUME NEW t \in Tasks, Gate(t) PROVE Goal
  BY <1>1 DEF Gate, DecideByRule, DecideByPattern, RefuseCommand, Enter
<1>2. ASSUME NEW t \in Tasks, UserDecides(t) PROVE Goal
  BY <1>2 DEF UserDecides
<1>3. ASSUME NEW t \in Tasks, Finish(t) PROVE Goal
  BY <1>3 DEF Finish, Fail, Stop, CompleteReadOnly, PassReview, Publish, End
<1>4. ASSUME NEW t \in Tasks, Rollback(t) \/ Crash(t) PROVE Goal
  BY <1>4 DEF Rollback, Crash
<1>5. ASSUME NEW c \in Callers, RecordEvent(c) \/ UpdatePattern(c) PROVE Goal
  BY <1>5 DEF RecordEvent, UpdatePattern
<1>6. ASSUME NEW k \in Keys, Revoke(k) PROVE Goal
  BY <1>6 DEF Revoke
<1>7. CASE UNCHANGED vars
  BY <1>7 DEF vars
<1> QED
  BY <1>1, <1>2, <1>3, <1>4, <1>5, <1>6, <1>7 DEF Next

(* A caller that was idle gets something to record, or nothing; only a task   *)
(* that has passed claims a success, and no rollback does.                   *)
Takes(c, o) ==
  /\ calls[c] = None
  /\ calls' = [calls EXCEPT ![c] = o]
  /\ o \in Outcomes \cup {None}
  /\ o # None =>
       (o.success => \E u \in Tasks : Passed(u)' /\ request[u].type = o.key[1])
       /\ (o.rollback => ~o.success)
  /\ UNCHANGED <<half, events, pattern>>

LEMMA EndTakes ==
  ASSUME TypeOK, NEW t \in Tasks, calls[<<t, "executor">>] = None,
         NEW to \in Phases, NEW o \in Outcomes \cup {None}, End(t, to, o),
         o # None => /\ o.key[1] = request[t].type
                     /\ o.success => to \in {"learning", "passed"}
                     /\ o.rollback => ~o.success
  PROVE  Takes(<<t, "executor">>, o)
<1>1. phase'[t] = to /\ request \in [Tasks -> Requests]
  BY DEF TypeOK, End
<1>2. o # None /\ o.success => Passed(t)'
  BY <1>1 DEF Passed
<1> QED
  BY <1>1, <1>2 DEF Takes, End, learning

LEMMA OutcomeTypes ==
  ASSUME NEW key \in Keys, NEW s \in BOOLEAN, NEW r \in BOOLEAN
  PROVE  /\ Outcome(key, s, r) \in Outcomes
         /\ Outcome(key, s, r).key = key
         /\ Outcome(key, s, r).success = s
         /\ Outcome(key, s, r).rollback = r
BY DEF Outcome, Outcomes

LEMMA FinishTakes ==
  ASSUME TypeOK, EarlyCallersAreIdle, NEW t \in Tasks, Finish(t)
  PROVE  \E o \in Outcomes \cup {None} : Takes(<<t, "executor">>, o)
<1>0. request[t] \in Requests
  BY DEF TypeOK
<1>1. request[t].type \in Types /\ TypeKey(request[t].type) \in Keys
      /\ TypeKey(request[t].type)[1] = request[t].type
  BY <1>0, RequestTypes
<1>2. phase[t] = "running" => calls[<<t, "executor">>] = None
  BY DEF EarlyCallersAreIdle
<1>3. CASE Fail(t)
  <2>1. PICK to \in {"failed", "ended"}, r \in BOOLEAN :
          End(t, to, Outcome(TypeKey(request[t].type), FALSE, r))
    BY <1>3 DEF Fail
  <2> DEFINE o == Outcome(TypeKey(request[t].type), FALSE, r)
  <2>2. o \in Outcomes /\ o.key[1] = request[t].type /\ ~o.success
    BY <1>1, OutcomeTypes
  <2>3. to \in Phases /\ calls[<<t, "executor">>] = None /\ End(t, to, o)
    BY <2>1, <1>2, <1>3 DEF Fail, Phases
  <2> HIDE DEF o
  <2>4. Takes(<<t, "executor">>, o)
    BY <2>2, <2>3, EndTakes
  <2> QED
    BY <2>2, <2>4
<1>4. CASE Stop(t)
  BY <1>2, <1>4, EndTakes DEF Stop, Phases
<1>5. CASE CompleteReadOnly(t)
  BY <1>1, <1>2, <1>5, EndTakes, OutcomeTypes DEF CompleteReadOnly, Phases
<1>6. CASE PassReview(t)
  <2>1. PICK path \in Paths \cup {"no paths"} :
          End(t, "learning", Outcome(<<request[t].type, path>>, TRUE, FALSE))
    BY <1>6 DEF PassReview
  <2>2. <<request[t].type, path>> \in Keys /\ <<request[t].type, path>>[1] = request[t].type
    BY <1>1, KeyTypes
  <2> DEFINE o == Outcome(<<request[t].type, path>>, TRUE, FALSE)
  <2>3. o \in Outcomes /\ o.key[1] = request[t].type /\ ~o.rollback
    BY <2>2, OutcomeTypes
  <2>4. calls[<<t, "executor">>] = None /\ End(t, "learning", o)
    BY <2>1, <1>2, <1>6 DEF PassReview
  <2> HIDE DEF o
  <2>5. Takes(<<t, "executor">>, o)
    BY <2>3, <2>4, EndTakes DEF Phases
  <2> QED
    BY <2>3, <2>5
<1>7. CASE Publish(t)
  <2>1. CASE End(t, "passed", None)
    BY <2>1, <1>7, EndTakes DEF Publish, Phases
  <2>2. CASE End(t, "pr", Outcome(TypeKey(request[t].type), FALSE, FALSE))
    BY <2>2, <1>1, <1>7, EndTakes, OutcomeTypes DEF Publish, Phases
  <2> QED
    BY <2>1, <2>2, <1>7 DEF Publish
<1> QED
  BY <1>3, <1>4, <1>5, <1>6, <1>7 DEF Finish

LEMMA RefusalTakes ==
  ASSUME TypeOK, EarlyCallersAreIdle, NEW t \in Tasks, RefuseCommand(t)
  PROVE  \E o \in Outcomes \cup {None} : Takes(<<t, "executor">>, o)
<1>1. request[t] \in Requests
  BY DEF TypeOK
<1>2. TypeKey(request[t].type) \in Keys
  BY <1>1, RequestTypes
<1> DEFINE o == Outcome(TypeKey(request[t].type), FALSE, FALSE)
<1>3. o \in Outcomes /\ ~o.success /\ ~o.rollback
  BY <1>2, OutcomeTypes
<1>4. Takes(<<t, "executor">>, o)
  BY <1>3 DEF RefuseCommand, EarlyCallersAreIdle, Takes
<1> QED
  BY <1>3, <1>4

LEMMA RollbackTakes ==
  ASSUME TypeOK, EarlyCallersAreIdle, NEW t \in Tasks, Rollback(t)
  PROVE  \E o \in Outcomes \cup {None} : Takes(<<t, "operator">>, o)
<1>1. TypeKey("routine_coding") \in Keys
  BY PolicyAssumption, KeyTypes
<1> DEFINE o == Outcome(TypeKey("routine_coding"), FALSE, TRUE)
<1>2. o \in Outcomes /\ ~o.success
  BY <1>1, OutcomeTypes
<1>3. Takes(<<t, "operator">>, o)
  BY <1>2 DEF Rollback, EarlyCallersAreIdle, Takes
<1> QED
  BY <1>2, <1>3

-----------------------------------------------------------------------------
(* Types.                                                                    *)

LEMMA DecisionTypes ==
  ASSUME NEW type \in Types, NEW r \in Requests
  PROVE  /\ Suggested(type) \in Modes /\ ByRisk(r) \in Modes
         /\ Overrides[type] \in Modes
<1>1. Overrides[type] \in {"AUTO_SILENT", "AUTO_WITH_SUMMARY", "SOFT_APPROVAL",
                           "HARD_APPROVAL", "BLOCKED", "none"}
  BY PolicyAssumption
<1> QED
  BY <1>1 DEF Suggested, ByRisk, Modes

LEMMA TypeStep == TypeOK /\ EarlyCallersAreIdle /\ [Next]_vars => TypeOK'
<1> SUFFICES ASSUME TypeOK, EarlyCallersAreIdle, [Next]_vars PROVE TypeOK'
  OBVIOUS
<1>1. ASSUME NEW c \in Callers, NEW o \in Outcomes \cup {None}, Takes(c, o)
      PROVE  /\ calls' \in [Callers -> Outcomes \cup {None}]
             /\ half' \in [Callers -> BOOLEAN]
             /\ events' \in [Keys -> [verified : Nat, all : Nat]]
             /\ pattern' \in [Keys -> Patterns \cup {None}]
  BY <1>1 DEF TypeOK, Takes
<1>2. ASSUME NEW t \in Tasks, Gate(t) PROVE TypeOK'
  <2>1. request[t] \in Requests /\ request[t].type \in Types
    BY RequestTypes DEF TypeOK
  <2>2. CASE DecideByRule(t)
    <3>1. PICK m \in Modes : mode' = [mode EXCEPT ![t] = m] /\ Enter(t, m)
      <4> DEFINE m == IF request[t].touches = "forbidden" THEN "BLOCKED"
                      ELSE IF Overrides[request[t].type] # "none" THEN Overrides[request[t].type]
                      ELSE ByRisk(request[t])
      <4>1. m \in Modes
        BY <2>1, DecisionTypes DEF Modes
      <4>2. mode' = [mode EXCEPT ![t] = m] /\ Enter(t, m)
        BY <2>2 DEF DecideByRule
      <4> QED
        BY <4>1, <4>2
    <3>2. mode' \in [Tasks -> Modes] /\ phase' \in [Tasks -> Phases]
      BY <3>1 DEF TypeOK, Enter, Phases
    <3> QED
      BY <3>2, <2>2 DEF TypeOK, DecideByRule, learning, others
  <2>3. CASE DecideByPattern(t)
    <3>1. PICK m \in Modes : mode' = [mode EXCEPT ![t] = m] /\ Enter(t, m)
      BY <2>1, <2>3, DecisionTypes DEF DecideByPattern
    <3>2. mode' \in [Tasks -> Modes] /\ phase' \in [Tasks -> Phases]
      BY <3>1 DEF TypeOK, Enter, Phases
    <3>3. by' \in [Tasks -> Keys \cup {None}]
      BY <2>3 DEF TypeOK, DecideByPattern, Approving
    <3> QED
      BY <3>2, <3>3, <2>3 DEF TypeOK, DecideByPattern, learning, others
  <2>4. CASE RefuseCommand(t)
    <3>1. mode' \in [Tasks -> Modes] /\ phase' \in [Tasks -> Phases]
      BY <2>4 DEF TypeOK, RefuseCommand, Modes, Phases
    <3> QED
      BY <3>1, <2>4, <1>1, RefusalTakes, CallerTypes
      DEF TypeOK, RefuseCommand, others
  <2> QED
    BY <1>2, <2>2, <2>3, <2>4 DEF Gate
<1>3. ASSUME NEW t \in Tasks, UserDecides(t) PROVE TypeOK'
  BY <1>3 DEF TypeOK, UserDecides, Phases, decision, learning, others
<1>4. ASSUME NEW t \in Tasks, Finish(t) PROVE TypeOK'
  <2>1. PICK to \in Phases, o \in Outcomes \cup {None} : End(t, to, o)
    <3>1. PICK o \in Outcomes \cup {None} : Takes(<<t, "executor">>, o)
      BY <1>4, FinishTakes
    <3>2. PICK to \in Phases : \E x : End(t, to, x)
      BY <1>4 DEF Finish, Fail, Stop, CompleteReadOnly, PassReview, Publish, Phases
    <3>3. End(t, to, o)
      BY <3>1, <3>2, CallerTypes DEF TypeOK, Takes, End
    <3> QED
      BY <3>3
  <2> QED
    BY <2>1, CallerTypes DEF TypeOK, End, decision, others
<1>5. ASSUME NEW t \in Tasks, Rollback(t) PROVE TypeOK'
  <2>1. rolledBack' \subseteq Tasks
    BY <1>5 DEF TypeOK, Rollback
  <2> QED
    BY <2>1, <1>5, <1>1, RollbackTakes, CallerTypes DEF TypeOK, Rollback, decision
<1>6. ASSUME NEW t \in Tasks, Crash(t) PROVE TypeOK'
  BY <1>6, CallerTypes DEF TypeOK, Crash, decision
<1>7. ASSUME NEW c \in Callers, RecordEvent(c) PROVE TypeOK'
  <2>1. calls[c] \in Outcomes
    BY <1>7 DEF TypeOK, RecordEvent
  <2>2. calls[c].key \in Keys
    BY <2>1 DEF Outcomes
  <2>3. events' \in [Keys -> [verified : Nat, all : Nat]]
    BY <1>7, <2>2 DEF TypeOK, RecordEvent, One
  <2> QED
    BY <1>7, <2>3 DEF TypeOK, RecordEvent, decision, others
<1>8. ASSUME NEW c \in Callers, UpdatePattern(c) PROVE TypeOK'
  <2>1. calls[c] \in Outcomes
    BY <1>8 DEF TypeOK, UpdatePattern
  <2>2. calls[c].key \in Keys
    BY <2>1 DEF Outcomes
  <2>3. Upserted(pattern[calls[c].key], calls[c]) \in Patterns
    BY <2>1, <2>2, UpsertedType DEF TypeOK
  <2>4. pattern' \in [Keys -> Patterns \cup {None}]
    BY <1>8, <2>2, <2>3 DEF TypeOK, UpdatePattern
  <2> QED
    BY <1>8, <2>4 DEF TypeOK, UpdatePattern, decision, others
<1>9. ASSUME NEW k \in Keys, Revoke(k) PROVE TypeOK'
  <2>1. pattern' \in [Keys -> Patterns \cup {None}]
    <3>1. pattern[k] \in Patterns
      BY <1>9 DEF TypeOK, Revoke
    <3>2. [pattern[k] EXCEPT !.active = FALSE] \in Patterns
      BY <3>1 DEF Patterns
    <3> QED
      BY <1>9, <3>2 DEF TypeOK, Revoke
  <2>2. revokes' \in 0..MaxRevokes
    <3>1. MaxRevokes \in Nat
      BY PolicyAssumption
    <3> QED
      BY <1>9, <3>1 DEF TypeOK, Revoke
  <2> QED
    BY <1>9, <2>1, <2>2 DEF TypeOK, Revoke, decision
<1>10. CASE UNCHANGED vars
  BY <1>10 DEF TypeOK, vars, decision, learning, others
<1> QED
  BY <1>2, <1>3, <1>4, <1>5, <1>6, <1>7, <1>8, <1>9, <1>10 DEF Next

-----------------------------------------------------------------------------
(* Traces of what is counted.                                                *)

LEMMA PassedOfStays ==
  ASSUME TypeOK, [Next]_vars, NEW type, PassedOf(type)
  PROVE  PassedOf(type)'
BY PassedStays DEF PassedOf

LEMMA QuietTraces ==
  ASSUME TypeOK, TracesInv, [Next]_vars, UNCHANGED <<calls, half, events, pattern>>
  PROVE  TracesInv'
<1>1. RollbacksFail' /\ HalvesAreBacked'
  BY DEF TracesInv, RollbacksFail, HalvesAreBacked
<1>2. PatternsAreBacked' /\ ClaimsAreTrue'
  BY PassedOfStays DEF TracesInv, PatternsAreBacked, ClaimsAreTrue
<1> QED
  BY <1>1, <1>2 DEF TracesInv

LEMMA TakesTraces ==
  ASSUME TypeOK, TracesInv, [Next]_vars,
         NEW c \in Callers, NEW o \in Outcomes \cup {None}, Takes(c, o)
  PROVE  TracesInv'
<1> USE DEF TracesInv, TypeOK
<1>1. /\ calls'[c] = o /\ ~half[c]
      /\ \A d \in Callers \ {c} : calls'[d] = calls[d]
      /\ half' = half /\ events' = events /\ pattern' = pattern
  BY DEF Takes, HalvesAreBacked
<1>2. RollbacksFail'
  BY <1>1 DEF RollbacksFail, Takes
<1>3. HalvesAreBacked'
  BY <1>1 DEF HalvesAreBacked
<1>4. PatternsAreBacked'
  BY <1>1, PassedOfStays DEF PatternsAreBacked
<1>5. ClaimsAreTrue'
  <2>1. o # None /\ o.success => PassedOf(o.key[1])'
    BY PassedStays DEF Takes, PassedOf
  <2> QED
    BY <1>1, <2>1, PassedOfStays DEF ClaimsAreTrue
<1> QED
  BY <1>2, <1>3, <1>4, <1>5

LEMMA RecordTraces ==
  ASSUME TypeOK, TracesInv, [Next]_vars, NEW c \in Callers, RecordEvent(c)
  PROVE  TracesInv'
<1> DEFINE key == calls[c].key
<1> USE DEF TracesInv
<1>1. calls[c] \in Outcomes /\ key \in Keys /\ calls' = calls /\ pattern' = pattern
  BY DEF RecordEvent, TypeOK, Outcomes
<1>2. /\ half'[c] /\ \A d \in Callers \ {c} : half'[d] = half[d]
      /\ \A d \in Callers : calls[d] # None => calls[d].key \in Keys
  BY DEF RecordEvent, TypeOK, Outcomes
<1>3. \A k \in Keys :
        /\ events'[k].verified >= events[k].verified /\ events'[k].all >= events[k].all
        /\ events[k].all \in Nat /\ events'[k].all \in Nat
        /\ events[k].verified \in Nat /\ events'[k].verified \in Nat
  BY <1>1 DEF RecordEvent, TypeOK, One
<1>4. /\ events'[key].all = events[key].all + 1
      /\ calls[c].success => events'[key].verified >= 1
  BY <1>1 DEF RecordEvent, TypeOK, One, Outcomes
<1>5. RollbacksFail'
  BY <1>1 DEF RollbacksFail
<1>6. PatternsAreBacked'
  BY <1>1, <1>3, PassedOfStays DEF PatternsAreBacked
<1>7. ClaimsAreTrue'
  BY <1>1, PassedOfStays DEF ClaimsAreTrue
<1>8. HalvesAreBacked'
  <2> SUFFICES ASSUME NEW d \in Callers, half'[d]
               PROVE  /\ calls[d] # None
                      /\ events'[calls[d].key].all >= 1
                      /\ calls[d].success => events'[calls[d].key].verified >= 1
                      /\ pattern[calls[d].key] # None => events'[calls[d].key].all >= 2
                      /\ \A e \in Callers :
                           e # d /\ half'[e] /\ calls[e].key = calls[d].key =>
                             events'[calls[d].key].all >= 2
    BY <1>1 DEF HalvesAreBacked
  <2>1. CASE d = c
    <3>1. pattern[key] # None => events[key].all >= 1
      BY <1>1 DEF PatternsAreBacked
    <3>2. ASSUME NEW e \in Callers, e # c, half'[e], calls[e].key = key
          PROVE  events[key].all >= 1
      BY <3>2, <1>2 DEF HalvesAreBacked
    <3> QED
      BY <2>1, <1>1, <1>2, <1>3, <1>4, <3>1, <3>2 DEF RecordEvent
  <2>2. CASE d # c
    <3>1. half[d] /\ calls[d] # None /\ calls[d].key \in Keys
      BY <2>2, <1>2 DEF HalvesAreBacked
    <3>2. ASSUME NEW e \in Callers, e # d, half'[e], calls[e].key = calls[d].key
          PROVE  events'[calls[d].key].all >= 2
      <4>1. CASE e = c
        BY <4>1, <3>1, <3>2, <1>3, <1>4 DEF HalvesAreBacked
      <4>2. CASE e # c
        BY <4>2, <3>1, <3>2, <1>2, <1>3 DEF HalvesAreBacked
      <4> QED
        BY <4>1, <4>2
    <3>3. /\ events'[calls[d].key].all >= 1
          /\ calls[d].success => events'[calls[d].key].verified >= 1
          /\ pattern[calls[d].key] # None => events'[calls[d].key].all >= 2
      BY <3>1, <1>3 DEF HalvesAreBacked
    <3> QED
      BY <3>1, <3>2, <3>3
  <2> QED
    BY <2>1, <2>2
<1> QED
  BY <1>5, <1>6, <1>7, <1>8

LEMMA UpdateTraces ==
  ASSUME TypeOK, TracesInv, [Next]_vars, NEW c \in Callers, UpdatePattern(c)
  PROVE  TracesInv'
<1> DEFINE key == calls[c].key
           new == Upserted(pattern[key], calls[c])
<1> USE DEF TracesInv
<1>1. calls[c] \in Outcomes /\ key \in Keys /\ events' = events
  BY DEF UpdatePattern, TypeOK, Outcomes
<1>2. /\ calls'[c] = None /\ ~half'[c] /\ half[c]
      /\ \A d \in Callers \ {c} : calls'[d] = calls[d] /\ half'[d] = half[d]
      /\ \A d \in Callers : calls[d] # None => calls[d].key \in Keys
  BY DEF UpdatePattern, TypeOK, Outcomes
<1>3. pattern'[key] = new /\ \A k \in Keys \ {key} : pattern'[k] = pattern[k]
  BY <1>1 DEF UpdatePattern, TypeOK
<1>4. RollbacksFail'
  BY <1>2 DEF RollbacksFail
<1>5. ClaimsAreTrue'
  BY <1>2, PassedOfStays DEF ClaimsAreTrue
<1>6. HalvesAreBacked'
  <2> SUFFICES ASSUME NEW d \in Callers, half'[d]
               PROVE  /\ calls'[d] # None
                      /\ events[calls'[d].key].all >= 1
                      /\ calls'[d].success => events[calls'[d].key].verified >= 1
                      /\ pattern'[calls'[d].key] # None => events[calls'[d].key].all >= 2
                      /\ \A e \in Callers :
                           e # d /\ half'[e] /\ calls'[e].key = calls'[d].key =>
                             events[calls'[d].key].all >= 2
    BY <1>1 DEF HalvesAreBacked
  <2>1. d # c /\ half[d] /\ calls'[d] = calls[d] /\ calls[d] # None
    BY <1>2 DEF HalvesAreBacked
  <2>2. calls[d].key = key => events[calls[d].key].all >= 2
    BY <1>2, <2>1 DEF HalvesAreBacked
  <2>3. calls[d].key # key => pattern'[calls[d].key] = pattern[calls[d].key]
    BY <1>2, <1>3, <2>1
  <2> QED
    BY <1>2, <2>1, <2>2, <2>3 DEF HalvesAreBacked
<1>7. PatternsAreBacked'
  <2> SUFFICES ASSUME NEW k \in Keys, pattern'[k] # None
               PROVE  /\ events[k].all >= 1
                      /\ ~pattern'[k].inserted => events[k].all >= 2
                      /\ pattern'[k].inserted => pattern'[k].success <= 1
                      /\ pattern'[k].success + pattern'[k].failure >= 1
                      /\ pattern'[k].success > 0 =>
                           events[k].verified >= 1 /\ PassedOf(k[1])'
    BY <1>1 DEF PatternsAreBacked
  <2>1. CASE k # key
    BY <2>1, <1>3, PassedOfStays DEF PatternsAreBacked
  <2>2. CASE k = key
    <3>1. /\ events[key].all >= 1
          /\ calls[c].success => events[key].verified >= 1 /\ PassedOf(key[1])
          /\ pattern[key] # None => events[key].all >= 2
      BY <1>2 DEF HalvesAreBacked, ClaimsAreTrue
    <3>2. pattern[key] # None =>
            /\ pattern[key] \in Patterns
            /\ pattern[key].success > 0 => events[key].verified >= 1 /\ PassedOf(key[1])
      BY <1>1 DEF TypeOK, PatternsAreBacked
    <3>3. /\ new.inserted <=> pattern[key] = None
          /\ new.success + new.failure >= 1
          /\ new.inserted => new.success <= 1
          /\ new.success > 0 =>
               calls[c].success \/ (pattern[key] # None /\ pattern[key].success > 0)
      BY <1>1, UpsertedCounts DEF TypeOK
    <3> HIDE DEF new
    <3> QED
      BY <2>2, <1>3, <3>1, <3>2, <3>3, PassedOfStays
  <2> QED
    BY <2>1, <2>2
<1> QED
  BY <1>4, <1>5, <1>6, <1>7

LEMMA RevokeTraces ==
  ASSUME TypeOK, TracesInv, [Next]_vars, NEW key \in Keys, Revoke(key)
  PROVE  TracesInv'
<1> USE DEF TracesInv
<1>1. calls' = calls /\ half' = half /\ events' = events
  BY DEF Revoke
<1>2. \A k \in Keys : pattern'[k] # None =>
        /\ pattern[k] # None
        /\ pattern'[k].success = pattern[k].success
        /\ pattern'[k].failure = pattern[k].failure
        /\ pattern'[k].inserted = pattern[k].inserted
  BY DEF Revoke, TypeOK, Patterns
<1>3. RollbacksFail' /\ ClaimsAreTrue'
  BY <1>1, PassedOfStays DEF RollbacksFail, ClaimsAreTrue
<1>4. PatternsAreBacked'
  BY <1>1, <1>2, PassedOfStays DEF PatternsAreBacked
<1>5. HalvesAreBacked'
  <2>1. \A c \in Callers : half[c] => calls[c].key \in Keys
    BY DEF HalvesAreBacked, TypeOK, Outcomes
  <2> QED
    BY <1>1, <1>2, <2>1 DEF HalvesAreBacked
<1> QED
  BY <1>3, <1>4, <1>5

LEMMA CrashTraces ==
  ASSUME TypeOK, TracesInv, [Next]_vars, NEW t \in Tasks, Crash(t)
  PROVE  TracesInv'
<1> DEFINE c == <<t, "executor">>
<1> USE DEF TracesInv
<1>1. /\ events' = events /\ pattern' = pattern
      /\ calls'[c] = None /\ ~half'[c]
      /\ \A d \in Callers \ {c} : calls'[d] = calls[d] /\ half'[d] = half[d]
  BY CallerTypes DEF Crash, TypeOK
<1> HIDE DEF c
<1>2. RollbacksFail' /\ ClaimsAreTrue'
  BY <1>1, PassedOfStays DEF RollbacksFail, ClaimsAreTrue
<1>3. PatternsAreBacked'
  BY <1>1, PassedOfStays DEF PatternsAreBacked
<1>4. HalvesAreBacked'
  BY <1>1 DEF HalvesAreBacked
<1> QED
  BY <1>2, <1>3, <1>4

LEMMA TracesStep ==
  ASSUME TypeOK, TracesInv, EarlyCallersAreIdle, [Next]_vars
  PROVE  TracesInv'
<1>1. ASSUME NEW t \in Tasks, Gate(t) PROVE TracesInv'
  <2>1. CASE RefuseCommand(t)
    BY <2>1, RefusalTakes, TakesTraces, CallerTypes
  <2>2. CASE DecideByRule(t) \/ DecideByPattern(t)
    BY <2>2, QuietTraces DEF DecideByRule, DecideByPattern, learning
  <2> QED
    BY <1>1, <2>1, <2>2 DEF Gate
<1>2. ASSUME NEW t \in Tasks, UserDecides(t) PROVE TracesInv'
  BY <1>2, QuietTraces DEF UserDecides, learning
<1>3. ASSUME NEW t \in Tasks, Finish(t) PROVE TracesInv'
  BY <1>3, FinishTakes, TakesTraces, CallerTypes
<1>4. ASSUME NEW t \in Tasks, Rollback(t) PROVE TracesInv'
  BY <1>4, RollbackTakes, TakesTraces, CallerTypes
<1>5. CASE UNCHANGED vars
  BY <1>5, QuietTraces DEF vars
<1> QED
  BY <1>1, <1>2, <1>3, <1>4, <1>5, RecordTraces, UpdateTraces, RevokeTraces,
     CrashTraces DEF Next

-----------------------------------------------------------------------------
(* Callers, and the approvals.                                               *)

LEMMA IdleStep ==
  ASSUME TypeOK, EarlyCallersAreIdle, [Next]_vars
  PROVE  EarlyCallersAreIdle'
<1> USE DEF TypeOK, EarlyCallersAreIdle
<1>1. ASSUME NEW t \in Tasks, Gate(t) PROVE EarlyCallersAreIdle'
  <2>1. CASE RefuseCommand(t)
    BY <2>1, CallerTypes DEF RefuseCommand, others
  <2>2. CASE DecideByRule(t) \/ DecideByPattern(t)
    BY <2>2, CallerTypes DEF DecideByRule, DecideByPattern, Enter, learning, others
  <2> QED
    BY <1>1, <2>1, <2>2 DEF Gate
<1>2. ASSUME NEW t \in Tasks, UserDecides(t) PROVE EarlyCallersAreIdle'
  BY <1>2 DEF UserDecides, learning, others
<1>3. ASSUME NEW t \in Tasks, Finish(t) PROVE EarlyCallersAreIdle'
  <2>1. PICK to, o : to \notin {"new", "waiting", "running"} /\ End(t, to, o)
    BY <1>3 DEF Finish, Fail, Stop, CompleteReadOnly, PassReview, Publish, Phases
  <2> QED
    BY <2>1, CallerTypes DEF End, others
<1>4. ASSUME NEW t \in Tasks, Rollback(t) PROVE EarlyCallersAreIdle'
  BY <1>4, CallerTypes DEF Rollback
<1>5. ASSUME NEW t \in Tasks, Crash(t) PROVE EarlyCallersAreIdle'
  BY <1>5, CallerTypes DEF Crash
<1>6. ASSUME NEW c \in Callers, RecordEvent(c) PROVE EarlyCallersAreIdle'
  BY <1>6 DEF RecordEvent, others
<1>7. ASSUME NEW c \in Callers, UpdatePattern(c) PROVE EarlyCallersAreIdle'
  BY <1>7, CallerTypes DEF UpdatePattern, others
<1>8. ASSUME NEW k \in Keys, Revoke(k) PROVE EarlyCallersAreIdle'
  BY <1>8 DEF Revoke
<1>9. CASE UNCHANGED vars
  BY <1>9 DEF vars, learning, others
<1> QED
  BY <1>1, <1>2, <1>3, <1>4, <1>5, <1>6, <1>7, <1>8, <1>9 DEF Next

(* Only a decision by a pattern changes "by", and no event is ever deleted.  *)
LEMMA DecidersAndEvents ==
  ASSUME TypeOK, [Next]_vars
  PROVE  /\ \/ by' = by
            \/ /\ UNCHANGED <<events, request>>
               /\ \E t \in Tasks : \E key \in Approving(request[t].type) :
                    phase[t] = "new" /\ by' = [by EXCEPT ![t] = key]
         /\ \A k \in Keys : /\ events'[k].verified >= events[k].verified
                            /\ events'[k].all >= events[k].all
<1> DEFINE Kept == by' = by /\ events' = events
           Grown == \A k \in Keys : /\ events'[k].verified >= events[k].verified
                                    /\ events'[k].all >= events[k].all
<1>1. UNCHANGED events => Grown
  BY DEF TypeOK
<1>2. ASSUME NEW t \in Tasks, Gate(t)
      PROVE  Kept \/ DecideByPattern(t)
  BY <1>2 DEF Gate, DecideByRule, RefuseCommand, learning
<1>3. ASSUME NEW t \in Tasks, UserDecides(t) \/ Finish(t) \/ Rollback(t) \/ Crash(t)
      PROVE  Kept
  BY <1>3 DEF UserDecides, Rollback, Crash, Finish, Fail, Stop, CompleteReadOnly,
              PassReview, Publish, End, decision, learning
<1>4. ASSUME NEW c \in Callers, UpdatePattern(c) PROVE Kept
  BY <1>4 DEF UpdatePattern, decision
<1>5. ASSUME NEW k \in Keys, Revoke(k) PROVE Kept
  BY <1>5 DEF Revoke, decision
<1>6. ASSUME NEW c \in Callers, RecordEvent(c) PROVE by' = by /\ Grown
  <2>1. calls[c] \in Outcomes
    BY <1>6 DEF TypeOK, RecordEvent
  <2>2. calls[c].key \in Keys
    BY <2>1 DEF Outcomes
  <2> QED
    BY <1>6, <2>2 DEF TypeOK, RecordEvent, One, decision
<1>7. ASSUME UNCHANGED vars PROVE Kept
  BY <1>7 DEF vars, decision, learning
<1>8. ASSUME NEW t \in Tasks, DecideByPattern(t)
      PROVE  /\ UNCHANGED <<events, request>> /\ phase[t] = "new"
             /\ \E key \in Approving(request[t].type) : by' = [by EXCEPT ![t] = key]
  BY <1>8 DEF DecideByPattern, learning
<1>9. (by' = by /\ Grown) \/ \E t \in Tasks : DecideByPattern(t)
  <2> HIDE DEF Grown
  <2> QED
    BY <1>1, <1>2, <1>3, <1>4, <1>5, <1>6, <1>7 DEF Next
<1> QED
  BY <1>1, <1>8, <1>9

LEMMA EarnedStep ==
  ASSUME IInv, [Next]_vars
  PROVE  AutoApprovalIsEarned'
<1> USE DEF IInv, TracesInv
<1>1. ASSUME NEW t \in Tasks, by'[t] # None, by'[t] = by[t]
      PROVE  /\ \E u \in Tasks \ {t} : Passed(u)' /\ request'[u].type = request'[t].type
             /\ events'[by'[t]].verified >= 1 /\ events'[by'[t]].all >= 2
  <2>1. PICK u \in Tasks \ {t} : Passed(u) /\ request[u].type = request[t].type
    BY <1>1 DEF AutoApprovalIsEarned
  <2>2. Passed(u)' /\ request' = request
    BY <2>1, PassedStays
  <2>3. by[t] \in Keys /\ events[by[t]].verified >= 1 /\ events[by[t]].all >= 2
    BY <1>1 DEF AutoApprovalIsEarned, TypeOK
  <2>4. /\ events'[by[t]].verified >= events[by[t]].verified
        /\ events'[by[t]].all >= events[by[t]].all
    BY <2>3, DecidersAndEvents
  <2>5. /\ events[by[t]] \in [verified : Nat, all : Nat]
        /\ events'[by[t]] \in [verified : Nat, all : Nat]
    BY <2>3, TypeStep DEF TypeOK
  <2> QED
    BY <1>1, <2>1, <2>2, <2>3, <2>4, <2>5
<1>2. CASE by' = by
  BY <1>1, <1>2 DEF AutoApprovalIsEarned
<1>3. ASSUME NEW t \in Tasks, NEW key \in Approving(request[t].type),
             phase[t] = "new", by' = [by EXCEPT ![t] = key],
             UNCHANGED <<events, request>>
      PROVE  AutoApprovalIsEarned'
  <2>1. /\ key \in Keys /\ key[1] = request[t].type /\ pattern[key] \in Patterns
        /\ Trusted(pattern[key])
    BY <1>3 DEF Approving, Approves, TypeOK
  <2>2. pattern[key].success + pattern[key].failure >= 1
    BY <2>1, NoneAssumption DEF PatternsAreBacked
  <2>3. pattern[key].success > 0 /\ ~pattern[key].inserted
    BY <2>1, <2>2, TrustNeedsSuccess
  <2>4. events[key].verified >= 1 /\ events[key].all >= 2 /\ PassedOf(request[t].type)
    BY <2>1, <2>3, NoneAssumption DEF PatternsAreBacked
  <2>5. PICK u \in Tasks : Passed(u) /\ request[u].type = request[t].type
    BY <2>4 DEF PassedOf
  <2>6. u # t
    BY <1>3, <2>5 DEF Passed
  <2>7. /\ \E v \in Tasks \ {t} : Passed(v)' /\ request'[v].type = request'[t].type
        /\ events'[key].verified >= 1 /\ events'[key].all >= 2
    BY <1>3, <2>4, <2>5, <2>6, PassedStays
  <2>8. by'[t] = key /\ \A s \in Tasks \ {t} : by'[s] = by[s]
    BY <1>3 DEF TypeOK
  <2> QED
    BY <1>1, <2>7, <2>8 DEF AutoApprovalIsEarned
<1> QED
  BY <1>2, <1>3, DecidersAndEvents

-----------------------------------------------------------------------------
(* The results.                                                              *)

LEMMA Invariant == Spec => []IInv
<1>1. IInv /\ [Next]_vars => IInv'
  BY TypeStep, TracesStep, IdleStep, EarnedStep DEF IInv
<1> QED
  BY InitIInv, <1>1, PTL DEF Spec

(* Every reachable state of the policy has its types.                        *)
THEOREM TypeCorrect == Spec => []TypeOK
BY Invariant, PTL DEF IInv

(* A learned pattern approves a task only after another task of that type     *)
(* passed tests and review and the audit log shows two outcomes of the        *)
(* pattern, one of them verified: whatever the interleaving of the decisions, *)
(* the two writes of every outcome, rollbacks, revocations and deaths.        *)
THEOREM ApprovalsAreEarned == Spec => []AutoApprovalIsEarned
BY Invariant, PTL DEF IInv

(* What is dangerous is refused, whatever was learned, overridden or decided  *)
(* by a user before (approval_graph.py, approval_policy_service.py).          *)
THEOREM DangersAreRefused == Spec => []DangerNeverRuns
<1> DEFINE Dangerous(t) == request[t].touches \in {"command", "forbidden"}
<1>1. Init => DangerNeverRuns
  BY DEF Init, DangerNeverRuns
<1>2. TypeOK /\ DangerNeverRuns /\ [Next]_vars => DangerNeverRuns'
  <2> SUFFICES ASSUME TypeOK, DangerNeverRuns, [Next]_vars PROVE DangerNeverRuns'
    OBVIOUS
  <2> USE DEF TypeOK, DangerNeverRuns
  <2>1. CASE UNCHANGED <<phase, request>>
    BY <2>1
  <2>2. ASSUME NEW t \in Tasks, NEW to, ~Dangerous(t),
               phase' = [phase EXCEPT ![t] = to], request' = request
        PROVE  DangerNeverRuns'
    BY <2>2
  <2>3. ASSUME NEW t \in Tasks, Dangerous(t), UNCHANGED request,
               \/ phase' = [phase EXCEPT ![t] = "ended"]
               \/ phase' = [phase EXCEPT ![t] = "failed"]
        PROVE  DangerNeverRuns'
    BY <2>3
  <2>4. ASSUME NEW t \in Tasks, Gate(t) PROVE DangerNeverRuns'
    <3>1. CASE DecideByRule(t)
      <4>1. CASE Dangerous(t)
        <5>1. request[t].touches = "forbidden"
          BY <3>1, <4>1 DEF DecideByRule
        <5>2. Enter(t, "BLOCKED") /\ UNCHANGED request
          BY <3>1, <5>1 DEF DecideByRule
        <5>3. phase' = [phase EXCEPT ![t] = "ended"]
          BY <5>2 DEF Enter
        <5> QED
          BY <2>3, <4>1, <5>2, <5>3
      <4>2. CASE ~Dangerous(t)
        <5>1. UNCHANGED request /\ \E m : Enter(t, m)
          BY <3>1 DEF DecideByRule
        <5> QED
          BY <2>2, <4>2, <5>1 DEF Enter
      <4> QED
        BY <4>1, <4>2
    <3>2. CASE DecideByPattern(t)
      BY <2>2, <3>2 DEF DecideByPattern, Enter
    <3>3. CASE RefuseCommand(t)
      BY <2>3, <3>3 DEF RefuseCommand
    <3> QED
      BY <2>4, <3>1, <3>2, <3>3 DEF Gate
  <2>5. ASSUME NEW t \in Tasks, UserDecides(t) \/ Finish(t) PROVE DangerNeverRuns'
    <3>1. phase[t] \in {"waiting", "running", "learning"} /\ UNCHANGED request
      BY <2>5 DEF UserDecides, Finish, Fail, Stop, CompleteReadOnly, PassReview, Publish, End,
         decision
    <3>2. ~Dangerous(t)
      BY <3>1
    <3>3. \E to : phase' = [phase EXCEPT ![t] = to]
      BY <2>5 DEF UserDecides, Finish, Fail, Stop, CompleteReadOnly, PassReview, Publish, End
    <3> QED
      BY <2>2, <3>1, <3>2, <3>3
  <2>6. ASSUME NEW t \in Tasks, Rollback(t) \/ Crash(t) PROVE DangerNeverRuns'
    BY <2>1, <2>6 DEF Rollback, Crash, decision
  <2>7. ASSUME NEW c \in Callers, RecordEvent(c) \/ UpdatePattern(c) PROVE DangerNeverRuns'
    BY <2>1, <2>7 DEF RecordEvent, UpdatePattern, decision
  <2>8. ASSUME NEW key \in Keys, Revoke(key) PROVE DangerNeverRuns'
    BY <2>1, <2>8 DEF Revoke, decision
  <2>9. CASE UNCHANGED vars
    BY <2>1, <2>9 DEF vars, decision
  <2> QED
    BY <2>4, <2>5, <2>6, <2>7, <2>8, <2>9 DEF Next
<1> QED
  BY <1>1, <1>2, TypeCorrect, PTL DEF Spec

(* An outcome that counts as a rollback makes no pattern trusted that was     *)
(* not, not even one that leaves the score of its insert.                    *)
THEOREM RollbacksEarnNothing == Spec => RollbackEarnsNothing
<1> DEFINE Act == \A c \in Callers :
                    UpdatePattern(c) /\ calls[c].rollback => TrustedKeys' \subseteq TrustedKeys
<1>1. IInv /\ [Next]_vars => [Act]_vars
  <2> SUFFICES ASSUME IInv, [Next]_vars, NEW c \in Callers, UpdatePattern(c),
                      calls[c].rollback, NEW k \in TrustedKeys'
               PROVE  k \in TrustedKeys
    OBVIOUS
  <2> USE DEF IInv, TracesInv, TypeOK
  <2>1. calls[c] \in Outcomes /\ ~calls[c].success
    BY DEF UpdatePattern, RollbacksFail
  <2>2. k \in Keys /\ pattern'[k] # None /\ Trusted(pattern'[k])
    BY DEF TrustedKeys, Trusted
  <2>3. CASE k # calls[c].key
    BY <2>2, <2>3 DEF UpdatePattern, TrustedKeys
  <2>4. CASE k = calls[c].key
    <3>1. pattern'[k] = Upserted(pattern[k], calls[c])
      BY <2>2, <2>4 DEF UpdatePattern
    <3>2. pattern[k] # None /\ pattern[k].inserted => pattern[k].success <= 1
      BY <2>2 DEF PatternsAreBacked
    <3> QED
      BY <2>1, <2>2, <3>1, <3>2, RollbackLowersTrust DEF TrustedKeys
  <2> QED
    BY <2>3, <2>4
<1> QED
  BY Invariant, <1>1, PTL DEF Spec, RollbackEarnsNothing
-----------------------------------------------------------------------------
(* What patterns count, with the outcomes that are between their two writes,  *)
(* is what the audit log shows; what a death takes away is missing.          *)

Counted(k) == IF pattern[k] = None THEN 0 ELSE pattern[k].success + pattern[k].failure
Succeeded(k) == IF pattern[k] = None THEN 0 ELSE pattern[k].success

InFlight(k) == {c \in Callers : half[c] /\ calls[c].key = k}
VerifiedInFlight(k) == {c \in InFlight(k) : calls[c].success}

CountsAdd ==
  \A k \in Keys :
    /\ Counted(k) + Cardinality(InFlight(k)) <= events[k].all
    /\ Succeeded(k) + Cardinality(VerifiedInFlight(k)) <= events[k].verified
    /\ dead = {} =>
         /\ Counted(k) + Cardinality(InFlight(k)) = events[k].all
         /\ Succeeded(k) + Cardinality(VerifiedInFlight(k)) = events[k].verified

LEMMA CountTypes ==
  ASSUME TypeOK, IsFiniteSet(Tasks), NEW k \in Keys
  PROVE  /\ Counted(k) \in Nat /\ Succeeded(k) \in Nat
         /\ events[k].all \in Nat /\ events[k].verified \in Nat
         /\ IsFiniteSet(InFlight(k)) /\ IsFiniteSet(VerifiedInFlight(k))
         /\ Cardinality(InFlight(k)) \in Nat /\ Cardinality(VerifiedInFlight(k)) \in Nat
<1>1. IsFiniteSet({"executor", "operator"})
  <2>1. IsFiniteSet({} \cup {"executor"})
    BY FS_EmptySet, FS_AddElement
  <2>2. IsFiniteSet(({} \cup {"executor"}) \cup {"operator"})
    BY <2>1, FS_AddElement
  <2>3. ({} \cup {"executor"}) \cup {"operator"} = {"executor", "operator"}
    OBVIOUS
  <2> QED
    BY <2>2, <2>3
<1>2. IsFiniteSet(Callers)
  BY <1>1, FS_Product DEF Callers
<1>3. IsFiniteSet(InFlight(k)) /\ IsFiniteSet(VerifiedInFlight(k))
  <2>1. InFlight(k) \in SUBSET Callers /\ VerifiedInFlight(k) \in SUBSET Callers
    BY DEF InFlight, VerifiedInFlight
  <2> QED
    BY <1>2, <2>1, FS_Subset
<1>4. Cardinality(InFlight(k)) \in Nat /\ Cardinality(VerifiedInFlight(k)) \in Nat
  BY <1>3, FS_CardinalityType
<1>5. pattern[k] \in Patterns \cup {None} /\ events[k] \in [verified : Nat, all : Nat]
  BY DEF TypeOK
<1>6. Counted(k) \in Nat /\ Succeeded(k) \in Nat
  BY <1>5 DEF Counted, Succeeded, Patterns
<1> QED
  BY <1>3, <1>4, <1>5, <1>6

(* Most steps touch nothing that is in flight.                               *)
LEMMA CountsStay ==
  ASSUME CountsAdd, UNCHANGED <<half, events>>, dead' = {} => dead = {},
         \A k \in Keys : Counted(k)' = Counted(k) /\ Succeeded(k)' = Succeeded(k),
         \A c \in Callers : half[c] => calls'[c] = calls[c]
  PROVE  CountsAdd'
<1>1. \A k \in Keys : InFlight(k)' = InFlight(k) /\ VerifiedInFlight(k)' = VerifiedInFlight(k)
  BY DEF InFlight, VerifiedInFlight
<1> QED
  BY <1>1 DEF CountsAdd

LEMMA RecordCounts ==
  ASSUME IInv, CountsAdd, IsFiniteSet(Tasks), NEW c \in Callers, RecordEvent(c)
  PROVE  CountsAdd'
<1> DEFINE o == calls[c]
<1>1. TypeOK /\ o \in Outcomes /\ o.key \in Keys /\ o.success \in BOOLEAN
  BY DEF IInv, TypeOK, RecordEvent, Outcomes
<1>2. SUFFICES ASSUME NEW k \in Keys
               PROVE  /\ Counted(k)' + Cardinality(InFlight(k)') <= events'[k].all
                      /\ Succeeded(k)' + Cardinality(VerifiedInFlight(k)') <= events'[k].verified
                      /\ dead' = {} =>
                           /\ Counted(k)' + Cardinality(InFlight(k)') = events'[k].all
                           /\ Succeeded(k)' + Cardinality(VerifiedInFlight(k)')
                                = events'[k].verified
  BY DEF CountsAdd
<1>3. Counted(k)' = Counted(k) /\ Succeeded(k)' = Succeeded(k) /\ dead' = dead
  BY DEF RecordEvent, Counted, Succeeded, others
<1>4. c \notin InFlight(k) /\ c \notin VerifiedInFlight(k)
  BY DEF RecordEvent, InFlight, VerifiedInFlight
<1>5. CASE k = o.key
  <2>1. InFlight(k)' = InFlight(k) \cup {c}
    BY <1>1, <1>5 DEF RecordEvent, InFlight, IInv, TypeOK
  <2>2. VerifiedInFlight(k)' = IF o.success THEN VerifiedInFlight(k) \cup {c}
                                            ELSE VerifiedInFlight(k)
    BY <1>1, <1>5, <2>1 DEF RecordEvent, VerifiedInFlight, InFlight, IInv, TypeOK
  <2>3. /\ Cardinality(InFlight(k)') = Cardinality(InFlight(k)) + 1
        /\ Cardinality(VerifiedInFlight(k)')
             = Cardinality(VerifiedInFlight(k)) + (IF o.success THEN 1 ELSE 0)
    <3>1. IsFiniteSet(InFlight(k)) /\ IsFiniteSet(VerifiedInFlight(k))
      BY <1>1, CountTypes
    <3>2. /\ Cardinality(InFlight(k) \cup {c}) = Cardinality(InFlight(k)) + 1
          /\ Cardinality(VerifiedInFlight(k) \cup {c}) = Cardinality(VerifiedInFlight(k)) + 1
      BY <1>4, <3>1, FS_AddElement
    <3>3. Cardinality(VerifiedInFlight(k)) \in Nat
      BY <1>1, CountTypes
    <3> HIDE DEF InFlight, VerifiedInFlight, o
    <3> QED
      BY <1>1, <2>1, <2>2, <3>2, <3>3
  <2>4. /\ events'[k].all = events[k].all + 1
        /\ events'[k].verified = events[k].verified + (IF o.success THEN 1 ELSE 0)
    BY <1>1, <1>5 DEF RecordEvent, One, IInv, TypeOK
  <2> HIDE DEF o
  <2> QED
    BY <1>1, <1>3, <2>3, <2>4, CountTypes DEF CountsAdd
<1>6. CASE k # o.key
  <2>1. InFlight(k)' = InFlight(k)
    BY <1>1, <1>6 DEF RecordEvent, InFlight, IInv, TypeOK
  <2>2. VerifiedInFlight(k)' = VerifiedInFlight(k)
    BY <2>1 DEF RecordEvent, VerifiedInFlight
  <2>3. events'[k] = events[k]
    BY <1>1, <1>6 DEF RecordEvent, IInv, TypeOK
  <2> QED
    BY <1>3, <2>1, <2>2, <2>3 DEF CountsAdd
<1> QED
  BY <1>5, <1>6

LEMMA UpdateCounts ==
  ASSUME IInv, CountsAdd, IsFiniteSet(Tasks), NEW c \in Callers, UpdatePattern(c)
  PROVE  CountsAdd'
<1> DEFINE o == calls[c]
<1>1. TypeOK /\ o \in Outcomes /\ o.key \in Keys /\ o.success \in BOOLEAN
  BY DEF IInv, TypeOK, UpdatePattern, Outcomes
<1>2. SUFFICES ASSUME NEW k \in Keys
               PROVE  /\ Counted(k)' + Cardinality(InFlight(k)') <= events'[k].all
                      /\ Succeeded(k)' + Cardinality(VerifiedInFlight(k)') <= events'[k].verified
                      /\ dead' = {} =>
                           /\ Counted(k)' + Cardinality(InFlight(k)') = events'[k].all
                           /\ Succeeded(k)' + Cardinality(VerifiedInFlight(k)')
                                = events'[k].verified
  BY DEF CountsAdd
<1>3. events' = events /\ dead' = dead
  BY DEF UpdatePattern, others
<1>4. CASE k = o.key
  <2>1. c \in InFlight(k) /\ InFlight(k)' = InFlight(k) \ {c}
    BY <1>1, <1>4 DEF UpdatePattern, InFlight, IInv, TypeOK
  <2>2. /\ c \in VerifiedInFlight(k) <=> o.success
        /\ VerifiedInFlight(k)' = VerifiedInFlight(k) \ {c}
    BY <1>1, <1>4, <2>1 DEF UpdatePattern, VerifiedInFlight, InFlight, IInv, TypeOK
  <2>3. /\ Cardinality(InFlight(k)') = Cardinality(InFlight(k)) - 1
        /\ Cardinality(VerifiedInFlight(k)')
             = Cardinality(VerifiedInFlight(k)) - (IF o.success THEN 1 ELSE 0)
    <3>1. IsFiniteSet(InFlight(k)) /\ IsFiniteSet(VerifiedInFlight(k))
      BY <1>1, CountTypes
    <3>2. Cardinality(VerifiedInFlight(k)) \in Nat
      BY <1>1, CountTypes
    <3>3. Cardinality(InFlight(k) \ {c}) = Cardinality(InFlight(k)) - 1
      BY <2>1, <3>1, FS_RemoveElement
    <3>4. Cardinality(VerifiedInFlight(k) \ {c})
            = IF o.success THEN Cardinality(VerifiedInFlight(k)) - 1
                           ELSE Cardinality(VerifiedInFlight(k))
      BY <2>2, <3>1, FS_RemoveElement
    <3> HIDE DEF InFlight, VerifiedInFlight, o
    <3> QED
      BY <1>1, <2>1, <2>2, <3>2, <3>3, <3>4
  <2>4. /\ Counted(k)' = Counted(k) + 1
        /\ Succeeded(k)' = Succeeded(k) + (IF o.success THEN 1 ELSE 0)
    <3>1. pattern'[k] = Upserted(pattern[k], o) /\ pattern[k] \in Patterns \cup {None}
      BY <1>1, <1>4 DEF UpdatePattern, IInv, TypeOK
    <3>2. pattern'[k] # None
      BY <1>1, <3>1, UpsertedType, NoneAssumption
    <3> HIDE DEF o
    <3>3. CASE pattern[k] = None
      BY <1>1, <3>1, <3>2, <3>3 DEF Counted, Succeeded, Upserted, One
    <3>4. CASE pattern[k] # None
      BY <1>1, <3>1, <3>2, <3>4 DEF Counted, Succeeded, Upserted, One, Patterns
    <3> QED
      BY <3>3, <3>4
  <2> HIDE DEF o
  <2> QED
    BY <1>1, <1>3, <2>3, <2>4, CountTypes DEF CountsAdd
<1>5. CASE k # o.key
  <2>1. InFlight(k)' = InFlight(k)
    BY <1>1, <1>5 DEF UpdatePattern, InFlight, IInv, TypeOK
  <2>2. VerifiedInFlight(k)' = VerifiedInFlight(k)
    BY <1>1, <1>5, <2>1 DEF UpdatePattern, VerifiedInFlight, InFlight, IInv, TypeOK
  <2>3. Counted(k)' = Counted(k) /\ Succeeded(k)' = Succeeded(k)
    BY <1>1, <1>5 DEF UpdatePattern, Counted, Succeeded, IInv, TypeOK
  <2> QED
    BY <1>3, <2>1, <2>2, <2>3 DEF CountsAdd
<1> QED
  BY <1>4, <1>5

(* A death takes an outcome out of flight that its pattern never counts.     *)
LEMMA CrashCounts ==
  ASSUME IInv, CountsAdd, IsFiniteSet(Tasks), NEW t \in Tasks, Crash(t)
  PROVE  CountsAdd'
<1> DEFINE c == <<t, "executor">>
<1>1. TypeOK /\ c \in Callers
  BY CallerTypes DEF IInv
<1>2. SUFFICES ASSUME NEW k \in Keys
               PROVE  /\ Counted(k)' + Cardinality(InFlight(k)') <= events'[k].all
                      /\ Succeeded(k)' + Cardinality(VerifiedInFlight(k)') <= events'[k].verified
                      /\ dead' # {}
  BY DEF CountsAdd
<1>3. events' = events /\ pattern' = pattern /\ dead' # {}
  BY DEF Crash
<1>4. Counted(k)' = Counted(k) /\ Succeeded(k)' = Succeeded(k)
  BY <1>3 DEF Counted, Succeeded
<1>5. InFlight(k)' \in SUBSET InFlight(k)
  BY <1>1 DEF Crash, InFlight, TypeOK
<1>6. VerifiedInFlight(k)' \in SUBSET VerifiedInFlight(k)
  BY <1>1, <1>5 DEF Crash, VerifiedInFlight, InFlight, TypeOK
<1>7. /\ IsFiniteSet(InFlight(k)) /\ IsFiniteSet(VerifiedInFlight(k))
  BY <1>1, CountTypes
<1>8. /\ Cardinality(InFlight(k)') <= Cardinality(InFlight(k))
      /\ Cardinality(VerifiedInFlight(k)') <= Cardinality(VerifiedInFlight(k))
      /\ Cardinality(InFlight(k)') \in Nat /\ Cardinality(VerifiedInFlight(k)') \in Nat
  BY <1>5, <1>6, <1>7, FS_Subset, FS_CardinalityType
<1> QED
  BY <1>1, <1>3, <1>4, <1>8, CountTypes DEF CountsAdd

LEMMA CountsStep ==
  ASSUME IInv, CountsAdd, IsFiniteSet(Tasks), [Next]_vars
  PROVE  CountsAdd'
<1>1. ASSUME pattern' = pattern
      PROVE  \A k \in Keys : Counted(k)' = Counted(k) /\ Succeeded(k)' = Succeeded(k)
  BY <1>1 DEF Counted, Succeeded
<1>2. ASSUME NEW c \in Callers, NEW o, Takes(c, o), dead' = dead PROVE CountsAdd'
  <2>1. \A d \in Callers : half[d] => calls'[d] = calls[d]
    BY <1>2 DEF IInv, TracesInv, TypeOK, Takes, HalvesAreBacked
  <2> QED
    BY <1>1, <1>2, <2>1, CountsStay DEF Takes
<1>3. ASSUME UNCHANGED <<learning, dead>> PROVE CountsAdd'
  BY <1>1, <1>3, CountsStay DEF learning
<1>4. ASSUME NEW t \in Tasks, Gate(t) PROVE CountsAdd'
  <2>1. CASE DecideByRule(t) \/ DecideByPattern(t)
    BY <1>3, <2>1 DEF DecideByRule, DecideByPattern, others
  <2>2. CASE RefuseCommand(t)
    <3>1. dead' = dead
      BY <2>2 DEF RefuseCommand, others
    <3> QED
      BY <1>2, <2>2, <3>1, RefusalTakes, CallerTypes DEF IInv
  <2> QED
    BY <1>4, <2>1, <2>2 DEF Gate
<1>5. ASSUME NEW t \in Tasks, UserDecides(t) PROVE CountsAdd'
  BY <1>3, <1>5 DEF UserDecides, others
<1>6. ASSUME NEW t \in Tasks, Finish(t) PROVE CountsAdd'
  <2>1. dead' = dead
    BY <1>6 DEF Finish, Fail, Stop, CompleteReadOnly, PassReview, Publish, End, others
  <2>2. PICK o \in Outcomes \cup {None} : Takes(<<t, "executor">>, o)
    BY <1>6, FinishTakes DEF IInv
  <2>3. <<t, "executor">> \in Callers
    BY CallerTypes
  <2> QED
    BY <1>2, <2>1, <2>2, <2>3
<1>7. ASSUME NEW t \in Tasks, Rollback(t) PROVE CountsAdd'
  <2>1. dead' = dead
    BY <1>7 DEF Rollback
  <2> QED
    BY <1>2, <1>7, <2>1, RollbackTakes, CallerTypes DEF IInv
<1>8. ASSUME NEW t \in Tasks, Crash(t) PROVE CountsAdd'
  BY <1>8, CrashCounts
<1>9. ASSUME NEW c \in Callers, RecordEvent(c) \/ UpdatePattern(c) PROVE CountsAdd'
  BY <1>9, RecordCounts, UpdateCounts
<1>10. ASSUME NEW key \in Keys, Revoke(key) PROVE CountsAdd'
  <2>1. \A k \in Keys : Counted(k)' = Counted(k) /\ Succeeded(k)' = Succeeded(k)
    <3> SUFFICES ASSUME NEW k \in Keys
                 PROVE  Counted(k)' = Counted(k) /\ Succeeded(k)' = Succeeded(k)
      OBVIOUS
    <3>1. pattern[key] \in Patterns /\ pattern'[key] = [pattern[key] EXCEPT !.active = FALSE]
      BY <1>10 DEF Revoke, IInv, TypeOK
    <3>2. /\ pattern'[key] # None /\ pattern[key] # None
          /\ pattern'[key].success = pattern[key].success
          /\ pattern'[key].failure = pattern[key].failure
      BY <3>1, NoneAssumption DEF Patterns
    <3>3. k # key => pattern'[k] = pattern[k]
      BY <1>10 DEF Revoke, IInv, TypeOK
    <3> QED
      BY <3>2, <3>3 DEF Counted, Succeeded
  <2> QED
    BY <1>10, <2>1, CountsStay DEF Revoke
<1>11. CASE UNCHANGED vars
  BY <1>3, <1>11 DEF vars, learning
<1> QED
  BY <1>4, <1>5, <1>6, <1>7, <1>8, <1>9, <1>10, <1>11 DEF Next

(* A pattern never counts an outcome that the audit log does not show; it     *)
(* counts all of them while nobody died and nobody is between the two writes, *)
(* for any finite number of tasks.                                           *)
THEOREM CountsAreTrue ==
  ASSUME IsFiniteSet(Tasks)
  PROVE  Spec => []CountsAreBacked
<1>1. Init => CountsAdd
  <2> SUFFICES ASSUME Init, NEW k \in Keys
               PROVE  /\ Counted(k) = 0 /\ InFlight(k) = {} /\ Succeeded(k) = 0
                      /\ VerifiedInFlight(k) = {} /\ events[k] = [verified |-> 0, all |-> 0]
    BY FS_EmptySet DEF CountsAdd
  <2> QED
    BY DEF Init, Counted, Succeeded, InFlight, VerifiedInFlight
<1>2. IInv /\ CountsAdd /\ [Next]_vars => CountsAdd'
  BY CountsStep
<1>3. IInv /\ CountsAdd => CountsAreBacked
  <2> SUFFICES ASSUME IInv, CountsAdd, NEW k \in Keys, pattern[k] # None
               PROVE  /\ pattern[k].success <= events[k].verified
                      /\ pattern[k].success + pattern[k].failure <= events[k].all
                      /\ dead = {} /\ (\A c \in Callers : ~half[c]) =>
                           /\ pattern[k].success = events[k].verified
                           /\ pattern[k].success + pattern[k].failure = events[k].all
    BY DEF CountsAreBacked
  <2>1. /\ Counted(k) = pattern[k].success + pattern[k].failure
        /\ Succeeded(k) = pattern[k].success
    BY DEF Counted, Succeeded
  <2>2. (\A c \in Callers : ~half[c]) =>
          Cardinality(InFlight(k)) = 0 /\ Cardinality(VerifiedInFlight(k)) = 0
    <3>1. (\A c \in Callers : ~half[c]) => InFlight(k) = {} /\ VerifiedInFlight(k) = {}
      BY DEF InFlight, VerifiedInFlight
    <3> QED
      BY <3>1, FS_EmptySet
  <2> QED
    BY <2>1, <2>2, CountTypes DEF CountsAdd, IInv
<1> QED
  BY <1>1, <1>2, <1>3, Invariant, PTL DEF Spec
=============================================================================
