----------------------------- MODULE TokenLedger -----------------------------
(* The accounting of one task: rows in the database, and token_ledger.json,   *)
(* which each writer of a row rebuilds: it reads all the rows in one          *)
(* transaction, and replaces the file a moment later.                         *)
EXTENDS Integers, Sequences, FiniteSets

CONSTANTS
  None,         \* no snapshot, no row
  MaxBaselines  \* calls of record_task_baseline

ASSUME LedgerAssumption == MaxBaselines \in Nat

VARIABLES
  metrics,    \* task_metrics: the status in the row of each attempt, or None
  codex,      \* codex_usage_events: the phases, and whether Codex was used
  baselines,  \* task_baselines, oldest first
  snapshot,   \* what a writer has read and not written yet
  file        \* token_ledger.json

ledger == <<metrics, codex, baselines, snapshot, file>>

Writers == {"executor", "operator"}

\* record_task_baseline with token counts, or without: a replay of the artifacts.
ManualBaseline(actual) == [actual |-> actual]
ReplayBaseline == [actual |-> FALSE]

\* The worker section, a count standing for its sums: the attempts with a row.
Attempts(rows) == {n \in DOMAIN rows : rows[n] # None}

CodexSection(events) ==
  [phases |-> {e[1] : e \in events}, actual |-> {e[1] : e \in {f \in events : f[2]}}]

IsActual(bs) == \E i \in DOMAIN bs : bs[i].actual

\* The first of ORDER BY actual_codex_used DESC, created_at DESC, id DESC.
Baseline(bs) ==
  LET preferred == {i \in DOMAIN bs : bs[i].actual = IsActual(bs)}
  IN  bs[CHOOSE i \in preferred : \A j \in preferred : j <= i]

Claim(bs) ==
  IF bs = <<>> THEN "not_measured"
  ELSE IF Baseline(bs).actual THEN "measured"
  ELSE "estimated"

Build(rows, events, bs) ==
  [attempts |-> Attempts(rows), codex |-> CodexSection(events),
   baselines |-> bs, claim |-> Claim(bs)]

\* record_planning_dispatch, when the task is submitted.
LedgerInit(n) ==
  /\ metrics = [i \in 1..n |-> None]
  /\ codex = {<<"planning_dispatch", FALSE>>}
  /\ baselines = <<>>
  /\ snapshot = [w \in Writers |-> None]
  /\ file = Build(metrics, codex, baselines)

\* One read transaction over the four tables.
TakeSnapshot(w) ==
  /\ snapshot' = [snapshot EXCEPT ![w] = Build(metrics, codex, baselines)]
  /\ UNCHANGED <<metrics, codex, baselines, file>>

\* Mutant: the events are read after the transaction.
WriteLedgerReadingAgain(w) ==
  /\ snapshot[w] # None
  /\ file' = [snapshot[w] EXCEPT !.codex = CodexSection(codex)]
  /\ snapshot' = [snapshot EXCEPT ![w] = None]
  /\ UNCHANGED <<metrics, codex, baselines>>

WriteLedger(w) ==
  /\ snapshot[w] # None
  /\ file' = snapshot[w]
  /\ snapshot' = [snapshot EXCEPT ![w] = None]
  /\ UNCHANGED <<metrics, codex, baselines>>

\* ON CONFLICT (task_id, attempt_no): a later write replaces the row.
UpsertMetrics(n, status) ==
  /\ metrics' = [metrics EXCEPT ![n] = status]
  /\ UNCHANGED <<codex, baselines, snapshot, file>>

RecordCodexUsage(phase, actual) ==
  /\ codex' = codex \cup {<<phase, actual>>}
  /\ UNCHANGED <<metrics, baselines, snapshot, file>>

\* record_task_baseline of the CLI, in a process of its own.
RecordBaseline ==
  /\ snapshot["operator"] = None
  /\ Len(baselines) < MaxBaselines
  /\ \E b \in {ManualBaseline(TRUE), ManualBaseline(FALSE), ReplayBaseline} :
       baselines' = Append(baselines, b)
  /\ UNCHANGED <<metrics, codex, snapshot, file>>
=============================================================================
