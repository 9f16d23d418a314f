------------------------- MODULE ManagedProcess_proofs -------------------------
(* The safety of one task's worker processes, for any number of attempts,     *)
(* polls, deaths, pauses and status queries.                                  *)
EXTENDS ManagedProcess, TLAPS

Files == [token : Tokens, status : Statuses]

Types ==
  /\ pc \in RunnerPCs /\ attempt \in Tokens /\ child \in Children /\ status \in Statuses
  /\ proc \in Files /\ snapshot \in Files
  /\ heartbeat \in [token : Tokens, stale : BOOLEAN]
  /\ terminated \in Tokens /\ pauses \in Nat
  /\ rpc \in {"idle", "heartbeat", "fail", "recover"}

\* As long as the runner writes its heartbeats.
Watched == pc # "lost" /\ pauses = 0

(* Nothing makes a watched worker look dead.                                  *)
StaleIsUnwatched == Watched => ~heartbeat.stale

(* process.json is that of the current attempt, but before its first write,   *)
(* and not "running" when there is none; request_cancel terminates no process *)
(* that is not there.                                                         *)
FileIsCurrent ==
  Watched =>
    /\ proc.token = IF pc = "spawned" THEN attempt - 1 ELSE attempt
    /\ pc \in {"spawned", "lastBeat", "between"} => proc.status # "running"
    /\ terminated <= proc.token
    /\ pc # "between" => attempt > 0

(* What request_cancel did to the file is in what the runner will merge.      *)
CancelIsKept ==
  Watched /\ attempt > 0 =>
    /\ pc = "merge" => status \in {"cancelled", "timed_out", "succeeded", "failed"}
    /\ pc \in {"poll", "check", "decide", "merge"} /\ terminated = attempt
         => proc.status = "cancelled"
    /\ pc \in {"lastBeat", "between"} =>
         /\ proc.status = status
         /\ terminated = attempt => status = "cancelled"

(* A killed worker is dead before its runner decides, and what the runner     *)
(* decides it by, its own status or the cancel file, no reaper writes.        *)
KillIsKnown ==
  /\ attempt = 0 => child = "none"
  /\ pc \in {"merge", "lastBeat", "between"} =>
       /\ child \notin Alive
       /\ child = "killed" => status \in {"cancelled", "timed_out"}
  /\ pc \in {"spawned", "poll", "check", "decide"} /\ child \in {"dying", "killed"} =>
       cancelFile = TRUE \/ status = "timed_out"
  /\ cpc = "update" => cancelFile = TRUE

IInv ==
  /\ Types /\ StaleIsUnwatched /\ FileIsCurrent /\ CancelIsKept
  /\ KillIsKnown /\ ReaperSparesRunners

-----------------------------------------------------------------------------
LEMMA InitIInv == Init => IInv
BY BoundsAssumption DEF Init, IInv, Types, StaleIsUnwatched, FileIsCurrent, CancelIsKept,
   KillIsKnown, ReaperSparesRunners, Watched, RunnerPCs, Tokens, Children, Statuses,
   Files, NoFile, Alive

LEMMA TypesKept == Types /\ [Next]_vars => Types'
<1> SUFFICES ASSUME Types, [Next]_vars PROVE Types'
  OBVIOUS
<1> USE BoundsAssumption DEF Types, RunnerPCs, Tokens, Children, Statuses, Files, runnerVars,
        cancelVars, reapVars
<1>1. CASE Spawn
  BY <1>1 DEF Spawn
<1>2. CASE RunnerStep
  <2>1. CASE RecordProcess
    BY <2>1 DEF RecordProcess
  <2>6. CASE PollAlive
    BY <2>6 DEF PollAlive
  <2>7. CASE PollExited
    BY <2>7 DEF PollExited
  <2>2. CASE CheckCancelAndClock
    BY <2>2 DEF CheckCancelAndClock, Killed
  <2>3. CASE DecideStatus
    BY <2>3 DEF DecideStatus, Decided
  <2>4. CASE MergeFinished
    <3>1. status' \in Statuses
      BY <2>4 DEF MergeFinished
    <3>2. proc' \in Files
      BY <2>4, <3>1 DEF MergeFinished
    <3> QED
      BY <2>4, <3>1, <3>2 DEF MergeFinished
  <2>5. CASE LastHeartbeat
    BY <2>5 DEF LastHeartbeat
  <2> QED
    BY <1>2, <2>1, <2>2, <2>3, <2>4, <2>5, <2>6, <2>7 DEF RunnerStep
<1>3. CASE LoseRunner \/ ChildExits \/ ChildDies
  BY <1>3 DEF LoseRunner, ChildExits, ChildDies
<1>7. CASE HeartbeatGoesStale
  <2>1. pauses' \in Nat
    BY <1>7 DEF HeartbeatGoesStale
  <2>2. heartbeat' = [heartbeat EXCEPT !.stale = TRUE]
    BY <1>7 DEF HeartbeatGoesStale
  <2>3. heartbeat' \in [token : Tokens, stale : BOOLEAN]
    BY <2>2, Zenon
  <2> QED
    BY <1>7, <2>1, <2>3 DEF HeartbeatGoesStale
<1>4. CASE WriteCancelFile \/ CancelProcess
  BY <1>4 DEF WriteCancelFile, CancelProcess, Killed
<1>5. CASE ReadProcess \/ ReaperStep
  BY <1>5 DEF ReadProcess, ReaperStep, ReadHeartbeat, ReapProcess
<1>6. CASE Idle \/ UNCHANGED vars
  BY <1>6 DEF Idle, vars
<1> QED
  BY <1>1, <1>2, <1>3, <1>4, <1>5, <1>6, <1>7 DEF Next

(* The reaper sees a stale heartbeat only where no one watches.              *)
LEMMA ReaperKept ==
  ASSUME Types, StaleIsUnwatched, ReaperSparesRunners, [Next]_vars
  PROVE  StaleIsUnwatched' /\ ReaperSparesRunners'
<1> USE DEF StaleIsUnwatched, ReaperSparesRunners, Watched, Types, runnerVars, cancelVars, reapVars
<1>1. CASE Spawn
  BY <1>1 DEF Spawn
<1>2. CASE RunnerStep
  BY <1>2 DEF RunnerStep, RecordProcess, PollAlive, PollExited, CheckCancelAndClock,
     DecideStatus, MergeFinished, LastHeartbeat
<1>3. CASE LoseRunner \/ ChildExits \/ ChildDies \/ HeartbeatGoesStale
  BY <1>3 DEF LoseRunner, ChildExits, ChildDies, HeartbeatGoesStale
<1>4. CASE WriteCancelFile \/ CancelProcess
  BY <1>4 DEF WriteCancelFile, CancelProcess
<1>5. CASE ReadProcess \/ ReaperStep
  <2>1. CASE ReadProcess
    BY <2>1 DEF ReadProcess
  <2>2. CASE ReadHeartbeat
    <3>1. ~heartbeat.stale => rpc' = "idle"
      BY <2>2 DEF ReadHeartbeat
    <3> QED
      BY <2>2, <3>1 DEF ReadHeartbeat
  <2>3. CASE ReapProcess
    BY <2>3 DEF ReapProcess
  <2> QED
    BY <1>5, <2>1, <2>2, <2>3 DEF ReaperStep
<1>6. CASE Idle \/ UNCHANGED vars
  BY <1>6 DEF Idle, vars
<1> QED
  BY <1>1, <1>2, <1>3, <1>4, <1>5, <1>6 DEF Next

LEMMA KillKept ==
  ASSUME Types, KillIsKnown, [Next]_vars
  PROVE  KillIsKnown'
<1> USE BoundsAssumption DEF KillIsKnown, Alive, Tokens, RunnerPCs, Types, runnerVars, cancelVars, reapVars
<1>1. CASE Spawn
  BY <1>1 DEF Spawn
<1>2. CASE RunnerStep
  <2>1. CASE RecordProcess \/ PollAlive \/ PollExited
    BY <2>1 DEF RecordProcess, PollAlive, PollExited
  <2>2. CASE CheckCancelAndClock
    BY <2>2 DEF CheckCancelAndClock, Killed
  <2>3. CASE DecideStatus
    BY <2>3 DEF DecideStatus, Decided
  <2>4. CASE MergeFinished
    BY <2>4 DEF MergeFinished
  <2>5. CASE LastHeartbeat
    BY <2>5 DEF LastHeartbeat
  <2> QED
    BY <1>2, <2>1, <2>2, <2>3, <2>4, <2>5 DEF RunnerStep
<1>3. CASE LoseRunner \/ ChildExits \/ ChildDies \/ HeartbeatGoesStale
  BY <1>3 DEF LoseRunner, ChildExits, ChildDies, HeartbeatGoesStale
<1>4. CASE WriteCancelFile \/ CancelProcess
  BY <1>4 DEF WriteCancelFile, CancelProcess, Killed
<1>5. CASE ReadProcess \/ ReaperStep
  BY <1>5 DEF ReadProcess, ReaperStep, ReadHeartbeat, ReapProcess
<1>6. CASE Idle \/ UNCHANGED vars
  BY <1>6 DEF Idle, vars
<1> QED
  BY <1>1, <1>2, <1>3, <1>4, <1>5, <1>6 DEF Next

LEMMA FileKept ==
  ASSUME IInv, [Next]_vars
  PROVE  FileIsCurrent' /\ CancelIsKept'
<1> USE BoundsAssumption DEF IInv, Types, FileIsCurrent, CancelIsKept, Watched, Files, Tokens,
        runnerVars, cancelVars, reapVars
<1>1. CASE Spawn
  BY <1>1 DEF Spawn
<1>2. CASE RecordProcess
  BY <1>2 DEF RecordProcess
<1>3. CASE PollAlive \/ PollExited
  BY <1>3 DEF PollAlive, PollExited
<1>4. CASE CheckCancelAndClock
  BY <1>4 DEF CheckCancelAndClock
<1>5. CASE DecideStatus
  BY <1>5 DEF DecideStatus, Decided
<1>6. CASE MergeFinished
  <2>1. /\ pc = "merge" /\ pc' = "lastBeat"
        /\ UNCHANGED <<attempt, terminated, pauses>>
        /\ status' = IF proc.status = "cancelled" THEN "cancelled" ELSE status
    BY <1>6 DEF MergeFinished
  <2>2. proc'.token = proc.token /\ proc'.status = status'
    BY <1>6 DEF MergeFinished
  <2>3. FileIsCurrent'
    BY <2>1, <2>2
  <2>4. CancelIsKept'
    BY <2>1, <2>2
  <2> QED
    BY <2>3, <2>4
<1>7. CASE LastHeartbeat
  BY <1>7 DEF LastHeartbeat
<1>8. CASE LoseRunner \/ ChildExits \/ ChildDies \/ HeartbeatGoesStale
  BY <1>8 DEF LoseRunner, ChildExits, ChildDies, HeartbeatGoesStale
<1>9. CASE WriteCancelFile
  BY <1>9 DEF WriteCancelFile
<1>10. CASE CancelProcess
  BY <1>10 DEF CancelProcess
<1>11. CASE ReadProcess \/ ReadHeartbeat
  BY <1>11 DEF ReadProcess, ReadHeartbeat
<1>12. CASE ReapProcess
  BY <1>12 DEF ReapProcess, ReaperSparesRunners
<1>13. CASE Idle \/ UNCHANGED vars
  BY <1>13 DEF Idle, vars
<1> QED
  BY <1>1, <1>2, <1>3, <1>4, <1>5, <1>6, <1>7, <1>8, <1>9, <1>10, <1>11, <1>12, <1>13
     DEF Next, RunnerStep, ReaperStep

LEMMA Invariance == Spec => []IInv
<1>1. IInv /\ [Next]_vars => IInv'
  BY TypesKept, ReaperKept, KillKept, FileKept DEF IInv
<1> QED
  BY <1>1, InitIInv, PTL DEF Spec

(* As long as a runner writes its heartbeats, what run_managed_process        *)
(* returns is what process.json says, and never hides that request_cancel     *)
(* terminated the process, wherever the cancel meets the runner and however   *)
(* many attempts went before (process_control.py).                            *)
THEOREM ResultsMatchRecords == Spec => []ResultMatchesRecord
<1>1. IInv => ResultMatchesRecord
  <2> SUFFICES ASSUME IInv, Returned
               PROVE  /\ proc = [token |-> attempt, status |-> status]
                      /\ terminated = attempt => status = "cancelled"
    BY DEF ResultMatchesRecord
  <2>1. Watched /\ pc = "between" /\ attempt > 0
    BY DEF Returned, Watched
  <2>2. proc.token = attempt /\ proc.status = status
        /\ (terminated = attempt => status = "cancelled")
    BY <2>1 DEF IInv, FileIsCurrent, CancelIsKept
  <2>3. proc = [token |-> proc.token, status |-> proc.status]
    BY DEF IInv, Types, Files
  <2> QED
    BY <2>2, <2>3
<1> QED
  BY <1>1, Invariance, PTL

(* A killed worker is reported as cancelled or timed out, with any number of  *)
(* pauses, and of reapers that write over process.json (process_control.py,   *)
(* stale_worker_reaper.py).                                                   *)
THEOREM KillsAreReported == Spec => []KilledIsReported
<1>1. IInv => KilledIsReported
  BY DEF IInv, KillIsKnown, KilledIsReported
<1> QED
  BY <1>1, Invariance, PTL

(* The reaper never decides against a worker whose runner writes its          *)
(* heartbeats (stale_worker_reaper.py).                                       *)
THEOREM RunnersAreSpared == Spec => []ReaperSparesRunners
<1>1. IInv => ReaperSparesRunners
  BY DEF IInv
<1> QED
  BY <1>1, Invariance, PTL
=============================================================================
