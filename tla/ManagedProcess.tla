--------------------------- MODULE ManagedProcess ---------------------------
(* One task's worker process and the three parties that meet in its control  *)
(* directory: the runner (run_managed_process, once per attempt), a canceller *)
(* (request_cancel) and the stale worker reaper (StaleWorkerReaper.reap).     *)
(* Each read or write of a control file is atomic, see ControlFileLock.       *)
EXTENDS Naturals

CONSTANTS
  MaxAttempts,  \* worker attempts of the task
  MaxPolls,     \* polls of the child that fit in timeout_sec
  MaxLosses,    \* times the runner dies, or leaves by an exception
  MaxStale,     \* pauses of 120 s in the heartbeat of a live runner
  MaxReaps      \* status queries that run the reaper

ASSUME BoundsAssumption ==
  /\ MaxAttempts \in Nat /\ MaxPolls \in Nat /\ MaxLosses \in Nat
  /\ MaxStale \in Nat /\ MaxReaps \in Nat

VARIABLES
  pc,          \* the runner
  attempt,     \* number of the current attempt: its process_token
  polls,       \* polls of the current child
  child,       \* the operating system's worker process
  status,      \* the runner's local status
  proc,        \* control/process.json
  heartbeat,   \* control/heartbeat.json
  cancelFile,  \* control/cancel.requested exists; nothing ever removes it
  cpc,         \* the canceller
  terminated,  \* token of the process request_cancel terminated, 0 for none
  rpc,         \* the reaper
  snapshot,    \* process.json as the reaper read it
  reaps, losses, pauses

vars == <<pc, attempt, polls, child, status, proc, heartbeat, cancelFile, cpc,
          terminated, rpc, snapshot, reaps, losses, pauses>>

runnerVars == <<pc, attempt, polls, status>>
cancelVars == <<cancelFile, cpc, terminated>>
reapVars == <<rpc, snapshot, reaps>>

RunnerPCs == {"between", "spawned", "poll", "check", "decide", "merge",
              "lastBeat", "lost"}
Tokens == 0..MaxAttempts    \* 0: no such file
Statuses == {"none", "running", "succeeded", "failed", "timed_out",
             "cancelled", "reaped"}
Children == {"none", "running", "dying", "exit_0", "exit_1", "killed"}
Alive == {"running", "dying"}
NoFile == [token |-> 0, status |-> "none"]

Init ==
  /\ pc = "between" /\ attempt = 0 /\ polls = 0
  /\ child = "none" /\ status = "none"
  /\ proc = NoFile /\ heartbeat = [token |-> 0, stale |-> FALSE]
  /\ cancelFile = FALSE /\ cpc = "idle" /\ terminated = 0
  /\ rpc = "idle" /\ snapshot = NoFile /\ reaps = 0
  /\ losses = 0 /\ pauses = 0

\* terminate_process_tree sends SIGTERM and SIGKILL; the exit comes later.
Killed(c) == IF c = "running" THEN "dying" ELSE c

-----------------------------------------------------------------------------
(* The runner. *)

\* Popen.  The attempt loop calls again only after a failure it may retry.
Spawn ==
  /\ pc = "between" /\ attempt < MaxAttempts
  /\ status \in {"none", "failed", "timed_out"}
  /\ attempt' = attempt + 1 /\ polls' = 0
  /\ child' = "running" /\ status' = "running"
  /\ pc' = "spawned"
  /\ UNCHANGED <<proc, heartbeat, cancelVars, reapVars, losses, pauses>>

RecordProcess ==
  /\ pc = "spawned"
  /\ proc' = [token |-> attempt, status |-> "running"]
  /\ pc' = "poll"
  /\ UNCHANGED <<attempt, polls, status, child, heartbeat, cancelVars, reapVars,
                 losses, pauses>>

\* proc.poll() is None: write the heartbeat.
PollAlive ==
  /\ pc = "poll" /\ child \in Alive
  /\ heartbeat' = [token |-> attempt, stale |-> FALSE]
  /\ pc' = "check"
  /\ UNCHANGED <<attempt, polls, status, child, proc, cancelVars, reapVars,
                 losses, pauses>>

PollExited ==
  /\ pc = "poll" /\ child \notin Alive
  /\ pc' = "decide"
  /\ UNCHANGED <<attempt, polls, status, child, proc, heartbeat, cancelVars,
                 reapVars, losses, pauses>>

\* Mutant: the loop never looks at the clock.
CheckCancelOnly ==
  /\ pc = "check"
  /\ \/ /\ cancelFile
        /\ status' = "cancelled" /\ child' = Killed(child) /\ pc' = "decide"
     \/ ~cancelFile /\ pc' = "poll" /\ UNCHANGED <<status, child>>
  /\ UNCHANGED <<attempt, polls, proc, heartbeat, cancelVars, reapVars, losses,
                 pauses>>

\* Mutant: leaves the loop on a cancel without terminate_process_tree.
CheckCancelNoKill ==
  /\ pc = "check"
  /\ \/ /\ cancelFile
        /\ status' = "cancelled" /\ pc' = "decide"
        /\ UNCHANGED <<polls, child>>
     \/ /\ ~cancelFile
        /\ status' = "timed_out" /\ child' = Killed(child) /\ pc' = "decide"
        /\ UNCHANGED polls
     \/ /\ ~cancelFile /\ polls < MaxPolls
        /\ polls' = polls + 1 /\ pc' = "poll"
        /\ UNCHANGED <<status, child>>
  /\ UNCHANGED <<attempt, proc, heartbeat, cancelVars, reapVars, losses, pauses>>

\* The cancel file, then the clock; both kill the child and leave the loop.
CheckCancelAndClock ==
  /\ pc = "check"
  /\ \/ /\ cancelFile
        /\ status' = "cancelled" /\ child' = Killed(child) /\ pc' = "decide"
        /\ UNCHANGED polls
     \/ /\ ~cancelFile
        /\ status' = "timed_out" /\ child' = Killed(child) /\ pc' = "decide"
        /\ UNCHANGED polls
     \/ /\ ~cancelFile /\ polls < MaxPolls
        /\ polls' = polls + 1 /\ pc' = "poll"
        /\ UNCHANGED <<status, child>>
  /\ UNCHANGED <<attempt, proc, heartbeat, cancelVars, reapVars, losses, pauses>>

Decided ==
  IF cancelFile THEN "cancelled"
  ELSE IF status = "timed_out" THEN "timed_out"
  ELSE IF child = "exit_0" THEN "succeeded" ELSE "failed"

\* Mutant: process.json is asked for the cancel, not the cancel file.
DecideFromRecord ==
  /\ pc = "decide" /\ child \notin Alive
  /\ status' = IF proc.status = "cancelled" \/ status \in {"cancelled", "timed_out"}
               THEN status ELSE IF child = "exit_0" THEN "succeeded" ELSE "failed"
  /\ pc' = "merge"
  /\ UNCHANGED <<attempt, polls, child, proc, heartbeat, cancelVars, reapVars,
                 losses, pauses>>

\* proc.wait, then the cancel file is read a last time.
DecideStatus ==
  /\ pc = "decide" /\ child \notin Alive
  /\ status' = Decided
  /\ pc' = "merge"
  /\ UNCHANGED <<attempt, polls, child, proc, heartbeat, cancelVars, reapVars,
                 losses, pauses>>

\* Mutant: writes its own status whatever the file says.
MergeOverCancelled ==
  /\ pc = "merge"
  /\ proc' = [proc EXCEPT !.status = status]
  /\ pc' = "lastBeat"
  /\ UNCHANGED <<attempt, polls, status, child, heartbeat, cancelVars, reapVars,
                 losses, pauses>>

\* _merge_finished_process_payload keeps a status "cancelled" that is already
\* in the file; the merged status is what the caller gets.
MergeFinished ==
  /\ pc = "merge"
  /\ status' = IF proc.status = "cancelled" THEN "cancelled" ELSE status
  /\ proc' = [proc EXCEPT !.status = status']
  /\ pc' = "lastBeat"
  /\ UNCHANGED <<attempt, polls, child, heartbeat, cancelVars, reapVars, losses,
                 pauses>>

\* The closing heartbeat carries the token found in process.json.
LastHeartbeat ==
  /\ pc = "lastBeat"
  /\ heartbeat' = [token |-> proc.token, stale |-> FALSE]
  /\ pc' = "between"
  /\ UNCHANGED <<attempt, polls, status, child, proc, cancelVars, reapVars,
                 losses, pauses>>

\* The orchestrator process dies, or a control file stays locked beyond
\* LOCK_TIMEOUT_SEC and the TimeoutError leaves run_managed_process.
LoseRunner ==
  /\ pc # "lost" /\ losses < MaxLosses
  /\ losses' = losses + 1 /\ pc' = "lost"
  /\ UNCHANGED <<attempt, polls, status, child, proc, heartbeat, cancelVars,
                 reapVars, pauses>>

-----------------------------------------------------------------------------
(* External: the worker program and the clock. *)

ChildExits ==
  /\ child = "running"
  /\ child' \in {"exit_0", "exit_1"}
  /\ UNCHANGED <<runnerVars, proc, heartbeat, cancelVars, reapVars, losses,
                 pauses>>

ChildDies ==
  /\ child = "dying" /\ child' = "killed"
  /\ UNCHANGED <<runnerVars, proc, heartbeat, cancelVars, reapVars, losses,
                 pauses>>

\* 120 s without a heartbeat: the runner is gone, or the machine slept.
HeartbeatGoesStale ==
  /\ heartbeat.token # 0 /\ ~heartbeat.stale
  /\ \/ pc = "lost" /\ UNCHANGED pauses
     \/ pc # "lost" /\ pauses < MaxStale /\ pauses' = pauses + 1
  /\ heartbeat' = [heartbeat EXCEPT !.stale = TRUE]
  /\ UNCHANGED <<runnerVars, child, proc, cancelVars, reapVars, losses>>

-----------------------------------------------------------------------------
(* request_cancel. *)

WriteCancelFile ==
  /\ cpc = "idle"
  /\ cancelFile' = TRUE /\ cpc' = "update"
  /\ UNCHANGED <<runnerVars, child, proc, heartbeat, terminated, reapVars,
                 losses, pauses>>

\* The kill happens inside update_json_file, with process.json locked.
CancelProcess ==
  /\ cpc = "update" /\ cpc' = "done"
  /\ IF proc.token # 0 /\ proc.status = "running"
     THEN /\ child' = IF proc.token = attempt THEN Killed(child) ELSE child
          /\ proc' = [proc EXCEPT !.status = "cancelled"]
          /\ terminated' = proc.token
     ELSE UNCHANGED <<child, proc, terminated>>
  /\ UNCHANGED <<runnerVars, heartbeat, cancelFile, reapVars, losses, pauses>>

-----------------------------------------------------------------------------
(* StaleWorkerReaper.reap: two reads and, if it reaps, one blind write. *)

ReadProcess ==
  /\ rpc = "idle" /\ reaps < MaxReaps
  /\ reaps' = reaps + 1
  /\ snapshot' = proc
  /\ rpc' = IF proc.status = "running" THEN "heartbeat" ELSE "idle"
  /\ UNCHANGED <<runnerVars, child, proc, heartbeat, cancelVars, losses, pauses>>

\* Mutant: the token check comes before the look at the clock.
ReadHeartbeatTokenFirst ==
  /\ rpc = "heartbeat"
  /\ rpc' = IF heartbeat.token # snapshot.token THEN "fail"
            ELSE IF ~heartbeat.stale THEN "idle" ELSE "recover"
  /\ UNCHANGED <<runnerVars, child, proc, heartbeat, cancelVars, snapshot,
                 reaps, losses, pauses>>

\* A missing or fresh heartbeat ends the call.  The pid is not asked for when
\* process.json has a token, and run_managed_process always writes one.
ReadHeartbeat ==
  /\ rpc = "heartbeat"
  /\ rpc' = IF heartbeat.token = 0 \/ ~heartbeat.stale THEN "idle"
            ELSE IF heartbeat.token # snapshot.token THEN "fail" ELSE "recover"
  /\ UNCHANGED <<runnerVars, child, proc, heartbeat, cancelVars, snapshot,
                 reaps, losses, pauses>>

\* _recover_read_only_success (the stream, which is not modelled, may hold a
\* success) or _fail_stale_task: the snapshot goes back with a new status.
ReapProcess ==
  /\ rpc \in {"fail", "recover"} /\ rpc' = "idle"
  /\ \E s \in {"failed"} \cup (IF rpc = "recover" THEN {"reaped"} ELSE {}) :
       proc' = [snapshot EXCEPT !.status = s]
  /\ UNCHANGED <<runnerVars, child, heartbeat, cancelVars, snapshot, reaps,
                 losses, pauses>>

-----------------------------------------------------------------------------
RunnerStep ==
  \/ RecordProcess \/ PollAlive \/ PollExited \/ CheckCancelAndClock
  \/ DecideStatus \/ MergeFinished \/ LastHeartbeat

ReaperStep == ReadHeartbeat \/ ReapProcess

\* No attempt is left and nobody is about to write.
Idle ==
  /\ pc \in {"between", "lost"} /\ cpc = "done" /\ rpc = "idle"
  /\ UNCHANGED vars

Next ==
  \/ Spawn \/ RunnerStep \/ LoseRunner
  \/ ChildExits \/ ChildDies \/ HeartbeatGoesStale
  \/ WriteCancelFile \/ CancelProcess
  \/ ReadProcess \/ ReaperStep
  \/ Idle

Spec == Init /\ [][Next]_vars

\* Threads and processes that are in the middle of a call are scheduled, and
\* SIGKILL is final; the worker program may hang and nobody has to ask for a cancel or a status.
FairSpec ==
  /\ Spec
  /\ WF_vars(RunnerStep) /\ WF_vars(CancelProcess) /\ WF_vars(ReaperStep)
  /\ WF_vars(ChildDies)

-----------------------------------------------------------------------------
\* A runner is back with its result, and no pause made it look dead before.
Returned == pc = "between" /\ attempt > 0 /\ pauses = 0

(* What run_managed_process returns is what process.json says, so the task's *)
(* outcome and the control view of it agree (process_control.py:145-148); and *)
(* a process that request_cancel terminated is never reported as succeeded,  *)
(* failed or timed out, whichever step of the runner the cancel meets.  Of a *)
(* runner that a pause made look dead this is not said: a reaper may write   *)
(* over the file.                                                            *)
ResultMatchesRecord ==
  Returned => /\ proc = [token |-> attempt, status |-> status]
              /\ terminated = attempt => status = "cancelled"

(* A worker that was killed, by request_cancel or by its own runner, is       *)
(* reported as cancelled or timed out, and so neither as a success nor as a  *)
(* failure to try again, though a reaper that saw a pause wrote its snapshot *)
(* over the "cancelled" in process.json before the runner read it.           *)
KilledIsReported ==
  pc = "between" /\ child = "killed" => status \in {"cancelled", "timed_out"}

(* run_managed_process ends although the worker hangs, or loses its runner.  *)
AttemptEnds == pc = "spawned" ~> pc \in {"between", "lost"}

(* While its runner lives, a worker does not outlive a cancel request, even  *)
(* one that comes between Popen and the first write of process.json.  One     *)
(* that lost its runner is stopped by the next request_cancel, which finds it *)
(* in process.json, unless a status query came first: a reaper's verdict      *)
(* hides the worker from request_cancel.                                      *)
CancelStopsWorker ==
  /\ cancelFile ~> child \notin Alive \/ pc = "lost"
  /\ (pc = "lost" /\ cpc = "update" /\ proc.token = attempt)
       ~> (child \notin Alive \/ reaps > 0)

(* The reaper decides against a worker only when no runner is watching it,   *)
(* or a runner did not write a heartbeat for 120 s; the window between the   *)
(* process.json of a new attempt and its first heartbeat is no exception.    *)
ReaperSparesRunners ==
  rpc \in {"fail", "recover"} => pc = "lost" \/ pauses > 0
=============================================================================
