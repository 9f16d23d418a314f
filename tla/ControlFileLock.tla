--------------------------- MODULE ControlFileLock ---------------------------
(* control_files.py: JSON control files shared by processes and serialised   *)
(* by a lock directory.  A directory older than STALE_LOCK_SEC is taken for  *)
(* the leftover of a dead process and removed.                               *)
EXTENDS Naturals

CONSTANTS
  Procs,       \* processes (or threads) that use the control file
  MaxOps,      \* calls each process makes
  MaxTries,    \* failed mkdirs that fit in LOCK_TIMEOUT_SEC
  MaxCrashes   \* processes that may die while they hold the lock

ASSUME BoundsAssumption ==
  MaxOps \in Nat /\ MaxTries \in Nat /\ MaxCrashes \in Nat

ASSUME ProcsAssumption == "none" \notin Procs

VARIABLES
  pc,       \* where each process is in FileLock and in its critical section
  op,       \* the call each process is executing
  ops,      \* calls each process has begun
  tries,    \* failed mkdirs of the current call
  loaded,   \* the payload each process read under the lock
  lock,     \* creator of the lock directory, "none" when it is absent
  aged,     \* the directory is at least STALE_LOCK_SEC old
  doc,      \* content of the file, a counter; a missing file reads as 0
  stores,   \* replacements of the file so far; 0 while there is no file
  crashes   \* processes that died so far

vars == <<pc, op, ops, tries, loaded, lock, aged, doc, stores, crashes>>

Ops == {"update", "write", "read"}

PCs == {"idle", "mkdir", "stat", "rmdirStale", "load", "store", "release",
        "crashed"}

CriticalPCs == {"load", "store", "release"}

TypeOK ==
  /\ pc \in [Procs -> PCs]
  /\ op \in [Procs -> Ops]
  /\ ops \in [Procs -> 0..MaxOps]
  /\ tries \in [Procs -> 0..MaxTries]
  /\ loaded \in [Procs -> Nat]
  /\ lock \in Procs \cup {"none"}
  /\ aged \in BOOLEAN
  /\ doc \in Nat
  /\ stores \in Nat
  /\ crashes \in 0..MaxCrashes

Init ==
  /\ pc = [p \in Procs |-> "idle"]
  /\ op = [p \in Procs |-> "read"]
  /\ ops = [p \in Procs |-> 0]
  /\ tries = [p \in Procs |-> 0]
  /\ loaded = [p \in Procs |-> 0]
  /\ lock = "none"
  /\ aged = FALSE
  /\ doc = 0
  /\ stores = 0
  /\ crashes = 0

Goto(p, where) == pc' = [pc EXCEPT ![p] = where]

\* write_json_file, read_json_file and update_json_file enter FileLock; only
\* the reader first looks whether there is a file, and returns {} if not.
Call(p) ==
  /\ pc[p] = "idle" /\ ops[p] < MaxOps
  /\ \E o \in Ops :
       /\ op' = [op EXCEPT ![p] = o]
       /\ Goto(p, IF o = "read" /\ stores = 0 THEN "idle" ELSE "mkdir")
  /\ ops' = [ops EXCEPT ![p] = @ + 1]
  /\ tries' = [tries EXCEPT ![p] = 0]
  /\ UNCHANGED <<loaded, lock, aged, doc, stores, crashes>>

AcquireLock(p) ==
  /\ pc[p] = "mkdir" /\ lock = "none"
  /\ lock' = p /\ aged' = FALSE
  /\ Goto(p, IF op[p] = "write" THEN "store" ELSE "load")
  /\ UNCHANGED <<op, ops, tries, loaded, doc, stores, crashes>>

\* mkdir raises FileExistsError, or a PermissionError which may be transient
\* and come without any directory.
MkdirFails(p) ==
  /\ pc[p] = "mkdir"
  /\ Goto(p, "stat")
  /\ UNCHANGED <<op, ops, tries, loaded, lock, aged, doc, stores, crashes>>

\* Mutant: the deadline is checked after one sleep too many.
RetryOnceMore(p) ==
  \/ /\ tries[p] <= MaxTries
     /\ tries' = [tries EXCEPT ![p] = @ + 1]
     /\ Goto(p, "mkdir")
  \/ /\ Goto(p, "idle")
     /\ UNCHANGED tries

\* Mutant: no deadline.
RetryForever(p) == Goto(p, "mkdir") /\ UNCHANGED tries

\* The deadline check behind _remove_stale_lock() = False: sleep and try
\* again, or raise TimeoutError, which ends the call.
RetryOrTimeOut(p) ==
  \/ /\ tries[p] < MaxTries
     /\ tries' = [tries EXCEPT ![p] = @ + 1]
     /\ Goto(p, "mkdir")
  \/ /\ Goto(p, "idle")
     /\ UNCHANGED tries

StatFindsYoungOrNone(p) ==
  /\ pc[p] = "stat" /\ (lock = "none" \/ ~aged)
  /\ RetryOrTimeOut(p)
  /\ UNCHANGED <<op, ops, loaded, lock, aged, doc, stores, crashes>>

StatFindsStale(p) ==
  /\ pc[p] = "stat" /\ lock # "none" /\ aged
  /\ Goto(p, "rmdirStale")
  /\ UNCHANGED <<op, ops, tries, loaded, lock, aged, doc, stores, crashes>>

\* The rmdir that follows stat removes the directory that is there NOW; a
\* success goes straight back to mkdir, a failure counts as not removed.
RemoveStale(p) ==
  /\ pc[p] = "rmdirStale"
  /\ \/ /\ lock # "none"
        /\ lock' = "none" /\ aged' = FALSE
        /\ Goto(p, "mkdir")
        /\ UNCHANGED tries
     \/ /\ lock = "none"
        /\ RetryOrTimeOut(p)
        /\ UNCHANGED <<lock, aged>>
  /\ UNCHANGED <<op, ops, loaded, doc, stores, crashes>>

Load(p) ==
  /\ pc[p] = "load"
  /\ loaded' = [loaded EXCEPT ![p] = doc]
  /\ Goto(p, IF op[p] = "update" THEN "store" ELSE "release")
  /\ UNCHANGED <<op, ops, tries, lock, aged, doc, stores, crashes>>

\* _atomic_write_json: tmp.replace(path) is the one step others can see.
Store(p) ==
  /\ pc[p] = "store"
  /\ stores' = stores + 1
  /\ doc' = IF op[p] = "update" THEN loaded[p] + 1 ELSE 0
  /\ Goto(p, "release")
  /\ UNCHANGED <<op, ops, tries, loaded, lock, aged, crashes>>

\* __exit__ removes whatever directory is there and ignores a missing one.
ReleaseLock(p) ==
  /\ pc[p] = "release"
  /\ lock' = "none" /\ aged' = FALSE
  /\ Goto(p, "idle")
  /\ UNCHANGED <<op, ops, tries, loaded, doc, stores, crashes>>

\* External: the operating system kills a process inside its critical section.
Crash(p) ==
  /\ pc[p] \in CriticalPCs /\ crashes < MaxCrashes
  /\ crashes' = crashes + 1
  /\ Goto(p, "crashed")
  /\ UNCHANGED <<op, ops, tries, loaded, lock, aged, doc, stores>>

\* Mutant: STALE_LOCK_SEC shorter than a critical section.
LockAgesEarly ==
  /\ lock # "none" /\ ~aged
  /\ aged' = TRUE
  /\ UNCHANGED <<pc, op, ops, tries, loaded, lock, doc, stores, crashes>>

\* STALE_LOCK_SEC pass.  Critical sections take seconds, so only the directory
\* of a dead process lives that long.
LockAges ==
  /\ lock # "none" /\ ~aged /\ pc[lock] = "crashed"
  /\ aged' = TRUE
  /\ UNCHANGED <<pc, op, ops, tries, loaded, lock, doc, stores, crashes>>

Finished ==
  /\ \A p \in Procs : pc[p] = "crashed" \/ (pc[p] = "idle" /\ ops[p] = MaxOps)
  /\ UNCHANGED vars

Step(p) ==
  \/ AcquireLock(p) \/ MkdirFails(p)
  \/ StatFindsYoungOrNone(p) \/ StatFindsStale(p) \/ RemoveStale(p)
  \/ Load(p) \/ Store(p) \/ ReleaseLock(p)

Next ==
  \/ \E p \in Procs : Call(p) \/ Step(p) \/ Crash(p)
  \/ LockAges
  \/ Finished

Spec == Init /\ [][Next]_vars

\* A process that is inside a call keeps being scheduled.
FairSpec == Spec /\ \A p \in Procs : WF_vars(Step(p))

-----------------------------------------------------------------------------
(* Two processes are never inside FileLock at once (control_files.py:38-59). *)
MutualExclusion ==
  \A p, q \in Procs :
    pc[p] \in CriticalPCs /\ pc[q] \in CriticalPCs => p = q

(* Until a process dies with the lock, no one ever takes the directory of    *)
(* another for stale, and callers exclude each other.                        *)
ExclusionUntilCrash == crashes = 0 => MutualExclusion

(* An updater stores on top of the document it loaded, never over one stored *)
(* meanwhile (update_json_file, control_files.py:31-34).                     *)
NoLostUpdate ==
  \A p \in Procs : pc[p] = "store" /\ op[p] = "update" => loaded[p] = doc

(* Every call on the file takes effect at one instant.                       *)
Atomic == INSTANCE AtomicJsonFile WITH count <- doc, effects <- stores
CallsAreAtomic == Atomic!Spec

(* A call returns or raises TimeoutError: FileLock never waits for ever, not *)
(* even on the directory of a dead process.                                  *)
EveryCallEnds == \A p \in Procs : pc[p] # "idle" ~> pc[p] \in {"idle", "crashed"}
=============================================================================
