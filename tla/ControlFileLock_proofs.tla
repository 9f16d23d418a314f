----------------------- MODULE ControlFileLock_proofs -----------------------
(* What FileLock guarantees for any number of processes and calls, as long   *)
(* as none of them dies inside its critical section.                         *)
EXTENDS ControlFileLock, TLAPS

(* Until a crash, the lock directory is there exactly while its creator is   *)
(* in the critical section, and never looks stale.                           *)
DirectoryIsOwned ==
  /\ ~aged
  /\ \A p \in Procs : pc[p] \notin {"rmdirStale", "crashed"}
  /\ \A p \in Procs : pc[p] \in CriticalPCs <=> lock = p

IInv ==
  /\ TypeOK
  /\ crashes = 0 => DirectoryIsOwned /\ NoLostUpdate

LEMMA InitIInv == Init => IInv
<1> SUFFICES ASSUME Init PROVE IInv
  OBVIOUS
<1>1. TypeOK
  <2>1. 0 \in 0..MaxOps /\ 0 \in 0..MaxTries /\ 0 \in 0..MaxCrashes
    BY BoundsAssumption
  <2>2. aged \in BOOLEAN
    BY DEF Init
  <2> QED
    BY <2>1, <2>2 DEF Init, TypeOK, Ops, PCs
<1>2. DirectoryIsOwned
  BY ProcsAssumption DEF Init, DirectoryIsOwned, CriticalPCs
<1>3. NoLostUpdate
  BY DEF Init, NoLostUpdate
<1> QED
  BY <1>1, <1>2, <1>3 DEF IInv

(* Retrying stays within the tries that fit before the deadline. *)
LEMMA RetryTypes ==
  ASSUME TypeOK, NEW p \in Procs, RetryOrTimeOut(p)
  PROVE  pc' \in [Procs -> PCs] /\ tries' \in [Procs -> 0..MaxTries]
BY BoundsAssumption DEF TypeOK, RetryOrTimeOut, Goto, PCs

(* Every variable keeps its type, whatever happens. *)
LEMMA TypeStep == TypeOK /\ [Next]_vars => TypeOK'
<1> SUFFICES ASSUME TypeOK, [Next]_vars PROVE TypeOK'
  OBVIOUS
<1> USE BoundsAssumption, ProcsAssumption DEF TypeOK, Ops, PCs, Goto
<1>1. ASSUME NEW p \in Procs, Call(p) PROVE TypeOK'
  BY <1>1 DEF Call
<1>2. ASSUME NEW p \in Procs, AcquireLock(p) PROVE TypeOK'
  BY <1>2 DEF AcquireLock
<1>3. ASSUME NEW p \in Procs, MkdirFails(p) PROVE TypeOK'
  BY <1>3 DEF MkdirFails
<1>4. ASSUME NEW p \in Procs, StatFindsYoungOrNone(p) PROVE TypeOK'
  BY <1>4, RetryTypes DEF StatFindsYoungOrNone
<1>5. ASSUME NEW p \in Procs, StatFindsStale(p) PROVE TypeOK'
  BY <1>5 DEF StatFindsStale
<1>6. ASSUME NEW p \in Procs, RemoveStale(p) PROVE TypeOK'
  <2>1. CASE lock # "none"
    BY <1>6, <2>1 DEF RemoveStale
  <2>2. CASE lock = "none"
    BY <1>6, <2>2, RetryTypes DEF RemoveStale
  <2> QED
    BY <2>1, <2>2
<1>7. ASSUME NEW p \in Procs, Load(p) PROVE TypeOK'
  BY <1>7 DEF Load
<1>8. ASSUME NEW p \in Procs, Store(p) PROVE TypeOK'
  BY <1>8 DEF Store
<1>9. ASSUME NEW p \in Procs, ReleaseLock(p) PROVE TypeOK'
  BY <1>9 DEF ReleaseLock
<1>10. ASSUME NEW p \in Procs, Crash(p) PROVE TypeOK'
  BY <1>10 DEF Crash
<1>11. CASE LockAges
  BY <1>11 DEF LockAges
<1>12. CASE UNCHANGED vars
  BY <1>12 DEF vars
<1> QED
  BY <1>1, <1>2, <1>3, <1>4, <1>5, <1>6, <1>7, <1>8, <1>9, <1>10, <1>11, <1>12
     DEF Next, Step, Finished

(* Without a crash so far, no step takes away a directory in use or stores   *)
(* over a document that was not the one loaded.                              *)
LEMMA OwnershipStep ==
  IInv /\ [Next]_vars /\ crashes' = 0 => DirectoryIsOwned' /\ NoLostUpdate'
<1> SUFFICES ASSUME IInv, [Next]_vars, crashes' = 0
             PROVE  DirectoryIsOwned' /\ NoLostUpdate'
  OBVIOUS
<1> DEFINE Owned == DirectoryIsOwned' /\ NoLostUpdate'
<1>0. crashes = 0 /\ TypeOK /\ TypeOK' /\ DirectoryIsOwned /\ NoLostUpdate
  <2>1. TypeOK'
    BY TypeStep DEF IInv
  <2>2. crashes = 0
    BY BoundsAssumption
       DEF IInv, TypeOK, Next, Step, Call, AcquireLock, MkdirFails,
           StatFindsYoungOrNone, StatFindsStale, RemoveStale, Load, Store,
           ReleaseLock, Crash, LockAges, Finished, vars
  <2> QED
    BY <2>1, <2>2 DEF IInv
<1> USE <1>0, ProcsAssumption
        DEF TypeOK, PCs, CriticalPCs, Goto, DirectoryIsOwned, NoLostUpdate
<1>1. ASSUME NEW p \in Procs, Call(p) PROVE Owned
  BY <1>1 DEF Call
<1>2. ASSUME NEW p \in Procs, AcquireLock(p) PROVE Owned
  BY <1>2 DEF AcquireLock
<1>3. ASSUME NEW p \in Procs, MkdirFails(p) PROVE Owned
  BY <1>3 DEF MkdirFails
<1>4. ASSUME NEW p \in Procs, StatFindsYoungOrNone(p) PROVE Owned
  BY <1>4 DEF StatFindsYoungOrNone, RetryOrTimeOut
<1>5. ASSUME NEW p \in Procs, StatFindsStale(p) PROVE Owned
  BY <1>5 DEF StatFindsStale
<1>6. ASSUME NEW p \in Procs, RemoveStale(p) PROVE Owned
  BY <1>6 DEF RemoveStale
<1>7. ASSUME NEW p \in Procs, Load(p) PROVE Owned
  BY <1>7 DEF Load
<1>8. ASSUME NEW p \in Procs, Store(p) PROVE Owned
  BY <1>8 DEF Store
<1>9. ASSUME NEW p \in Procs, ReleaseLock(p) PROVE Owned
  BY <1>9 DEF ReleaseLock
<1>10. ASSUME NEW p \in Procs, Crash(p) PROVE Owned
  BY <1>10 DEF Crash
<1>11. CASE LockAges
  BY <1>11 DEF LockAges
<1>12. CASE UNCHANGED vars
  BY <1>12 DEF vars
<1> QED
  BY <1>1, <1>2, <1>3, <1>4, <1>5, <1>6, <1>7, <1>8, <1>9, <1>10, <1>11, <1>12
     DEF Next, Step, Finished

LEMMA StepIInv == IInv /\ [Next]_vars => IInv'
BY TypeStep, OwnershipStep DEF IInv

LEMMA SpecIInv == Spec => []IInv
BY InitIInv, StepIInv, PTL DEF Spec

(* The types hold in every reachable state. *)
THEOREM TypeCorrect == Spec => []TypeOK
<1>1. IInv => TypeOK
  BY DEF IInv
<1> QED
  BY <1>1, SpecIInv, PTL

(* As long as no process died inside FileLock, at most one is inside.        *)
THEOREM LockExcludes == Spec => []ExclusionUntilCrash
<1>1. IInv => ExclusionUntilCrash
  BY DEF IInv, TypeOK, ExclusionUntilCrash, MutualExclusion, DirectoryIsOwned
<1> QED
  BY <1>1, SpecIInv, PTL

(* Where no process dies, calls on a control file are atomic: the mkdir lock *)
(* implements AtomicJsonFile for every number of processes.                  *)
THEOREM LockImplementsAtomicFile ==
  ASSUME MaxCrashes = 0
  PROVE  Spec => CallsAreAtomic
<1>1. Init => Atomic!Init
  BY DEF Init, Atomic!Init
<1>2. IInv /\ [Next]_vars => [Atomic!Next]_<<doc, stores>>
  <2> SUFFICES ASSUME IInv, [Next]_vars
               PROVE  Atomic!Next \/ UNCHANGED <<doc, stores>>
    OBVIOUS
  <2>1. ASSUME NEW p \in Procs, Store(p) PROVE Atomic!Next
    <3>1. crashes = 0
      BY BoundsAssumption DEF IInv, TypeOK
    <3>2. CASE op[p] = "update"
      BY <2>1, <3>1, <3>2
         DEF IInv, NoLostUpdate, Store, Atomic!Next, Atomic!Update
    <3>3. CASE op[p] # "update"
      BY <2>1, <3>3 DEF Store, Atomic!Next, Atomic!Write
    <3> QED
      BY <3>2, <3>3
  <2>2. CASE ~ \E p \in Procs : Store(p)
    BY <2>2 DEF Next, Step, Call, AcquireLock, MkdirFails, StatFindsYoungOrNone,
                StatFindsStale, RemoveStale, Load, ReleaseLock, Crash, LockAges,
                Finished, vars
  <2> QED
    BY <2>1, <2>2
<1> QED
  BY <1>1, <1>2, SpecIInv, PTL DEF Spec, CallsAreAtomic, Atomic!Spec
=============================================================================
