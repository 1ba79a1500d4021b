---------------------------- MODULE Stages_proofs ----------------------------
(***************************************************************************)
(* Theorems about the stage lock, for any processes, tasks and number of   *)
(* faults.  The inductive invariant LockInv adds to the type invariant     *)
(* that the registries count the guards, and that, short of a robbery, the *)
(* file on disk is the one of every task that has the lock or is getting   *)
(* it (so that there is at most one such task).                            *)
(*                                                                         *)
(* And about the list of stages, for any stages, names and hooks, as long  *)
(* as no call fails: the invariant Steady, further down, and what the      *)
(* operators on lists do, by counting, without an induction.               *)
(*                                                                         *)
(* And about plans with loops, for sound graphs of any size: the visit of  *)
(* topological_order lists every node, and the invariant PlanInv.          *)
(***************************************************************************)
EXTENDS StageLock, StageList, LoopPlan, FiniteSetTheorems, SequenceTheorems,
        WellFoundedInduction, TLAPS

OwnerHasFile ==
  robbed \/ \A t \in Tasks :
              pc[t] \in Owning => file # NoFile /\ file.by = t

LockInv == TypeOK /\ GuardsCounted /\ OwnerHasFile

Guards(p) == Holders \cap TasksOf(p)

-----------------------------------------------------------------------------
(* A created or filled lock file is a file, and not NoFile.                *)
LEMMA LockFile ==
  ASSUME NEW t \in Tasks, NEW b \in BOOLEAN
  PROVE  /\ [by |-> t, full |-> b] \in [by : Tasks, full : BOOLEAN]
         /\ [by |-> t, full |-> b] # NoFile
BY ConstantsOK

(* The guards of a process are finitely many.                              *)
LEMMA GuardsFinite == \A p : IsFiniteSet(Guards(p))
BY ConstantsOK, FS_Subset DEF Guards, Holders

(* Steps that neither enter nor leave "holding" keep the registry right.   *)
LEMMA QuietCount ==
  ASSUME GuardsCounted, Holders' = Holders, held' = held
  PROVE  GuardsCounted'
BY DEF GuardsCounted, TasksOf

(* Such steps are those that move tasks between other values of pc.        *)
LEMMA SameHolders ==
  ASSUME TypeOK, NEW t \in Tasks, NEW to, Goto(t, to),
         pc[t] # "holding", to # "holding"
  PROVE  Holders' = Holders
BY DEF TypeOK, Goto, Holders

(* Registering a guard raises the count of its process, and only that.     *)
LEMMA RegisterCount ==
  ASSUME TypeOK, GuardsCounted, NEW t \in Tasks, Register(t)
  PROVE  GuardsCounted'
<1>1. Holders' = Holders \cup {t} /\ t \notin Holders
  BY DEF TypeOK, Register, Runs, Goto, Holders
<1>2. ASSUME NEW p \in Procs
      PROVE  held'[p] = Cardinality(Guards(p)')
  <2>1. CASE p = Home[t]
    <3>1. Guards(p)' = Guards(p) \cup {t} /\ t \notin Guards(p)
      BY <1>1, <2>1 DEF Guards, TasksOf
    <3>2. Cardinality(Guards(p)') = Cardinality(Guards(p)) + 1
      BY <3>1, GuardsFinite, FS_AddElement
    <3>3. held'[p] = held[p] + 1
      BY <2>1 DEF Register, TypeOK
    <3> QED
      BY <3>2, <3>3 DEF GuardsCounted, Guards
  <2>2. CASE p # Home[t]
    <3>1. Guards(p)' = Guards(p)
      BY <1>1, <2>2 DEF Guards, TasksOf
    <3>2. held'[p] = held[p]
      BY <2>2 DEF Register, TypeOK
    <3> QED
      BY <3>1, <3>2 DEF GuardsCounted, Guards
  <2> QED
    BY <2>1, <2>2
<1> QED
  BY <1>2 DEF GuardsCounted, Guards, TasksOf

(* A task that holds the lock is counted by its process's registry.        *)
LEMMA HolderCounted ==
  ASSUME TypeOK, GuardsCounted, NEW t \in Tasks, pc[t] = "holding"
  PROVE  held[Home[t]] \in Nat \ {0}
<1>1. t \in Guards(Home[t])
  BY DEF Guards, Holders, TasksOf
<1>2. Cardinality(Guards(Home[t])) # 0
  BY <1>1, GuardsFinite, FS_EmptySet
<1> QED
  BY <1>2, ConstantsOK DEF GuardsCounted, Guards, TypeOK

(* Dropping a guard lowers the count of its process, and only that.        *)
LEMMA ReleaseCount ==
  ASSUME TypeOK, GuardsCounted, NEW t \in Tasks, Release(t)
  PROVE  GuardsCounted'
<1>1. Holders' = Holders \ {t} /\ t \in Holders
  BY DEF TypeOK, Release, Runs, Goto, Holders
<1>2. ASSUME NEW p \in Procs
      PROVE  held'[p] = Cardinality(Guards(p)')
  <2>1. CASE p = Home[t]
    <3>1. Guards(p)' = Guards(p) \ {t} /\ t \in Guards(p)
      BY <1>1, <2>1 DEF Guards, TasksOf
    <3>2. Cardinality(Guards(p)') = Cardinality(Guards(p)) - 1
      BY <3>1, GuardsFinite, FS_RemoveElement
    <3>3. held'[p] = held[p] - 1
      BY <2>1 DEF Release, TypeOK
    <3> QED
      BY <3>2, <3>3 DEF GuardsCounted, Guards
  <2>2. CASE p # Home[t]
    <3>1. Guards(p)' = Guards(p)
      BY <1>1, <2>2 DEF Guards, TasksOf
    <3>2. held'[p] = held[p]
      BY <2>2 DEF Release, TypeOK
    <3> QED
      BY <3>1, <3>2 DEF GuardsCounted, Guards
  <2> QED
    BY <2>1, <2>2
<1> QED
  BY <1>2 DEF GuardsCounted, Guards, TasksOf

(* A killed process loses its guards and its registry together.            *)
LEMMA CrashCount ==
  ASSUME TypeOK, GuardsCounted, NEW q \in Procs, Crash(q)
  PROVE  GuardsCounted'
<1>1. ASSUME NEW p \in Procs
      PROVE  held'[p] = Cardinality(Guards(p)')
  <2>1. CASE p = q
    <3>1. Guards(p)' = {}
      BY <2>1 DEF Guards, Holders, TasksOf, Crash
    <3> QED
      BY <2>1, <3>1, FS_EmptySet DEF Crash, TypeOK
  <2>2. CASE p # q
    <3>1. Guards(p)' = Guards(p)
      BY <2>2 DEF Guards, Holders, TasksOf, Crash
    <3> QED
      BY <2>2, <3>1 DEF GuardsCounted, Guards, Crash, TypeOK
  <2> QED
    BY <2>1, <2>2
<1> QED
  BY <1>1 DEF GuardsCounted, Guards, TasksOf

-----------------------------------------------------------------------------
(* The initial states satisfy the invariant.                               *)
LEMMA InitLockInv == Init => LockInv
<1> SUFFICES ASSUME Init PROVE LockInv
  OBVIOUS
<1>1. TypeOK
  <2>1. file \in [by : Tasks, full : BOOLEAN] \cup {NoFile}
    BY DEF Init
  <2>2. pc \in [Tasks -> Steps] /\ saw \in [Tasks -> Procs \cup {NoProc}]
    BY DEF Init, Steps
  <2>3. held \in [Procs -> Nat] /\ faults \in 0..MaxFaults
    BY ConstantsOK DEF Init
  <2> QED
    BY <2>1, <2>2, <2>3 DEF Init, TypeOK
<1>2. \A p \in Procs : Guards(p) = {}
  BY DEF Init, Guards, Holders
<1>3. GuardsCounted
  BY <1>2, FS_EmptySet DEF Init, GuardsCounted, Guards
<1>4. OwnerHasFile
  BY DEF Init, OwnerHasFile, Owning
<1> QED
  BY <1>1, <1>3, <1>4 DEF LockInv

(* Every step keeps the types; only a release needs to know that the       *)
(* registry counts the guard it drops.                                     *)
LEMMA NextTypeOK == LockInv /\ [Next]_vars => TypeOK'
<1> SUFFICES ASSUME LockInv, [Next]_vars PROVE TypeOK'
  OBVIOUS
<1> USE ConstantsOK DEF LockInv, TypeOK, Steps, Owning, Goto, Runs
<1>1. ASSUME NEW t \in Tasks, Create(t) PROVE TypeOK'
  <2>1. CASE OpenExcl(t)
    BY <1>1, <2>1, LockFile DEF Create, OpenExcl
  <2>2. CASE ~OpenExcl(t)
    BY <1>1, <2>2 DEF Create
  <2> QED
    BY <2>1, <2>2
<1>2. ASSUME NEW t \in Tasks, WriteContent(t) PROVE TypeOK'
  BY <1>2, LockFile DEF WriteContent
<1>3. ASSUME NEW t \in Tasks, Register(t) PROVE TypeOK'
  BY <1>3 DEF Register
<1>4. ASSUME NEW t \in Tasks, ReadPid(t) PROVE TypeOK'
  BY <1>4 DEF ReadPid
<1>5. ASSUME NEW t \in Tasks, Judge(t) PROVE TypeOK'
  BY <1>5 DEF Judge
<1>6. ASSUME NEW t \in Tasks, RemoveFile(t) PROVE TypeOK'
  BY <1>6 DEF RemoveFile
<1>7. ASSUME NEW t \in Tasks, Recreate(t) PROVE TypeOK'
  <2>1. CASE OpenExcl(t)
    BY <1>7, <2>1, LockFile DEF Recreate, OpenExcl
  <2>2. CASE ~OpenExcl(t)
    BY <1>7, <2>2 DEF Recreate
  <2> QED
    BY <2>1, <2>2
<1>8. ASSUME NEW t \in Tasks, Release(t) PROVE TypeOK'
  <2>1. held[Home[t]] \in Nat \ {0}
    BY <1>8, HolderCounted DEF Release
  <2>2. held[Home[t]] - 1 \in Nat
    BY <2>1
  <2> QED
    BY <1>8, <2>2 DEF Release
<1>9. ASSUME NEW t \in Tasks, CallFails(t) PROVE TypeOK'
  BY <1>9 DEF CallFails, Fault
<1>10. ASSUME NEW p \in Procs, Crash(p) PROVE TypeOK'
  BY <1>10 DEF Crash, Fault
<1>11. ASSUME NEW p \in Procs, Restart(p) \/ ReusePid(p) \/ FreePid(p) PROVE TypeOK'
  BY <1>11 DEF Restart, ReusePid, FreePid, Fault
<1>12. CASE UNCHANGED vars
  BY <1>12 DEF vars
<1> QED
  BY <1>1, <1>2, <1>3, <1>4, <1>5, <1>6, <1>7, <1>8, <1>9, <1>10, <1>11, <1>12
     DEF Next

(* Every step keeps the registries equal to the numbers of guards.         *)
LEMMA NextGuardsCounted == LockInv /\ [Next]_vars => GuardsCounted'
<1> SUFFICES ASSUME LockInv, [Next]_vars PROVE GuardsCounted'
  OBVIOUS
<1> USE DEF LockInv
<1>1. ASSUME NEW t \in Tasks, Create(t) PROVE GuardsCounted'
  BY <1>1, SameHolders, QuietCount DEF Create, OpenExcl, Runs
<1>2. ASSUME NEW t \in Tasks, WriteContent(t) PROVE GuardsCounted'
  BY <1>2, SameHolders, QuietCount DEF WriteContent, Runs
<1>3. ASSUME NEW t \in Tasks, Register(t) PROVE GuardsCounted'
  BY <1>3, RegisterCount
<1>4. ASSUME NEW t \in Tasks, ReadPid(t) PROVE GuardsCounted'
  BY <1>4, SameHolders, QuietCount DEF ReadPid, Runs
<1>5. ASSUME NEW t \in Tasks, Judge(t) PROVE GuardsCounted'
  BY <1>5, SameHolders, QuietCount DEF Judge, Runs
<1>6. ASSUME NEW t \in Tasks, RemoveFile(t) PROVE GuardsCounted'
  BY <1>6, SameHolders, QuietCount DEF RemoveFile, Runs
<1>7. ASSUME NEW t \in Tasks, Recreate(t) PROVE GuardsCounted'
  BY <1>7, SameHolders, QuietCount DEF Recreate, OpenExcl, Runs
<1>8. ASSUME NEW t \in Tasks, Release(t) PROVE GuardsCounted'
  BY <1>8, ReleaseCount
<1>9. ASSUME NEW t \in Tasks, CallFails(t) PROVE GuardsCounted'
  BY <1>9, SameHolders, QuietCount DEF CallFails, Fault, Runs
<1>10. ASSUME NEW p \in Procs, Crash(p) PROVE GuardsCounted'
  BY <1>10, CrashCount
<1>11. ASSUME NEW p \in Procs, Restart(p) \/ ReusePid(p) \/ FreePid(p) PROVE GuardsCounted'
  BY <1>11, QuietCount DEF Restart, ReusePid, FreePid, Fault, Holders
<1>12. CASE UNCHANGED vars
  BY <1>12, QuietCount DEF vars, Holders
<1> QED
  BY <1>1, <1>2, <1>3, <1>4, <1>5, <1>6, <1>7, <1>8, <1>9, <1>10, <1>11, <1>12
     DEF Next

(* Short of a robbery, only its owner creates, fills and removes the file. *)
LEMMA NextOwnerHasFile == LockInv /\ [Next]_vars => OwnerHasFile'
<1> SUFFICES ASSUME LockInv, [Next]_vars PROVE OwnerHasFile'
  OBVIOUS
<1> USE ConstantsOK DEF LockInv, TypeOK, OwnerHasFile, Owning, Goto, Runs
<1>1. ASSUME NEW t \in Tasks, Create(t) PROVE OwnerHasFile'
  <2>1. CASE OpenExcl(t)
    BY <1>1, <2>1, LockFile DEF Create, OpenExcl
  <2>2. CASE ~OpenExcl(t)
    BY <1>1, <2>2 DEF Create
  <2> QED
    BY <2>1, <2>2
<1>2. ASSUME NEW t \in Tasks, WriteContent(t) PROVE OwnerHasFile'
  <2>1. CASE robbed
    BY <1>2, <2>1 DEF WriteContent
  <2>2. CASE ~robbed
    <3>1. file # NoFile /\ file.by = t
      BY <1>2, <2>2 DEF WriteContent
    <3>2. file' = [by |-> t, full |-> TRUE]
      BY <1>2, <3>1 DEF WriteContent
    <3>3. file' # NoFile /\ file'.by = t
      BY <3>2, LockFile
    <3>4. ASSUME NEW u \in Tasks, pc'[u] \in Owning PROVE u = t
      BY <1>2, <2>2, <3>1, <3>4 DEF WriteContent
    <3> QED
      BY <3>3, <3>4
  <2> QED
    BY <2>1, <2>2
<1>3. ASSUME NEW t \in Tasks, Register(t) PROVE OwnerHasFile'
  BY <1>3 DEF Register
<1>4. ASSUME NEW t \in Tasks, ReadPid(t) PROVE OwnerHasFile'
  BY <1>4 DEF ReadPid
<1>5. ASSUME NEW t \in Tasks, Judge(t) PROVE OwnerHasFile'
  BY <1>5 DEF Judge
<1>6. ASSUME NEW t \in Tasks, RemoveFile(t) PROVE OwnerHasFile'
  BY <1>6 DEF RemoveFile
<1>7. ASSUME NEW t \in Tasks, Recreate(t) PROVE OwnerHasFile'
  <2>1. CASE OpenExcl(t)
    BY <1>7, <2>1, LockFile DEF Recreate, OpenExcl
  <2>2. CASE ~OpenExcl(t)
    BY <1>7, <2>2 DEF Recreate
  <2> QED
    BY <2>1, <2>2
<1>8. ASSUME NEW t \in Tasks, Release(t) PROVE OwnerHasFile'
  BY <1>8 DEF Release
<1>9. ASSUME NEW t \in Tasks, CallFails(t) PROVE OwnerHasFile'
  BY <1>9 DEF CallFails, Fault
<1>10. ASSUME NEW p \in Procs, Crash(p) PROVE OwnerHasFile'
  BY <1>10 DEF Crash
<1>11. ASSUME NEW p \in Procs, Restart(p) \/ ReusePid(p) \/ FreePid(p) PROVE OwnerHasFile'
  BY <1>11 DEF Restart, ReusePid, FreePid, Fault
<1>12. CASE UNCHANGED vars
  BY <1>12 DEF vars
<1> QED
  BY <1>1, <1>2, <1>3, <1>4, <1>5, <1>6, <1>7, <1>8, <1>9, <1>10, <1>11, <1>12
     DEF Next

(* The invariant holds in every reachable state.                           *)
LEMMA LockInvariant == Spec => []LockInv
<1>1. LockInv /\ [Next]_vars => LockInv'
  BY NextTypeOK, NextGuardsCounted, NextOwnerHasFile DEF LockInv
<1> QED
  BY InitLockInv, <1>1, PTL DEF Spec

-----------------------------------------------------------------------------
(* Type correctness: the lock file, the registries and the tasks of        *)
(* acquire_lock keep their types; no registry count drops below zero.      *)
THEOREM Typing == Spec => []TypeOK
BY LockInvariant, PTL DEF LockInv

(* A process's registry counts exactly its live guards.                    *)
THEOREM RegistryExact == Spec => []GuardsCounted
BY LockInvariant, PTL DEF LockInv

(* Two tasks hold the lock together only after a stealer has deleted the   *)
(* lock file of a task that was using it.                                  *)
THEOREM MutualExclusion == Spec => []MutexUnlessRobbed
<1>1. LockInv => MutexUnlessRobbed
  BY DEF LockInv, OwnerHasFile, MutexUnlessRobbed, Holders, Owning
<1> QED
  BY <1>1, LockInvariant, PTL

-----------------------------------------------------------------------------
(* As long as nothing has failed, a lock file is some live task's concern: *)
(* not always of the one that made it, but of one of its process.          *)
Attended ==
  (faults = 0 /\ file # NoFile) =>
    \E t \in Tasks : Home[t] = Home[file.by] /\ pc[t] \in Owning

(* A file that is created or filled is attended by its task.               *)
LEMMA OwnAttends ==
  ASSUME TypeOK, NEW t \in Tasks, NEW b \in BOOLEAN, NEW to \in Owning,
         file' = [by |-> t, full |-> b], Goto(t, to)
  PROVE  Attended'
BY DEF TypeOK, Attended, Goto

(* Who attends to a file and stays does so after the step.                 *)
LEMMA StillAttended ==
  ASSUME Attended, TypeOK, NEW t \in Tasks, NEW to, Goto(t, to),
         pc[t] \notin Owning \/ to \in Owning, UNCHANGED <<file, faults>>
  PROVE  Attended'
BY DEF TypeOK, Attended, Goto

(* The file goes with the last guard of its process.                       *)
LEMMA ReleaseAttended ==
  ASSUME LockInv, Attended, NEW t \in Tasks, Release(t)
  PROVE  Attended'
<1>1. SUFFICES ASSUME faults = 0, file' # NoFile
               PROVE  \E u \in Tasks : Home[u] = Home[file'.by] /\ pc'[u] \in Owning
  BY DEF Attended, Release
<1>2. file' = file /\ held'[Home[t]] # 0 /\ \A u \in Tasks : u # t => pc'[u] = pc[u]
  BY <1>1 DEF Release, Goto, LockInv, TypeOK
<1>3. CASE Home[file.by] = Home[t]
  <2>1. held'[Home[t]] = Cardinality(Guards(Home[t])')
    BY ReleaseCount, ConstantsOK DEF LockInv, GuardsCounted, Guards, TasksOf
  <2>2. PICK u \in Guards(Home[t])' : TRUE
    BY <1>2, <2>1, FS_EmptySet
  <2>3. Home[u] = Home[t] /\ pc'[u] \in Owning /\ u \in Tasks
    BY DEF Guards, Holders, TasksOf, Owning
  <2> QED
    BY <1>2, <1>3, <2>3
<1>4. CASE Home[file.by] # Home[t]
  BY <1>1, <1>2, <1>4 DEF Attended
<1> QED
  BY <1>3, <1>4

(* Every step leaves an attended file attended, or has failed.             *)
LEMMA NextAttended == LockInv /\ Attended /\ [Next]_vars => Attended'
<1> SUFFICES ASSUME LockInv, Attended, [Next]_vars PROVE Attended'
  OBVIOUS
<1> USE DEF LockInv
<1>1. ASSUME NEW t \in Tasks, Create(t) PROVE Attended'
  <2>1. CASE OpenExcl(t)
    BY <2>1, OwnAttends DEF OpenExcl, Owning
  <2>2. CASE Goto(t, "read") /\ UNCHANGED file
    BY <1>1, <2>2, StillAttended DEF Create, Runs, Owning
  <2> QED
    BY <1>1, <2>1, <2>2 DEF Create
<1>2. ASSUME NEW t \in Tasks, WriteContent(t) PROVE Attended'
  <2>1. CASE file' = [by |-> t, full |-> TRUE]
    BY <1>2, <2>1, OwnAttends DEF WriteContent, Owning
  <2>2. CASE UNCHANGED file
    BY <1>2, <2>2, StillAttended DEF WriteContent, Owning
  <2> QED
    BY <1>2, <2>1, <2>2 DEF WriteContent
<1>3. ASSUME NEW t \in Tasks, Register(t) PROVE Attended'
  BY <1>3, StillAttended DEF Register, Owning
<1>4. ASSUME NEW t \in Tasks, ReadPid(t) \/ Judge(t) PROVE Attended'
  BY <1>4, StillAttended DEF ReadPid, Judge, Runs, Owning
<1>5. ASSUME NEW t \in Tasks, RemoveFile(t) PROVE Attended'
  BY <1>5 DEF RemoveFile, Attended
<1>6. ASSUME NEW t \in Tasks, Recreate(t) PROVE Attended'
  <2>1. CASE OpenExcl(t)
    BY <2>1, OwnAttends DEF OpenExcl, Owning
  <2>2. CASE Goto(t, "idle") /\ UNCHANGED file
    BY <1>6, <2>2, StillAttended DEF Recreate, Runs, Owning
  <2> QED
    BY <1>6, <2>1, <2>2 DEF Recreate
<1>7. ASSUME NEW t \in Tasks, Release(t) PROVE Attended'
  BY <1>7, ReleaseAttended
<1>8. ASSUME NEW t \in Tasks, CallFails(t) PROVE Attended'
  BY <1>8 DEF CallFails, Fault, Attended, TypeOK
<1>9. ASSUME NEW p \in Procs, Crash(p) PROVE Attended'
  BY <1>9 DEF Crash, Fault, Attended, TypeOK
<1>10. ASSUME NEW p \in Procs, Restart(p) \/ ReusePid(p) \/ FreePid(p) PROVE Attended'
  BY <1>10 DEF Restart, ReusePid, FreePid, Fault, Attended, TypeOK
<1>11. CASE UNCHANGED vars
  BY <1>11 DEF vars, Attended
<1> QED
  BY <1>1, <1>2, <1>3, <1>4, <1>5, <1>6, <1>7, <1>8, <1>9, <1>10, <1>11 DEF Next

(* Without a crash or a failed call the lock file goes with the tasks,     *)
(* robberies and several guards of one process included.                   *)
THEOREM FileGoes == Spec => []NoLeftover
<1>1. Init => Attended
  BY DEF Init, Attended
<1>2. LockInv /\ Attended => NoLeftover
  BY DEF Attended, NoLeftover, Owning
<1> QED
  BY <1>1, <1>2, NextAttended, LockInvariant, PTL DEF Spec

-----------------------------------------------------------------------------
(* Each step of the lock file is a step of the abstract lock: registering  *)
(* a guard is its Acquire, releasing and dying are its LetGo, a robbery is *)
(* its Break, and every other step leaves it unchanged.                    *)
LEMMA StepRefines == LockInv /\ [Next]_vars => [Abstract!Next]_(Abstract!vars)
<1> SUFFICES ASSUME LockInv, [Next]_vars
             PROVE  [Abstract!Next]_(Abstract!vars)
  OBVIOUS
<1> DEFINE Refines == [Abstract!Next]_(Abstract!vars)
<1>0. ASSUME Holders' = Holders, robbed' = robbed PROVE Refines
  BY <1>0 DEF Abstract!vars
<1> USE DEF LockInv
<1>1. ASSUME NEW t \in Tasks, Register(t) PROVE Refines
  <2>1. Holders' = Holders \cup {t} /\ t \notin Holders /\ robbed' = robbed
    BY <1>1 DEF Register, Runs, Goto, Holders, TypeOK
  <2>2. Holders = {} \/ robbed
    BY <1>1 DEF Register, Runs, Holders, OwnerHasFile, Owning
  <2>3. Abstract!Acquire(t)
    BY <2>1, <2>2 DEF Abstract!Acquire
  <2> QED
    BY <2>3 DEF Abstract!Next
<1>2. ASSUME NEW t \in Tasks, Release(t) PROVE Refines
  <2>1. Holders' = Holders \ {t} /\ t \in Holders /\ robbed' = robbed
    BY <1>2 DEF Release, Runs, Goto, Holders, TypeOK
  <2>2. Abstract!LetGo({t})
    BY <2>1 DEF Abstract!LetGo
  <2> QED
    BY <2>1, <2>2 DEF Abstract!Next
<1>3. ASSUME NEW p \in Procs, Crash(p) PROVE Refines
  <2>1. Holders' = Holders \ Guards(p) /\ robbed' = robbed
    BY <1>3 DEF Crash, Guards, Holders, TasksOf
  <2>2. CASE Guards(p) = {}
    BY <1>0, <2>1, <2>2
  <2>3. CASE Guards(p) # {}
    <3>1. Abstract!LetGo(Guards(p))
      BY <2>1, <2>3 DEF Abstract!LetGo
    <3>2. Guards(p) \in SUBSET Holders
      BY DEF Guards
    <3> QED
      BY <3>1, <3>2 DEF Abstract!Next
  <2> QED
    BY <2>2, <2>3
<1>4. ASSUME NEW t \in Tasks, RemoveFile(t) PROVE Refines
  <2>1. Holders' = Holders
    BY <1>4, SameHolders DEF RemoveFile, Runs
  <2>2. CASE robbed' = robbed
    BY <1>0, <2>1, <2>2
  <2>3. CASE robbed' # robbed
    <3>1. robbed' = TRUE
      BY <1>4, <2>3 DEF RemoveFile, TypeOK
    <3>2. Abstract!Break
      BY <2>1, <3>1 DEF Abstract!Break
    <3> QED
      BY <3>2 DEF Abstract!Next
  <2> QED
    BY <2>2, <2>3
<1>5. ASSUME NEW t \in Tasks, Create(t) PROVE Refines
  BY <1>0, <1>5, SameHolders DEF Create, OpenExcl, Runs
<1>6. ASSUME NEW t \in Tasks, WriteContent(t) PROVE Refines
  BY <1>0, <1>6, SameHolders DEF WriteContent, Runs
<1>7. ASSUME NEW t \in Tasks, ReadPid(t) PROVE Refines
  BY <1>0, <1>7, SameHolders DEF ReadPid, Runs
<1>8. ASSUME NEW t \in Tasks, Judge(t) PROVE Refines
  BY <1>0, <1>8, SameHolders DEF Judge, Runs
<1>9. ASSUME NEW t \in Tasks, Recreate(t) PROVE Refines
  BY <1>0, <1>9, SameHolders DEF Recreate, OpenExcl, Runs
<1>10. ASSUME NEW t \in Tasks, CallFails(t) PROVE Refines
  BY <1>0, <1>10, SameHolders DEF CallFails, Fault, Runs
<1>11. ASSUME NEW p \in Procs, Restart(p) \/ ReusePid(p) \/ FreePid(p) PROVE Refines
  BY <1>0, <1>11 DEF Restart, ReusePid, FreePid, Fault, Holders
<1>12. CASE UNCHANGED vars
  BY <1>0, <1>12 DEF vars, Holders
<1> QED
  BY <1>1, <1>2, <1>3, <1>4, <1>5, <1>6, <1>7, <1>8, <1>9, <1>10, <1>11, <1>12
     DEF Next

(* The lock file implements the abstract lock of StageMutex.               *)
THEOREM LockRefinesMutex == Spec => Promise
<1>1. Init => Abstract!Init
  BY DEF Init, Abstract!Init, Holders
<1> QED
  BY <1>1, StepRefines, LockInvariant, PTL DEF Spec, Promise, Abstract!Spec

-----------------------------------------------------------------------------
(* The list of stages.  While no call has failed, the list names the       *)
(* directories there are, whatever the hooks insert and remove, and what   *)
(* has begun has only complete stages in front of it.                      *)
Marks == {"absent", "pending", "complete", "error"}
Entries == [id : Ids, mark : Marks]
Unique(list) == \A i, j \in DOMAIN list : list[i].id = list[j].id => i = j

(* What a stage has once it was begun: a marker, on disk or in memory, or  *)
(* the actor.                                                              *)
Begun(s) ==
  \/ s = cur
  \/ disk[s] \notin {"absent", "pending"}
  \/ \E x \in ToSet(mem) : x.id = s /\ x.mark # "pending"

(* Every stage with a lower number is known to be complete.                *)
Ordered(s) == \A x \in ToSet(mem) : Number(x.id) < Number(s) => x.mark = "complete"

(* The invariant while no call has failed: the list names each directory   *)
(* once; it takes no stage for complete that is not, nor the one that      *)
(* runs; and what has begun has only complete stages in front of it.       *)
Steady ==
  /\ disk \in [Ids -> Marks]
  /\ mem \in Seq(Entries)
  /\ ins \in Seq(Letters)
  /\ IF doing = "idle" THEN cur = Nothing ELSE cur \in Ids
  /\ doing # "down"
  /\ Listed(mem) = OnDisk /\ Unique(mem)
  /\ \A x \in ToSet(mem) : x.mark = "complete" => disk[x.id] = "complete" /\ x.id # cur
  /\ \A s \in Ids : Begun(s) => Ordered(s)

ListInv == failures \in Nat /\ (failures = 0 => Steady)
-----------------------------------------------------------------------------
(* A set of numbers that is not empty has a least.                         *)
LEMMA LeastOf ==
  ASSUME NEW T \in SUBSET Nat, T # {}
  PROVE  \E m \in T : \A k \in T : m <= k
<1>1. IsWellFoundedOn(OpToRel(<, Nat), Nat)
  BY NatLessThanWellFounded
<1>2. PICK m \in T : \A k \in T : <<k, m>> \notin OpToRel(<, Nat)
  BY <1>1, WFMin
<1>3. \A k \in T : ~(k < m)
  BY <1>2 DEF OpToRel
<1>4. \A k \in T : m <= k
  BY <1>3
<1> QED
  BY <1>4
-----------------------------------------------------------------------------
(* Sorted is a list of its set, each element once: the numbers of elements *)
(* in front are different, and there are as many as places.                *)
StrictOrder(R, S) ==
  /\ \A x \in S : <<x, x>> \notin R
  /\ \A x, y \in S : x = y \/ <<x, y>> \in R \/ <<y, x>> \in R
  /\ \A x, y, z \in S : <<x, y>> \in R /\ <<y, z>> \in R => <<x, z>> \in R

LEMMA SortedIsList ==
  ASSUME NEW S, IsFiniteSet(S), NEW R, StrictOrder(R, S)
  PROVE  /\ Sorted(S, R) \in Seq(S)
         /\ ToSet(Sorted(S, R)) = S
         /\ \A i, j \in DOMAIN Sorted(S, R) : Sorted(S, R)[i] = Sorted(S, R)[j] => i = j
<1> DEFINE n == Cardinality(S)
           Lower(x) == {y \in S : <<y, x>> \in R}
           rank == [x \in S |-> Cardinality(Lower(x))]
           s == Sorted(S, R)
<1>1. n \in Nat
  BY FS_CardinalityType
<1>2. ASSUME NEW x \in S
      PROVE  IsFiniteSet(Lower(x)) /\ Cardinality(Lower(x)) \in 0..(n - 1)
  <2>1. Lower(x) \in SUBSET (S \ {x})
    BY DEF StrictOrder
  <2>2. IsFiniteSet(S \ {x}) /\ Cardinality(S \ {x}) = n - 1
    BY FS_RemoveElement
  <2> HIDE DEF Lower
  <2>3. IsFiniteSet(Lower(x)) /\ Cardinality(Lower(x)) <= n - 1
    BY <2>1, <2>2, FS_Subset
  <2> QED
    BY <1>1, <2>3, FS_CardinalityType
<1>3. ASSUME NEW x \in S, NEW y \in S, <<x, y>> \in R
      PROVE  Cardinality(Lower(x)) # Cardinality(Lower(y))
  <2>1. Lower(x) \cup {x} \in SUBSET Lower(y) /\ x \notin Lower(x)
    BY <1>3 DEF StrictOrder
  <2>2. IsFiniteSet(Lower(x)) /\ Cardinality(Lower(x)) \in 0..(n - 1)
    BY <1>2
  <2>3. IsFiniteSet(Lower(y)) /\ Cardinality(Lower(y)) \in 0..(n - 1)
    BY <1>2
  <2> HIDE DEF Lower
  <2>4. Cardinality(Lower(x) \cup {x}) = Cardinality(Lower(x)) + 1
    BY <2>1, <2>2, FS_AddElement
  <2>5. Cardinality(Lower(x) \cup {x}) <= Cardinality(Lower(y))
    BY <2>1, <2>3, FS_Subset
  <2> QED
    BY <1>1, <2>2, <2>3, <2>4, <2>5
<1>4. rank \in Injection(S, 0..(n - 1))
  <2>1. rank \in [S -> 0..(n - 1)]
    BY <1>2
  <2>2. ASSUME NEW x \in S, NEW y \in S, rank[x] = rank[y] PROVE x = y
    <3>1. rank[x] = Cardinality(Lower(x)) /\ rank[y] = Cardinality(Lower(y))
      OBVIOUS
    <3> HIDE DEF Lower, rank
    <3> QED
      BY <1>3, <2>2, <3>1 DEF StrictOrder
  <2> HIDE DEF rank
  <2> QED
    BY <2>1, <2>2 DEF Injection, IsInjective
<1>5. rank \in Surjection(S, 0..(n - 1))
  <2>1. IsFiniteSet(0..(n - 1)) /\ Cardinality(0..(n - 1)) = n
    BY <1>1, FS_Interval
  <2> HIDE DEF rank
  <2> QED
    BY <1>4, <2>1, FS_Injection
<1>6. ASSUME NEW i \in 1..n PROVE s[i] \in S /\ rank[s[i]] = i - 1
  <2>1. i - 1 \in 0..(n - 1)
    BY <1>1
  <2>2. \E x \in S : rank[x] = i - 1
    <3> HIDE DEF rank
    <3> QED
      BY <1>5, <2>1 DEF Surjection
  <2>3. \E x \in S : Cardinality(Lower(x)) = i - 1
    BY <2>2
  <2>4. s[i] = CHOOSE x \in S : Cardinality(Lower(x)) = i - 1
    BY DEF Sorted
  <2>5. s[i] \in S /\ Cardinality(Lower(s[i])) = i - 1
    <3> HIDE DEF Lower, s
    <3> QED
      BY <2>3, <2>4
  <2> HIDE DEF Lower, s
  <2> QED
    BY <2>5
<1>7. DOMAIN s = 1..n
  BY DEF Sorted
<1>8. s \in Seq(S)
  <2> DEFINE at(i) == CHOOSE x \in S : Cardinality(Lower(x)) = i - 1
  <2>1. s = [i \in 1..n |-> at(i)]
    BY DEF Sorted
  <2> HIDE DEF at, s
  <2>2. \A i \in 1..n : at(i) \in S
    BY <1>6, <2>1
  <2> QED
    BY <1>1, <2>1, <2>2
<1> HIDE DEF rank, s
<1>9. ASSUME NEW x \in S PROVE \E i \in 1..n : s[i] = x
  <2>1. rank[x] \in 0..(n - 1) /\ rank[x] + 1 \in 1..n /\ (rank[x] + 1) - 1 = rank[x]
    BY <1>1, <1>4 DEF Injection
  <2>2. s[rank[x] + 1] = x
    BY <1>4, <1>6, <2>1 DEF Injection, IsInjective
  <2> QED
    BY <2>1, <2>2
<1>10. ToSet(s) = S
  BY <1>6, <1>7, <1>9 DEF ToSet
<1>11. ASSUME NEW i \in 1..n, NEW j \in 1..n, s[i] = s[j] PROVE i = j
  BY <1>1, <1>6, <1>11
<1> QED
  BY <1>7, <1>8, <1>10, <1>11 DEF s

(* There are finitely many stages.                                         *)
LEMMA IdsFinite == IsFiniteSet(Ids) /\ \A s \in Ids : s[1] \in Nat /\ s[2] \in Nat
<1>1. IsFiniteSet(1..MaxNumber)
  BY ListOK, FS_Interval
<1>2. IsFiniteSet((1..MaxNumber) \X Letters)
  BY <1>1, ListOK, FS_Product
<1>3. IsFiniteSet(Ids)
  BY <1>2 DEF Ids
<1>4. ASSUME NEW s \in Ids PROVE s[1] \in Nat /\ s[2] \in Nat
  <2>1. s[1] \in 1..MaxNumber /\ s[2] \in Letters
    BY DEF Ids
  <2>2. s[1] \in Nat
    BY <2>1
  <2>3. Letters \subseteq Nat
    BY ListOK
  <2> QED
    BY <2>1, <2>2, <2>3
<1> QED
  BY <1>3, <1>4

(* Sorting keeps what is listed, and names no stage twice.                 *)
LEMMA InOrderKeeps ==
  ASSUME NEW S \in SUBSET Entries, IsFiniteSet(S),
         \A x, y \in S : x.id = y.id => x = y
  PROVE  InOrder(S) \in Seq(Entries) /\ ToSet(InOrder(S)) = S /\ Unique(InOrder(S))
<1> DEFINE R == {p \in S \X S : Before(p[1].id, p[2].id)}
<1>1. \A x, y \in S : <<x, y>> \in R <=> Before(x.id, y.id)
  OBVIOUS
<1>2. \A x \in S : x.id \in Ids /\ x.id[1] \in Nat /\ x.id[2] \in Nat
                   /\ x.id = <<x.id[1], x.id[2]>>
  BY IdsFinite DEF Entries, Ids
<1>3. StrictOrder(R, S)
  <2>1. ASSUME NEW x \in S PROVE ~Before(x.id, x.id)
    BY <1>2 DEF Before
  <2>2. ASSUME NEW x \in S, NEW y \in S PROVE x = y \/ Before(x.id, y.id) \/ Before(y.id, x.id)
    BY <1>2 DEF Before
  <2>3. ASSUME NEW x \in S, NEW y \in S, NEW z \in S, Before(x.id, y.id), Before(y.id, z.id)
        PROVE  Before(x.id, z.id)
    BY <1>2, <2>3 DEF Before
  <2> HIDE DEF R
  <2> QED
    BY <1>1, <2>1, <2>2, <2>3 DEF StrictOrder
<1>4. InOrder(S) = Sorted(S, R)
  BY DEF InOrder
<1> HIDE DEF R
<1>5. /\ InOrder(S) \in Seq(S) /\ ToSet(InOrder(S)) = S
      /\ \A i, j \in DOMAIN InOrder(S) : InOrder(S)[i] = InOrder(S)[j] => i = j
  BY <1>3, <1>4, SortedIsList
<1>6. InOrder(S) \in Seq(Entries)
  BY <1>5, SeqMonotonic
<1>7. \A i \in DOMAIN InOrder(S) : InOrder(S)[i] \in S
  BY <1>5
<1> QED
  BY <1>5, <1>6, <1>7 DEF Unique

(* What is kept of a list is in it, if it is all of it.                    *)
LEMMA KeptAll ==
  ASSUME NEW list \in Seq(Entries), Unique(list)
  PROVE  LET new == Kept(list, DOMAIN list)
         IN  new \in Seq(Entries) /\ ToSet(new) = ToSet(list) /\ Unique(new)
<1> DEFINE K == DOMAIN list
           R == {p \in K \X K : p[1] < p[2]}
           at == Sorted(K, R)
           new == Kept(list, K)
<1>1. K = 1..Len(list) /\ IsFiniteSet(K) /\ \A i \in K : list[i] \in Entries
  BY FS_Interval
<1>2. StrictOrder(R, K)
  <2>1. \A i, j \in K : <<i, j>> \in R <=> i < j
    OBVIOUS
  <2> HIDE DEF R
  <2> QED
    BY <1>1, <2>1 DEF StrictOrder
<1> HIDE DEF R
<1>3. /\ at \in Seq(K) /\ ToSet(at) = K
      /\ \A i, j \in DOMAIN at : at[i] = at[j] => i = j
  <2> HIDE DEF K
  <2> QED
    BY <1>1, <1>2, SortedIsList
<1>4. new = [i \in DOMAIN at |-> list[at[i]]]
  BY DEF Kept, R
<1> HIDE DEF at, new, K
<1>5. DOMAIN at = 1..Len(at) /\ Len(at) \in Nat /\ \A i \in DOMAIN at : at[i] \in K
  BY <1>3
<1>6. new \in Seq(Entries)
  BY <1>1, <1>4, <1>5
<1>7. ToSet(new) = ToSet(list)
  BY <1>3, <1>4, <1>5 DEF ToSet, K
<1>8. Unique(new)
  BY <1>3, <1>4, <1>5 DEF Unique, K
<1> QED
  BY <1>6, <1>7, <1>8 DEF new, K

(* The place of a stage in a list that names it.                           *)
LEMMA IndexFound ==
  ASSUME NEW list \in Seq(Entries), NEW s \in Listed(list)
  PROVE  IndexOf(list, s) \in 1..Len(list) /\ list[IndexOf(list, s)].id = s
<1> DEFINE I == {i \in 1..Len(list) : list[i].id = s}
<1>1. I # {} /\ I \in SUBSET Nat /\ I \subseteq 1..Len(list)
  BY DEF Listed
<1>2. IndexOf(list, s) = Min(I)
  BY <1>1 DEF IndexOf, SelectInSeq
<1> HIDE DEF I
<1>3. \E m \in I : \A k \in I : m <= k
  BY <1>1, LeastOf
<1>4. Min(I) \in I
  BY <1>3 DEF Min
<1> QED
  BY <1>2, <1>4 DEF I

(* insert_stage_after adds one stage.                                      *)
LEMMA InsertAdds ==
  ASSUME NEW list \in Seq(Entries), Unique(list), NEW k \in 1..Len(list),
         NEW e \in Entries, e.id \notin Listed(list)
  PROVE  LET new == InsertAt(list, k + 1, e)
         IN  new \in Seq(Entries) /\ ToSet(new) = ToSet(list) \cup {e} /\ Unique(new)
<1> DEFINE n == Len(list)
           a == SubSeq(list, 1, k)
           b == SubSeq(list, k + 1, n)
           new == InsertAt(list, k + 1, e)
<1>1. n \in Nat /\ \A i \in 1..n : list[i] \in Entries
  OBVIOUS
<1>2. a \in Seq(Entries) /\ Len(a) = k /\ \A i \in 1..k : a[i] = list[i]
  <2>1. \A i \in 1..k : list[i] \in Entries
    BY <1>1
  <2> QED
    BY <1>1, <2>1, SubSeqProperties
<1>3. b \in Seq(Entries) /\ Len(b) = n - k /\ \A i \in 1..(n - k) : b[i] = list[k + i]
  <2>1. \A i \in (k + 1)..n : list[i] \in Entries
    BY <1>1
  <2>2. /\ b \in Seq(Entries) /\ Len(b) = IF k + 1 <= n THEN n - (k + 1) + 1 ELSE 0
        /\ \A i \in 1..(n - (k + 1) + 1) : b[i] = list[(k + 1) + i - 1]
    <3> HIDE DEF n
    <3> QED
      BY <1>1, <2>1, SubSeqProperties
  <2> HIDE DEF b, n
  <2>3. n - (k + 1) + 1 = n - k /\ \A i \in 1..(n - k) : (k + 1) + i - 1 = k + i
    BY <1>1
  <2>4. Len(b) = n - k
    BY <1>1, <2>2 DEF n
  <2> QED
    BY <2>2, <2>3, <2>4
<1>4. new = a \o <<e>> \o b
  <2>1. (k + 1) - 1 = k
    OBVIOUS
  <2> QED
    BY <2>1 DEF InsertAt
<1> HIDE DEF a, b, new
<1>5. <<e>> \in Seq(Entries) /\ Len(<<e>>) = 1 /\ <<e>>[1] = e
  OBVIOUS
<1>6. /\ a \o <<e>> \in Seq(Entries) /\ Len(a \o <<e>>) = k + 1
      /\ \A i \in 1..(k + 1) : (a \o <<e>>)[i] = IF i <= k THEN a[i] ELSE <<e>>[i - k]
  BY <1>2, <1>5, ConcatProperties
<1>7. /\ new \in Seq(Entries) /\ Len(new) = n + 1
      /\ \A i \in 1..(n + 1) : new[i] = IF i <= k + 1 THEN (a \o <<e>>)[i] ELSE b[i - (k + 1)]
  <2> DEFINE c == a \o <<e>>
  <2>1. c \in Seq(Entries) /\ Len(c) = k + 1 /\ new = c \o b
    BY <1>4, <1>6
  <2> HIDE DEF c
  <2>2. Len(c) + Len(b) = n + 1
    BY <1>1, <1>3, <2>1
  <2>3. /\ c \o b \in Seq(Entries) /\ Len(c \o b) = Len(c) + Len(b)
        /\ \A i \in 1..(Len(c) + Len(b)) : (c \o b)[i] = IF i <= Len(c) THEN c[i] ELSE b[i - Len(c)]
    BY <1>3, <2>1, ConcatProperties
  <2>4. /\ new \in Seq(Entries) /\ Len(new) = n + 1
        /\ \A i \in 1..(n + 1) : new[i] = IF i <= k + 1 THEN c[i] ELSE b[i - (k + 1)]
    <3> HIDE DEF n
    <3> QED
      BY <2>1, <2>2, <2>3
  <2> QED
    BY <2>4 DEF c
<1>8. \A i \in 1..(n + 1) : new[i] = IF i <= k THEN list[i] ELSE IF i = k + 1 THEN e ELSE list[i - 1]
  <2> SUFFICES ASSUME NEW i \in 1..(n + 1)
               PROVE  new[i] = IF i <= k THEN list[i] ELSE IF i = k + 1 THEN e ELSE list[i - 1]
    OBVIOUS
  <2>1. CASE i <= k
    BY <1>1, <1>2, <1>6, <1>7, <2>1
  <2>2. CASE i = k + 1
    <3>1. i \in 1..(k + 1) /\ ~(i <= k) /\ i - k = 1
      BY <1>1, <2>2
    <3> QED
      BY <1>5, <1>6, <1>7, <2>2, <3>1
  <2>3. CASE i > k + 1
    <3>1. ~(i <= k + 1) /\ i - (k + 1) \in 1..(n - k) /\ k + (i - (k + 1)) = i - 1
      BY <1>1, <2>3
    <3>2. new[i] = b[i - (k + 1)]
      BY <1>7, <3>1
    <3>3. b[i - (k + 1)] = list[k + (i - (k + 1))]
      BY <1>3, <3>1
    <3>4. ~(i <= k) /\ i # k + 1
      BY <1>1, <2>3
    <3> HIDE DEF n
    <3> QED
      BY <3>1, <3>2, <3>3, <3>4
  <2> QED
    BY <1>1, <2>1, <2>2, <2>3
<1>9. ToSet(new) = ToSet(list) \cup {e}
  <2>1. DOMAIN new = 1..(n + 1) /\ DOMAIN list = 1..n
    BY <1>7
  <2>2. ASSUME NEW i \in 1..(n + 1) PROVE new[i] \in ToSet(list) \cup {e}
    <3>1. i <= k => i \in 1..n
      BY <1>1
    <3>2. ~(i <= k) /\ i # k + 1 => i - 1 \in 1..n
      BY <1>1
    <3> QED
      BY <1>8, <2>1, <3>1, <3>2 DEF ToSet
  <2>3. ASSUME NEW i \in 1..n PROVE \E j \in 1..(n + 1) : new[j] = list[i]
    <3>1. CASE i <= k
      BY <1>1, <1>8, <3>1
    <3>2. CASE ~(i <= k)
      <4>1. i + 1 \in 1..(n + 1) /\ ~(i + 1 <= k) /\ i + 1 # k + 1 /\ (i + 1) - 1 = i
        BY <1>1, <3>2
      <4> QED
        BY <1>8, <4>1
    <3> QED
      BY <3>1, <3>2
  <2>4. k + 1 \in 1..(n + 1) /\ new[k + 1] = e
    BY <1>1, <1>8
  <2> QED
    BY <2>1, <2>2, <2>3, <2>4 DEF ToSet
<1>10. Unique(new)
  <2>1. DOMAIN new = 1..(n + 1) /\ DOMAIN list = 1..n
    BY <1>7
  <2>2. \A i \in 1..n : list[i].id # e.id
    BY <2>1 DEF Listed
  <2>3. \A i, j \in 1..n : list[i].id = list[j].id => i = j
    BY <2>1 DEF Unique
  <2>4. ASSUME NEW i \in 1..(n + 1), i # k + 1
        PROVE  \E p \in 1..n : new[i] = list[p] /\ i = IF p <= k THEN p ELSE p + 1
    <3>1. CASE i <= k
      BY <1>1, <1>8, <3>1
    <3>2. CASE ~(i <= k)
      <4>1. i - 1 \in 1..n /\ ~(i - 1 <= k) /\ (i - 1) + 1 = i
        BY <1>1, <2>4, <3>2
      <4> QED
        BY <1>8, <2>4, <3>2, <4>1
    <3> QED
      BY <3>1, <3>2
  <2>5. new[k + 1] = e
    BY <1>1, <1>8
  <2>6. ASSUME NEW i \in 1..(n + 1), NEW j \in 1..(n + 1), new[i].id = new[j].id PROVE i = j
    <3>1. CASE i = k + 1 \/ j = k + 1
      BY <2>2, <2>4, <2>5, <2>6, <3>1
    <3>2. CASE i # k + 1 /\ j # k + 1
      <4>1. PICK p \in 1..n : new[i] = list[p] /\ i = IF p <= k THEN p ELSE p + 1
        BY <2>4, <3>2
      <4>2. PICK q \in 1..n : new[j] = list[q] /\ j = IF q <= k THEN q ELSE q + 1
        BY <2>4, <3>2
      <4>3. p = q
        BY <2>3, <2>6, <4>1, <4>2
      <4> QED
        BY <4>1, <4>2, <4>3
    <3> QED
      BY <3>1, <3>2
  <2> QED
    BY <2>1, <2>6 DEF Unique
<1> QED
  BY <1>7, <1>9, <1>10 DEF new

(* remove_stage takes away one.                                            *)
LEMMA RemoveTakes ==
  ASSUME NEW list \in Seq(Entries), Unique(list), NEW k \in 1..Len(list)
  PROVE  LET new == RemoveAt(list, k)
         IN  new \in Seq(Entries) /\ ToSet(new) = ToSet(list) \ {list[k]} /\ Unique(new)
<1> DEFINE n == Len(list)
           a == SubSeq(list, 1, k - 1)
           b == SubSeq(list, k + 1, n)
           new == RemoveAt(list, k)
<1>1. n \in Nat /\ \A i \in 1..n : list[i] \in Entries
  OBVIOUS
<1>2. a \in Seq(Entries) /\ Len(a) = k - 1 /\ \A i \in 1..(k - 1) : a[i] = list[i]
  <2>1. \A i \in 1..(k - 1) : list[i] \in Entries
    BY <1>1
  <2>2. /\ a \in Seq(Entries) /\ Len(a) = IF 1 <= k - 1 THEN (k - 1) - 1 + 1 ELSE 0
        /\ \A i \in 1..((k - 1) - 1 + 1) : a[i] = list[1 + i - 1]
    BY <1>1, <2>1, SubSeqProperties
  <2> HIDE DEF a
  <2>3. (k - 1) - 1 + 1 = k - 1 /\ \A i \in 1..(k - 1) : 1 + i - 1 = i
    OBVIOUS
  <2>4. Len(a) = k - 1
    BY <2>2
  <2> QED
    BY <2>2, <2>3, <2>4
<1>3. b \in Seq(Entries) /\ Len(b) = n - k /\ \A i \in 1..(n - k) : b[i] = list[k + i]
  <2>1. \A i \in (k + 1)..n : list[i] \in Entries
    BY <1>1
  <2>2. /\ b \in Seq(Entries) /\ Len(b) = IF k + 1 <= n THEN n - (k + 1) + 1 ELSE 0
        /\ \A i \in 1..(n - (k + 1) + 1) : b[i] = list[(k + 1) + i - 1]
    <3> HIDE DEF n
    <3> QED
      BY <1>1, <2>1, SubSeqProperties
  <2> HIDE DEF b, n
  <2>3. n - (k + 1) + 1 = n - k /\ \A i \in 1..(n - k) : (k + 1) + i - 1 = k + i
    BY <1>1
  <2>4. Len(b) = n - k
    BY <1>1, <2>2 DEF n
  <2> QED
    BY <2>2, <2>3, <2>4
<1>4. new = a \o b
  BY DEF RemoveAt
<1> HIDE DEF a, b, new
<1>5. /\ new \in Seq(Entries) /\ Len(new) = n - 1
      /\ \A i \in 1..(n - 1) : new[i] = IF i <= k - 1 THEN a[i] ELSE b[i - (k - 1)]
  <2>1. Len(a) + Len(b) = n - 1
    BY <1>1, <1>2, <1>3
  <2>2. /\ a \o b \in Seq(Entries) /\ Len(a \o b) = Len(a) + Len(b)
        /\ \A i \in 1..(Len(a) + Len(b)) : (a \o b)[i] = IF i <= Len(a) THEN a[i] ELSE b[i - Len(a)]
    BY <1>2, <1>3, ConcatProperties
  <2> HIDE DEF n
  <2> QED
    BY <1>2, <1>4, <2>1, <2>2
<1>6. \A i \in 1..(n - 1) : new[i] = IF i < k THEN list[i] ELSE list[i + 1]
  <2> SUFFICES ASSUME NEW i \in 1..(n - 1)
               PROVE  new[i] = IF i < k THEN list[i] ELSE list[i + 1]
    OBVIOUS
  <2>1. CASE i < k
    BY <1>1, <1>2, <1>5, <2>1
  <2>2. CASE ~(i < k)
    <3>1. ~(i <= k - 1) /\ i - (k - 1) \in 1..(n - k) /\ k + (i - (k - 1)) = i + 1
      BY <1>1, <2>2
    <3> QED
      BY <1>3, <1>5, <2>2, <3>1
  <2> QED
    BY <2>1, <2>2
<1>7. DOMAIN new = 1..(n - 1) /\ DOMAIN list = 1..n
  BY <1>1, <1>5
<1>8. \A i, j \in 1..n : list[i].id = list[j].id => i = j
  BY <1>7 DEF Unique
<1>9. ToSet(new) = ToSet(list) \ {list[k]}
  <2>1. ASSUME NEW i \in 1..(n - 1) PROVE \E j \in 1..n : j # k /\ new[i] = list[j]
    <3>1. (i < k => i \in 1..n /\ i # k) /\ (~(i < k) => i + 1 \in 1..n /\ i + 1 # k)
      BY <1>1
    <3> QED
      BY <1>6, <3>1
  <2>2. ASSUME NEW j \in 1..n, j # k PROVE \E i \in 1..(n - 1) : new[i] = list[j]
    <3>1. CASE j < k
      BY <1>1, <1>6, <3>1
    <3>2. CASE j > k
      <4>1. j - 1 \in 1..(n - 1) /\ ~(j - 1 < k) /\ (j - 1) + 1 = j
        BY <1>1, <3>2
      <4> QED
        BY <1>6, <4>1
    <3> QED
      BY <1>1, <2>2, <3>1, <3>2
  <2>3. k \in 1..n /\ \A j \in 1..n : list[j] = list[k] => j = k
    BY <1>8
  <2> HIDE DEF n
  <2>4. ASSUME NEW x \in ToSet(new) PROVE x \in ToSet(list) \ {list[k]}
    BY <1>7, <2>1, <2>3 DEF ToSet
  <2>5. ASSUME NEW x \in ToSet(list) \ {list[k]} PROVE x \in ToSet(new)
    <3>1. PICK j \in 1..n : x = list[j] /\ j # k
      BY <1>7 DEF ToSet
    <3> QED
      BY <1>7, <2>2, <3>1 DEF ToSet
  <2> QED
    BY <2>4, <2>5
<1>10. Unique(new)
  <2>1. ASSUME NEW i \in 1..(n - 1), NEW j \in 1..(n - 1), new[i].id = new[j].id PROVE i = j
    <3>1. i \in 1..n /\ i + 1 \in 1..n /\ j \in 1..n /\ j + 1 \in 1..n
      BY <1>1
    <3> QED
      BY <1>1, <1>6, <1>8, <2>1, <3>1
  <2> QED
    BY <1>7, <2>1 DEF Unique
<1> QED
  BY <1>5, <1>9, <1>10 DEF new

-----------------------------------------------------------------------------
(* What is listed, by entries.                                             *)
LEMMA ListedAre ==
  ASSUME NEW list
  PROVE  Listed(list) = {x.id : x \in ToSet(list)}
BY DEF Listed, ToSet

(* A list read from the directory has an entry for each stage there is.    *)
LEMMA FromDirIs ==
  ASSUME disk \in [Ids -> Marks]
  PROVE  /\ FromDir \in Seq(Entries) /\ Unique(FromDir)
         /\ ToSet(FromDir) = {Entry(s) : s \in OnDisk}
         /\ Listed(FromDir) = OnDisk
<1> DEFINE S == {Entry(s) : s \in OnDisk}
           f == [s \in OnDisk |-> Entry(s)]
<1>1. S \in SUBSET Entries /\ \A x, y \in S : x.id = y.id => x = y
  BY DEF Entry, Entries, OnDisk
<1>2. IsFiniteSet(OnDisk)
  BY IdsFinite, FS_Subset DEF OnDisk
<1>3. f \in Surjection(OnDisk, S)
  BY DEF Surjection
<1>4. IsFiniteSet(S)
  <2> HIDE DEF S, f
  <2> QED
    BY <1>2, <1>3, FS_Surjection
<1>5. FromDir = InOrder(S)
  BY DEF FromDir
<1>6. {x.id : x \in S} = OnDisk
  <2>1. \A s \in OnDisk : Entry(s).id = s
    BY DEF Entry
  <2>2. \A s \in OnDisk : Entry(s) \in S
    OBVIOUS
  <2>3. \A x \in S : x.id \in OnDisk
    BY <2>1
  <2> HIDE DEF S
  <2> QED
    BY <2>1, <2>2, <2>3
<1> HIDE DEF S
<1>7. FromDir \in Seq(Entries) /\ Unique(FromDir) /\ ToSet(FromDir) = S
  BY <1>1, <1>4, <1>5, InOrderKeeps
<1> QED
  BY <1>6, <1>7, ListedAre DEF S

(* An entry of a list is one of a stage.                                   *)
LEMMA ListedEntries ==
  ASSUME NEW list \in Seq(Entries), NEW x \in ToSet(list)
  PROVE  x \in Entries /\ x.id \in Ids /\ x.id \in Listed(list)
<1>1. x \in Entries
  BY DEF ToSet
<1> QED
  BY <1>1, ListedAre DEF Entries

(* There is no stage that is nothing.                                      *)
LEMMA NothingIsNone == Nothing \notin Ids
BY ListOK DEF Nothing, Ids

(* The marker a plan finds for a stage is that of its one entry.           *)
LEMMA MarkIs ==
  ASSUME Steady, NEW x \in ToSet(mem)
  PROVE  x \in Entries /\ x.id \in Ids /\ MarkOf(mem, x.id) = x.mark
<1>1. x \in Entries /\ x.id \in Listed(mem) /\ x.id \in Ids
  BY ListedEntries DEF Steady
<1>2. IndexOf(mem, x.id) \in 1..Len(mem) /\ mem[IndexOf(mem, x.id)].id = x.id
  BY <1>1, IndexFound DEF Steady
<1>3. PICK i \in DOMAIN mem : x = mem[i]
  BY DEF ToSet
<1>4. DOMAIN mem = 1..Len(mem)
  BY DEF Steady
<1>5. IndexOf(mem, x.id) = i
  BY <1>2, <1>3, <1>4 DEF Steady, Unique
<1> QED
  BY <1>1, <1>3, <1>5 DEF MarkOf

(* The group in front of a stage that may run was begun itself: what is in *)
(* front of it is complete as well.                                        *)
LEMMA RunnableOrdered ==
  ASSUME Steady, NEW s \in Listed(mem), Runnable(s)
  PROVE  s \in Ids /\ Ordered(s)
<1>1. s \in Ids /\ \A t \in Listed(mem) : t \in Ids
  BY MarkIs, ListedAre
<1>2. \A t \in Ids : Number(t) \in Nat
  BY IdsFinite DEF Number
<1>3. SUFFICES ASSUME NEW x \in ToSet(mem), Number(x.id) < Number(s)
               PROVE  x.mark = "complete"
  BY <1>1 DEF Ordered
<1> DEFINE L == {t \in Listed(mem) : Number(t) < Number(s)}
           D == {Number(s) - Number(t) : t \in L}
<1>4. x.id \in L
  BY <1>3, ListedAre
<1>5. D \in SUBSET Nat /\ D # {}
  BY <1>1, <1>2, <1>4
<1>6. PICK u \in L : \A t \in L : Number(t) <= Number(u)
  <2>1. PICK d \in D : \A e \in D : d <= e
    <3> HIDE DEF D
    <3> QED
      BY <1>5, LeastOf
  <2>2. PICK u \in L : d = Number(s) - Number(u)
    OBVIOUS
  <2>3. ASSUME NEW t \in L PROVE Number(t) <= Number(u)
    <3>1. d <= Number(s) - Number(t)
      BY <2>1
    <3> QED
      BY <1>1, <1>2, <2>2, <3>1
  <2> QED
    BY <2>3
<1>7. \A t \in L : Number(t) = Number(u) => t \in GroupBefore(Listed(mem), s)
  BY <1>1, <1>2, <1>6 DEF GroupBefore
<1>8. ASSUME NEW y \in ToSet(mem), y.id \in L, Number(y.id) = Number(u)
      PROVE  y.mark = "complete"
  BY <1>7, <1>8, MarkIs DEF Runnable
<1>9. CASE Number(x.id) = Number(u)
  BY <1>4, <1>8, <1>9
<1>10. CASE Number(x.id) < Number(u)
  <2>1. PICK y \in ToSet(mem) : y.id = u
    BY ListedAre
  <2>2. y.mark = "complete"
    BY <1>8, <2>1
  <2>3. Begun(u) /\ u \in Ids
    BY <1>1, <2>1, <2>2 DEF Begun
  <2> QED
    BY <1>10, <2>3 DEF Steady, Ordered
<1> QED
  BY <1>1, <1>2, <1>4, <1>6, <1>9, <1>10

-----------------------------------------------------------------------------
(* Steps that leave the directories alone, and read markers again only     *)
(* when the run ends.                                                      *)
LEMMA Reread ==
  ASSUME Steady, disk' = disk, ins' \in Seq(Letters), doing' # "down",
         IF doing' = "idle" THEN cur' = Nothing ELSE cur' = cur /\ cur \in Ids,
         mem' \in Seq(Entries), Unique(mem'), Listed(mem') = Listed(mem),
         \A x \in ToSet(mem') : x \in ToSet(mem) \/ (doing' = "idle" /\ x = Entry(x.id))
  PROVE  Steady'
<1>1. \A x \in ToSet(mem') : x.id \in Ids
  BY ListedEntries
<1>2. \A x \in ToSet(mem') : x.id \in OnDisk
  BY ListedAre DEF Steady
<1>3. ASSUME NEW x \in ToSet(mem'), x.mark = "complete"
      PROVE  disk'[x.id] = "complete" /\ x.id # cur'
  BY <1>1, <1>3, NothingIsNone DEF Steady, Entry
<1>4. ASSUME NEW s \in Ids, Begun(s)' PROVE Begun(s)
  BY <1>2, <1>4, NothingIsNone DEF Begun, Entry, OnDisk
<1>5. ASSUME NEW s \in Ids, Ordered(s) PROVE Ordered(s)'
  <2>1. ASSUME NEW x \in ToSet(mem'), Number(x.id) < Number(s) PROVE x.mark = "complete"
    <3>1. PICK y \in ToSet(mem) : y.id = x.id
      BY ListedAre
    <3>2. y.mark = "complete" /\ disk[x.id] = "complete"
      BY <1>5, <2>1, <3>1 DEF Ordered, Steady
    <3> QED
      BY <1>5, <2>1, <3>2 DEF Ordered, Entry
  <2> QED
    BY <2>1 DEF Ordered, Number
<1>6. OnDisk' = OnDisk
  BY DEF OnDisk
<1> QED
  BY <1>3, <1>4, <1>5, <1>6 DEF Steady

(* Steps that leave the list alone as well.                                *)
LEMMA SameList ==
  ASSUME Steady, UNCHANGED <<disk, mem>>, ins' \in Seq(Letters), doing' # "down",
         IF doing' = "idle" THEN cur' = Nothing ELSE cur' = cur /\ cur \in Ids
  PROVE  Steady'
<1>1. mem \in Seq(Entries) /\ Unique(mem)
  BY DEF Steady
<1>2. mem' \in Seq(Entries) /\ Unique(mem') /\ Listed(mem') = Listed(mem)
  BY <1>1
<1>3. \A x \in ToSet(mem') : x \in ToSet(mem) \/ (doing' = "idle" /\ x = Entry(x.id))
  OBVIOUS
<1> QED
  BY <1>2, <1>3, Reread

(* A run begins with a stage that is on disk, not complete in the list,    *)
(* and in order.                                                           *)
LEMMA BeginSteady ==
  ASSUME Steady, NEW s \in Listed(mem), s \in Ids, MarkOf(mem, s) # "complete", Ordered(s),
         Begin(s)
  PROVE  Steady'
<1>1. disk[s] # "absent" /\ doing = "idle"
  BY DEF Steady, OnDisk, Begin
<1>2. doing' = "exec" /\ cur' = s /\ UNCHANGED <<disk, mem, ins>>
  BY <1>1 DEF Begin, Proceed, hook
<1>3. ASSUME NEW x \in ToSet(mem), x.mark = "complete" PROVE x.id # s
  BY <1>3, MarkIs
<1>4. ASSUME NEW t \in Ids, Begun(t)' PROVE Ordered(t)'
  <2>1. t = s \/ Begun(t)
    BY <1>2, <1>4 DEF Begun
  <2>2. Ordered(t)
    BY <2>1 DEF Steady
  <2> QED
    BY <1>2, <2>2 DEF Ordered
<1>5. OnDisk' = OnDisk /\ Listed(mem') = Listed(mem)
  BY <1>2 DEF OnDisk
<1> QED
  BY <1>2, <1>3, <1>4, <1>5 DEF Steady

(* Steps that mark the stage that runs, if it is still there.              *)
LEMMA MarkSteady ==
  ASSUME Steady, NEW m \in {"complete", "error"},
         disk' = [disk EXCEPT ![cur] = IF @ = "absent" THEN @ ELSE m],
         cur \in Ids, doing' \notin {"idle", "down"}, UNCHANGED <<mem, cur, ins>>
  PROVE  Steady'
<1>1. /\ disk' \in [Ids -> Marks]
      /\ \A s \in Ids : s # cur => disk'[s] = disk[s]
      /\ \A s \in Ids : disk'[s] = "absent" <=> disk[s] = "absent"
  BY DEF Steady, Marks
<1>2. OnDisk' = OnDisk
  BY <1>1 DEF OnDisk
<1>3. ASSUME NEW x \in ToSet(mem), x.mark = "complete"
      PROVE  disk'[x.id] = "complete" /\ x.id # cur
  <2>1. x.id \in Ids /\ disk[x.id] = "complete" /\ x.id # cur
    BY <1>3, ListedEntries DEF Steady
  <2> QED
    BY <1>1, <2>1
<1>4. ASSUME NEW s \in Ids, Begun(s)' PROVE Ordered(s)'
  <2>1. Begun(s)
    BY <1>1, <1>4 DEF Begun
  <2>2. Ordered(s)
    BY <2>1 DEF Steady
  <2> QED
    BY <2>2 DEF Ordered
<1> QED
  BY <1>1, <1>2, <1>3, <1>4 DEF Steady

(* The new stage is directly behind the one that runs, which is not        *)
(* complete, so that nothing behind the new one was begun.                 *)
LEMMA InsertSteady ==
  ASSUME Steady, Insert, failures \in Nat, failures' = failures
  PROVE  Steady'
<1>1. /\ doing = "insert" /\ ins # <<>> /\ Tail(ins) \in Seq(Letters)
      /\ UNCHANGED <<doing, cur>> /\ ins' = Tail(ins)
  BY DEF Insert, Steady
<1>2. CASE ~MayInsert
  BY <1>1, <1>2, SameList DEF Insert, Steady
<1>3. CASE MayInsert
  <2> DEFINE e == [id |-> NewStage, mark |-> "pending"]
             at == IndexOf(mem, cur)
  <2>1. /\ NewStage \in Ids /\ cur \in Listed(mem) /\ cur \in Ids
        /\ \A t \in Listed(mem) : Number(t) # Number(NewStage)
    BY <1>1, <1>3 DEF MayInsert, Steady
  <2>2. NewStage \notin Listed(mem) /\ disk[NewStage] = "absent"
    BY <2>1 DEF Steady, OnDisk
  <2>3. /\ disk' = Made
        /\ mem' = InsertAt(mem, at + 1, [id |-> NewStage, mark |-> disk'[NewStage]])
    <3>1. ~Failure("io")
      BY DEF Failure
    <3> QED
      BY <1>3, <3>1 DEF Insert
  <2>4. /\ disk' \in [Ids -> Marks] /\ disk'[NewStage] = "pending"
        /\ \A s \in Ids : s # NewStage => disk'[s] = disk[s]
    BY <2>1, <2>2, <2>3 DEF Made, Steady, Marks
  <2>5. e \in Entries /\ e.id = NewStage /\ mem' = InsertAt(mem, at + 1, e)
    BY <2>1, <2>3, <2>4 DEF Entries, Marks
  <2>6. at \in 1..Len(mem)
    BY <2>1, IndexFound DEF Steady
  <2> HIDE DEF e, at
  <2>7. mem' \in Seq(Entries) /\ ToSet(mem') = ToSet(mem) \cup {e} /\ Unique(mem')
    BY <2>2, <2>5, <2>6, InsertAdds DEF Steady
  <2>8. Listed(mem') = Listed(mem) \cup {NewStage}
    BY <2>5, <2>7, ListedAre
  <2>9. OnDisk' = OnDisk \cup {NewStage}
    BY <2>1, <2>4 DEF OnDisk
  <2>10. ASSUME NEW x \in ToSet(mem'), x.mark = "complete"
         PROVE  disk'[x.id] = "complete" /\ x.id # cur
    <3>1. x \in ToSet(mem)
      BY <2>7, <2>10 DEF e
    <3>2. x.id \in Ids /\ x.id # NewStage
      BY <2>2, <3>1, ListedEntries DEF Steady
    <3> QED
      BY <2>4, <2>10, <3>1, <3>2 DEF Steady
  <2>11. ASSUME NEW s \in Ids, Begun(s)' PROVE Begun(s)
    <3>1. \A x \in ToSet(mem') : x.mark # "pending" => x \in ToSet(mem)
      BY <2>7 DEF e
    <3> QED
      BY <1>1, <2>4, <2>11, <3>1 DEF Begun
  <2>12. ASSUME NEW s \in Ids, Ordered(s) PROVE Ordered(s)'
    <3>1. ~(Number(NewStage) < Number(s))
      <4>1. PICK y \in ToSet(mem) : y.id = cur
        BY <2>1, ListedAre
      <4>2. y.mark # "complete"
        BY <4>1 DEF Steady
      <4>3. ~(Number(cur) < Number(s))
        BY <2>12, <4>1, <4>2 DEF Ordered
      <4>4. Number(cur) \in Nat /\ Number(s) \in Nat /\ Number(NewStage) = Number(cur) + 1
        BY <2>1, IdsFinite DEF Number, NewStage
      <4> QED
        BY <4>3, <4>4
    <3>2. ASSUME NEW x \in ToSet(mem'), Number(x.id) < Number(s) PROVE x.mark = "complete"
      BY <2>5, <2>7, <2>12, <3>1, <3>2 DEF Ordered
    <3> QED
      BY <3>2 DEF Ordered, Number
  <2> QED
    BY <1>1, <2>1, <2>4, <2>7, <2>8, <2>9, <2>10, <2>11, <2>12 DEF Steady
<1> QED
  BY <1>2, <1>3

(* The hook's stage goes from disk and list alike.                         *)
LEMMA RemoveSteady ==
  ASSUME Steady, RemoveStage, failures \in Nat, failures' = failures
  PROVE  Steady'
<1>1. /\ doing = "insert" /\ doing' = "mark_complete" /\ cur \in Ids
      /\ UNCHANGED <<cur, ins>>
  BY DEF RemoveStage, Proceed, Steady
<1>2. CASE UNCHANGED <<disk, mem>>
  BY <1>1, <1>2, SameList DEF Steady
<1>3. CASE rem \in Listed(mem) /\ Dropped
  <2> DEFINE k == IndexOf(mem, rem)
  <2>1. k \in 1..Len(mem) /\ mem[k].id = rem
    BY <1>3, IndexFound DEF Steady
  <2>2. disk' = [disk EXCEPT ![rem] = "absent"] /\ mem' = RemoveAt(mem, k)
    BY <1>3 DEF Dropped
  <2> HIDE DEF k
  <2>3. mem' \in Seq(Entries) /\ ToSet(mem') = ToSet(mem) \ {mem[k]} /\ Unique(mem')
    BY <2>1, <2>2, RemoveTakes DEF Steady
  <2>4. \A x \in ToSet(mem) : x.id = rem => x = mem[k]
    BY <2>1 DEF Steady, Unique, ToSet
  <2>5. rem \in Ids
    BY <1>3 DEF Steady, OnDisk
  <2>6. /\ disk' \in [Ids -> Marks] /\ disk'[rem] = "absent"
        /\ \A s \in Ids : s # rem => disk'[s] = disk[s]
    BY <2>2, <2>5 DEF Steady, Marks
  <2>7. Listed(mem') = Listed(mem) \ {rem}
    BY <2>1, <2>3, <2>4, ListedAre
  <2>8. OnDisk' = OnDisk \ {rem}
    BY <2>6 DEF OnDisk
  <2>9. ASSUME NEW x \in ToSet(mem'), x.mark = "complete"
        PROVE  disk'[x.id] = "complete" /\ x.id # cur
    <3>1. x \in ToSet(mem) /\ x.id # rem
      BY <2>3, <2>4
    <3>2. x.id \in Ids /\ disk[x.id] = "complete" /\ x.id # cur
      BY <2>9, <3>1, ListedEntries DEF Steady
    <3> QED
      BY <2>6, <3>1, <3>2
  <2>10. ASSUME NEW s \in Ids, Begun(s)' PROVE Ordered(s)'
    <3>1. Begun(s)
      BY <1>1, <2>3, <2>6, <2>10 DEF Begun
    <3>2. Ordered(s)
      BY <3>1 DEF Steady
    <3> QED
      BY <2>3, <3>2 DEF Ordered
  <2> QED
    BY <1>1, <2>3, <2>6, <2>7, <2>8, <2>9, <2>10 DEF Steady
<1>4. ~Failure("io")
  BY DEF Failure
<1> QED
  BY <1>2, <1>3, <1>4 DEF RemoveStage

(* The refresh finds the directories it has, and sorts their entries.      *)
LEMMA RefreshSteady ==
  ASSUME Steady, Refresh
  PROVE  Steady'
<1>1. PICK new \in Arrivals :
        mem' = LET list == mem \o new
                   at == Refreshed(list)
               IN InOrder({IF i = at THEN Entry(list[i].id) ELSE list[i] : i \in DOMAIN list})
  BY DEF Refresh
<1>2. new = <<>>
  <2>1. {Entry(s) : s \in OnDisk \ Listed(mem)} = {}
    BY DEF Steady
  <2>2. new \in [1..0 -> {}]
    BY <2>1, FS_EmptySet DEF Arrivals, SetToSeqs
  <2> QED
    BY <2>2
<1>3. mem \o new = mem
  BY <1>2, ConcatEmptySeq DEF Steady
<1> DEFINE at == Refreshed(mem)
           again == [i \in DOMAIN mem |-> IF i = at THEN Entry(mem[i].id) ELSE mem[i]]
           S == {again[i] : i \in DOMAIN mem}
<1>4. mem' = InOrder({IF i = at THEN Entry(mem[i].id) ELSE mem[i] : i \in DOMAIN mem})
  BY <1>1, <1>3
<1>5. {IF i = at THEN Entry(mem[i].id) ELSE mem[i] : i \in DOMAIN mem} = S
  OBVIOUS
<1> HIDE DEF at
<1>6. ASSUME NEW i \in DOMAIN mem
      PROVE  /\ again[i] \in Entries /\ again[i].id = mem[i].id
             /\ again[i] = mem[i] \/ again[i] = Entry(again[i].id)
  <2>1. mem[i] \in Entries /\ mem[i].id \in Ids
    BY ListedEntries DEF Steady, ToSet
  <2>2. Entry(mem[i].id) \in Entries /\ Entry(mem[i].id).id = mem[i].id
    <3>1. disk[mem[i].id] \in Marks
      BY <2>1 DEF Steady
    <3> QED
      BY <2>1, <3>1 DEF Entry, Entries, Marks
  <2> QED
    BY <2>1, <2>2
<1> HIDE DEF again
<1>7. again \in Surjection(DOMAIN mem, S)
  BY DEF Surjection, again
<1>8. IsFiniteSet(DOMAIN mem)
  BY FS_Interval DEF Steady
<1>9. IsFiniteSet(S)
  <2> HIDE DEF S
  <2> QED
    BY <1>7, <1>8, FS_Surjection
<1>10. S \in SUBSET Entries /\ \A x, y \in S : x.id = y.id => x = y
  BY <1>6 DEF Steady, Unique
<1>11. mem' \in Seq(Entries) /\ ToSet(mem') = S /\ Unique(mem')
  <2> HIDE DEF S
  <2> QED
    BY <1>4, <1>5, <1>9, <1>10, InOrderKeeps
<1>12. Listed(mem') = Listed(mem)
  <2>1. Listed(mem') = {x.id : x \in S}
    BY <1>11, ListedAre
  <2>2. {x.id : x \in S} = {again[i].id : i \in DOMAIN mem}
    OBVIOUS
  <2>3. {again[i].id : i \in DOMAIN mem} = {mem[i].id : i \in DOMAIN mem}
    BY <1>6
  <2> QED
    BY <2>1, <2>2, <2>3 DEF Listed
<1>13. doing' = "idle" /\ cur' = Nothing /\ ins' = <<>> /\ disk' = disk
  BY DEF Refresh, End, Proceed
<1>14. \A x \in ToSet(mem') : x \in ToSet(mem) \/ (doing' = "idle" /\ x = Entry(x.id))
  BY <1>6, <1>11, <1>13 DEF ToSet
<1> QED
  BY <1>11, <1>12, <1>13, <1>14, Reread

-----------------------------------------------------------------------------
(* The stages a workflow is made with are listed, and none is marked.      *)
LEMMA ListInvInit == ListInit => ListInv
<1> SUFFICES ASSUME ListInit PROVE Steady /\ failures = 0
  BY DEF ListInv
<1>1. disk \in [Ids -> Marks] /\ \A s \in Ids : disk[s] \in {"absent", "pending"}
  BY DEF ListInit, Marks
<1>2. /\ mem \in Seq(Entries) /\ Unique(mem)
      /\ ToSet(mem) = {Entry(s) : s \in OnDisk}
  BY <1>1, FromDirIs DEF ListInit
<1>3. Listed(mem) = OnDisk
  BY <1>1, FromDirIs DEF ListInit
<1>4. \A x \in ToSet(mem) : x.mark = "pending"
  BY <1>1, <1>2 DEF Entry, OnDisk
<1>5. doing = "idle" /\ cur = Nothing /\ ins = <<>> /\ failures = 0
  BY DEF ListInit
<1>6. \A s \in Ids : ~Begun(s)
  BY <1>1, <1>4, <1>5, NothingIsNone DEF Begun
<1> QED
  BY <1>1, <1>2, <1>3, <1>4, <1>5, <1>6 DEF Steady

(* A stage that is run next has only complete ones in front, ...           *)
LEMMA NextOrdered ==
  ASSUME Steady, NEW s, Next1(s)
  PROVE  s \in Listed(mem) /\ s \in Ids /\ MarkOf(mem, s) # "complete" /\ Ordered(s)
BY RunnableOrdered DEF Next1, Runnable

(* ... and so has one that is run again, because it was run before.        *)
LEMMA AgainOrdered ==
  ASSUME Steady, NEW s \in Listed(mem), MarkOf(mem, s) = "error"
  PROVE  s \in Ids /\ MarkOf(mem, s) # "complete" /\ Ordered(s)
<1>1. PICK x \in ToSet(mem) : x.id = s
  BY ListedAre
<1>2. s \in Ids /\ x.mark = "error"
  BY <1>1, MarkIs
<1>3. Begun(s)
  BY <1>1, <1>2 DEF Begun
<1> QED
  BY <1>2, <1>3 DEF Steady

(* Every step keeps the invariant; one that fails ends it.                 *)
LEMMA ListInvNext == ListInv /\ [ListNext]_listVars => ListInv'
<1> SUFFICES ASSUME ListInv, [ListNext]_listVars PROVE ListInv'
  OBVIOUS
<1>1. CASE UNCHANGED listVars
  BY <1>1 DEF ListInv, Steady, listVars, hook, Begun, Ordered, OnDisk
<1>2. CASE ListNext
  <2>1. failures' = failures \/ failures' = failures + 1
    BY <1>2 DEF ListNext, Work, RunNext, RunAgain, Begin, Exec, ExecFails, Truncate, Fill,
                Insert, RemoveStage, MarkComplete, MarkError, Prune, Refresh, RefreshFails,
                MarkCompleteFails, MarkErrorFails, Reload, Removal, Dies, Failure
  <2>2. SUFFICES ASSUME Steady, failures \in Nat, failures' = failures PROVE Steady'
    BY <2>1 DEF ListInv
  <2>3. \A what : ~Failure(what)
    BY <2>2 DEF Failure
  <2>4. CASE RunNext
    <3>1. PICK s \in Ids : Next1(s) /\ Begin(s)
      BY <2>4 DEF RunNext
    <3> QED
      BY <2>2, <3>1, NextOrdered, BeginSteady
  <2>5. CASE RunAgain
    <3>1. PICK s \in Listed(mem) : MarkOf(mem, s) = "error" /\ Begin(s)
      BY <2>5 DEF RunAgain
    <3> QED
      BY <2>2, <3>1, AgainOrdered, BeginSteady
  <2>6. CASE Exec \/ ExecFails \/ Truncate \/ Fill
    <3>1. /\ UNCHANGED <<disk, mem, cur>> /\ doing \notin {"idle", "down"}
          /\ doing' \notin {"idle", "down"} /\ ins' \in Seq(Letters)
      <4>1. \A n \in 0..MaxInserts : [1..n -> Letters] \subseteq Seq(Letters)
        BY ListOK
      <4>2. ins \in Seq(Letters)
        BY <2>2 DEF Steady
      <4> QED
        BY <2>6, <4>1, <4>2 DEF Exec, ExecFails, Truncate, Fill, Proceed, hook
    <3>2. cur \in Ids
      BY <2>2, <3>1 DEF Steady
    <3> QED
      BY <2>2, <3>1, <3>2, SameList
  <2>7. CASE Insert
    BY <2>2, <2>7, InsertSteady
  <2>8. CASE RemoveStage
    BY <2>2, <2>8, RemoveSteady
  <2>9. CASE MarkComplete
    <3>1. doing = "mark_complete" /\ mem' = mem /\ cur \in Ids
      BY <2>2, <2>9 DEF MarkComplete, Steady
    <3>2. CASE cur \in Listed(mem) /\ disk[cur] # "absent"
      <4>1. disk' = [disk EXCEPT ![cur] = IF @ = "absent" THEN @ ELSE "complete"]
        BY <2>9, <3>2 DEF MarkComplete
      <4>2. doing' = "prune" /\ UNCHANGED <<cur, ins>>
        BY <2>9, <3>2 DEF MarkComplete, Proceed, hook
      <4> QED
        BY <2>2, <3>1, <4>1, <4>2, MarkSteady
    <3>3. CASE ~(cur \in Listed(mem) /\ disk[cur] # "absent")
      <4>1. UNCHANGED disk /\ doing' = "idle" /\ cur' = Nothing /\ ins' = <<>>
        BY <2>9, <3>3 DEF MarkComplete, End, Proceed
      <4> QED
        BY <2>2, <3>1, <4>1, SameList
    <3> QED
      BY <3>2, <3>3
  <2>10. CASE MarkError
    <3>1. /\ disk' = [disk EXCEPT ![cur] = IF @ = "absent" THEN @ ELSE "error"]
          /\ cur \in Ids /\ doing' = "prune" /\ UNCHANGED <<mem, cur, ins>>
      BY <2>2, <2>10 DEF MarkError, Proceed, hook, Steady
    <3> QED
      BY <2>2, <3>1, MarkSteady
  <2>11. CASE Prune
    <3>1. /\ doing' = "refresh" /\ cur \in Ids /\ ins \in Seq(Letters) /\ UNCHANGED <<disk, cur, ins>>
          /\ mem' = Kept(mem, {i \in DOMAIN mem : disk[mem[i].id] # "absent"})
      BY <2>2, <2>11 DEF Prune, Proceed, hook, Steady
    <3>2. {i \in DOMAIN mem : disk[mem[i].id] # "absent"} = DOMAIN mem
      BY <2>2 DEF Steady, Listed, OnDisk
    <3>3. mem' \in Seq(Entries) /\ ToSet(mem') = ToSet(mem) /\ Unique(mem')
      BY <2>2, <3>1, <3>2, KeptAll DEF Steady
    <3>4. Listed(mem') = Listed(mem)
      BY <3>3, ListedAre
    <3> QED
      BY <2>2, <3>1, <3>3, <3>4, Reread
  <2>12. CASE Refresh
    BY <2>2, <2>12, RefreshSteady
  <2>13. CASE Reload
    <3>1. doing = "idle" /\ doing' = "idle" /\ UNCHANGED <<disk, cur, ins>>
      BY <2>2, <2>13 DEF Reload, Proceed, hook, Steady
    <3>2. cur' = Nothing /\ ins' \in Seq(Letters) /\ disk \in [Ids -> Marks]
      BY <2>2, <3>1 DEF Steady
    <3>3. CASE mem' = mem
      BY <2>2, <3>1, <3>2, <3>3, SameList
    <3>4. CASE mem' = FromDir
      <4>1. /\ mem' \in Seq(Entries) /\ Unique(mem')
            /\ ToSet(mem') = {Entry(s) : s \in OnDisk}
        BY <3>2, <3>4, FromDirIs
      <4>2. Listed(mem') = Listed(mem)
        BY <2>2, <3>2, <3>4, FromDirIs DEF Steady
      <4>3. \A x \in ToSet(mem') : x = Entry(x.id)
        BY <4>1 DEF Entry
      <4> QED
        BY <2>2, <3>1, <3>2, <4>1, <4>2, <4>3, Reread
    <3> QED
      BY <2>13, <3>3, <3>4 DEF Reload
  <2> QED
    BY <1>2, <2>3, <2>4, <2>5, <2>6, <2>7, <2>8, <2>9, <2>10, <2>11, <2>12, <2>13
       DEF ListNext, Work, RefreshFails, MarkCompleteFails, MarkErrorFails, Removal, Dies
<1> QED
  BY <1>1, <1>2

-----------------------------------------------------------------------------
(* Between two runs the list in memory names exactly the directories there *)
(* are (llm_driver.rs, workflow.rs: insert_stage_after, remove_stage,      *)
(* refresh_stage), for any first stages, names and hooks.                  *)
THEOREM ListFollowsDisk == ListSpec => []ListIsDisk
<1>1. ListInit => ListInv
  BY ListInvInit
<1>2. ListInv /\ [ListNext]_listVars => ListInv'
  BY ListInvNext
<1>3. ListInv => ListIsDisk
  BY DEF ListInv, Steady, ListIsDisk
<1> QED
  BY <1>1, <1>2, <1>3, PTL DEF ListSpec

(* A stage starts when every stage directly in front of it on disk is      *)
(* complete, the ones a hook has put there meanwhile included (plan.rs,    *)
(* actor.rs), when it is run again after a failure as well.                *)
THEOREM StagesRunInOrder == ListSpec => RunsInOrder
<1> DEFINE InFront == (cur = Nothing /\ cur' # Nothing /\ failures = 0)
                        => \A t \in GroupBefore(OnDisk, cur') : disk[t] = "complete"
<1>1. ListInit => ListInv
  BY ListInvInit
<1>2. ListInv /\ [ListNext]_listVars => ListInv'
  BY ListInvNext
<1>3. ListInv /\ [ListNext]_listVars => [InFront]_listVars
  <2> SUFFICES ASSUME ListInv, ListNext, cur = Nothing, cur' # Nothing, failures = 0,
                      NEW t \in GroupBefore(OnDisk, cur')
               PROVE  disk[t] = "complete"
    OBVIOUS
  <2>1. Steady
    BY DEF ListInv
  <2>2. RunNext \/ RunAgain
    BY DEF ListNext, Work, Exec, ExecFails, Truncate, Fill, Insert, RemoveStage, MarkComplete,
           MarkError, Prune, Refresh, RefreshFails, MarkCompleteFails, MarkErrorFails, Reload,
           Removal, Dies, End
  <2>3. PICK s \in Listed(mem) : Ordered(s) /\ Begin(s)
    <3>1. CASE RunNext
      BY <2>1, <3>1, NextOrdered DEF RunNext
    <3>2. CASE RunAgain
      BY <2>1, <3>2, AgainOrdered DEF RunAgain
    <3> QED
      BY <2>2, <3>1, <3>2
  <2>4. cur' = s
    BY <2>3 DEF Begin, End
  <2>5. t \in OnDisk /\ Number(t) < Number(s)
    BY <2>4 DEF GroupBefore
  <2>6. PICK x \in ToSet(mem) : x.id = t
    BY <2>1, <2>5, ListedAre DEF Steady
  <2> QED
    BY <2>1, <2>3, <2>5, <2>6 DEF Ordered, Steady
<1> QED
  BY <1>1, <1>2, <1>3, PTL DEF ListSpec, RunsInOrder
-----------------------------------------------------------------------------
(* Graphs with loops.  D has the dependencies of the nodes 1..n, none of   *)
(* them missing, and rank shows that there is no cycle.                    *)
Ranked(D, n, rank) ==
  /\ n \in Nat
  /\ D \in [1..n -> Seq(1..n)]
  /\ rank \in [1..n -> 1..n]
  /\ \A m \in 1..n : \A d \in ToSet(D[m]) : rank[d] < rank[m]

(* Min is the least.                                                      *)
LEMMA MinIs ==
  ASSUME NEW T \in SUBSET Nat, T # {}
  PROVE  Min(T) \in T /\ \A k \in T : Min(T) <= k
BY LeastOf DEF Min

(* Such a graph visits its nodes and nothing else.                         *)
LEMMA VisitedAre ==
  ASSUME NEW D, NEW n, NEW rank, Ranked(D, n, rank)
  PROVE  /\ Visited(D) = 1..n /\ DOMAIN D = 1..n
         /\ IsFiniteSet(1..n) /\ Cardinality(1..n) = n
<1>1. \A m \in 1..n : ToSet(D[m]) \subseteq 1..n
  <2> SUFFICES ASSUME NEW m \in 1..n, NEW i \in DOMAIN D[m] PROVE D[m][i] \in 1..n
    BY DEF ToSet
  <2>1. D[m] \in Seq(1..n)
    BY DEF Ranked
  <2>2. i \in 1..Len(D[m])
    BY <2>1
  <2> QED
    BY <2>1, <2>2, ElementOfSeq
<1>2. DOMAIN D = 1..n /\ n \in Nat
  BY DEF Ranked
<1>3. IsFiniteSet(1..n) /\ Cardinality(1..n) = n
  BY <1>2, FS_Interval
<1> QED
  BY <1>1, <1>2, <1>3 DEF Visited

(* What is left next is a node that is not listed: the way begins at one,  *)
(* never leaves those, and each step of it lowers the rank.                *)
LEMMA LeftIsNew ==
  ASSUME NEW D, NEW n, NEW rank, Ranked(D, n, rank),
         NEW done \in SUBSET (1..n), done # 1..n
  PROVE  LeftNext(D, done) \in (1..n) \ done
<1> DEFINE way == OnTheWay(D, done)
           root == Min(DOMAIN D \ done)
           Closed(W) == /\ root \in W
                        /\ \A m \in W : Undone(D, m, done) # {}
                                          => Deeper(D, m, done) \in W
<1>1. Visited(D) = 1..n /\ DOMAIN D = 1..n /\ n \in Nat
  BY VisitedAre DEF Ranked
<1>2. way = {m \in 1..n : \A W \in SUBSET (1..n) : Closed(W) => m \in W}
  BY <1>1 DEF OnTheWay
<1>3. root \in (1..n) \ done
  <2>1. (1..n) \ done # {} /\ \A k \in 1..n : k \in Nat
    <3>1. \A k \in 1..n : k \in Nat
      OBVIOUS
    <3>2. (1..n) \ done # {}
      OBVIOUS
    <3> QED
      BY <3>1, <3>2
  <2> QED
    BY <1>1, <2>1, MinIs
<1>4. ASSUME NEW m \in 1..n, Undone(D, m, done) # {}
      PROVE  /\ Deeper(D, m, done) \in (1..n) \ done
             /\ rank[Deeper(D, m, done)] < rank[m]
  <2> DEFINE U == Undone(D, m, done)
  <2>1. D[m] \in Seq(1..n) /\ U = {i \in DOMAIN D[m] : D[m][i] \notin done}
    BY <1>1 DEF Undone, Ranked
  <2>2. DOMAIN D[m] \in SUBSET Nat
    BY <2>1
  <2>3. U \in SUBSET Nat /\ U # {}
    BY <1>4, <2>1, <2>2
  <2>4. Min(U) \in U
    BY <2>3, MinIs
  <2>5. Deeper(D, m, done) = D[m][Min(U)]
    BY DEF Deeper
  <2> HIDE DEF U
  <2>6. Min(U) \in DOMAIN D[m] /\ D[m][Min(U)] \notin done
    BY <2>1, <2>4
  <2>7. D[m][Min(U)] \in ToSet(D[m]) /\ D[m][Min(U)] \in 1..n
    <3>1. D[m] \in Seq(1..n)
      BY <2>1
    <3>2. Min(U) \in 1..Len(D[m])
      BY <2>6, <3>1
    <3>3. D[m][Min(U)] \in 1..n
      BY <3>1, <3>2, ElementOfSeq
    <3> QED
      BY <2>6, <3>3 DEF ToSet
  <2> QED
    BY <2>5, <2>6, <2>7 DEF Ranked
<1> HIDE DEF root
<1>5. Closed((1..n) \ done)
  BY <1>3, <1>4
<1>6. way \subseteq (1..n) \ done /\ root \in way
  BY <1>2, <1>3, <1>5
<1>7. ASSUME NEW m \in way, Undone(D, m, done) # {}
      PROVE  Deeper(D, m, done) \in way
  BY <1>2, <1>4, <1>7
<1>8. PICK m \in way : \A k \in way : rank[m] <= rank[k]
  <2> DEFINE T == {rank[k] : k \in way}
  <2> HIDE DEF way
  <2>1. \A k \in way : rank[k] \in Nat
    BY <1>6 DEF Ranked
  <2>2. T \in SUBSET Nat /\ T # {}
    BY <1>6, <2>1
  <2>3. PICK r \in T : \A k \in T : r <= k
    BY <2>2, LeastOf
  <2> QED
    BY <2>3
<1>9. Undone(D, m, done) = {}
  <2> SUFFICES ASSUME Undone(D, m, done) # {} PROVE FALSE
    OBVIOUS
  <2> HIDE DEF way
  <2>1. Deeper(D, m, done) \in way /\ m \in 1..n
    BY <1>6, <1>7
  <2>2. rank[Deeper(D, m, done)] < rank[m] /\ rank[m] <= rank[Deeper(D, m, done)]
    BY <1>4, <1>8, <2>1
  <2>3. rank[Deeper(D, m, done)] \in Nat /\ rank[m] \in Nat
    <3>1. Deeper(D, m, done) \in 1..n /\ m \in 1..n
      BY <1>6, <2>1
    <3>2. rank[Deeper(D, m, done)] \in 1..n /\ rank[m] \in 1..n
      BY <3>1 DEF Ranked
    <3> QED
      BY <3>2
  <2> QED
    BY <2>2, <2>3
<1>10. LeftNext(D, done) \in way
  <2>1. LeftNext(D, done) = CHOOSE k \in way : Undone(D, k, done) = {}
    BY DEF LeftNext
  <2> HIDE DEF way
  <2> QED
    BY <1>9, <2>1
<1> QED
  BY <1>6, <1>10

(* The visit has a next node at each place: the definition of PostOrder is *)
(* met by a function, whatever the graph (smallest counterexample).        *)
LEMMA PostOrderIs ==
  ASSUME NEW D, Cardinality(Visited(D)) \in Nat
  PROVE  PostOrder(D) = [i \in 1..Cardinality(Visited(D)) |->
                           LeftNext(D, {PostOrder(D)[j] : j \in 1..(i - 1)})]
<1> DEFINE N == Cardinality(Visited(D))
           Met(f, k) == f = [i \in 1..k |-> LeftNext(D, {f[j] : j \in 1..(i - 1)})]
           T == {k \in Nat : ~\E f : Met(f, k)}
<1>1. T = {}
  <2> SUFFICES ASSUME T # {} PROVE FALSE
    OBVIOUS
  <2>1. PICK k \in T : \A m \in T : k <= m
    <3>1. T \in SUBSET Nat
      OBVIOUS
    <3> HIDE DEF T
    <3> QED
      BY <3>1, LeastOf
  <2>2. k # 0
    <3>1. Met(<<>>, 0)
      <4>1. 1..0 = {}
        OBVIOUS
      <4> QED
        BY <4>1
    <3> HIDE DEF Met
    <3>2. ~\E f : Met(f, k)
      BY <2>1
    <3> QED
      BY <3>1, <3>2
  <2>3. k - 1 \in Nat /\ k - 1 \notin T
    <3> HIDE DEF Met
    <3> QED
      BY <2>1, <2>2
  <2>4. PICK f : Met(f, k - 1)
    <3> HIDE DEF Met
    <3> QED
      BY <2>3
  <2> DEFINE g == [i \in 1..k |-> IF i = k THEN LeftNext(D, {f[j] : j \in 1..(k - 1)})
                                  ELSE f[i]]
  <2>5. ASSUME NEW i \in 1..k PROVE {g[j] : j \in 1..(i - 1)} = {f[j] : j \in 1..(i - 1)}
    <3>1. \A j \in 1..(i - 1) : j \in 1..k /\ j # k
      BY <2>1
    <3>2. \A j \in 1..(i - 1) : g[j] = f[j]
      BY <3>1
    <3> HIDE DEF g
    <3> QED
      BY <3>2
  <2>6. ASSUME NEW i \in 1..k
        PROVE  g[i] = LeftNext(D, {g[j] : j \in 1..(i - 1)})
    <3>1. CASE i = k
      <4>1. g[i] = LeftNext(D, {f[j] : j \in 1..(k - 1)})
        BY <3>1
      <4> HIDE DEF g
      <4> QED
        BY <2>5, <3>1, <4>1
    <3>2. CASE i # k
      <4>1. g[i] = f[i] /\ i \in 1..(k - 1)
        BY <2>1, <2>2, <3>2
      <4>2. f[i] = LeftNext(D, {f[j] : j \in 1..(i - 1)})
        BY <2>4, <4>1
      <4> HIDE DEF g
      <4> QED
        BY <2>5, <4>1, <4>2
    <3> QED
      BY <3>1, <3>2
  <2>7. Met(g, k)
    <3>1. g = [i \in 1..k |-> g[i]]
      OBVIOUS
    <3> HIDE DEF g
    <3> QED
      BY <2>6, <3>1
  <2> HIDE DEF Met, g
  <2> QED
    BY <2>1, <2>7
<1>2. \E f : Met(f, N)
  <2> HIDE DEF Met
  <2> QED
    BY <1>1
<1>3. PostOrder(D) = CHOOSE f : Met(f, N)
  BY DEF PostOrder
<1>4. Met(PostOrder(D), N)
  <2> HIDE DEF Met
  <2> QED
    BY <1>2, <1>3
<1> QED
  BY <1>4

(* The visit of a graph without cycles lists every node: each place has a  *)
(* node that no place before it has, and there are as many as nodes.       *)
LEMMA PostOrderListsAll ==
  ASSUME NEW D, NEW n, NEW rank, Ranked(D, n, rank)
  PROVE  DOMAIN PostOrder(D) = 1..n /\ ToSet(PostOrder(D)) = 1..n
<1> DEFINE f == PostOrder(D)
           Earlier(i) == {f[j] : j \in 1..(i - 1)}
           T == {i \in 1..n : f[i] \notin (1..n) \ Earlier(i)}
<1>1. Cardinality(Visited(D)) = n /\ n \in Nat
  BY VisitedAre DEF Ranked
<1>2. f = [i \in 1..n |-> LeftNext(D, Earlier(i))]
  BY <1>1, PostOrderIs
<1> HIDE DEF f
<1>3. ASSUME NEW i \in 1..n PROVE f[i] \in (1..n) \ Earlier(i)
  <2> SUFFICES ASSUME T # {} PROVE FALSE
    OBVIOUS
  <2>1. PICK k \in T : \A m \in T : k <= m
    <3>1. T \in SUBSET Nat
      OBVIOUS
    <3> HIDE DEF T
    <3> QED
      BY <3>1, LeastOf
  <2>2. \A j \in 1..(k - 1) : j \in 1..n /\ j \notin T
    <3>1. k \in 1..n
      OBVIOUS
    <3>2. \A j \in 1..(k - 1) : j \in 1..n /\ ~(k <= j)
      BY <1>1, <3>1
    <3> HIDE DEF T
    <3> QED
      BY <2>1, <3>2
  <2>3. Earlier(k) \in SUBSET (1..n)
    BY <2>2
  <2>4. Earlier(k) # 1..n
    <3> DEFINE g == [j \in 1..(k - 1) |-> f[j]]
    <3>1. k \in 1..n /\ k - 1 \in Nat
      OBVIOUS
    <3>2. IsFiniteSet(1..(k - 1)) /\ Cardinality(1..(k - 1)) = k - 1
      BY <3>1, FS_Interval
    <3>3. g \in Surjection(1..(k - 1), Earlier(k))
      BY DEF Surjection
    <3>4. Cardinality(Earlier(k)) <= k - 1
      <4> HIDE DEF g, Earlier
      <4> QED
        BY <3>2, <3>3, FS_Surjection
    <3>5. Cardinality(1..n) = n
      BY <1>1, FS_Interval
    <3> HIDE DEF Earlier
    <3> QED
      BY <1>1, <3>1, <3>4, <3>5
  <2>5. f[k] = LeftNext(D, Earlier(k))
    BY <1>2
  <2>6. LeftNext(D, Earlier(k)) \in (1..n) \ Earlier(k)
    <3> HIDE DEF Earlier
    <3> QED
      BY <2>3, <2>4, LeftIsNew
  <2> QED
    BY <2>5, <2>6
<1>4. f \in Injection(1..n, 1..n)
  <2>1. f \in [1..n -> 1..n]
    BY <1>2, <1>3
  <2>2. ASSUME NEW i \in 1..n, NEW j \in 1..n, i < j PROVE f[i] # f[j]
    <3>1. i \in 1..(j - 1)
      BY <2>2
    <3> QED
      BY <1>3, <3>1
  <2>3. ASSUME NEW i \in 1..n, NEW j \in 1..n, f[i] = f[j] PROVE i = j
    <3>1. i = j \/ i < j \/ j < i
      OBVIOUS
    <3> QED
      BY <2>2, <2>3, <3>1
  <2> QED
    BY <2>1, <2>3 DEF Injection, IsInjective
<1>5. f \in Surjection(1..n, 1..n)
  <2>1. IsFiniteSet(1..n)
    BY <1>1, FS_Interval
  <2> QED
    BY <1>4, <2>1, FS_Injection
<1>6. DOMAIN f = 1..n /\ ToSet(f) = 1..n
  BY <1>5 DEF Surjection, ToSet
<1> QED
  BY <1>6 DEF f

States == {"pending", "complete", "error"}
Outcomes == Records \cup {"none"}

NodeRecords ==
  [kind : {"stage", "loop"}, body : Nat, limit : Nat, succeed : BOOLEAN,
   deps : Seq(Nat)]

(* What is built: a loop has a body among the nodes before it.             *)
Built ==
  /\ nodes \in Seq(NodeRecords)
  /\ \A n \in Nodes : IF IsLoop(n) THEN nodes[n].body \in 1..(n - 1)
                      ELSE nodes[n].body = None
  /\ made \in {"first", "anew"} /\ said \in Outcomes
  /\ phase \in {"build", "idle", "run", "control"}

(* A sound graph has a plan: its types, the stage that runs, the loops.    *)
PlanTyped ==
  /\ own \in [Nodes -> States] /\ mark \in [Nodes -> States]
  /\ outcome \in [Nodes -> Outcomes] /\ control \in [Nodes -> Outcomes]
  /\ iterations \in [Nodes -> Nat] /\ ran \in [Nodes -> Nat]
  /\ \A n \in Nodes : ~IsLoop(n) => outcome[n] = "none"

RunsStage ==
  /\ IF phase = "idle" THEN running = None
     ELSE running \in Nodes /\ ~IsLoop(running)
  /\ phase = "control" => mark[running] = "complete"

(* What a loop and its body know of each other: a record is in the plan    *)
(* and on disk, and ends the loop; the body has run as often as counted,   *)
(* and once more while it runs; in its first plan it is pending until the  *)
(* loop has ended.                                                         *)
LoopKept(l, b) ==
  /\ outcome[l] = control[b]
  /\ outcome[l] # "none" =>
       mark[b] = "complete" /\ own[b] = "complete" /\ running # b
  /\ iterations[l] <= nodes[l].limit
  /\ IF running = b
     THEN iterations[l] < nodes[l].limit /\ ran[b] <= iterations[l] + 1
     ELSE ran[b] <= iterations[l]
  /\ made = "first" /\ outcome[l] = "none" => own[b] = "pending"

LoopsKept == \A l \in Nodes : IsLoop(l) => LoopKept(l, nodes[l].body)

InPlan == PlanTyped /\ RunsStage /\ LoopsKept

PlanInv == Built /\ (phase # "build" /\ Sound => InPlan)
-----------------------------------------------------------------------------
(* The nodes are those the graph has been given.                           *)
LEMMA NodesAre ==
  ASSUME Built
  PROVE  /\ Nodes = 1..Len(nodes) /\ Len(nodes) \in Nat
         /\ \A n \in Nodes : nodes[n] \in NodeRecords
<1>1. nodes \in Seq(NodeRecords)
  BY DEF Built, NodeRecords
<1>2. Nodes = 1..Len(nodes) /\ Len(nodes) \in Nat
  BY <1>1 DEF Nodes
<1> HIDE DEF NodeRecords
<1>3. \A n \in 1..Len(nodes) : nodes[n] \in NodeRecords
  BY <1>1, ElementOfSeq
<1> QED
  BY <1>2, <1>3

(* A sound graph has no cycle, and misses no node.                         *)
LEMMA SoundIsRanked ==
  ASSUME Built, Sound
  PROVE  /\ Nodes = 1..Len(nodes) /\ Len(nodes) \in Nat
         /\ \E rank : Ranked(Dependencies, Len(nodes), rank)
         /\ Acyclic(Dependencies)
<1>1. Nodes = 1..Len(nodes) /\ Len(nodes) \in Nat
  BY NodesAre
<1>2. \A n \in Nodes : nodes[n].deps \in Seq(1..Len(nodes))
  <2> SUFFICES ASSUME NEW n \in Nodes PROVE nodes[n].deps \in Seq(1..Len(nodes))
    OBVIOUS
  <2>1. nodes[n].deps \in Seq(Nat)
    BY NodesAre DEF NodeRecords
  <2>2. \A i \in DOMAIN nodes[n].deps : nodes[n].deps[i] \in 1..Len(nodes)
    BY <1>1 DEF Sound, ToSet
  <2>3. DOMAIN nodes[n].deps = 1..Len(nodes[n].deps) /\ Len(nodes[n].deps) \in Nat
    BY <2>1
  <2> DEFINE s == nodes[n].deps
  <2>4. s = [i \in 1..Len(s) |-> s[i]]
    BY <2>1, <2>3
  <2> HIDE DEF s
  <2>5. s \in [1..Len(s) -> 1..Len(nodes)]
    BY <2>2, <2>3, <2>4 DEF s
  <2>6. s \in Seq(1..Len(nodes))
    BY <2>3, <2>5, SeqDef DEF s
  <2> QED
    BY <2>6 DEF s
<1>3. PICK rank \in [Nodes -> Nodes] : \A n \in Nodes :
        \A d \in ToSet(nodes[n].deps) \cup ({nodes[n].body} \ {None}) :
          rank[d] < rank[n]
  BY DEF Sound
<1>4. \A n \in Nodes : \A d \in ToSet(nodes[n].deps) : rank[d] < rank[n]
  BY <1>3
<1>5. /\ DOMAIN Dependencies = Nodes
      /\ \A n \in Nodes : Dependencies[n] = nodes[n].deps
      /\ Dependencies \in [Nodes -> Seq(1..Len(nodes))]
  BY <1>2 DEF Dependencies
<1>6. Ranked(Dependencies, Len(nodes), rank)
  BY <1>1, <1>3, <1>4, <1>5 DEF Ranked
<1>7. Acyclic(Dependencies)
  BY <1>3, <1>4, <1>5 DEF Acyclic
<1> QED
  BY <1>1, <1>6, <1>7

(* The order of a sound graph has every node.                              *)
LEMMA OrderListsAll ==
  ASSUME Built, Sound
  PROVE  DOMAIN TopologicalOrder = Nodes /\ ToSet(TopologicalOrder) = Nodes
<1>1. PICK rank : Ranked(Dependencies, Len(nodes), rank)
  BY SoundIsRanked
<1>2. /\ DOMAIN PostOrder(Dependencies) = 1..Len(nodes)
      /\ ToSet(PostOrder(Dependencies)) = 1..Len(nodes)
  BY <1>1, PostOrderListsAll
<1> QED
  BY <1>2, SoundIsRanked DEF TopologicalOrder

(* next_stage of a sound graph finds a node that is ready, if there is one. *)
LEMMA NextIsReady ==
  ASSUME Built, Sound
  PROVE  IF \E n \in Nodes : Ready(n)
         THEN NextNode \in Nodes /\ Ready(NextNode)
         ELSE NextNode = None
<1> DEFINE order == TopologicalOrder
           stops == {i \in DOMAIN order : order[i] \notin Nodes \/ Ready(order[i])}
<1>1. DOMAIN order = Nodes /\ ToSet(order) = Nodes
  BY OrderListsAll
<1>2. \A i \in DOMAIN order : order[i] \in Nodes
  BY <1>1 DEF ToSet
<1>3. stops = {i \in DOMAIN order : Ready(order[i])}
  BY <1>2
<1>4. NextNode = IF stops = {} \/ order[Min(stops)] \notin Nodes THEN None
                 ELSE order[Min(stops)]
  BY DEF NextNode
<1>5. stops \in SUBSET Nat
  BY <1>1, SoundIsRanked
<1> HIDE DEF order, stops
<1>6. CASE stops = {}
  <2>1. \A n \in Nodes : \E i \in DOMAIN order : order[i] = n
    BY <1>1 DEF ToSet
  <2> QED
    BY <1>3, <1>4, <1>6, <2>1
<1>7. CASE stops # {}
  <2>1. Min(stops) \in stops
    BY <1>5, <1>7, MinIs
  <2> QED
    BY <1>2, <1>3, <1>4, <1>7, <2>1
<1> QED
  BY <1>6, <1>7

(* In a sound graph a body has one loop and is none.                       *)
LEMMA OneLoop ==
  ASSUME Built, Sound, NEW l \in Nodes, IsLoop(l)
  PROVE  /\ nodes[l].body \in Nodes /\ ~IsLoop(nodes[l].body)
         /\ LoopsOf(nodes[l].body) = {l} /\ Min(LoopsOf(nodes[l].body)) = l
         /\ nodes[l].body # None /\ nodes[l].limit \in Nat
<1>1. ~IsLoop(nodes[l].body) /\ LoopsOf(nodes[l].body) = {l}
  BY DEF Sound
<1>2. nodes[l].body \in 1..(l - 1) /\ l \in 1..Len(nodes) /\ Len(nodes) \in Nat
  BY SoundIsRanked DEF Built
<1>3. nodes[l].body \in Nodes /\ nodes[l].body # None
  BY <1>2, SoundIsRanked DEF None
<1>4. Min({l}) = l
  <2>1. {l} \in SUBSET Nat
    BY <1>2
  <2> QED
    BY <2>1, MinIs
<1>5. nodes[l].limit \in Nat
  BY NodesAre DEF NodeRecords
<1> QED
  BY <1>1, <1>3, <1>4, <1>5

(* The loop that encloses a node is the one it is the body of.             *)
LEMMA EnclosesIs ==
  ASSUME Built, Sound, NEW l \in Nodes, NEW n \in Nodes
  PROVE  Encloses(l, n) <=> IsLoop(l) /\ nodes[l].body = n
<1>1. CASE LoopsOf(n) = {}
  BY <1>1 DEF Encloses, LoopsOf
<1>2. CASE LoopsOf(n) # {}
  <2>1. PICK k \in Nodes : IsLoop(k) /\ nodes[k].body = n
    BY <1>2 DEF LoopsOf
  <2>2. LoopsOf(n) = {k} /\ Min(LoopsOf(n)) = k
    BY <2>1, OneLoop
  <2>3. IsLoop(l) /\ nodes[l].body = n <=> l \in LoopsOf(n)
    BY DEF LoopsOf
  <2> QED
    BY <1>2, <2>2, <2>3 DEF Encloses
<1> QED
  BY <1>1, <1>2

(* A loop is open as long as it may run or waits for a human.              *)
LEMMA VerdictIs ==
  ASSUME PlanTyped, NEW l \in Nodes
  PROVE  /\ Verdict(l) \in {"open", "complete", "error"}
         /\ Verdict(l) = "open" <=>
              \/ outcome[l] = "await"
              \/ outcome[l] = "none" /\ iterations[l] < nodes[l].limit
<1>1. outcome[l] \in {"return", "escalate", "fail", "await", "none"}
  BY DEF PlanTyped, Outcomes, Records
<1> QED
  BY <1>1 DEF Verdict

(* node_state of a sound graph: its recursion ends at the body.            *)
StageState(n) ==
  IF EnclosingState(n) # "open" THEN EnclosingState(n) ELSE own[n]
LoopState(l, body) ==
  IF Verdict(l) # "open" THEN Verdict(l)
  ELSE IF outcome[l] = "none" /\ iterations[l] = 0 /\ body = "pending"
       THEN "pending" ELSE "running"

LEMMA NodeStateIs ==
  ASSUME Built, Sound
  PROVE  \A n \in Nodes :
           NodeState[n] = IF IsLoop(n) THEN LoopState(n, StageState(nodes[n].body))
                          ELSE StageState(n)
<1> DEFINE Solves(f) ==
             f = [n \in Nodes |-> IF IsLoop(n) THEN LoopState(n, f[nodes[n].body])
                                  ELSE StageState(n)]
           g == [n \in Nodes |->
                   IF IsLoop(n) THEN LoopState(n, StageState(nodes[n].body))
                   ELSE StageState(n)]
<1>1. \A l \in Nodes : IsLoop(l) => nodes[l].body \in Nodes /\ ~IsLoop(nodes[l].body)
  BY OneLoop
<1> HIDE DEF g
<1>2. \A n \in Nodes : g[n] = IF IsLoop(n) THEN LoopState(n, g[nodes[n].body])
                              ELSE StageState(n)
  BY <1>1 DEF g
<1>3. Solves(g)
  <2>1. g = [n \in Nodes |-> g[n]]
    BY DEF g
  <2> QED
    BY <1>2, <2>1
<1>4. NodeState = CHOOSE f : Solves(f)
  BY DEF NodeState, LoopState, StageState
<1>5. Solves(NodeState)
  <2> HIDE DEF Solves
  <2> QED
    BY <1>3, <1>4
<1>6. \A n \in Nodes : NodeState[n] = IF IsLoop(n) THEN LoopState(n, NodeState[nodes[n].body])
                                      ELSE StageState(n)
  BY <1>5
<1> QED
  BY <1>1, <1>6

(* The graph stays as it is once the plan is made, and with it its shape.  *)
LEMMA SameGraph ==
  ASSUME Built, UNCHANGED nodes
  PROVE  /\ Nodes' = Nodes /\ (Sound' <=> Sound)
         /\ \A n : (IsLoop(n)' <=> IsLoop(n)) /\ LoopsOf(n)' = LoopsOf(n)
BY DEF Nodes, Sound, IsLoop, LoopsOf, ToSet

(* Whatever a graph is built of, a loop has a body before it.              *)
LEMMA BuiltStays ==
  ASSUME Built, [PlanNext]_planVars
  PROVE  Built'
<1>1. CASE nodes' = nodes /\ made' \in {"first", "anew"} /\ said' \in Outcomes
           /\ phase' \in {"build", "idle", "run", "control"}
  BY <1>1, SameGraph DEF Built
<1>2. CASE UNCHANGED planVars
  BY <1>1, <1>2 DEF planVars, Built
<1>3. ASSUME NEW e \in NodeRecords, Add(e),
             IF e.kind = "loop" THEN e.body \in Nodes ELSE e.body = None
      PROVE  Built'
  <2>1. nodes' = Append(nodes, e) /\ UNCHANGED <<made, said, phase>>
    BY <1>3 DEF Add
  <2>2. nodes \in Seq(NodeRecords) /\ Nodes = 1..Len(nodes) /\ Len(nodes) \in Nat
    BY NodesAre DEF Built, NodeRecords
  <2> HIDE DEF NodeRecords
  <2>3. nodes' \in Seq(NodeRecords) /\ Len(nodes') = Len(nodes) + 1
    BY <1>3, <2>1, <2>2, AppendProperties
  <2>4. /\ \A n \in 1..Len(nodes) : nodes'[n] = nodes[n]
        /\ nodes'[Len(nodes) + 1] = e
    BY <1>3, <2>1, <2>2, AppendProperties
  <2>5. Nodes' = 1..(Len(nodes) + 1)
    BY <2>3, <2>2 DEF Nodes
  <2>6. ASSUME NEW n \in Nodes'
        PROVE  IF IsLoop(n)' THEN nodes'[n].body \in 1..(n - 1)
               ELSE nodes'[n].body = None
    <3>1. CASE n \in Nodes
      BY <2>2, <2>4, <3>1 DEF Built, IsLoop
    <3>2. CASE n \notin Nodes
      <4>1. n = Len(nodes) + 1
        BY <2>2, <2>5, <3>2
      <4>2. nodes'[n] = e /\ Nodes = 1..(n - 1)
        BY <2>2, <2>4, <4>1
      <4> QED
        BY <1>3, <4>2 DEF IsLoop
    <3> QED
      BY <3>1, <3>2
  <2> QED
    BY <2>1, <2>3, <2>6 DEF Built, NodeRecords
<1>4. CASE AddStage
  <2> DEFINE e == [kind |-> "stage", body |-> None, limit |-> 0, succeed |-> FALSE,
                   deps |-> <<>>]
  <2>1. Add(e)
    BY <1>4 DEF AddStage
  <2>2. e \in NodeRecords /\ e.kind = "stage" /\ e.body = None
    BY DEF NodeRecords, None
  <2> HIDE DEF e
  <2> QED
    BY <1>3, <2>1, <2>2
<1>5. CASE AddLoop
  <2>1. PICK b \in Nodes, m \in Limits, s \in BOOLEAN :
          Add([kind |-> "loop", body |-> b, limit |-> m, succeed |-> s, deps |-> <<>>])
    BY <1>5 DEF AddLoop
  <2>2. b \in Nat /\ m \in Nat
    BY NodesAre, LoopsOK
  <2> DEFINE e == [kind |-> "loop", body |-> b, limit |-> m, succeed |-> s, deps |-> <<>>]
  <2>3. e \in NodeRecords /\ e.kind = "loop" /\ e.body = b
    BY <2>2 DEF NodeRecords
  <2>4. Add(e)
    BY <2>1
  <2> HIDE DEF e
  <2> QED
    BY <1>3, <2>3, <2>4
<1>6. CASE AddDependency
  <2>1. PICK n \in Nodes, d \in 1..MaxNodes :
          nodes' = [nodes EXCEPT ![n].deps = Append(@, d)]
    BY <1>6 DEF AddDependency
  <2>2. UNCHANGED <<made, said, phase>>
    BY <1>6 DEF AddDependency
  <2>3. nodes \in Seq(NodeRecords) /\ Nodes = 1..Len(nodes) /\ Len(nodes) \in Nat
    BY NodesAre DEF Built, NodeRecords
  <2>4. nodes[n] \in NodeRecords /\ d \in Nat
    BY NodesAre
  <2> DEFINE e == [nodes[n] EXCEPT !.deps = Append(@, d)]
  <2>5. /\ e \in NodeRecords /\ e.kind = nodes[n].kind /\ e.body = nodes[n].body
    <3>1. nodes[n].deps \in Seq(Nat)
      BY <2>4 DEF NodeRecords
    <3>2. Append(nodes[n].deps, d) \in Seq(Nat)
      BY <2>4, <3>1, AppendProperties
    <3> QED
      BY <2>4, <3>2 DEF NodeRecords
  <2>6. nodes' = [nodes EXCEPT ![n] = e]
    BY <2>1
  <2> HIDE DEF e, NodeRecords
  <2>7. nodes' \in Seq(NodeRecords) /\ Len(nodes') = Len(nodes)
    BY <2>3, <2>5, <2>6, ExceptSeq
  <2>8. Nodes' = Nodes /\ nodes'[n] = e /\ \A k \in Nodes : k # n => nodes'[k] = nodes[k]
    BY <2>3, <2>6, <2>7 DEF Nodes
  <2>9. ASSUME NEW k \in Nodes
        PROVE  nodes'[k].kind = nodes[k].kind /\ nodes'[k].body = nodes[k].body
    BY <2>5, <2>8
  <2>10. \A k \in Nodes' : IF IsLoop(k)' THEN nodes'[k].body \in 1..(k - 1)
                           ELSE nodes'[k].body = None
    BY <2>8, <2>9 DEF Built, IsLoop
  <2> QED
    BY <2>2, <2>7, <2>10 DEF Built, NodeRecords
<1>7. CASE \/ Start \/ RunNextStage \/ MarkStageComplete \/ WriteControl
           \/ MarkStageError \/ PlanAnew \/ Over
  <2>1. nodes' = nodes /\ made' \in {made, "anew"}
        /\ said' \in {said, "none"} \cup Outcomes
    BY <1>7 DEF Start, RunNextStage, MarkStageComplete, WriteControl, MarkStageError,
                PlanAnew, Over, planVars, graph, Idle, Outcomes
  <2>2. phase' \in {phase, "idle", "run", "control"}
    BY <1>7 DEF Start, RunNextStage, MarkStageComplete, WriteControl, MarkStageError,
                PlanAnew, Over, planVars, graph, Idle
  <2> QED
    BY <1>1, <2>1, <2>2 DEF Built, Outcomes
<1> QED
  BY <1>2, <1>4, <1>5, <1>6, <1>7 DEF PlanNext
-----------------------------------------------------------------------------
(* What the plan gives out is a stage whose loop, if it has one, is open   *)
(* and may count one more.                                                 *)
LEMMA ReadyMayRun ==
  ASSUME Built, Sound, InPlan, NEW n \in Nodes, Ready(n)
  PROVE  /\ Resolve(n) \in Nodes /\ ~IsLoop(Resolve(n)) /\ Resolve(n) # None
         /\ \A l \in Nodes : IsLoop(l) /\ nodes[l].body = Resolve(n) =>
              outcome[l] = "none" /\ iterations[l] < nodes[l].limit
<1>1. NodeState[n] = "pending"
  BY DEF Ready
<1>2. n # None
  BY SoundIsRanked DEF None
<1>3. CASE IsLoop(n)
  <2>1. Resolve(n) = nodes[n].body
    BY <1>3 DEF Resolve
  <2>2. LoopState(n, StageState(nodes[n].body)) = "pending"
    BY <1>1, <1>3, NodeStateIs
  <2>3. Verdict(n) = "open" /\ outcome[n] = "none"
    BY <2>2, VerdictIs DEF LoopState, InPlan
  <2>4. iterations[n] < nodes[n].limit
    BY <2>3, VerdictIs DEF InPlan
  <2>5. \A l \in Nodes : IsLoop(l) /\ nodes[l].body = nodes[n].body => l = n
    BY <1>3, OneLoop DEF LoopsOf
  <2> QED
    BY <1>3, <2>1, <2>3, <2>4, <2>5, OneLoop
<1>4. CASE ~IsLoop(n)
  <2>1. Resolve(n) = n
    BY <1>4 DEF Resolve
  <2>2. StageState(n) = "pending"
    BY <1>1, <1>4, NodeStateIs
  <2>3. ASSUME NEW l \in Nodes, IsLoop(l), nodes[l].body = n
        PROVE  outcome[l] = "none" /\ iterations[l] < nodes[l].limit
    <3>1. EnclosingState(n) = Verdict(l)
      <4>1. LoopsOf(n) = {l} /\ Min(LoopsOf(n)) = l
        BY <2>3, OneLoop
      <4> QED
        BY <4>1 DEF EnclosingState
    <3>2. Verdict(l) = "open" /\ own[n] = "pending"
      BY <2>2, <3>1, VerdictIs DEF StageState, InPlan
    <3>3. LoopKept(l, n)
      BY <2>3 DEF InPlan, LoopsKept
    <3>4. outcome[l] = "none"
      BY <3>2, <3>3 DEF LoopKept
    <3> QED
      BY <3>2, <3>4, VerdictIs DEF InPlan
  <2> QED
    BY <1>2, <1>4, <2>1, <2>3
<1> QED
  BY <1>3, <1>4

(* The four steps of a run, and a new start, keep what the plan knows.     *)
LEMMA StartKeeps ==
  ASSUME Built, Sound, Start
  PROVE  InPlan'
<1>1. Nodes' = Nodes /\ nodes' = nodes /\ made' = made
  BY DEF Start, graph, Nodes
<1>2. /\ mark' = [n \in Nodes |-> "pending"] /\ control' = [n \in Nodes |-> "none"]
      /\ ran' = [n \in Nodes |-> 0] /\ own' = [n \in Nodes |-> mark'[n]]
      /\ iterations' = [n \in Nodes |-> 0]
      /\ outcome' = [n \in Nodes |-> IF IsLoop(n) THEN control'[nodes[n].body] ELSE "none"]
      /\ phase' = "idle" /\ running' = None
  BY DEF Start, FromGraph, Idle
<1>3. \A l \in Nodes : IsLoop(l) => nodes[l].body \in Nodes /\ nodes[l].body # None
                                    /\ nodes[l].limit \in Nat
  BY OneLoop
<1>4. /\ mark' \in [Nodes -> {"pending"}] /\ own' \in [Nodes -> {"pending"}]
      /\ control' \in [Nodes -> {"none"}] /\ outcome' \in [Nodes -> {"none"}]
      /\ iterations' \in [Nodes -> {0}] /\ ran' \in [Nodes -> {0}]
  BY <1>2, <1>3
<1>5. PlanTyped'
  BY <1>1, <1>4 DEF PlanTyped, States, Outcomes
<1>6. RunsStage'
  BY <1>2 DEF RunsStage
<1>7. LoopsKept'
  <2> SUFFICES ASSUME NEW l \in Nodes, IsLoop(l)
               PROVE  LoopKept(l, nodes[l].body)'
    BY <1>1, SameGraph DEF LoopsKept
  <2> QED
    BY <1>1, <1>2, <1>3, <1>4 DEF LoopKept
<1> QED
  BY <1>5, <1>6, <1>7 DEF InPlan

LEMMA RunNextKeeps ==
  ASSUME Built, Sound, InPlan, RunNextStage
  PROVE  InPlan'
<1> DEFINE r == Resolve(NextNode)
<1>1. Nodes' = Nodes /\ nodes' = nodes /\ UNCHANGED <<own, iterations, outcome, control, made>>
  BY DEF RunNextStage, graph, plan, Nodes
<1>2. NextNode \in Nodes /\ Ready(NextNode) /\ phase = "idle" /\ running = None
  BY NextIsReady DEF RunNextStage, InPlan, RunsStage
<1>3. /\ r \in Nodes /\ ~IsLoop(r)
      /\ \A l \in Nodes : IsLoop(l) /\ nodes[l].body = r =>
           outcome[l] = "none" /\ iterations[l] < nodes[l].limit
  BY <1>2, ReadyMayRun
<1>4. /\ running' = r /\ ran' = [ran EXCEPT ![r] = @ + 1] /\ phase' = "run"
      /\ mark' = mark \/ mark' = [mark EXCEPT ![r] = "pending"]
  BY DEF RunNextStage
<1> HIDE DEF r
<1>5. PlanTyped'
  BY <1>1, <1>3, <1>4, SameGraph DEF PlanTyped, InPlan, States
<1>6. RunsStage'
  BY <1>1, <1>3, <1>4, SameGraph DEF RunsStage
<1>7. LoopsKept'
  <2> SUFFICES ASSUME NEW l \in Nodes, IsLoop(l)
               PROVE  LoopKept(l, nodes[l].body)'
    BY <1>1, SameGraph DEF LoopsKept
  <2>1. LoopKept(l, nodes[l].body) /\ nodes[l].body \in Nodes /\ nodes[l].body # running
    BY <1>2, OneLoop DEF InPlan, LoopsKept
  <2>2. iterations[l] \in Nat /\ nodes[l].limit \in Nat /\ ran[nodes[l].body] \in Nat
    BY <2>1, OneLoop DEF InPlan, PlanTyped
  <2>3. CASE nodes[l].body = r
    <3>1. outcome[l] = "none" /\ iterations[l] < nodes[l].limit
      BY <1>3, <2>3
    <3>2. ran'[r] = ran[r] + 1
      BY <1>3, <1>4 DEF InPlan, PlanTyped
    <3> QED
      BY <1>1, <1>4, <2>1, <2>2, <2>3, <3>1, <3>2 DEF LoopKept
  <2>4. CASE nodes[l].body # r
    <3>1. mark'[nodes[l].body] = mark[nodes[l].body] /\ ran'[nodes[l].body] = ran[nodes[l].body]
      BY <1>4, <2>1, <2>4 DEF InPlan, PlanTyped
    <3> QED
      BY <1>1, <1>4, <2>1, <2>4, <3>1 DEF LoopKept
  <2> QED
    BY <2>3, <2>4
<1> QED
  BY <1>5, <1>6, <1>7 DEF InPlan

LEMMA MarkKeeps ==
  ASSUME Built, Sound, InPlan, MarkStageComplete
  PROVE  InPlan'
<1>1. /\ Nodes' = Nodes /\ nodes' = nodes
      /\ UNCHANGED <<own, iterations, outcome, control, made, running, ran>>
  BY DEF MarkStageComplete, graph, plan, Nodes
<1>2. /\ mark' = [mark EXCEPT ![running] = "complete"] /\ phase' = "control"
      /\ running \in Nodes /\ ~IsLoop(running)
  BY DEF MarkStageComplete, InPlan, RunsStage
<1>3. PlanTyped' /\ mark'[running] = "complete"
      /\ \A n \in Nodes : mark'[n] \in {mark[n], "complete"}
  BY <1>1, <1>2, SameGraph DEF PlanTyped, InPlan, States
<1>4. RunsStage'
  BY <1>1, <1>2, <1>3, SameGraph DEF RunsStage
<1>5. LoopsKept'
  <2> SUFFICES ASSUME NEW l \in Nodes, IsLoop(l)
               PROVE  LoopKept(l, nodes[l].body)'
    BY <1>1, SameGraph DEF LoopsKept
  <2>1. LoopKept(l, nodes[l].body) /\ nodes[l].body \in Nodes
    BY OneLoop DEF InPlan, LoopsKept
  <2> QED
    BY <1>1, <1>3, <2>1 DEF LoopKept
<1> QED
  BY <1>3, <1>4, <1>5 DEF InPlan

(* What propagate_loop_completion does to the loop of the stage that ran.  *)
LEMMA PropagateIs ==
  ASSUME Built, Sound, InPlan, phase \in {"run", "control"}, nodes' = nodes,
         NEW state \in States,
         NEW it \in [Nodes -> Nat], NEW out \in [Nodes -> Outcomes],
         \A l \in Nodes : nodes[l].body # running \/ ~IsLoop(l) =>
           it[l] = iterations[l] /\ out[l] = outcome[l],
         \A l \in Nodes : nodes[l].body = running /\ IsLoop(l) /\ out[l] = "none" =>
           it[l] < nodes[l].limit,
         Propagate(it, out, running, state)
  PROVE  /\ own' \in [Nodes -> States] /\ iterations' \in [Nodes -> Nat]
         /\ \A n \in Nodes : n # running => own'[n] = own[n]
         /\ \A l \in Nodes : nodes[l].body # running \/ ~IsLoop(l) =>
              iterations'[l] = iterations[l]
         /\ \A l \in Nodes : nodes[l].body = running /\ IsLoop(l) =>
              IF out[l] = "none" THEN iterations'[l] = it[l] + 1 /\ own'[running] = "pending"
              ELSE iterations'[l] = it[l] /\ own'[running] = state
<1> DEFINE C == Counted(it, out, running)
<1>1. running \in Nodes
  BY DEF InPlan, RunsStage
<1>2. C \subseteq Nodes /\ \A l \in Nodes :
        l \in C <=> IsLoop(l) /\ nodes[l].body = running /\ out[l] = "none"
  BY DEF Counted, LoopsOf
<1>3. /\ iterations' = [l \in Nodes |-> IF l \in C THEN it[l] + 1 ELSE it[l]]
      /\ own' = [own EXCEPT ![running] = IF C = {} THEN state ELSE "pending"]
  BY DEF Propagate
<1>4. \A l \in Nodes : IsLoop(l) /\ nodes[l].body = running /\ out[l] # "none" => C = {}
  <2> SUFFICES ASSUME NEW l \in Nodes, IsLoop(l), nodes[l].body = running, out[l] # "none"
               PROVE  C = {}
    OBVIOUS
  <2>1. LoopsOf(running) = {l}
    BY OneLoop
  <2> QED
    BY <1>2, <2>1 DEF LoopsOf
<1> HIDE DEF C
<1>5. own \in [Nodes -> States]
  BY DEF InPlan, PlanTyped
<1>6. /\ own' \in [Nodes -> States]
      /\ \A n \in Nodes : n # running => own'[n] = own[n]
      /\ own'[running] = IF C = {} THEN state ELSE "pending"
  BY <1>1, <1>3, <1>5 DEF States
<1>7. iterations' \in [Nodes -> Nat]
  BY <1>3
<1>8. \A l \in Nodes : iterations'[l] = IF l \in C THEN it[l] + 1 ELSE it[l]
  BY <1>3
<1> QED
  BY <1>2, <1>4, <1>6, <1>7, <1>8

(* The record and the completion count together as one iteration.          *)
LEMMA ControlKeeps ==
  ASSUME Built, Sound, InPlan, WriteControl
  PROVE  InPlan'
<1> DEFINE it == Iterated(running, said)
           out == Recorded(running, said)
<1>1. /\ Nodes' = Nodes /\ nodes' = nodes /\ UNCHANGED <<mark, ran, made>>
      /\ phase' = "idle" /\ running' = None /\ phase = "control" /\ said \in Outcomes
  BY DEF WriteControl, graph, Idle, Nodes, Built
<1>2. running \in Nodes /\ ~IsLoop(running) /\ mark[running] = "complete"
  BY <1>1 DEF InPlan, RunsStage
<1>3. ASSUME NEW l \in Nodes
      PROVE  Encloses(l, running) <=> IsLoop(l) /\ nodes[l].body = running
  BY <1>2, EnclosesIs
<1>4. /\ it \in [Nodes -> Nat] /\ out \in [Nodes -> Outcomes]
      /\ \A l \in Nodes : nodes[l].body # running \/ ~IsLoop(l) =>
           it[l] = iterations[l] /\ out[l] = outcome[l]
      /\ \A l \in Nodes : nodes[l].body = running /\ IsLoop(l) =>
           IF said = "none" THEN it[l] = iterations[l] /\ out[l] = outcome[l]
           ELSE it[l] = iterations[l] + 1 /\ out[l] = said
  BY <1>1, <1>3 DEF Iterated, Recorded, InPlan, PlanTyped
<1>5. ASSUME NEW l \in Nodes, IsLoop(l), nodes[l].body = running
      PROVE  /\ outcome[l] = "none" /\ iterations[l] < nodes[l].limit
             /\ ran[running] <= iterations[l] + 1
  BY <1>5 DEF InPlan, LoopsKept, LoopKept
<1>6. /\ outcome' = out /\ Propagate(it, out, running, "complete")
      /\ control' = IF said = "none" THEN control ELSE [control EXCEPT ![running] = said]
  BY <1>2 DEF WriteControl, MarkNodeComplete
<1> HIDE DEF it, out
<1>7. /\ own' \in [Nodes -> States] /\ iterations' \in [Nodes -> Nat]
      /\ \A n \in Nodes : n # running => own'[n] = own[n]
      /\ \A l \in Nodes : nodes[l].body # running \/ ~IsLoop(l) =>
           iterations'[l] = iterations[l]
      /\ \A l \in Nodes : nodes[l].body = running /\ IsLoop(l) =>
           IF out[l] = "none" THEN iterations'[l] = it[l] + 1 /\ own'[running] = "pending"
           ELSE iterations'[l] = it[l] /\ own'[running] = "complete"
  <2>1. \A l \in Nodes : nodes[l].body = running /\ IsLoop(l) /\ out[l] = "none" =>
          it[l] < nodes[l].limit
    BY <1>4, <1>5
  <2>2. "complete" \in States
    BY DEF States
  <2> QED
    BY <1>1, <1>4, <1>6, <2>1, <2>2, PropagateIs
<1>8. /\ control' \in [Nodes -> Outcomes]
      /\ \A n \in Nodes : n # running => control'[n] = control[n]
      /\ control'[running] = IF said = "none" THEN control[running] ELSE said
  BY <1>1, <1>2, <1>6 DEF InPlan, PlanTyped
<1>9. PlanTyped'
  BY <1>1, <1>4, <1>6, <1>7, <1>8, SameGraph DEF PlanTyped, InPlan
<1>10. RunsStage'
  BY <1>1 DEF RunsStage
<1>11. LoopsKept'
  <2> SUFFICES ASSUME NEW l \in Nodes, IsLoop(l)
               PROVE  LoopKept(l, nodes[l].body)'
    BY <1>1, SameGraph DEF LoopsKept
  <2>1. LoopKept(l, nodes[l].body) /\ nodes[l].body \in Nodes /\ nodes[l].body # None
    BY OneLoop DEF InPlan, LoopsKept
  <2>2. iterations[l] \in Nat /\ nodes[l].limit \in Nat /\ ran[nodes[l].body] \in Nat
    BY <2>1, OneLoop DEF InPlan, PlanTyped
  <2>3. CASE nodes[l].body = running
    <3>1. /\ outcome[l] = "none" /\ iterations[l] < nodes[l].limit
          /\ ran[running] <= iterations[l] + 1 /\ outcome[l] = control[running]
      BY <1>5, <2>1, <2>3 DEF LoopKept
    <3>2. CASE said = "none"
      <4>1. /\ outcome'[l] = "none" /\ iterations'[l] = iterations[l] + 1
            /\ own'[running] = "pending" /\ control'[running] = "none"
        BY <1>4, <1>6, <1>7, <1>8, <2>3, <3>1, <3>2
      <4> QED
        BY <1>1, <2>1, <2>2, <2>3, <3>1, <4>1 DEF LoopKept
    <3>3. CASE said # "none"
      <4>1. /\ outcome'[l] = said /\ iterations'[l] = iterations[l] + 1
            /\ own'[running] = "complete" /\ control'[running] = said
        BY <1>4, <1>6, <1>7, <1>8, <2>3, <3>1, <3>3
      <4> QED
        BY <1>1, <1>2, <2>1, <2>2, <2>3, <3>1, <3>3, <4>1 DEF LoopKept
    <3> QED
      BY <3>2, <3>3
  <2>4. CASE nodes[l].body # running
    <3>1. /\ outcome'[l] = outcome[l] /\ iterations'[l] = iterations[l]
          /\ own'[nodes[l].body] = own[nodes[l].body]
          /\ control'[nodes[l].body] = control[nodes[l].body]
      BY <1>4, <1>6, <1>7, <1>8, <2>1, <2>4
    <3> QED
      BY <1>1, <2>1, <2>4, <3>1 DEF LoopKept
  <2> QED
    BY <2>3, <2>4
<1> QED
  BY <1>9, <1>10, <1>11 DEF InPlan

(* A failed run of a body is an iteration too.                             *)
LEMMA ErrorKeeps ==
  ASSUME Built, Sound, InPlan, MarkStageError
  PROVE  InPlan'
<1>1. /\ Nodes' = Nodes /\ nodes' = nodes /\ UNCHANGED <<control, ran, made>>
      /\ phase' = "idle" /\ running' = None /\ phase = "run"
  BY DEF MarkStageError, graph, Idle, Nodes
<1>2. running \in Nodes /\ ~IsLoop(running)
  BY <1>1 DEF InPlan, RunsStage
<1>3. /\ outcome' = outcome /\ Propagate(iterations, outcome, running, "error")
      /\ mark' = [mark EXCEPT ![running] = "error"]
  BY <1>2 DEF MarkStageError
<1>4. ASSUME NEW l \in Nodes, IsLoop(l), nodes[l].body = running
      PROVE  /\ outcome[l] = "none" /\ iterations[l] < nodes[l].limit
             /\ ran[running] <= iterations[l] + 1
  BY <1>4 DEF InPlan, LoopsKept, LoopKept
<1>5. /\ own' \in [Nodes -> States] /\ iterations' \in [Nodes -> Nat]
      /\ \A n \in Nodes : n # running => own'[n] = own[n]
      /\ \A l \in Nodes : nodes[l].body # running \/ ~IsLoop(l) =>
           iterations'[l] = iterations[l]
      /\ \A l \in Nodes : nodes[l].body = running /\ IsLoop(l) =>
           iterations'[l] = iterations[l] + 1 /\ own'[running] = "pending"
  <2>1. "error" \in States /\ iterations \in [Nodes -> Nat] /\ outcome \in [Nodes -> Outcomes]
    BY DEF States, InPlan, PlanTyped
  <2>2. \A l \in Nodes : nodes[l].body = running /\ IsLoop(l) /\ outcome[l] = "none" =>
          iterations[l] < nodes[l].limit
    BY <1>4
  <2>3. /\ own' \in [Nodes -> States] /\ iterations' \in [Nodes -> Nat]
        /\ \A n \in Nodes : n # running => own'[n] = own[n]
        /\ \A l \in Nodes : nodes[l].body # running \/ ~IsLoop(l) =>
             iterations'[l] = iterations[l]
        /\ \A l \in Nodes : nodes[l].body = running /\ IsLoop(l) =>
             IF outcome[l] = "none"
             THEN iterations'[l] = iterations[l] + 1 /\ own'[running] = "pending"
             ELSE iterations'[l] = iterations[l] /\ own'[running] = "error"
    BY <1>1, <1>3, <2>1, <2>2, PropagateIs
  <2> QED
    BY <1>4, <2>3
<1>6. PlanTyped' /\ \A n \in Nodes : n # running => mark'[n] = mark[n]
  BY <1>1, <1>2, <1>3, <1>5, SameGraph DEF PlanTyped, InPlan, States
<1>7. RunsStage'
  BY <1>1 DEF RunsStage
<1>8. LoopsKept'
  <2> SUFFICES ASSUME NEW l \in Nodes, IsLoop(l)
               PROVE  LoopKept(l, nodes[l].body)'
    BY <1>1, SameGraph DEF LoopsKept
  <2>1. LoopKept(l, nodes[l].body) /\ nodes[l].body \in Nodes /\ nodes[l].body # None
    BY OneLoop DEF InPlan, LoopsKept
  <2>2. iterations[l] \in Nat /\ nodes[l].limit \in Nat /\ ran[nodes[l].body] \in Nat
    BY <2>1, OneLoop DEF InPlan, PlanTyped
  <2>3. CASE nodes[l].body = running
    <3>1. /\ outcome[l] = "none" /\ iterations[l] < nodes[l].limit
          /\ ran[running] <= iterations[l] + 1
          /\ iterations'[l] = iterations[l] + 1 /\ own'[running] = "pending"
      BY <1>4, <1>5, <2>3
    <3> QED
      BY <1>1, <1>3, <2>1, <2>2, <2>3, <3>1 DEF LoopKept
  <2>4. CASE nodes[l].body # running
    BY <1>1, <1>3, <1>5, <1>6, <2>1, <2>4 DEF LoopKept
  <2> QED
    BY <2>3, <2>4
<1> QED
  BY <1>6, <1>7, <1>8 DEF InPlan

(* A plan made anew knows from the records what had ended.                 *)
LEMMA AgainKeeps ==
  ASSUME Built, Sound, InPlan, PlanAnew
  PROVE  InPlan' /\ \A l \in Nodes : IsLoop(l) => outcome'[l] = outcome[l]
<1>1. /\ Nodes' = Nodes /\ nodes' = nodes /\ UNCHANGED <<mark, control>>
      /\ phase' = "idle" /\ running' = None /\ made' = "anew"
  BY DEF PlanAnew, graph, directories, Idle, Nodes, Built
<1>2. /\ own' = [n \in Nodes |-> mark[n]] /\ iterations' = [n \in Nodes |-> 0]
      /\ outcome' = [n \in Nodes |-> IF IsLoop(n) THEN control[nodes[n].body] ELSE "none"]
      /\ ran' = [n \in Nodes |-> 0]
  BY DEF PlanAnew, FromGraph
<1>3. \A l \in Nodes : IsLoop(l) =>
        /\ nodes[l].body \in Nodes /\ nodes[l].body # None /\ nodes[l].limit \in Nat
        /\ LoopKept(l, nodes[l].body)
  BY OneLoop DEF InPlan, LoopsKept
<1>4. PlanTyped'
  BY <1>1, <1>2, <1>3, SameGraph DEF PlanTyped, InPlan, Outcomes
<1>5. RunsStage'
  BY <1>1 DEF RunsStage
<1>6. \A l \in Nodes : IsLoop(l) => outcome'[l] = outcome[l]
  BY <1>2, <1>3 DEF LoopKept
<1>7. LoopsKept'
  <2> SUFFICES ASSUME NEW l \in Nodes, IsLoop(l)
               PROVE  LoopKept(l, nodes[l].body)'
    BY <1>1, SameGraph DEF LoopsKept
  <2>1. /\ own'[nodes[l].body] = mark[nodes[l].body] /\ iterations'[l] = 0
        /\ ran'[nodes[l].body] = 0
    BY <1>2, <1>3
  <2> QED
    BY <1>1, <1>3, <1>6, <2>1 DEF LoopKept
<1> QED
  BY <1>4, <1>5, <1>6, <1>7 DEF InPlan

(* PlanInv is inductive.                                                   *)
LEMMA PlanKept == PlanSpec => []PlanInv
<1>1. PlanInit => PlanInv
  <2> SUFFICES ASSUME PlanInit PROVE PlanInv
    OBVIOUS
  <2>1. nodes = <<>> /\ phase = "build" /\ made = "first" /\ said = "none"
    BY DEF PlanInit
  <2>2. Built
    BY <2>1 DEF Built, Nodes, Outcomes
  <2> QED
    BY <2>1, <2>2 DEF PlanInv
<1>2. PlanInv /\ [PlanNext]_planVars => PlanInv'
  <2> SUFFICES ASSUME PlanInv, [PlanNext]_planVars PROVE PlanInv'
    OBVIOUS
  <2>1. Built /\ Built'
    BY BuiltStays DEF PlanInv
  <2> SUFFICES ASSUME phase' # "build", Sound' PROVE InPlan'
    BY <2>1 DEF PlanInv, InPlan
  <2>2. CASE UNCHANGED planVars \/ Over
    <3>1. UNCHANGED planVars
      BY <2>2 DEF Over, planVars
    <3>2. Sound /\ Nodes' = Nodes /\ phase # "build"
      BY <2>1, <3>1, SameGraph DEF planVars
    <3>3. InPlan
      BY <3>2 DEF PlanInv, InPlan
    <3>4. PlanTyped' /\ RunsStage'
      BY <2>1, <3>1, <3>2, <3>3, SameGraph DEF InPlan, PlanTyped, RunsStage, planVars
    <3>5. LoopsKept'
      <4> SUFFICES ASSUME NEW l \in Nodes, IsLoop(l)
                   PROVE  LoopKept(l, nodes[l].body)'
        BY <2>1, <3>1, <3>2, SameGraph DEF LoopsKept, planVars
      <4>1. LoopKept(l, nodes[l].body)
        BY <3>3 DEF InPlan, LoopsKept
      <4> QED
        BY <3>1, <4>1 DEF LoopKept, planVars
    <3> QED
      BY <3>4, <3>5 DEF InPlan
  <2>3. CASE AddStage \/ AddLoop \/ AddDependency
    <3>1. phase' = phase /\ phase = "build"
      BY <2>3 DEF AddStage, AddLoop, AddDependency, Add
    <3> QED
      BY <3>1
  <2>4. CASE Start
    <3>1. nodes' = nodes
      BY <2>4 DEF Start, graph
    <3> QED
      BY <2>1, <2>4, <3>1, SameGraph, StartKeeps
  <2>5. CASE RunNextStage \/ MarkStageComplete \/ WriteControl \/ MarkStageError \/ PlanAnew
    <3>1. nodes' = nodes /\ phase # "build"
      BY <2>5 DEF RunNextStage, MarkStageComplete, WriteControl, MarkStageError, PlanAnew, graph
    <3>2. Sound /\ InPlan
      BY <2>1, <3>1, SameGraph DEF PlanInv, InPlan
    <3> QED
      BY <2>1, <2>5, <3>2, RunNextKeeps, MarkKeeps, ControlKeeps, ErrorKeeps, AgainKeeps
  <2> QED
    BY <2>2, <2>3, <2>4, <2>5 DEF PlanNext
<1> QED
  BY <1>1, <1>2, PTL DEF PlanSpec

-----------------------------------------------------------------------------
(* The body of a loop runs no more often than max_iterations in the life   *)
(* of a plan, for any sound graph: the count, which mark_complete,         *)
(* mark_error and record_control_outcome raise, is never behind the runs.  *)
THEOREM LoopsAreBounded == PlanSpec => []Bounded
<1>1. PlanInv => Bounded
  <2> SUFFICES ASSUME PlanInv, phase # "build", Sound, NEW l \in Nodes, IsLoop(l)
               PROVE  ran[nodes[l].body] <= nodes[l].limit
    BY DEF Bounded
  <2>1. Built /\ PlanTyped /\ LoopKept(l, nodes[l].body)
    BY DEF PlanInv, InPlan, LoopsKept
  <2>2. iterations[l] \in Nat /\ nodes[l].limit \in Nat /\ ran[nodes[l].body] \in Nat
    BY <2>1, OneLoop DEF PlanTyped
  <2> QED
    BY <2>1, <2>2 DEF LoopKept
<1> QED
  BY <1>1, PlanKept, PTL

(* The body of an open loop is pending, unless the loop was forgotten.     *)
LEMMA WaitsOrForgotten ==
  ASSUME Built, InPlan, NEW l \in Nodes, IsLoop(l), nodes[l].body \in Nodes,
         Verdict(l) = "open", outcome[l] = "none",
         own[nodes[l].body] # "error", ~Forgotten(l)
  PROVE  own[nodes[l].body] = "pending"
<1>1. iterations[l] < nodes[l].limit
  BY VerdictIs DEF InPlan
<1>2. own[nodes[l].body] \in States
  BY DEF InPlan, PlanTyped
<1>3. CASE made = "first"
  BY <1>3 DEF InPlan, LoopsKept, LoopKept
<1>4. CASE made = "anew"
  BY <1>1, <1>2, <1>4 DEF Forgotten, States
<1> QED
  BY <1>3, <1>4 DEF Built

(* next_stage finds nothing only when the workflow is complete, has an     *)
(* error, waits at a loop or has forgotten one: of the nodes that are      *)
(* left, one of the lowest rank has all its dependencies complete, and is  *)
(* pending unless the plan was made anew.                                  *)
THEOREM HaltsAreExplained == PlanSpec => []HaltsForAReason
<1>1. PlanInv => HaltsForAReason
  <2> SUFFICES ASSUME PlanInv, phase = "idle", Sound, NextNode = None,
                      ~IsComplete,
                      \A n \in Nodes : /\ NodeState[n] # "error" /\ outcome[n] # "await"
                                       /\ IsLoop(n) => ~Forgotten(n)
               PROVE  FALSE
    BY DEF HaltsForAReason
  <2>1. Built /\ InPlan
    BY DEF PlanInv, InPlan
  <2>2. \A n \in Nodes : ~Ready(n) /\ n # None
    BY <2>1, NextIsReady, SoundIsRanked DEF None
  <2> DEFINE Left == {n \in Nodes : NodeState[n] # "complete"}
  <2>3. Left # {}
    BY <2>1, OrderListsAll DEF IsComplete
  <2>4. PICK rank \in [Nodes -> Nodes] : \A n \in Nodes :
          \A d \in ToSet(nodes[n].deps) \cup ({nodes[n].body} \ {None}) :
            rank[d] < rank[n]
    BY DEF Sound
  <2>5. Nodes \subseteq Nat /\ \A n \in Nodes : ToSet(nodes[n].deps) \subseteq Nodes
    <3>1. Nodes = 1..Len(nodes) /\ Len(nodes) \in Nat
      BY <2>1, SoundIsRanked
    <3>2. Nodes \subseteq Nat
      BY <3>1
    <3> QED
      BY <3>2 DEF Sound
  <2>6. PICK n \in Left : \A m \in Left : rank[n] <= rank[m]
    <3> DEFINE T == {rank[k] : k \in Left}
    <3>1. T \in SUBSET Nat /\ T # {}
      BY <2>3, <2>4, <2>5
    <3>2. PICK r \in T : \A k \in T : r <= k
      BY <3>1, LeastOf
    <3> QED
      BY <3>2
  <2>7. ASSUME NEW d \in Nodes, d \in ToSet(nodes[n].deps) \cup ({nodes[n].body} \ {None})
        PROVE  NodeState[d] = "complete"
    <3>1. rank[d] < rank[n] /\ rank[d] \in Nat /\ rank[n] \in Nat
      BY <2>4, <2>5, <2>7
    <3>2. d \notin Left
      BY <2>6, <3>1
    <3> QED
      BY <3>2
  <2>8. NodeState[n] # "pending"
    <3>1. \A d \in ToSet(nodes[n].deps) : d \in Nodes /\ NodeState[d] = "complete"
      BY <2>5, <2>7
    <3> QED
      BY <2>2, <3>1 DEF Ready
  <2>9. CASE ~IsLoop(n)
    <3>1. NodeState[n] = StageState(n)
      BY <2>1, <2>9, NodeStateIs
    <3>2. CASE LoopsOf(n) = {}
      BY <2>1, <2>6, <2>8, <3>1, <3>2 DEF StageState, EnclosingState, InPlan, PlanTyped, States
    <3>3. CASE LoopsOf(n) # {}
      <4>1. PICK l \in Nodes : IsLoop(l) /\ nodes[l].body = n
        BY <3>3 DEF LoopsOf
      <4>2. EnclosingState(n) = Verdict(l)
        BY <2>1, <4>1, OneLoop DEF EnclosingState
      <4>3. Verdict(l) = "open"
        BY <2>1, <2>6, <3>1, <4>2, VerdictIs DEF StageState, InPlan
      <4>4. outcome[l] = "none"
        BY <2>1, <4>3, VerdictIs DEF InPlan
      <4>5. NodeState[n] = own[n]
        BY <3>1, <4>2, <4>3 DEF StageState
      <4>6. own[n] = "pending"
        BY <2>1, <2>6, <4>1, <4>3, <4>4, <4>5, WaitsOrForgotten
      <4> QED
        BY <2>8, <4>5, <4>6
    <3> QED
      BY <3>2, <3>3
  <2>10. CASE IsLoop(n)
    <3> DEFINE b == nodes[n].body
    <3>1. b \in Nodes /\ ~IsLoop(b) /\ b # None /\ LoopsOf(b) = {n} /\ Min(LoopsOf(b)) = n
      BY <2>1, <2>10, OneLoop
    <3>2. NodeState[n] = LoopState(n, StageState(b))
      BY <2>1, <2>10, NodeStateIs
    <3>3. Verdict(n) = "open"
      BY <2>1, <2>6, <3>2, VerdictIs DEF LoopState, InPlan
    <3>4. outcome[n] = "none"
      BY <2>1, <3>3, VerdictIs DEF InPlan
    <3>5. NodeState[b] = own[b]
      BY <2>1, <3>1, <3>3, NodeStateIs DEF StageState, EnclosingState
    <3>6. NodeState[b] = "complete"
      BY <2>7, <3>1
    <3>7. own[b] = "pending"
      BY <2>1, <2>10, <3>1, <3>3, <3>4, <3>5, WaitsOrForgotten
    <3> QED
      BY <3>5, <3>6, <3>7
  <2> QED
    BY <2>9, <2>10
<1> QED
  BY <1>1, PlanKept, PTL

(* What a control record has ended stays ended, and its body does not      *)
(* begin again, through any number of plans: the record is in the plan  *)
(* and in .control, and the body complete in both.                         *)
THEOREM EndsArePermanent == PlanSpec => EndedForGood
<1> DEFINE Stays == phase # "build" /\ Sound => \A l \in Nodes : outcome[l] # "none" =>
                      /\ outcome'[l] = outcome[l]
                      /\ ~(running' = nodes[l].body /\ running # running')
<1>1. PlanInv /\ [PlanNext]_planVars => [Stays]_planVars
  <2> SUFFICES ASSUME PlanInv, PlanNext, phase # "build", Sound,
                      NEW l \in Nodes, outcome[l] # "none"
               PROVE  outcome'[l] = outcome[l] /\ ~(running' = nodes[l].body /\ running # running')
    OBVIOUS
  <2>1. Built /\ InPlan
    BY DEF PlanInv, InPlan
  <2>2. IsLoop(l) /\ LoopKept(l, nodes[l].body)
    BY <2>1 DEF InPlan, PlanTyped, LoopsKept
  <2>3. nodes[l].body # running /\ nodes[l].body # None
    BY <2>1, <2>2, OneLoop DEF LoopKept
  <2>4. CASE RunNextStage
    <3>1. NextNode \in Nodes /\ Ready(NextNode)
      BY <2>1, <2>4, NextIsReady DEF RunNextStage
    <3>2. nodes[l].body # Resolve(NextNode)
      BY <2>1, <2>2, <3>1, ReadyMayRun
    <3> QED
      BY <2>4, <3>2 DEF RunNextStage, plan
  <2>5. CASE MarkStageComplete
    BY <2>5 DEF MarkStageComplete, plan
  <2>6. CASE WriteControl
    <3>1. running \in Nodes
      BY <2>1, <2>6 DEF WriteControl, InPlan, RunsStage
    <3>2. ~Encloses(l, running)
      BY <2>1, <2>3, <3>1, EnclosesIs
    <3> QED
      BY <2>3, <2>6, <3>2 DEF WriteControl, Recorded, Idle
  <2>7. CASE MarkStageError
    <3>1. ~IsLoop(running)
      BY <2>1, <2>7 DEF MarkStageError, InPlan, RunsStage
    <3> QED
      BY <2>3, <2>7, <3>1 DEF MarkStageError, Idle
  <2>8. CASE PlanAnew
    BY <2>1, <2>2, <2>3, <2>8, AgainKeeps DEF PlanAnew, Idle
  <2>9. CASE Over
    BY <2>9 DEF Over, planVars
  <2> QED
    BY <2>4, <2>5, <2>6, <2>7, <2>8, <2>9
       DEF PlanNext, AddStage, AddLoop, AddDependency, Add, Start
<1> QED
  BY <1>1, PlanKept, PTL DEF PlanSpec, EndedForGood
=============================================================================
