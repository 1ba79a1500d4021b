----------------------------- MODULE StageLock ------------------------------
(***************************************************************************)
(* The lock file of one stage directory (zerochain-fs/src/atomic.rs): the  *)
(* system calls of acquire_lock and of LockGuard, made by several tasks of *)
(* several processes.  Every await of acquire_lock ends a step, so any     *)
(* other task may run between two of them.                                 *)
(*                                                                         *)
(* A process is named by its PID.  One that dies and a later one that gets *)
(* its PID (PID 1 of a restarted container) are the same element of Procs: *)
(* the code cannot tell them apart either.  A PID that is free may also go *)
(* to a process that never works on this stage (`strangers`), which the    *)
(* code takes for the owner all the same.                                  *)
(***************************************************************************)
EXTENDS Naturals, FiniteSets

CONSTANTS Procs,      \* PIDs
          Tasks,      \* tasks that may call acquire_lock on the directory
          Home,       \* Home[t]: the process task t belongs to
          Mortal,     \* the processes that may be killed and started again
          Askers,     \* the tasks that keep asking; of the others any may stop
          MaxFaults,  \* bound on crashes and failed system calls
          NoFile,     \* the lock file does not exist
          NoProc      \* no PID has been read

ASSUME ConstantsOK ==
  /\ IsFiniteSet(Tasks)
  /\ Home \in [Tasks -> Procs]
  /\ Mortal \subseteq Procs
  /\ Askers \subseteq Tasks
  /\ MaxFaults \in Nat
  /\ NoProc \notin Procs
  /\ NoFile \notin [by : Tasks, full : BOOLEAN]

VARIABLES
  file,    \* the lock file: who created it, and whether its PID is in it yet
  held,    \* held[p]: guards of the path that process p has registered
  pc,      \* how far each task is in acquire_lock, or "holding" the guard
  saw,     \* the PID each task has read in the lock file
  alive,   \* the processes that run
  strangers, \* the PIDs that other processes have
  faults,  \* crashes and failed calls so far
  robbed   \* auxiliary: a lock in use has been deleted by a stealer

vars == <<file, held, pc, saw, alive, strangers, faults, robbed>>

(* A task that has created the file and neither failed nor released it.    *)
Owning == {"write", "register", "holding"}
Steps == Owning \cup {"idle", "read", "judge", "remove", "recreate"}

TasksOf(p) == {t \in Tasks : Home[t] = p}
Holders == {t \in Tasks : pc[t] = "holding"}

Runs(t, at) == Home[t] \in alive /\ pc[t] = at
Goto(t, to) == pc' = [pc EXCEPT ![t] = to]

(* The PIDs that exist, what is_pid_alive sees.                            *)
Pids == alive \cup strangers

Init ==
  /\ file = NoFile
  /\ held = [p \in Procs |-> 0]
  /\ pc = [t \in Tasks |-> "idle"]
  /\ saw = [t \in Tasks |-> NoProc]
  /\ alive = Procs /\ strangers = {}
  /\ faults = 0
  /\ robbed = FALSE

-----------------------------------------------------------------------------
(* acquire_lock                                                            *)

(* Mutant: the file is opened with truncate(true), not create_new(true).   *)
OpenTrunc(t) ==
  /\ file' = [by |-> t, full |-> FALSE]
  /\ Goto(t, "write")

(* open(O_CREAT|O_EXCL): the file appears empty, its PID comes later.      *)
OpenExcl(t) ==
  /\ file = NoFile
  /\ file' = [by |-> t, full |-> FALSE]
  /\ Goto(t, "write")

(* The first attempt; on AlreadyExists the file is examined.               *)
Create(t) ==
  /\ Runs(t, "idle")
  /\ \/ OpenExcl(t)
     \/ file # NoFile /\ Goto(t, "read") /\ UNCHANGED file
  /\ UNCHANGED <<held, saw, alive, strangers, faults, robbed>>

(* write_all: the PID goes to the file the task opened, which may have     *)
(* been unlinked meanwhile.                                                *)
WriteContent(t) ==
  /\ Runs(t, "write")
  /\ IF file # NoFile /\ file.by = t
     THEN file' = [by |-> t, full |-> TRUE]
     ELSE UNCHANGED file
  /\ Goto(t, "register")
  /\ UNCHANGED <<held, saw, alive, strangers, faults, robbed>>

(* sync_all returned; the guard is counted in the process's registry.      *)
Register(t) ==
  /\ Runs(t, "register")
  /\ held' = [held EXCEPT ![Home[t]] = @ + 1]
  /\ Goto(t, "holding")
  /\ UNCHANGED <<file, saw, alive, strangers, faults, robbed>>

(* read_lock_pid: a file that is gone or has no PID counts as corrupt.     *)
ReadPid(t) ==
  /\ Runs(t, "read")
  /\ IF file # NoFile /\ file.full
     THEN saw' = [saw EXCEPT ![t] = Home[file.by]] /\ Goto(t, "judge")
     ELSE Goto(t, "remove") /\ UNCHANGED saw
  /\ UNCHANGED <<file, held, alive, strangers, faults, robbed>>

(* Mutant: no registry; a live PID means that the lock is in use.          *)
SeenInUseByPid(t) == saw[t] \in Pids

(* The lock is in use: by a guard of this process, or by a live process,   *)
(* whatever that process is.                                               *)
SeenInUse(t) ==
  IF saw[t] = Home[t] THEN held[Home[t]] > 0 ELSE saw[t] \in Pids

(* LockHeld is returned, or the file is judged stale.                      *)
Judge(t) ==
  /\ Runs(t, "judge")
  /\ Goto(t, IF SeenInUse(t) THEN "idle" ELSE "remove")
  /\ saw' = [saw EXCEPT ![t] = NoProc]
  /\ UNCHANGED <<file, held, alive, strangers, faults, robbed>>

(* remove_file: whatever file has the name now is unlinked.                *)
RemoveFile(t) ==
  /\ Runs(t, "remove")
  /\ robbed' = (robbed \/ (file # NoFile /\ pc[file.by] \in Owning))
  /\ file' = NoFile
  /\ Goto(t, "recreate")
  /\ UNCHANGED <<held, saw, alive, strangers, faults>>

(* Mutant: having removed a stale file, the second attempt just writes.    *)
RecreateBlindly(t) ==
  /\ Runs(t, "recreate")
  /\ file' = [by |-> t, full |-> FALSE]
  /\ Goto(t, "write")
  /\ UNCHANGED <<held, saw, alive, strangers, faults, robbed>>

(* The second attempt; on AlreadyExists LockHeld is returned.              *)
Recreate(t) ==
  /\ Runs(t, "recreate")
  /\ \/ OpenExcl(t)
     \/ file # NoFile /\ Goto(t, "idle") /\ UNCHANGED file
  /\ UNCHANGED <<held, saw, alive, strangers, faults, robbed>>

-----------------------------------------------------------------------------
(* Mutant: the count is tested before it is decremented.                   *)
ReleaseTestsFirst(t) ==
  /\ Runs(t, "holding")
  /\ file' = IF held[Home[t]] = 0 THEN NoFile ELSE file
  /\ held' = [held EXCEPT ![Home[t]] = @ - 1]
  /\ Goto(t, "idle")
  /\ UNCHANGED <<saw, alive, strangers, faults, robbed>>

(* LockGuard::release and Drop: unregister_lock.  The file goes with the   *)
(* last guard of the process, whoever created it.                          *)
Release(t) ==
  /\ Runs(t, "holding")
  /\ held' = [held EXCEPT ![Home[t]] = @ - 1]
  /\ file' = IF held'[Home[t]] = 0 THEN NoFile ELSE file
  /\ Goto(t, "idle")
  /\ UNCHANGED <<saw, alive, strangers, faults, robbed>>

-----------------------------------------------------------------------------
(* Faults                                                                  *)

Fault ==
  /\ faults < MaxFaults
  /\ faults' = faults + 1

(* A failed write_all, sync_all, unlink or second open ends acquire_lock   *)
(* and leaves the file as it is; a failed read counts as a corrupt file.   *)
CallFails(t) ==
  /\ Home[t] \in alive
  /\ Fault
  /\ \/ pc[t] \in {"write", "register", "remove", "recreate"} /\ Goto(t, "idle")
     \/ pc[t] = "read" /\ Goto(t, "remove")
  /\ UNCHANGED <<file, held, saw, alive, strangers, robbed>>

(* A process is killed: its tasks and its registry go, the file stays.     *)
Crash(p) ==
  /\ p \in alive \cap Mortal
  /\ Fault
  /\ alive' = alive \ {p}
  /\ pc' = [t \in Tasks |-> IF Home[t] = p THEN "idle" ELSE pc[t]]
  /\ saw' = [t \in Tasks |-> IF Home[t] = p THEN NoProc ELSE saw[t]]
  /\ held' = [held EXCEPT ![p] = 0]
  /\ UNCHANGED <<file, strangers, robbed>>

(* A process starts under a PID that was in use before.                    *)
Restart(p) ==
  /\ p \in Procs \ Pids
  /\ alive' = alive \cup {p}
  /\ UNCHANGED <<file, held, pc, saw, strangers, faults, robbed>>

(* So does a process that never asks for this stage, and ends again.       *)
ReusePid(p) ==
  /\ p \in Procs \ Pids
  /\ Fault
  /\ strangers' = strangers \cup {p}
  /\ UNCHANGED <<file, held, pc, saw, alive, robbed>>

FreePid(p) ==
  /\ p \in strangers
  /\ strangers' = strangers \ {p}
  /\ UNCHANGED <<file, held, pc, saw, alive, faults, robbed>>

-----------------------------------------------------------------------------
Acquiring(t) ==
  \/ WriteContent(t) \/ Register(t) \/ ReadPid(t)
  \/ Judge(t) \/ RemoveFile(t) \/ Recreate(t)

Next ==
  \/ \E t \in Tasks :
       \/ Create(t) \/ WriteContent(t) \/ Register(t) \/ ReadPid(t)
       \/ Judge(t) \/ RemoveFile(t) \/ Recreate(t) \/ Release(t) \/ CallFails(t)
  \/ \E p \in Procs : Crash(p) \/ Restart(p) \/ ReusePid(p) \/ FreePid(p)

Spec == Init /\ [][Next]_vars

(* A started call finishes and a stage run ends (its tool loop and its     *)
(* calls are bounded).  Only the Askers ask again; nobody has to start a   *)
(* process again, and a PID in use may stay in use.                        *)
Fairness ==
  /\ \A t \in Tasks : WF_vars(Acquiring(t)) /\ WF_vars(Release(t))
  /\ \A t \in Askers : WF_vars(Create(t))

FairSpec == Spec /\ Fairness

-----------------------------------------------------------------------------
(* Every variable has its type.                                            *)
TypeOK ==
  /\ file \in [by : Tasks, full : BOOLEAN] \cup {NoFile}
  /\ held \in [Procs -> Nat]
  /\ pc \in [Tasks -> Steps]
  /\ saw \in [Tasks -> Procs \cup {NoProc}]
  /\ alive \in SUBSET Procs
  /\ strangers \in SUBSET Procs
  /\ faults \in 0..MaxFaults
  /\ robbed \in BOOLEAN

(* The registry counts exactly the live guards of its process: an          *)
(* untracked path (atomic.rs:179-182) means no guard, so that a file of    *)
(* this process without a registration really is a leftover.               *)
GuardsCounted ==
  \A p \in Procs : held[p] = Cardinality(Holders \cap TasksOf(p))

(* Two tasks are inside the stage only if a stealer has deleted the lock   *)
(* file of a task that was using it: creating, registering and releasing   *)
(* alone never let a second task in, crashes and failed calls included.    *)
MutexUnlessRobbed == robbed \/ \A t, u \in Holders : t = u

(* Without a crash or a failed call no lock file survives its tasks, even  *)
(* when several guards were alive at once: "remove the lock file only when *)
(* the last guard for the path is gone" (atomic.rs:198-199), and then do.  *)
NoLeftover ==
  (faults = 0 /\ \A t \in Tasks : pc[t] = "idle") => file = NoFile

(* The file names a PID of a process that is there but has no guard, and   *)
(* does not ask: one that has nothing to do with the stage, or one whose   *)
(* own call failed behind the creation of the file.                        *)
Mistaken ==
  /\ file # NoFile /\ file.full
  /\ LET p == Home[file.by] IN
       /\ p \in Pids /\ held[p] = 0
       /\ p \in alive => TasksOf(p) \cap Askers = {}

(* A dead or failed owner does not wedge the stage ("automatic recovery",  *)
(* README.md:85): for as long as one task keeps asking, somebody gets in   *)
(* again and again, with the one exception that the PID in the file is for *)
(* ever that of a live process which does not ask.                         *)
NeverWedged == []<>(Holders # {}) \/ <>[]Mistaken

(* Not checked by a run, false once the PID of a killed process goes to a  *)
(* process that stays, and after a failed call of a process that lives on: *)
(* "PID-based stale lock detection, automatic recovery" (README.md:85).    *)
AlwaysRecovers == []<>(Holders # {})

(* The lock keeps the promise of StageMutex, the robbery being its break.  *)
Abstract == INSTANCE StageMutex WITH holders <- Holders, broken <- robbed
Promise == Abstract!Spec

(* Not checked by a run, false for two tasks of one process and no fault:  *)
(* "Same PID but untracked: stale leftover from a leaked guard in this     *)
(* process; safe to steal below" (atomic.rs:319-320), when a task judges a *)
(* file with its own PID stale, no task of its process has a lock in use.  *)
StealsOnlyLeftovers ==
  [][\A t \in Tasks :
       (pc[t] = "judge" /\ saw[t] = Home[t] /\ pc'[t] = "remove")
         => \A u \in TasksOf(Home[t]) : pc[u] \notin Owning]_vars

(* Not checked by a run, false for two processes and no fault:             *)
(* "file_locking_prevents_concurrent_access" (a test of the daemon,        *)
(* tests/integration.rs:264), one task at a time is inside, of any         *)
(* process.                                                                *)
AtMostOneHolder == \A t, u \in Holders : t = u
=============================================================================
