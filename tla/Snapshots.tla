----------------------------- MODULE Snapshots ------------------------------
(***************************************************************************)
(* The snapshots of one workflow (zerochain-engine state.rs, with the      *)
(* directory backend of zerochain-fs cow.rs): processes take snapshots of  *)
(* stage directories, on demand or beside the model call of a run, delete  *)
(* the oldest ones, and restore a stage from its latest one.  There is no  *)
(* lock on .snapshots/ or on the stage that is copied.                     *)
(*                                                                         *)
(* A directory is what has become of its two parts: the files of the stage *)
(* and output/, which a run writes while the copy is in flight.            *)
(***************************************************************************)
EXTENDS Naturals, FiniteSets

CONSTANTS Procs,      \* processes that have the workflow open
          Stages,
          Commands,   \* Commands[p]: what process p is asked to do
          Max,        \* MAX_SNAPSHOTS_PER_WORKFLOW
          PerSecond,  \* ticks of the clock in a second
          MaxClock,   \* bound on the clock
          MaxMade,    \* bound on the snapshots ever made
          MaxFaults,  \* bound on crashes and failed operations
          Absent,     \* the directory does not exist
          NoName      \* the process handles no snapshot

Parts == {"files", "output"}
Dirs == [Parts -> {"gone", "torn", "whole"}]
Nothing == [k \in Parts |-> "gone"]

(* <stage>.<timestamp>.<nonce>: the second, and the fraction of a second.  *)
Names == [stage : Stages, sec : Nat, nonce : Nat]

ASSUME SnapshotsOK ==
  /\ \A p \in Procs : Commands[p] \subseteq {"snapshot", "run", "restore"}
  /\ Max \in Nat
  /\ PerSecond \in Nat \ {0}
  /\ {MaxClock, MaxMade} \subseteq Nat
  /\ MaxFaults \in Nat
  /\ Absent \notin Dirs
  /\ NoName \notin Names

VARIABLES
  clock,    \* the time, in ticks
  dir,      \* dir[s]: the directory of stage s
  snaps,    \* the snapshots on disk: a function from their names
  made,     \* auxiliary: the names ever created
  pc,       \* pc[p]: where process p is in its operation
  name,     \* name[p]: the snapshot it makes or restores
  todo,     \* todo[p]: the parts it has still to copy
  doomed,   \* doomed[p]: the snapshots it is going to delete
  llm,      \* llm[p]: the model call of a run, beside its snapshot
  faults,   \* crashes and failed operations so far
  overlap   \* auxiliary: two processes were at work at the same time

vars ==
  <<clock, dir, snaps, made, pc, name, todo, doomed, llm, faults, overlap>>

Taking == {"nonce", "create", "copy", "list", "evict"}
Restoring == {"wipe", "refill", "fill"}
Places == Taking \cup Restoring \cup {"idle", "join"}

Kept == DOMAIN snaps
Busy == {p \in Procs : pc[p] # "idle"}
StageOf(p) == name[p].stage

Goto(p, to) == pc' = [pc EXCEPT ![p] = to]
Put(n, d) == snaps' = [m \in Kept \cup {n} |-> IF m = n THEN d ELSE snaps[m]]
SetDir(s, d) == dir' = [dir EXCEPT ![s] = d]

Fault == faults < MaxFaults /\ faults' = faults + 1

(* An operation is over, whatever came of it.                              *)
Idle(p) ==
  /\ Goto(p, "idle")
  /\ name' = [name EXCEPT ![p] = NoName]
  /\ todo' = [todo EXCEPT ![p] = {}]

(* snapshot_chrono_key: the stage does not count.                          *)
NotOlder(m, n) ==
  m.sec > n.sec \/ (m.sec = n.sec /\ m.nonce >= n.nonce)

Init ==
  /\ clock = 0
  /\ dir = [s \in Stages |-> [Nothing EXCEPT !["files"] = "whole"]]
  /\ snaps = [n \in {} |-> Nothing]
  /\ made = {}
  /\ pc = [p \in Procs |-> "idle"]
  /\ name = [p \in Procs |-> NoName]
  /\ todo = [p \in Procs |-> {}]
  /\ doomed = [p \in Procs |-> {}]
  /\ llm = [p \in Procs |-> "none"]
  /\ faults = 0
  /\ overlap = FALSE

Tick ==
  /\ clock < MaxClock
  /\ clock' = clock + 1
  /\ UNCHANGED <<dir, snaps, made, pc, name, todo, doomed, llm, faults, overlap>>

-----------------------------------------------------------------------------
(* snapshot_stage and snapshot_stage_at_path                               *)

Begin(p) == overlap' = (overlap \/ Busy # {})

(* The timestamp is read first; the nonce is a second look at the clock.   *)
Stamp(p, s) ==
  /\ pc[p] = "idle"
  /\ Cardinality(made) < MaxMade
  /\ name' = [name EXCEPT ![p] =
                [stage |-> s, sec |-> clock \div PerSecond, nonce |-> 0]]
  /\ Goto(p, "nonce")
  /\ Begin(p)

(* On demand (zerochain_snapshot, and the runs in containers).             *)
Snapshot(p, s) ==
  /\ "snapshot" \in Commands[p]
  /\ Stamp(p, s)
  /\ UNCHANGED <<clock, dir, snaps, made, todo, doomed, llm, faults>>

(* run_stage and execute_stage_with_llm: under the stage lock output/ is   *)
(* emptied; then the snapshot task runs beside the driver.                 *)
Run(p, s) ==
  /\ "run" \in Commands[p]
  /\ dir[s] # Absent
  /\ ~\E q \in Procs : llm[q] # "none" /\ StageOf(q) = s
  /\ Stamp(p, s)
  /\ SetDir(s, [dir[s] EXCEPT !["output"] = "gone"])
  /\ llm' = [llm EXCEPT ![p] = "asked"]
  /\ UNCHANGED <<clock, snaps, made, todo, doomed, faults>>

Nonce(p) ==
  /\ pc[p] = "nonce"
  /\ name' = [name EXCEPT ![p] =
                [stage |-> StageOf(p), sec |-> @.sec, nonce |-> clock % PerSecond]]
  /\ Goto(p, "create")
  /\ UNCHANGED <<clock, dir, snaps, made, todo, doomed, llm, faults, overlap>>

(* The snapshot succeeded or failed; a run waits for its model call.       *)
Taken(p) ==
  IF llm[p] = "none"
  THEN Idle(p)
  ELSE /\ Goto(p, "join")
       /\ todo' = [todo EXCEPT ![p] = {}]
       /\ UNCHANGED name

(* CowPlatform::snapshot needs a source and a name that is not taken.      *)
Create(p) ==
  /\ pc[p] = "create"
  /\ IF dir[StageOf(p)] = Absent \/ name[p] \in Kept
     THEN Taken(p) /\ UNCHANGED <<snaps, made>>
     ELSE /\ Put(name[p], Nothing)
          /\ made' = made \cup {name[p]}
          /\ todo' = [todo EXCEPT ![p] = Parts]
          /\ Goto(p, "copy")
          /\ UNCHANGED name
  /\ UNCHANGED <<clock, dir, doomed, llm, faults, overlap>>

(* A source that goes away is an error; for a target that goes away the    *)
(* fallback after cp (copy_dir_recursive) begins again.                    *)
Copy(p) ==
  /\ pc[p] = "copy"
  /\ \E k \in todo[p] :
       IF dir[StageOf(p)] = Absent
       THEN Taken(p) /\ UNCHANGED snaps
       ELSE IF name[p] \notin Kept
       THEN /\ Put(name[p], Nothing)
            /\ todo' = [todo EXCEPT ![p] = Parts]
            /\ UNCHANGED <<pc, name>>
       ELSE /\ Put(name[p], [snaps[name[p]] EXCEPT ![k] = dir[StageOf(p)][k]])
            /\ todo' = [todo EXCEPT ![p] = @ \ {k}]
            /\ UNCHANGED <<pc, name>>
  /\ UNCHANGED <<clock, dir, made, doomed, llm, faults, overlap>>

(* Mutant: the snapshot beside a model call keeps output/.                 *)
CopiedWithOutput(p) ==
  /\ pc[p] = "copy" /\ todo[p] = {}
  /\ Goto(p, "list")
  /\ UNCHANGED <<clock, dir, snaps, made, name, todo, doomed, llm, faults, overlap>>

(* omit_output: a run removes output/ from the copy, or logs that it could *)
(* not; then the old snapshots are looked at.                              *)
Copied(p) ==
  /\ pc[p] = "copy" /\ todo[p] = {}
  /\ \/ /\ IF llm[p] # "none" /\ name[p] \in Kept
           THEN Put(name[p], [snaps[name[p]] EXCEPT !["output"] = "gone"])
           ELSE UNCHANGED snaps
        /\ UNCHANGED faults
     \/ llm[p] # "none" /\ Fault /\ UNCHANGED snaps
  /\ Goto(p, "list")
  /\ UNCHANGED <<clock, dir, made, name, todo, doomed, llm, overlap>>

-----------------------------------------------------------------------------
(* cleanup_old_snapshots_static                                            *)

(* Mutant: the snapshots are sorted by their full names, stage first.      *)
OldestByName(V) ==
  \E s \in Stages : \A v \in V, n \in Kept \ V : v.stage = s \/ n.stage # s

Excess == IF Cardinality(Kept) > Max THEN Cardinality(Kept) - Max ELSE 0

(* V is a choice of the oldest; ties may fall either way.                  *)
Oldest(V) == \A v \in V, n \in Kept \ V : NotOlder(n, v)

List(p) ==
  /\ pc[p] = "list"
  /\ \E V \in SUBSET Kept :
       /\ Cardinality(V) = Excess
       /\ Oldest(V)
       /\ doomed' = [doomed EXCEPT ![p] = V]
  /\ Goto(p, "evict")
  /\ UNCHANGED <<clock, dir, snaps, made, name, todo, llm, faults, overlap>>

(* remove_snapshot, oldest first; a failure, or a name that another        *)
(* process has deleted, is only logged.                                    *)
Evict(p) ==
  /\ pc[p] = "evict"
  /\ \E v \in doomed[p] :
       /\ \A w \in doomed[p] : NotOlder(w, v)
       /\ \/ snaps' = [n \in Kept \ {v} |-> snaps[n]] /\ UNCHANGED faults
          \/ Fault /\ UNCHANGED snaps
       /\ doomed' = [doomed EXCEPT ![p] = @ \ {v}]
  /\ UNCHANGED <<clock, dir, made, pc, name, todo, llm, overlap>>

Evicted(p) ==
  /\ pc[p] = "evict"
  /\ doomed[p] = {}
  /\ Taken(p)
  /\ UNCHANGED <<clock, dir, snaps, made, doomed, llm, faults, overlap>>

-----------------------------------------------------------------------------
(* The model call of a run: result.md is written in place, or not at all.  *)
WriteOutput(p, how) ==
  SetDir(StageOf(p), [(IF dir[StageOf(p)] = Absent THEN Nothing
                       ELSE dir[StageOf(p)]) EXCEPT !["output"] = how])

Answer(p) ==
  /\ \/ llm[p] = "asked" /\ WriteOutput(p, "torn")
        /\ llm' = [llm EXCEPT ![p] = "writing"]
     \/ llm[p] = "asked" /\ llm' = [llm EXCEPT ![p] = "answered"] /\ UNCHANGED dir
     \/ llm[p] = "writing" /\ WriteOutput(p, "whole")
        /\ llm' = [llm EXCEPT ![p] = "answered"]
  /\ UNCHANGED <<clock, snaps, made, pc, name, todo, doomed, faults, overlap>>

(* snapshot_task.await: the run ends when both are done.                   *)
Join(p) ==
  /\ pc[p] = "join"
  /\ llm[p] = "answered"
  /\ llm' = [llm EXCEPT ![p] = "none"]
  /\ Idle(p)
  /\ UNCHANGED <<clock, dir, snaps, made, doomed, faults, overlap>>

-----------------------------------------------------------------------------
(* restore_stage                                                           *)

(* Mutant: the stage is removed before the snapshot is looked for.         *)
RestoreWipesFirst(p, s) ==
  /\ "restore" \in Commands[p]
  /\ pc[p] = "idle"
  /\ \/ /\ ~\E n \in Kept : n.stage = s
        /\ SetDir(s, Absent)
        /\ UNCHANGED <<pc, name, overlap>>
     \/ \E n \in Kept :
          /\ n.stage = s
          /\ \A m \in Kept : m.stage = s => NotOlder(n, m)
          /\ name' = [name EXCEPT ![p] = n]
          /\ Goto(p, "refill")
          /\ SetDir(s, Absent)
          /\ Begin(p)
  /\ UNCHANGED <<clock, snaps, made, todo, doomed, llm, faults>>

(* find_latest_snapshot; without one the command ends in an error.         *)
Restore(p, s) ==
  /\ "restore" \in Commands[p]
  /\ pc[p] = "idle"
  /\ \E n \in Kept :
       /\ n.stage = s
       /\ \A m \in Kept : m.stage = s => NotOlder(n, m)
       /\ name' = [name EXCEPT ![p] = n]
  /\ Goto(p, "wipe")
  /\ Begin(p)
  /\ UNCHANGED <<clock, dir, snaps, made, todo, doomed, llm, faults>>

Wipe(p) ==
  /\ pc[p] = "wipe"
  /\ SetDir(StageOf(p), Absent)
  /\ Goto(p, "refill")
  /\ UNCHANGED <<clock, snaps, made, name, todo, doomed, llm, faults, overlap>>

(* The copy back: again it needs a source and a target that is not there.  *)
Refill(p) ==
  /\ pc[p] = "refill"
  /\ IF name[p] \notin Kept \/ dir[StageOf(p)] # Absent
     THEN Idle(p) /\ UNCHANGED dir
     ELSE /\ SetDir(StageOf(p), Nothing)
          /\ todo' = [todo EXCEPT ![p] = Parts]
          /\ Goto(p, "fill")
          /\ UNCHANGED name
  /\ UNCHANGED <<clock, snaps, made, doomed, llm, faults, overlap>>

Fill(p) ==
  /\ pc[p] = "fill"
  /\ \E k \in todo[p] :
       IF name[p] \notin Kept
       THEN Idle(p) /\ UNCHANGED dir
       ELSE IF dir[StageOf(p)] = Absent
       THEN /\ SetDir(StageOf(p), Nothing)
            /\ todo' = [todo EXCEPT ![p] = Parts]
            /\ UNCHANGED <<pc, name>>
       ELSE /\ SetDir(StageOf(p),
                 [dir[StageOf(p)] EXCEPT ![k] = snaps[name[p]][k]])
            /\ todo' = [todo EXCEPT ![p] = @ \ {k}]
            /\ UNCHANGED <<pc, name>>
  /\ UNCHANGED <<clock, snaps, made, doomed, llm, faults, overlap>>

Restored(p) ==
  /\ pc[p] = "fill"
  /\ todo[p] = {}
  /\ Idle(p)
  /\ UNCHANGED <<clock, dir, snaps, made, doomed, llm, faults, overlap>>

-----------------------------------------------------------------------------
(* A call fails: the snapshot or the restore ends where it is.             *)
IoFails(p) ==
  /\ pc[p] \in {"create", "copy", "list"} \cup Restoring
  /\ Fault
  /\ IF pc[p] \in Restoring THEN Idle(p) ELSE Taken(p)
  /\ UNCHANGED <<clock, dir, snaps, made, doomed, llm, overlap>>

(* The process is killed and started again; the disk stays as it is.       *)
Crash(p) ==
  /\ pc[p] # "idle"
  /\ Fault
  /\ Idle(p)
  /\ doomed' = [doomed EXCEPT ![p] = {}]
  /\ llm' = [llm EXCEPT ![p] = "none"]
  /\ UNCHANGED <<clock, dir, snaps, made, overlap>>

Next ==
  \/ Tick
  \/ \E p \in Procs :
       \/ \E s \in Stages : Snapshot(p, s) \/ Run(p, s) \/ Restore(p, s)
       \/ Nonce(p) \/ Create(p) \/ Copy(p) \/ Copied(p)
       \/ List(p) \/ Evict(p) \/ Evicted(p)
       \/ Answer(p) \/ Join(p)
       \/ Wipe(p) \/ Refill(p) \/ Fill(p) \/ Restored(p)
       \/ IoFails(p) \/ Crash(p)

Spec == Init /\ [][Next]_vars

-----------------------------------------------------------------------------
(* Every variable has its type.                                            *)
TypeOK ==
  /\ clock \in Nat
  /\ dir \in [Stages -> Dirs \cup {Absent}]
  /\ snaps \in [Kept -> Dirs]
  /\ made \in SUBSET Names
  /\ Kept \subseteq made
  /\ pc \in [Procs -> Places]
  /\ name \in [Procs -> Names \cup {NoName}]
  /\ todo \in [Procs -> SUBSET Parts]
  /\ doomed \in [Procs -> SUBSET made]
  /\ llm \in [Procs -> {"none", "asked", "writing", "answered"}]
  /\ faults \in 0..MaxFaults
  /\ overlap \in BOOLEAN

(* A snapshot is only deleted when Max others that are not older have been *)
(* made, whichever stages they are of and however many processes clean up  *)
(* at once ("could evict the NEWEST snapshot of an early-named stage",     *)
(* state.rs:988).                                                          *)
Successors(n) == {m \in made \ {n} : NotOlder(m, n)}

NewestKept ==
  \A n \in made : Cardinality(Successors(n)) < Max => n \in Kept

(* One operation at a time and no failure: no snapshot ever holds a        *)
(* half-written result, although runs write while they are copied          *)
(* ("copying output/ here could capture a torn result.md", state.rs:848).  *)
Serial == faults = 0 /\ ~overlap
InFlight == {name[p] : p \in {q \in Procs : pc[q] = "copy"}}

NoTornResult ==
  Serial => \A n \in Kept \ InFlight : snaps[n]["output"] # "torn"

(* One operation at a time and no failure: snapshots, deletions and        *)
(* restores in any order never lose a stage ("restoring stage from         *)
(* snapshot", state.rs:925, removes it first).                             *)
StageSurvives ==
  (Serial /\ Busy = {}) =>
    \A s \in Stages : dir[s] # Absent /\ dir[s]["files"] = "whole"

(* Not checked by a run, false for one process when MaxClock is 2:         *)
(* "snapshot_restores_latest_when_multiple" (state.rs:1680), a snapshot    *)
(* sorts after those that were made before it began.                       *)
LaterSortsLater ==
  [][\A p \in Procs : (pc[p] = "nonce" /\ pc'[p] = "create") =>
       \A m \in made : NotOlder(name'[p], m)]_vars
=============================================================================
