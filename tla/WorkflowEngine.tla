--------------------------- MODULE WorkflowEngine ---------------------------
(***************************************************************************)
(* One workflow directory and the engines that work on it: the server's    *)
(* actor (AppState behind a mailbox, zerochain-engine actor.rs, state.rs)  *)
(* and runs of the command line tool (zerochain-daemon main.rs), each with *)
(* its own copy of the markers in memory.  They share the disk: the marker *)
(* files and the output of every stage, and the stage locks, which here    *)
(* are the abstract lock of StageMutex (StageLock models the lock file).   *)
(*                                                                         *)
(* An engine does one thing at a time; each await that touches the disk    *)
(* ends a step.                                                            *)
(***************************************************************************)
EXTENDS StagePlan, FiniteSets

CONSTANTS Engines,    \* processes that open the workspace
          Servers,    \* those that stay: the others exit after a command
          Gates,      \* stages with human_gate set
          Commands,   \* what users ask for in this model
          Failing,    \* what may fail in this model
          MaxFaults,  \* bound on the failures
          NoOne

ASSUME EnginesOK ==
  /\ Servers \subseteq Engines
  /\ Gates \subseteq Stages
  /\ Commands \subseteq {"run_next", "run", "mark", "answer_gate"}
  /\ Failing \subseteq {"crash", "exec", "clean", "mark", "reload"}
  /\ MaxFaults \in Nat
  /\ NoOne \notin Engines

VARIABLES
  disk,    \* disk[i]: the marker files of stage i
  output,  \* output[i]: whose result is in stage i's output directory
  lock,    \* lock[i]: the engine that holds the lock of stage i
  mem,     \* mem[e][i]: the markers of stage i as engine e last read them
  pc,      \* pc[e]: what engine e does next
  job,     \* job[e]: a run of a stage, a mark by a user, or nothing
  cur,     \* cur[e]: the stage of the job
  todo,    \* todo[e]: the markers engine e has still to read
  due,     \* due[e]: the handler that marked a stage has a reload to send
  faults   \* failures so far

vars == <<disk, output, lock, mem, pc, job, cur, todo, due, faults>>
private == <<mem, todo, due>>

Completing == {"c_write", "c_check", "c_remove"}
Erring == {"e_write", "e_check", "e_remove"}
Marking == Completing \cup Erring
Places == Marking \cup {"down", "idle", "read", "clean", "exec"}

Goto(e, to) == pc' = [pc EXCEPT ![e] = to]
Set(i, k, b) == disk' = [disk EXCEPT ![i] = [@ EXCEPT ![k] = b]]

Fault(what) == what \in Failing /\ faults < MaxFaults /\ faults' = faults + 1

Init ==
  /\ disk = [i \in Stages |-> NoMarks]
  /\ output = [i \in Stages |-> NoOne]
  /\ lock = [i \in Stages |-> NoOne]
  /\ mem = [e \in Engines |-> [i \in Stages |-> NoMarks]]
  /\ pc = [e \in Engines |-> "down"]
  /\ job = [e \in Engines |-> "none"]
  /\ cur = [e \in Engines |-> None]
  /\ todo = [e \in Engines |-> {}]
  /\ due = [e \in Engines |-> FALSE]
  /\ faults = 0

-----------------------------------------------------------------------------
(* The end of a command: the guard of the stage lock is dropped; a server  *)
(* takes its next message, a command line tool exits and forgets.          *)
Unlock(e) == lock' = [i \in Stages |-> IF lock[i] = e THEN NoOne ELSE lock[i]]

Forget(e) == mem' = [mem EXCEPT ![e] = [i \in Stages |-> NoMarks]]

Finish(e) ==
  /\ IF e \in Servers
     THEN Goto(e, "idle") /\ UNCHANGED mem
     ELSE Goto(e, "down") /\ Forget(e)
  /\ job' = [job EXCEPT ![e] = "none"]
  /\ cur' = [cur EXCEPT ![e] = None]
  /\ Unlock(e)

-----------------------------------------------------------------------------
(* load_workflows, reload_workflow and refresh_stage: marker by marker,    *)
(* .complete before .error for each stage.                                 *)
ReadAll(e) ==
  /\ Goto(e, "read")
  /\ todo' = [todo EXCEPT ![e] = Stages \X Markers]

(* A process starts and loads the workflow.                                *)
Start(e) ==
  /\ pc[e] = "down"
  /\ ReadAll(e)
  /\ UNCHANGED <<disk, output, lock, mem, job, cur, due, faults>>

(* The reload message that an approval or rejection handler sends after    *)
(* the marking message was answered.                                       *)
Reload(e) ==
  /\ pc[e] = "idle"
  /\ due[e]
  /\ due' = [due EXCEPT ![e] = FALSE]
  /\ ReadAll(e)
  /\ UNCHANGED <<disk, output, lock, mem, job, cur, faults>>

Read(e) ==
  /\ pc[e] = "read"
  /\ \E i \in Stages, k \in Markers :
       /\ <<i, k>> \in todo[e]
       /\ k = "error" => <<i, "complete">> \notin todo[e]
       /\ \A j \in Stages, l \in Markers : <<j, l>> \in todo[e] => i <= j
       /\ mem' = [mem EXCEPT ![e][i] = [@ EXCEPT ![k] = disk[i][k]]]
       /\ todo' = [todo EXCEPT ![e] = @ \ {<<i, k>>}]
  /\ UNCHANGED <<disk, output, lock, pc, job, cur, due, faults>>

(* A run ends with the markers read; a load leaves the engine ready.       *)
ReadDone(e) ==
  /\ pc[e] = "read"
  /\ todo[e] = {}
  /\ IF job[e] = "none"
     THEN Goto(e, "idle") /\ UNCHANGED <<job, cur, lock, mem>>
     ELSE Finish(e)
  /\ UNCHANGED <<disk, output, todo, due, faults>>

(* Both the refresh of the stage and the full reload after it fail; the    *)
(* failures are logged and the run ends with what has been read.           *)
ReadFails(e) ==
  /\ pc[e] = "read"
  /\ job[e] = "run"
  /\ Fault("reload")
  /\ Finish(e)
  /\ todo' = [todo EXCEPT ![e] = {}]
  /\ UNCHANGED <<disk, output, due>>

-----------------------------------------------------------------------------
(* Mutant: the stage lock is not taken.                                    *)
BeginRunUnlocked(e, i) ==
  /\ pc[e] = "idle"
  /\ IF i \in Gates
     THEN Finish(e)
     ELSE /\ job' = [job EXCEPT ![e] = "run"]
          /\ cur' = [cur EXCEPT ![e] = i]
          /\ Goto(e, "clean")
          /\ UNCHANGED <<lock, mem>>
  /\ UNCHANGED <<disk, output, todo, due, faults>>

(* Mutant: human_gate is not looked at.                                    *)
BeginRunThroughGate(e, i) ==
  /\ pc[e] = "idle"
  /\ IF lock[i] # NoOne
     THEN Finish(e)
     ELSE /\ lock' = [lock EXCEPT ![i] = e]
          /\ job' = [job EXCEPT ![e] = "run"]
          /\ cur' = [cur EXCEPT ![e] = i]
          /\ Goto(e, "clean")
          /\ UNCHANGED mem
  /\ UNCHANGED <<disk, output, todo, due, faults>>

(* run_stage.  A gate refuses to run; so does a stage whose lock is held.  *)
BeginRun(e, i) ==
  /\ pc[e] = "idle"
  /\ IF i \in Gates \/ lock[i] # NoOne
     THEN Finish(e)
     ELSE /\ lock' = [lock EXCEPT ![i] = e]
          /\ job' = [job EXCEPT ![e] = "run"]
          /\ cur' = [cur EXCEPT ![e] = i]
          /\ Goto(e, "clean")
          /\ UNCHANGED mem
  /\ UNCHANGED <<disk, output, todo, due, faults>>

(* There is nothing to run: only the command ends.                         *)
Refuse(e) ==
  /\ pc[e] = "idle"
  /\ Finish(e)
  /\ UNCHANGED <<disk, output, todo, due, faults>>

(* run_next_stage, or `run` without a stage: the plan is made from memory. *)
RunNext(e) ==
  /\ "run_next" \in Commands
  /\ \/ NoneLeft(mem[e]) /\ Refuse(e)
     \/ \E i \in Stages : IsNext(mem[e], i) /\ BeginRun(e, i)

(* run_stage of a stage the user names; `run` refuses it when the workflow *)
(* is complete, the server does not.                                       *)
Run(e, i) ==
  /\ "run" \in Commands
  /\ IF e \notin Servers /\ PlanComplete(mem[e])
     THEN Refuse(e)
     ELSE BeginRun(e, i)

(* clean_output; its failure is only logged.                               *)
Clean(e) ==
  /\ pc[e] = "clean"
  /\ \/ output' = [output EXCEPT ![cur[e]] = NoOne] /\ UNCHANGED faults
     \/ Fault("clean") /\ UNCHANGED output
  /\ Goto(e, "exec")
  /\ UNCHANGED <<disk, lock, private, job, cur>>

(* execute_stage: result.md is written, or a hook skipped the stage.       *)
ExecOk(e) ==
  /\ pc[e] = "exec"
  /\ \/ output' = [output EXCEPT ![cur[e]] = e]
     \/ UNCHANGED output
  /\ Goto(e, "c_write")
  /\ UNCHANGED <<disk, lock, private, job, cur, faults>>

(* The execution fails, before or after result.md was written.             *)
ExecFails(e) ==
  /\ pc[e] = "exec"
  /\ Fault("exec")
  /\ \/ output' = [output EXCEPT ![cur[e]] = e]
     \/ UNCHANGED output
  /\ Goto(e, "e_write")
  /\ UNCHANGED <<disk, lock, private, job, cur>>

-----------------------------------------------------------------------------
(* Approval and rejection: mark_stage_complete and mark_stage_error,       *)
(* without the stage lock.  A user answers the gate the plan waits at      *)
(* ("answer_gate"), or marks any stage ("mark").                           *)
MayMark(e, i) ==
  \/ "mark" \in Commands
  \/ "answer_gate" \in Commands /\ i \in Gates /\ IsNext(mem[e], i)

BeginMark(e, i, at) ==
  /\ pc[e] = "idle"
  /\ MayMark(e, i)
  /\ job' = [job EXCEPT ![e] = "mark"]
  /\ cur' = [cur EXCEPT ![e] = i]
  /\ Goto(e, at)
  /\ UNCHANGED <<disk, output, lock, private, faults>>

Approve(e, i) == BeginMark(e, i, "c_write")
Reject(e, i) == BeginMark(e, i, "e_write")

(* Mutant: a run ends without reading its markers back.                    *)
MarkedUnread(e) ==
  /\ Finish(e)
  /\ due' = [due EXCEPT ![e] = e \in Servers /\ job[e] = "mark"]
  /\ UNCHANGED todo

(* Mutant: an approval or rejection is not followed by a reload.           *)
MarkedNoReload(e) ==
  IF job[e] = "run"
  THEN /\ Goto(e, "read")
       /\ todo' = [todo EXCEPT ![e] = {cur[e]} \X Markers]
       /\ UNCHANGED <<lock, job, cur, mem, due>>
  ELSE Finish(e) /\ UNCHANGED <<todo, due>>

(* After the markers: a run refreshes its stage, still under the lock; the *)
(* handler of a mark owes a reload (the command line tool just exits).     *)
Marked(e) ==
  IF job[e] = "run"
  THEN /\ Goto(e, "read")
       /\ todo' = [todo EXCEPT ![e] = {cur[e]} \X Markers]
       /\ UNCHANGED <<lock, job, cur, mem, due>>
  ELSE /\ Finish(e)
       /\ due' = [due EXCEPT ![e] = e \in Servers]
       /\ UNCHANGED todo

(* A failed mark ends the command without reading anything back, except    *)
(* that a run which failed to write .error still refreshes.                *)
MarkFailed(e) ==
  IF job[e] = "run" /\ pc[e] \in Erring
  THEN Marked(e)
  ELSE Finish(e) /\ UNCHANGED <<todo, due>>

(* The first half of a mark: create one marker.                            *)
Write(e, at, k, next) ==
  /\ pc[e] = at
  /\ Set(cur[e], k, TRUE)
  /\ Goto(e, next)
  /\ UNCHANGED <<output, lock, private, job, cur, faults>>

(* The second half: look for the other marker, and remove it if it exists. *)
Check(e, at, k, next) ==
  /\ pc[e] = at
  /\ IF disk[cur[e]][k]
     THEN Goto(e, next) /\ UNCHANGED <<lock, private, job, cur>>
     ELSE Marked(e)
  /\ UNCHANGED <<disk, output, faults>>

Unlink(e, at, k) ==
  /\ pc[e] = at
  /\ Set(cur[e], k, FALSE)
  /\ IF disk[cur[e]][k] THEN Marked(e) ELSE MarkFailed(e)
  /\ UNCHANGED <<output, faults>>

WriteComplete(e) == Write(e, "c_write", "complete", "c_check")
CheckError(e) == Check(e, "c_check", "error", "c_remove")
RemoveError(e) == Unlink(e, "c_remove", "error")

(* Mutant: a completion marker is not removed when an error is recorded.   *)
WriteErrorOnly(e) ==
  /\ pc[e] = "e_write"
  /\ Set(cur[e], "error", TRUE)
  /\ Marked(e)
  /\ UNCHANGED <<output, faults>>

WriteError(e) == Write(e, "e_write", "error", "e_check")
CheckComplete(e) == Check(e, "e_check", "complete", "e_remove")
RemoveComplete(e) == Unlink(e, "e_remove", "complete")

(* The client goes away before its handler has sent the reload, or the     *)
(* reload fails: the workflow in memory stays as it was.                   *)
ReloadLost(e) ==
  /\ due[e]
  /\ Fault("reload")
  /\ due' = [due EXCEPT ![e] = FALSE]
  /\ UNCHANGED <<disk, output, lock, mem, pc, job, cur, todo>>

(* One of these file operations fails.                                     *)
MarkIoFails(e) ==
  /\ pc[e] \in Marking
  /\ Fault("mark")
  /\ MarkFailed(e)
  /\ UNCHANGED <<disk, output>>

(* The process is killed: memory is lost, its stage lock becomes stale and *)
(* so available, the disk stays.                                           *)
Crash(e) ==
  /\ pc[e] # "down"
  /\ Fault("crash")
  /\ Goto(e, "down")
  /\ job' = [job EXCEPT ![e] = "none"]
  /\ cur' = [cur EXCEPT ![e] = None]
  /\ todo' = [todo EXCEPT ![e] = {}]
  /\ due' = [due EXCEPT ![e] = FALSE]
  /\ Unlock(e)
  /\ Forget(e)
  /\ UNCHANGED <<disk, output>>

-----------------------------------------------------------------------------
(* What an engine does without being asked.                                *)
Work(e) ==
  \/ Start(e) \/ Read(e) \/ ReadDone(e) \/ Reload(e)
  \/ Clean(e) \/ ExecOk(e)
  \/ WriteComplete(e) \/ CheckError(e) \/ RemoveError(e)
  \/ WriteError(e) \/ CheckComplete(e) \/ RemoveComplete(e)

Asked(e) ==
  \/ RunNext(e)
  \/ \E i \in Stages : Run(e, i) \/ Approve(e, i) \/ Reject(e, i)

Fails(e) ==
  ExecFails(e) \/ MarkIoFails(e) \/ ReadFails(e) \/ ReloadLost(e) \/ Crash(e)

Next == \E e \in Engines : Work(e) \/ Asked(e) \/ Fails(e)

Spec == Init /\ [][Next]_vars

(* A killed server is started again, a call returns, a reload waits in the *)
(* actor's queue behind finitely many messages, and somebody keeps asking  *)
(* for the next stage and approves the gate the workflow waits at.         *)
Fairness ==
  \A e \in Engines :
    /\ WF_vars(Work(e))
    /\ SF_vars(Reload(e))
    /\ WF_vars(RunNext(e))
    /\ WF_vars(\E i \in Gates : Approve(e, i))

FairSpec == Spec /\ Fairness

-----------------------------------------------------------------------------
(* Every variable has its type.                                            *)
TypeOK ==
  /\ disk \in [Stages -> Marks]
  /\ output \in [Stages -> Engines \cup {NoOne}]
  /\ lock \in [Stages -> Engines \cup {NoOne}]
  /\ mem \in [Engines -> [Stages -> Marks]]
  /\ pc \in [Engines -> Places]
  /\ job \in [Engines -> {"none", "run", "mark"}]
  /\ cur \in [Engines -> Stages \cup {None}]
  /\ todo \in [Engines -> SUBSET (Stages \X Markers)]
  /\ due \in [Engines -> BOOLEAN]
  /\ faults \in 0..MaxFaults

(* "A stage with both markers is a wedge" (state.rs:755): if nothing fails *)
(* a stage has both only while an engine that wrote one of them is about   *)
(* to remove the other, however runs, approvals and rejections of the      *)
(* stage by several engines interleave.                                    *)
Undoing == {"c_check", "c_remove", "e_check", "e_remove"}

NotWedged ==
  \A i \in Stages :
    (disk[i]["complete"] /\ disk[i]["error"] /\ faults = 0)
      => \E e \in Engines : cur[e] = i /\ pc[e] \in Undoing

(* An engine that runs a stage finds its own result, or none, in output/   *)
(* until it has written the marker: the stage lock, held over clean_output,*)
(* execute_stage and the marks, keeps every other engine out.              *)
ResultIsMine ==
  \A e \in Engines :
    (job[e] = "run" /\ pc[e] \in Marking \cup {"exec"})
      => output[cur[e]] \in {e, NoOne} \/ "clean" \in Failing

(* The markers a lone server plans with are those on disk whenever it is   *)
(* ready for a message, unless a handler still has its reload to send.     *)
MemoryCurrent ==
  \A e \in Servers : (pc[e] = "idle" /\ ~due[e]) => mem[e] = disk

Begins(e) == pc[e] = "idle" /\ pc'[e] = "clean"

(* A stage whose result was accepted or rejected is not run again, so that *)
(* its output is not wiped ("Resolve the next pending stage and run it     *)
(* atomically", state.rs:352).                                             *)
RunsOnlyPending ==
  [][\A e \in Engines : Begins(e) => Pending(disk, cur'[e])]_vars

(* As long as somebody asks for the next stage and answers the gates, the  *)
(* workflow completes or stands at an error a user has to look at, crashes *)
(* included.                                                               *)
Settled == PlanComplete(disk) \/ \E i \in Stages : Failed(disk, i)
Settles == []<>Settled

(* Not checked by a run, false for one stage, the command "run" and one    *)
(* crash: "Crash-safe ... automatic recovery" (README.md:85), a crash in   *)
(* the middle of a run leaves the stage to be run again, never complete    *)
(* with the output directory already emptied.                              *)
CrashLeavesPending ==
  [][\A e \in Engines :
       (pc[e] = "exec" /\ pc'[e] = "down") => ~Done(disk', cur[e])]_vars
=============================================================================
