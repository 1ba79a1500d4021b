----------------------- MODULE WorkflowEngine_proofs -----------------------
(* Proofs about WorkflowEngine, for any number of engines and stages.      *)
EXTENDS WorkflowEngine, TLAPS

(* The engine is in the middle of a run or of a mark.                      *)
Busy == Marking \cup {"clean", "exec"}

(* What a busy engine relies on: it has a stage, only a run cleans and     *)
(* executes, and a run holds the lock of its stage until it has refreshed. *)
RunLocked ==
  \A e \in Engines :
    /\ pc[e] \in Busy => cur[e] \in Stages
    /\ pc[e] \in {"clean", "exec"} => job[e] = "run"
    /\ job[e] = "run" => cur[e] \in Stages /\ lock[cur[e]] = e

Writing == {"c_write", "e_write"}
Checking == {"c_check", "e_check"}
Removing == {"c_remove", "e_remove"}

(* The steps of an engine, the mark operations by what they do.            *)
Does(e) ==
  \/ Start(e) \/ Read(e) \/ ReadDone(e) \/ Reload(e) \/ ReloadLost(e)
  \/ Clean(e) \/ ExecOk(e) \/ ExecFails(e) \/ MarkIoFails(e) \/ ReadFails(e)
  \/ Crash(e)
  \/ \E at \in Writing, k \in Markers, next \in Checking : Write(e, at, k, next)
  \/ \E at \in Checking, k \in Markers, next \in Removing : Check(e, at, k, next)
  \/ \E at \in Removing, k \in Markers : Unlink(e, at, k)
  \/ Refuse(e)
  \/ \E i \in Stages : BeginRun(e, i)
  \/ \E i \in Stages, at \in Writing : BeginMark(e, i, at)

-----------------------------------------------------------------------------
(* Every step of an engine is one of these.                                *)
LEMMA StepIsDoes ==
  ASSUME NEW e \in Engines, Work(e) \/ Asked(e) \/ Fails(e)
  PROVE  Does(e)
<1>. USE DEF Writing, Checking, Removing, Markers
<1>1. CASE Work(e)
  <2>1. CASE WriteComplete(e)  BY <2>1 DEF WriteComplete, Does
  <2>2. CASE WriteError(e)     BY <2>2 DEF WriteError, Does
  <2>3. CASE CheckError(e)     BY <2>3 DEF CheckError, Does
  <2>4. CASE CheckComplete(e)  BY <2>4 DEF CheckComplete, Does
  <2>5. CASE RemoveError(e)    BY <2>5 DEF RemoveError, Does
  <2>6. CASE RemoveComplete(e) BY <2>6 DEF RemoveComplete, Does
  <2>. QED  BY <1>1, <2>1, <2>2, <2>3, <2>4, <2>5, <2>6 DEF Work, Does
<1>2. CASE Asked(e)
  BY <1>2 DEF Asked, RunNext, Run, Approve, Reject, Does
<1>3. CASE Fails(e)
  BY <1>3 DEF Fails, Does
<1>. QED  BY <1>1, <1>2, <1>3

(* The end of a command keeps the types.                                   *)
LEMMA FinishType ==
  ASSUME TypeOK, NEW e \in Engines, Finish(e)
  PROVE  /\ pc' \in [Engines -> Places]
         /\ job' \in [Engines -> {"none", "run", "mark"}]
         /\ cur' \in [Engines -> Stages \cup {None}]
         /\ lock' \in [Stages -> Engines \cup {NoOne}]
         /\ mem' \in [Engines -> [Stages -> Marks]]
<1>1. [i \in Stages |-> NoMarks] \in [Stages -> Marks]
  BY DEF NoMarks, Marks
<1>2. mem' \in [Engines -> [Stages -> Marks]]
  BY <1>1 DEF TypeOK, Finish, Forget
<1>3. lock' \in [Stages -> Engines \cup {NoOne}]
  BY DEF TypeOK, Finish, Unlock
<1>. QED  BY <1>2, <1>3 DEF TypeOK, Finish, Goto, Places

(* So does what follows a mark, and a failed one.                          *)
LEMMA MarkedType ==
  ASSUME TypeOK, NEW e \in Engines, Marked(e) \/ MarkFailed(e)
  PROVE  /\ pc' \in [Engines -> Places]
         /\ job' \in [Engines -> {"none", "run", "mark"}]
         /\ cur' \in [Engines -> Stages \cup {None}]
         /\ lock' \in [Stages -> Engines \cup {NoOne}]
         /\ mem' \in [Engines -> [Stages -> Marks]]
         /\ due' \in [Engines -> BOOLEAN]
         /\ cur[e] \in Stages => todo' \in [Engines -> SUBSET (Stages \X Markers)]
<1>1. CASE Marked(e) /\ job[e] = "run"
  <2>1. ASSUME cur[e] \in Stages
        PROVE  todo' \in [Engines -> SUBSET (Stages \X Markers)]
    <3>1. {cur[e]} \X Markers \in SUBSET (Stages \X Markers)
      BY <2>1
    <3>. QED  BY <1>1, <3>1 DEF TypeOK, Marked
  <2>. QED  BY <1>1, <2>1 DEF TypeOK, Marked, Goto, Places
<1>2. CASE Marked(e) /\ job[e] # "run"
  <2>1. Finish(e)  BY <1>2 DEF Marked
  <2>2. (e \in Servers) \in BOOLEAN
    OBVIOUS
  <2>3. due' \in [Engines -> BOOLEAN]
    BY <1>2, <2>2 DEF TypeOK, Marked
  <2>. QED  BY <1>2, <2>1, <2>3, FinishType DEF TypeOK, Marked
<1>3. CASE MarkFailed(e) /\ Finish(e) /\ UNCHANGED <<todo, due>>
  BY <1>3, FinishType DEF TypeOK
<1>. QED  BY <1>1, <1>2, <1>3 DEF MarkFailed

(* Every step keeps the types.                                             *)
LEMMA NextEngineTypeOK == TypeOK /\ RunLocked /\ [Next]_vars => TypeOK'
<1>. SUFFICES ASSUME TypeOK, RunLocked, [Next]_vars PROVE TypeOK'
  OBVIOUS
<1>. USE EnginesOK DEF private, Writing, Checking, Removing
<1>0. CASE UNCHANGED vars
  BY <1>0 DEF TypeOK, vars
<1>. SUFFICES ASSUME NEW e \in Engines, Does(e)
              PROVE  TypeOK'
  BY <1>0, StepIsDoes DEF Next
<1>1. CASE Start(e)
  BY <1>1 DEF TypeOK, Start, ReadAll, Goto, Places
<1>2. CASE Read(e)
  <2>1. PICK i \in Stages, k \in Markers :
          /\ mem' = [mem EXCEPT ![e][i] = [@ EXCEPT ![k] = disk[i][k]]]
          /\ todo' = [todo EXCEPT ![e] = @ \ {<<i, k>>}]
    BY <1>2 DEF Read
  <2>2. disk[i][k] \in BOOLEAN
    BY DEF TypeOK, Marks
  <2>3. [mem[e][i] EXCEPT ![k] = disk[i][k]] \in Marks
    BY <2>2 DEF TypeOK, Marks
  <2>4. mem' \in [Engines -> [Stages -> Marks]]
    BY <2>1, <2>3 DEF TypeOK
  <2>5. todo' \in [Engines -> SUBSET (Stages \X Markers)]
    BY <2>1 DEF TypeOK
  <2>. QED  BY <1>2, <2>4, <2>5 DEF TypeOK, Read
<1>3. CASE ReadDone(e)
  <2>1. CASE job[e] = "none"
    BY <1>3, <2>1 DEF TypeOK, ReadDone, Goto, Places
  <2>2. CASE job[e] # "none"
    BY <1>3, <2>2, FinishType DEF TypeOK, ReadDone
  <2>. QED  BY <2>1, <2>2
<1>4. CASE Reload(e)
  BY <1>4 DEF TypeOK, Reload, ReadAll, Goto, Places
<1>5. CASE Clean(e)
  BY <1>5 DEF TypeOK, Clean, Fault, Goto, Places
<1>6. CASE ExecOk(e)
  BY <1>6 DEF TypeOK, ExecOk, Goto, Places, Marking, Completing
<1>7. CASE ExecFails(e)
  BY <1>7 DEF TypeOK, ExecFails, Fault, Goto, Places, Marking, Erring
<1>8. ASSUME NEW at \in Writing, NEW k \in Markers, NEW next \in Checking,
             Write(e, at, k, next)
      PROVE  TypeOK'
  <2>1. next \in Places
    BY DEF Places, Marking, Completing, Erring
  <2>2. disk' \in [Stages -> Marks]
    BY <1>8 DEF TypeOK, Write, Set, Marks
  <2>3. pc' \in [Engines -> Places]
    BY <1>8, <2>1 DEF TypeOK, Write, Goto
  <2>. QED  BY <1>8, <2>2, <2>3 DEF TypeOK, Write
<1>9. ASSUME NEW at \in Checking, NEW k \in Markers, NEW next \in Removing,
             Check(e, at, k, next)
      PROVE  TypeOK'
  <2>1. cur[e] \in Stages
    BY <1>9 DEF Check, RunLocked, Busy, Marking, Completing, Erring
  <2>2. CASE disk[cur[e]][k]
    <3>1. next \in Places
      BY DEF Places, Marking, Completing, Erring
    <3>. QED  BY <1>9, <2>2, <3>1 DEF TypeOK, Check, Goto
  <2>3. CASE ~disk[cur[e]][k]
    BY <1>9, <2>1, <2>3, MarkedType DEF TypeOK, Check
  <2>. QED  BY <2>2, <2>3
<1>10. ASSUME NEW at \in Removing, NEW k \in Markers, Unlink(e, at, k)
       PROVE  TypeOK'
  <2>1. cur[e] \in Stages
    BY <1>10 DEF Unlink, RunLocked, Busy, Marking, Completing, Erring
  <2>2. Marked(e) \/ MarkFailed(e)
    BY <1>10 DEF Unlink
  <2>3. disk' \in [Stages -> Marks]
    BY <1>10 DEF TypeOK, Unlink, Set, Marks
  <2>. QED  BY <1>10, <2>1, <2>2, <2>3, MarkedType DEF TypeOK, Unlink
<1>11. CASE MarkIoFails(e)
  <2>1. cur[e] \in Stages
    BY <1>11 DEF MarkIoFails, RunLocked, Busy
  <2>. QED  BY <1>11, <2>1, MarkedType DEF TypeOK, MarkIoFails, Fault
<1>12. CASE ReloadLost(e)
  BY <1>12 DEF TypeOK, ReloadLost, Fault
<1>13. CASE Crash(e)
  <2>1. [i \in Stages |-> NoMarks] \in [Stages -> Marks]
    BY DEF NoMarks, Marks
  <2>2. mem' \in [Engines -> [Stages -> Marks]]
    BY <1>13, <2>1 DEF TypeOK, Crash, Forget
  <2>3. lock' \in [Stages -> Engines \cup {NoOne}]
    BY <1>13 DEF TypeOK, Crash, Unlock
  <2>4. faults' \in 0..MaxFaults
    BY <1>13 DEF TypeOK, Crash, Fault
  <2>5. /\ pc' \in [Engines -> Places]
        /\ job' \in [Engines -> {"none", "run", "mark"}]
        /\ cur' \in [Engines -> Stages \cup {None}]
    BY <1>13 DEF TypeOK, Crash, Goto, Places
  <2>6. /\ todo' \in [Engines -> SUBSET (Stages \X Markers)]
        /\ due' \in [Engines -> BOOLEAN]
    BY <1>13 DEF TypeOK, Crash
  <2>. QED  BY <1>13, <2>2, <2>3, <2>4, <2>5, <2>6 DEF TypeOK, Crash
<1>14. CASE Refuse(e)
  BY <1>14, FinishType DEF TypeOK, Refuse
<1>15. ASSUME NEW i \in Stages, BeginRun(e, i)
       PROVE  TypeOK'
  <2>1. CASE i \in Gates \/ lock[i] # NoOne
    BY <1>15, <2>1, FinishType DEF TypeOK, BeginRun
  <2>2. CASE ~(i \in Gates \/ lock[i] # NoOne)
    <3>0. lock' = [lock EXCEPT ![i] = e]
      BY <1>15, <2>2 DEF BeginRun
    <3>1. lock' \in [Stages -> Engines \cup {NoOne}]
      BY <3>0 DEF TypeOK
    <3>2. /\ pc' = [pc EXCEPT ![e] = "clean"] /\ "clean" \in Places
          /\ job' = [job EXCEPT ![e] = "run"]
          /\ cur' = [cur EXCEPT ![e] = i]
      BY <1>15, <2>2 DEF BeginRun, Goto, Places
    <3>3. pc' \in [Engines -> Places]
      BY <3>2 DEF TypeOK
    <3>4. /\ job' \in [Engines -> {"none", "run", "mark"}]
          /\ cur' \in [Engines -> Stages \cup {None}]
      BY <3>2 DEF TypeOK
    <3>. QED  BY <1>15, <2>2, <3>1, <3>3, <3>4 DEF TypeOK, BeginRun
  <2>. QED  BY <2>1, <2>2
<1>16. ASSUME NEW i \in Stages, NEW at \in Writing, BeginMark(e, i, at)
       PROVE  TypeOK'
  <2>1. at \in Places
    BY DEF Places, Marking, Completing, Erring
  <2>2. pc' \in [Engines -> Places]
    BY <1>16, <2>1 DEF TypeOK, BeginMark, Goto
  <2>. QED  BY <1>16, <2>2 DEF TypeOK, BeginMark
<1>17. CASE ReadFails(e)
  <2>1. faults' \in 0..MaxFaults
    BY <1>17 DEF TypeOK, ReadFails, Fault
  <2>2. todo' \in [Engines -> SUBSET (Stages \X Markers)]
    BY <1>17 DEF TypeOK, ReadFails
  <2>. QED  BY <1>17, <2>1, <2>2, FinishType DEF TypeOK, ReadFails
<1>. QED  BY <1>1, <1>2, <1>3, <1>4, <1>5, <1>6, <1>7, <1>8, <1>9, <1>10,
              <1>11, <1>12, <1>13, <1>14, <1>15, <1>16, <1>17 DEF Does

-----------------------------------------------------------------------------
(* The end of a command leaves the other engines and their locks alone.    *)
LEMMA FinishLocks ==
  ASSUME TypeOK, RunLocked, NEW e \in Engines, Finish(e)
  PROVE  RunLocked'
<1>. SUFFICES ASSUME NEW f \in Engines
              PROVE  /\ pc'[f] \in Busy => cur'[f] \in Stages
                     /\ pc'[f] \in {"clean", "exec"} => job'[f] = "run"
                     /\ job'[f] = "run" => /\ cur'[f] \in Stages
                                           /\ lock'[cur'[f]] = f
  BY DEF RunLocked
<1>. USE DEF TypeOK, Finish, Goto
<1>1. CASE f = e
  BY <1>1 DEF Busy, Marking, Completing, Erring
<1>2. CASE f # e
  <2>1. pc'[f] = pc[f] /\ job'[f] = job[f] /\ cur'[f] = cur[f]
    BY <1>2
  <2>2. \A i \in Stages : lock[i] = f => lock'[i] = f
    BY <1>2 DEF Unlock
  <2>. QED  BY <2>1, <2>2 DEF RunLocked
<1>. QED  BY <1>1, <1>2

(* So do the ends of a mark.                                               *)
LEMMA MarkedLocks ==
  ASSUME TypeOK, RunLocked, NEW e \in Engines, Marked(e) \/ MarkFailed(e)
  PROVE  RunLocked'
<1>1. CASE Marked(e) /\ job[e] = "run"
  BY <1>1 DEF TypeOK, RunLocked, Marked, Goto, Busy, Marking, Completing, Erring
<1>2. CASE Finish(e)
  BY <1>2, FinishLocks
<1>. QED  BY <1>1, <1>2 DEF Marked, MarkFailed

(* Every step keeps what busy engines rely on.                             *)
LEMMA NextRunLocked == TypeOK /\ RunLocked /\ [Next]_vars => RunLocked'
<1>. SUFFICES ASSUME TypeOK, RunLocked, [Next]_vars PROVE RunLocked'
  OBVIOUS
<1>. USE EnginesOK DEF private, Writing, Checking, Removing
<1>0. CASE UNCHANGED vars
  BY <1>0 DEF RunLocked, vars
<1>. SUFFICES ASSUME NEW e \in Engines, Does(e)
              PROVE  RunLocked'
  BY <1>0, StepIsDoes DEF Next
<1>. USE DEF Busy, Marking, Completing, Erring
<1>1. CASE Start(e)
  BY <1>1 DEF TypeOK, RunLocked, Start, ReadAll, Goto
<1>2. CASE Read(e)
  BY <1>2 DEF RunLocked, Read
<1>3. CASE ReadDone(e)
  <2>1. CASE job[e] = "none"
    BY <1>3, <2>1 DEF TypeOK, RunLocked, ReadDone, Goto
  <2>2. CASE job[e] # "none"
    BY <1>3, <2>2, FinishLocks DEF ReadDone
  <2>. QED  BY <2>1, <2>2
<1>4. CASE Reload(e)
  BY <1>4 DEF TypeOK, RunLocked, Reload, ReadAll, Goto
<1>5. CASE Clean(e)
  BY <1>5 DEF TypeOK, RunLocked, Clean, Goto
<1>6. CASE ExecOk(e)
  BY <1>6 DEF TypeOK, RunLocked, ExecOk, Goto
<1>7. CASE ExecFails(e)
  BY <1>7 DEF TypeOK, RunLocked, ExecFails, Goto
<1>8. ASSUME NEW at \in Writing, NEW k \in Markers, NEW next \in Checking,
             Write(e, at, k, next)
      PROVE  RunLocked'
  BY <1>8 DEF TypeOK, RunLocked, Write, Goto
<1>9. ASSUME NEW at \in Checking, NEW k \in Markers, NEW next \in Removing,
             Check(e, at, k, next)
      PROVE  RunLocked'
  <2>1. CASE disk[cur[e]][k]
    BY <1>9, <2>1 DEF TypeOK, RunLocked, Check, Goto
  <2>2. CASE ~disk[cur[e]][k]
    BY <1>9, <2>2, MarkedLocks DEF Check
  <2>. QED  BY <2>1, <2>2
<1>10. ASSUME NEW at \in Removing, NEW k \in Markers, Unlink(e, at, k)
       PROVE  RunLocked'
  BY <1>10, MarkedLocks DEF Unlink
<1>11. CASE MarkIoFails(e)
  BY <1>11, MarkedLocks DEF MarkIoFails
<1>12. CASE ReloadLost(e)
  BY <1>12 DEF RunLocked, ReloadLost
<1>13. CASE Crash(e)
  <2>. SUFFICES ASSUME NEW f \in Engines
                PROVE  /\ pc'[f] \in Busy => cur'[f] \in Stages
                       /\ pc'[f] \in {"clean", "exec"} => job'[f] = "run"
                       /\ job'[f] = "run" => /\ cur'[f] \in Stages
                                             /\ lock'[cur'[f]] = f
    BY DEF RunLocked
  <2>1. CASE f = e
    BY <1>13, <2>1 DEF TypeOK, Crash, Goto
  <2>2. CASE f # e
    <3>1. pc'[f] = pc[f] /\ job'[f] = job[f] /\ cur'[f] = cur[f]
      BY <1>13, <2>2 DEF TypeOK, Crash, Goto
    <3>2. \A i \in Stages : lock[i] = f => lock'[i] = f
      BY <1>13, <2>2 DEF TypeOK, Crash, Unlock
    <3>. QED  BY <3>1, <3>2 DEF RunLocked
  <2>. QED  BY <2>1, <2>2
<1>14. CASE Refuse(e)
  BY <1>14, FinishLocks DEF Refuse
<1>15. ASSUME NEW i \in Stages, BeginRun(e, i)
       PROVE  RunLocked'
  <2>1. CASE i \in Gates \/ lock[i] # NoOne
    BY <1>15, <2>1, FinishLocks DEF BeginRun
  <2>2. CASE ~(i \in Gates \/ lock[i] # NoOne)
    <3>1. \A f \in Engines : f # NoOne
      OBVIOUS
    <3>. QED  BY <1>15, <2>2, <3>1 DEF TypeOK, RunLocked, BeginRun, Goto
  <2>. QED  BY <2>1, <2>2
<1>16. ASSUME NEW i \in Stages, NEW at \in Writing, BeginMark(e, i, at)
       PROVE  RunLocked'
  BY <1>16 DEF TypeOK, RunLocked, BeginMark, Goto
<1>17. CASE ReadFails(e)
  BY <1>17, FinishLocks DEF ReadFails
<1>. QED  BY <1>1, <1>2, <1>3, <1>4, <1>5, <1>6, <1>7, <1>8, <1>9, <1>10,
              <1>11, <1>12, <1>13, <1>14, <1>15, <1>16, <1>17 DEF Does

-----------------------------------------------------------------------------
(* A step is one engine's: the others stay where they are.                 *)
LEMMA OthersStay ==
  ASSUME TypeOK, RunLocked, NEW e \in Engines, Does(e)
  PROVE  /\ \A f \in Engines \ {e} :
              pc'[f] = pc[f] /\ job'[f] = job[f] /\ cur'[f] = cur[f]
         /\ faults' = 0 => faults = 0
<1>. DEFINE Goal == /\ \A f \in Engines \ {e} :
                         /\ pc'[f] = pc[f]
                         /\ job'[f] = job[f]
                         /\ cur'[f] = cur[f]
                    /\ faults' = 0 => faults = 0
<1>. USE EnginesOK DEF private, TypeOK, Goto
<1>a. ASSUME Finish(e), UNCHANGED faults PROVE Goal
  BY <1>a DEF Finish
<1>b. ASSUME Marked(e) \/ MarkFailed(e)
      PROVE  \A f \in Engines \ {e} :
               pc'[f] = pc[f] /\ job'[f] = job[f] /\ cur'[f] = cur[f]
  BY <1>b DEF Marked, MarkFailed, Finish
<1>1. CASE Start(e) \/ Read(e) \/ Reload(e)
  BY <1>1 DEF Start, Read, Reload, ReadAll
<1>2. CASE ReadDone(e)
  BY <1>2, <1>a DEF ReadDone
<1>3. CASE Clean(e)
  BY <1>3 DEF Clean, Fault
<1>4. CASE ExecOk(e)
  BY <1>4 DEF ExecOk
<1>5. CASE ExecFails(e)
  BY <1>5 DEF ExecFails, Fault
<1>6. CASE ReloadLost(e)
  BY <1>6 DEF ReloadLost, Fault
<1>7. CASE MarkIoFails(e)
  BY <1>7, <1>b DEF MarkIoFails, Fault
<1>8. CASE Crash(e) \/ ReadFails(e)
  BY <1>8 DEF Crash, ReadFails, Finish, Fault
<1>9. ASSUME NEW at, NEW k, NEW next, Write(e, at, k, next) PROVE Goal
  BY <1>9 DEF Write
<1>10. ASSUME NEW at, NEW k, NEW next, Check(e, at, k, next) PROVE Goal
  BY <1>10, <1>b DEF Check
<1>11. ASSUME NEW at, NEW k, Unlink(e, at, k) PROVE Goal
  BY <1>11, <1>b DEF Unlink
<1>12. CASE Refuse(e)
  BY <1>12, <1>a DEF Refuse
<1>13. ASSUME NEW i, BeginRun(e, i) PROVE Goal
  BY <1>13, <1>a DEF BeginRun
<1>14. ASSUME NEW i, NEW at, BeginMark(e, i, at) PROVE Goal
  BY <1>14 DEF BeginMark
<1>. QED  BY <1>1, <1>2, <1>3, <1>4, <1>5, <1>6, <1>7, <1>8, <1>9, <1>10,
              <1>11, <1>12, <1>13, <1>14 DEF Does

(* A step that leaves the markers alone, of an engine that is not in the   *)
(* second half of a mark, makes no wedge; nor does any step after a fault. *)
LEMMA NextNotWedged ==
  TypeOK /\ RunLocked /\ NotWedged /\ [Next]_vars => NotWedged'
<1>. SUFFICES ASSUME TypeOK, RunLocked, NotWedged, [Next]_vars
              PROVE  NotWedged'
  OBVIOUS
<1>0. CASE UNCHANGED vars
  BY <1>0 DEF NotWedged, vars
<1>. SUFFICES ASSUME NEW e \in Engines, Does(e)
              PROVE  NotWedged'
  BY <1>0, StepIsDoes DEF Next
<1>. SUFFICES ASSUME NEW i \in Stages,
                     disk'[i]["complete"], disk'[i]["error"], faults' = 0
              PROVE  \E f \in Engines : cur'[f] = i /\ pc'[f] \in Undoing
  BY DEF NotWedged
<1>f. faults = 0
  BY OthersStay
<1>a. ASSUME UNCHANGED disk, pc[e] \notin Undoing
      PROVE  \E f \in Engines : cur'[f] = i /\ pc'[f] \in Undoing
  <2>1. PICK f \in Engines : cur[f] = i /\ pc[f] \in Undoing
    BY <1>a, <1>f DEF NotWedged
  <2>. QED  BY <1>a, <2>1, OthersStay
<1>. USE DEF private, Writing, Checking, Removing
<1>1. CASE \/ Start(e) \/ Read(e) \/ ReadDone(e) \/ Reload(e)
           \/ Clean(e) \/ ExecOk(e) \/ Refuse(e)
  BY <1>1, <1>a DEF Start, Read, ReadDone, Reload, Clean, ExecOk, Refuse, Undoing
<1>2. CASE \/ ExecFails(e) \/ ReloadLost(e) \/ MarkIoFails(e) \/ ReadFails(e)
           \/ Crash(e)
  BY <1>2, <1>f, EnginesOK
  DEF ExecFails, ReloadLost, MarkIoFails, ReadFails, Crash, Fault, TypeOK
<1>3. ASSUME NEW at \in Writing, NEW k \in Markers, NEW next \in Checking,
             Write(e, at, k, next)
      PROVE  \E f \in Engines : cur'[f] = i /\ pc'[f] \in Undoing
  <2>1. CASE cur[e] = i
    BY <1>3, <2>1 DEF Write, Goto, TypeOK, Undoing
  <2>2. CASE cur[e] # i
    <3>1. disk'[i] = disk[i]
      BY <1>3, <2>2 DEF Write, Set, TypeOK
    <3>2. PICK f \in Engines : cur[f] = i /\ pc[f] \in Undoing
      BY <1>f, <3>1 DEF NotWedged
    <3>. QED  BY <2>2, <3>2, OthersStay
  <2>. QED  BY <2>1, <2>2
<1>4. ASSUME NEW at \in Checking, NEW k \in Markers, NEW next \in Removing,
             Check(e, at, k, next)
      PROVE  \E f \in Engines : cur'[f] = i /\ pc'[f] \in Undoing
  <2>1. PICK f \in Engines : cur[f] = i /\ pc[f] \in Undoing
    BY <1>4, <1>f DEF NotWedged, Check
  <2>2. CASE f # e
    BY <2>1, <2>2, OthersStay
  <2>3. CASE f = e
    <3>1. disk[i][k]
      BY <1>4 DEF Check, Markers
    <3>. QED  BY <1>4, <2>1, <2>3, <3>1 DEF Check, Goto, TypeOK, Undoing
  <2>. QED  BY <2>2, <2>3
<1>5. ASSUME NEW at \in Removing, NEW k \in Markers, Unlink(e, at, k)
      PROVE  \E f \in Engines : cur'[f] = i /\ pc'[f] \in Undoing
  <2>1. cur[e] \in Stages
    BY <1>5 DEF Unlink, RunLocked, Busy, Marking, Completing, Erring
  <2>2. cur[e] # i
    <3>1. disk'[cur[e]][k] = FALSE
      BY <1>5, <2>1 DEF Unlink, Set, TypeOK, Marks
    <3>. QED  BY <3>1 DEF Markers
  <2>3. disk'[i] = disk[i]
    BY <1>5, <2>2 DEF Unlink, Set, TypeOK
  <2>4. PICK f \in Engines : cur[f] = i /\ pc[f] \in Undoing
    BY <1>f, <2>3 DEF NotWedged
  <2>. QED  BY <2>2, <2>4, OthersStay
<1>6. ASSUME NEW j \in Stages, BeginRun(e, j)
      PROVE  \E f \in Engines : cur'[f] = i /\ pc'[f] \in Undoing
  BY <1>6, <1>a DEF BeginRun, Undoing
<1>7. ASSUME NEW j \in Stages, NEW at \in Writing, BeginMark(e, j, at)
      PROVE  \E f \in Engines : cur'[f] = i /\ pc'[f] \in Undoing
  BY <1>7, <1>a DEF BeginMark, Undoing
<1>. QED  BY <1>1, <1>2, <1>3, <1>4, <1>5, <1>6, <1>7 DEF Does

-----------------------------------------------------------------------------
(* Only the holder of a stage's lock touches its output directory, so an   *)
(* engine in a run finds nothing there but its own work.                   *)
LEMMA NextResultIsMine ==
  ASSUME "clean" \notin Failing
  PROVE  TypeOK /\ RunLocked /\ ResultIsMine /\ [Next]_vars => ResultIsMine'
<1>. SUFFICES ASSUME TypeOK, RunLocked, ResultIsMine, [Next]_vars
              PROVE  ResultIsMine'
  OBVIOUS
<1>0. CASE UNCHANGED vars
  BY <1>0 DEF ResultIsMine, vars
<1>. SUFFICES ASSUME NEW e \in Engines, Does(e)
              PROVE  ResultIsMine'
  BY <1>0, StepIsDoes DEF Next
<1>. DEFINE Mine(f) ==
       (job[f] = "run" /\ pc[f] \in Marking \cup {"exec"})
         => output[cur[f]] \in {f, NoOne}
<1>1. \A f \in Engines : Mine(f)
  BY DEF ResultIsMine
<1>. SUFFICES ASSUME NEW f \in Engines, job'[f] = "run",
                     pc'[f] \in Marking \cup {"exec"}
              PROVE  output'[cur'[f]] \in {f, NoOne}
  BY DEF ResultIsMine
(* The steps that touch the output directory.                              *)
<1>2. CASE Clean(e) \/ ExecOk(e) \/ ExecFails(e)
  <2>1. job[e] = "run" /\ cur[e] \in Stages /\ lock[cur[e]] = e
    BY <1>2 DEF Clean, ExecOk, ExecFails, RunLocked
  <2>2. job' = job /\ cur' = cur
    BY <1>2 DEF Clean, ExecOk, ExecFails, private
  <2>3. \A i \in Stages : i # cur[e] => output'[i] = output[i]
    BY <1>2 DEF Clean, ExecOk, ExecFails, TypeOK
  <2>4. CASE f = e
    <3>1. CASE Clean(e)
      BY <2>1, <2>2, <2>4, <3>1 DEF Clean, Fault, TypeOK
    <3>2. CASE ExecOk(e) \/ ExecFails(e)
      BY <1>1, <2>1, <2>2, <2>4, <3>2 DEF ExecOk, ExecFails, TypeOK
    <3>. QED  BY <1>2, <3>1, <3>2
  <2>5. CASE f # e
    <3>1. job[f] = "run" /\ pc[f] = pc'[f]
      BY <2>2, <2>5, OthersStay
    <3>2. cur[f] \in Stages /\ cur[f] # cur[e]
      BY <2>1, <2>5, <3>1 DEF RunLocked
    <3>. QED  BY <1>1, <2>2, <2>3, <3>1, <3>2
  <2>. QED  BY <2>4, <2>5
(* The others: an engine in a run was in that run before.                  *)
<1>3. ASSUME UNCHANGED output,
             f = e => /\ job[e] = "run" /\ cur'[e] = cur[e]
                      /\ pc[e] \in Marking \cup {"exec"}
      PROVE  output'[cur'[f]] \in {f, NoOne}
  <2>1. job[f] = "run" /\ cur'[f] = cur[f] /\ pc[f] \in Marking \cup {"exec"}
    BY <1>3, OthersStay
  <2>. QED  BY <1>1, <1>3, <2>1
<1>. USE DEF private, TypeOK, Goto
<1>a. ASSUME Finish(e) PROVE f # e
  BY <1>a DEF Finish
<1>b. ASSUME Marked(e) \/ MarkFailed(e) PROVE f # e
  <2>1. CASE Marked(e) /\ job[e] = "run"
    BY <2>1 DEF Marked, Marking, Completing, Erring
  <2>2. (Marked(e) /\ job[e] = "run") \/ Finish(e)
    BY <1>b DEF Marked, MarkFailed
  <2>. QED  BY <2>1, <2>2, <1>a
<1>4. CASE Start(e) \/ Read(e) \/ Reload(e)
  <2>1. f # e
    BY <1>4 DEF Start, Read, Reload, ReadAll, Marking, Completing, Erring
  <2>. QED  BY <1>3, <1>4, <2>1 DEF Start, Read, Reload
<1>5. CASE ReadDone(e)
  <2>1. f # e
    BY <1>5, <1>a DEF ReadDone, Marking, Completing, Erring
  <2>. QED  BY <1>3, <1>5, <2>1 DEF ReadDone
<1>6. CASE ReloadLost(e)
  BY <1>3, <1>6 DEF ReloadLost
<1>7. CASE MarkIoFails(e) \/ ReadFails(e) \/ Refuse(e)
  BY <1>3, <1>7, <1>a, <1>b DEF MarkIoFails, ReadFails, Refuse
<1>8. CASE Crash(e)
  BY <1>3, <1>8 DEF Crash, Marking, Completing, Erring
<1>9. ASSUME NEW at \in Writing, NEW k, NEW next, Write(e, at, k, next)
      PROVE  output'[cur'[f]] \in {f, NoOne}
  <2>1. pc[e] \in Marking
    BY <1>9 DEF Write, Writing, Marking, Completing, Erring
  <2>. QED  BY <1>3, <1>9, <2>1 DEF Write
<1>10. ASSUME NEW at \in Checking, NEW k, NEW next, Check(e, at, k, next)
       PROVE  output'[cur'[f]] \in {f, NoOne}
  <2>1. pc[e] \in Marking
    BY <1>10 DEF Check, Checking, Marking, Completing, Erring
  <2>2. CASE disk[cur[e]][k]
    BY <1>3, <1>10, <2>1, <2>2 DEF Check
  <2>3. CASE ~disk[cur[e]][k]
    BY <1>3, <1>10, <1>b, <2>3 DEF Check
  <2>. QED  BY <2>2, <2>3
<1>11. ASSUME NEW at \in Removing, NEW k, Unlink(e, at, k)
       PROVE  output'[cur'[f]] \in {f, NoOne}
  BY <1>3, <1>11, <1>b DEF Unlink
<1>12. ASSUME NEW i \in Stages, BeginRun(e, i)
       PROVE  output'[cur'[f]] \in {f, NoOne}
  <2>1. f # e
    BY <1>12, <1>a DEF BeginRun, Marking, Completing, Erring
  <2>. QED  BY <1>3, <1>12, <2>1 DEF BeginRun
<1>13. ASSUME NEW i \in Stages, NEW at \in Writing, BeginMark(e, i, at)
       PROVE  output'[cur'[f]] \in {f, NoOne}
  <2>1. f # e
    BY <1>13 DEF BeginMark
  <2>. QED  BY <1>3, <1>13, <2>1 DEF BeginMark
<1>. QED  BY <1>2, <1>4, <1>5, <1>6, <1>7, <1>8, <1>9, <1>10, <1>11,
              <1>12, <1>13 DEF Does

-----------------------------------------------------------------------------
(* A lone engine: nobody else writes the markers, no mark or reload fails. *)
Lone ==
  /\ \A e, f \in Engines : e = f
  /\ {"mark", "reload"} \cap Failing = {}

(* The stages a user may approve or reject.                                *)
Answerable == IF "mark" \in Commands THEN Stages ELSE Gates

(* What is on disk is what was read, except for what is still to be read,  *)
(* the stage that is being marked, and a mark whose reload is due.         *)
Known(e, i, k) ==
  \/ mem[e][i][k] = disk[i][k]
  \/ <<i, k>> \in todo[e]
  \/ pc[e] \in Marking /\ i = cur[e]
  \/ due[e] /\ i \in Answerable

(* The engine knows the markers, finds the one it is about to remove, has  *)
(* markers to read only in "read", and marks for its run or for a user.    *)
Knows(e) ==
  /\ pc[e] # "down" => \A i \in Stages, k \in Markers : Known(e, i, k)
  /\ pc[e] # "read" => todo[e] = {}
  /\ pc[e] = "c_remove" => disk[cur[e]]["error"]
  /\ pc[e] = "e_remove" => disk[cur[e]]["complete"]
  /\ pc[e] \in Marking => job[e] \in {"run", "mark"}
  /\ job[e] = "mark" => cur[e] \in Answerable /\ pc[e] \in Marking

LoneInv == \A e \in Engines : Knows(e)

(* An engine that has nothing left to do but knows the markers.            *)
LEMMA RestKnows ==
  ASSUME TypeOK, NEW e \in Engines, Finish(e), todo'[e] = {},
         e \in Servers => \A i \in Stages, k \in Markers :
           mem[e][i][k] = disk'[i][k] \/ (due'[e] /\ i \in Answerable)
  PROVE  Knows(e)'
BY DEF TypeOK, Finish, Goto, Knows, Known, Marking, Completing, Erring, Answerable

(* After a mark it still knows all but that stage: a run goes on to read   *)
(* it, and for a user's mark the reload is due.                            *)
LEMMA MarkedKnows ==
  ASSUME TypeOK, NEW e \in Engines, Knows(e), pc[e] \in Marking, Marked(e),
         cur[e] \in Stages,
         \A i \in Stages \ {cur[e]} : disk'[i] = disk[i]
  PROVE  Knows(e)'
<1>1. \A i \in Stages \ {cur[e]}, k \in Markers :
        mem[e][i][k] = disk'[i][k] \/ (due[e] /\ i \in Answerable)
  BY DEF Knows, Known, Marking, Completing, Erring
<1>2. CASE job[e] = "run"
  <2>1. /\ pc'[e] = "read" /\ todo'[e] = {cur[e]} \X Markers
        /\ UNCHANGED <<job, cur, mem, due>>
    BY <1>2 DEF Marked, Goto, TypeOK
  <2>. QED  BY <1>1, <1>2, <2>1 DEF Knows, Known, Marking, Completing, Erring, Answerable
<1>3. CASE job[e] # "run"
  <2>1. Finish(e) /\ todo' = todo /\ due'[e] = (e \in Servers)
    BY <1>3 DEF Marked, TypeOK
  <2>2. todo'[e] = {}
    BY <2>1 DEF Knows, Marking, Completing, Erring
  <2>3. cur[e] \in Answerable
    BY <1>3 DEF Knows
  <2>4. ASSUME e \in Servers, NEW i \in Stages, NEW k \in Markers
        PROVE  mem[e][i][k] = disk'[i][k] \/ (due'[e] /\ i \in Answerable)
    BY <1>1, <2>1, <2>3, <2>4
  <2>. QED  BY <2>1, <2>2, <2>4, RestKnows
<1>. QED  BY <1>2, <1>3

(* Every step of a lone engine keeps what it knows.                        *)
LEMMA NextLone ==
  ASSUME Lone
  PROVE  TypeOK /\ RunLocked /\ LoneInv /\ [Next]_vars => LoneInv'
<1>. SUFFICES ASSUME TypeOK, RunLocked, LoneInv, [Next]_vars
              PROVE  LoneInv'
  OBVIOUS
<1>0. CASE UNCHANGED vars
  BY <1>0 DEF LoneInv, Knows, Known, vars
<1>. SUFFICES ASSUME NEW e \in Engines, Work(e) \/ Asked(e) \/ Fails(e)
              PROVE  Knows(e)'
  BY <1>0 DEF Next, Lone, LoneInv
<1>k. Knows(e)
  BY DEF LoneInv
<1>. USE DEF private, Marking, Completing, Erring
<1>r. ASSUME pc[e] \in {"idle", "read"}, todo[e] = {}
      PROVE  \A i \in Stages, k \in Markers :
               mem[e][i][k] = disk[i][k] \/ (due[e] /\ i \in Answerable)
  BY <1>k, <1>r DEF Knows, Known
<1>s. pc[e] \in Marking => cur[e] \in Stages
  BY DEF RunLocked, Busy
<1>1. CASE Start(e) \/ Reload(e)
  <2>1. pc'[e] = "read" /\ todo'[e] = Stages \X Markers
    BY <1>1 DEF Start, Reload, ReadAll, Goto, TypeOK
  <2>. QED  BY <1>1, <1>k, <2>1 DEF Start, Reload, Knows, Known
<1>2. CASE Read(e)
  <2>1. PICK i \in Stages, k \in Markers :
          /\ mem' = [mem EXCEPT ![e][i] = [@ EXCEPT ![k] = disk[i][k]]]
          /\ todo' = [todo EXCEPT ![e] = @ \ {<<i, k>>}]
    BY <1>2 DEF Read
  <2>2. ASSUME NEW j \in Stages, NEW l \in Markers, <<j, l>> # <<i, k>>
        PROVE  mem'[e][j][l] = mem[e][j][l] /\ (<<j, l>> \in todo'[e] <=> <<j, l>> \in todo[e])
    BY <2>1, <2>2 DEF TypeOK, Marks
  <2>3. mem'[e][i][k] = disk[i][k]
    BY <2>1 DEF TypeOK, Marks
  <2>. QED  BY <1>2, <1>k, <2>2, <2>3 DEF Read, Knows, Known
<1>3. CASE ReadDone(e)
  <2>1. CASE job[e] = "none"
    BY <1>3, <1>k, <1>r, <2>1 DEF ReadDone, Goto, TypeOK, Knows, Known
  <2>2. CASE job[e] # "none"
    BY <1>3, <1>r, <2>2, RestKnows DEF ReadDone
  <2>. QED  BY <2>1, <2>2
<1>4. CASE Clean(e) \/ ExecOk(e) \/ ExecFails(e)
  BY <1>4, <1>k DEF Clean, ExecOk, ExecFails, Goto, TypeOK, Knows, Known, RunLocked
<1>5. ASSUME NEW k \in Markers, NEW at \in Writing, NEW next \in Checking, Write(e, at, k, next)
      PROVE  Knows(e)'
  <2>1. \A i \in Stages \ {cur[e]} : disk'[i] = disk[i]
    BY <1>5 DEF Write, Set, TypeOK
  <2>2. pc[e] \in Marking /\ pc'[e] \in {"c_check", "e_check"} /\ UNCHANGED <<private, job, cur>>
    BY <1>5 DEF Write, Goto, TypeOK, Writing, Checking
  <2>. QED  BY <1>k, <2>1, <2>2 DEF Knows, Known
<1>6. CASE CheckError(e) \/ CheckComplete(e)
  <2>1. pc[e] \in Marking /\ disk' = disk
    BY <1>6 DEF CheckError, CheckComplete, Check
  <2>2. CASE Marked(e)
    BY <1>k, <1>s, <2>1, <2>2, MarkedKnows
  <2>3. CASE CheckError(e) /\ ~Marked(e)
    BY <1>k, <2>3 DEF CheckError, Check, Goto, TypeOK, Knows, Known
  <2>4. CASE CheckComplete(e) /\ ~Marked(e)
    BY <1>k, <2>4 DEF CheckComplete, Check, Goto, TypeOK, Knows, Known
  <2>. QED  BY <1>6, <2>2, <2>3, <2>4
<1>7. CASE RemoveError(e) \/ RemoveComplete(e)
  <2>1. pc[e] \in Marking /\ Marked(e)
    BY <1>7, <1>k DEF RemoveError, RemoveComplete, Unlink, Knows
  <2>2. \A i \in Stages \ {cur[e]} : disk'[i] = disk[i]
    BY <1>7 DEF RemoveError, RemoveComplete, Unlink, Set, TypeOK
  <2>. QED  BY <1>k, <1>s, <2>1, <2>2, MarkedKnows
<1>8. CASE Refuse(e)
  BY <1>8, <1>k, <1>r, RestKnows DEF Refuse, Knows
<1>9. ASSUME NEW i \in Stages, BeginRun(e, i)
      PROVE  Knows(e)'
  <2>1. CASE i \in Gates \/ lock[i] # NoOne
    BY <1>9, <1>k, <1>r, <2>1, RestKnows DEF BeginRun, Knows
  <2>2. CASE ~(i \in Gates \/ lock[i] # NoOne)
    BY <1>9, <1>k, <2>2 DEF BeginRun, Goto, TypeOK, Knows, Known
  <2>. QED  BY <2>1, <2>2
<1>10. ASSUME NEW i \in Stages, NEW at \in Writing, BeginMark(e, i, at)
       PROVE  Knows(e)'
  <2>1. i \in Answerable
    BY <1>10 DEF BeginMark, MayMark, Answerable
  <2>2. /\ pc[e] = "idle" /\ pc'[e] \in {"c_write", "e_write"}
        /\ job'[e] = "mark" /\ cur'[e] = i /\ UNCHANGED <<disk, private>>
    BY <1>10 DEF BeginMark, Goto, TypeOK, Writing
  <2>. QED  BY <1>k, <2>1, <2>2 DEF Knows, Known
<1>11. CASE Crash(e)
  BY <1>11 DEF Crash, Goto, TypeOK, Knows
<1>12. CASE MarkIoFails(e) \/ ReadFails(e) \/ ReloadLost(e)
  BY <1>12 DEF MarkIoFails, ReadFails, ReloadLost, Fault, Lone
<1>13. CASE Work(e)
  BY <1>13, <1>1, <1>2, <1>3, <1>4, <1>5, <1>6, <1>7
     DEF Work, WriteComplete, WriteError, Writing, Checking, Markers
<1>14. CASE Asked(e)
  BY <1>14, <1>8, <1>9, <1>10 DEF Asked, RunNext, Run, Approve, Reject, Writing
<1>15. CASE Fails(e)
  BY <1>15, <1>4, <1>11, <1>12 DEF Fails
<1>. QED  BY <1>13, <1>14, <1>15

-----------------------------------------------------------------------------
(* The initial states satisfy the invariants.                              *)
LEMMA InitEngine == Init => TypeOK /\ RunLocked /\ NotWedged /\ ResultIsMine
<1>. SUFFICES ASSUME Init PROVE TypeOK /\ RunLocked /\ NotWedged /\ ResultIsMine
  OBVIOUS
<1>. USE EnginesOK DEF Init
<1>1. TypeOK
  <2>1. NoMarks \in Marks
    BY DEF NoMarks, Marks
  <2>. QED  BY <2>1 DEF TypeOK, Places
<1>2. RunLocked
  BY DEF RunLocked, Busy, Marking, Completing, Erring
<1>3. NotWedged
  BY DEF NotWedged, NoMarks, Markers
<1>4. ResultIsMine
  BY DEF ResultIsMine
<1>. QED  BY <1>1, <1>2, <1>3, <1>4

(* The engines and the files they share always have their types.           *)
THEOREM EngineTyping == Spec => [](TypeOK /\ RunLocked)
<1>1. TypeOK /\ RunLocked /\ [Next]_vars => (TypeOK /\ RunLocked)'
  BY NextEngineTypeOK, NextRunLocked
<1>. QED  BY InitEngine, <1>1, PTL DEF Spec

(* However any number of engines run, approve and reject the stages, none  *)
(* is left with both markers unless an operation on them failed.           *)
THEOREM NoWedge == Spec => []NotWedged
<1>1. TypeOK /\ RunLocked /\ NotWedged /\ [Next]_vars => NotWedged'
  BY NextNotWedged
<1>. QED  BY InitEngine, EngineTyping, <1>1, PTL DEF Spec

(* The stage lock makes the output directory belong to one run.            *)
THEOREM ResultOwned == ASSUME "clean" \notin Failing PROVE Spec => []ResultIsMine
<1>1. TypeOK /\ RunLocked /\ ResultIsMine /\ [Next]_vars => ResultIsMine'
  BY NextResultIsMine
<1>. QED  BY InitEngine, EngineTyping, <1>1, PTL DEF Spec

(* A lone server whose marks and reloads work plans with the markers that  *)
(* are on disk whenever it is ready for a message, unless a handler has    *)
(* still to send the reload (actor.rs, one message at a time).             *)
THEOREM MemoryIsCurrent == ASSUME Lone PROVE Spec => []MemoryCurrent
<1>1. Init => LoneInv
  BY DEF Init, LoneInv, Knows, Marking, Completing, Erring
<1>2. LoneInv /\ TypeOK => MemoryCurrent
  <2>. SUFFICES ASSUME LoneInv, TypeOK, NEW e \in Servers, pc[e] = "idle", ~due[e]
                PROVE  mem[e] = disk
    BY DEF MemoryCurrent
  <2>1. e \in Engines
    BY EnginesOK
  <2>2. \A i \in Stages, k \in Markers : mem[e][i][k] = disk[i][k]
    BY <2>1 DEF LoneInv, Knows, Known, Marking, Completing, Erring
  <2>3. \A i \in Stages : mem[e][i] = disk[i]
    BY <2>1, <2>2 DEF TypeOK, Marks
  <2>. QED  BY <2>1, <2>3 DEF TypeOK
<1>3. TypeOK /\ RunLocked /\ LoneInv /\ [Next]_vars => LoneInv'
  BY NextLone
<1>. QED  BY InitEngine, EngineTyping, <1>1, <1>2, <1>3, PTL DEF Spec

(* When users only ask such a server for the next stage and answer gates,  *)
(* it never runs a stage whose result was accepted or rejected: a stage it *)
(* remembers wrongly, while a reload is due, is a gate, and a gate is not  *)
(* run (state.rs:352 run_next_stage).                                      *)
THEOREM NothingRunsTwice ==
  ASSUME Lone, {"run", "mark"} \cap Commands = {}
  PROVE  Spec => RunsOnlyPending
<1>. DEFINE Once == \A e \in Engines : Begins(e) => Pending(disk, cur'[e])
<1>1. Init => LoneInv
  BY DEF Init, LoneInv, Knows, Marking, Completing, Erring
<1>2. TypeOK /\ RunLocked /\ LoneInv /\ [Next]_vars => LoneInv'
  BY NextLone
<1>3. ASSUME TypeOK, RunLocked, LoneInv, [Next]_vars
      PROVE  [Once]_vars
  <2>. SUFFICES ASSUME NEW e \in Engines, Begins(e), Work(e) \/ Asked(e) \/ Fails(e)
                PROVE  Pending(disk, cur'[e])
    BY <1>3 DEF Next, Lone
  <2>. USE DEF Begins, TypeOK, Goto
  <2>1. ~Work(e)
    BY <1>3 DEF Work, Start, Read, ReadDone, Reload, ReadAll, Clean, ExecOk,
       WriteComplete, WriteError, CheckError, CheckComplete, RemoveError,
       RemoveComplete, Write, Check, Unlink
  <2>2. ~Fails(e)
    BY <1>3 DEF Fails, ExecFails, MarkIoFails, Marking, Completing, Erring, ReadFails, ReloadLost, Crash
  <2>3. PICK i \in Stages : IsNext(mem[e], i) /\ BeginRun(e, i)
    <3>1. RunNext(e)
      BY <2>1, <2>2, <1>3 DEF Asked, Run, Approve, Reject, BeginMark
    <3>2. ~Refuse(e)
      BY <1>3 DEF Refuse, Finish
    <3>. QED  BY <3>1, <3>2 DEF RunNext
  <2>4. i \notin Gates /\ cur'[e] = i
    BY <1>3, <2>3 DEF BeginRun, Finish
  <2>5. \A k \in Markers : mem[e][i][k] = disk[i][k]
    <3>1. Knows(e) /\ pc[e] = "idle"
      BY <1>3 DEF LoneInv
    <3>2. i \notin Answerable
      BY <2>4 DEF Answerable
    <3>. QED  BY <3>1, <3>2 DEF Knows, Known, Marking, Completing, Erring
  <2>. QED  BY <2>3, <2>4, <2>5 DEF IsNext, Runnable, Pending, Markers
<1>. QED  BY InitEngine, EngineTyping, <1>1, <1>2, <1>3, PTL DEF Spec, RunsOnlyPending
=============================================================================
