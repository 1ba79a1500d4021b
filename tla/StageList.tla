----------------------------- MODULE StageList ------------------------------
(***************************************************************************)
(* The list of stages of a workflow while its Lua hooks change it: the     *)
(* on_complete hook of a stage that has run asks for stages to be inserted *)
(* after it and for stages to be removed (llm_driver.rs, workflow.rs).     *)
(* The actor then marks the stage and refreshes its list from disk without *)
(* reading every stage again (refresh_stage).                              *)
(*                                                                         *)
(* A stage is <<number, letter>>, its directory name in the order in which *)
(* the list is sorted.  One actor works on the workflow; of what others do *)
(* to it, users and the engines of other processes, only the removal of a  *)
(* directory is here.  WorkflowEngine has several engines, over a list     *)
(* that does not change.                                                   *)
(***************************************************************************)
EXTENDS Naturals, Sequences, FiniteSets, SequencesExt

CONSTANTS First,      \* the stages the workflow is made with
          Letters,    \* names a hook may give a stage
          MaxNumber,  \* u32::MAX: the number of the last stage there can be
          MaxInserts, \* bound on the stages one hook asks for
          Failing,    \* what may fail in this model
          MaxFailures \* bound on the failures

Ids == (1..MaxNumber) \X Letters
Nothing == <<0, 0>>

ASSUME ListOK ==
  /\ MaxNumber \in Nat /\ MaxInserts \in Nat /\ MaxFailures \in Nat
  /\ Letters \subseteq Nat /\ IsFiniteSet(Letters)
  /\ First \subseteq Ids
  /\ Failing \subseteq {"exec", "io", "reload", "crash", "removal"}

VARIABLES
  disk,    \* disk[s]: "absent", or the marker in the directory of stage s
  mem,     \* the list in memory: each stage with the marker last read
  doing,   \* what the actor does next
  cur,     \* the stage it runs
  old,     \* the index of that stage when the refresh began
  ins,     \* names the hook wants inserted
  rem,     \* the stage the hook wants removed, or Nothing
  shared,  \* the shared store on disk is whole
  failures

hook == <<ins, rem>>
listVars == <<disk, mem, doing, cur, old, hook, shared, failures>>

Failure(what) ==
  what \in Failing /\ failures < MaxFailures /\ failures' = failures + 1

Number(s) == s[1]
Before(s, t) == s[1] < t[1] \/ (s[1] = t[1] /\ s[2] < t[2])
(* The markers of a directory that is gone are found absent.               *)
Entry(s) == [id |-> s, mark |-> IF disk[s] = "absent" THEN "pending" ELSE disk[s]]
OnDisk == {s \in Ids : disk[s] # "absent"}
Listed(list) == {list[i].id : i \in DOMAIN list}
IndexOf(list, s) == SelectInSeq(list, LAMBDA x : x.id = s)

(* The elements of a set by the number of those that come before them.     *)
Sorted(S, before) ==
  [i \in 1..Cardinality(S) |->
     CHOOSE x \in S : Cardinality({y \in S : <<y, x>> \in before}) = i - 1]

InOrder(S) == Sorted(S, {p \in S \X S : Before(p[1].id, p[2].id)})

(* The list of what is at the places K of a list.                          *)
Kept(list, K) ==
  LET at == Sorted(K, {p \in K \X K : p[1] < p[2]})
  IN [i \in DOMAIN at |-> list[at[i]]]

(* from_dir: every directory with the name of a stage, and its marker.     *)
FromDir == InOrder({Entry(s) : s \in OnDisk})

ListInit ==
  /\ disk = [s \in Ids |-> IF s \in First THEN "pending" ELSE "absent"]
  /\ mem = FromDir
  /\ doing = "idle" /\ cur = Nothing /\ old = 0
  /\ ins = <<>> /\ rem = Nothing
  /\ shared = TRUE
  /\ failures = 0

-----------------------------------------------------------------------------
(* The plan of a list: a group of stages with one number waits for the     *)
(* group before it.                                                        *)
GroupBefore(S, s) ==
  {t \in S : /\ Number(t) < Number(s)
             /\ ~\E u \in S : Number(t) < Number(u) /\ Number(u) < Number(s)}
MarkOf(list, s) == list[IndexOf(list, s)].mark

(* Mutant: the group before is the one with the number before.             *)
RunnableInSteps(s) ==
  /\ MarkOf(mem, s) = "pending"
  /\ \/ Number(s) = 1
     \/ \E t \in Listed(mem) :
          Number(t) = Number(s) - 1 /\ MarkOf(mem, t) = "complete"

Runnable(s) ==
  /\ MarkOf(mem, s) = "pending"
  /\ \A t \in GroupBefore(Listed(mem), s) : MarkOf(mem, t) = "complete"

(* Mutant: a plan that has not read the markers of the group before.       *)
NextUnordered(s) ==
  /\ s \in Listed(mem) /\ MarkOf(mem, s) = "pending"
  /\ \A t \in Listed(mem) : MarkOf(mem, t) = "pending" => ~Before(s, t)

Next1(s) ==
  /\ s \in Listed(mem) /\ Runnable(s)
  /\ \A t \in Listed(mem) : Runnable(t) => ~Before(t, s)

Proceed(to) == doing' = to

End ==
  Proceed("idle") /\ cur' = Nothing /\ old' = 0 /\ ins' = <<>> /\ rem' = Nothing

(* run_stage: the lock file is made in the directory of the stage, so that *)
(* a stage that is gone is not run, and the list stays as it is.           *)
Begin(s) ==
  /\ doing = "idle"
  /\ IF disk[s] = "absent"
     THEN End
     ELSE Proceed("exec") /\ cur' = s /\ UNCHANGED <<old, hook>>
  /\ UNCHANGED <<disk, mem, shared, failures>>

RunNext == \E s \in Ids : Next1(s) /\ Begin(s)

(* A user runs a stage by name; in the model, one that has failed.         *)
RunAgain == \E s \in Listed(mem) : MarkOf(mem, s) = "error" /\ Begin(s)

-----------------------------------------------------------------------------
(* execute: without the shared store no stage is executed, script or not.  *)
Exec ==
  /\ doing = "exec"
  /\ IF ~shared
     THEN Proceed("mark_error") /\ UNCHANGED hook
     ELSE \/ Proceed("mark_complete") /\ UNCHANGED hook
          \/ /\ Proceed("save")
             /\ \E n \in 0..MaxInserts : ins' \in [1..n -> Letters]
             /\ rem' \in Ids \cup {Nothing}
  /\ UNCHANGED <<disk, mem, cur, old, shared, failures>>

(* An execution may fail any number of times: it is no failure of a file.  *)
ExecFails ==
  /\ doing = "exec" /\ "exec" \in Failing
  /\ Proceed("mark_error")
  /\ UNCHANGED <<disk, mem, cur, old, hook, shared, failures>>

(* save_shared_store writes in place.  Its failure is only logged.         *)
Truncate ==
  /\ doing = "save"
  /\ shared' = FALSE
  /\ Proceed("fill")
  /\ UNCHANGED <<disk, mem, cur, old, hook, failures>>

Fill ==
  /\ doing = "fill"
  /\ \/ shared' = TRUE /\ UNCHANGED failures
     \/ Failure("io") /\ UNCHANGED shared
  /\ Proceed("insert")
  /\ UNCHANGED <<disk, mem, cur, old, hook>>

-----------------------------------------------------------------------------
(* insert_stage_after: the next number, if there is one and no stage of    *)
(* the list has it.  A failure of one insertion is only logged.            *)
NewStage == <<Number(cur) + 1, Head(ins)>>

Made == [disk EXCEPT ![NewStage] = IF @ = "absent" THEN "pending" ELSE @]

MayInsert ==
  /\ cur \in Listed(mem)
  /\ NewStage \in Ids
  /\ \A s \in Listed(mem) : Number(s) # Number(NewStage)

Insert ==
  /\ doing = "insert" /\ ins # <<>>
  /\ IF MayInsert
     THEN \/ LET at == IndexOf(mem, cur) IN
             /\ disk' = Made
             /\ mem' = InsertAt(mem, at + 1,
                               [id |-> NewStage, mark |-> disk'[NewStage]])
             /\ UNCHANGED failures
          \/ /\ Failure("io")
             /\ disk' \in {disk, Made}
             /\ UNCHANGED mem
     ELSE UNCHANGED <<disk, mem, failures>>
  /\ ins' = Tail(ins)
  /\ UNCHANGED <<doing, cur, old, rem, shared>>

(* Mutant: the directory goes, the list keeps the stage.                   *)
DroppedFromDisk ==
  /\ disk' = [disk EXCEPT ![rem] = "absent"]
  /\ UNCHANGED mem

Dropped ==
  /\ disk' = [disk EXCEPT ![rem] = "absent"]
  /\ mem' = RemoveAt(mem, IndexOf(mem, rem))

(* remove_stage; a removal that fails half way may have taken the marker.  *)
RemoveStage ==
  /\ doing = "insert" /\ ins = <<>>
  /\ IF rem \in Listed(mem) /\ disk[rem] # "absent"
     THEN \/ Dropped /\ UNCHANGED failures
          \/ /\ Failure("io")
             /\ disk' \in {disk, [disk EXCEPT ![rem] = "pending"]}
             /\ UNCHANGED mem
     ELSE UNCHANGED <<disk, mem, failures>>
  /\ rem' = Nothing
  /\ Proceed("mark_complete")
  /\ UNCHANGED <<cur, old, ins, shared>>

-----------------------------------------------------------------------------
(* mark_stage_complete: a stage its own hook removed is not found, and the *)
(* run ends there.                                                         *)
MarkComplete ==
  /\ doing = "mark_complete"
  /\ IF cur \in Listed(mem) /\ disk[cur] # "absent"
     THEN /\ disk' = [disk EXCEPT ![cur] = "complete"]
          /\ Proceed("prune")
          /\ UNCHANGED <<cur, old, hook>>
     ELSE End /\ UNCHANGED disk
  /\ UNCHANGED <<mem, shared, failures>>

(* The mark fails with the run, and nothing is refreshed: without a marker *)
(* the stage is run again, and with one when its control record failed.    *)
MarkCompleteFails ==
  /\ doing = "mark_complete" /\ disk[cur] # "absent"
  /\ Failure("io")
  /\ disk' \in {disk, [disk EXCEPT ![cur] = "complete"]}
  /\ End
  /\ UNCHANGED <<mem, shared>>

MarkError ==
  /\ doing = "mark_error"
  /\ disk' = [disk EXCEPT ![cur] = IF @ = "absent" THEN @ ELSE "error"]
  /\ Proceed("prune")
  /\ UNCHANGED <<mem, cur, old, hook, shared, failures>>

(* A marker of an error that cannot be written is only logged.             *)
MarkErrorFails ==
  /\ doing = "mark_error"
  /\ Failure("io")
  /\ Proceed("prune")
  /\ UNCHANGED <<disk, mem, cur, old, hook, shared>>

(* refresh_stage, first half: the stages that are gone leave the list.     *)
Prune ==
  /\ doing = "prune"
  /\ old' = IndexOf(mem, cur)
  /\ mem' = Kept(mem, {i \in DOMAIN mem : disk[mem[i].id] # "absent"})
  /\ Proceed("refresh")
  /\ UNCHANGED <<disk, cur, hook, shared, failures>>

(* The stage whose markers are read: the one that now has the index that   *)
(* the stage had before the list was pruned.                               *)
Refreshed(list) ==
  IF old \in DOMAIN list THEN old
  ELSE IndexOf(list, cur)

Arrivals == SetToSeqs({Entry(s) : s \in OnDisk \ Listed(mem)})

Refresh ==
  /\ doing = "refresh"
  /\ \E new \in Arrivals :
       LET list == mem \o new
           at == Refreshed(list)
       IN mem' = InOrder({IF i = at THEN Entry(list[i].id) ELSE list[i] :
                            i \in DOMAIN list})
  /\ End
  /\ UNCHANGED <<disk, shared, failures>>

(* The refresh fails: the workflow is read from its directory, if it has   *)
(* a stage and that does not fail as well.                                 *)
RefreshFails ==
  /\ doing = "refresh"
  /\ Failure("reload")
  /\ mem' \in {mem} \cup (IF OnDisk = {} THEN {} ELSE {FromDir})
  /\ End
  /\ UNCHANGED <<disk, shared>>

(* The reload after an approval, and the load after a crash.               *)
Reload ==
  /\ doing \in {"idle", "down"}
  /\ mem' = IF OnDisk = {} THEN mem ELSE FromDir
  /\ Proceed("idle")
  /\ UNCHANGED <<disk, cur, old, hook, shared, failures>>

(* A user, or the hook of another process's engine, removes a directory.   *)
Removal ==
  /\ Failure("removal")
  /\ \E s \in OnDisk : disk' = [disk EXCEPT ![s] = "absent"]
  /\ UNCHANGED <<mem, doing, cur, old, hook, shared>>

(* The process of the actor ends.                                          *)
Dies ==
  /\ doing # "down"
  /\ Failure("crash")
  /\ Proceed("down")
  /\ mem' = <<>> /\ cur' = Nothing /\ old' = 0 /\ ins' = <<>> /\ rem' = Nothing
  /\ UNCHANGED <<disk, shared>>

-----------------------------------------------------------------------------
Work ==
  \/ Exec \/ Truncate \/ Fill \/ Insert \/ RemoveStage
  \/ MarkComplete \/ MarkError \/ Prune \/ Refresh
  \/ doing = "down" /\ Reload

ListNext ==
  \/ Work \/ RunNext \/ RunAgain \/ Reload
  \/ ExecFails \/ MarkCompleteFails \/ MarkErrorFails \/ RefreshFails
  \/ Removal \/ Dies

ListSpec == ListInit /\ [][ListNext]_listVars

(* A run goes on, a server is started again, and somebody asks for the     *)
(* next stage.                                                             *)
ListFairSpec == ListSpec /\ WF_listVars(Work) /\ WF_listVars(RunNext)
-----------------------------------------------------------------------------
(* Every variable has its type, and the list names no stage twice.         *)
ListTypeOK ==
  /\ disk \in [Ids -> {"absent", "pending", "complete", "error"}]
  /\ mem \in Seq([id : Ids, mark : {"pending", "complete", "error"}])
  /\ doing \in {"idle", "down", "exec", "save", "fill", "insert",
             "mark_complete", "mark_error", "prune", "refresh"}
  /\ cur \in Ids \cup {Nothing} /\ rem \in Ids \cup {Nothing}
  /\ old \in 0..Cardinality(Ids)
  /\ ins \in Seq(Letters)
  /\ shared \in BOOLEAN /\ failures \in 0..MaxFailures
  /\ \A i, j \in DOMAIN mem : mem[i].id = mem[j].id => i = j

(* Between two runs the list names the directories there are, whatever the *)
(* hooks inserted and removed, the running stage included.                 *)
ListIsDisk == doing = "idle" /\ failures = 0 => Listed(mem) = OnDisk

(* A stage starts when every stage that is directly in front of it on disk *)
(* is complete, those that hooks have put there meanwhile included.        *)
RunsInOrder ==
  [][(cur = Nothing /\ cur' # Nothing /\ failures = 0)
       => \A t \in GroupBefore(OnDisk, cur') : disk[t] = "complete"]_listVars

(* The workflow completes or stands at an error, whatever the hooks ask:   *)
(* only a file operation that failed can leave a stage nobody will run,    *)
(* because the list in memory is not what the directory is.                *)
Settles ==
  []<>(\/ \A s \in OnDisk : disk[s] = "complete"
       \/ \E s \in OnDisk : disk[s] = "error"
       \/ failures > 0 /\ ToSet(mem) # {Entry(s) : s \in OnDisk})

(* Not checked by a run, false: "Refresh the executed stage's marker       *)
(* state" (workflow.rs:355), a refresh leaves the list with the marker the *)
(* run has written (another stage's is read when the directory of one in   *)
(* front was removed by somebody else meanwhile).                          *)
MarkIsRead ==
  [][(/\ doing = "refresh" /\ doing' = "idle" /\ failures' = failures
      /\ cur \in Listed(mem) /\ disk[cur] # "absent")
       => \E i \in DOMAIN mem' : mem'[i] = Entry(cur)]_listVars
=============================================================================
