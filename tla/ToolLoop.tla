------------------------------ MODULE ToolLoop ------------------------------
(***************************************************************************)
(* The execution of one stage: the conversation with the language model,   *)
(* the tools it calls, the memory of the workflow, the hooks, the snapshot *)
(* that is taken meanwhile, and what is left behind when a step fails      *)
(* (llm_driver.rs, tool_driver.rs, state.rs, the tools, the memory store). *)
(*                                                                         *)
(* One actor executes the stages of one workflow, one after the other; run *)
(* n is its n-th execution.  Locks, markers and retries are in             *)
(* WorkflowEngine, what the hooks do to the list is in StageList.          *)
(***************************************************************************)
EXTENDS Naturals, Sequences, FiniteSets, SequencesExt

CONSTANTS Contexts,    \* what a stage's CONTEXT.md and CONTEXT.lua ask for
          Tools,       \* the tools the model calls, of those registered
          MaxRuns,     \* bound on the executions
          MaxCalls,    \* bound on the tool calls of one answer
          MaxRequests, \* bound on the requests of one execution
          Failing,     \* what may fail in this model
          MaxFaults    \* bound on the failures

Runs == 1..MaxRuns

ASSUME LoopOK ==
  /\ MaxRuns \in Nat /\ MaxCalls \in Nat \ {0} /\ MaxRequests \in Nat /\ MaxFaults \in Nat
  /\ Tools \subseteq {"read_file", "write_file", "shell", "http", "memory_store", "memory_query"}
  /\ Contexts \subseteq [limit : Nat,          \* tool_loop_max_iterations
                         script : BOOLEAN,     \* there is a CONTEXT.lua
                         sources : BOOLEAN,    \* memory_sources
                         index : BOOLEAN,      \* index_output
                         container : BOOLEAN]  \* container: true
  /\ Failing \subseteq {"io", "llm", "script", "tool", "arguments", "crash",
                  "corrupt", "rival"}

VARIABLES
  pc,        \* the step of the execution
  run,       \* its number
  ctx,       \* its context
  msgs,      \* the conversation so far
  calls,     \* the calls of the last answer that are left to execute
  round,     \* tool_round
  failed,    \* execute has returned an error
  output,    \* what execute returns: "none", "empty" or "text"
  result,    \* result.md: whose it is, and whether it is whole
  snap,      \* the snapshot: "none", "running", "before" or "mixed"
  edited,    \* a file of the stage was changed while the snapshot is running
  strays,    \* executions that left processes of a timed-out command behind
  lua,       \* the pooled Lua VM: whose globals it holds
  seen,      \* the globals the last hook found
  cache,     \* the MemoryStore in memory, if it is loaded
  file,      \* the chunks of memory.jsonl
  chunks,    \* the number of chunks made so far
  kept,      \* chunks the engine, or a tool, has reported as stored
  lost,      \* chunks an open overlooked, a rival overwrote or that were corrupted
  cas,       \* executions whose output is in the content store
  published, \* executions that published a result contribution
  done,      \* executions that ended well, with what they returned
  faults

memory == <<cache, file, chunks, kept, lost>>
place == <<result, snap, edited, strays>>
talk == <<msgs, calls, round>>
stores == <<cas, published, done>>
vm == <<lua, seen>>
vars == <<pc, run, ctx, talk, failed, output, place, vm, memory, stores, faults>>

Fault(what) == what \in Failing /\ faults < MaxFaults /\ faults' = faults + 1
Goto(to) == pc' = to

NoResult == [of |-> 0, whole |-> FALSE]
FreshVM == [added |-> {}, changed |-> {}]
Unloaded == [loaded |-> FALSE, chunks |-> {}]
ByTool == "tool"
ByEngine == "engine"

Init ==
  /\ pc = "idle" /\ run = 0 /\ ctx = CHOOSE c \in Contexts : TRUE
  /\ msgs = <<>> /\ calls = <<>> /\ round = 0
  /\ failed = FALSE /\ output = "none"
  /\ result = NoResult /\ snap = "none" /\ edited = FALSE /\ strays = {}
  /\ lua = FreshVM /\ seen = {}
  /\ cache = Unloaded /\ file = {} /\ chunks = 0 /\ lost = {}
  /\ kept = [w \in {ByTool, ByEngine} |-> {}]
  /\ cas = {} /\ published = {} /\ done = {}
  /\ faults = 0

-----------------------------------------------------------------------------
(* run_stage cleans the output and execute_stage takes a snapshot: before  *)
(* a container, and beside the conversation otherwise.                     *)
Begin ==
  /\ pc = "idle" /\ run < MaxRuns
  /\ run' = run + 1
  /\ ctx' \in Contexts
  /\ result' = NoResult
  /\ snap' = "running" /\ edited' = FALSE
  /\ failed' = FALSE /\ output' = "none"
  /\ Goto(IF ctx'.container THEN "container" ELSE "prepare")
  /\ UNCHANGED <<talk, strays, vm, memory, stores, faults>>

(* Without a key for its provider the stage fails before all this.         *)
NoProvider ==
  /\ pc = "idle" /\ run < MaxRuns
  /\ Fault("llm")
  /\ run' = run + 1
  /\ ctx' \in {c \in Contexts : ~c.container}
  /\ result' = NoResult /\ failed' = TRUE /\ output' = "none"
  /\ UNCHANGED <<pc, talk, snap, edited, strays, vm, memory, stores>>

(* The copy leaves output/ out; it takes every other file as it finds it.  *)
Snapshot ==
  /\ snap = "running"
  /\ snap' \in IF edited THEN {"before", "mixed"} ELSE {"before"}
  /\ edited' = FALSE
  /\ UNCHANGED <<pc, run, ctx, talk, failed, output, result, strays, vm, memory, stores, faults>>

(* An error of execute: the snapshot is waited for all the same.           *)
Fails == Goto("join") /\ failed' = TRUE

(* The preparation of execute: each step goes on, or is an error.          *)
Ready(at, next) == pc = at /\ Goto(next) /\ UNCHANGED <<failed, faults>>
Unready(at, what) == pc = at /\ Fault(what) /\ Fails

(* CONTEXT.md may be missing; one that cannot be read or parsed fails.     *)
LoadContext ==
  /\ Ready("prepare", "inputs") \/ Unready("prepare", "io")
  /\ UNCHANGED <<run, ctx, talk, output, place, vm, memory, stores>>

(* The script and the inputs.  An input that cannot be read is left out.   *)
ReadInputs ==
  /\ Ready("inputs", "profile") \/ Unready("inputs", "io")
  /\ UNCHANGED <<run, ctx, talk, output, place, vm, memory, stores>>

(* The profile of the provider is checked, the shared store is read.       *)
ResolveProfile ==
  /\ \/ Ready("profile", IF ctx.script THEN "on_validate" ELSE "sources")
     \/ Unready("profile", "io")
  /\ UNCHANGED <<run, ctx, talk, output, place, vm, memory, stores>>

-----------------------------------------------------------------------------
(* A hook runs in a pooled VM, which is reset when it is taken from the    *)
(* pool and when it is put back: the globals that scripts added go, those  *)
(* that a fresh VM has stay as they are.  The scripts here do both.        *)

(* Mutant: only the hook's own context is cleared.                         *)
ResetContext(v) == v

Reset(v) == [v EXCEPT !.added = {}]

Acquired == Reset(lua)

Hook ==
  /\ seen' = Acquired.added
  /\ lua' = Reset([added |-> Acquired.added \cup {run},
                    changed |-> Acquired.changed \cup {run}])

(* on_validate may fail the stage, skip it, or let it go on.               *)
Validate ==
  /\ pc = "on_validate"
  /\ Hook
  /\ \/ Goto("sources") /\ UNCHANGED <<failed, output, faults>>
     \/ Goto("join") /\ output' = "empty" /\ UNCHANGED <<failed, faults>>
     \/ Fault("script") /\ Fails /\ UNCHANGED output
  /\ UNCHANGED <<run, ctx, talk, place, memory, stores>>

(* An error of on_complete is only logged.                                 *)
Complete ==
  /\ pc = "on_complete"
  /\ Hook
  /\ Goto("join")
  /\ UNCHANGED <<run, ctx, talk, failed, output, place, memory, stores, faults>>

-----------------------------------------------------------------------------
(* MemoryStore: the chunks are read when the store is opened; an addition  *)
(* rewrites the file with all of them, and stays in memory when that       *)
(* fails.  The engine keeps its store open, a tool opens its own.  An open *)
(* that cannot tell whether the file is there takes it for absent.         *)

(* Mutant: the store is opened without reading what it has.                *)
OpenedEmpty == {}

Opened == file

Overlook == Fault("io") /\ lost' = lost \cup file

Remembers ==
  \/ pc = "sources" /\ ctx.sources
  \/ pc = "index" /\ ctx.index /\ output = "text"

OpenMemory ==
  /\ Remembers /\ ~cache.loaded
  /\ \/ /\ cache' = [loaded |-> TRUE, chunks |-> Opened]
        /\ UNCHANGED <<pc, failed, lost, faults>>
     \/ /\ cache' = [loaded |-> TRUE, chunks |-> {}]
        /\ Overlook
        /\ UNCHANGED <<pc, failed>>
     \/ Fault("io") /\ Fails /\ UNCHANGED <<cache, lost>>
  /\ UNCHANGED <<run, ctx, talk, output, place, vm, file, chunks, kept, stores>>

Stored(who, known) ==
  /\ chunks' = chunks + 1
  /\ file' = known \cup {chunks'}
  /\ kept' = [kept EXCEPT ![who] = @ \cup {chunks'}]

EngineAdds ==
  /\ cache.loaded
  /\ Stored(ByEngine, cache.chunks)
  /\ cache' = [loaded |-> TRUE, chunks |-> cache.chunks \cup {chunks'}]
  /\ UNCHANGED lost

EngineAddFails ==
  /\ cache.loaded
  /\ Fault("io")
  /\ chunks' = chunks + 1
  /\ cache' \in {cache, [loaded |-> TRUE, chunks |-> cache.chunks \cup {chunks'}]}
  /\ UNCHANGED <<file, kept, lost>>

EngineFindsNothing == cache.loaded /\ UNCHANGED memory

(* load_memory_sources.                                                    *)
Sources ==
  /\ pc = "sources"
  /\ \/ ctx.sources /\ EngineAdds /\ Goto("assemble") /\ UNCHANGED <<failed, faults>>
     \/ ctx.sources /\ EngineFindsNothing /\ Goto("assemble") /\ UNCHANGED <<failed, faults>>
     \/ ctx.sources /\ EngineAddFails /\ Fails
     \/ ~ctx.sources /\ Goto("assemble") /\ UNCHANGED <<failed, memory, faults>>
  /\ UNCHANGED <<run, ctx, talk, output, place, vm, stores>>

(* index_output.                                                           *)
Index ==
  /\ pc = "index"
  /\ \/ Remembers /\ EngineAdds /\ Goto("publish") /\ UNCHANGED <<failed, faults>>
     \/ Remembers /\ EngineAddFails /\ Fails
     \/ ~Remembers /\ Goto("publish") /\ UNCHANGED <<failed, memory, faults>>
  /\ UNCHANGED <<run, ctx, talk, output, place, vm, stores>>

-----------------------------------------------------------------------------
Message(role, ids) == [role |-> role, calls |-> ids]

(* A stage without a prompt and without an input opens with no message.    *)
Assemble ==
  /\ pc = "assemble"
  /\ msgs' \in {<<>>, <<Message("user", <<>>)>>}
  /\ Goto("ask")
  /\ UNCHANGED <<run, ctx, calls, round, failed, output, place, vm, memory, stores, faults>>

(* Mutant: the limit is compared for equality.                             *)
ExhaustedAt(r) == r = ctx.limit

Exhausted(r) == r >= ctx.limit

(* Mutant: the message that carried the calls is not echoed.               *)
NotEchoed(ids) == msgs

Echoed(ids) == Append(msgs, Message("assistant", ids))

(* One request: the answer is a text, maybe an empty one, or tool calls.   *)
Ask ==
  /\ pc = "ask" /\ round < MaxRequests
  /\ \/ /\ output' \in {"text", "empty"}
        /\ Goto("write")
        /\ UNCHANGED talk
     \/ \E n \in 1..MaxCalls :
          /\ round' = round + 1
          /\ calls' = [i \in 1..n |-> <<round', i>>]
          /\ msgs' = IF Exhausted(round') THEN msgs ELSE Echoed(calls')
          /\ Goto("tools")
          /\ UNCHANGED output
  /\ UNCHANGED <<run, ctx, failed, place, vm, memory, stores, faults>>

(* The request is refused, times out or is answered with what cannot be    *)
(* parsed, the arguments of a call included.                               *)
AskFails ==
  /\ pc = "ask"
  /\ Fault("llm")
  /\ Fails
  /\ UNCHANGED <<run, ctx, talk, output, place, vm, memory, stores>>

(* What a tool that succeeds changes.  A tool may write any file of the    *)
(* workflow: the result, a file the snapshot copies, or another one.       *)
WriteFile ==
  /\ \/ result' = [of |-> run, whole |-> FALSE] /\ UNCHANGED edited
     \/ snap = "running" /\ edited' = TRUE /\ UNCHANGED result
     \/ UNCHANGED <<result, edited>>
  /\ UNCHANGED <<snap, strays, memory>>

Shell == WriteFile
ReadFile == UNCHANGED <<place, memory>>
Http == UNCHANGED <<place, memory>>
MemoryQuery == UNCHANGED <<place, memory>>
MemoryStoreTool == Stored(ByTool, Opened) /\ UNCHANGED <<cache, lost, place>>
ToolOverlooks == Overlook /\ Stored(ByTool, {}) /\ UNCHANGED <<cache, place>>

Effect(tool) ==
  CASE tool = "write_file" -> WriteFile
    [] tool = "shell" -> Shell
    [] tool = "read_file" -> ReadFile
    [] tool = "http" -> Http
    [] tool = "memory_query" -> MemoryQuery
    [] tool = "memory_store" -> MemoryStoreTool

(* The calls of an answer are executed in turn.  After the last round the  *)
(* conversation does not go on: the results are the output.                *)
RunTool ==
  /\ pc = "tools" /\ calls # <<>>
  /\ \/ (\E tool \in Tools : Effect(tool)) /\ UNCHANGED faults
     \/ "memory_store" \in Tools /\ ToolOverlooks
  /\ calls' = Tail(calls)
  /\ msgs' = IF Exhausted(round) THEN msgs
             ELSE Append(msgs, Message("tool", <<Head(calls)>>))
  /\ UNCHANGED <<pc, run, ctx, round, failed, output, vm, stores>>

ToolsDone ==
  /\ pc = "tools" /\ calls = <<>>
  /\ IF Exhausted(round)
     THEN Goto("write") /\ output' = "text"
     ELSE Goto("ask") /\ UNCHANGED output
  /\ UNCHANGED <<run, ctx, talk, failed, place, vm, memory, stores, faults>>

(* A tool that is unknown or fails ends the execution.                     *)
ToolFails ==
  /\ pc = "tools" /\ calls # <<>>
  /\ Fault("tool")
  /\ Fails
  /\ UNCHANGED <<run, ctx, talk, output, place, vm, memory, stores>>

(* A command that is out of time is killed; what it has started goes on.   *)
ShellTimesOut ==
  /\ pc = "tools" /\ calls # <<>>
  /\ "shell" \in Tools
  /\ Fault("tool")
  /\ strays' = strays \cup {run}
  /\ Fails
  /\ UNCHANGED <<run, ctx, talk, output, result, snap, edited, vm, memory, stores>>

Stray ==
  /\ strays # {}
  /\ \/ result' = [of |-> 0, whole |-> FALSE] /\ UNCHANGED edited
     \/ snap = "running" /\ edited' = TRUE /\ UNCHANGED result
  /\ UNCHANGED <<pc, run, ctx, talk, failed, output, snap, strays, vm, memory, stores, faults>>

(* Arguments that are JSON and no object: the engine writes a field into   *)
(* them and panics, and the actor of the workflow is gone.                 *)
Panic ==
  /\ pc = "tools" /\ calls # <<>>
  /\ Tools \ {"http"} # {}
  /\ Fault("arguments")
  /\ Goto("dead")
  /\ UNCHANGED <<run, ctx, talk, failed, output, place, vm, memory, stores>>

-----------------------------------------------------------------------------
(* result.md is written in place.                                          *)
Truncate ==
  /\ pc = "write"
  /\ result' = [of |-> run, whole |-> FALSE]
  /\ Goto("fill")
  /\ UNCHANGED <<run, ctx, talk, failed, output, snap, edited, strays, vm, memory, stores, faults>>

(* Mutant: a write that fails is only logged.                              *)
FillFailsQuietly == Goto("index") /\ UNCHANGED failed

FillFails == Fails

Fill ==
  /\ pc = "fill"
  /\ \/ result' = [of |-> run, whole |-> TRUE] /\ Goto("index") /\ UNCHANGED <<failed, faults>>
     \/ /\ Fault("io")
        /\ result' \in {result, [of |-> run, whole |-> TRUE]}
        /\ FillFails
  /\ UNCHANGED <<run, ctx, talk, output, snap, edited, strays, vm, memory, stores>>

(* publish_result_contribution: what fails in it is only logged.           *)
Publish ==
  /\ pc = "publish"
  /\ IF ctx.index /\ output = "text"
     THEN \/ cas' = cas \cup {run} /\ published' = published \cup {run} /\ UNCHANGED faults
          \/ /\ Fault("io")
             /\ \/ published' = published \cup {run} /\ UNCHANGED cas
                \/ cas' = cas \cup {run} /\ UNCHANGED published
     ELSE UNCHANGED <<cas, published, faults>>
  /\ Goto(IF ctx.script THEN "on_complete" ELSE "join")
  /\ UNCHANGED <<run, ctx, talk, failed, output, place, vm, memory, done>>

End == Goto("idle") /\ msgs' = <<>> /\ calls' = <<>> /\ round' = 0

(* The snapshot is waited for, and the output goes to the content store.   *)
Join ==
  /\ pc = "join" /\ snap # "running"
  /\ IF failed
     THEN UNCHANGED <<cas, done, faults>>
     ELSE IF output = "empty"
     THEN done' = done \cup {run} /\ UNCHANGED <<cas, faults>>
     ELSE \/ cas' = cas \cup {run} /\ done' = done \cup {run} /\ UNCHANGED faults
          \/ Fault("io") /\ UNCHANGED <<cas, done>>
  /\ End
  /\ UNCHANGED <<run, ctx, failed, output, place, vm, memory, published>>

-----------------------------------------------------------------------------
(* A container runs `zerochain run` on the stage; whatever it has written, *)
(* result.md becomes what it has printed.                                  *)
Container ==
  /\ pc = "container" /\ snap # "running"
  /\ result' \in [of : {run}, whole : BOOLEAN] \cup {result}
  /\ \/ Goto("stdout") /\ output' = "text" /\ UNCHANGED faults
     \/ Fault("tool") /\ Goto("idle") /\ UNCHANGED output
  /\ UNCHANGED <<run, ctx, talk, failed, snap, edited, strays, vm, memory, stores>>

Stdout ==
  /\ pc = "stdout"
  /\ Goto("idle")
  /\ \/ result' = [of |-> run, whole |-> TRUE] /\ done' = done \cup {run} /\ UNCHANGED faults
     \/ Fault("io") /\ result' = [of |-> run, whole |-> FALSE] /\ UNCHANGED done
  /\ UNCHANGED <<run, ctx, talk, failed, output, snap, edited, strays, vm, memory, cas, published>>

SnapshotFails ==
  /\ snap = "running"
  /\ Fault("io")
  /\ snap' = "none" /\ edited' = FALSE
  /\ UNCHANGED <<pc, run, ctx, talk, failed, output, result, strays, vm, memory, stores>>

(* The process ends and is started again; strays are other processes.      *)
Crash ==
  /\ Fault("crash")
  /\ End
  /\ snap' = "none" /\ edited' = FALSE
  /\ lua' = FreshVM /\ seen' = {}
  /\ cache' = Unloaded
  /\ UNCHANGED <<run, ctx, failed, output, result, strays,
                 file, chunks, kept, lost, stores>>

(* A line that does not parse is skipped by every open, and not written    *)
(* again by what was opened then.                                          *)
Corrupt ==
  /\ Fault("corrupt")
  /\ \E line \in file : file' = file \ {line} /\ lost' = lost \cup {line}
  /\ UNCHANGED <<pc, run, ctx, talk, failed, output, place, vm, cache, chunks, kept, stores>>

(* The engine of another process, a `zerochain run` beside the daemon,     *)
(* executes another stage of the workflow and adds to what it has read of  *)
(* the file at some time before (what has left the file since, and comes   *)
(* back with that, is left out).                                           *)
RivalAdds ==
  /\ Fault("rival")
  /\ chunks' = chunks + 1
  /\ \E known \in SUBSET file :
       file' = known \cup {chunks'} /\ lost' = lost \cup (file \ known)
  /\ UNCHANGED <<pc, run, ctx, talk, failed, output, place, vm, cache, kept, stores>>

-----------------------------------------------------------------------------
Work ==
  \/ Snapshot
  \/ LoadContext \/ ReadInputs \/ ResolveProfile
  \/ Validate \/ OpenMemory \/ Sources \/ Assemble \/ Ask \/ RunTool \/ ToolsDone
  \/ Truncate \/ Fill \/ Index \/ Publish \/ Complete \/ Join
  \/ Container \/ Stdout

Next == \/ Begin \/ Work \/ AskFails \/ ToolFails \/ ShellTimesOut \/ Stray \/ Panic
        \/ NoProvider
        \/ SnapshotFails \/ Crash \/ Corrupt \/ RivalAdds

Spec == Init /\ [][Next]_vars

(* Every await of an execution is answered: requests and tools have a      *)
(* timeout, the snapshot is a copy of files.                               *)
FairSpec == Spec /\ WF_vars(Snapshot) /\ WF_vars(Work)
-----------------------------------------------------------------------------
(* The variables have their types.                                         *)
TypeOK ==
  /\ pc \in {"idle", "dead", "container", "stdout", "prepare", "inputs", "profile",
             "on_validate", "sources", "assemble", "ask", "tools", "write", "fill", "index", "publish",
             "on_complete", "join"}
  /\ run \in 0..MaxRuns /\ ctx \in Contexts /\ round \in 0..MaxRequests
  /\ calls \in Seq(Nat \X Nat)
  /\ msgs \in Seq([role : {"user", "assistant", "tool"}, calls : Seq(Nat \X Nat)])
  /\ failed \in BOOLEAN /\ output \in {"none", "empty", "text"}
  /\ result \in [of : 0..MaxRuns, whole : BOOLEAN]
  /\ snap \in {"none", "running", "before", "mixed"} /\ edited \in BOOLEAN
  /\ lua \in [added : SUBSET Runs, changed : SUBSET Runs] /\ seen \subseteq Runs
  /\ cache.loaded \in BOOLEAN /\ chunks \in Nat
  /\ cache.chunks \cup file \cup lost \cup UNION {kept[w] : w \in DOMAIN kept} \subseteq 1..chunks
  /\ strays \cup cas \cup published \cup done \subseteq Runs
  /\ faults \in 0..MaxFaults

(* "OpenAI-compatible providers return HTTP 400 for a `tool` message with  *)
(* no preceding assistant `tool_calls`" (llm_driver.rs:229): in a request  *)
(* every message with calls is followed by their answers, in their order,  *)
(* and there are no other answers.                                         *)
Conversation ==
  pc = "ask" =>
    LET asked == FlattenSeq([i \in DOMAIN msgs |->
                   IF msgs[i].role = "assistant" THEN msgs[i].calls ELSE <<>>])
        answered == FlattenSeq([i \in DOMAIN msgs |->
                      IF msgs[i].role = "tool" THEN msgs[i].calls ELSE <<>>])
    IN /\ asked = answered
       /\ \A i \in DOMAIN msgs : msgs[i].role = "assistant" =>
            \A k \in DOMAIN msgs[i].calls :
              msgs[i + k] = Message("tool", <<msgs[i].calls[k]>>)

(* What the engine has reported as stored stays in the memory of the       *)
(* workflow, through the additions of tools, failed writes and restarts.   *)
(* It goes only where an open took the file for absent, where lines were   *)
(* corrupted, and where the engine of another process wrote what it had.   *)
Remembered == kept[ByEngine] \subseteq file \cup lost

(* An execution that ended well has left its whole result and its output   *)
(* in the content store, and what was published was written before.        *)
WholeResult ==
  /\ (pc = "idle" /\ run \in done /\ output = "text" /\ strays = {})
       => /\ result = [of |-> run, whole |-> TRUE]
          /\ ctx.container \/ run \in cas
  /\ (run \in published /\ strays = {}) => result = [of |-> run, whole |-> TRUE]

(* "delete every global a stage script may have defined so nothing leaks   *)
(* into later stages" (vm.rs:134): a hook finds no global a script added.  *)
Isolated == seen = {}

(* Whatever the model answers, an execution ends.                          *)
Ends == []<>(pc \in {"idle", "dead"})

(* Not checked by a run, false: chunks a tool has stored stay (a later     *)
(* addition of the engine writes the chunks it has in memory).             *)
ToolsRemembered == kept[ByTool] \subseteq file

(* Not checked by a run, false: what the engine has reported as stored     *)
(* stays, whoever opens the file (store.rs:29) or adds to it.              *)
EngineRemembered == kept[ByEngine] \subseteq file

(* Not checked by a run, false: the snapshot is the stage as it was before *)
(* the execution (a tool may change it while it is copied).                *)
SnapshotIsBefore == snap # "mixed"

(* Not checked by a run, false: a hook finds the globals of a fresh VM     *)
(* (one that a script has changed is not set back).                        *)
GlobalsRestored == lua.changed \subseteq {run}

(* Not checked by a run, false: a result is not changed by a process of an *)
(* earlier execution.                                                      *)
ResultIsOwn == (pc = "idle" /\ run \in done /\ output = "text") => result.of = run

(* Not checked by a run, false: the actor outlives every answer.           *)
Alive == pc # "dead"
=============================================================================
