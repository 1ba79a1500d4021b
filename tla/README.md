# zerochain in TLA+

zerochain runs a workflow as a directory of stages. A stage is done when its
directory holds a `.complete` marker, failed when it holds `.error`, and its result
is `output/result.md`; a server, an MCP server and a command line tool work on the
same directories. Everything that makes this hard is on the disk: several processes
and tasks act on the same files, nothing is transactional, and any of them may be
killed between two file operations. These modules model the protocols on those files.

Line numbers below are of the files under `crates/` in the repository.

## 1. The system

| component | source | state it keeps | operations | what makes it hard | what makes it correct | module |
|---|---|---|---|---|---|---|
| stage lock | zerochain-fs/src/atomic.rs | a `.lock` file with a PID; a per-process count of guards | acquire_lock, release, Drop | two processes or two tasks between any two system calls; dead owners; reused PIDs | one holder, unless a lock in use is taken for stale; never wedged, unless the PID in the file stays with a live process that does not ask | StageLock |
| stage markers, output | zerochain-core/src/stage.rs, engine state.rs | `.complete`, `.error`, `output/` | mark_stage_complete, mark_stage_error, clean_output, refresh_markers | marks by several engines without the lock; a crash between two files | never both markers; output of one run only | WorkflowEngine |
| execution plan | zerochain-core/src/graph.rs, plan.rs | loop iterations, control outcomes | from_stages, next_stage, mark_complete, mark_error, record_control_outcome | groups, gates, errors; loops, and stages reached in two ways | a stage starts after the group before it; loops are bounded; a halt has a reason | StagePlan, LoopPlan |
| workflow engine, actor | zerochain-engine/src/state.rs, actor.rs; server handlers/stage.rs; daemon main.rs | the markers in memory; a mailbox | load, reload, refresh, run_stage, run_next_stage, approve, reject | the memory is stale as soon as another engine or another message has acted | plans from what is on disk; settles | WorkflowEngine |
| stage list, Lua hooks | zerochain-core/src/workflow.rs, lua_engine | the list of stages in memory, the directories | insert_stage_after, remove_stage, refresh_stage, Lua API | the list changes under a running stage; indices and numbers shift | the list is what is on disk; order kept; settles | StageList |
| workflow registry | zerochain-engine/src/registry.rs, actor.rs | handles of the actors | get_or_create, list_workflows, load_all | look-up, spawn and insert are separate critical sections; a load leaves out what it cannot read; locks held over awaits | one actor per workflow; an acknowledged workflow is not denied; every request answered | Registry |
| initialisation, templates | zerochain-engine/src/state.rs, zerochain-core/src/workflow.rs, template.rs, task.rs | the directory tree | init_workflow | a failed init removes what a second one may have begun; --force removes first | an acknowledged workflow stays whole until it is asked to be replaced | Registry |
| MCP server | zerochain-daemon/src/mcp.rs | a lock around the registry | tool calls | its lock is held over a whole call | answered | Registry |
| LLM driver, tool loop | zerochain-engine/src/llm_driver.rs, tool_driver.rs | the conversation | execute, execute_tool_call, store_output_in_cas | bounded tool rounds, errors in between, hooks, a snapshot beside it | calls and answers in pairs; the loop ends; a good run leaves all its results | ToolLoop |
| memory store | zerochain-memory/src/store.rs | `memory.jsonl` | add, search, persist | read, modify, rewrite by several handles; an open that misses the file | what the engine stored stays | ToolLoop |
| agent tools, providers, containers | zerochain-tools, zerochain-llm, container.rs | files of the stage, processes | run | timeouts, processes that outlive a call | | ToolLoop (outcomes) |
| contribution graph | zerochain-memory/src/graph_store.rs, graph.rs, record.rs | one file per record, named by its hash | publish, get, list, open | publishers in any process, fixed temporary names | acknowledged records stay; references are there first | ContributionStore |
| graph views, embeddings | zerochain-memory/src/graph_index.rs, graph_embed.rs; server handlers/graph.rs | the embedding cache | views, effective verdicts, default parent, query | clocks, orders of hashes, readers that leave records out, a cache rewritten whole | a default parent is as late as what was there; verdicts advance; a search is complete | GraphViews |
| snapshots | zerochain-engine/src/state.rs, zerochain-fs/src/cow.rs | `.snapshots/<stage>.<time>.<nonce>` | snapshot_stage, restore_stage, cleanup | copies in flight beside a run, no lock, restore removes first | newest kept, no torn result kept, restore loses nothing | Snapshots |
| content-addressed storage | zerochain-cas | files named by CID, or a bucket | put, get, get_stream, list, delete | concurrent puts, torn files, rot | what is acknowledged is there; a stream is verified | ContentStore |
| broker, subscriber, prompts | zerochain-broker, zerochain-server/src/subscriber.rs, handlers/prompt.rs | bounded channels | send, poll, handle_message | lag, lost messages, a write in place through a link | a prompt reaches the input of its stage and stays | PromptBridge |
| jj, OKF export, plugin, deployment | the other sources | external | | external commands, text | | |

How they interact. HTTP handlers and MCP tools get a handle from the registry and send
messages to the workflow's actor, which owns an `AppState` and handles one message at a
time, a whole run included. The command line tool builds an `AppState` of its own. A run
takes the stage lock, empties `output/`, starts a snapshot task beside the model call,
executes the tool calls of the model in rounds, waits for both, writes `result.md`, the
content store, the memory and a contribution, runs the on_complete hook, which may change
the stage list, writes a marker, reads the markers of its stage back and drops the lock.
Approve and reject write markers without the lock, in one message, and reload the
workflow in a second one. Prompts go through the content store and the broker to a
background subscriber, which writes them into the input directories of stages.

## 2. The modules

    StageMutex  <=refined by=  StageLock            MCStageLock       Stages_proofs
    StagePlan   <-EXTENDS-     WorkflowEngine       MCWorkflowEngine  WorkflowEngine_proofs
    ContributionDag  <=refined by=  ContributionStore  MCContributionStore  Publication_proofs
                               Snapshots            MCSnapshots       Snapshots_proofs
                               GraphViews           MCGraphViews      GraphViews_proofs
                               Registry             MCRegistry        Registry_proofs
                               StageList            MCStageList       Stages_proofs
                               LoopPlan             MCLoopPlan        Stages_proofs
                               ToolLoop             MCToolLoop        ToolLoop_proofs
                               ContentStore         MCContentStore    ContentStore_proofs
                               PromptBridge         MCPromptBridge    Publication_proofs

WorkflowEngine uses the stage lock as the abstract lock of StageMutex (one holder, and
the lock of a dead process is free); StageLock shows what the lock file gives and under
which condition. StageList is the same plan over a list that changes, LoopPlan over a
graph with loops; ToolLoop is what WorkflowEngine has as `ExecOk` and `ExecFails`;
GraphViews takes a publication as one step, which ContributionStore shows it to be as far
as readers are concerned. The definitions that begin with "Mutant:" in their comment are not part
of any specification: each is a changed form of the definition after it, kept to show
that the property it is meant for notices the change.

### StageLock

The file is absent, or has a creator and either its PID or nothing yet. `Create` and
`Recreate` are the two `open(O_CREAT|O_EXCL)`, `WriteContent` the write, `Register` the
return from `sync_all` with the registration, `ReadPid`, `Judge` and `RemoveFile` the
examination of an existing file, `Release` the guard's release or drop. Every await of
acquire_lock ends a step; the registry is behind a std mutex and so is one step.
`Crash` and `CallFails` are the faults. `Procs` are the PIDs of one PID namespace, because
the code has nothing else to tell processes apart by. A PID that a crash has freed comes
back as the same process (`Restart`), goes to one that has nothing to do with the stage
(`ReusePid`: it is in `strangers`, and whoever reads it in the file finds it alive), or
becomes free again (`FreePid`). `Askers` are the tasks that keep asking for the lock; the
others may stop whenever they like.

### StagePlan, WorkflowEngine

StagePlan has the plan as operators on a record of markers; the graphs are those of
`from_stages` on a directory (no loop nodes), in which every dependency is on the group
before. In WorkflowEngine each engine has a copy of the markers (`mem`), a place (`pc`)
and a job. `ReadAll`, `Read` and `ReadDone` are any load, reload or refresh, one marker
file at a time. `BeginRun` is the head of run_stage with the gate and the lock, `Clean`,
`ExecOk`, `ExecFails` the middle, and the `Write`, `Check`, `Unlink` family the marks,
with `tokio::fs` calls as steps. `Approve` and `Reject` are the handlers: the mark, then
`due`, then `Reload`.

Abstractions: the failure of writing `.control` is one of the ways a mark fails
(`MarkIoFails`); a load fills memory marker by marker instead of replacing it at the
end, which nobody can see because an engine that loads does nothing else; several
pending reloads are one; a hook that skips the stage is the second branch of `ExecOk`;
the stage list does not change (StageList has the hooks that insert and remove). A process that is down has lost its memory, and its locks count as stale.

### ContributionDag, ContributionStore

A record's file is absent, torn or full, and so is its temporary file. `fd` says where
an open file is now, because rename moves a file somebody may still be writing.
`Publish`, `CheckParent`, `CheckTarget`, `Look`, `Open`, `Fill`, `Rename` are publish
between its system calls; `OpenGraph` and `ReadFile` are the opening of a graph,
which leaves out a file it cannot read (`SkipFile`) and is an error when the directory
cannot be listed (`ListFails`). `Readable` is the parse and the comparison with the hash; it fails for a torn file and
for a body with CR LF, which the parser normalises before it computes the hash.

### Snapshots

A directory has two parts, the stage's files and `output/`, each gone, torn or whole;
a copy takes them one by one. A name is the stage, the second and the fraction of the
second; the clock may tick between the two readings (`Stamp`, `Nonce`). `Run` starts the
snapshot task beside the model call, whose writes are `Answer`; `Join` waits for both.
`List` and `Evict` are the cleanup, `Restore`, `Wipe`, `Refill`, `Fill` and `Restored`
restore_stage. `IoFails` and `Crash` are the faults.

Abstractions: the directory backend (a Btrfs snapshot is atomic and a subset of these
behaviours, the disabled backend makes nothing); listing a directory and removing one are
atomic, and so are the check that a target does not exist and its creation; the tools of a run are left out; a run keeps the stage lock to
its end even if a restore removed the `.lock` file (see the plan, RestoreLock). A tool
that edits the stage beside the copy is in ToolLoop.

### Registry

A client is one HTTP or MCP request: `Enter` (MCP's write lock), `Lookup`, `Exists`,
`Load`, `Insert` are get_or_create with its separate critical sections, `Send` the
bounded mailbox, `BeginList` to `EndList` list_workflows, which keeps the mutex.
Actors take messages with `Take` (`Get`, `Run`, `Reload`) and make workflows with the steps
`Check` to `Finish` of init_workflow and init_with_factories, ending in `Cleanup` when one fails;
a command line init makes the same steps in a process of its own. `Check` finds the
workflow there and refuses (`Refuse`), or with --force, which only the command line has,
removes it first (`Replace`, `Wipe`, `WipeFails`). A directory is the set
of its parts, memory is what from_dir saw of them. A load leaves out a workflow that it
cannot read just then (`Overlooked`), and the actor is registered without it (`skipped`);
the look-up of the directory, the whole load and a reload may fail as well (`ExistsFails`,
`LoadFails`, `ReloadFails`). A lost connection leaves an `Orphan` reply.

Abstractions: one template, reduced to its first stage and the one with a gate; a run
and its model call are one step of the actor; jj is a part of `Finish` that may fail.

### StageList

A stage is `<<number, letter>>`; `disk` has its marker, `mem` the sorted list with the
markers last read. `Exec` lets the hooks choose what to insert and remove; then come
the markers and the three parts of refresh_stage, `Prune`, `Arrivals` and the look-up of
the old index (`Refreshed`). `Reload` reads all. A marker may not get written
(`MarkCompleteFails`, `MarkErrorFails`), and a directory may be removed by somebody else
(`Removal`): the hooks of the run itself go through remove_stage, which takes the stage
out of the list with its directory, so that the index is right.

Stages_proofs extends this module, StageLock and LoopPlan, so that the common names have the prefix
`List` here (`ListInit`, `ListNext`, ...). `Sorted` and `Kept` place each element by
counting those in front of it, what `sort` and the loop of refresh_stage come to: the prover
cannot expand SortSeq and SelectSeq.

### LoopPlan

A graph is built node by node with any edges, the senseless ones included; `FromGraph` is
the plan from the directories. `NextNode`, `NodeState`, `Propagate`, `Recorded`, `Iterated`
are the plan's functions with their recursion through loops and bodies, `MarkNodeComplete`
and `MarkStageError` its functions for a caller that keeps the plan, as the tests do. The
engine does not: run_next_stage makes the plan anew before each run (state.rs:365). Here
the plan is made anew at any time and any number of times (`PlanAnew`), so that both
callers, and any mixture of them, are behaviours of the module. `Forgotten` says of which
loops the iterations are lost by it.

The visit of topological_order is described without its recursion: what is listed next is
the end of the way from the first node that is not listed along first dependencies that are
not (`OnTheWay`, `LeftNext`). MCLoopPlan has the recursion of the code (`Visit`), and an
assumption by which TLC compares the two on all graphs of up to three nodes. As
Stages_proofs extends this module too, its common names have the prefix `Plan`.

### ToolLoop

One actor executes stages of three contexts, step by step: the profile and the hooks,
the memory, the rounds with the model, the tools, the result, the content store, the
contribution, beside a snapshot that ends at any time. The conversation is a sequence of
messages with the numbers of their calls. `cache`, `file` and `kept` are the chunks in the
engine's MemoryStore, in `memory.jsonl` and reported as stored; a tool opens a handle of
its own. `OpenMemory` reads the file, or takes it for absent when it cannot tell
(`Overlook`); `Corrupt` makes lines unreadable, which an open leaves out, and `RivalAdds` is
the engine of another process, which writes what it has in memory. What such an event
endangers is in `lost`. `lua` holds the globals of the pooled VM by who set them.

### ContentStore

`Create`, `Fill`, `Rename` are the local put, `Head` and `Upload` S3's, `OpenStream` and
`Poll` the hashing reader (`Over` is a poll after its end), `ReadDir` and `Stat` a listing. Bytes may rot; a temporary file
is named by content, PID and counter. `Rename` may find the object there already.

### PromptBridge

`Store`, `Send` and `Enqueue` are the send handler, `Take`, `Pass`, `Receive` the channels of
either broker, `Fetch`, `OpenFile`, `FillFile` the subscriber. `RunStage` empties the output
a link may lead into. A prompt is `excused` when nobody listened, the subscriber fell
behind, failed or was stopped. Workflow names have one part here: the subscription does
not match the subject of a name with a dot (a finding). Its definitions have names of their
own (`BridgeInit`, `at`, `answered`), because Publication_proofs extends it together with ContributionStore.

### GraphViews

An id is any unused number, and a record has any time: each process reads a clock of its
own, which may be set back. Readers leave out a body with CR LF (`Readable`) and the files
whose read fails (`Looks`); `missed` and `skipped` record the latter. `Open`, `New`, `Build` and
`Publish` are a call that takes default parents (`ContributeNext`), queries take candidates from a view
(`View`, `EffectiveVerdicts`), embed what the cache lacks and rank. The cache is rewritten
whole and may lose lines, and a vector in it may be of a model of another dimension
(`OtherModel`): such a record is left out of the ranking (`Ranked`, `Misfits`).

## 3. The runs

One passing run for each component, with the kinds of failure of its module. Only
engine_alone leaves some out: the mark and the reload that fail are in engine_shared, and,
with what becomes of the workflow after them, in stage_list.

| run | question | bounds and why they are enough |
|---|---|---|
| lock_safety | Do mutual exclusion short of a robbery, the clean-up, the refinement of StageMutex and recovery, as long as somebody asks, hold? | Two tasks of one process and one of another: both ways a file can be judged (own PID, other PID) and both kinds of race exist; three faults allow a crash, a failed call and a crash of the successor. Only the other process's task keeps asking, and PIDs go to strangers. |
| engine_shared | Can runs, approvals and rejections of a stage by three engines leave both markers, or mix outputs? | One stage: markers of different stages do not interact. Three engines: two who undo each other and a third in between. One failure of a crash, a mark or a reload. |
| engine_alone | Does a lone server plan from the disk, run only pending stages, and always complete or stop at an error? | Four stages: a group of two, a gate, a last stage; three faults. |
| store_own_records | Are acknowledged records kept, seen by a graph opened later, and complete in their references? | Two publishers whose records refer to each other's, a verification of a verification, a record with CR LF in its body, one reader that leaves out what it cannot read; two faults. |
| snapshots | Are the newest snapshots kept, torn results left out, and stages not lost? | A server that runs and an MCP server that snapshots and restores, two stages, a limit of one snapshot in place of ten and two made, a clock of two ticks within a second, one fault. One over the limit is what the cleanup acts on. |
| registry | One actor per workflow, acknowledged workflows whole and never denied, every request answered? | Two requests and a command line init over one workflow, a mailbox of one message in place of 64: full and contended. The init is with --force or without. Three actors, so that a spawned one can lose. One fault, a load that leaves the workflow out among them. |
| stage_list | Is the list what is on disk, the order kept, and does the workflow settle while hooks insert and remove? | A pair of parallel stages and a gap before a third, so that an insertion can land in the gap, at a taken number and at the last one; an insertion and a removal by each run; any number of failed executions; one fault, a failed mark and a removal by somebody else among them. |
| loop_plan | Are loops bounded, halts for a reason, and ended loops ended for good? | Every graph of three nodes and two edges, limits of 0, 1, 2: a loop, its body and a neighbour that waits for either, loops around loops, missing nodes, cycles. The plan is made anew at any time, without a bound. |
| tool_loop | Are conversations well formed, memory and results kept, scripts isolated, and does an execution end? | Two executions: what one leaves for the next is one step. Three contexts; two calls and up to three requests with a limit of two rounds; one fault, an open that misses the file, corrupt lines and an engine of another process among them. |
| content_store | Is what is acknowledged there, a stream honest, a listing complete? | Two processes and two contents: an operation on the same and on another content; a stream of two reads, its end and polls after it; one fault in total, of any kind. Contents are alike, and so are processes (symmetry). |
| prompt_bridge | Do prompts arrive, stay, and never go back? | Three prompts over a broadcast channel of one and a forward of two: the first lags at the second. A subscriber and a poller, one fault. |
| graph_views | Does no default parent fall behind, is a search complete, do the verdicts advance? | Three records of an engine and of an agent's tools, in any order of ids, with two times in any order, insights with CR LF; two searches for results that share the cache (symmetry); one fault, a record whose read fails and a change of model among them. |

Constants that are alike are symmetric where no liveness is checked. Deadlock checking is
off in snapshots and tool_loop only, where the bound on snapshots or executions really
ends an execution. The bounds of a `Mutant:` are those of its run.

`TypeOK` states the types of each module. It is a theorem for StageLock, WorkflowEngine,
Snapshots, GraphViews and, as a part of StoreInv, ContributionStore; the other proofs need
only some of the types and state those. It held when it was added to the runs above.

### What is known not to hold

The findings in PROJECT.json quote the code and the words it contradicts. The
modules state them as properties that no run checks, because they are false, so that the
counterexample can be had by naming them in a configuration:

| property | constants | what TLC finds |
|---|---|---|
| StageLock!StealsOnlyLeftovers | MCStageLock, Procs <- OneProc, Tasks = {t1, t2}, Home <- HomeOne, MaxFaults = 0 | between create_lock_file and register_lock (atomic.rs:296-298) another task of the process takes the file for a leaked one |
| StageLock!AtMostOneHolder | Procs <- TwoProcs, Tasks = {t1, t3}, Home <- HomeTwo, MaxFaults = 0 | between the creation of the file and the write of its PID (263-266) any other process takes it for corrupt |
| WorkflowEngine!RunsOnlyPending | Engines = {server}, N = 2, SeqNo <- Chain2, Gates = {}, Commands = {"run_next", "mark"} | a run_next queued between an approval and its reload (handlers/stage.rs:212, 216) runs the approved stage again |
| WorkflowEngine!CrashLeavesPending | N = 1, SeqNo <- OneStage, Commands = {"run"}, Failing = {"crash"} | run_stage empties `output/` of a complete stage and leaves `.complete` (state.rs:311) |
| StageLock!AlwaysRecovers | as lock_safety | the PID of a killed process goes to one that stays and never asks (atomic.rs:321) |
| ContributionStore!AlwaysLatest | as store_own_records | a body with CR LF is acknowledged and never readable (record.rs:274); a file that cannot be read is left out with a warning |
| Snapshots!LaterSortsLater | Procs = {mcp}, Max = 2, MaxClock = 2 | the name combines two readings of the clock (state.rs:820-824) |
| Registry!GateHolds | Failing = {}, Tools = {} | the actor's memory is read before the gates are written (state.rs:592) |
| Registry!StaysThere | as registry | a load leaves a directory out with a warning and the actor is registered all the same (state.rs:227) |
| StageList!MarkIsRead | as stage_list | somebody else has removed the directory of a stage in front of the one that runs (Failing has "removal"), and the old index is that of another stage (workflow.rs:356); without such a removal it holds, because the run's own hooks take the entry out of the list first |
| ToolLoop!EngineRemembered | as tool_loop | an open that cannot tell whether the file is there takes it for absent (store.rs:29), and the next addition writes over it |
| ToolLoop!ToolsRemembered, SnapshotIsBefore, GlobalsRestored, ResultIsOwn, Alive | as tool_loop | the engine rewrites `memory.jsonl` from its own list; a tool edits the stage while it is copied; a changed built-in survives the reset; a process outlives its shell call; arguments that are no object panic |
| ContentStore!EndIsContent | as content_store | a reader that is polled again after a mismatch answers a clean end (backend.rs:42) |
| GraphViews!NoneLeftOut | as graph_views | a cached vector of another dimension is not made anew, and its record is in no search (graph_embed.rs:90) |
| GraphViews!NeverAParent | as graph_views | a verification is the default parent of the next result (graph_index.rs:165) |
| LoopPlan!NoneForgotten | as loop_plan | iterations are lost with the plan, which the engine makes anew before each run, and the body's marker is not cleared (state.rs:373): the loop ends early |

### Fairness

- StageLock: a call that has begun finishes, a holder releases (a stage run is bounded:
  the tool loop has a maximum and calls time out), and a refused caller asks again if it is
  one of the `Askers`. Nothing else is assumed: no process has to be started again, and a
  PID may stay with a stranger for ever.
- WorkflowEngine: a killed server starts again (the container runtime restarts it), file
  operations return, the model call returns, a reload waits in the actor's FIFO mailbox
  behind finitely many messages (strong fairness, because messages in between disable
  it), and users keep asking for the next stage and approve the gate the workflow waits
  at. Nothing is assumed about rejections, other runs or failures.
- Registry: tokio's locks and channels serve their waiters in turn (strong fairness for a
  request, whose turn others may take), and a runnable actor runs.
- PromptBridge: the tasks that can run do; nothing about senders, pollers or restarts.
- StageList: a run goes on, a killed server starts again, and somebody asks for the next
  stage.
- ToolLoop: every await of an execution is answered: requests and tools have timeouts.
- The other specifications are safety only.

## 4. What is proved

For every value of the constants, with no bound on processes, stages, records,
snapshots or faults:

| theorem | from | the inductive invariant |
|---|---|---|
| Stages_proofs: Typing, RegistryExact, MutualExclusion, FileGoes, LockRefinesMutex | finitely many tasks | LockInv: types, GuardsCounted, and OwnerHasFile: short of a robbery the file on disk belongs to every task that is writing, registering or holding, so there is one. MutexUnlessRobbed alone is not inductive: it does not say that a second O_EXCL fails. FileGoes needs Attended: without a failure, a lock file has a live task of its process to release it, even when a robbery has given the file to another. |
| Stages_proofs: ListFollowsDisk, StagesRunInOrder | nothing but StageList's assumption; both say nothing after a failed call, which may leave list and directory apart | Steady, while no call has failed: the list names each directory once and no other; it takes no stage for complete that is not, nor the one that runs (a stage that is complete may be pending in the list: `MarkIsRead`); and whatever has begun (`Begun`: it runs, or has a marker in memory or on disk) has only complete stages in front of it (`Ordered`). ListIsDisk is not inductive without the types of the list, RunsInOrder not without `Ordered`, which an insertion keeps because it goes directly behind the stage that runs, and which a stage that is run again after an error relies on. SortedIsList shows, without an induction, that `Sorted` lists a finite set: ranks are an injection into 0..n-1, hence a surjection. |
| Stages_proofs: LoopsAreBounded, HaltsAreExplained, EndsArePermanent | nothing but LoopPlan's assumption. The properties are about sound graphs (`Sound`: no missing node, no cycle, one loop around a body, none around a loop), in every plan, however often it is made anew | PlanInv: types; Built (a loop has its body in front of it); RunsStage (what runs is a stage); LoopKept, for each loop: its record is in the plan as in `.control`; the body of a loop with a record is complete on disk and in memory and does not run; the runs of its body are no more than the iterations counted, and one while it runs, and those no more than the limit; in a plan that was not made anew the body of a loop that has not ended is pending (in another it may be complete, and the loop `Forgotten`). Bounded alone does not relate runs to iterations. HaltsAreExplained takes, of the nodes that are not complete, one of the lowest rank: its dependencies are complete, so it is ready, since a loop that is open and was not forgotten has a pending body (WaitsOrForgotten); PostOrderListsAll shows that next_stage comes to it. |
| WorkflowEngine_proofs: EngineTyping, NoWedge, ResultOwned, MemoryIsCurrent, NothingRunsTwice | ResultOwned: clean_output does not fail. The last two: one engine, marks and reloads do not fail (`Lone`); NothingRunsTwice: users ask for the next stage and answer gates, and name no stage to run or mark | types and RunLocked (a run holds the lock of its stage from before clean_output until it has refreshed), with NotWedged and ResultIsMine, which are inductive relative to it. The steps are first regrouped by what they do (`Does`), so that the four marks are proved once. For a lone server LoneInv adds that memory is the disk except in the markers still to be read, the stage being marked, and a stage whose mark waits for its reload. Such a stage is a gate, which is never run: that is why NothingRunsTwice holds although the memory is stale. |
| Publication_proofs: Durable, FreshOnOpen, StoreRefinesDag | OneMaker: no two publishers publish the identical record | StoreInv: what a publisher has established at each place of publish (`Progress`): the references are stored, its own file is not there, the temporary file is whole when it is renamed; no file is torn; what is acknowledged is stored. FreshView rides along: a reader's remaining files, what it has read and what it could not read cover what was acknowledged when it began, CR LF bodies apart. |
| Publication_proofs: PromptsStay, PromptsInOrder | nothing but PromptBridge's assumption | PromptInv: types; InLine: what was written, is worked on, was forwarded, is held by the forwarding task and is in the channel follow each other in the order of publishing, so the queues are increasing and a prompt that joins is the last; InPlace: a written prompt is in its file, or the file is being filled again, a later one was written, or the stage in front has run. StaysInInput alone does not say that the file which is emptied belongs to a later prompt: that is the line's order. |
| Snapshots_proofs: SnapshotsTyping, NewestAlwaysKept, NoneIsTorn, NoStageIsLost | nothing | types with Named (a process at work has a name, and has put it on disk when it copies), and DoomedOld: whatever a process is about to delete has Max successors. It holds when the listing is taken (OldestHaveSuccessors, by counting) and for ever after, because names are only added to `made`, however old the listing is when it is used. SerialInv, for the last two: while one operation at a time is under way and none has failed, every snapshot but the one being copied is whole, every stage but the one being restored is there, and a restore at work has a whole source (`AtWork`, by place). |
| GraphViews_proofs: Typing, SearchIsComplete, VerdictsOnlyAdvance, DefaultsFollow | nothing but the module's assumption on its constants; the clocks say anything | GraphInv: types; Underway (what a call works on and the parents it has chosen, which are on disk); SearchUnderway (candidates are readable until they are embedded, and then have a vector or were skipped by the second listing). A vector that does not fit is what Misfits excuses. VerdictsOnlyAdvance is an action property: a record only joins the store, so what was held is either still held or beaten by something newer. DefaultsFollow needs Following: what a call has chosen as its parent is not older than anything readable that was there when it began and that its look did not miss, because a non-empty finite workflow has a latest record (SomeLatest). |
| ContentStore_proofs: Stored, StreamsAreHonest, ListingsComplete | nothing but the module's assumption | StoreInv: Numbered (a put under way has a number its process has given to no other, so its temporary file is its own) and Filled (what is about to be renamed is complete). AckedStored alone says nothing of the file a rename will move. ListInv: an object that was there all through a listing is found or still to be looked at. |
| Registry_proofs: NoSecondActor, AckedStays, NobodyIsDenied | finitely many names and requests, more actors than both | RegInv: Requests (a request has no actor before it has spawned or found one), the types of Messages, and Undisturbed: short of rivals, one worker makes a workflow, its directory is exactly what has been made so far (or is being removed), and an acknowledged workflow has no worker past the check: one with --force takes the acknowledgement away before it removes anything. SpareActor, by counting, shows that a spawn always finds an unused actor. NobodyIsDenied needs two more: Mailing (every message is with the registered actor, and a waiting request is owed exactly one answer, about its own workflow) and Knowing (an actor that is or will be registered for an acknowledged workflow has its stages in memory, or is `skipped`, because its load of a directory that AckedStays shows to be whole has left it out). |
| ToolLoop_proofs: EngineRemembers, HooksIsolated, ResultWhole, EveryCallAnswered | nothing but the module's assumption | four side by side. MemoryInv: what the engine reported is in the file or `lost`, and so it is in its memory once that is loaded, because the next addition rewrites the file from there. PoolInv: the pooled VM has no added global. ResultInv: from its writing on the result is this execution's, unless a process has outlived its call. TalkInv: what was asked is what was answered followed by the calls that are left, and each answer stands, or will stand, as far behind its message as the call is in it. |

OneMaker is what the shipped callers do: each stamps its records with its creation time.
TLC finds that two concurrent publishers of the same record can meet, one of them
getting an error for a record that is stored.

Induction over data is needed in a few places: that a finite set of records has a latest
one, what FlattenSeq of the community modules, a recursive function, makes of a sequence
with one more element, and that `PostOrder` and `NodeState`, recursive functions of
LoopPlan, are the functions their equations describe. The induction theorems of the library
take a predicate as a parameter, which the provers cannot instantiate; the proofs take a
smallest counterexample instead (WFMin over the naturals or over the subsets of a finite
set), which needs none, or name the function (that of NodeState, whose recursion ends at
the body). That `PostOrder` lists every node is a count: each place has a node that no
place before it has, so the places are an injection into the nodes, hence a surjection.

Every safety and action property of the runs is stated by a theorem. Only model-checked:
the liveness properties (NeverWedged, Settles, Answered, Arrives, Ends), which are beyond
the prover, and that `PostOrder` is the recursion of the code, on graphs of three nodes.

## 5. The plan

In the order in which they matter, after what is done above:

1. RestoreLock: Snapshots composed with StageLock. A restore removes `.lock` and brings
   an old one back; which lock promises survive, and what the actor's memory shows after.
2. ToolLoop as a refinement of WorkflowEngine's execution.

Not modelled, and why: OKF export, front matter and jj (text and external commands; the
export rewrites its directory from what it reads, without a lock), the encoding of
provider requests, external programs of containers and tools (their outcomes are choices),
similarity (floating point), authentication, health and subvolume handlers (no state),
the parsing of `output_link`, the Btrfs backend (a subset of the directory backend's
behaviours), the OpenCode plugin and the deployment files.
