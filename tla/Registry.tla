------------------------------ MODULE Registry ------------------------------
(***************************************************************************)
(* The registry of workflow actors (zerochain-engine registry.rs,          *)
(* actor.rs) and the making of a workflow (init_workflow in state.rs,      *)
(* init_with_factories in zerochain-core workflow.rs).                     *)
(*                                                                         *)
(* Clients are requests to a server: HTTP handlers share the registry,     *)
(* MCP tools take its write lock for a whole call.  A request finds or     *)
(* spawns the actor of its workflow and sends it a message.  Tools are     *)
(* `init` commands in processes of their own.  Both make workflows with    *)
(* the same steps, so actors and tools are the workers below.              *)
(*                                                                         *)
(* Every workflow is made from one built-in template, of which the first   *)
(* stage and one later stage are kept, the one with the human gate if any  *)
(* has one.  A directory is the set of the parts that are there; memory is *)
(* what from_dir saw of them.                                              *)
(***************************************************************************)
EXTENDS Naturals, Sequences, FiniteSets

CONSTANTS Names,      \* workflow names, none an alias of another
          Clients,    \* requests handled at a time
          Actors,     \* identities for spawned actors
          Tools,      \* command line invocations of init, one each
          Wants,      \* Wants[c]: what client c asks for
          Template,   \* the template they are made from
          Capacity,   \* length of a mailbox (64 in the code)
          Failing,    \* what may fail in this model
          MaxFaults,  \* bound on the failures
          None

Kinds == {"init", "get", "run", "reload", "list"}
Inits == {"init", "force"}  \* init --force only comes from the command line

(* The built-in templates: which of their stages have a human gate.        *)
Builtins ==
  [code_review |-> <<FALSE, FALSE, TRUE>>,
   research    |-> <<FALSE, FALSE, TRUE>>,
   research_v2 |-> <<FALSE, FALSE, FALSE, FALSE>>,
   implement   |-> <<FALSE, TRUE, FALSE, TRUE>>]

ASSUME RegistryOK ==
  /\ Template \in DOMAIN Builtins
  /\ Wants \in [Clients -> SUBSET Kinds]
  /\ Failing \subseteq {"io", "crash", "disconnect"}
  /\ Capacity \in Nat \ {0}
  /\ MaxFaults \in Nat
  /\ IsFiniteSet(Names) /\ IsFiniteSet(Clients) /\ IsFiniteSet(Actors)
  /\ Cardinality(Actors) >= Cardinality(Names) + Cardinality(Clients)
  /\ None \notin Names \cup Clients \cup Actors \cup Tools
  /\ Actors \cap Tools = {}

VARIABLES
  front,    \* "http" or "mcp": how the server's requests take the registry
  disk,     \* disk[n]: the parts of workflow n's directory
  handles,  \* handles[n]: the actor registered for n
  skipped,  \* actors whose load left out the workflow they were spawned for
  mu,       \* the request that keeps the mutex of `handles`
  pc,       \* pc[c]: where the request is
  ask,      \* ask[c]: what it wants
  has,      \* has[c]: the actor it talks to
  left,     \* left[c]: the workflows a listing has still to ask
  last,     \* the last answer, if it says "not found" or that a stage ran
  mem,      \* mem[a][n]: workflow n as actor a has it in memory
  box,      \* box[a]: the actor's mailbox
  at,       \* at[w]: where a worker is in the making of a workflow
  job,      \* job[w]: the message it works on
  view,     \* view[w]: what it read back
  acked,    \* workflows whose making was acknowledged, and by whom, and
            \* that nobody has asked to replace since
  rivals,   \* workflows that two workers have been making at once
  faults    \* failures so far

registry == <<handles, mu, skipped>>
request == <<pc, ask, has, left, last>>
making == <<at, job, view>>
vars == <<front, disk, registry, request, mem, box, making, acked, rivals, faults>>

Workers == Actors \cup Tools
Parts == {"root", "s1", "s2", "link", "gate"}
Visible == {"s1", "s2", "gate"}
TheGate == IF \E i \in DOMAIN Builtins[Template] : Builtins[Template][i] THEN {"gate"} ELSE {}
NoAnswer == [name |-> None, what |-> "none"]
NoAsk == [kind |-> "none", name |-> None]
Message == [kind : Kinds \cup Inits, name : Names, from : Clients \cup {None}]
NoJob == [kind |-> "none", name |-> None, from |-> None]
Making == {"check", "wipe", "root", "first", "second", "context", "gate", "cleanup"}

(* Workflow::from_dir: the stage directories and the gates in their        *)
(* contexts; without a stage the directory is not a workflow.              *)
FromDir(d) == IF d \cap {"s1", "s2"} = {} THEN {} ELSE d \cap Visible

Readable == {n \in Names : FromDir(disk[n]) # {}}

(* What load_workflows may leave out with a warning: any of the workflows  *)
(* that it could not read just then.                                       *)
Overlooked == IF "io" \in Failing THEN SUBSET Readable ELSE {{}}

Loaded(lost) == [n \in Names |-> IF n \in lost THEN {} ELSE FromDir(disk[n])]

Fault(what) == what \in Failing /\ faults < MaxFaults /\ faults' = faults + 1

Init ==
  /\ front \in {"http", "mcp"}
  /\ disk = [n \in Names |-> {}]
  /\ handles = [n \in Names |-> None]
  /\ skipped = {}
  /\ mu = None
  /\ pc = [c \in Clients |-> "idle"]
  /\ ask = [c \in Clients |-> NoAsk]
  /\ has = [c \in Clients |-> None]
  /\ left = [c \in Clients |-> {}]
  /\ last = NoAnswer
  /\ mem = [a \in Actors |-> [n \in Names |-> {}]]
  /\ box = [a \in Actors |-> <<>>]
  /\ at = [w \in Workers |-> "idle"]
  /\ job = [w \in Workers |-> NoJob]
  /\ view = [w \in Workers |-> {}]
  /\ acked = {}
  /\ rivals = {}
  /\ faults = 0

-----------------------------------------------------------------------------
(* A request of the server.                                                *)
Goto(c, to) == pc' = [pc EXCEPT ![c] = to]

Leave(c, what) ==
  /\ Goto(c, "idle")
  /\ ask' = [ask EXCEPT ![c] = NoAsk]
  /\ has' = [has EXCEPT ![c] = None]
  /\ left' = [left EXCEPT ![c] = {}]
  /\ last' = IF what \in {"not_found", "ran"}
             THEN [name |-> ask[c].name, what |-> what] ELSE NoAnswer

Ask(c) ==
  /\ pc[c] = "idle"
  /\ \E k \in Wants[c], n \in Names : ask' = [ask EXCEPT ![c] = [kind |-> k, name |-> n]]
  /\ Goto(c, IF front = "http" THEN "lookup" ELSE "enter")
  /\ last' = NoAnswer
  /\ UNCHANGED <<front, disk, registry, has, left, mem, box, making, acked, rivals, faults>>

(* HTTP handlers read the server's RwLock, which nobody writes; MCP tools  *)
(* write it for the whole call, except those that list.                    *)
Inside == {c \in Clients : pc[c] \notin {"idle", "enter"}}

Enter(c) ==
  /\ pc[c] = "enter"
  /\ \A d \in Inside : ask[c].kind = "list" /\ ask[d].kind = "list"
  /\ Goto(c, "lookup")
  /\ UNCHANGED <<front, disk, registry, ask, has, left, last, mem, box, making, acked, rivals, faults>>

(* The first look-up; only an init may spawn an actor for a workflow that  *)
(* does not exist.                                                         *)
Lookup(c) ==
  LET n == ask[c].name IN
  /\ pc[c] = "lookup" /\ ask[c].kind # "list"
  /\ mu = None
  /\ has' = [has EXCEPT ![c] = handles[n]]
  /\ Goto(c, CASE handles[n] # None -> "send"
               [] handles[n] = None /\ ask[c].kind = "init" -> "load"
               [] OTHER -> "exists")
  /\ UNCHANGED <<front, disk, registry, ask, left, last, mem, box, making, acked, rivals, faults>>

(* Mutant: a request for a workflow that is not there looks again.         *)
ExistsRetries(c) ==
  /\ pc[c] = "exists"
  /\ Goto(c, IF "root" \in disk[ask[c].name] THEN "load" ELSE "lookup")
  /\ UNCHANGED <<front, disk, registry, ask, has, left, last, mem, box, making, acked, rivals, faults>>

Exists(c) ==
  /\ pc[c] = "exists"
  /\ IF "root" \in disk[ask[c].name]
     THEN Goto(c, "load") /\ UNCHANGED <<ask, has, left, last>>
     ELSE Leave(c, "not_found")
  /\ UNCHANGED <<front, disk, registry, mem, box, making, acked, rivals, faults>>

(* A stat that fails says the same (registry.rs:56-62).                    *)
ExistsFails(c) ==
  /\ pc[c] = "exists"
  /\ Fault("io")
  /\ Leave(c, "not_found")
  /\ UNCHANGED <<front, disk, registry, mem, box, making, acked, rivals>>

Unused(a) == (\A n \in Names : handles[n] # a) /\ (\A c \in Clients : has[c] # a)

(* AppState::new, load_workflows (of every workflow) and spawn, with no    *)
(* lock held; an actor whose load left its own workflow out is spawned all *)
(* the same.  Such a load counts as a failure.                             *)
Load(c) ==
  /\ pc[c] = "load"
  /\ \E lost \in Overlooked :
       LET a == CHOOSE b \in Actors : Unused(b) IN
       /\ has' = [has EXCEPT ![c] = a]
       /\ mem' = [mem EXCEPT ![a] = Loaded(lost)]
       /\ skipped' = IF ask[c].name \in lost THEN skipped \cup {a} ELSE skipped \ {a}
       /\ IF lost = {} THEN UNCHANGED faults ELSE Fault("io")
  /\ Goto(c, "insert")
  /\ UNCHANGED <<front, disk, handles, mu, ask, left, last, box, making, acked, rivals>>

(* The directory of the workflows cannot be listed.                        *)
LoadFails(c) ==
  /\ pc[c] = "load"
  /\ Fault("io")
  /\ Leave(c, "error")
  /\ UNCHANGED <<front, disk, registry, mem, box, making, acked, rivals>>

(* The actor that c has spawned and not registered ends.                   *)
Drop(c) ==
  IF pc[c] = "insert"
  THEN mem' = [mem EXCEPT ![has[c]] = [n \in Names |-> {}]]
  ELSE UNCHANGED mem

(* Mutant: the second look-up is left out.                                 *)
InsertBlindly(c) ==
  /\ pc[c] = "insert"
  /\ mu = None
  /\ handles' = [handles EXCEPT ![ask[c].name] = has[c]]
  /\ Goto(c, "send")
  /\ UNCHANGED <<front, disk, mu, skipped, ask, has, left, last, mem, box, making, acked, rivals, faults>>

(* The second look-up: who comes later drops the actor it has spawned.     *)
Insert(c) ==
  LET n == ask[c].name IN
  /\ pc[c] = "insert"
  /\ mu = None
  /\ IF handles[n] # None
     THEN has' = [has EXCEPT ![c] = handles[n]] /\ Drop(c) /\ UNCHANGED handles
     ELSE handles' = [handles EXCEPT ![n] = has[c]] /\ UNCHANGED <<has, mem>>
  /\ Goto(c, "send")
  /\ UNCHANGED <<front, disk, mu, skipped, ask, left, last, box, making, acked, rivals, faults>>

Post(a, m) == box' = [box EXCEPT ![a] = Append(@, m)]

Send(c) ==
  /\ pc[c] = "send"
  /\ Len(box[has[c]]) < Capacity
  /\ Post(has[c], [kind |-> ask[c].kind, name |-> ask[c].name, from |-> c])
  /\ Goto(c, "wait")
  /\ UNCHANGED <<front, disk, registry, ask, has, left, last, mem, making, acked, rivals, faults>>

(* list_workflows keeps the mutex until every actor has answered.          *)
BeginList(c) ==
  /\ pc[c] = "lookup" /\ ask[c].kind = "list"
  /\ mu = None
  /\ mu' = c
  /\ left' = [left EXCEPT ![c] = {n \in Names : handles[n] # None}]
  /\ Goto(c, "list")
  /\ UNCHANGED <<front, disk, handles, skipped, ask, has, last, mem, box, making, acked, rivals, faults>>

ListSend(c) ==
  /\ pc[c] = "list"
  /\ \E n \in left[c] :
       /\ Len(box[handles[n]]) < Capacity
       /\ Post(handles[n], [kind |-> "get", name |-> n, from |-> c])
       /\ left' = [left EXCEPT ![c] = @ \ {n}]
  /\ Goto(c, "listing")
  /\ UNCHANGED <<front, disk, registry, ask, has, last, mem, making, acked, rivals, faults>>

EndList(c) ==
  /\ pc[c] = "list" /\ left[c] = {}
  /\ mu' = None
  /\ Leave(c, "ok")
  /\ UNCHANGED <<front, disk, handles, skipped, mem, box, making, acked, rivals, faults>>

(* The client goes away: its handler is dropped with what it holds, its    *)
(* message stays with the actor.                                           *)
Orphan(m, c) == IF m.from = c THEN [m EXCEPT !.from = None] ELSE m

Disconnect(c) ==
  /\ pc[c] # "idle"
  /\ Fault("disconnect")
  /\ Leave(c, "gone")
  /\ Drop(c)
  /\ mu' = IF mu = c THEN None ELSE mu
  /\ box' = [a \in Actors |-> [i \in DOMAIN box[a] |-> Orphan(box[a][i], c)]]
  /\ job' = [w \in Workers |-> Orphan(job[w], c)]
  /\ UNCHANGED <<front, disk, handles, skipped, at, view, acked, rivals>>

-----------------------------------------------------------------------------
(* An actor takes its messages one at a time.                              *)
Reply(m, what) ==
  CASE m.from = None -> UNCHANGED request
    [] m.from # None /\ pc[m.from] = "listing" ->
         Goto(m.from, "list") /\ UNCHANGED <<ask, has, left, last>>
    [] OTHER -> Leave(m.from, what)

Take(a, kinds) ==
  /\ at[a] = "idle"
  /\ box[a] # <<>>
  /\ Head(box[a]).kind \in kinds
  /\ box' = [box EXCEPT ![a] = Tail(@)]

Get(a) ==
  /\ Take(a, {"get"})
  /\ LET m == Head(box[a]) IN
       Reply(m, IF mem[a][m.name] = {} THEN "not_found" ELSE "ok")
  /\ UNCHANGED <<front, disk, registry, mem, making, acked, rivals, faults>>

(* run_stage of the second stage: a gate refuses.  The handler asks for    *)
(* the workflow first, in a message of its own that changes nothing, and   *)
(* so do read_stage_file and the other questions about a stage.            *)
Run(a) ==
  /\ Take(a, {"run"})
  /\ LET m == Head(box[a]) IN
       Reply(m, CASE "s2" \notin mem[a][m.name] -> "not_found"
                  [] {"s2", "gate"} \subseteq mem[a][m.name] -> "gated"
                  [] OTHER -> "ran")
  /\ UNCHANGED <<front, disk, registry, mem, making, acked, rivals, faults>>

(* reload_workflow, after an approval or a rejection.                      *)
Reload(a) ==
  /\ Take(a, {"reload"})
  /\ LET m == Head(box[a])
         seen == FromDir(disk[m.name]) IN
       IF mem[a][m.name] = {} \/ seen = {}
       THEN Reply(m, "not_found") /\ UNCHANGED mem
       ELSE Reply(m, "ok") /\ mem' = [mem EXCEPT ![a][m.name] = seen]
  /\ UNCHANGED <<front, disk, registry, making, acked, rivals, faults>>

(* The workflow cannot be read: memory keeps what it has.                  *)
ReloadFails(a) ==
  /\ Take(a, {"reload"})
  /\ mem[a][Head(box[a]).name] # {}
  /\ Fault("io")
  /\ Reply(Head(box[a]), "error")
  /\ UNCHANGED <<front, disk, registry, mem, making, acked, rivals>>

TakeInit(a) ==
  /\ Take(a, {"init"})
  /\ job' = [job EXCEPT ![a] = Head(box[a])]
  /\ at' = [at EXCEPT ![a] = "check"]
  /\ UNCHANGED <<front, disk, registry, request, mem, view, acked, rivals, faults>>

(* A command line init in a process of its own.                            *)
Invoke(x) ==
  /\ at[x] = "idle"
  /\ \E k \in Inits, n \in Names :
       job' = [job EXCEPT ![x] = [kind |-> k, name |-> n, from |-> None]]
  /\ at' = [at EXCEPT ![x] = "check"]
  /\ UNCHANGED <<front, disk, registry, request, mem, box, view, acked, rivals, faults>>

-----------------------------------------------------------------------------
(* init_workflow.                                                          *)
Go(w, to) == at' = [at EXCEPT ![w] = to]
Side(w) == IF w \in Actors THEN "server" ELSE "tool"
Dir(w) == disk[job[w].name]
Put(w, d) == disk' = [disk EXCEPT ![job[w].name] = d]

End(w, what) ==
  /\ Go(w, IF w \in Actors THEN "idle" ELSE "over")
  /\ job' = [job EXCEPT ![w] = NoJob]
  /\ view' = [view EXCEPT ![w] = {}]
  /\ Reply(job[w], what)

(* From here on two inits of a name are in each other's way.               *)
Meet(w) ==
  rivals' = rivals \cup
    {n \in {job[w].name} : \E v \in Workers \ {w} :
                              at[v] \notin {"idle", "check", "over"} /\ job[v].name = n}

(* Mutant: a directory that exists is no reason to refuse.                 *)
CheckNothing(w) ==
  /\ at[w] = "check"
  /\ Meet(w)
  /\ Go(w, "root")
  /\ UNCHANGED <<front, disk, registry, request, mem, box, job, view, acked, faults>>

Check(w) ==
  /\ at[w] = "check"
  /\ "root" \notin Dir(w)
  /\ Meet(w)
  /\ Go(w, "root")
  /\ UNCHANGED <<front, disk, registry, request, mem, box, job, view, acked, faults>>

(* A directory of that name is a workflow that exists.                     *)
Refuse(w) ==
  /\ at[w] = "check"
  /\ "root" \in Dir(w) /\ job[w].kind # "force"
  /\ End(w, "exists")
  /\ UNCHANGED <<front, disk, registry, mem, box, acked, rivals, faults>>

(* With --force it is one to replace, and no longer promised to anybody.   *)
Replace(w) ==
  /\ at[w] = "check"
  /\ "root" \in Dir(w) /\ job[w].kind = "force"
  /\ Meet(w)
  /\ acked' = {k \in acked : k[1] # job[w].name}
  /\ Go(w, "wipe")
  /\ UNCHANGED <<front, disk, registry, request, mem, box, job, view, faults>>

(* remove_dir_all, which fails when somebody else has removed it.          *)
Wipe(w) ==
  /\ at[w] = "wipe"
  /\ IF Dir(w) = {}
     THEN End(w, "error") /\ UNCHANGED disk
     ELSE /\ Put(w, {})
          /\ Go(w, "root")
          /\ UNCHANGED <<request, job, view>>
  /\ UNCHANGED <<front, registry, mem, box, acked, rivals, faults>>

WipeFails(w) ==
  /\ at[w] = "wipe"
  /\ Fault("io")
  /\ \E d \in SUBSET Dir(w) : "root" \in d /\ Put(w, d)
  /\ End(w, "error")
  /\ UNCHANGED <<front, registry, mem, box, acked, rivals>>

(* create_dir_all of the root and of the stage directories.                *)
MakeDir(w, here, new, next) ==
  /\ at[w] = here
  /\ Put(w, Dir(w) \cup {"root"} \cup new)
  /\ Go(w, next)
  /\ UNCHANGED <<front, registry, request, mem, box, job, view, acked, rivals, faults>>

MakeRoot(w) == MakeDir(w, "root", {}, "first")
MakeFirst(w) == MakeDir(w, "first", {"s1"}, "second")

(* The second stage: its input is a link, which must not be there.         *)
MakeSecond(w) ==
  /\ at[w] = "second"
  /\ Put(w, Dir(w) \cup {"root", "s2", "link"})
  /\ Go(w, IF "link" \in Dir(w) THEN "cleanup" ELSE "context")
  /\ UNCHANGED <<front, registry, request, mem, box, job, view, acked, rivals, faults>>

(* A plain CONTEXT.md is written over what is there, and the workflow is   *)
(* read back.                                                              *)
Context(w) ==
  /\ at[w] = "context"
  /\ IF "s2" \in Dir(w)
     THEN /\ Put(w, Dir(w) \ {"gate"})
          /\ view' = [view EXCEPT ![w] = FromDir(Dir(w) \ {"gate"})]
          /\ Go(w, "gate")
     ELSE Go(w, "cleanup") /\ UNCHANGED <<disk, view>>
  /\ UNCHANGED <<front, registry, request, mem, box, job, acked, rivals, faults>>

Finish(w) ==
  /\ End(w, "ok")
  /\ acked' = IF w \in Tools \/ job[w].from # None
              THEN acked \cup {<<job[w].name, Side(w)>>} ELSE acked

(* Mutant: the workflow is not put in memory.                              *)
GateOnDisk(w) ==
  /\ at[w] = "gate"
  /\ IF "s2" \in Dir(w)
     THEN Put(w, Dir(w) \cup TheGate) /\ Finish(w)
     ELSE End(w, "error") /\ UNCHANGED <<disk, acked>>
  /\ UNCHANGED <<front, registry, mem, box, rivals, faults>>

(* The contexts of the template are written after the workflow was read,   *)
(* and it goes into memory as it was read.  Publishing the setup record    *)
(* and committing cannot fail the init.                                    *)
Gate(w) ==
  /\ at[w] = "gate"
  /\ IF "s2" \in Dir(w)
     THEN /\ Put(w, Dir(w) \cup TheGate)
          /\ mem' = IF w \in Actors
                    THEN [mem EXCEPT ![w][job[w].name] = view[w]] ELSE mem
          /\ Finish(w)
     ELSE End(w, "error") /\ UNCHANGED <<disk, mem, acked>>
  /\ UNCHANGED <<front, registry, box, rivals, faults>>

(* A failed init removes the directory.                                    *)
Cleanup(w) ==
  /\ at[w] = "cleanup"
  /\ Put(w, {})
  /\ End(w, "error")
  /\ UNCHANGED <<front, registry, mem, box, acked, rivals, faults>>

(* A file operation fails, or a stage's name is refused.  After the        *)
(* workflow was read nothing is removed any more, and a removal that fails *)
(* is only logged.                                                         *)
InitFails(w) ==
  /\ at[w] \in Making \ {"wipe"}
  /\ Fault("io")
  /\ IF at[w] \in {"check", "gate", "cleanup"}
     THEN End(w, "error")
     ELSE Go(w, "cleanup") /\ UNCHANGED <<request, job, view>>
  /\ UNCHANGED <<front, disk, registry, mem, box, acked, rivals>>

(* The server dies and starts again: load_all lists the workflows it can   *)
(* load, and spawns for each an actor with a load of its own, before the   *)
(* first request.  What the one leaves out has no actor, what the other    *)
(* leaves out has an actor without it.                                     *)
Restart ==
  /\ Fault("crash")
  /\ \E unlisted, lost \in Overlooked :
       LET there == Readable \ unlisted
           f == CHOOSE g \in [there -> Actors] : \A n, o \in there : g[n] = g[o] => n = o
       IN
         /\ handles' = [n \in Names |-> IF n \in there THEN f[n] ELSE None]
         /\ mem' = [a \in Actors |->
                     IF \E n \in there : f[n] = a
                     THEN Loaded({n \in there \cap lost : f[n] = a})
                     ELSE [n \in Names |-> {}]]
         /\ skipped' = {f[n] : n \in there \cap lost}
  /\ mu' = None
  /\ pc' = [c \in Clients |-> "idle"]
  /\ ask' = [c \in Clients |-> NoAsk]
  /\ has' = [c \in Clients |-> None]
  /\ left' = [c \in Clients |-> {}]
  /\ last' = NoAnswer
  /\ box' = [a \in Actors |-> <<>>]
  /\ at' = [w \in Workers |-> IF w \in Actors THEN "idle" ELSE at[w]]
  /\ job' = [w \in Workers |-> IF w \in Actors THEN NoJob ELSE job[w]]
  /\ view' = [w \in Workers |-> IF w \in Actors THEN {} ELSE view[w]]
  /\ UNCHANGED <<front, disk, acked, rivals>>

-----------------------------------------------------------------------------
Serve(c) ==
  \/ Enter(c) \/ Lookup(c) \/ Exists(c) \/ Load(c) \/ Insert(c) \/ Send(c)
  \/ BeginList(c) \/ ListSend(c) \/ EndList(c)

Make(w) ==
  \/ Check(w) \/ Refuse(w) \/ Replace(w) \/ Wipe(w) \/ MakeRoot(w) \/ MakeFirst(w) \/ MakeSecond(w)
  \/ Context(w) \/ Gate(w) \/ Cleanup(w)

Act(a) == Get(a) \/ Run(a) \/ Reload(a) \/ TakeInit(a)

Work(w) == Make(w) \/ (w \in Actors /\ Act(w))

Next ==
  \/ \E c \in Clients : Ask(c) \/ Serve(c) \/ Disconnect(c) \/ ExistsFails(c) \/ LoadFails(c)
  \/ \E w \in Workers : Work(w) \/ InitFails(w) \/ WipeFails(w)
  \/ \E a \in Actors : ReloadFails(a)
  \/ \E x \in Tools : Invoke(x)
  \/ Restart

Spec == Init /\ [][Next]_vars

(* Tokio's locks and channels serve their waiters in turn, and a runnable  *)
(* task runs.                                                              *)
Fairness ==
  /\ \A c \in Clients : SF_vars(Serve(c))
  /\ \A a \in Actors : WF_vars(Work(a))

FairSpec == Spec /\ Fairness

-----------------------------------------------------------------------------
(* Every variable has its type; a mailbox keeps to its bound.              *)
TypeOK ==
  /\ front \in {"http", "mcp"}
  /\ disk \in [Names -> SUBSET Parts]
  /\ handles \in [Names -> Actors \cup {None}]
  /\ skipped \subseteq Actors
  /\ mu \in Clients \cup {None}
  /\ pc \in [Clients -> {"idle", "enter", "lookup", "exists", "load", "insert",
                         "send", "wait", "list", "listing"}]
  /\ ask \in [Clients -> [kind : Kinds, name : Names] \cup {NoAsk}]
  /\ has \in [Clients -> Actors \cup {None}]
  /\ left \in [Clients -> SUBSET Names]
  /\ mem \in [Actors -> [Names -> SUBSET Visible]]
  /\ \A a \in Actors : Len(box[a]) <= Capacity /\ box[a] \in Seq(Message)
  /\ at \in [Workers -> Making \cup {"idle", "over"}]
  /\ job \in [Workers -> Message \cup {NoJob}]
  /\ view \in [Workers -> SUBSET Visible]
  /\ acked \subseteq Names \X {"server", "tool"}
  /\ rivals \subseteq Names
  /\ faults \in 0..MaxFaults

(* "Concurrent requests for the same workflow cannot spawn duplicate       *)
(* actors" (registry.rs:33): two may be spawned, but no two requests for a *)
(* workflow are ever given different ones to talk to.                      *)
OneActor ==
  \A c \in Clients :
    pc[c] \in {"send", "wait"} => has[c] # None /\ has[c] = handles[ask[c].name]

(* A workflow whose making was acknowledged keeps every part, whatever     *)
(* later inits of the name do, until somebody asks to replace it (init     *)
(* --force): a failed init removes the directory, and must not remove one  *)
(* that another init has made.  Only inits that were under way at once,    *)
(* which nothing keeps two processes from, are in each other's way.        *)
AckedKept ==
  \A n \in Names \ rivals :
    (\E s \in {"server", "tool"} : <<n, s>> \in acked)
      => disk[n] = (Parts \ {"gate"}) \cup TheGate

(* Once a server has acknowledged the making of a workflow, it tells       *)
(* nobody that it is not there, after restarts either; excepted are the    *)
(* answer to a stat that fails, and an actor whose load left the workflow  *)
(* out (until the next restart, see StaysThere).                           *)
NeverDenied ==
  [][(/\ last' # last /\ faults' = faults
      /\ <<last'.name, "server">> \in acked /\ last'.name \notin rivals
      /\ handles[last'.name] \notin skipped)
       => last'.what # "not_found"]_vars

(* Not checked by a run, false: the same for every actor.  load_workflows  *)
(* leaves out a directory that it cannot read just then with a warning     *)
(* (state.rs:222-229), and the actor is registered without it for good.    *)
StaysThere ==
  [][(/\ last' # last /\ faults' = faults
      /\ <<last'.name, "server">> \in acked /\ last'.name \notin rivals)
       => last'.what # "not_found"]_vars

(* Every request is answered (or its connection lost with the server):     *)
(* listings that keep the mutex, full mailboxes and MCP's write lock never *)
(* wait for each other in a circle.                                        *)
Answered == \A c \in Clients : pc[c] # "idle" ~> pc[c] = "idle"

(* Not checked by a run, false even for one request at a time and no       *)
(* failure: "Stage ... is waiting at a human gate; use approve or reject"  *)
(* (state.rs:302), a stage whose CONTEXT.md on disk has a gate is not run  *)
(* (the first read of a new workflow comes before its gates are written).  *)
GateHolds ==
  [][(last' # last /\ last'.what = "ran") => "gate" \notin disk[last'.name]]_vars
=============================================================================
