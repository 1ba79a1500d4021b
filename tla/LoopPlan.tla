------------------------------ MODULE LoopPlan -------------------------------
(***************************************************************************)
(* Workflow graphs with loops (zerochain-core graph.rs and plan.rs): a     *)
(* graph is built node by node, a plan is made of it and of what the stage *)
(* directories hold, and a caller runs what the plan says is next until    *)
(* nothing is left.  The plan counts iterations in memory.  A caller may   *)
(* keep it, as the tests of the library do, or make it anew of the         *)
(* directories: the engine does so before every run (state.rs:365), and a  *)
(* process that starts again must.                                         *)
(*                                                                         *)
(* Plans without loops and without edges of their own are StagePlan.  The  *)
(* groups of a plan are left out: next_stage does not look at them.        *)
(***************************************************************************)
EXTENDS Naturals, Sequences, FiniteSets, SequencesExt

CONSTANTS MaxNodes,     \* bound on the nodes of a graph
          MaxEdges,     \* bound on the calls of add_dependency
          Limits        \* the values of max_iterations

ASSUME LoopsOK ==
  /\ {MaxNodes, MaxEdges} \subseteq Nat
  /\ Limits \subseteq Nat

VARIABLES
  nodes,      \* the graph: its nodes in the order of their ids
  own,        \* own[n]: what the plan holds of the stage of node n
  iterations, \* iterations[n]: loop_iterations, of a loop
  outcome,    \* outcome[n]: loop_outcome, of a loop
  mark,       \* mark[n]: the marker in the directory of node n
  control,    \* control[n]: the record in its .control file
  phase,      \* what the caller does
  running,    \* the node whose stage runs
  said,       \* the control record in the result of that run
  ran,        \* auxiliary: ran[n]: runs of n since the plan was made
  made        \* the plan is the "first" one, or was made "anew"

graph == <<nodes>>
plan == <<own, iterations, outcome>>
directories == <<mark, control>>
planVars == <<nodes, own, iterations, outcome, mark, control, phase, running,
              said, ran, made>>

Records == {"return", "escalate", "fail", "await"}
None == 0
Nodes == DOMAIN nodes
IsLoop(n) == nodes[n].kind = "loop"
LoopsOf(n) == {l \in Nodes : IsLoop(l) /\ nodes[l].body = n}

(* The loop that counts for a body is the first one around it.             *)
Encloses(l, n) == LoopsOf(n) # {} /\ l = Min(LoopsOf(n))

-----------------------------------------------------------------------------
(* topological_order visits the nodes by id, the dependencies of each      *)
(* before it, and lists a node when it leaves it.  With a cycle its        *)
(* callers fall back on the order of the ids.  D has the dependencies.     *)
Acyclic(D) ==
  \E rank \in [DOMAIN D -> DOMAIN D] : \A n \in DOMAIN D :
    \A d \in ToSet(D[n]) \cap DOMAIN D : rank[d] < rank[n]

Visited(D) == DOMAIN D \cup UNION {ToSet(D[n]) : n \in DOMAIN D}

Undone(D, n, done) ==
  {i \in IF n \in DOMAIN D THEN DOMAIN D[n] ELSE {} : D[n][i] \notin done}
Deeper(D, n, done) == D[n][Min(Undone(D, n, done))]

(* With the nodes `done` listed, the visit is at the first that is not,    *)
(* and goes from each to its first dependency that is not.                 *)
OnTheWay(D, done) ==
  {n \in Visited(D) : \A W \in SUBSET Visited(D) :
     (/\ Min(DOMAIN D \ done) \in W
      /\ \A m \in W : Undone(D, m, done) # {} => Deeper(D, m, done) \in W)
     => n \in W}

LeftNext(D, done) == CHOOSE n \in OnTheWay(D, done) : Undone(D, n, done) = {}

PostOrder(D) ==
  LET left[i \in 1..Cardinality(Visited(D))] ==
        LeftNext(D, {left[j] : j \in 1..(i - 1)})
  IN left

Dependencies == [n \in Nodes |-> nodes[n].deps]
TopologicalOrder ==
  IF Acyclic(Dependencies) THEN PostOrder(Dependencies)
  ELSE [n \in Nodes |-> n]

(* What has become of a loop, "open" while it is neither ended by a record *)
(* nor exhausted.                                                          *)
Verdict(l) ==
  CASE outcome[l] \in {"return", "escalate"} -> "complete"
    [] outcome[l] = "fail" -> "error"
    [] outcome[l] = "await" -> "open"
    [] outcome[l] = "none" ->
         IF iterations[l] < nodes[l].limit THEN "open"
         ELSE IF nodes[l].succeed THEN "complete" ELSE "error"

EnclosingState(n) ==
  IF LoopsOf(n) = {} THEN "open" ELSE Verdict(Min(LoopsOf(n)))

(* node_state; the body of a loop has a smaller id than the loop.          *)
NodeState[n \in Nodes] ==
  IF IsLoop(n)
  THEN IF Verdict(n) # "open" THEN Verdict(n)
       ELSE IF /\ outcome[n] = "none" /\ iterations[n] = 0
               /\ NodeState[nodes[n].body] = "pending"
       THEN "pending" ELSE "running"
  ELSE IF EnclosingState(n) # "open" THEN EnclosingState(n) ELSE own[n]

(* A dependency that is no node of the graph is never complete.            *)
Ready(n) ==
  /\ NodeState[n] = "pending"
  /\ \A d \in ToSet(nodes[n].deps) :
       d \in Nodes /\ NodeState[d] = "complete"

(* next_stage gives up at an id that is no node.                           *)
NextNode ==
  LET order == TopologicalOrder
      stops == {i \in DOMAIN order : order[i] \notin Nodes \/ Ready(order[i])}
  IN IF stops = {} \/ order[Min(stops)] \notin Nodes THEN None
     ELSE order[Min(stops)]

Resolve(n) == IF IsLoop(n) THEN nodes[n].body ELSE n

IsComplete ==
  /\ \A n \in Nodes : NodeState[n] = "complete"
  /\ ToSet(TopologicalOrder) \subseteq Nodes

-----------------------------------------------------------------------------
PlanInit ==
  /\ nodes = <<>> /\ phase = "build"
  /\ own = <<>> /\ iterations = <<>> /\ outcome = <<>>
  /\ mark = <<>> /\ control = <<>> /\ ran = <<>>
  /\ running = None /\ said = "none" /\ made = "first"

Add(node) ==
  /\ phase = "build" /\ Len(nodes) < MaxNodes
  /\ nodes' = Append(nodes, node)
  /\ UNCHANGED <<plan, directories, phase, running, said, ran, made>>

AddStage ==
  Add([kind |-> "stage", body |-> None, limit |-> 0, succeed |-> FALSE,
       deps |-> <<>>])

AddLoop ==
  \E b \in Nodes, m \in Limits, s \in BOOLEAN :
    Add([kind |-> "loop", body |-> b, limit |-> m, succeed |-> s,
         deps |-> <<>>])

Edges == UNION {{n} \X ToSet(nodes[n].deps) : n \in Nodes}

(* Only the node is looked up: the dependency may be the id of none yet.   *)
AddDependency ==
  /\ phase = "build" /\ Cardinality(Edges) < MaxEdges
  /\ \E n \in Nodes, d \in 1..MaxNodes :
       /\ d \notin ToSet(nodes[n].deps)
       /\ nodes' = [nodes EXCEPT ![n].deps = Append(@, d)]
  /\ UNCHANGED <<plan, directories, phase, running, said, ran, made>>

(* Mutant: the control records are not read.                               *)
FromGraphWithoutControl(m, c) ==
  /\ own' = [n \in Nodes |-> m[n]]
  /\ iterations' = [n \in Nodes |-> 0]
  /\ outcome' = [n \in Nodes |-> "none"]

(* from_graph: the markers and the control records are what is left of an  *)
(* earlier plan.                                                           *)
FromGraph(m, c) ==
  /\ own' = [n \in Nodes |-> m[n]]
  /\ iterations' = [n \in Nodes |-> 0]
  /\ outcome' = [n \in Nodes |->
                   IF IsLoop(n) THEN c[nodes[n].body] ELSE "none"]

Idle(to) ==
  /\ phase' = to /\ running' = None /\ said' = "none"

Start ==
  /\ phase = "build" /\ nodes # <<>>
  /\ mark' = [n \in Nodes |-> "pending"]
  /\ control' = [n \in Nodes |-> "none"]
  /\ ran' = [n \in Nodes |-> 0]
  /\ FromGraph(mark', control')
  /\ Idle("idle")
  /\ UNCHANGED <<graph, made>>

-----------------------------------------------------------------------------
ShouldReset(n) ==
  \E l \in Nodes : Encloses(l, n) /\ iterations[l] > 0 /\ outcome[l] = "none"

(* run_next_stage, with the plan the caller has.                           *)
RunNextStage ==
  /\ phase = "idle" /\ NextNode # None
  /\ LET r == Resolve(NextNode) IN
       /\ running' = r
       /\ ran' = [ran EXCEPT ![r] = @ + 1]
       /\ mark' = IF ShouldReset(r) /\ mark[r] = "complete"
                  THEN [mark EXCEPT ![r] = "pending"] ELSE mark
  /\ phase' = "run"
  /\ UNCHANGED <<graph, plan, control, said, made>>

(* The run succeeds, and its result may begin with a control record.       *)
MarkStageComplete ==
  /\ phase = "run"
  /\ said' \in Records \cup {"none"}
  /\ mark' = [mark EXCEPT ![running] = "complete"]
  /\ phase' = "control"
  /\ UNCHANGED <<graph, plan, control, running, ran, made>>

(* propagate_loop_completion, into the iterations `it` and the outcomes.   *)
Counted(it, out, n) ==
  {l \in LoopsOf(n) : out[l] = "none" /\ it[l] < nodes[l].limit}

(* Mutant: only a loop that goes on is counted.                            *)
PropagateUncounted(it, out, n, state) ==
  LET C == Counted(it, out, n) IN
    /\ iterations' = it
    /\ own' = [own EXCEPT ![n] = IF C = {} THEN state ELSE "pending"]

(* Mutant: the body is not made pending for the next iteration.            *)
PropagateKept(it, out, n, state) ==
  /\ iterations' = [l \in Nodes |->
                      IF l \in Counted(it, out, n) THEN it[l] + 1 ELSE it[l]]
  /\ own' = [own EXCEPT ![n] = state]

Propagate(it, out, n, state) ==
  LET C == Counted(it, out, n) IN
    /\ iterations' = [l \in Nodes |-> IF l \in C THEN it[l] + 1 ELSE it[l]]
    /\ own' = [own EXCEPT ![n] = IF C = {} THEN state ELSE "pending"]

(* record_control_outcome: for the first loop around the stage.            *)
Recorded(n, what) ==
  [l \in Nodes |->
     IF Encloses(l, n) /\ what # "none" THEN what ELSE outcome[l]]

Iterated(n, what) ==
  [l \in Nodes |->
     iterations[l] + IF Encloses(l, n) /\ what # "none" THEN 1 ELSE 0]

(* mark_complete: for a loop it is one iteration more.                     *)
MarkNodeComplete(n, it, out) ==
  IF IsLoop(n)
  THEN iterations' = [it EXCEPT ![n] = @ + 1] /\ UNCHANGED own
  ELSE Propagate(it, out, n, "complete")

(* The record is written to .control after the marker; the plan is told of *)
(* it before it is told that the stage is complete.                        *)
WriteControl ==
  /\ phase = "control"
  /\ control' = IF said = "none" THEN control
                ELSE [control EXCEPT ![running] = said]
  /\ outcome' = Recorded(running, said)
  /\ MarkNodeComplete(running, Iterated(running, said),
                      Recorded(running, said))
  /\ Idle("idle")
  /\ UNCHANGED <<graph, mark, ran, made>>

(* The run fails: mark_stage_error, and mark_error of the plan.            *)
MarkStageError ==
  /\ phase = "run"
  /\ mark' = [mark EXCEPT ![running] = "error"]
  /\ IF IsLoop(running)
     THEN /\ outcome' = [outcome EXCEPT ![running] = "fail"]
          /\ UNCHANGED <<own, iterations>>
     ELSE /\ Propagate(iterations, outcome, running, "error")
          /\ UNCHANGED outcome
  /\ Idle("idle")
  /\ UNCHANGED <<graph, control, ran, made>>

(* The plan is made anew: before a run, of an engine, or by a process that *)
(* follows one which ended at any moment.                                  *)
PlanAnew ==
  /\ phase # "build"
  /\ made' = "anew"
  /\ FromGraph(mark, control)
  /\ ran' = [n \in Nodes |-> 0]
  /\ Idle("idle")
  /\ UNCHANGED <<graph, directories>>

(* Nothing is left to run.                                                 *)
Over ==
  /\ phase = "idle" /\ NextNode = None
  /\ UNCHANGED planVars

PlanNext ==
  \/ AddStage \/ AddLoop \/ AddDependency \/ Start
  \/ RunNextStage \/ MarkStageComplete \/ WriteControl \/ MarkStageError
  \/ PlanAnew \/ Over

PlanSpec == PlanInit /\ [][PlanNext]_planVars

-----------------------------------------------------------------------------
PlanTypeOK ==
  /\ nodes \in Seq([kind : {"stage", "loop"}, body : 0..MaxNodes, limit : Nat,
                    succeed : BOOLEAN, deps : Seq(1..MaxNodes)])
  /\ phase \in {"build", "idle", "run", "control"}
  /\ running \in Nodes \cup {None}
  /\ said \in Records \cup {"none"}
  /\ made \in {"first", "anew"}
  /\ phase # "build" =>
       /\ {own, mark} \subseteq [Nodes -> {"pending", "complete", "error"}]
       /\ {outcome, control} \subseteq [Nodes -> Records \cup {"none"}]
       /\ {iterations, ran} \subseteq [Nodes -> Nat]

(* A graph whose edges make sense: no missing node, no cycle through edges *)
(* and bodies, no loop around a loop, and one loop around a body.          *)
Sound ==
  /\ \A n \in Nodes : ToSet(nodes[n].deps) \subseteq Nodes
  /\ \A l \in Nodes : IsLoop(l) =>
       ~IsLoop(nodes[l].body) /\ LoopsOf(nodes[l].body) = {l}
  /\ \E rank \in [Nodes -> Nodes] : \A n \in Nodes :
       \A d \in ToSet(nodes[n].deps) \cup ({nodes[n].body} \ {None}) :
         rank[d] < rank[n]

(* The body of a loop runs no more often than max_iterations in the life   *)
(* of a plan, whichever way it ends, through whichever node it is reached. *)
Bounded ==
  phase # "build" /\ Sound =>
    \A l \in Nodes : IsLoop(l) => ran[nodes[l].body] <= nodes[l].limit

(* A plan made anew knows no iterations: a loop that has not ended waits   *)
(* for its body, whose completion marker is still there.                   *)
Forgotten(l) ==
  /\ made = "anew"
  /\ outcome[l] = "none" /\ iterations[l] < nodes[l].limit
  /\ own[nodes[l].body] = "complete"

(* The caller comes to a halt only when all is complete, a stage or a loop *)
(* has failed, a loop waits for a human or, with a plan made anew, a loop  *)
(* with iterations left was forgotten.                                     *)
HaltsForAReason ==
  phase = "idle" /\ Sound /\ NextNode = None =>
    \/ IsComplete
    \/ \E n \in Nodes :
         NodeState[n] = "error" \/ outcome[n] = "await" \/ (IsLoop(n) /\ Forgotten(n))

(* A loop that a control record has ended stays so in every plan, and its  *)
(* body does not begin again.                                              *)
EndedForGood ==
  [][phase # "build" /\ Sound => \A l \in Nodes : outcome[l] # "none" =>
       /\ outcome'[l] = outcome[l]
       /\ ~(running' = nodes[l].body /\ running # running')]_planVars

(* Not checked by a run, false: the body of a loop with iterations left is *)
(* run again (state.rs:371), by a caller that makes the plan anew.         *)
NoneForgotten == phase # "build" /\ Sound => \A l \in Nodes : IsLoop(l) => ~Forgotten(l)
=============================================================================
