----------------------------- MODULE StagePlan ------------------------------
(***************************************************************************)
(* The execution plan of a workflow (zerochain-core graph.rs, plan.rs):    *)
(* which stage runs next, as a function of the markers of the stages.  A   *)
(* stage is its position in the sorted list of stage directories, and      *)
(* SeqNo[i] is its number: stages with the same number (01a_x, 01b_y) are  *)
(* a group that may run in any order.                                      *)
(*                                                                         *)
(* Plans with loop nodes are never built from a directory; they are the    *)
(* subject of LoopPlan.                                                    *)
(***************************************************************************)
EXTENDS Naturals

CONSTANTS N,      \* number of stages
          SeqNo   \* their numbers, in directory order

ASSUME PlanOK ==
  /\ N \in Nat
  /\ SeqNo \in [1..N -> Nat]
  /\ \A i, j \in 1..N : i <= j => SeqNo[i] <= SeqNo[j]

Stages == 1..N
None == 0

Markers == {"complete", "error"}
Marks == [Markers -> BOOLEAN]
NoMarks == [k \in Markers |-> FALSE]

(* Each stage waits for the group before its own, and for no other.        *)
Deps(i) ==
  {d \in Stages :
     /\ SeqNo[d] < SeqNo[i]
     /\ ~\E k \in Stages : SeqNo[d] < SeqNo[k] /\ SeqNo[k] < SeqNo[i]}

(* An error marker wins over a completion marker.                          *)
Failed(m, i) == m[i]["error"]
Done(m, i) == m[i]["complete"] /\ ~m[i]["error"]
Pending(m, i) == ~m[i]["complete"] /\ ~m[i]["error"]

Runnable(m, i) == Pending(m, i) /\ \A d \in Deps(i) : Done(m, d)

(* next_stage: the first runnable stage in topological order, which for    *)
(* these graphs is the directory order, as dependencies are earlier there. *)
IsNext(m, i) == Runnable(m, i) /\ \A j \in Stages : Runnable(m, j) => i <= j
NoneLeft(m) == \A i \in Stages : ~Runnable(m, i)

PlanComplete(m) == \A i \in Stages : Done(m, i)
=============================================================================
