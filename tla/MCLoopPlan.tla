----------------------------- MODULE MCLoopPlan ------------------------------
(* Every graph of up to three nodes with up to two edges, loops of at most *)
(* none, one and two iterations among them.                                *)
EXTENDS LoopPlan

MCLimits == 0..2

(* PostOrder is what the recursion of the code computes, for the graphs of *)
(* up to three nodes: visit(todo, order) with its dependencies first.      *)
RECURSIVE Visit(_, _, _)
Visit(D, todo, order) ==
  IF todo = <<>> THEN order
  ELSE LET n == Head(todo)
           deps == IF n \in DOMAIN D THEN D[n] ELSE <<>>
       IN Visit(D, Tail(todo),
                IF n \in ToSet(order) THEN order
                ELSE Append(Visit(D, deps, order), n))

DepLists ==
  {s \in UNION {[1..k -> 1..3] : k \in 0..3} : IsInjective(s)}

ASSUME VisitIsPostOrder ==
  \A size \in 0..3 : \A D \in [1..size -> DepLists] :
    Acyclic(D) => PostOrder(D) = Visit(D, [n \in 1..size |-> n], <<>>)
=============================================================================
