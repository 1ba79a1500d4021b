---------------------------- MODULE MCGraphViews -----------------------------
(* An engine publishes results of workflow w, and an agent's tools an      *)
(* insight whose body has a CR LF, or a verification, again and again; two *)
(* searches look for results.                                              *)
EXTENDS GraphViews, TLC

CONSTANTS engine, agent, q1, q2

Ask(by, type, verdict, crlf) ==
  [by |-> by, actor |-> by, type |-> type, verdict |-> verdict, on |-> {},
   defaults |-> type # "verification", workflow |-> "w", metric |-> NoMetric,
   tags |-> {}, crlf |-> crlf]

MCIds == 1..3
MCClients == {engine, agent}
MCAsks == [c \in MCClients |->
  CASE c = engine -> {Ask("engine", "result", "none", FALSE)}
    [] c = agent  -> {Ask("tool", "insight", "none", TRUE),
                      Ask("tool", "verification", "confirmed", FALSE)}]

Filter(view) == [view |-> view, type |-> "result", workflow |-> "any", tags |-> {}]
MCFilters == {Filter("recent")}
MCQueriers == {q1, q2}
Symmetry == Permutations(MCQueriers)
=============================================================================
