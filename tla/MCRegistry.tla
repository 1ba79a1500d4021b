----------------------------- MODULE MCRegistry -----------------------------
(* A server with two requests at a time and a command line init, over one  *)
(* workflow: one client makes and lists workflows, the other runs a stage  *)
(* and reloads after an approval.                                          *)
EXTENDS Registry, TLC

CONSTANTS w1, c1, c2, x1, a1, a2, a3

Split == (c1 :> {"init", "list"}) @@ (c2 :> {"run", "reload"})
=============================================================================
