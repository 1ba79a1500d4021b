-------------------------- MODULE MCWorkflowEngine --------------------------
(* Small workflows: one stage, a chain, and a group before a gate.         *)
EXTENDS WorkflowEngine, TLC

CONSTANTS server, cli1, cli2

OneStage == <<1>>
Chain2 == <<1, 2>>
ForkGate == <<1, 1, 2, 3>>

Alike == Permutations({cli1, cli2})
=============================================================================
