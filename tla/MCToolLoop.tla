----------------------------- MODULE MCToolLoop -----------------------------
(* A stage that uses everything and goes two rounds, one whose limit is    *)
(* zero, and one that runs in a container.                                 *)
EXTENDS ToolLoop, TLC

Plain == [limit |-> 0, script |-> FALSE, sources |-> FALSE, index |-> FALSE, container |-> FALSE]
Rich == [limit |-> 2, script |-> TRUE, sources |-> TRUE, index |-> TRUE, container |-> FALSE]
InContainer == [Plain EXCEPT !.container = TRUE]

Stages == {Plain, Rich, InContainer}
=============================================================================
