--------------------------- MODULE MCContentStore ---------------------------
(* Two processes of one task each, two contents.                          *)
EXTENDS ContentStore, TLC

CONSTANTS t1, t2, p1, p2, x, y

TaskProc == (t1 :> p1) @@ (t2 :> p2)
Pid == (p1 :> p1) @@ (p2 :> p2)

(* The contents are alike, and so are the processes with their tasks.      *)
Exchanged == (t1 :> t2) @@ (t2 :> t1) @@ (p1 :> p2) @@ (p2 :> p1)
Alike == {f @@ g : f \in Permutations(Contents),
                   g \in {Exchanged, [v \in DOMAIN Exchanged |-> v]}}
=============================================================================
