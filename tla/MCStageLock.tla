---------------------------- MODULE MCStageLock -----------------------------
(* Two processes; p1 has two tasks and may crash.                          *)
EXTENDS StageLock, TLC

CONSTANTS p1, p2, t1, t2, t3

OneProc == {p1}
TwoProcs == {p1, p2}
HomeShared == (t1 :> p1) @@ (t2 :> p1) @@ (t3 :> p2)
HomeOne == (t1 :> p1) @@ (t2 :> p1)
HomeTwo == (t1 :> p1) @@ (t3 :> p2)
=============================================================================
