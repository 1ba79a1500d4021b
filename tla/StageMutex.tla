----------------------------- MODULE StageMutex -----------------------------
(***************************************************************************)
(* What the stage lock promises the engine: at most one task at a time is  *)
(* inside a stage.  The promise is void from the moment somebody takes     *)
(* away the lock of a task that is still using it (broken).                *)
(***************************************************************************)

CONSTANT Tasks        \* the tasks, of any process, that may want the stage

VARIABLES holders,    \* the tasks that hold the lock
          broken      \* TRUE once a lock in use has been taken away

vars == <<holders, broken>>

TypeOK ==
  /\ holders \subseteq Tasks
  /\ broken \in BOOLEAN

Init ==
  /\ holders = {}
  /\ broken = FALSE

(* A task gets the lock when nobody has it.                                *)
Acquire(t) ==
  /\ t \notin holders
  /\ holders = {} \/ broken
  /\ holders' = holders \cup {t}
  /\ UNCHANGED broken

(* Some holders let go: one by dropping its guard, or all the holders of a *)
(* process that dies.                                                      *)
LetGo(gone) ==
  /\ gone # {}
  /\ holders' = holders \ gone
  /\ UNCHANGED broken

(* The lock of a task that is using it, or about to, is taken away.        *)
Break ==
  /\ broken' = TRUE
  /\ UNCHANGED holders

Next ==
  \/ \E t \in Tasks : Acquire(t)
  \/ \E gone \in SUBSET holders : LetGo(gone)
  \/ Break

Spec == Init /\ [][Next]_vars

(* The promise: two tasks are inside the stage only after a break.         *)
Exclusive == broken \/ \A t, u \in holders : t = u
=============================================================================
