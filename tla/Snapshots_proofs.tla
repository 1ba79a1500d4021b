-------------------------- MODULE Snapshots_proofs --------------------------
(* The type invariant of Snapshots and the retention of the newest         *)
(* snapshots, for any processes, stages, limits and failures.              *)
EXTENDS Snapshots, FiniteSetTheorems, TLAPS

(* A process at work has a name, and one that copies has put it on disk.   *)
Named ==
  \A p \in Procs :
    /\ pc[p] # "idle" => name[p] \in Names
    /\ llm[p] # "none" => pc[p] # "idle"
    /\ pc[p] = "copy" => name[p] \in made
    /\ pc[p] \in Restoring => llm[p] = "none"

TypeInv == TypeOK /\ IsFiniteSet(made) /\ Named

(* Whatever a process is about to delete has Max successors already.       *)
DoomedOld ==
  \A p \in Procs : \A v \in doomed[p] : ~(Cardinality(Successors(v)) < Max)

-----------------------------------------------------------------------------
(* Put keeps the snapshots a function to directories, and adds one name.   *)
LEMMA PutType ==
  ASSUME TypeOK, NEW n, NEW d \in Dirs, Put(n, d)
  PROVE  /\ snaps' \in [DOMAIN snaps' -> Dirs]
         /\ DOMAIN snaps' = Kept \cup {n}
  BY DEF TypeOK, Put, Kept

LEMMA NothingType == Nothing \in Dirs
  BY DEF Nothing, Dirs, Parts

LEMMA TypeInvInit == ASSUME Init PROVE TypeInv
  <1>1. snaps = [n \in {} |-> Nothing] /\ made = {}
    BY DEF Init
  <1>2. IsFiniteSet(made)
    BY <1>1, FS_EmptySet
  <1>3. dir \in [Stages -> Dirs \cup {Absent}]
    BY DEF Init, Dirs, Nothing, Parts
  <1>4. TypeOK
    <2>1. /\ snaps \in [Kept -> Dirs]
          /\ Kept \subseteq made
          /\ made \in SUBSET Names
      BY <1>1 DEF Kept
    <2>2. /\ todo \in [Procs -> SUBSET Parts]
          /\ doomed \in [Procs -> SUBSET made]
          /\ name \in [Procs -> Names \cup {NoName}]
      BY DEF Init
    <2>3. /\ clock \in Nat
          /\ pc \in [Procs -> Places]
          /\ llm \in [Procs -> {"none", "asked", "writing", "answered"}]
          /\ overlap \in BOOLEAN
      BY Zenon DEF Init, Places
    <2>4. faults \in 0..MaxFaults
      BY SnapshotsOK DEF Init
    <2> QED
      BY <1>3, <2>1, <2>2, <2>3, <2>4 DEF TypeOK
  <1>5. Named
    BY DEF Init, Named, Restoring
  <1> QED
    BY <1>2, <1>4, <1>5 DEF TypeInv

LEMMA TypeInvStep == ASSUME TypeInv, [Next]_vars PROVE TypeInv'
  <1> USE DEF Places, Taking, Restoring, Kept
  <1>t. TypeOK /\ IsFiniteSet(made) /\ Named
    BY DEF TypeInv
  <1>d. /\ clock \in Nat
        /\ dir \in [Stages -> Dirs \cup {Absent}]
        /\ snaps \in [Kept -> Dirs]
        /\ made \in SUBSET Names
        /\ Kept \subseteq made
        /\ pc \in [Procs -> Places]
        /\ name \in [Procs -> Names \cup {NoName}]
        /\ todo \in [Procs -> SUBSET Parts]
        /\ doomed \in [Procs -> SUBSET made]
        /\ llm \in [Procs -> {"none", "asked", "writing", "answered"}]
        /\ faults \in 0..MaxFaults
        /\ overlap \in BOOLEAN
    BY <1>t DEF TypeOK
  <1>n. \A p \in Procs : pc[p] # "idle" => name[p] \in Names /\ StageOf(p) \in Stages
    BY <1>t DEF Named, StageOf, Names
  <1>f. ASSUME Fault PROVE faults' \in 0..MaxFaults
    BY <1>d, <1>f, SnapshotsOK DEF Fault
  <1>fin. ASSUME made' = made PROVE IsFiniteSet(made')
    BY <1>t, <1>fin
  <1>w. \A d \in Dirs, k \in Parts, x \in {"gone", "torn", "whole"} :
          [d EXCEPT ![k] = x] \in Dirs
    BY DEF Dirs
  <1>p. "output" \in Parts /\ Parts \in SUBSET Parts /\ {} \in SUBSET Parts
    BY DEF Parts
  <1> SUFFICES ASSUME Next \/ vars' = vars PROVE TypeInv'
    BY DEF vars
  <1>0. CASE vars' = vars
    BY <1>0, <1>t DEF vars, TypeInv, TypeOK, Named
  <1>1. CASE Tick
    BY <1>1, <1>t, <1>d DEF Tick, TypeInv, TypeOK, Named
  <1>2. ASSUME NEW p \in Procs, NEW s \in Stages, Stamp(p, s)
        PROVE  /\ name' \in [Procs -> Names \cup {NoName}]
               /\ pc' \in [Procs -> Places]
               /\ overlap' \in BOOLEAN
               /\ \A q \in Procs :
                    /\ pc'[q] # "idle" => name'[q] \in Names
                    /\ pc[q] # "idle" => pc'[q] # "idle"
                    /\ pc'[q] \in {"copy"} \cup Restoring
                         => pc[q] = pc'[q] /\ name'[q] = name[q]
               /\ pc'[p] = "nonce"
    <2>1. clock \div PerSecond \in Nat
      BY <1>d, SnapshotsOK
    <2>2. [stage |-> s, sec |-> clock \div PerSecond, nonce |-> 0] \in Names
      BY <2>1 DEF Names
    <2> QED
      BY <1>2, <1>d, <1>n, <2>2 DEF Stamp, Goto, Begin
  <1>3. ASSUME NEW p \in Procs, NEW s \in Stages, Snapshot(p, s) PROVE TypeInv'
    <2>1. Stamp(p, s)
      BY <1>3 DEF Snapshot
    <2>2. TypeOK'
      BY <1>2, <1>3, <1>d, <2>1 DEF Snapshot, TypeOK
    <2>3. Named'
      BY <1>2, <1>3, <1>t, <2>1 DEF Snapshot, Named
    <2> QED
      BY <1>3, <1>fin, <2>2, <2>3 DEF Snapshot, TypeInv
  <1>4. ASSUME NEW p \in Procs, NEW s \in Stages, Run(p, s) PROVE TypeInv'
    <2>1. Stamp(p, s)
      BY <1>4 DEF Run
    <2>2. dir' \in [Stages -> Dirs \cup {Absent}]
      BY <1>4, <1>d, <1>w, <1>p DEF Run, SetDir
    <2>3. TypeOK'
      BY <1>2, <1>4, <1>d, <2>1, <2>2 DEF Run, TypeOK
    <2>4. Named'
      BY <1>2, <1>4, <1>t, <1>d, <2>1 DEF Run, Named
    <2> QED
      BY <1>4, <1>fin, <2>3, <2>4 DEF Run, TypeInv
  <1>5. ASSUME NEW p \in Procs, Nonce(p) PROVE TypeInv'
    <2>1. name[p] \in Names /\ clock % PerSecond \in Nat
      BY <1>5, <1>d, <1>n, SnapshotsOK DEF Nonce
    <2>2. [stage |-> StageOf(p), sec |-> name[p].sec, nonce |-> clock % PerSecond]
            \in Names
      BY <2>1 DEF Names, StageOf
    <2>3. TypeOK'
      BY <1>5, <1>d, <2>2 DEF Nonce, Goto, TypeOK
    <2>4. Named'
      BY <1>5, <1>t, <1>d, <2>2 DEF Nonce, Goto, Named
    <2> QED
      BY <1>5, <1>fin, <2>3, <2>4 DEF Nonce, TypeInv
  <1>i. ASSUME NEW p \in Procs, Idle(p)
        PROVE  /\ pc' \in [Procs -> Places]
               /\ name' \in [Procs -> Names \cup {NoName}]
               /\ todo' \in [Procs -> SUBSET Parts]
               /\ pc'[p] = "idle"
               /\ \A q \in Procs \ {p} : pc'[q] = pc[q] /\ name'[q] = name[q]
    BY <1>i, <1>d, <1>p DEF Idle, Goto
  <1>k. ASSUME NEW p \in Procs, Taken(p), pc[p] # "idle"
        PROVE  /\ pc' \in [Procs -> Places]
               /\ name' \in [Procs -> Names \cup {NoName}]
               /\ todo' \in [Procs -> SUBSET Parts]
               /\ pc'[p] = (IF llm[p] = "none" THEN "idle" ELSE "join")
               /\ llm[p] # "none" => name'[p] = name[p]
               /\ \A q \in Procs \ {p} : pc'[q] = pc[q] /\ name'[q] = name[q]
    BY <1>k, <1>d, <1>i, <1>p DEF Taken, Goto
  <1>6. ASSUME NEW p \in Procs, Create(p) PROVE TypeInv'
    <2>0. pc[p] = "create" /\ name[p] \in Names
      BY <1>6, <1>n DEF Create
    <2>1. CASE Taken(p) /\ UNCHANGED <<snaps, made>>
      <3>1. TypeOK'
        BY <1>6, <1>d, <1>k, <2>0, <2>1 DEF Create, TypeOK
      <3>2. Named'
        BY <1>6, <1>t, <1>n, <1>k, <2>0, <2>1 DEF Create, Named
      <3> QED
        BY <1>fin, <2>1, <3>1, <3>2 DEF TypeInv
    <2>2. CASE /\ Put(name[p], Nothing)
               /\ made' = made \cup {name[p]}
               /\ todo' = [todo EXCEPT ![p] = Parts]
               /\ Goto(p, "copy")
               /\ UNCHANGED name
      <3>1. snaps' \in [Kept' -> Dirs] /\ Kept' = Kept \cup {name[p]}
        BY <1>t, <2>2, PutType, NothingType
      <3>2. TypeOK'
        BY <1>6, <1>d, <1>p, <2>0, <2>2, <3>1 DEF Create, Goto, TypeOK
      <3>3. Named'
        BY <1>6, <1>t, <1>d, <2>0, <2>2 DEF Create, Goto, Named
      <3>4. IsFiniteSet(made')
        BY <1>t, <2>2, FS_AddElement
      <3> QED
        BY <3>2, <3>3, <3>4 DEF TypeInv
    <2> QED
      BY <1>6, <2>1, <2>2 DEF Create
  <1>7. ASSUME NEW p \in Procs, Copy(p) PROVE TypeInv'
    <2>0. /\ pc[p] = "copy" /\ name[p] \in Names /\ StageOf(p) \in Stages
          /\ name[p] \in made
      BY <1>7, <1>n, <1>t DEF Copy, Named
    <2> PICK k \in todo[p] :
          IF dir[StageOf(p)] = Absent
          THEN Taken(p) /\ UNCHANGED snaps
          ELSE IF name[p] \notin Kept
          THEN /\ Put(name[p], Nothing)
               /\ todo' = [todo EXCEPT ![p] = Parts]
               /\ UNCHANGED <<pc, name>>
          ELSE /\ Put(name[p], [snaps[name[p]] EXCEPT ![k] = dir[StageOf(p)][k]])
               /\ todo' = [todo EXCEPT ![p] = @ \ {k}]
               /\ UNCHANGED <<pc, name>>
      BY <1>7 DEF Copy
    <2>k. k \in Parts
      BY <1>d
    <2>1. CASE dir[StageOf(p)] = Absent
      <3>1. Taken(p) /\ UNCHANGED snaps
        BY <2>1
      <3>2. TypeOK'
        BY <1>7, <1>d, <1>k, <2>0, <3>1 DEF Copy, TypeOK
      <3>3. Named'
        BY <1>7, <1>t, <1>n, <1>k, <2>0, <3>1 DEF Copy, Named
      <3> QED
        BY <1>7, <1>fin, <3>2, <3>3 DEF Copy, TypeInv
    <2>2. CASE dir[StageOf(p)] # Absent
      <3>1. /\ UNCHANGED <<pc, name>>
            /\ todo' \in [Procs -> SUBSET Parts]
        BY <2>2, <1>d, <1>p
      <3>2. \E d \in Dirs : Put(name[p], d)
        <4>1. CASE name[p] \notin Kept
          BY <2>2, <4>1, NothingType
        <4>2. CASE name[p] \in Kept
          <5>1. dir[StageOf(p)] \in Dirs /\ snaps[name[p]] \in Dirs
            BY <1>d, <2>0, <2>2, <4>2
          <5>2. [snaps[name[p]] EXCEPT ![k] = dir[StageOf(p)][k]] \in Dirs
            BY <5>1, <2>k DEF Dirs
          <5> QED
            BY <2>2, <4>2, <5>2
        <4> QED
          BY <4>1, <4>2
      <3>3. snaps' \in [Kept' -> Dirs] /\ Kept' = Kept \cup {name[p]}
        BY <1>t, <3>2, PutType
      <3>4. TypeOK'
        BY <1>7, <1>d, <2>0, <3>1, <3>3 DEF Copy, TypeOK
      <3>5. Named'
        BY <1>7, <1>t, <3>1 DEF Copy, Named
      <3> QED
        BY <1>7, <1>fin, <3>4, <3>5 DEF Copy, TypeInv
    <2> QED
      BY <2>1, <2>2
  <1>8. ASSUME NEW p \in Procs, Copied(p) PROVE TypeInv'
    <2>0. pc[p] = "copy" /\ name[p] \in made
      BY <1>8, <1>t DEF Copied, Named
    <2>1. snaps' \in [Kept' -> Dirs] /\ Kept' = Kept
      <3>1. CASE UNCHANGED snaps
        BY <1>d, <3>1
      <3>2. CASE /\ name[p] \in Kept
                 /\ Put(name[p], [snaps[name[p]] EXCEPT !["output"] = "gone"])
        <4>1. [snaps[name[p]] EXCEPT !["output"] = "gone"] \in Dirs
          BY <1>d, <1>w, <1>p, <3>2
        <4> QED
          BY <1>t, <3>2, <4>1, PutType
      <3> QED
        BY <1>8, <3>1, <3>2 DEF Copied
    <2>2. faults' \in 0..MaxFaults
      BY <1>8, <1>d, <1>f DEF Copied
    <2>3. TypeOK'
      BY <1>8, <1>d, <2>1, <2>2 DEF Copied, Goto, TypeOK
    <2>4. Named'
      BY <1>8, <1>t, <1>d, <2>0 DEF Copied, Goto, Named
    <2> QED
      BY <1>8, <1>fin, <2>3, <2>4 DEF Copied, TypeInv
  <1>9. ASSUME NEW p \in Procs, List(p) PROVE TypeInv'
    <2>1. doomed' \in [Procs -> SUBSET made]
      BY <1>9, <1>d DEF List
    <2>2. TypeOK'
      BY <1>9, <1>d, <2>1 DEF List, Goto, TypeOK
    <2>3. Named'
      BY <1>9, <1>t, <1>d DEF List, Goto, Named
    <2> QED
      BY <1>9, <1>fin, <2>2, <2>3 DEF List, TypeInv
  <1>10. ASSUME NEW p \in Procs, Evict(p) PROVE TypeInv'
    <2>1. PICK v \in doomed[p] :
            /\ \/ snaps' = [n \in Kept \ {v} |-> snaps[n]] /\ UNCHANGED faults
               \/ Fault /\ UNCHANGED snaps
            /\ doomed' = [doomed EXCEPT ![p] = @ \ {v}]
      BY <1>10 DEF Evict
    <2>2. snaps' \in [Kept' -> Dirs] /\ Kept' \subseteq Kept
      BY <1>d, <2>1
    <2>3. faults' \in 0..MaxFaults /\ doomed' \in [Procs -> SUBSET made]
      BY <1>d, <1>f, <2>1
    <2>4. TypeOK'
      BY <1>10, <1>d, <2>2, <2>3 DEF Evict, TypeOK
    <2>5. Named'
      BY <1>10, <1>t DEF Evict, Named
    <2> QED
      BY <1>10, <1>fin, <2>4, <2>5 DEF Evict, TypeInv
  <1>11. ASSUME NEW p \in Procs, Evicted(p) PROVE TypeInv'
    <2>1. TypeOK'
      BY <1>11, <1>d, <1>k DEF Evicted, TypeOK
    <2>2. Named'
      BY <1>11, <1>t, <1>n, <1>k DEF Evicted, Named
    <2> QED
      BY <1>11, <1>fin, <2>1, <2>2 DEF Evicted, TypeInv
  <1>12. ASSUME NEW p \in Procs, Answer(p) PROVE TypeInv'
    <2>0. pc[p] # "idle" /\ StageOf(p) \in Stages
      BY <1>12, <1>t, <1>n DEF Answer, Named
    <2>1. ASSUME NEW how \in {"gone", "torn", "whole"}, WriteOutput(p, how)
          PROVE  dir' \in [Stages -> Dirs \cup {Absent}]
      <3>1. (IF dir[StageOf(p)] = Absent THEN Nothing ELSE dir[StageOf(p)]) \in Dirs
        BY <1>d, <2>0, NothingType
      <3>2. [(IF dir[StageOf(p)] = Absent THEN Nothing ELSE dir[StageOf(p)])
               EXCEPT !["output"] = how] \in Dirs
        BY <1>w, <1>p, <3>1
      <3> QED
        BY <1>d, <2>1, <3>2 DEF WriteOutput, SetDir
    <2>2. dir' \in [Stages -> Dirs \cup {Absent}]
      BY <1>12, <1>d, <2>1 DEF Answer
    <2>3. TypeOK'
      BY <1>12, <1>d, <2>2 DEF Answer, TypeOK
    <2>4. Named'
      BY <1>12, <1>t, <1>d, <2>0 DEF Answer, Named
    <2> QED
      BY <1>12, <1>fin, <2>3, <2>4 DEF Answer, TypeInv
  <1>13. ASSUME NEW p \in Procs, Join(p) PROVE TypeInv'
    <2>1. TypeOK'
      BY <1>13, <1>d, <1>i DEF Join, TypeOK
    <2>2. Named'
      BY <1>13, <1>t, <1>d, <1>i DEF Join, Named
    <2> QED
      BY <1>13, <1>fin, <2>1, <2>2 DEF Join, TypeInv
  <1>14. ASSUME NEW p \in Procs, NEW s \in Stages, Restore(p, s) PROVE TypeInv'
    <2>1. PICK n \in Kept : name' = [name EXCEPT ![p] = n]
      BY <1>14 DEF Restore
    <2>2. n \in Names
      BY <1>d
    <2>3. TypeOK'
      BY <1>14, <1>d, <2>1, <2>2 DEF Restore, Goto, Begin, TypeOK
    <2>4. Named'
      BY <1>14, <1>t, <1>d, <2>1, <2>2 DEF Restore, Goto, Named
    <2> QED
      BY <1>14, <1>fin, <2>3, <2>4 DEF Restore, TypeInv
  <1>15. ASSUME NEW p \in Procs, Wipe(p) PROVE TypeInv'
    <2>1. TypeOK'
      BY <1>15, <1>d, <1>n DEF Wipe, Goto, SetDir, TypeOK
    <2>2. Named'
      BY <1>15, <1>t, <1>d DEF Wipe, Goto, Named
    <2> QED
      BY <1>15, <1>fin, <2>1, <2>2 DEF Wipe, TypeInv
  <1>16. ASSUME NEW p \in Procs, Refill(p) PROVE TypeInv'
    <2>0. StageOf(p) \in Stages /\ name[p] \in Names /\ pc[p] = "refill"
      BY <1>16, <1>n DEF Refill
    <2>1. CASE Idle(p) /\ UNCHANGED dir
      <3>1. TypeOK'
        BY <1>16, <1>d, <1>i, <2>1 DEF Refill, TypeOK
      <3>2. Named'
        BY <1>16, <1>t, <1>i, <2>1 DEF Refill, Named
      <3> QED
        BY <1>16, <1>fin, <3>1, <3>2 DEF Refill, TypeInv
    <2>2. CASE /\ SetDir(StageOf(p), Nothing)
               /\ todo' = [todo EXCEPT ![p] = Parts]
               /\ Goto(p, "fill")
               /\ UNCHANGED name
      <3>1. TypeOK'
        BY <1>16, <1>d, <1>p, <2>0, <2>2, NothingType DEF Refill, Goto, SetDir, TypeOK
      <3>2. Named'
        BY <1>16, <1>t, <1>d, <2>0, <2>2 DEF Refill, Goto, Named
      <3> QED
        BY <1>16, <1>fin, <3>1, <3>2 DEF Refill, TypeInv
    <2> QED
      BY <1>16, <2>1, <2>2 DEF Refill
  <1>17. ASSUME NEW p \in Procs, Fill(p) PROVE TypeInv'
    <2>0. StageOf(p) \in Stages /\ name[p] \in Names /\ pc[p] = "fill"
      BY <1>17, <1>n DEF Fill
    <2> PICK k \in todo[p] :
          IF name[p] \notin Kept
          THEN Idle(p) /\ UNCHANGED dir
          ELSE IF dir[StageOf(p)] = Absent
          THEN /\ SetDir(StageOf(p), Nothing)
               /\ todo' = [todo EXCEPT ![p] = Parts]
               /\ UNCHANGED <<pc, name>>
          ELSE /\ SetDir(StageOf(p),
                    [dir[StageOf(p)] EXCEPT ![k] = snaps[name[p]][k]])
               /\ todo' = [todo EXCEPT ![p] = @ \ {k}]
               /\ UNCHANGED <<pc, name>>
      BY <1>17 DEF Fill
    <2>k. k \in Parts
      BY <1>d
    <2>1. CASE name[p] \notin Kept
      <3>1. Idle(p) /\ UNCHANGED dir
        BY <2>1
      <3>2. TypeOK'
        BY <1>17, <1>d, <1>i, <3>1 DEF Fill, TypeOK
      <3>3. Named'
        BY <1>17, <1>t, <1>i, <2>0, <3>1 DEF Fill, Named
      <3> QED
        BY <1>17, <1>fin, <3>2, <3>3 DEF Fill, TypeInv
    <2>2. CASE name[p] \in Kept
      <3>1. /\ UNCHANGED <<pc, name>>
            /\ todo' \in [Procs -> SUBSET Parts]
        BY <2>2, <1>d, <1>p
      <3>2. \E d \in Dirs : SetDir(StageOf(p), d)
        <4>1. CASE dir[StageOf(p)] = Absent
          BY <2>2, <4>1, NothingType
        <4>2. CASE dir[StageOf(p)] # Absent
          <5>1. dir[StageOf(p)] \in Dirs /\ snaps[name[p]] \in Dirs
            BY <1>d, <2>0, <2>2, <4>2
          <5>2. [dir[StageOf(p)] EXCEPT ![k] = snaps[name[p]][k]] \in Dirs
            BY <5>1, <2>k DEF Dirs
          <5> QED
            BY <2>2, <4>2, <5>2
        <4> QED
          BY <4>1, <4>2
      <3>3. TypeOK'
        BY <1>17, <1>d, <2>0, <3>1, <3>2 DEF Fill, SetDir, TypeOK
      <3>4. Named'
        BY <1>17, <1>t, <3>1 DEF Fill, Named
      <3> QED
        BY <1>17, <1>fin, <3>3, <3>4 DEF Fill, TypeInv
    <2> QED
      BY <2>1, <2>2
  <1>18. ASSUME NEW p \in Procs, Restored(p) PROVE TypeInv'
    <2>1. TypeOK'
      BY <1>18, <1>d, <1>i DEF Restored, TypeOK
    <2>2. Named'
      BY <1>18, <1>t, <1>i DEF Restored, Named
    <2> QED
      BY <1>18, <1>fin, <2>1, <2>2 DEF Restored, TypeInv
  <1>19. ASSUME NEW p \in Procs, IoFails(p) PROVE TypeInv'
    <2>0. faults' \in 0..MaxFaults /\ pc[p] # "idle"
      BY <1>19, <1>f DEF IoFails
    <2>1. CASE pc[p] \in Restoring
      <3>1. Idle(p)
        BY <1>19, <2>1 DEF IoFails
      <3>2. TypeOK'
        BY <1>19, <1>d, <1>i, <2>0, <3>1 DEF IoFails, TypeOK
      <3>3. Named'
        BY <1>19, <1>t, <1>i, <2>1, <3>1 DEF IoFails, Named
      <3> QED
        BY <1>19, <1>fin, <3>2, <3>3 DEF IoFails, TypeInv
    <2>2. CASE pc[p] \notin Restoring
      <3>1. Taken(p)
        BY <1>19, <2>2 DEF IoFails
      <3>2. TypeOK'
        BY <1>19, <1>d, <1>k, <2>0, <3>1 DEF IoFails, TypeOK
      <3>3. Named'
        BY <1>19, <1>t, <1>n, <1>k, <2>0, <3>1 DEF IoFails, Named
      <3> QED
        BY <1>19, <1>fin, <3>2, <3>3 DEF IoFails, TypeInv
    <2> QED
      BY <2>1, <2>2
  <1>20. ASSUME NEW p \in Procs, Crash(p) PROVE TypeInv'
    <2>1. TypeOK'
      BY <1>20, <1>d, <1>i, <1>f DEF Crash, TypeOK
    <2>2. Named'
      BY <1>20, <1>t, <1>d, <1>i DEF Crash, Named
    <2> QED
      BY <1>20, <1>fin, <2>1, <2>2 DEF Crash, TypeInv
  <1> QED
    BY <1>0, <1>1, <1>3, <1>4, <1>5, <1>6, <1>7, <1>8, <1>9, <1>10, <1>11, <1>12,
       <1>13, <1>14, <1>15, <1>16, <1>17, <1>18, <1>19, <1>20 DEF Next

(* Every variable of the snapshots keeps its type: what is on disk was     *)
(* made by somebody, and every copy is of a directory or into one.         *)
THEOREM SnapshotsTyping == Spec => []TypeOK
  <1>1. TypeInv => TypeOK
    BY DEF TypeInv
  <1> QED
    BY TypeInvInit, TypeInvStep, <1>1, PTL DEF Spec

-----------------------------------------------------------------------------
(* Snapshots that are made only add successors.                            *)
LEMMA SuccessorsGrow ==
  ASSUME IsFiniteSet(made'), made \subseteq made', NEW n
  PROVE  /\ Cardinality(Successors(n)) \in Nat
         /\ Cardinality(Successors(n)') \in Nat
         /\ Cardinality(Successors(n)) <= Cardinality(Successors(n)')
  <1>1. Successors(n) \subseteq Successors(n)' /\ Successors(n)' \subseteq made'
    BY DEF Successors, NotOlder
  <1>2. IsFiniteSet(Successors(n)')
    BY <1>1, FS_Subset
  <1>3. IsFiniteSet(Successors(n))
    BY <1>1, <1>2, FS_Subset
  <1> QED
    BY <1>1, <1>2, <1>3, FS_Subset, FS_CardinalityType

(* The snapshots that a clean-up leaves alone are Max, and none of them is *)
(* older than one that it deletes.                                         *)
LEMMA OldestHaveSuccessors ==
  ASSUME TypeInv, NEW V \in SUBSET Kept, Cardinality(V) = Excess, Oldest(V), NEW v \in V
  PROVE  ~(Cardinality(Successors(v)) < Max)
  <1>1. made \in SUBSET Names /\ Kept \subseteq made /\ IsFiniteSet(made)
    BY DEF TypeInv, TypeOK
  <1>2. IsFiniteSet(Kept) /\ IsFiniteSet(V)
    BY <1>1, FS_Subset
  <1>3. IsFiniteSet(Kept \ V) /\ Cardinality(Kept \ V) = Cardinality(Kept) - Cardinality(V)
    <2>1. Kept \cap V = V
      OBVIOUS
    <2> QED
      BY <1>2, <2>1, FS_Difference
  <1>4. Cardinality(V) # 0
    BY <1>2, FS_EmptySet
  <1>5. Cardinality(Kept) \in Nat /\ Cardinality(V) \in Nat
    BY <1>2, FS_CardinalityType
  <1>6. Cardinality(Kept \ V) = Max
    BY <1>3, <1>4, <1>5, SnapshotsOK DEF Excess
  <1>7. Kept \ V \subseteq Successors(v)
    BY <1>1 DEF Oldest, Successors
  <1>8. IsFiniteSet(Successors(v))
    BY <1>1, FS_Subset DEF Successors
  <1>9. Cardinality(Kept \ V) <= Cardinality(Successors(v))
    BY <1>7, <1>8, FS_Subset
  <1> QED
    BY <1>6, <1>8, <1>9, FS_CardinalityType, SnapshotsOK

IInv == TypeInv /\ DoomedOld /\ NewestKept

LEMMA IInvInit == ASSUME Init PROVE IInv
  BY TypeInvInit DEF Init, IInv, DoomedOld, NewestKept

(* Only a process that deletes disturbs the two: what it deletes has been  *)
(* listed with Max successors, and they do not become fewer.               *)
LEMMA IInvStep == ASSUME IInv, [Next]_vars PROVE IInv'
  <1>1. TypeInv /\ DoomedOld /\ NewestKept /\ TypeInv'
    BY TypeInvStep DEF IInv
  <1>2. doomed \in [Procs -> SUBSET made] /\ IsFiniteSet(made')
    BY <1>1 DEF TypeInv, TypeOK
  <1>3. ASSUME made \subseteq made',
               Kept \subseteq Kept', made' \ made \subseteq Kept'
        PROVE  NewestKept'
    <2> SUFFICES ASSUME NEW n \in made', Cardinality(Successors(n)') < Max
                 PROVE  n \in Kept'
      BY DEF NewestKept
    <2>1. CASE n \in made
      BY <1>1, <1>2, <1>3, <2>1, SuccessorsGrow, SnapshotsOK DEF NewestKept
    <2>2. CASE n \notin made
      BY <1>3, <2>2
    <2> QED
      BY <2>1, <2>2
  <1>4. ASSUME made \subseteq made',
               \A p \in Procs : doomed'[p] \subseteq doomed[p]
        PROVE  DoomedOld'
    <2> SUFFICES ASSUME NEW p \in Procs, NEW v \in doomed'[p]
                 PROVE  ~(Cardinality(Successors(v)') < Max)
      BY DEF DoomedOld
    <2> QED
      BY <1>1, <1>2, <1>4, SuccessorsGrow, SnapshotsOK DEF DoomedOld
  <1>5. ASSUME NEW n, NEW d, Put(n, d) PROVE Kept' = Kept \cup {n}
    BY <1>5 DEF Put, Kept
  <1>6. ASSUME NEW p \in Procs, List(p) PROVE DoomedOld'
    <2>1. PICK V \in SUBSET Kept :
            Cardinality(V) = Excess /\ Oldest(V) /\ doomed' = [doomed EXCEPT ![p] = V]
      BY <1>6 DEF List
    <2>2. \A v \in V : ~(Cardinality(Successors(v)) < Max)
      BY <1>1, <2>1, OldestHaveSuccessors
    <2>3. \A v : Successors(v)' = Successors(v)
      BY <1>6 DEF List, Successors, NotOlder
    <2> QED
      BY <1>1, <1>2, <2>1, <2>2, <2>3 DEF DoomedOld
  <1>7. ASSUME NEW p \in Procs, Evict(p) PROVE NewestKept'
    <2>1. PICK v \in doomed[p] :
            snaps' = [n \in Kept \ {v} |-> snaps[n]] \/ UNCHANGED snaps
      BY <1>7 DEF Evict
    <2>2. ~(Cardinality(Successors(v)) < Max)
      BY <1>1 DEF DoomedOld
    <2>3. made' = made /\ Kept \ {v} \subseteq Kept'
      BY <1>7, <2>1 DEF Evict, Kept
    <2>4. \A n : Successors(n)' = Successors(n)
      BY <2>3 DEF Successors, NotOlder
    <2> QED
      BY <1>1, <2>2, <2>3, <2>4 DEF NewestKept
  <1>8. CASE UNCHANGED <<snaps, made, doomed>>
    BY <1>1, <1>3, <1>4, <1>8 DEF IInv, Kept
  <1>9. ASSUME NEW p \in Procs,
               Create(p) \/ Copy(p) \/ Copied(p) \/ List(p) \/ Evict(p) \/ Crash(p)
        PROVE  IInv'
    <2>1. CASE Create(p)
      <3>1. \/ UNCHANGED <<snaps, made>>
            \/ Kept' = Kept \cup {name[p]} /\ made' = made \cup {name[p]}
        BY <2>1, <1>5 DEF Create
      <3>2. doomed' = doomed
        BY <2>1 DEF Create
      <3> QED
        BY <1>1, <1>3, <1>4, <3>1, <3>2 DEF IInv, Kept
    <2>2. CASE Copy(p)
      <3>1. Kept \subseteq Kept'
        BY <2>2, <1>5 DEF Copy, Kept
      <3>2. UNCHANGED <<made, doomed>>
        BY <2>2 DEF Copy
      <3> QED
        BY <1>1, <1>3, <1>4, <3>1, <3>2 DEF IInv
    <2>3. CASE Copied(p)
      <3>1. Kept \subseteq Kept'
        BY <2>3, <1>5 DEF Copied, Kept
      <3>2. UNCHANGED <<made, doomed>>
        BY <2>3 DEF Copied
      <3> QED
        BY <1>1, <1>3, <1>4, <3>1, <3>2 DEF IInv
    <2>4. CASE List(p)
      <3>1. UNCHANGED <<snaps, made>>
        BY <2>4 DEF List
      <3> QED
        BY <1>1, <1>3, <1>6, <2>4, <3>1 DEF IInv, Kept
    <2>5. CASE Evict(p)
      <3>1. made' = made /\ \A q \in Procs : doomed'[q] \subseteq doomed[q]
        BY <1>2, <2>5 DEF Evict
      <3> QED
        BY <1>1, <1>4, <1>7, <2>5, <3>1 DEF IInv
    <2>6. CASE Crash(p)
      <3>1. UNCHANGED <<snaps, made>> /\ \A q \in Procs : doomed'[q] \subseteq doomed[q]
        BY <1>2, <2>6 DEF Crash
      <3> QED
        BY <1>1, <1>3, <1>4, <3>1 DEF IInv, Kept
    <2> QED
      BY <1>9, <2>1, <2>2, <2>3, <2>4, <2>5, <2>6
  <1>10. ASSUME NEW p \in Procs,
                Nonce(p) \/ Evicted(p) \/ Answer(p) \/ Join(p) \/ Wipe(p)
                  \/ Refill(p) \/ Fill(p) \/ Restored(p) \/ IoFails(p)
         PROVE  IInv'
    BY <1>8, <1>10
       DEF Nonce, Evicted, Answer, Join, Wipe, Refill, Fill, Restored, IoFails
  <1>11. ASSUME NEW p \in Procs, NEW s \in Stages,
                Snapshot(p, s) \/ Run(p, s) \/ Restore(p, s)
         PROVE  IInv'
    BY <1>8, <1>11 DEF Snapshot, Run, Restore
  <1>12. CASE Tick
    BY <1>8, <1>12 DEF Tick
  <1>13. CASE UNCHANGED vars
    BY <1>8, <1>13 DEF vars
  <1> QED
    BY <1>9, <1>10, <1>11, <1>12, <1>13 DEF Next

(* However many processes take snapshots and clean up at once, crash or    *)
(* fail: a snapshot with fewer than Max that are not older is never gone.  *)
THEOREM NewestAlwaysKept == Spec => []NewestKept
  <1>1. IInv => NewestKept
    BY DEF IInv
  <1> QED
    BY IInvInit, IInvStep, <1>1, PTL DEF Spec
-----------------------------------------------------------------------------
(* One operation at a time: what is on disk when nothing is under way is   *)
(* good, and what the one operation has changed so far is known.           *)
Sound(s) == dir[s] # Absent /\ dir[s]["files"] = "whole"
Settled(s) == Sound(s) /\ dir[s]["output"] # "torn"
Good(n) == snaps[n]["files"] = "whole" /\ snaps[n]["output"] # "torn"

(* A snapshot under way leaves its stage alone and has copied good parts,  *)
(* but for the output/ of a run, which it removes in the end; only a run   *)
(* between its two writes has a torn result.  A restore has taken from a   *)
(* good snapshot what it has put back.                                     *)
AtWork(p) ==
  /\ pc[p] \notin Restoring =>
       /\ Sound(StageOf(p))
       /\ llm[p] # "writing" => Settled(StageOf(p))
  /\ pc[p] = "copy" =>
       /\ name[p] \in Kept
       /\ "files" \notin todo[p] => snaps[name[p]]["files"] = "whole"
       /\ "output" \notin todo[p] /\ llm[p] = "none" => snaps[name[p]]["output"] # "torn"
  /\ pc[p] \in Restoring => name[p] \in Kept
  /\ pc[p] = "refill" => dir[StageOf(p)] = Absent
  /\ pc[p] = "fill" =>
       /\ dir[StageOf(p)] # Absent
       /\ \A k \in Parts \ todo[p] : dir[StageOf(p)][k] = snaps[name[p]][k]

SerialInv ==
  Serial =>
    /\ \A p, q \in Busy : p = q
    /\ \A p \in Busy : AtWork(p)
    /\ \A n \in Kept \ InFlight : Good(n)
    /\ \A s \in Stages : (\A p \in Busy : StageOf(p) # s) => Settled(s)

(* It is enough to look at the one process that took the step.             *)
LEMMA OneAtWork ==
  ASSUME NEW p \in Procs,
         \A q \in Procs \ {p} : pc'[q] = "idle",
         pc'[p] # "idle" => AtWork(p)',
         \A n \in Kept' : (pc'[p] = "copy" /\ n = name'[p]) \/ Good(n)',
         \A s \in Stages : pc'[p] = "idle" \/ StageOf(p)' # s => Settled(s)'
  PROVE  SerialInv'
<1>1. \A q \in Busy' : q = p
  BY DEF Busy
<1>2. \A n \in Kept' \ InFlight' : Good(n)'
  BY DEF InFlight
<1>3. ASSUME NEW s \in Stages, \A q \in Busy' : StageOf(q)' # s PROVE Settled(s)'
  BY <1>3 DEF Busy
<1>4. \A q \in Busy' : AtWork(q)'
  BY <1>1 DEF Busy
<1> QED
  BY <1>1, <1>2, <1>3, <1>4 DEF SerialInv

(* Failures and overlaps are remembered.                                   *)
LEMMA StaysSerial ==
  ASSUME TypeInv, [Next]_vars, Serial'
  PROVE  Serial /\ faults' = faults
<1>1. faults \in Nat /\ overlap \in BOOLEAN
  BY SnapshotsOK DEF TypeInv, TypeOK
<1>2. faults' = faults \/ Fault
  BY Zenon DEF Next, vars, Tick, Snapshot, Run, Restore, Nonce, Create, Copy, Copied, List,
     Evict, Evicted, Answer, Join, Wipe, Refill, Fill, Restored, IoFails, Crash
<1>3. overlap' = overlap \/ \E p \in Procs : Begin(p)
  BY Zenon DEF Next, vars, Tick, Snapshot, Run, Restore, Stamp, Nonce, Create, Copy, Copied, List,
     Evict, Evicted, Answer, Join, Wipe, Refill, Fill, Restored, IoFails, Crash
<1> QED
  BY <1>1, <1>2, <1>3 DEF Serial, Fault, Begin

(* The end of an operation: what it worked on must be settled.             *)
LEMMA IdleSerial ==
  ASSUME TypeInv, NEW p \in Procs, Busy \subseteq {p}, Idle(p),
         \A n \in Kept' : Good(n)',
         \A s \in Stages : Settled(s)'
  PROVE  SerialInv'
<1>1. \A q \in Procs : pc'[q] = "idle"
  BY DEF Idle, Goto, Busy, TypeInv, TypeOK
<1> QED
  BY <1>1, OneAtWork

(* The end of a snapshot; that of a run still waits for the model.         *)
LEMMA TakenSerial ==
  ASSUME TypeInv, NEW p \in Procs, Busy = {p}, Taken(p), AtWork(p), pc[p] \in Taking,
         UNCHANGED <<dir, llm>>,
         \A n \in Kept' : Good(n)',
         \A s \in Stages \ {StageOf(p)} : Settled(s)
  PROVE  SerialInv'
<1>1. pc[p] \notin Restoring /\ pc[p] # "idle"
  BY DEF Taking, Restoring
<1>2. CASE llm[p] = "none"
  <2>1. \A s \in Stages : Settled(s)
    BY <1>1, <1>2 DEF AtWork
  <2>2. \A s \in Stages : Settled(s)'
    BY <2>1 DEF Settled, Sound
  <2> QED
    BY <1>2, <2>2, IdleSerial DEF Taken
<1>3. CASE llm[p] # "none"
  <2>1. pc'[p] = "join" /\ name' = name /\ \A q \in Procs \ {p} : pc'[q] = "idle"
    BY <1>3 DEF Taken, Goto, Busy, TypeInv, TypeOK
  <2>2. AtWork(p)'
    BY <1>1, <2>1 DEF AtWork, Restoring, StageOf, Sound, Settled
  <2>3. \A s \in Stages : StageOf(p)' # s => Settled(s)'
    BY <2>1 DEF StageOf, Sound, Settled
  <2> QED
    BY <2>1, <2>2, <2>3, OneAtWork
<1> QED
  BY <1>2, <1>3

(* The beginning of a snapshot or a run: nothing else is under way.        *)
LEMMA StampSerial ==
  ASSUME TypeInv, TypeInv', SerialInv, Serial, Serial', NEW p \in Procs, NEW s \in Stages,
         Snapshot(p, s) \/ Run(p, s)
  PROVE  SerialInv'
<1>1. Stamp(p, s) /\ snaps' = snaps
  BY DEF Snapshot, Run
<1>2. Busy = {}
  BY <1>1 DEF Stamp, Begin, Serial
<1>3. /\ pc'[p] = "nonce" /\ StageOf(p)' = s
      /\ \A q \in Procs \ {p} : pc'[q] = "idle"
  BY <1>1, <1>2 DEF Stamp, Goto, Busy, StageOf, TypeInv, TypeOK
<1>4. (\A n \in Kept : Good(n)) /\ \A t \in Stages : Settled(t)
  BY <1>2 DEF SerialInv, InFlight, Busy
<1>5. llm'[p] # "writing"
  BY <1>2 DEF Snapshot, Run, Busy, TypeInv, TypeOK, Named
<1>6. \A t \in Stages : Settled(t)'
  <2>1. CASE Snapshot(p, s)
    BY <1>4, <2>1 DEF Snapshot, Settled, Sound
  <2>2. CASE Run(p, s)
    <3>1. dir[s] \in Dirs /\ dir' = [dir EXCEPT ![s] = [dir[s] EXCEPT !["output"] = "gone"]]
      BY <2>2 DEF Run, SetDir, TypeInv, TypeOK
    <3>2. /\ dir'[s] = [dir[s] EXCEPT !["output"] = "gone"]
          /\ \A t \in Stages \ {s} : dir'[t] = dir[t]
      BY <3>1 DEF TypeInv, TypeOK
    <3>3. [dir[s] EXCEPT !["output"] = "gone"] \in Dirs
      BY <3>1 DEF Dirs, Parts
    <3> QED
      BY <1>4, <3>1, <3>2, <3>3, SnapshotsOK DEF Settled, Sound, Dirs, Parts
  <2> QED
    BY <2>1, <2>2
<1>7. AtWork(p)'
  BY <1>3, <1>6 DEF AtWork, Settled, Restoring
<1>8. \A n \in Kept' : Good(n)'
  BY <1>1, <1>4 DEF Kept, Good
<1> QED
  BY <1>3, <1>6, <1>7, <1>8, OneAtWork

(* The steps of a snapshot.                                                *)
LEMMA TakeSerial ==
  ASSUME TypeInv, TypeInv', SerialInv, Serial, NEW p \in Procs, faults' = faults,
         Nonce(p) \/ Create(p) \/ Copy(p) \/ Copied(p) \/ List(p) \/ Evict(p) \/ Evicted(p)
  PROVE  SerialInv'
<1>1. Busy = {p} /\ pc[p] \in Taking /\ dir' = dir /\ llm' = llm
  BY DEF SerialInv, Busy, Nonce, Create, Copy, Copied, List, Evict, Evicted, Taking
<1>2. AtWork(p) /\ \A s \in Stages \ {StageOf(p)} : Settled(s)
  BY <1>1 DEF SerialInv
<1>3. \A n \in Kept : (pc[p] = "copy" /\ n = name[p]) \/ Good(n)
  BY <1>1 DEF SerialInv, InFlight, Busy
<1>4. \A q \in Procs \ {p} : pc[q] = "idle"
  BY <1>1 DEF Busy
<1>5. Sound(StageOf(p)) /\ (llm[p] # "writing" => Settled(StageOf(p)))
  BY <1>1, <1>2 DEF AtWork, Taking, Restoring
<1>6. StageOf(p) \in Stages /\ name[p] \in Names
  BY <1>1 DEF TypeInv, Named, Taking, Names, StageOf
<1>7. dir[StageOf(p)] \in Dirs
  BY <1>5, <1>6 DEF TypeInv, TypeOK, Sound
<1>q. ASSUME NEW to \in Taking, Goto(p, to), StageOf(p)' = StageOf(p)
      PROVE  /\ \A q \in Procs \ {p} : pc'[q] = "idle"
             /\ pc'[p] = to
             /\ Sound(StageOf(p))' /\ (llm'[p] # "writing" => Settled(StageOf(p))')
             /\ \A s \in Stages : pc'[p] = "idle" \/ StageOf(p)' # s => Settled(s)'
  BY <1>q, <1>1, <1>2, <1>4, <1>5 DEF Goto, TypeInv, TypeOK, Sound, Settled, Taking
<1>8. CASE Nonce(p)
  <2>1. Goto(p, "create") /\ StageOf(p)' = StageOf(p) /\ snaps' = snaps /\ pc[p] = "nonce"
    BY <1>8 DEF Nonce, StageOf, TypeInv, TypeOK
  <2>2. AtWork(p)'
    BY <1>q, <2>1 DEF AtWork, Taking, Restoring
  <2> QED
    BY <1>3, <1>q, <2>1, <2>2, OneAtWork DEF Taking, Kept, Good
<1>9. CASE Create(p)
  <2>0. pc[p] = "create"
    BY <1>9 DEF Create
  <2>1. CASE Taken(p) /\ snaps' = snaps
    <3>1. \A n \in Kept' : Good(n)'
      BY <1>3, <2>0, <2>1 DEF Kept, Good
    <3> QED
      BY <1>1, <1>2, <2>1, <3>1, TakenSerial
  <2>2. CASE ~(Taken(p) /\ snaps' = snaps)
    <3>1. /\ name[p] \notin Kept /\ Put(name[p], Nothing) /\ name' = name
          /\ todo'[p] = Parts /\ Goto(p, "copy")
      BY <1>9, <2>2 DEF Create, TypeInv, TypeOK
    <3>2. AtWork(p)'
      BY <1>q, <3>1 DEF AtWork, Taking, Restoring, StageOf, Put, Kept, Parts
    <3>3. \A n \in Kept' : n = name'[p] \/ Good(n)'
      BY <1>3, <2>0, <3>1 DEF Put, Kept, Good
    <3> QED
      BY <1>q, <3>1, <3>2, <3>3, OneAtWork DEF StageOf, Taking
  <2> QED
    BY <2>1, <2>2
<1>10. CASE Copy(p)
  <2>0. pc[p] = "copy" /\ name[p] \in Kept
    BY <1>2, <1>10 DEF Copy, AtWork
  <2>1. PICK k \in todo[p] :
          /\ Put(name[p], [snaps[name[p]] EXCEPT ![k] = dir[StageOf(p)][k]])
          /\ todo' = [todo EXCEPT ![p] = @ \ {k}]
          /\ UNCHANGED <<pc, name>>
    BY <1>5, <1>10, <2>0 DEF Copy, Sound
  <2>2. k \in Parts /\ todo'[p] = todo[p] \ {k} /\ snaps[name[p]] \in Dirs
    BY <2>0, <2>1 DEF TypeInv, TypeOK
  <2>3. /\ Kept' = Kept
        /\ snaps'[name[p]] = [snaps[name[p]] EXCEPT ![k] = dir[StageOf(p)][k]]
        /\ \A n \in Kept \ {name[p]} : snaps'[n] = snaps[n]
    BY <2>0, <2>1 DEF Put, Kept
  <2>4. /\ snaps'[name[p]][k] = dir[StageOf(p)][k]
        /\ \A j \in Parts \ {k} : snaps'[name[p]][j] = snaps[name[p]][j]
    BY <2>2, <2>3 DEF Dirs
  <2>5. /\ \A q \in Procs \ {p} : pc'[q] = "idle"
        /\ pc'[p] = "copy" /\ StageOf(p)' = StageOf(p)
        /\ Sound(StageOf(p))' /\ (llm'[p] # "writing" => Settled(StageOf(p))')
        /\ \A s \in Stages : StageOf(p)' # s => Settled(s)'
    BY <1>1, <1>2, <1>4, <1>5, <2>0, <2>1 DEF StageOf, Sound, Settled
  <2>6. "files" \notin todo'[p] => snaps'[name[p]]["files"] = "whole"
    BY <1>2, <1>5, <2>0, <2>2, <2>4 DEF AtWork, Sound, Parts
  <2>7. "output" \notin todo'[p] /\ llm'[p] = "none" => snaps'[name[p]]["output"] # "torn"
    BY <1>1, <1>2, <1>5, <2>0, <2>2, <2>4 DEF AtWork, Settled, Parts
  <2>8. AtWork(p)'
    BY <2>0, <2>1, <2>3, <2>5, <2>6, <2>7 DEF AtWork, Restoring
  <2>9. \A n \in Kept' : n = name'[p] \/ Good(n)'
    BY <1>3, <2>1, <2>3 DEF Good
  <2> QED
    BY <2>5, <2>8, <2>9, OneAtWork
<1>11. CASE Copied(p)
  <2>0. pc[p] = "copy" /\ name[p] \in Kept /\ todo[p] = {} /\ Goto(p, "list") /\ name' = name
    BY <1>2, <1>11 DEF Copied, AtWork
  <2>1. snaps[name[p]]["files"] = "whole" /\ snaps[name[p]] \in Dirs
    BY <1>2, <2>0 DEF AtWork, TypeInv, TypeOK
  <2>2. \A n \in Kept' : Good(n)'
    <3>1. CASE llm[p] = "none"
      <4>1. snaps' = snaps
        BY <1>11, <3>1 DEF Copied
      <4>2. Good(name[p])
        BY <1>2, <2>0, <2>1, <3>1 DEF AtWork, Good
      <4> QED
        BY <1>3, <4>1, <4>2 DEF Kept, Good
    <3>2. CASE llm[p] # "none"
      <4>1. ~Fault
        BY SnapshotsOK DEF Fault, TypeInv, TypeOK
      <4>2. Put(name[p], [snaps[name[p]] EXCEPT !["output"] = "gone"])
        BY <1>11, <2>0, <3>2, <4>1 DEF Copied
      <4>3. /\ Kept' = Kept
            /\ snaps'[name[p]] = [snaps[name[p]] EXCEPT !["output"] = "gone"]
            /\ \A n \in Kept \ {name[p]} : snaps'[n] = snaps[n]
        BY <2>0, <4>2 DEF Put, Kept
      <4>4. snaps'[name[p]]["output"] = "gone" /\ snaps'[name[p]]["files"] = "whole"
        BY <2>1, <4>3 DEF Dirs, Parts
      <4> QED
        BY <1>3, <4>3, <4>4 DEF Good
    <3> QED
      BY <3>1, <3>2
  <2>3. AtWork(p)'
    BY <1>q, <2>0 DEF AtWork, Taking, Restoring, StageOf
  <2> QED
    BY <1>q, <2>0, <2>2, <2>3, OneAtWork DEF StageOf, Taking
<1>12. CASE List(p)
  <2>1. Goto(p, "evict") /\ UNCHANGED <<name, snaps>> /\ pc[p] = "list"
    BY <1>12 DEF List
  <2>2. AtWork(p)'
    BY <1>q, <2>1 DEF AtWork, Taking, Restoring, StageOf
  <2> QED
    BY <1>3, <1>q, <2>1, <2>2, OneAtWork DEF StageOf, Taking, Kept, Good
<1>13. CASE Evict(p)
  <2>1. pc[p] = "evict" /\ pc' = pc /\ name' = name
    BY <1>13 DEF Evict
  <2>2. \A n \in Kept' : n \in Kept /\ snaps'[n] = snaps[n]
    BY <1>13 DEF Evict, Kept
  <2>3. /\ Sound(StageOf(p))' /\ (llm'[p] # "writing" => Settled(StageOf(p))')
        /\ \A s \in Stages : StageOf(p)' # s => Settled(s)'
    BY <1>1, <1>2, <1>5, <2>1 DEF StageOf, Sound, Settled
  <2>4. AtWork(p)'
    BY <2>1, <2>3 DEF AtWork, Restoring, StageOf
  <2>5. \A n \in Kept' : Good(n)'
    BY <1>3, <2>1, <2>2 DEF Good
  <2> QED
    BY <1>4, <2>1, <2>3, <2>4, <2>5, OneAtWork
<1>14. CASE Evicted(p)
  <2>1. \A n \in Kept' : Good(n)'
    BY <1>3, <1>14 DEF Evicted, Kept, Good
  <2> QED
    BY <1>1, <1>2, <1>14, <2>1, TakenSerial DEF Evicted
<1> QED
  BY <1>8, <1>9, <1>10, <1>11, <1>12, <1>13, <1>14

(* The model call writes its result in two steps, and the run waits.       *)
LEMMA RunSerial ==
  ASSUME TypeInv, TypeInv', SerialInv, Serial, NEW p \in Procs, Answer(p) \/ Join(p)
  PROVE  SerialInv'
<1>1. llm[p] # "none" /\ pc[p] # "idle" /\ pc[p] \notin Restoring
  BY DEF Answer, Join, TypeInv, Named
<1>2. Busy = {p}
  BY <1>1 DEF SerialInv, Busy
<1>3. AtWork(p) /\ \A s \in Stages \ {StageOf(p)} : Settled(s)
  BY <1>2 DEF SerialInv
<1>4. \A n \in Kept : (pc[p] = "copy" /\ n = name[p]) \/ Good(n)
  BY <1>2 DEF SerialInv, InFlight, Busy
<1>5. \A q \in Procs \ {p} : pc[q] = "idle"
  BY <1>2 DEF Busy
<1>6. Sound(StageOf(p)) /\ (llm[p] # "writing" => Settled(StageOf(p)))
  BY <1>1, <1>3 DEF AtWork
<1>7. StageOf(p) \in Stages /\ dir[StageOf(p)] \in Dirs
  BY <1>1, <1>6 DEF TypeInv, TypeOK, Named, Names, StageOf, Sound
<1>w. ASSUME NEW how \in {"torn", "whole"}, WriteOutput(p, how), name' = name
      PROVE  /\ Sound(StageOf(p))' /\ dir'[StageOf(p)]["output"] = how
             /\ \A s \in Stages \ {StageOf(p)} : dir'[s] = dir[s]
  <2>1. /\ dir'[StageOf(p)] = [dir[StageOf(p)] EXCEPT !["output"] = how]
        /\ \A s \in Stages \ {StageOf(p)} : dir'[s] = dir[s]
    BY <1>w, <1>6, <1>7 DEF WriteOutput, SetDir, Sound, TypeInv, TypeOK
  <2>2. /\ dir'[StageOf(p)]["output"] = how
        /\ dir'[StageOf(p)]["files"] = dir[StageOf(p)]["files"]
        /\ dir'[StageOf(p)] \in Dirs
    BY <1>7, <2>1 DEF Dirs, Parts
  <2> QED
    BY <1>6, <1>w, <2>1, <2>2, SnapshotsOK DEF Sound, StageOf
<1>8. CASE Answer(p)
  <2>1. UNCHANGED <<pc, name, todo, snaps>> /\ llm'[p] \in {"writing", "answered"}
    BY <1>8 DEF Answer, TypeInv, TypeOK
  <2>2. /\ Sound(StageOf(p))'
        /\ llm'[p] # "writing" => dir'[StageOf(p)]["output"] # "torn"
        /\ \A s \in Stages \ {StageOf(p)} : dir'[s] = dir[s]
    <3>1. CASE llm[p] = "asked" /\ WriteOutput(p, "torn") /\ llm' = [llm EXCEPT ![p] = "writing"]
      BY <1>w, <2>1, <3>1 DEF TypeInv, TypeOK
    <3>2. CASE llm[p] = "asked" /\ dir' = dir
      BY <1>6, <2>1, <3>2 DEF Settled, Sound, StageOf
    <3>3. CASE llm[p] = "writing" /\ WriteOutput(p, "whole")
      BY <1>w, <2>1, <3>3
    <3> QED
      BY <1>8, <3>1, <3>2, <3>3 DEF Answer
  <2>3. AtWork(p)'
    BY <1>1, <1>3, <2>1, <2>2 DEF AtWork, Settled, StageOf, Kept, Restoring
  <2>4. \A s \in Stages : StageOf(p)' # s => Settled(s)'
    BY <1>3, <2>1, <2>2 DEF StageOf, Settled, Sound
  <2>5. \A n \in Kept' : (pc'[p] = "copy" /\ n = name'[p]) \/ Good(n)'
    BY <1>4, <2>1 DEF Kept, Good
  <2> QED
    BY <1>1, <1>5, <2>1, <2>3, <2>4, <2>5, OneAtWork
<1>9. CASE Join(p)
  <2>1. \A n \in Kept' : Good(n)'
    BY <1>4, <1>9 DEF Join, Kept, Good
  <2>2. \A s \in Stages : Settled(s)'
    BY <1>3, <1>6, <1>9 DEF Join, Settled, Sound
  <2> QED
    BY <1>2, <1>9, <2>1, <2>2, IdleSerial DEF Join
<1> QED
  BY <1>8, <1>9

(* A restore puts back what a good snapshot has.                           *)
LEMMA RestoreSerial ==
  ASSUME TypeInv, TypeInv', SerialInv, Serial, NEW p \in Procs,
         Wipe(p) \/ Refill(p) \/ Fill(p) \/ Restored(p)
  PROVE  SerialInv'
<1>1. pc[p] \in Restoring /\ snaps' = snaps
  BY DEF Wipe, Refill, Fill, Restored, Restoring
<1>2. Busy = {p} /\ llm[p] = "none"
  BY <1>1 DEF SerialInv, Busy, Restoring, TypeInv, Named
<1>3. AtWork(p) /\ \A s \in Stages \ {StageOf(p)} : Settled(s)
  BY <1>2 DEF SerialInv
<1>4. \A n \in Kept : Good(n)
  BY <1>1, <1>2 DEF SerialInv, InFlight, Busy, Restoring
<1>5. \A q \in Procs \ {p} : pc[q] = "idle"
  BY <1>2 DEF Busy
<1>6. name[p] \in Kept /\ StageOf(p) \in Stages
  BY <1>1, <1>3 DEF AtWork, TypeInv, Named, Names, StageOf, Restoring
<1>7. \A n \in Kept' : Good(n)'
  BY <1>1, <1>4 DEF Kept, Good
<1>d. ASSUME NEW d, SetDir(StageOf(p), d), name' = name
      PROVE  /\ dir'[StageOf(p)] = d /\ StageOf(p)' = StageOf(p)
             /\ \A s \in Stages : StageOf(p)' # s => Settled(s)'
  BY <1>3, <1>6, <1>d DEF SetDir, Settled, Sound, StageOf, TypeInv, TypeOK
<1>8. CASE Wipe(p)
  <2>1. SetDir(StageOf(p), Absent) /\ Goto(p, "refill") /\ name' = name
    BY <1>8 DEF Wipe
  <2>2. pc'[p] = "refill" /\ \A q \in Procs \ {p} : pc'[q] = "idle"
    BY <1>5, <2>1 DEF Goto, TypeInv, TypeOK
  <2>3. AtWork(p)'
    BY <1>1, <1>6, <1>d, <2>1, <2>2 DEF AtWork, Restoring, Kept
  <2> QED
    BY <1>7, <1>d, <2>1, <2>2, <2>3, OneAtWork
<1>9. CASE Refill(p)
  <2>1. /\ SetDir(StageOf(p), Nothing) /\ Goto(p, "fill") /\ name' = name
        /\ todo'[p] = Parts
    BY <1>3, <1>6, <1>9 DEF Refill, AtWork, TypeInv, TypeOK
  <2>2. pc'[p] = "fill" /\ \A q \in Procs \ {p} : pc'[q] = "idle"
    BY <1>5, <2>1 DEF Goto, TypeInv, TypeOK
  <2>3. Nothing # Absent
    BY NothingType, SnapshotsOK
  <2>4. AtWork(p)'
    BY <1>1, <1>6, <1>d, <2>1, <2>2, <2>3 DEF AtWork, Restoring, Kept
  <2> QED
    BY <1>7, <1>d, <2>1, <2>2, <2>4, OneAtWork
<1>10. CASE Fill(p)
  <2>0. pc[p] = "fill" /\ dir[StageOf(p)] # Absent
    BY <1>3, <1>10 DEF Fill, AtWork
  <2>1. PICK k \in todo[p] :
          /\ SetDir(StageOf(p), [dir[StageOf(p)] EXCEPT ![k] = snaps[name[p]][k]])
          /\ todo' = [todo EXCEPT ![p] = @ \ {k}]
          /\ UNCHANGED <<pc, name>>
    BY <1>6, <1>10, <2>0 DEF Fill
  <2>2. k \in Parts /\ todo'[p] = todo[p] \ {k} /\ dir[StageOf(p)] \in Dirs
    BY <1>6, <2>0, <2>1 DEF TypeInv, TypeOK
  <2>3. /\ dir'[StageOf(p)] = [dir[StageOf(p)] EXCEPT ![k] = snaps[name[p]][k]]
        /\ StageOf(p)' = StageOf(p)
    BY <1>d, <2>1
  <2>4. dir'[StageOf(p)] # Absent
    <3>1. snaps[name[p]] \in Dirs
      BY <1>6 DEF TypeInv, TypeOK
    <3>2. dir'[StageOf(p)] \in Dirs
      BY <2>2, <2>3, <3>1 DEF Dirs
    <3> QED
      BY <3>2, SnapshotsOK
  <2>5. \A j \in Parts \ todo'[p] : dir'[StageOf(p)][j] = snaps[name[p]][j]
    BY <1>3, <2>0, <2>2, <2>3 DEF AtWork, Dirs
  <2>6. AtWork(p)'
    BY <1>1, <1>6, <2>0, <2>1, <2>3, <2>4, <2>5 DEF AtWork, Restoring, Kept
  <2>7. \A s \in Stages : StageOf(p)' # s => Settled(s)'
    BY <1>d, <2>1
  <2> QED
    BY <1>5, <1>7, <2>0, <2>1, <2>6, <2>7, OneAtWork
<1>11. CASE Restored(p)
  <2>1. dir[StageOf(p)] # Absent /\ \A k \in Parts : dir[StageOf(p)][k] = snaps[name[p]][k]
    BY <1>3, <1>11 DEF Restored, AtWork
  <2>2. Settled(StageOf(p))
    BY <1>4, <1>6, <2>1 DEF Good, Settled, Sound, Parts
  <2>3. \A s \in Stages : Settled(s)'
    BY <1>3, <1>11, <2>2 DEF Restored, Settled, Sound
  <2> QED
    BY <1>2, <1>7, <1>11, <2>3, IdleSerial DEF Restored
<1> QED
  BY <1>8, <1>9, <1>10, <1>11

(* One at a time, every step keeps snapshots good and stages settled.      *)
LEMMA SerialStep == ASSUME TypeInv, SerialInv, [Next]_vars PROVE SerialInv'
<1> SUFFICES ASSUME Serial' PROVE SerialInv'
  BY DEF SerialInv
<1>1. Serial /\ faults' = faults /\ TypeInv'
  BY StaysSerial, TypeInvStep
<1>2. faults \in Nat
  BY SnapshotsOK DEF TypeInv, TypeOK
<1>3. ~Fault
  BY <1>1, <1>2 DEF Fault
<1>4. CASE UNCHANGED <<dir, snaps, pc, name, todo, llm>>
  BY <1>1, <1>4 DEF SerialInv, Busy, InFlight, Kept, Good, Settled, Sound, AtWork, StageOf
<1>5. CASE Tick \/ UNCHANGED vars
  BY <1>4, <1>5 DEF Tick, vars
<1>6. ASSUME NEW p \in Procs, NEW s \in Stages, Restore(p, s) PROVE SerialInv'
  <2>1. PICK n \in Kept : n.stage = s /\ name' = [name EXCEPT ![p] = n]
    BY <1>6 DEF Restore
  <2>2. Busy = {}
    BY <1>1, <1>6 DEF Restore, Begin, Serial
  <2>3. /\ pc'[p] = "wipe" /\ name'[p] = n /\ UNCHANGED <<dir, snaps>>
        /\ \A q \in Procs \ {p} : pc'[q] = "idle"
    BY <1>6, <2>1, <2>2 DEF Restore, Goto, Busy, TypeInv, TypeOK
  <2>4. (\A m \in Kept : Good(m)) /\ \A t \in Stages : Settled(t)
    BY <1>1, <2>2 DEF SerialInv, InFlight, Busy
  <2>5. AtWork(p)'
    BY <2>1, <2>3 DEF AtWork, Restoring, Kept
  <2>6. (\A m \in Kept' : Good(m)') /\ \A t \in Stages : Settled(t)'
    BY <2>3, <2>4 DEF Kept, Good, Settled, Sound
  <2> QED
    BY <2>3, <2>5, <2>6, OneAtWork
<1>7. ASSUME NEW p \in Procs PROVE ~IoFails(p) /\ ~Crash(p)
  BY <1>3 DEF IoFails, Crash
<1> QED
  BY <1>1, <1>5, <1>6, <1>7, StampSerial, TakeSerial, RunSerial, RestoreSerial DEF Next

(* At first every stage is there and nothing is under way.                 *)
LEMMA SerialInit == ASSUME Init PROVE SerialInv
<1>1. \A s \in Stages : dir[s] = [Nothing EXCEPT !["files"] = "whole"]
  BY DEF Init
<1>2. [Nothing EXCEPT !["files"] = "whole"] \in Dirs
  BY DEF Nothing, Dirs, Parts
<1>3. \A s \in Stages : Settled(s)
  BY <1>1, <1>2, SnapshotsOK DEF Settled, Sound, Nothing, Parts
<1>4. Kept = {} /\ Busy = {}
  BY DEF Init, Kept, Busy
<1> QED
  BY <1>3, <1>4 DEF SerialInv

(* Together with the types the argument holds in every state.              *)
LEMMA SerialInvariant == Spec => []SerialInv
<1>1. TypeInv /\ SerialInv /\ [Next]_vars => TypeInv' /\ SerialInv'
  BY TypeInvStep, SerialStep
<1> QED
  BY TypeInvInit, SerialInit, <1>1, PTL DEF Spec

(* While one operation at a time is under way and none has failed, no      *)
(* snapshot keeps a half-written result, although the model writes beside  *)
(* the copy (state.rs:848).                                                *)
THEOREM NoneIsTorn == Spec => []NoTornResult
<1>1. SerialInv => NoTornResult
  BY DEF SerialInv, NoTornResult, Good
<1> QED
  BY SerialInvariant, <1>1, PTL

(* And no order of runs, snapshots, deletions and restores loses a stage,  *)
(* although a restore removes it first (state.rs:925).                     *)
THEOREM NoStageIsLost == Spec => []StageSurvives
<1>1. SerialInv => StageSurvives
  BY DEF SerialInv, StageSurvives, Settled, Sound
<1> QED
  BY SerialInvariant, <1>1, PTL
=============================================================================
