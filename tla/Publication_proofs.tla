------------------------- MODULE Publication_proofs -------------------------
(***************************************************************************)
(* Theorems about what is published: the records of the contribution       *)
(* store, and, further down, the prompts between stages.                   *)
(*                                                                         *)
(* The store, for any records, publishers, readers and number of failures: *)
(* its theorems hold when no two publishers publish the identical record   *)
(* (OneMaker: each stamps its records with its own creation time).         *)
(*                                                                         *)
(* The inductive invariant says what a publisher has established at each   *)
(* place of publish: what the record refers to is stored, its own file is  *)
(* not there yet, and the temporary file is whole when it is renamed.  It  *)
(* lasts because nobody else writes these two files.                       *)
(*                                                                         *)
(* The prompts, for any senders, pollers, routes, channel sizes and number *)
(* of failures: the invariant is the line they stand in (InLine) and what  *)
(* has become of a file that was written (InPlace).                        *)
(***************************************************************************)
EXTENDS ContributionStore, PromptBridge, SequenceTheorems, TLAPS

OneMaker ==
  \A p, q \in Publishers : p # q => Makes[p] \cap Makes[q] = {}

Refs(r) == Parents[r] \cup Targets[r]

OwnWork == \A p \in Publishers : pc[p] # "idle" => rec[p] \in Makes[p]

Whole == \A r \in Records : final[r] # "torn"

Progress(p) ==
  /\ pc[p] = "refs" =>
       \A d \in Parents[rec[p]] \ todo[p] : final[d] = "full"
  /\ pc[p] \in {"look", "open", "fill", "rename"} =>
       /\ \A d \in Refs(rec[p]) : final[d] = "full"
       /\ Targets[rec[p]] \cap Verifications = {}
  /\ pc[p] \in {"open", "fill", "rename"} => final[rec[p]] = "none"
  /\ pc[p] = "rename" => tmp[rec[p]] = "full"
  /\ fd[p] = IF pc[p] = "fill" THEN "tmp" ELSE "closed"

AckedStored == \A r \in acked : final[r] = "full"

StoreInv ==
  /\ TypeOK
  /\ OwnWork
  /\ Whole
  /\ \A p \in Publishers : Progress(p)
  /\ AckedStored
  /\ FreshView

-----------------------------------------------------------------------------
(* The variables keep their types.                                         *)
LEMMA PublishingType ==
  ASSUME TypeOK, NEW p \in Publishers, Publishing(p)
  PROVE  TypeOK'
<1>. USE StoreOK DEF TypeOK, Contents, Goto, writers, readers
<1>1. \A how \in {"none", "ok", "error"} :
        Answer(p, how) =>
          /\ pc' \in [Publishers ->
                        {"idle", "refs", "look", "open", "fill", "rename"}]
          /\ pc'[p] = "idle" /\ \A q \in Publishers : q # p => pc'[q] = pc[q]
          /\ result' \in [Publishers -> {"none", "ok", "error"}]
          /\ todo' \in [Publishers -> SUBSET Records]
  BY DEF Answer
<1>2. ASSUME NEW what, Fault(what) PROVE faults' \in 0..MaxFaults
  BY <1>2 DEF Fault
<1>3. ASSUME NEW r \in Records, Publish(p, r) PROVE TypeOK'
  BY <1>3 DEF Publish
<1>4. ASSUME NEW d \in Records, CheckParent(p, d) PROVE TypeOK'
  BY <1>1, <1>4 DEF CheckParent
<1>5. CASE CheckTarget(p)
  BY <1>1, <1>5 DEF CheckTarget
<1>6. CASE Look(p)
  BY <1>1, <1>6 DEF Look
<1>7. CASE Open(p)
  BY <1>7 DEF Open
<1>8. CASE Fill(p)
  BY <1>8 DEF Fill
<1>9. CASE Rename(p)
  <2>1. Renamed(p) \in [Publishers -> {"closed", "tmp", "final", "orphan"}]
    BY DEF Renamed
  <2>2. CASE tmp[rec[p]] = "none"
    BY <1>1, <1>9, <2>2 DEF Rename
  <2>3. CASE tmp[rec[p]] # "none"
    <3>1. rec[p] \in Records
      BY <1>9 DEF Rename
    <3>2. /\ final' \in [Records -> Contents]
          /\ tmp' \in [Records -> Contents]
          /\ acked' = acked \cup {rec[p]}
      BY <1>9, <2>3, <3>1 DEF Rename
    <3>. QED  BY <1>1, <1>9, <2>1, <2>3, <3>1, <3>2 DEF Rename
  <2>. QED  BY <2>2, <2>3
<1>10. CASE IoFails(p)
  BY <1>1, <1>2, <1>10 DEF IoFails
<1>11. CASE Crash(p)
  BY <1>1, <1>2, <1>11 DEF Crash
<1>. QED
  BY <1>3, <1>4, <1>5, <1>6, <1>7, <1>8, <1>9, <1>10, <1>11 DEF Publishing

LEMMA OpeningType ==
  ASSUME TypeOK, NEW q \in Readers, Opening(q)
  PROVE  TypeOK'
<1>. USE DEF TypeOK, writers
<1>1. CASE OpenGraph(q)
  BY <1>1 DEF OpenGraph
<1>2. CASE ListFails(q)
  BY <1>2, StoreOK DEF ListFails, Fault
<1>3. ASSUME NEW r \in Records, ReadFile(q, r) PROVE TypeOK'
  BY <1>3 DEF ReadFile
<1>4. ASSUME NEW r \in Records, SkipFile(q, r) PROVE TypeOK'
  BY <1>4, StoreOK DEF SkipFile, Fault
<1>. QED  BY <1>1, <1>2, <1>3, <1>4 DEF Opening

-----------------------------------------------------------------------------
(* A publisher keeps working on its own record.                            *)
LEMMA WorkStaysOwn ==
  ASSUME TypeOK, OwnWork, NEW p \in Publishers, Publishing(p)
  PROVE  OwnWork'
BY DEF TypeOK, OwnWork, Publishing, Publish, CheckParent, CheckTarget, Look,
   Open, Fill, Rename, IoFails, Crash, Answer, Goto, readers

(* Busy publishers work on different records.                              *)
LEMMA Apart ==
  ASSUME OneMaker, OwnWork, NEW p \in Publishers, NEW q \in Publishers,
         p # q, pc[p] # "idle", pc[q] # "idle"
  PROVE  rec[p] # rec[q]
BY DEF OneMaker, OwnWork

(* A step of a publisher changes the files of its own record only, its     *)
(* temporary file aside it only adds a whole one, and it leaves the other  *)
(* publishers where they are.                                              *)
LEMMA OwnFilesOnly ==
  ASSUME StoreInv, OneMaker, NEW p \in Publishers, Publishing(p)
  PROVE  /\ \A r \in Records :
              \/ final'[r] = final[r]
              \/ r = rec[p] /\ pc[p] = "rename" /\ Rename(p)
                 /\ final[r] = "none" /\ final'[r] = "full"
         /\ \A r \in Records :
              tmp'[r] = tmp[r] \/ (r = rec[p] /\ pc[p] # "idle")
         /\ \A q \in Publishers : q # p =>
              /\ pc'[q] = pc[q] /\ rec'[q] = rec[q]
              /\ todo'[q] = todo[q] /\ fd'[q] = fd[q]
<1>. USE DEF StoreInv, TypeOK, Answer, Goto, readers
<1>1. CASE \E r \in Records : Publish(p, r) \/ CheckParent(p, r)
  BY <1>1 DEF Publish, CheckParent
<1>2. CASE CheckTarget(p) \/ Look(p)
  BY <1>2 DEF CheckTarget, Look
<1>3. CASE Open(p)
  BY <1>3 DEF Open
<1>4. CASE Fill(p)
  <2>1. fd[p] = "tmp"
    BY <1>4 DEF Fill, Progress
  <2>. QED  BY <1>4, <2>1 DEF Fill
<1>5. CASE Rename(p)
  <2>1. tmp[rec[p]] = "full" /\ final[rec[p]] = "none" /\ pc[p] = "rename"
    BY <1>5 DEF Rename, Progress
  <2>2. ASSUME NEW q \in Publishers, q # p
        PROVE  fd'[q] = fd[q]
    <3>1. CASE pc[q] = "fill"
      BY <1>5, <2>1, <2>2, <3>1, Apart DEF Rename, Renamed
    <3>2. CASE pc[q] # "fill"
      BY <1>5, <2>1, <2>2, <3>2 DEF Rename, Renamed, Progress
    <3>. QED  BY <3>1, <3>2
  <2>. QED  BY <1>5, <2>1, <2>2 DEF Rename
<1>6. CASE IoFails(p) \/ Crash(p)
  BY <1>6 DEF IoFails, Crash
<1>. QED
  BY <1>1, <1>2, <1>3, <1>4, <1>5, <1>6 DEF Publishing

(* Whole files stay whole, and no file is torn.                            *)
LEMMA FilesStayWhole ==
  ASSUME StoreInv, OneMaker, NEW p \in Publishers, Publishing(p)
  PROVE  /\ \A r \in Records : final[r] = "full" => final'[r] = "full"
         /\ Whole'
BY OwnFilesOnly DEF StoreInv, Whole

(* The other publishers keep what they have established.                   *)
LEMMA OthersProgress ==
  ASSUME StoreInv, OneMaker, NEW p \in Publishers, Publishing(p),
         NEW q \in Publishers, q # p
  PROVE  Progress(q)'
<1>1. /\ pc'[q] = pc[q] /\ rec'[q] = rec[q]
      /\ todo'[q] = todo[q] /\ fd'[q] = fd[q]
  BY OwnFilesOnly
<1>2. Progress(q)
  BY DEF StoreInv
<1>3. ASSUME pc[q] # "idle"
      PROVE  /\ rec[q] \in Records
             /\ Refs(rec[q]) \subseteq Records
             /\ \A d \in Refs(rec[q]) : final[d] = "full" => final'[d] = "full"
  BY <1>3, StoreOK, FilesStayWhole DEF StoreInv, TypeOK, Refs
<1>4. ASSUME pc[q] \in {"open", "fill", "rename"}
      PROVE  final'[rec[q]] = final[rec[q]]
  <2>1. pc[p] = "rename" => rec[p] # rec[q]
    BY <1>4, Apart DEF StoreInv
  <2>. QED  BY <1>3, <1>4, <2>1, OwnFilesOnly
<1>5. ASSUME pc[q] = "rename" PROVE tmp'[rec[q]] = tmp[rec[q]]
  <2>1. pc[p] # "idle" => rec[p] # rec[q]
    BY <1>5, Apart DEF StoreInv
  <2>. QED  BY <1>3, <1>5, <2>1, OwnFilesOnly
<1>. QED  BY <1>1, <1>2, <1>3, <1>4, <1>5 DEF Progress, Refs

(* A publisher establishes what its next place needs.                      *)
LEMMA OwnProgress ==
  ASSUME StoreInv, OneMaker, NEW p \in Publishers, Publishing(p)
  PROVE  Progress(p)'
<1>1. Progress(p) /\ TypeOK /\ Whole
  BY DEF StoreInv
<1>. USE <1>1, StoreOK DEF TypeOK, Goto
<1>2. ASSUME NEW r \in Records, Publish(p, r) PROVE Progress(p)'
  BY <1>2 DEF Publish, Progress
<1>3. ASSUME NEW how, Answer(p, how), fd'[p] = "closed" PROVE Progress(p)'
  BY <1>3 DEF Answer, Progress
<1>4. ASSUME NEW d \in Records, CheckParent(p, d) PROVE Progress(p)'
  BY <1>3, <1>4 DEF CheckParent, Progress, Readable
<1>5. CASE CheckTarget(p)
  <2>1. CASE \A d \in Targets[rec[p]] : Readable(d) /\ d \notin Verifications
    BY <1>5, <2>1 DEF CheckTarget, Progress, Readable, Refs
  <2>2. CASE Answer(p, "error")
    BY <1>3, <1>5, <2>2 DEF CheckTarget, Progress
  <2>. QED  BY <1>5, <2>1, <2>2 DEF CheckTarget
<1>6. CASE Look(p)
  BY <1>3, <1>6 DEF Look, Progress
<1>7. CASE Open(p)
  BY <1>7 DEF Open, Progress
<1>8. CASE Fill(p)
  BY <1>8 DEF Fill, Progress
<1>9. CASE Rename(p)
  <2>1. tmp[rec[p]] = "full" /\ fd[p] = "closed"
    BY <1>9 DEF Rename, Progress
  <2>2. fd'[p] = "closed" /\ Answer(p, "ok")
    BY <1>9, <2>1 DEF Rename, Renamed
  <2>. QED  BY <1>3, <2>2
<1>10. CASE IoFails(p) \/ Crash(p)
  BY <1>3, <1>10 DEF IoFails, Crash
<1>. QED
  BY <1>2, <1>4, <1>5, <1>6, <1>7, <1>8, <1>9, <1>10 DEF Publishing

(* Only stored records are acknowledged.                                   *)
LEMMA AckedStaysStored ==
  ASSUME StoreInv, OneMaker, NEW p \in Publishers, Publishing(p)
  PROVE  AckedStored'
<1>1. ASSUME NEW r \in acked' \ acked PROVE r \in Records /\ final'[r] = "full"
  <2>1. CASE Look(p)
    BY <1>1, <2>1 DEF Look, StoreInv, TypeOK
  <2>2. CASE Rename(p)
    BY <1>1, <2>2 DEF Rename, StoreInv, TypeOK, Progress
  <2>3. CASE Open(p) \/ Fill(p) \/ CheckTarget(p) \/ IoFails(p) \/ Crash(p)
    BY <1>1, <2>3 DEF Open, Fill, CheckTarget, IoFails, Crash
  <2>4. CASE \E d \in Records : Publish(p, d) \/ CheckParent(p, d)
    BY <1>1, <2>4 DEF Publish, CheckParent
  <2>. QED  BY <2>1, <2>2, <2>3, <2>4 DEF Publishing
<1>2. \A r \in acked : r \in Records /\ final'[r] = "full"
  BY FilesStayWhole DEF StoreInv, TypeOK, AckedStored
<1>. QED  BY <1>1, <1>2 DEF AckedStored

-----------------------------------------------------------------------------
(* StoreInv holds at the start and after every step.                       *)
LEMMA StoreInvInit == Init => StoreInv
BY StoreOK DEF Init, StoreInv, TypeOK, Contents, OwnWork, Whole, Progress,
   AckedStored, FreshView

LEMMA StoreInvNext ==
  ASSUME OneMaker, StoreInv, [Next]_vars
  PROVE  StoreInv'
<1>1. CASE UNCHANGED vars
  BY <1>1 DEF vars, writers, readers, StoreInv, TypeOK, OwnWork, Whole,
     Progress, AckedStored, FreshView
<1>2. ASSUME NEW p \in Publishers, Publishing(p) PROVE StoreInv'
  <2>1. TypeOK' /\ OwnWork'
    BY <1>2, PublishingType, WorkStaysOwn DEF StoreInv
  <2>2. Whole' /\ AckedStored'
    BY <1>2, FilesStayWhole, AckedStaysStored
  <2>3. \A q \in Publishers : Progress(q)'
    BY <1>2, OthersProgress, OwnProgress
  <2>4. UNCHANGED readers
    BY <1>2 DEF Publishing, Publish, CheckParent, CheckTarget, Look, Open,
       Fill, Rename, IoFails, Crash
  <2>5. FreshView'
    BY <2>4 DEF StoreInv, FreshView, readers
  <2>. QED  BY <2>1, <2>2, <2>3, <2>5 DEF StoreInv
<1>3. ASSUME NEW q \in Readers, Opening(q) PROVE StoreInv'
  <2>1. TypeOK'
    BY <1>3, OpeningType DEF StoreInv
  <2>2. UNCHANGED <<final, tmp, writers, acked>>
    BY <1>3 DEF Opening, OpenGraph, ReadFile, SkipFile, ListFails
  <2>3. OwnWork' /\ Whole' /\ AckedStored'
    BY <2>2 DEF StoreInv, OwnWork, Whole, AckedStored, writers
  <2>4. \A p \in Publishers : Progress(p)'
    BY <2>2 DEF StoreInv, Progress, writers
  <2>5. FreshView'
    <3>1. CASE OpenGraph(q)
      BY <3>1 DEF OpenGraph, StoreInv, TypeOK, FreshView
    <3>2. ASSUME NEW r \in Records, ReadFile(q, r) PROVE FreshView'
      <4>1. r \in due[q] => Readable(r) \/ r \in Crlf
        BY DEF StoreInv, TypeOK, AckedStored, Readable
      <4>. QED  BY <3>2, <4>1 DEF ReadFile, StoreInv, TypeOK, FreshView
    <3>3. ASSUME NEW r \in Records, SkipFile(q, r) PROVE FreshView'
      BY <3>3 DEF SkipFile, StoreInv, TypeOK, FreshView
    <3>4. CASE ListFails(q)
      BY <3>4 DEF ListFails, StoreInv, TypeOK, FreshView
    <3>. QED  BY <1>3, <3>1, <3>2, <3>3, <3>4 DEF Opening
  <2>. QED  BY <2>1, <2>3, <2>4, <2>5 DEF StoreInv
<1>. QED  BY <1>1, <1>2, <1>3 DEF Next

LEMMA StoreInvariant ==
  ASSUME OneMaker PROVE Spec => []StoreInv
<1>1. StoreInv /\ [Next]_vars => StoreInv'
  BY StoreInvNext
<1>. QED  BY <1>1, StoreInvInit, PTL DEF Spec

(* An acknowledged record keeps its content for ever and can be read,      *)
(* unless its body has CR LF (graph_store.rs publish: content first, then  *)
(* the rename).                                                            *)
THEOREM Durable ==
  ASSUME OneMaker
  PROVE  Spec => [](TypeOK /\ AckedReadable)
<1>1. StoreInv => TypeOK /\ AckedReadable
  BY DEF StoreInv, AckedStored, AckedReadable, Readable
<1>. QED  BY <1>1, StoreInvariant, PTL

(* A graph that is opened sees what was acknowledged before, although its  *)
(* files are read one by one (graph_store.rs list), except for the records *)
(* whose read failed in this opening and those whose body has CR LF.       *)
THEOREM FreshOnOpen ==
  ASSUME OneMaker
  PROVE  Spec => []FreshView
<1>1. StoreInv => FreshView
  BY DEF StoreInv
<1>. QED  BY <1>1, StoreInvariant, PTL

-----------------------------------------------------------------------------
(* Every step adds one record to the graph, after what it refers to, or    *)
(* none.                                                                   *)
LEMMA StepKeepsDag ==
  ASSUME OneMaker, StoreInv, [Next]_vars
  PROVE  [Graph!DagNext]_({r \in Records : final[r] = "full"})
<1>1. CASE final' = final
  BY <1>1
<1>2. ASSUME NEW p \in Publishers, Publishing(p), final' # final
      PROVE  \E r \in Records : Graph!Add(r)
  <2>1. DOMAIN final = Records /\ DOMAIN final' = Records
    BY <1>2, PublishingType DEF StoreInv, TypeOK
  <2>2. PICK r \in Records : final'[r] # final[r]
    BY <1>2, <2>1, PublishingType DEF StoreInv, TypeOK
  <2>3. /\ r = rec[p] /\ pc[p] = "rename"
        /\ final[r] = "none" /\ final'[r] = "full"
    BY <1>2, <2>2, OwnFilesOnly
  <2>4. \A s \in Records : s # r => final'[s] = final[s]
    BY <1>2, <2>3, OwnFilesOnly
  <2>5. /\ Refs(r) \subseteq {s \in Records : final[s] = "full"}
        /\ Targets[r] \cap Verifications = {}
    BY <2>3, StoreOK DEF StoreInv, Progress, Refs
  <2>6. {s \in Records : final'[s] = "full"}
          = {s \in Records : final[s] = "full"} \cup {r}
    BY <2>3, <2>4
  <2>. QED  BY <2>3, <2>5, <2>6 DEF Graph!Add, Refs
<1>3. ASSUME NEW q \in Readers, Opening(q) PROVE final' = final
  BY <1>3 DEF Opening, OpenGraph, ReadFile, SkipFile, ListFails
<1>. QED
  BY <1>1, <1>2, <1>3 DEF Next, vars, Graph!DagNext

(* The store implements ContributionDag: records only ever appear, whole   *)
(* and after everything they build on or verify.                           *)
THEOREM StoreRefinesDag ==
  ASSUME OneMaker
  PROVE  Spec => KeepsDag
<1>1. Init => Graph!DagInit
  BY DEF Init, Graph!DagInit
<1>2. StoreInv /\ [Next]_vars
        => [Graph!DagNext]_({r \in Records : final[r] = "full"})
  BY StepKeepsDag
<1>. QED  BY <1>1, <1>2, StoreInvariant, PTL DEF Spec, KeepsDag, Graph!Dag

-----------------------------------------------------------------------------
(* Prompts.  A message stays behind those that were published before it on *)
(* its whole way, from the channel to the file: the subscriber works on    *)
(* one message at a time, and each queue is first in, first out.           *)
(* What is published; its types are all that the proofs need of it.        *)
Messages == [id : Nat, wf : Workflows, from : Stages, to : Stages]

BridgeTypes ==
  /\ log \in Seq(Messages)
  /\ asked \in Nat /\ job \in Nat /\ failures \in Nat
  /\ at \in [Clients -> {"idle", "put", "publish", "poll"}]
  /\ DOMAIN ask = Clients
  /\ \A c \in Clients : at[c] \in {"put", "publish"} => ask[c] \in Messages
  /\ ring \in [Subs -> Seq(Nat)] /\ fwd \in [Subs -> Seq(Nat)] /\ held \in [Subs -> Nat]
  /\ file \in [Workflows -> [Stages -> [Stages -> Nat \cup {None, Torn}]]]

(* The elements of a queue, the place for at most one message, and order.  *)
Els(s) == {s[i] : i \in DOMAIN s}
One(n) == {n} \ {0}
Increasing(s) == \A i, j \in DOMAIN s : i < j => s[i] < s[j]
Below(S, T) == \A m \in S, n \in T : m < n

(* What is written, worked on, forwarded, held and in the channel follow   *)
(* each other as they were published.                                      *)
InLine ==
  /\ Increasing(fwd[Bridge]) /\ Increasing(ring[Bridge])
  /\ Below(bridged, One(job) \cup Els(fwd[Bridge]) \cup One(held[Bridge]) \cup Els(ring[Bridge]))
  /\ Below(One(job), Els(fwd[Bridge]) \cup One(held[Bridge]) \cup Els(ring[Bridge]))
  /\ Below(Els(fwd[Bridge]), One(held[Bridge]) \cup Els(ring[Bridge]))
  /\ Below(One(held[Bridge]), Els(ring[Bridge]))
  /\ bridged \cup One(job) \cup Els(fwd[Bridge]) \cup One(held[Bridge]) \cup Els(ring[Bridge])
       \subseteq 1..Len(log)

(* A written prompt is in its place, or the file is being filled again, a  *)
(* later one was, or the stage in front was run.                           *)
Stays(n) ==
  \/ InFile(n) = n
  \/ \E m \in bridged : m > n /\ SameFile(m, n)
  \/ step = "filling" /\ SameFile(job, n)
  \/ <<log[n].wf, log[n].to - 1>> \in running

InPlace ==
  /\ step \in {"fetching", "writing", "filling"} => job # 0
  /\ failures = 0 /\ step = "filling" =>
       InFile(job) = Torn \/ <<log[job].wf, log[job].to - 1>> \in running
  /\ failures = 0 => \A n \in bridged : Stays(n)

-----------------------------------------------------------------------------
(* A message joins a channel at its end.                                   *)
LEMMA Joins ==
  ASSUME NEW s \in Seq(Nat), NEW x \in Nat
  PROVE  /\ Append(s, x) \in Seq(Nat)
         /\ Els(Append(s, x)) = Els(s) \cup {x}
         /\ Increasing(s) /\ Below(Els(s), {x}) => Increasing(Append(s, x))
<1>1. /\ Len(s) \in Nat /\ DOMAIN s = 1..Len(s) /\ DOMAIN Append(s, x) = 1..(Len(s) + 1)
      /\ Append(s, x)[Len(s) + 1] = x /\ \A i \in 1..Len(s) : Append(s, x)[i] = s[i]
      /\ Append(s, x) \in Seq(Nat) /\ \A i \in 1..Len(s) : s[i] \in Nat
  BY AppendProperties
<1> DEFINE t == Append(s, x)
<1> HIDE DEF t
<1>2. Els(t) = Els(s) \cup {x}
  <2>1. \A i \in 1..(Len(s) + 1) : i \in 1..Len(s) \/ i = Len(s) + 1
    BY <1>1
  <2>2. Len(s) + 1 \in 1..(Len(s) + 1) /\ 1..Len(s) \subseteq 1..(Len(s) + 1)
    BY <1>1
  <2> QED
    BY <1>1, <2>1, <2>2 DEF Els, t
<1>3. ASSUME Increasing(s), Below(Els(s), {x}) PROVE Increasing(t)
  <2> SUFFICES ASSUME NEW i \in 1..(Len(s) + 1), NEW j \in 1..(Len(s) + 1), i < j
               PROVE  t[i] < t[j]
    BY <1>1 DEF Increasing, t
  <2>1. i \in 1..Len(s)
    BY <1>1
  <2>2. CASE j \in 1..Len(s)
    BY <1>1, <1>3, <2>1, <2>2 DEF Increasing, t
  <2>3. CASE j = Len(s) + 1
    BY <1>1, <1>3, <2>1, <2>3 DEF Below, Els, t
  <2> QED
    BY <1>1, <2>2, <2>3
<1> QED
  BY <1>1, <1>2, <1>3 DEF t

(* And leaves it from the front.                                           *)
LEMMA Leaves ==
  ASSUME NEW s \in Seq(Nat), s # <<>>
  PROVE  /\ Head(s) \in Nat /\ Tail(s) \in Seq(Nat)
         /\ Els(s) = {Head(s)} \cup Els(Tail(s))
         /\ Increasing(s) => Increasing(Tail(s)) /\ Below({Head(s)}, Els(Tail(s)))
<1> DEFINE t == Tail(s)
<1>1. /\ Len(s) \in Nat /\ Len(s) >= 1 /\ DOMAIN s = 1..Len(s) /\ DOMAIN t = 1..(Len(s) - 1)
      /\ Head(s) = s[1] /\ \A i \in 1..(Len(s) - 1) : t[i] = s[i + 1]
      /\ t \in Seq(Nat) /\ \A i \in 1..Len(s) : s[i] \in Nat
  BY HeadTailProperties
<1> HIDE DEF t
<1>2. Els(s) = {Head(s)} \cup Els(t)
  <2>1. \A i \in 1..Len(s) : i = 1 \/ (i - 1 \in 1..(Len(s) - 1) /\ (i - 1) + 1 = i)
    BY <1>1
  <2>2. 1 \in 1..Len(s) /\ \A i \in 1..(Len(s) - 1) : i + 1 \in 1..Len(s)
    BY <1>1
  <2>3. ASSUME NEW i \in 1..Len(s) PROVE s[i] \in {Head(s)} \cup Els(t)
    <3>1. CASE i = 1
      BY <1>1, <3>1
    <3>2. CASE i - 1 \in 1..(Len(s) - 1) /\ (i - 1) + 1 = i
      BY <1>1, <3>2 DEF Els
    <3> QED
      BY <2>1, <3>1, <3>2
  <2>4. ASSUME NEW i \in 1..(Len(s) - 1) PROVE t[i] \in Els(s)
    BY <1>1, <2>2 DEF Els
  <2>5. Els(t) \subseteq Els(s)
    BY <1>1, <2>4 DEF Els
  <2> QED
    BY <1>1, <2>2, <2>3, <2>5 DEF Els
<1>3. ASSUME Increasing(s) PROVE Increasing(t) /\ Below({Head(s)}, Els(t))
  <2>1. ASSUME NEW i \in 1..(Len(s) - 1), NEW j \in 1..(Len(s) - 1), i < j PROVE t[i] < t[j]
    <3>1. i + 1 \in 1..Len(s) /\ j + 1 \in 1..Len(s) /\ i + 1 < j + 1
      BY <1>1, <2>1
    <3> QED
      BY <1>1, <1>3, <3>1 DEF Increasing
  <2>2. ASSUME NEW i \in 1..(Len(s) - 1) PROVE s[1] < t[i]
    <3>1. 1 \in 1..Len(s) /\ i + 1 \in 1..Len(s) /\ 1 < i + 1
      BY <1>1
    <3> QED
      BY <1>1, <1>3, <3>1 DEF Increasing
  <2> QED
    BY <1>1, <2>1, <2>2 DEF Increasing, Below, Els
<1> QED
  BY <1>1, <1>2, <1>3 DEF t

-----------------------------------------------------------------------------
(* Initially every variable has its type, ...                              *)
LEMMA BridgeTypesInit == BridgeInit => BridgeTypes
BY DEF BridgeInit, BridgeTypes, Messages, Clients, Subs

(* A message that is published joins the channels of those who listen,     *)
(* where it may drop the first.                                            *)
LEMMA Enqueued ==
  ASSUME BridgeTypes, NEW c \in Senders, Enqueue(c)
  PROVE  /\ ask[c] \in Messages /\ log' = Append(log, ask[c])
         /\ ring' \in [Subs -> Seq(Nat)]
         /\ \A s \in Subs :
              \/ ring'[s] = ring[s]
              \/ ring'[s] = Append(ring[s], Len(log) + 1)
              \/ ring[s] # <<>> /\ ring'[s] = Append(Tail(ring[s]), Len(log) + 1)
<1> DEFINE n == Len(log) + 1
           Into(s) == IF Full(s) THEN Tail(ring[s]) ELSE ring[s]
<1>1. ask[c] \in Messages /\ log' = Append(log, ask[c]) /\ n \in Nat
  BY DEF Enqueue, BridgeTypes, Clients
<1>2. \A s \in Subs : Full(s) => ring[s] # <<>>
  BY BridgeOK DEF Full, BridgeTypes
<1>3. \A s \in Subs : Into(s) \in Seq(Nat)
  <2>1. ASSUME NEW s \in Subs PROVE Into(s) \in Seq(Nat)
    <3>1. ring[s] \in Seq(Nat)
      BY DEF BridgeTypes
    <3> QED
      BY <1>2, <3>1
  <2> QED
    BY <2>1
<1>4. ring' = [s \in Subs |->
                IF s \notin Listening(ask[c]) THEN ring[s] ELSE Append(Into(s), n)]
  BY DEF Enqueue
<1>5. \A s \in Subs :
        \/ ring'[s] = ring[s]
        \/ ring'[s] = Append(ring[s], n)
        \/ ring[s] # <<>> /\ ring'[s] = Append(Tail(ring[s]), n)
  BY <1>2, <1>4
<1>6. \A s \in Subs : ring'[s] \in Seq(Nat)
  <2>1. ASSUME NEW s \in Subs PROVE ring'[s] \in Seq(Nat)
    <3>1. ring[s] \in Seq(Nat) /\ Into(s) \in Seq(Nat)
      BY <1>3 DEF BridgeTypes
    <3> HIDE DEF Into
    <3>2. Append(Into(s), n) \in Seq(Nat)
      BY <1>1, <3>1
    <3> QED
      BY <1>4, <3>1, <3>2
  <2> QED
    BY <2>1
<1> HIDE DEF Into
<1>7. ring' \in [Subs -> Seq(Nat)]
  BY <1>4, <1>6
<1> QED
  BY <1>1, <1>5, <1>7

(* ... the senders keep the types, whatever fails, ...                     *)
LEMMA SendTypes ==
  ASSUME BridgeTypes, NEW c \in Senders,
         \/ Ask(c) \/ Store(c) \/ Send(c)
         \/ FlushFails(c) \/ SendFails(c)
  PROVE  BridgeTypes'
<1>0. c \in Clients
  BY DEF Clients
<1>1. CASE Ask(c)
  <2>1. PICK m \in Messages : ask' = [ask EXCEPT ![c] = m]
    <3>1. PICK w \in Workflows, route \in Routes :
            ask' = [ask EXCEPT ![c] = [id |-> asked + 1, wf |-> w, from |-> route[1], to |-> route[2]]]
      BY <1>1 DEF Ask
    <3>2. route[1] \in Stages /\ route[2] \in Stages /\ asked + 1 \in Nat
      BY BridgeOK DEF BridgeTypes
    <3>3. [id |-> asked + 1, wf |-> w, from |-> route[1], to |-> route[2]] \in Messages
      BY <3>2 DEF Messages
    <3> QED
      BY <3>1, <3>3
  <2>2. /\ asked' = asked + 1 /\ at' = [at EXCEPT ![c] = "put"]
        /\ UNCHANGED <<log, job, failures, ring, fwd, held, file>>
    BY <1>1 DEF Ask, Proceed, queues, worker, tally
  <2> QED
    BY <1>0, <2>1, <2>2 DEF BridgeTypes
<1>2. CASE Store(c)
  <2>1. /\ at[c] = "put" /\ at' = [at EXCEPT ![c] = "publish"]
        /\ UNCHANGED <<ask, asked, log, job, failures, ring, fwd, held, file>>
    BY <1>2 DEF Store, Proceed, queues, worker, tally
  <2> QED
    BY <1>0, <2>1 DEF BridgeTypes
<1>3. CASE Send(c) \/ FlushFails(c)
  <2>1. Enqueue(c) /\ failures' \in Nat
    BY <1>3 DEF Send, FlushFails, Failure, BridgeTypes
  <2>2. /\ \E m : ask' = [ask EXCEPT ![c] = m]
        /\ at' = [at EXCEPT ![c] = "idle"]
        /\ UNCHANGED <<asked, job, fwd, held, file>>
    BY <2>1 DEF Enqueue, Proceed, worker, tally
  <2>3. ring' \in [Subs -> Seq(Nat)] /\ log' \in Seq(Messages)
    <3>1. ask[c] \in Messages /\ log' = Append(log, ask[c]) /\ log \in Seq(Messages)
      BY <2>1, Enqueued DEF BridgeTypes
    <3> QED
      BY <2>1, <3>1, Enqueued
  <2> QED
    BY <1>0, <2>1, <2>2, <2>3 DEF BridgeTypes
<1>4. CASE SendFails(c)
  <2>1. /\ \E m : ask' = [ask EXCEPT ![c] = m]
        /\ at' = [at EXCEPT ![c] = "idle"] /\ failures' = failures + 1
        /\ UNCHANGED <<asked, log, job, ring, fwd, held, file>>
    BY <1>4 DEF SendFails, Failure, Proceed, queues, worker, tally
  <2> QED
    BY <1>0, <2>1 DEF BridgeTypes
<1> QED
  BY <1>1, <1>2, <1>3, <1>4

(* ... so do the pollers ...                                               *)
LEMMA PollTypes ==
  ASSUME BridgeTypes, NEW c \in Pollers,
         BeginPoll(c) \/ EndPoll(c)
  PROVE  BridgeTypes'
<1>0. c \in Clients /\ c \in Subs
  BY DEF Clients, Subs
<1>1. CASE BeginPoll(c)
  <2>1. /\ \E m : ask' = [ask EXCEPT ![c] = m]
        /\ at' = [at EXCEPT ![c] = "poll"]
        /\ UNCHANGED <<asked, log, job, failures, ring, fwd, held, file>>
    BY <1>1 DEF BeginPoll, Proceed, worker, tally
  <2> QED
    BY <1>0, <2>1 DEF BridgeTypes
<1>2. CASE EndPoll(c)
  <2>1. /\ \E m : ask' = [ask EXCEPT ![c] = m]
        /\ at' = [at EXCEPT ![c] = "idle"]
        /\ ring' = [ring EXCEPT ![c] = <<>>] /\ fwd' = [fwd EXCEPT ![c] = <<>>]
        /\ held' = [held EXCEPT ![c] = 0]
        /\ UNCHANGED <<asked, log, job, failures, file>>
    BY <1>2 DEF EndPoll, Unsubscribe, Proceed, worker, tally
  <2>2. <<>> \in Seq(Nat)
    OBVIOUS
  <2> QED
    BY <1>0, <2>1, <2>2 DEF BridgeTypes
<1> QED
  BY <1>1, <1>2

(* ... and the tasks that forward messages.                                *)
LEMMA ForwardTypes ==
  ASSUME BridgeTypes, NEW s \in Subs, Forward(s)
  PROVE  BridgeTypes'
<1>0. ring[s] \in Seq(Nat) /\ fwd[s] \in Seq(Nat) /\ held[s] \in Nat
  BY DEF BridgeTypes
<1>1. CASE Take(s)
  <2>1. /\ ring[s] # <<>> /\ held' = [held EXCEPT ![s] = Head(ring[s])]
        /\ ring' = [ring EXCEPT ![s] = Tail(ring[s])]
        /\ UNCHANGED <<ask, asked, at, log, job, failures, fwd, file>>
    BY <1>1 DEF Take, sending, worker, tally
  <2>2. Head(ring[s]) \in Nat /\ Tail(ring[s]) \in Seq(Nat)
    BY <1>0, <2>1, Leaves
  <2> QED
    BY <2>1, <2>2 DEF BridgeTypes
<1>2. CASE Pass(s)
  <2>1. /\ fwd' = [fwd EXCEPT ![s] = Append(fwd[s], held[s])]
        /\ held' = [held EXCEPT ![s] = 0]
        /\ UNCHANGED <<ask, asked, at, log, job, failures, ring, file>>
    BY <1>2 DEF Pass, sending, worker, tally
  <2>2. Append(fwd[s], held[s]) \in Seq(Nat)
    BY <1>0
  <2> QED
    BY <2>1, <2>2 DEF BridgeTypes
<1> QED
  BY <1>1, <1>2 DEF Forward

(* A position of the log is that of a message.                             *)
LEMMA LogTypes ==
  ASSUME BridgeTypes
  PROVE  Len(log) \in Nat /\ DOMAIN log = 1..Len(log) /\ \A n \in 1..Len(log) : log[n] \in Messages
BY DEF BridgeTypes

(* The message the subscriber works on was published.                      *)
LEMMA Working ==
  ASSUME InLine, InPlace, step \in {"fetching", "writing", "filling"}
  PROVE  job # 0 /\ job \in 1..Len(log)
BY DEF InLine, InPlace, One

(* A file is one of a stage of a workflow.                                 *)
LEMMA SetAt ==
  ASSUME NEW W, NEW S, NEW X, NEW F \in [W -> [S -> [S -> X]]], NEW x \in X,
         NEW w \in W, NEW t \in S, NEW f
  PROVE  [F EXCEPT ![w][t][f] = x] \in [W -> [S -> [S -> X]]]
<1>1. F[w][t] \in [S -> X]
  OBVIOUS
<1>2. [F[w][t] EXCEPT ![f] = x] \in [S -> X]
  BY <1>1
<1>3. [F[w] EXCEPT ![t] = [F[w][t] EXCEPT ![f] = x]] \in [S -> [S -> X]]
  BY <1>2
<1>4. [F EXCEPT ![w] = [F[w] EXCEPT ![t] = [F[w][t] EXCEPT ![f] = x]]] \in [W -> [S -> [S -> X]]]
  BY <1>3
<1> QED
  BY <1>4

(* The subscriber, its failures and restarts, and the runs of stages.      *)
LEMMA WorkTypes ==
  ASSUME BridgeTypes, InLine, InPlace,
         \/ Work \/ StartFails \/ BridgeFails \/ Restart
         \/ \E w \in Workflows, stage \in Stages : RunStage(w, stage)
  PROVE  BridgeTypes'
<1>0. Bridge \in Subs
  BY DEF Subs
<1>1. CASE Start \/ StartFails
  BY <1>1 DEF Start, StartFails, Failure, sending, queues, tally, BridgeTypes
<1>2. CASE Receive
  <2>1. /\ fwd[Bridge] # <<>> /\ job' = Head(fwd[Bridge])
        /\ fwd' = [fwd EXCEPT ![Bridge] = Tail(fwd[Bridge])]
        /\ UNCHANGED <<ask, asked, at, log, failures, ring, held, file>>
    BY <1>2 DEF Receive, sending, tally
  <2>2. fwd[Bridge] \in Seq(Nat)
    BY <1>0 DEF BridgeTypes
  <2>3. Head(fwd[Bridge]) \in Nat /\ Tail(fwd[Bridge]) \in Seq(Nat)
    BY <2>1, <2>2, Leaves
  <2> QED
    BY <2>1, <2>3 DEF BridgeTypes
<1>3. CASE Fetch \/ BridgeFails
  BY <1>3 DEF Fetch, BridgeFails, Failure, sending, queues, tally, BridgeTypes
<1>4. CASE OpenFile \/ FillFile
  <2>1. /\ job' \in {job, 0} /\ UNCHANGED <<ask, asked, at, log, failures, ring, fwd, held>>
        /\ file' = file \/ \E x \in {Torn, job} : Set(x)
    BY <1>4 DEF OpenFile, FillFile, sending, queues, tally
  <2>2. ASSUME NEW x \in {Torn, job}, Set(x)
        PROVE  file' \in [Workflows -> [Stages -> [Stages -> Nat \cup {None, Torn}]]]
    <3>1. job \in 1..Len(log) /\ job \in Nat
      BY <1>4, Working DEF OpenFile, FillFile, BridgeTypes
    <3>2. log[job].wf \in Workflows /\ log[job].to \in Stages /\ log[job].from \in Stages
      BY <3>1, LogTypes DEF Messages
    <3>3. x \in Nat \cup {None, Torn}
      BY <3>1
    <3>4. file' = [file EXCEPT ![log[job].wf][log[job].to][log[job].from] = x]
      BY <2>2 DEF Set
    <3>5. file \in [Workflows -> [Stages -> [Stages -> Nat \cup {None, Torn}]]]
      BY DEF BridgeTypes
    <3>6. \A w \in Workflows, t \in Stages, f \in Stages :
            [file EXCEPT ![w][t][f] = x]
              \in [Workflows -> [Stages -> [Stages -> Nat \cup {None, Torn}]]]
      BY <3>3, <3>5, SetAt
    <3> QED
      BY <3>2, <3>4, <3>6
  <2> QED
    BY <2>1, <2>2 DEF BridgeTypes
<1>5. CASE Restart
  <2>1. <<>> \in Seq(Nat)
    OBVIOUS
  <2>2. /\ UNCHANGED <<asked, log, file>> /\ failures' = failures + 1 /\ job' = 0
        /\ at' = [c \in Clients |-> "idle"] /\ DOMAIN ask' = Clients
    BY <1>5 DEF Restart, Failure
  <2>3. /\ ring' = [s \in Subs |-> <<>>] /\ fwd' = [s \in Subs |-> <<>>]
        /\ held' = [s \in Subs |-> 0]
    BY <1>5 DEF Restart
  <2>4. /\ ring' \in [Subs -> Seq(Nat)] /\ fwd' \in [Subs -> Seq(Nat)]
        /\ held' \in [Subs -> Nat]
    BY <2>1, <2>3
  <2> QED
    BY <2>2, <2>4 DEF BridgeTypes
<1>6. ASSUME NEW w \in Workflows, NEW stage \in Stages, RunStage(w, stage)
      PROVE  BridgeTypes'
  <2>1. /\ UNCHANGED <<ask, asked, at, log, failures, ring, fwd, held, job>>
        /\ file' = Emptied(w, stage)
    BY <1>6 DEF RunStage, sending, queues, worker, tally
  <2>2. Emptied(w, stage)
          \in [Workflows -> [Stages -> [Stages -> Nat \cup {None, Torn}]]]
    BY DEF Emptied, BridgeTypes
  <2> QED
    BY <2>1, <2>2 DEF BridgeTypes
<1> QED
  BY <1>1, <1>2, <1>3, <1>4, <1>5, <1>6 DEF Work

(* Every step keeps the types.                                             *)
LEMMA BridgeTypesNext ==
  ASSUME BridgeTypes, InLine, InPlace, [BridgeNext]_bridgeVars
  PROVE  BridgeTypes'
<1>1. CASE UNCHANGED bridgeVars
  BY <1>1 DEF bridgeVars, sending, queues, worker, tally, BridgeTypes
<1> QED
  BY <1>1, SendTypes, PollTypes, ForwardTypes, WorkTypes DEF BridgeNext

-----------------------------------------------------------------------------
(* The queues of the subscriber hold positions.                            *)
LEMMA LineOf ==
  ASSUME BridgeTypes
  PROVE  /\ Bridge \in Subs /\ ring[Bridge] \in Seq(Nat) /\ fwd[Bridge] \in Seq(Nat)
         /\ held[Bridge] \in Nat /\ job \in Nat /\ Len(log) \in Nat
BY DEF BridgeTypes, Subs

(* The line as values, so that a step can be compared with the state.      *)
LEMMA SameLine ==
  ASSUME InLine, ring'[Bridge] = ring[Bridge], fwd'[Bridge] = fwd[Bridge],
         held'[Bridge] = held[Bridge], UNCHANGED <<job, bridged, log>>
  PROVE  InLine'
BY DEF InLine

(* A message that is published is later than all that are under way.       *)
LEMMA LineEnqueue ==
  ASSUME BridgeTypes, InLine, NEW c \in Senders, Enqueue(c)
  PROVE  InLine'
<1> DEFINE n == Len(log) + 1
<1>1. /\ UNCHANGED <<fwd, held, job, bridged>> /\ log' = Append(log, ask[c])
      /\ ask[c] \in Messages
  BY Enqueued DEF Enqueue, worker, tally
<1>2. Len(log) \in Nat /\ Len(log') = n
  BY <1>1, LogTypes DEF BridgeTypes
<1>3. /\ ring[Bridge] \in Seq(Nat) /\ n \in Nat
      /\ \/ ring'[Bridge] = ring[Bridge]
         \/ ring'[Bridge] = Append(ring[Bridge], n)
         \/ ring[Bridge] # <<>> /\ ring'[Bridge] = Append(Tail(ring[Bridge]), n)
  BY <1>2, Enqueued, LineOf
<1>4. PICK r \in Seq(Nat) :
        /\ Els(r) \subseteq Els(ring[Bridge]) /\ Increasing(r)
        /\ ring'[Bridge] = ring[Bridge] \/ ring'[Bridge] = Append(r, n)
  <2>1. CASE ring[Bridge] # <<>> /\ ring'[Bridge] = Append(Tail(ring[Bridge]), n)
    BY <1>3, <2>1, Leaves DEF InLine
  <2> QED
    BY <1>3, <2>1 DEF InLine
<1>5. Below(Els(r), {n})
  BY <1>2, <1>4 DEF InLine, Below
<1>6. Els(Append(r, n)) = Els(r) \cup {n} /\ Increasing(Append(r, n))
  BY <1>3, <1>4, <1>5, Joins
<1>7. Increasing(ring'[Bridge]) /\ Els(ring'[Bridge]) \subseteq Els(ring[Bridge]) \cup {n}
  BY <1>4, <1>6 DEF InLine
<1>8. 1..Len(log) \subseteq 1..n /\ n \in 1..n /\ \A m \in 1..Len(log) : m < n
  BY <1>2
<1> QED
  BY <1>1, <1>2, <1>7, <1>8 DEF InLine, Below

(* Forwarding moves one message by one place, ...                          *)
LEMMA LineForward ==
  ASSUME BridgeTypes, InLine, NEW s \in Subs, Forward(s)
  PROVE  InLine'
<1>1. /\ UNCHANGED <<log, job, bridged>> /\ \A u \in Subs \ {s} :
           ring'[u] = ring[u] /\ fwd'[u] = fwd[u] /\ held'[u] = held[u]
  BY DEF Forward, Take, Pass, BridgeTypes, sending, worker, tally
<1>2. CASE s # Bridge
  BY <1>1, <1>2, LineOf, SameLine
<1>3. CASE s = Bridge /\ Take(s)
  <2>1. /\ ring[Bridge] # <<>> /\ held[Bridge] = 0 /\ held'[Bridge] = Head(ring[Bridge])
        /\ ring'[Bridge] = Tail(ring[Bridge]) /\ fwd' = fwd
    BY <1>3 DEF Take, BridgeTypes
  <2>2. /\ Els(ring[Bridge]) = {Head(ring[Bridge])} \cup Els(Tail(ring[Bridge]))
        /\ Increasing(Tail(ring[Bridge]))
        /\ Below({Head(ring[Bridge])}, Els(Tail(ring[Bridge])))
    BY <2>1, LineOf, Leaves DEF InLine
  <2> QED
    BY <1>1, <2>1, <2>2 DEF InLine, Below, One
<1>4. CASE s = Bridge /\ Pass(s)
  <2>1. /\ held[Bridge] # 0 /\ held'[Bridge] = 0 /\ fwd'[Bridge] = Append(fwd[Bridge], held[Bridge])
        /\ ring' = ring
    BY <1>4 DEF Pass, BridgeTypes
  <2>2. Below(Els(fwd[Bridge]), {held[Bridge]})
    BY <2>1 DEF InLine, Below, One
  <2>3. /\ Els(fwd'[Bridge]) = Els(fwd[Bridge]) \cup {held[Bridge]}
        /\ Increasing(fwd'[Bridge])
    BY <2>1, <2>2, LineOf, Joins DEF InLine
  <2> QED
    BY <1>1, <2>1, <2>3 DEF InLine, Below, One
<1> QED
  BY <1>2, <1>3, <1>4 DEF Forward

(* ... as does the work of the subscriber, which writes the first.         *)
LEMMA LineWork ==
  ASSUME BridgeTypes, InLine, InPlace, Work \/ BridgeFails \/ Restart
  PROVE  InLine'
<1>1. CASE Start \/ OpenFile
  BY <1>1, SameLine DEF Start, OpenFile, sending, queues, tally
<1>2. CASE Receive
  <2>1. /\ fwd[Bridge] # <<>> /\ job' = Head(fwd[Bridge]) /\ fwd'[Bridge] = Tail(fwd[Bridge])
        /\ UNCHANGED <<log, ring, held, bridged>>
    BY <1>2, LineOf DEF Receive, sending, tally, BridgeTypes
  <2>2. /\ Els(fwd[Bridge]) = {Head(fwd[Bridge])} \cup Els(Tail(fwd[Bridge]))
        /\ Increasing(Tail(fwd[Bridge]))
        /\ Below({Head(fwd[Bridge])}, Els(Tail(fwd[Bridge])))
    BY <2>1, LineOf, Leaves DEF InLine
  <2> QED
    BY <2>1, <2>2 DEF InLine, Below, One
<1>3. CASE Fetch \/ BridgeFails
  <2>1. job' \in {job, 0} /\ UNCHANGED <<log, ring, held, fwd, bridged>>
    BY <1>3 DEF Fetch, BridgeFails, sending, queues, tally
  <2> QED
    BY <2>1 DEF InLine, Below, One
<1>4. CASE FillFile
  <2>1. job' = 0 /\ bridged' = bridged \cup {job} /\ UNCHANGED <<log, ring, held, fwd>>
    BY <1>4 DEF FillFile, sending, queues, tally
  <2>2. job # 0
    BY <1>4, Working DEF FillFile
  <2> QED
    BY <2>1, <2>2 DEF InLine, Below, One
<1>5. CASE Restart
  <2>1. /\ job' = 0 /\ ring'[Bridge] = <<>> /\ fwd'[Bridge] = <<>> /\ held'[Bridge] = 0
        /\ UNCHANGED <<log, bridged>>
    BY <1>5, LineOf DEF Restart
  <2>2. Els(<<>>) = {} /\ Increasing(<<>>) /\ One(0) = {}
    BY DEF Els, Increasing, One
  <2> QED
    BY <2>1, <2>2 DEF InLine, Below
<1> QED
  BY <1>1, <1>2, <1>3, <1>4, <1>5 DEF Work

(* Every step keeps the messages in line; a restart drops them all.        *)
LEMMA InLineNext ==
  ASSUME BridgeTypes, InLine, InPlace, [BridgeNext]_bridgeVars
  PROVE  InLine'
<1>1. ASSUME NEW c \in Senders, Ask(c) \/ Store(c) \/ SendFails(c)
      PROVE  InLine'
  BY <1>1, SameLine DEF Ask, Store, SendFails, queues, worker, tally
<1>2. ASSUME NEW c \in Senders, Send(c) \/ FlushFails(c)
      PROVE  InLine'
  BY <1>2, LineEnqueue DEF Send, FlushFails
<1>3. ASSUME NEW c \in Pollers, BeginPoll(c)
      PROVE  InLine'
  BY <1>3, SameLine DEF BeginPoll, worker, tally
<1>4. ASSUME NEW c \in Pollers, EndPoll(c)
      PROVE  InLine'
  <2>1. c # Bridge
    BY BridgeOK
  <2>2. /\ ring'[Bridge] = ring[Bridge] /\ fwd'[Bridge] = fwd[Bridge] /\ held'[Bridge] = held[Bridge]
        /\ UNCHANGED <<job, bridged, log>>
    BY <1>4, <2>1, LineOf DEF EndPoll, Unsubscribe, worker, tally, BridgeTypes
  <2> QED
    BY <2>2, SameLine
<1>5. CASE \/ StartFails \/ UNCHANGED bridgeVars
           \/ \E w \in Workflows, stage \in Stages : RunStage(w, stage)
  BY <1>5, SameLine DEF StartFails, RunStage, bridgeVars, sending, tally,
     queues, worker
<1> QED
  BY <1>1, <1>2, <1>3, <1>4, <1>5, LineForward, LineWork DEF BridgeNext

-----------------------------------------------------------------------------
(* What is written to a file is found there, and the others keep theirs.   *)
LEMMA Written ==
  ASSUME BridgeTypes, NEW x, Set(x), job \in 1..Len(log), NEW n \in 1..Len(log),
         UNCHANGED log
  PROVE  InFile(n)' = IF SameFile(job, n) THEN x ELSE InFile(n)
<1>1. /\ log[job].wf \in Workflows /\ log[job].to \in Stages /\ log[job].from \in Stages
      /\ log[n].wf \in Workflows /\ log[n].to \in Stages /\ log[n].from \in Stages
  BY LogTypes DEF Messages
<1>2. \A w \in Workflows, t \in Stages, f \in Stages :
        file'[w][t][f] = IF w = log[job].wf /\ t = log[job].to /\ f = log[job].from
                         THEN x ELSE file[w][t][f]
  BY <1>1 DEF BridgeTypes, Set
<1> QED
  BY <1>1, <1>2 DEF InFile, SameFile

(* Steps that leave files, runs and what was written alone.                *)
LEMMA SamePlace ==
  ASSUME BridgeTypes, InLine, InPlace, UNCHANGED <<file, running, bridged>>,
         Len(log) <= Len(log'), \A n \in 1..Len(log) : log'[n] = log[n],
         step' \in {"fetching", "writing", "filling"} => job' # 0,
         failures' # 0 \/ failures' = failures,
         \/ UNCHANGED <<step, job>>
         \/ step # "filling" /\ step' # "filling"
  PROVE  InPlace'
<1>1. SUFFICES ASSUME failures' = 0
               PROVE  /\ step' = "filling" => \/ InFile(job)' = Torn
                                            \/ <<log'[job'].wf, log'[job'].to - 1>> \in running'
                      /\ \A n \in bridged' : Stays(n)'
  BY DEF InPlace
<1>2. \A n \in bridged : n \in 1..Len(log) /\ Stays(n)
  BY <1>1 DEF InLine, InPlace
<1>3. step' = "filling" => job \in 1..Len(log) /\ UNCHANGED <<step, job>>
  BY Working
<1>4. \A n \in 1..Len(log) : InFile(n)' = InFile(n)
  BY DEF InFile
<1>5. \A m, n \in 1..Len(log) : SameFile(m, n) => SameFile(m, n)'
  BY DEF SameFile
<1>6. ASSUME step' = "filling"
      PROVE  \/ InFile(job)' = Torn
             \/ <<log'[job'].wf, log'[job'].to - 1>> \in running'
  <2>1. job \in 1..Len(log) /\ step = "filling" /\ job' = job /\ log'[job] = log[job] /\ failures = 0
    BY <1>1, <1>3, <1>6
  <2>2. InFile(job) = Torn \/ <<log[job].wf, log[job].to - 1>> \in running
    BY <2>1 DEF InPlace
  <2>3. InFile(job)' = InFile(job)
    BY <2>1 DEF InFile
  <2> QED
    BY <2>1, <2>2, <2>3
<1>7. ASSUME NEW n \in bridged PROVE Stays(n)'
  <2>1. CASE InFile(n) = n
    BY <1>2, <1>4, <2>1 DEF Stays
  <2>2. CASE \E m \in bridged : m > n /\ SameFile(m, n)
    BY <1>2, <1>5, <2>2 DEF Stays
  <2>3. CASE step = "filling" /\ SameFile(job, n)
    <3>1. job \in 1..Len(log) /\ UNCHANGED <<step, job>>
      BY <2>3, Working
    <3>2. log'[job] = log[job] /\ log'[n] = log[n]
      BY <1>2, <3>1
    <3> QED
      BY <2>3, <3>1, <3>2 DEF Stays, SameFile
  <2>4. CASE <<log[n].wf, log[n].to - 1>> \in running
    BY <1>2, <2>4 DEF Stays
  <2> QED
    BY <1>2, <2>1, <2>2, <2>3, <2>4 DEF Stays
<1> QED
  BY <1>6, <1>7

(* Emptying the file of the present message hurts no other, ...            *)
LEMMA PlaceOpen ==
  ASSUME BridgeTypes, InLine, InPlace, OpenFile
  PROVE  InPlace'
<1>1. /\ step = "writing" /\ step' = "filling" /\ Set(Torn) /\ UNCHANGED <<job, log, running, bridged, failures>>
  BY DEF OpenFile, sending, queues, tally
<1>2. job # 0 /\ job \in 1..Len(log) /\ bridged \subseteq 1..Len(log)
  BY <1>1, Working DEF InLine
<1>3. \A n \in 1..Len(log) :
        InFile(n)' = IF SameFile(job, n) THEN Torn ELSE InFile(n)
  BY <1>1, <1>2, Written
<1>4. InFile(job)' = Torn /\ job' # 0
  BY <1>1, <1>2, <1>3 DEF SameFile
<1>5. ASSUME failures' = 0, NEW n \in bridged PROVE Stays(n)'
  <2>1. Stays(n) /\ n \in 1..Len(log)
    BY <1>1, <1>2, <1>5 DEF InPlace
  <2>2. CASE SameFile(job, n)
    BY <1>1, <2>2 DEF Stays, SameFile
  <2>3. CASE ~SameFile(job, n)
    <3>1. InFile(n)' = InFile(n)
      BY <1>3, <2>1, <2>3
    <3> QED
      BY <1>1, <2>1, <2>3, <3>1 DEF Stays, SameFile
  <2> QED
    BY <2>2, <2>3
<1> QED
  BY <1>1, <1>4, <1>5 DEF InPlace

(* ... and when it is filled, it is later than what was there before.      *)
LEMMA PlaceFill ==
  ASSUME BridgeTypes, InLine, InPlace, FillFile
  PROVE  InPlace'
<1>0. PICK k : k = job
  OBVIOUS
<1>1. /\ step = "filling" /\ step' = "listening" /\ bridged' = bridged \cup {job}
      /\ IF InFile(job) = Torn THEN Set(job) ELSE UNCHANGED file
      /\ UNCHANGED <<log, running, failures>>
  BY DEF FillFile, sending, queues, tally, InFile
<1>2. job # 0 /\ job \in 1..Len(log) /\ bridged \subseteq 1..Len(log) /\ \A n \in bridged : n < job
  BY <1>1, Working DEF InLine, Below, One
<1>3. \A n \in 1..Len(log) :
        ~SameFile(job, n) => InFile(n)' = InFile(n)
  BY <1>1, <1>2, Written DEF InFile
<1>4. ASSUME failures' = 0, NEW n \in bridged PROVE Stays(n)'
  <2>1. Stays(n) /\ n \in 1..Len(log)
    BY <1>1, <1>2, <1>4 DEF InPlace
  <2>2. CASE SameFile(job, n)
    <3>1. k \in bridged' /\ k > n /\ SameFile(k, n)'
      BY <1>0, <1>1, <1>2, <2>1, <2>2 DEF SameFile
    <3>2. \E m \in bridged' : m > n /\ SameFile(m, n)'
      BY <3>1
    <3> QED
      BY <3>2 DEF Stays
  <2>3. CASE ~SameFile(job, n)
    <3>1. InFile(n)' = InFile(n)
      BY <1>3, <2>1, <2>3
    <3> QED
      BY <1>1, <2>1, <2>3, <3>1 DEF Stays, SameFile
  <2> QED
    BY <2>2, <2>3
<1>5. ASSUME failures' = 0 PROVE Stays(k)'
  <2>1. CASE InFile(job) = Torn
    <3>1. SameFile(job, k) /\ Set(k) /\ k \in 1..Len(log)
      BY <1>0, <1>1, <1>2, <2>1 DEF SameFile
    <3>2. InFile(k)' = k
      BY <1>1, <1>2, <3>1, Written
    <3> QED
      BY <3>2 DEF Stays
  <2>2. CASE <<log[k].wf, log[k].to - 1>> \in running
    BY <1>1, <2>2 DEF Stays
  <2> QED
    BY <1>0, <1>1, <1>5, <2>1, <2>2 DEF InPlace
<1> QED
  BY <1>0, <1>1, <1>4, <1>5 DEF InPlace

(* A run empties the files of the stage behind it, and is remembered.      *)
LEMMA PlaceRun ==
  ASSUME BridgeTypes, InLine, InPlace,
         NEW w \in Workflows, NEW stage \in Stages, RunStage(w, stage)
  PROVE  InPlace'
<1>1. /\ running' = running \cup {<<w, stage>>} /\ file' = Emptied(w, stage)
      /\ UNCHANGED <<log, job, step, bridged, failures>>
  BY DEF RunStage, sending, queues, worker, tally
<1>2. stage \in Nat
  BY BridgeOK DEF Stages
<1>3. ASSUME NEW n \in 1..Len(log)
      PROVE  \/ InFile(n)' = InFile(n)
             \/ <<log[n].wf, log[n].to - 1>> \in running'
  <2>1. log[n].wf \in Workflows /\ log[n].to \in Stages /\ log[n].from \in Stages
    BY LogTypes DEF Messages
  <2>2. \A v \in Workflows, t \in Stages, f \in Stages :
          v # w \/ t # stage + 1 => file'[v][t][f] = file[v][t][f]
    BY <1>1 DEF BridgeTypes, Emptied
  <2>3. CASE log[n].wf # w \/ log[n].to # stage + 1
    BY <1>1, <2>1, <2>2, <2>3 DEF InFile
  <2>4. CASE log[n].wf = w /\ log[n].to = stage + 1
    BY <1>1, <1>2, <2>4
  <2> QED
    BY <2>3, <2>4
<1>4. bridged \subseteq 1..Len(log) /\ (step = "filling" => job \in 1..Len(log))
  BY Working DEF InLine
<1>5. ASSUME failures' = 0, NEW n \in bridged PROVE Stays(n)'
  <2>1. Stays(n) /\ n \in 1..Len(log)
    BY <1>1, <1>4, <1>5 DEF InPlace
  <2> QED
    BY <1>1, <1>3, <2>1 DEF Stays, SameFile
<1>6. ASSUME failures' = 0, step' = "filling"
      PROVE  InFile(job)' = Torn \/ <<log'[job'].wf, log'[job'].to - 1>> \in running'
  BY <1>1, <1>3, <1>4, <1>6 DEF InPlace
<1> QED
  BY <1>1, <1>5, <1>6 DEF InPlace

(* Every step leaves what was written in its place.                        *)
LEMMA InPlaceNext ==
  ASSUME BridgeTypes, InLine, InPlace, [BridgeNext]_bridgeVars
  PROVE  InPlace'
<1>0. Len(log) \in Nat /\ failures \in Nat
  BY LogTypes DEF BridgeTypes
<1>1. ASSUME NEW c \in Senders, Ask(c) \/ Store(c) \/ SendFails(c)
      PROVE  InPlace'
  <2>1. /\ UNCHANGED <<file, running, bridged, log, step, job>>
        /\ failures' = failures \/ failures' = failures + 1
    BY <1>1 DEF Ask, Store, SendFails, Failure, queues, worker, tally
  <2> QED
    BY <1>0, <2>1, SamePlace DEF InPlace
<1>2. ASSUME NEW c \in Senders, Send(c) \/ FlushFails(c)
      PROVE  InPlace'
  <2>1. /\ Enqueue(c) /\ UNCHANGED <<file, running, bridged, step, job>>
        /\ failures' = failures \/ failures' = failures + 1
    BY <1>2 DEF Send, FlushFails, Enqueue, Failure, worker, tally
  <2>2. log' = Append(log, ask[c]) /\ ask[c] \in Messages
    BY <2>1, Enqueued
  <2>3. Len(log) <= Len(log') /\ \A n \in 1..Len(log) : log'[n] = log[n]
    BY <1>0, <2>2, AppendProperties DEF BridgeTypes
  <2> QED
    BY <1>0, <2>1, <2>3, SamePlace DEF InPlace
<1>3. ASSUME NEW c \in Pollers, BeginPoll(c) \/ EndPoll(c)
      PROVE  InPlace'
  <2>1. UNCHANGED <<file, running, bridged, log, step, job, failures>>
    BY <1>3 DEF BeginPoll, EndPoll, worker, tally
  <2> QED
    BY <1>0, <2>1, SamePlace DEF InPlace
<1>4. ASSUME NEW s \in Subs, Forward(s)
      PROVE  InPlace'
  <2>1. UNCHANGED <<file, running, bridged, log, step, job, failures>>
    BY <1>4 DEF Forward, Take, Pass, worker, sending, tally
  <2> QED
    BY <1>0, <2>1, SamePlace DEF InPlace
<1>5. CASE Start \/ StartFails
  <2>1. /\ UNCHANGED <<file, running, bridged, log, job>>
        /\ step # "filling" /\ step' \in {"listening", "ended"}
        /\ failures' = failures \/ failures' = failures + 1
    BY <1>5 DEF Start, StartFails, Failure, sending, tally
  <2> QED
    BY <1>0, <2>1, SamePlace
<1>6. CASE Receive
  <2>1. /\ UNCHANGED <<file, running, bridged, log, failures>>
        /\ step = "listening" /\ step' = "fetching" /\ fwd[Bridge] # <<>> /\ job' = Head(fwd[Bridge])
    BY <1>6 DEF Receive, sending, tally
  <2>2. Head(fwd[Bridge]) \in Els(fwd[Bridge])
    BY <2>1, LineOf, Leaves
  <2>3. job' # 0
    BY <2>1, <2>2 DEF InLine
  <2> QED
    BY <1>0, <2>1, <2>3, SamePlace
<1>7. CASE Fetch
  <2>1. /\ UNCHANGED <<file, running, bridged, log, failures>>
        /\ step = "fetching" /\ ((step' = "writing" /\ job' = job) \/ step' = "listening")
    BY <1>7 DEF Fetch, sending, tally
  <2>2. job # 0
    BY <2>1, Working
  <2> QED
    BY <1>0, <2>1, <2>2, SamePlace
<1>8. CASE BridgeFails \/ Restart
  <2>1. failures' # 0 /\ step' \in {"listening", "starting"}
    BY <1>0, <1>8 DEF BridgeFails, Restart, Failure
  <2> QED
    BY <2>1 DEF InPlace
<1>9. CASE UNCHANGED bridgeVars
  <2>1. UNCHANGED <<file, running, bridged, log, step, job, failures>>
    BY <1>9 DEF bridgeVars, worker, sending, tally
  <2> QED
    BY <1>0, <2>1, SamePlace DEF InPlace
<1> QED
  BY <1>1, <1>2, <1>3, <1>4, <1>5, <1>6, <1>7, <1>8, <1>9, PlaceOpen, PlaceFill, PlaceRun
     DEF BridgeNext, Work

(* The inductive invariant: types, the line, and the files.                *)
PromptInv == BridgeTypes /\ InLine /\ InPlace

(* It holds initially, ...                                                 *)
LEMMA PromptInvInit == BridgeInit => PromptInv
<1> SUFFICES ASSUME BridgeInit PROVE PromptInv
  OBVIOUS
<1>1. BridgeTypes
  BY BridgeTypesInit
<1>2. /\ ring[Bridge] = <<>> /\ fwd[Bridge] = <<>> /\ held[Bridge] = 0 /\ job = 0
      /\ bridged = {} /\ step = "starting"
  BY <1>1, LineOf DEF BridgeInit
<1>3. Els(<<>>) = {} /\ Increasing(<<>>) /\ One(0) = {}
  BY DEF Els, Increasing, One
<1> QED
  BY <1>1, <1>2, <1>3 DEF PromptInv, InLine, InPlace, Below

(* ... and every step keeps it.                                            *)
LEMMA PromptInvNext ==
  PromptInv /\ [BridgeNext]_bridgeVars => PromptInv'
BY BridgeTypesNext, InLineNext, InPlaceNext DEF PromptInv

(* A prompt that was written stays in the input of its stage until a later *)
(* one is, or the stage in front is run (subscriber.rs:57 handle_message), *)
(* for any prompts, stages, subscribers and sizes of the channels.         *)
THEOREM PromptsStay == BridgeSpec => []StaysInInput
<1>1. BridgeInit => PromptInv
  BY PromptInvInit
<1>2. PromptInv /\ [BridgeNext]_bridgeVars => PromptInv'
  BY PromptInvNext
<1>3. PromptInv => StaysInInput
  <2> SUFFICES ASSUME PromptInv, failures = 0, NEW n \in bridged
               PROVE  \/ InFile(n) = n
                      \/ \E m \in bridged : m > n /\ SameFile(m, n)
                      \/ job # 0 /\ SameFile(job, n)
                      \/ <<log[n].wf, log[n].to - 1>> \in running
    BY DEF StaysInInput
  <2>1. Stays(n) /\ (step = "filling" => job # 0)
    BY DEF PromptInv, InPlace
  <2> QED
    BY <2>1 DEF Stays
<1> QED
  BY <1>1, <1>2, <1>3, PTL DEF BridgeSpec

(* No prompt is written over a later one, through lag, failures, restarts  *)
(* and the bounded channels (memory.rs, subscriber.rs).                    *)
THEOREM PromptsInOrder == BridgeSpec => NeverOlder
<1> DEFINE Later == \A n \in bridged' \ bridged : \A m \in bridged : SameFile(m, n) => m < n
<1>1. BridgeInit => PromptInv
  BY PromptInvInit
<1>2. PromptInv /\ [BridgeNext]_bridgeVars => PromptInv'
  BY PromptInvNext
<1>3. PromptInv /\ [BridgeNext]_bridgeVars => [Later]_bridgeVars
  <2> SUFFICES ASSUME PromptInv, BridgeNext PROVE Later
    OBVIOUS
  <2>1. CASE FillFile
    <3>1. bridged' \ bridged \subseteq {job} /\ job # 0
      BY <2>1, Working DEF FillFile, PromptInv
    <3>2. \A m \in bridged : m < job
      BY <3>1 DEF PromptInv, InLine, Below, One
    <3> QED
      BY <3>1, <3>2
  <2>2. CASE bridged' = bridged
    BY <2>2
  <2>3. FillFile \/ bridged' = bridged
    BY DEF BridgeNext, Ask, Store, Send, FlushFails, Enqueue,
           SendFails, BeginPoll, EndPoll, Forward, Take, Pass,
           Work, Start, Receive, Fetch, OpenFile, StartFails,
           BridgeFails, Restart, RunStage, tally
  <2> QED
    BY <2>1, <2>2, <2>3
<1> QED
  BY <1>1, <1>2, <1>3, PTL DEF BridgeSpec, NeverOlder

=============================================================================
