------------------------- MODULE ContentStore_proofs -------------------------
(***************************************************************************)
(* Theorems about the content-addressed store, for any processes, tasks,   *)
(* contents and faults.  What makes the rename of a put safe is that the   *)
(* temporary file under its name is its own: tasks of one process take     *)
(* different numbers, processes have different PIDs, and a process that    *)
(* starts again has no task left that could meet an old number.            *)
(***************************************************************************)
EXTENDS ContentStore, TLAPS

Writing == {"create", "fill", "rename"}

(* A put under way has a number its process has given to no other.         *)
Numbered ==
  /\ \A t \in Tasks : pc[t] \in Writing =>
       temp[t] \in Nat /\ temp[t] < counter[ProcOf[t]]
  /\ \A t, u \in Tasks :
       (t # u /\ ProcOf[t] = ProcOf[u] /\ pc[t] \in Writing /\ pc[u] \in Writing)
         => temp[t] # temp[u]

(* What is about to be renamed is complete.                                *)
Filled ==
  \A t \in Tasks : pc[t] = "rename" => \A f \in temps : f.file = TempOf(t) => f.full

(* The types the argument needs.                                           *)
Shape ==
  /\ objects \in [Contents -> {"none", "whole", "torn"}]
  /\ counter \in [Procs -> Nat]
  /\ DOMAIN pc = Tasks /\ DOMAIN arg = Tasks /\ DOMAIN temp = Tasks
  /\ DOMAIN answer = Tasks /\ DOMAIN stream = Tasks
  /\ \A t \in Tasks : pc[t] \in Writing \cup {"head", "upload"} => arg[t] \in Contents
  /\ acked \subseteq Contents

StoreInv == Shape /\ Numbered /\ Filled /\ AckedStored

-----------------------------------------------------------------------------
(* Two puts under way write to different files.                            *)
LEMMA OwnFile ==
  ASSUME Numbered, NEW t \in Tasks, NEW u \in Tasks, t # u,
         pc[t] \in Writing, pc[u] \in Writing
  PROVE  TempOf(t) # TempOf(u)
<1>1. CASE ProcOf[t] = ProcOf[u]
  BY <1>1 DEF TempOf, Numbered
<1>2. CASE ProcOf[t] # ProcOf[u]
  BY <1>2, StoreOK DEF TempOf, Procs
<1> QED
  BY <1>1, <1>2

(* A store starts empty, with nothing under way.                           *)
LEMMA StoreInit == Init => StoreInv
BY DEF Init, StoreInv, Shape, Numbered, Filled, AckedStored, Writing

(* The end of an operation takes its task out of every claim.              *)
LEMMA EndKeeps ==
  ASSUME StoreInv, NEW t \in Tasks, NEW what, End(t, what), counter' = counter,
         temps' \subseteq temps, objects' \in [Contents -> {"none", "whole", "torn"}],
         acked' \subseteq Contents
  PROVE  Shape' /\ Numbered' /\ Filled'
<1>1. \A u \in Tasks : pc'[u] = IF u = t THEN "idle" ELSE pc[u]
  BY DEF End, Goto, StoreInv, Shape
<1>2. \A u \in Tasks : u # t => temp'[u] = temp[u] /\ arg'[u] = arg[u]
  BY DEF End, StoreInv, Shape
<1>3. Shape'
  BY <1>1, <1>2 DEF StoreInv, Shape, End, Goto, Writing
<1>4. Numbered'
  BY <1>1, <1>2 DEF StoreInv, Numbered, Writing
<1>5. Filled'
  BY <1>1, <1>2 DEF StoreInv, Filled, TempOf
<1> QED
  BY <1>3, <1>4, <1>5

(* A step of a task that stays where it is, or reads, writes nothing.      *)
LEMMA ReadKeeps ==
  ASSUME StoreInv, NEW t \in Tasks, UNCHANGED <<objects, temps, counter, temp, acked, harmed>>,
         DOMAIN pc' = Tasks, DOMAIN arg' = Tasks, DOMAIN answer' = Tasks, DOMAIN stream' = Tasks,
         \A u \in Tasks : \/ (pc'[u] = pc[u] /\ arg'[u] = arg[u])
                          \/ pc'[u] \notin Writing \cup {"head", "upload"}
  PROVE  StoreInv'
<1>1. Shape'
  BY DEF StoreInv, Shape
<1>2. Numbered'
  BY DEF StoreInv, Numbered, Writing
<1>3. Filled'
  BY DEF StoreInv, Filled, TempOf, Writing
<1>4. AckedStored'
  BY DEF StoreInv, AckedStored
<1> QED
  BY <1>1, <1>2, <1>3, <1>4 DEF StoreInv

-----------------------------------------------------------------------------
(* A put takes the next number of its process.                             *)
LEMMA PutKeeps ==
  ASSUME StoreInv, NEW t \in Tasks, Put(t)
  PROVE  StoreInv'
<1> DEFINE p == ProcOf[t]
<1>1. /\ pc[t] = "idle" /\ p \in Procs /\ counter[p] \in Nat
      /\ UNCHANGED <<objects, temps, stream, acked, harmed>>
  BY DEF Put, StoreInv, Shape, Procs
<1>2. PICK c \in Contents : arg' = [arg EXCEPT ![t] = c]
  BY DEF Put
<1>3. answer' = [answer EXCEPT ![t] = "none"]
  BY DEF Put
<1>4. CASE backend = "s3"
  <2>1. Goto(t, "head") /\ UNCHANGED <<counter, temp>>
    BY <1>4 DEF Put
  <2>2. Shape'
    BY <1>1, <1>2, <1>3, <2>1 DEF StoreInv, Shape, Goto
  <2>3. Numbered'
    BY <2>1 DEF StoreInv, Shape, Numbered, Goto, Writing
  <2>4. Filled'
    BY <1>1, <1>2, <2>1 DEF StoreInv, Shape, Filled, Goto, TempOf
  <2> QED
    BY <1>1, <2>2, <2>3, <2>4 DEF StoreInv, AckedStored
<1>5. CASE backend # "s3"
  <2>1. /\ Goto(t, "create")
        /\ temp' = [temp EXCEPT ![t] = counter[p]]
        /\ counter' = [counter EXCEPT ![p] = @ + 1]
    BY <1>5 DEF Put
  <2>2. Shape'
    BY <1>1, <1>2, <1>3, <2>1 DEF StoreInv, Shape, Goto
  <2>3. \A u \in Tasks : ProcOf[u] \in Procs /\ counter'[ProcOf[u]] \in Nat
                         /\ counter[ProcOf[u]] \in Nat
                         /\ counter[ProcOf[u]] <= counter'[ProcOf[u]]
    BY <1>1, <2>1 DEF StoreInv, Shape, Procs
  <2>4. /\ temp'[t] = counter[p] /\ counter'[p] = counter[p] + 1
        /\ \A u \in Tasks : u # t => temp'[u] = temp[u] /\ pc'[u] = pc[u]
    BY <1>1, <2>1 DEF StoreInv, Shape, Goto
  <2>5. Numbered'
    <3>1. ASSUME NEW u \in Tasks, pc'[u] \in Writing
          PROVE  temp'[u] \in Nat /\ temp'[u] < counter'[ProcOf[u]]
      <4>1. CASE u = t
        BY <4>1, <1>1, <2>4
      <4>2. CASE u # t
        BY <4>2, <3>1, <2>3, <2>4 DEF StoreInv, Numbered
      <4> QED
        BY <4>1, <4>2
    <3>2. ASSUME NEW u \in Tasks, u # t, ProcOf[u] = p, pc'[u] \in Writing
          PROVE  temp'[u] # temp'[t]
      BY <3>2, <1>1, <2>4 DEF StoreInv, Numbered
    <3>3. ASSUME NEW u \in Tasks, NEW v \in Tasks, u # v, ProcOf[u] = ProcOf[v],
                 pc'[u] \in Writing, pc'[v] \in Writing
          PROVE  temp'[u] # temp'[v]
      <4>1. CASE u = t \/ v = t
        BY <4>1, <3>2, <3>3
      <4>2. CASE u # t /\ v # t
        BY <4>2, <3>3, <2>4 DEF StoreInv, Numbered
      <4> QED
        BY <4>1, <4>2
    <3> QED
      BY <3>1, <3>3 DEF Numbered
  <2>6. Filled'
    BY <1>1, <1>2, <2>1, <2>4 DEF StoreInv, Shape, Filled, Goto, TempOf
  <2> QED
    BY <1>1, <2>2, <2>5, <2>6 DEF StoreInv, AckedStored
<1> QED
  BY <1>4, <1>5

(* Creating and filling touch the task's own temporary file only.          *)
LEMMA OwnTempKeeps ==
  ASSUME StoreInv, NEW t \in Tasks, pc[t] \in {"create", "fill"},
         NEW to \in {"fill", "rename"}, NEW full \in BOOLEAN,
         to = "rename" => full,
         Goto(t, to), temps' = Others(t) \cup {Temp(t, full)},
         UNCHANGED <<objects, counter, arg, temp, stream, answer, acked, harmed>>
  PROVE  StoreInv'
<1>1. \A u \in Tasks : pc'[u] = IF u = t THEN to ELSE pc[u]
  BY DEF Goto, StoreInv, Shape
<1>2. Shape'
  BY <1>1 DEF StoreInv, Shape, Goto, Writing
<1>3. Numbered'
  BY <1>1 DEF StoreInv, Numbered, Writing
<1>4. ASSUME NEW u \in Tasks, pc'[u] = "rename", NEW f \in temps', f.file = TempOf(u)
      PROVE  f.full
  <2>1. CASE u = t
    BY <2>1, <1>1, <1>4 DEF Others, Temp
  <2>2. CASE u # t
    <3>1. pc[u] = "rename"
      BY <2>2, <1>1, <1>4
    <3>2. TempOf(u) # TempOf(t)
      BY <2>2, <3>1, OwnFile DEF StoreInv, Writing
    <3>3. f \in temps
      BY <1>4, <3>2 DEF Others, Temp
    <3> QED
      BY <1>4, <3>1, <3>3 DEF StoreInv, Filled
  <2> QED
    BY <2>1, <2>2
<1>5. Filled'
  BY <1>4 DEF Filled, TempOf
<1> QED
  BY <1>2, <1>3, <1>5 DEF StoreInv, AckedStored

(* What a rename moves under the CID is complete.                          *)
LEMMA RenameKeeps ==
  ASSUME StoreInv, NEW t \in Tasks, Rename(t)
  PROVE  StoreInv'
<1> DEFINE c == arg[t]
<1>1. c \in Contents
  BY DEF Rename, StoreInv, Shape, Writing
<1>2. \/ objects' = [objects EXCEPT ![c] = "whole"] /\ harmed' = harmed \ {c}
      \/ objects[c] # "none" /\ UNCHANGED <<objects, harmed>>
  BY DEF Rename, StoreInv, Filled
<1>3. /\ acked' = acked \cup {c}
      /\ counter' = counter /\ temps' \subseteq temps /\ End(t, "stored")
  BY DEF Rename, Others
<1>4. objects' \in [Contents -> {"none", "whole", "torn"}] /\ acked' \subseteq Contents
  BY <1>1, <1>2, <1>3 DEF StoreInv, Shape
<1>5. Shape' /\ Numbered' /\ Filled'
  BY <1>3, <1>4, EndKeeps
<1>6. AckedStored'
  BY <1>1, <1>2, <1>3 DEF StoreInv, AckedStored, Shape
<1> QED
  BY <1>5, <1>6 DEF StoreInv

(* S3 stores the content in one step, or has it already.                   *)
LEMMA UploadKeeps ==
  ASSUME StoreInv, NEW t \in Tasks, Head(t) \/ Upload(t)
  PROVE  StoreInv'
<1> DEFINE c == arg[t]
<1>1. c \in Contents
  BY DEF Head, Upload, StoreInv, Shape
<1>2. CASE Upload(t)
  <2>1. /\ objects' = [objects EXCEPT ![c] = "whole"]
        /\ acked' = acked \cup {c} /\ harmed' = harmed \ {c}
        /\ counter' = counter /\ temps' \subseteq temps /\ End(t, "stored")
    BY <1>2 DEF Upload
  <2>2. objects' \in [Contents -> {"none", "whole", "torn"}] /\ acked' \subseteq Contents
    BY <1>1, <2>1 DEF StoreInv, Shape
  <2>3. Shape' /\ Numbered' /\ Filled'
    BY <2>1, <2>2, EndKeeps
  <2> QED
    BY <1>1, <2>1, <2>3 DEF StoreInv, AckedStored, Shape
<1>3. CASE Head(t) /\ objects[c] = "none"
  <2>1. /\ Goto(t, "upload")
        /\ UNCHANGED <<arg, temp, stream, answer, acked, objects, temps, counter, harmed>>
    BY <1>3 DEF Head, store
  <2>2. Shape'
    BY <1>1, <2>1 DEF StoreInv, Shape, Goto, Writing
  <2>3. Numbered' /\ Filled'
    BY <2>1 DEF StoreInv, Shape, Numbered, Filled, Goto, TempOf, Writing
  <2> QED
    BY <2>1, <2>2, <2>3 DEF StoreInv, AckedStored
<1>4. CASE Head(t) /\ objects[c] # "none"
  <2>1. /\ acked' = acked \cup {c} /\ End(t, "stored")
        /\ UNCHANGED <<objects, temps, counter, harmed>>
    BY <1>4 DEF Head, store
  <2>2. Shape' /\ Numbered' /\ Filled'
    BY <1>1, <2>1, EndKeeps DEF StoreInv, Shape
  <2> QED
    BY <1>1, <1>4, <2>1, <2>2 DEF StoreInv, AckedStored, Shape
<1> QED
  BY <1>2, <1>3, <1>4

-----------------------------------------------------------------------------
(* Gets, streams and listings.                                             *)
LEMMA ReadingKeeps ==
  ASSUME StoreInv, NEW t \in Tasks,
         \/ Get(t) \/ OpenStream(t) \/ Poll(t) \/ Over(t)
         \/ BeginList(t) \/ ReadDir(t) \/ Stat(t) \/ EndList(t)
  PROVE  StoreInv'
<1>1. UNCHANGED <<objects, temps, counter, acked, harmed>>
  BY DEF Get, OpenStream, Poll, Over, BeginList, ReadDir, Stat, EndList, store
<1>2. CASE \E what : End(t, what)
  <2>1. Shape' /\ Numbered' /\ Filled'
    BY <1>1, <1>2, EndKeeps DEF StoreInv, Shape
  <2> QED
    BY <1>1, <2>1 DEF StoreInv, AckedStored
<1>3. CASE Get(t)
  BY <1>1, <1>3, ReadKeeps DEF Get, StoreInv, Shape
<1>4. CASE OpenStream(t)
  <2>1. \/ (pc' = pc /\ arg' = arg)
        \/ (Goto(t, "stream") /\ \E c \in Contents : arg' = [arg EXCEPT ![t] = c])
    BY <1>4 DEF OpenStream
  <2>2. temp' = temp /\ DOMAIN stream' = Tasks /\ DOMAIN answer' = Tasks
    BY <1>4 DEF OpenStream, StoreInv, Shape
  <2> QED
    BY <1>1, <2>1, <2>2, ReadKeeps DEF Goto, StoreInv, Shape, Writing
<1>5. CASE Poll(t)
  <2>1. \/ (Goto(t, "over") /\ UNCHANGED <<arg, temp, stream>> /\ DOMAIN answer' = Tasks)
        \/ (UNCHANGED <<pc, arg, temp, answer>> /\ DOMAIN stream' = Tasks)
    BY <1>5 DEF Poll, control, StoreInv, Shape
  <2> QED
    BY <1>1, <2>1, ReadKeeps DEF Goto, StoreInv, Shape, Writing
<1>6. CASE BeginList(t)
  BY <1>1, <1>6, ReadKeeps DEF BeginList, Goto, StoreInv, Shape, Writing
<1>7. CASE ReadDir(t)
  BY <1>1, <1>7, ReadKeeps DEF ReadDir, Goto, StoreInv, Shape, Writing
<1>8. CASE Stat(t)
  <2>1. \/ End(t, "error")
        \/ (Goto(t, "list") /\ arg' = [arg EXCEPT ![t] = None] /\ UNCHANGED <<temp, stream, answer>>)
    BY <1>8 DEF Stat
  <2> QED
    BY <1>1, <1>2, <2>1, ReadKeeps DEF Goto, StoreInv, Shape, Writing
<1>9. CASE EndList(t) \/ Over(t)
  BY <1>2, <1>9 DEF EndList, Over
<1> QED
  BY <1>3, <1>4, <1>5, <1>6, <1>7, <1>8, <1>9

(* A delete takes back the acknowledgement with the object.                *)
LEMMA DeleteKeeps ==
  ASSUME StoreInv, NEW t \in Tasks, Delete(t)
  PROVE  StoreInv'
<1>1. PICK c \in Contents :
        IF objects[c] = "none"
        THEN DOMAIN answer' = Tasks /\ UNCHANGED <<objects, acked, harmed>>
        ELSE /\ objects' = [objects EXCEPT ![c] = "none"]
             /\ acked' = acked \ {c} /\ harmed' = harmed \ {c}
             /\ answer' = [answer EXCEPT ![t] = "deleted"]
  BY DEF Delete, StoreInv, Shape
<1>2. UNCHANGED <<temps, counter, pc, arg, temp, stream>>
  BY DEF Delete
<1>3. Shape'
  BY <1>1, <1>2 DEF StoreInv, Shape
<1>4. Numbered' /\ Filled'
  BY <1>2 DEF StoreInv, Numbered, Filled, TempOf
<1>5. AckedStored'
  BY <1>1 DEF StoreInv, AckedStored, Shape
<1> QED
  BY <1>3, <1>4, <1>5 DEF StoreInv

-----------------------------------------------------------------------------
(* A crash ends every put of its process; the temporary files stay.        *)
LEMMA CrashKeeps ==
  ASSUME StoreInv, NEW p \in Procs, Crash(p)
  PROVE  StoreInv'
<1>1. /\ UNCHANGED <<objects, temps, acked, harmed>>
      /\ counter' = [counter EXCEPT ![p] = 0]
      /\ pc' = [t \in Tasks |-> IF ProcOf[t] = p THEN "idle" ELSE pc[t]]
      /\ temp' = [t \in Tasks |-> IF ProcOf[t] = p THEN 0 ELSE temp[t]]
      /\ arg' = [t \in Tasks |-> IF ProcOf[t] = p THEN None ELSE arg[t]]
      /\ DOMAIN stream' = Tasks /\ DOMAIN answer' = Tasks
  BY DEF Crash
<1>2. Shape'
  BY <1>1 DEF StoreInv, Shape, Writing
<1>3. \A t \in Tasks : pc'[t] \in Writing =>
        /\ ProcOf[t] # p /\ pc'[t] = pc[t] /\ temp'[t] = temp[t] /\ arg'[t] = arg[t]
        /\ counter'[ProcOf[t]] = counter[ProcOf[t]]
  BY <1>1 DEF StoreInv, Shape, Procs, Writing
<1>4. Numbered'
  BY <1>3 DEF StoreInv, Numbered
<1>5. Filled'
  BY <1>1, <1>3 DEF StoreInv, Filled, TempOf, Writing
<1> QED
  BY <1>1, <1>2, <1>4, <1>5 DEF StoreInv, AckedStored

(* Decay is recorded.                                                      *)
LEMMA RotKeeps ==
  ASSUME StoreInv, Rot
  PROVE  StoreInv'
<1>1. PICK c \in Contents : objects' = [objects EXCEPT ![c] = "torn"] /\ harmed' = harmed \cup {c}
  BY DEF Rot
<1>2. UNCHANGED <<temps, counter, pc, arg, temp, answer, acked>> /\ DOMAIN stream' = Tasks
  BY DEF Rot
<1>3. Shape' /\ Numbered' /\ Filled'
  BY <1>1, <1>2 DEF StoreInv, Shape, Numbered, Filled, TempOf
<1>4. AckedStored'
  BY <1>1, <1>2 DEF StoreInv, AckedStored, Shape
<1> QED
  BY <1>3, <1>4 DEF StoreInv

(* The invariant is inductive.                                             *)
LEMMA StoreNext == StoreInv /\ [Next]_vars => StoreInv'
<1> SUFFICES ASSUME StoreInv, [Next]_vars
             PROVE  StoreInv'
  OBVIOUS
<1>1. ASSUME NEW t \in Tasks, Put(t) PROVE StoreInv'
  BY <1>1, PutKeeps
<1>2. ASSUME NEW t \in Tasks, Create(t) PROVE StoreInv'
  BY <1>2, OwnTempKeeps DEF Create
<1>3. ASSUME NEW t \in Tasks, Fill(t) PROVE StoreInv'
  BY <1>3, OwnTempKeeps DEF Fill
<1>4. ASSUME NEW t \in Tasks, Rename(t) PROVE StoreInv'
  BY <1>4, RenameKeeps
<1>5. ASSUME NEW t \in Tasks, Head(t) \/ Upload(t) PROVE StoreInv'
  BY <1>5, UploadKeeps
<1>6. ASSUME NEW t \in Tasks,
             \/ Get(t) \/ OpenStream(t) \/ Poll(t) \/ Over(t)
             \/ BeginList(t) \/ ReadDir(t) \/ Stat(t) \/ EndList(t)
      PROVE  StoreInv'
  BY <1>6, ReadingKeeps
<1>7. ASSUME NEW t \in Tasks, Delete(t) PROVE StoreInv'
  BY <1>7, DeleteKeeps
<1>8. ASSUME NEW t \in Tasks, IoFails(t) PROVE StoreInv'
  <2>1. End(t, "error") /\ UNCHANGED <<objects, temps, counter, acked, harmed>>
    BY <1>8 DEF IoFails, store
  <2>2. Shape' /\ Numbered' /\ Filled'
    BY <2>1, EndKeeps DEF StoreInv, Shape
  <2> QED
    BY <2>1, <2>2 DEF StoreInv, AckedStored
<1>9. ASSUME NEW p \in Procs, Crash(p) PROVE StoreInv'
  BY <1>9, CrashKeeps
<1>10. CASE Rot
  BY <1>10, RotKeeps
<1>11. CASE UNCHANGED vars
  BY <1>11 DEF vars, store, control, StoreInv, Shape, Numbered, Filled, AckedStored, TempOf
<1> QED
  BY <1>1, <1>2, <1>3, <1>4, <1>5, <1>6, <1>7, <1>8, <1>9, <1>10, <1>11 DEF Next

(* What was acknowledged lies under its CID and is the content, through    *)
(* concurrent puts and deletes, crashes at any step and reused PIDs.       *)
THEOREM Stored == Spec => []AckedStored
<1>1. StoreInv => AckedStored
  BY DEF StoreInv
<1> QED
  BY StoreInit, StoreNext, <1>1, PTL DEF Spec

(* A stream that ends well has brought the content, and one that reports a *)
(* mismatch had other bytes, whatever other tasks, crashes and decay do.   *)
THEOREM StreamsAreHonest == Spec => StreamHonest
<1> DEFINE Honest(t) ==
      (pc[t] = "stream" /\ pc'[t] # "stream") =>
         CASE answer'[t] = "content" -> stream[t].good /\ stream[t].read = Chunks
           [] answer'[t] = "mismatch" -> ~stream[t].good
           [] OTHER -> TRUE
<1>1. ASSUME StoreInv, [Next]_vars, NEW t \in Tasks, pc[t] = "stream", pc'[t] # "stream"
      PROVE  \/ answer'[t] \in {"error", "none"}
             \/ (stream[t].read = Chunks /\ answer'[t] = Verdict(t))
  <2>1. ASSUME NEW u \in Tasks, u # t, NEW what, End(u, what) PROVE FALSE
    BY <1>1, <2>1 DEF End, Goto
  <2>2. ASSUME NEW u \in Tasks, u # t, NEW to, Goto(u, to) PROVE FALSE
    BY <1>1, <2>2 DEF Goto
  <2>3. ASSUME NEW u \in Tasks, IoFails(u) PROVE answer'[t] = "error"
    <3>1. End(u, "error")
      BY <2>3 DEF IoFails
    <3>2. u = t
      BY <2>1, <3>1
    <3> QED
      BY <1>1, <3>1, <3>2 DEF End, StoreInv, Shape
  <2>4. ASSUME NEW u \in Tasks, Poll(u)
        PROVE  stream[t].read = Chunks /\ answer'[t] = Verdict(t)
    <3>1. \/ /\ Goto(u, "over") /\ answer' = [answer EXCEPT ![u] = Verdict(u)]
             /\ \E room \in BOOLEAN : AtEnd(u, room)
          \/ pc' = pc
      BY <2>4 DEF Poll, control
    <3>2. /\ Goto(u, "over") /\ answer' = [answer EXCEPT ![u] = Verdict(u)]
          /\ stream[u].read = Chunks
      BY <3>1, <1>1 DEF AtEnd
    <3>3. u = t
      BY <2>2, <3>2
    <3> QED
      BY <1>1, <3>2, <3>3 DEF StoreInv, Shape
  <2>5. ASSUME NEW p \in Procs, Crash(p) PROVE answer'[t] = "none"
    BY <1>1, <2>5 DEF Crash
  <2>6. ASSUME NEW u \in Tasks,
               \/ Put(u) \/ Create(u) \/ Fill(u) \/ Rename(u) \/ Head(u) \/ Upload(u)
               \/ Get(u) \/ OpenStream(u) \/ Over(u)
               \/ BeginList(u) \/ ReadDir(u) \/ Stat(u) \/ EndList(u) \/ Delete(u)
        PROVE  FALSE
    <3>1. pc[u] # "stream"
      BY <2>6 DEF Put, Create, Fill, Rename, Head, Upload, Get, OpenStream, Over,
                  BeginList, ReadDir, Stat, EndList, Delete
    <3>2. u # t
      BY <3>1, <1>1
    <3>3. (\E what : End(u, what)) \/ (\E to : Goto(u, to)) \/ pc' = pc
      BY <2>6 DEF Put, Create, Fill, Rename, Head, Upload, Get, OpenStream, Over,
                  BeginList, ReadDir, Stat, EndList, Delete
    <3> QED
      BY <3>2, <3>3, <2>1, <2>2, <1>1
  <2>7. CASE Rot \/ UNCHANGED vars
    BY <1>1, <2>7 DEF Rot, vars, control
  <2> QED
    BY <1>1, <2>3, <2>4, <2>5, <2>6, <2>7 DEF Next
<1>2. StoreInv /\ [Next]_vars => \A t \in Tasks : Honest(t)
  BY <1>1 DEF Verdict
<1>3. StoreInv /\ [Next]_vars => [\A t \in Tasks : Honest(t)]_vars
  BY <1>2
<1> QED
  BY StoreInit, StoreNext, <1>3, PTL DEF Spec, StreamHonest

-----------------------------------------------------------------------------
(* What was there all along is found, or has still to be looked for.       *)
Listed(t) ==
  /\ answer[t] = "none"
  /\ \A c \in seen[t].always :
       objects[c] # "none" /\ c \in seen[t].found \cup seen[t].todo

ListInv ==
  /\ DOMAIN seen = Tasks /\ DOMAIN objects = Contents
  /\ DOMAIN pc = Tasks /\ DOMAIN answer = Tasks
  /\ \A t \in Tasks : /\ DOMAIN seen[t] = {"found", "todo", "dir", "always"}
                       /\ seen[t].always \subseteq Contents
  /\ \A t \in Tasks : pc[t] \in {"list", "stat"} => Listed(t)

(* A step of one task that removes nothing and stands in no listing of     *)
(* its own.                                                                *)
LEMMA OthersList ==
  ASSUME ListInv, NEW t \in Tasks, DOMAIN objects' = Contents,
         \A c \in Contents : objects[c] # "none" => objects'[c] # "none",
         DOMAIN pc' = Tasks, DOMAIN answer' = Tasks, DOMAIN seen' = Tasks,
         \A u \in Tasks : u # t => pc'[u] = pc[u] /\ answer'[u] = answer[u] /\ seen'[u] = seen[u],
         DOMAIN seen'[t] = {"found", "todo", "dir", "always"},
         seen'[t].always \subseteq Contents,
         pc'[t] \in {"list", "stat"} => Listed(t)'
  PROVE  ListInv'
<1>1. ASSUME NEW u \in Tasks, u # t, pc'[u] \in {"list", "stat"} PROVE Listed(u)'
  BY <1>1 DEF ListInv, Listed
<1> QED
  BY <1>1 DEF ListInv

(* An operation that ends has no listing any more.                         *)
LEMMA EndLists ==
  ASSUME ListInv, NEW t \in Tasks, NEW what, End(t, what), DOMAIN objects' = Contents,
         \A c \in Contents : objects[c] # "none" => objects'[c] # "none"
  PROVE  ListInv'
<1>1. /\ DOMAIN pc' = Tasks /\ DOMAIN answer' = Tasks /\ DOMAIN seen' = Tasks
      /\ pc'[t] = "idle" /\ seen'[t] = NoListing
      /\ \A u \in Tasks : u # t => pc'[u] = pc[u] /\ answer'[u] = answer[u] /\ seen'[u] = seen[u]
  BY DEF End, Goto, ListInv
<1>2. DOMAIN seen'[t] = {"found", "todo", "dir", "always"} /\ seen'[t].always = {}
  BY <1>1 DEF NoListing
<1> QED
  BY <1>1, <1>2, OthersList

(* A put only adds objects.                                                *)
LEMMA PutLists ==
  ASSUME ListInv, NEW t \in Tasks,
         \/ Put(t) \/ Create(t) \/ Fill(t) \/ Rename(t) \/ Head(t) \/ Upload(t)
  PROVE  ListInv'
<1>1. CASE Put(t) \/ Create(t) \/ Fill(t)
  <2>1. UNCHANGED <<objects, seen>> /\ DOMAIN answer' = Tasks
        /\ \A u \in Tasks : u # t => answer'[u] = answer[u]
    BY <1>1 DEF Put, Create, Fill, ListInv
  <2>2. \E to \in {"head", "create", "fill", "rename"} : Goto(t, to)
    BY <1>1 DEF Put, Create, Fill
  <2> QED
    BY <2>1, <2>2, OthersList DEF Goto, ListInv
<1>2. CASE Rename(t)
  <2>1. \/ \E f \in temps : objects' = [objects EXCEPT ![arg[t]] = IF f.full THEN "whole" ELSE "torn"]
        \/ objects' = objects
    BY <1>2 DEF Rename
  <2> QED
    BY <1>2, <2>1, EndLists DEF Rename, ListInv
<1>3. CASE Upload(t)
  BY <1>3, EndLists DEF Upload, ListInv
<1>4. CASE Head(t)
  <2>1. objects' = objects
    BY <1>4 DEF Head, store
  <2>2. CASE Goto(t, "upload") /\ UNCHANGED <<seen, answer>>
    BY <2>1, <2>2, OthersList DEF Goto, ListInv
  <2>3. CASE End(t, "stored")
    BY <2>1, <2>3, EndLists DEF ListInv
  <2> QED
    BY <1>4, <2>2, <2>3 DEF Head
<1> QED
  BY <1>1, <1>2, <1>3, <1>4

(* A read changes no object.                                               *)
LEMMA ReadLists ==
  ASSUME ListInv, NEW t \in Tasks, Get(t) \/ OpenStream(t) \/ Poll(t) \/ Over(t)
  PROVE  ListInv'
<1>1. objects' = objects
  BY DEF Get, OpenStream, Poll, Over, store
<1>2. CASE \E what : End(t, what)
  BY <1>1, <1>2, EndLists DEF ListInv
<1>3. CASE Get(t) \/ OpenStream(t)
  <2>1. /\ pc[t] = "idle" /\ seen' = seen /\ DOMAIN answer' = Tasks
        /\ \A u \in Tasks : u # t => answer'[u] = answer[u]
    BY <1>3 DEF Get, OpenStream, ListInv
  <2>2. UNCHANGED pc \/ Goto(t, "stream")
    BY <1>3 DEF Get, OpenStream
  <2> QED
    BY <1>1, <2>1, <2>2, OthersList DEF Goto, ListInv
<1>4. CASE Poll(t)
  <2>1. CASE UNCHANGED <<pc, seen, answer>>
    BY <1>1, <2>1 DEF ListInv, Listed
  <2>2. CASE Goto(t, "over") /\ seen' = seen /\ answer' = [answer EXCEPT ![t] = Verdict(t)]
    BY <1>1, <2>2, OthersList DEF Goto, ListInv
  <2> QED
    BY <1>4, <2>1, <2>2 DEF Poll, control
<1>5. CASE Over(t)
  BY <1>2, <1>5 DEF Over
<1> QED
  BY <1>3, <1>4, <1>5

(* A listing takes what it has read, and looks at one file at a time.      *)
LEMMA ListLists ==
  ASSUME ListInv, NEW t \in Tasks, BeginList(t) \/ ReadDir(t) \/ Stat(t) \/ EndList(t)
  PROVE  ListInv'
<1>1. objects' = objects
  BY DEF BeginList, ReadDir, Stat, EndList, store
<1>2. CASE BeginList(t)
  <2>1. /\ seen'[t] = [found |-> {}, todo |-> Contents, dir |-> {},
                       always |-> {c \in Contents : objects[c] # "none"}]
        /\ answer'[t] = "none"
        /\ DOMAIN pc' = Tasks /\ DOMAIN answer' = Tasks /\ DOMAIN seen' = Tasks
        /\ \A u \in Tasks : u # t => pc'[u] = pc[u] /\ answer'[u] = answer[u] /\ seen'[u] = seen[u]
    BY <1>2 DEF BeginList, Goto, ListInv
  <2>2. Listed(t)'
    BY <1>1, <2>1 DEF Listed
  <2> QED
    BY <1>1, <2>1, <2>2, OthersList DEF ListInv
<1>3. CASE ReadDir(t)
  <2>1. PICK c \in seen[t].todo :
          seen' = [seen EXCEPT ![t] =
            [found |-> IF objects[c] # "none" THEN @.found \cup {c} ELSE @.found,
             todo |-> @.todo \ {c}, dir |-> Entries(c), always |-> @.always]]
    BY <1>3 DEF ReadDir
  <2>2. /\ DOMAIN seen' = Tasks /\ DOMAIN seen'[t] = {"found", "todo", "dir", "always"}
        /\ seen'[t].always = seen[t].always /\ seen'[t].todo = seen[t].todo \ {c}
        /\ seen'[t].found = IF objects[c] # "none" THEN seen[t].found \cup {c} ELSE seen[t].found
    BY <2>1 DEF ListInv
  <2>3. pc[t] = "list" /\ pc' = [pc EXCEPT ![t] = "stat"] /\ answer' = answer
    BY <1>3 DEF ReadDir, Goto
  <2>4. Listed(t)'
    BY <1>1, <2>2, <2>3 DEF ListInv, Listed
  <2> QED
    BY <1>1, <2>1, <2>2, <2>3, <2>4, OthersList DEF ListInv
<1>4. CASE Stat(t)
  <2>1. CASE End(t, "error")
    BY <1>1, <2>1, EndLists DEF ListInv
  <2>2. CASE Goto(t, "list") /\ UNCHANGED <<seen, answer>>
    <3>1. pc[t] = "stat"
      BY <1>4 DEF Stat
    <3>2. Listed(t)'
      BY <1>1, <2>2, <3>1 DEF ListInv, Listed
    <3> QED
      BY <1>1, <2>2, <3>2, OthersList DEF Goto, ListInv
  <2> QED
    BY <1>4, <2>1, <2>2 DEF Stat
<1>5. CASE EndList(t)
  BY <1>1, <1>5, EndLists DEF EndList, ListInv
<1> QED
  BY <1>2, <1>3, <1>4, <1>5

(* A deleted object is in no listing's promise any more.                   *)
LEMMA DeleteLists ==
  ASSUME ListInv, NEW t \in Tasks, Delete(t)
  PROVE  ListInv'
<1>1. pc[t] = "idle" /\ pc' = pc
  BY DEF Delete
<1>2. PICK c \in Contents :
        IF objects[c] = "none"
        THEN /\ \E what : answer' = [answer EXCEPT ![t] = what]
             /\ UNCHANGED <<objects, seen>>
        ELSE /\ objects' = [objects EXCEPT ![c] = "none"]
             /\ seen' = StillThere(objects')
             /\ answer' = [answer EXCEPT ![t] = "deleted"]
  BY DEF Delete
<1>3. CASE objects[c] = "none"
  BY <1>1, <1>2, <1>3, OthersList DEF ListInv
<1>4. CASE objects[c] # "none"
  <2>1. \A u \in Tasks :
          /\ DOMAIN seen'[u] = {"found", "todo", "dir", "always"}
          /\ seen'[u].found = seen[u].found /\ seen'[u].todo = seen[u].todo
          /\ seen'[u].always = seen[u].always \cap {d \in Contents : objects'[d] # "none"}
    BY <1>2, <1>4 DEF StillThere, ListInv
  <2>2. DOMAIN seen' = Tasks /\ DOMAIN objects' = Contents /\ DOMAIN answer' = Tasks
    BY <1>2, <1>4 DEF StillThere, ListInv
  <2>3. ASSUME NEW u \in Tasks, pc'[u] \in {"list", "stat"} PROVE Listed(u)'
    <3>1. u # t /\ answer'[u] = answer[u]
      BY <1>1, <1>2, <1>4, <2>3 DEF ListInv
    <3> QED
      BY <1>1, <2>1, <2>3, <3>1 DEF ListInv, Listed
  <2> QED
    BY <1>1, <2>1, <2>2, <2>3 DEF ListInv
<1> QED
  BY <1>3, <1>4

(* A crash ends listings; rot and failed calls remove nothing.             *)
LEMMA FaultLists ==
  ASSUME ListInv, Rot \/ \E p \in Procs : Crash(p)
  PROVE  ListInv'
<1>1. CASE Rot
  <2>1. UNCHANGED <<pc, seen, answer>>
    BY <1>1 DEF Rot
  <2>2. PICK c \in Contents : objects[c] = "whole" /\ objects' = [objects EXCEPT ![c] = "torn"]
    BY <1>1 DEF Rot
  <2> QED
    BY <2>1, <2>2 DEF ListInv, Listed
<1>2. ASSUME NEW p \in Procs, Crash(p) PROVE ListInv'
  <2>1. /\ objects' = objects
        /\ pc' = [t \in Tasks |-> IF ProcOf[t] = p THEN "idle" ELSE pc[t]]
        /\ seen' = [t \in Tasks |-> IF ProcOf[t] = p THEN NoListing ELSE seen[t]]
        /\ answer' = [t \in Tasks |-> IF ProcOf[t] = p THEN "none" ELSE answer[t]]
    BY <1>2 DEF Crash
  <2>2. \A t \in Tasks : /\ DOMAIN seen'[t] = {"found", "todo", "dir", "always"}
                         /\ seen'[t].always \subseteq Contents
    BY <2>1 DEF NoListing, ListInv
  <2> QED
    BY <2>1, <2>2 DEF ListInv, Listed
<1> QED
  BY <1>1, <1>2

(* At the start nobody lists.                                              *)
LEMMA ListInit == Init => ListInv
BY DEF Init, ListInv, NoListing

(* Every step keeps what a listing has seen and still has to see complete. *)
LEMMA ListNext == ListInv /\ [Next]_vars => ListInv'
<1> SUFFICES ASSUME ListInv, [Next]_vars PROVE ListInv'
  OBVIOUS
<1>1. ASSUME NEW t \in Tasks, IoFails(t) PROVE ListInv'
  BY <1>1, EndLists DEF IoFails, store, ListInv
<1>2. CASE UNCHANGED vars
  BY <1>2 DEF vars, store, control, ListInv, Listed
<1> QED
  BY <1>1, <1>2, PutLists, ReadLists, ListLists, DeleteLists, FaultLists DEF Next

(* A listing that succeeds has every object that was there all the time,   *)
(* whatever puts, deletes, crashes and other listings do meanwhile.        *)
THEOREM ListingsComplete == Spec => ListComplete
<1> DEFINE Complete == \A t \in Tasks :
      (pc[t] = "list" /\ answer'[t] = "listed") => seen[t].always \subseteq seen[t].found
<1>1. ASSUME ListInv, [Next]_vars, NEW t \in Tasks, pc[t] = "list", answer'[t] = "listed"
      PROVE  seen[t].todo = {}
  <2>1. answer[t] = "none"
    BY <1>1 DEF ListInv, Listed
  <2>2. ASSUME NEW u \in Tasks, EndList(u) PROVE seen[t].todo = {}
    <3>1. u = t
      BY <1>1, <2>1, <2>2 DEF EndList, End, ListInv
    <3> QED
      BY <2>2, <3>1 DEF EndList
  <2>3. ASSUME NEW u \in Tasks, NEW what, End(u, what), what # "listed" PROVE FALSE
    BY <1>1, <2>1, <2>3 DEF End, ListInv
  <2>4. ASSUME NEW u \in Tasks, NEW what, what # "listed", answer' = [answer EXCEPT ![u] = what]
        PROVE  FALSE
    BY <1>1, <2>1, <2>4 DEF ListInv
  <2>5. ASSUME answer' = answer PROVE FALSE
    BY <1>1, <2>1, <2>5
  <2>6. ASSUME NEW u \in Tasks, Get(u) PROVE FALSE
    <3>1. PICK c \in Contents :
            answer' = [answer EXCEPT ![u] = CASE objects[c] = "none" -> "missing"
                                              [] objects[c] = "torn" -> "mismatch"
                                              [] OTHER -> "content"]
      BY <2>6 DEF Get
    <3>2. \E what \in {"missing", "mismatch", "content"} : answer' = [answer EXCEPT ![u] = what]
      <4>1. CASE objects[c] = "none"
        BY <3>1, <4>1
      <4>2. CASE objects[c] = "torn"
        BY <3>1, <4>2
      <4>3. CASE objects[c] \notin {"none", "torn"}
        BY <3>1, <4>3
      <4> QED
        BY <4>1, <4>2, <4>3
    <3> QED
      BY <2>4, <3>2
  <2>7. ASSUME NEW u \in Tasks, Poll(u) PROVE FALSE
    <3>1. answer' = [answer EXCEPT ![u] = Verdict(u)] \/ answer' = answer
      BY <2>7 DEF Poll, control
    <3>2. Verdict(u) # "listed"
      BY DEF Verdict
    <3> QED
      BY <3>1, <3>2, <2>4, <2>5
  <2>8. ASSUME NEW u \in Tasks,
               \/ Put(u) \/ Create(u) \/ Fill(u) \/ Rename(u) \/ Head(u) \/ Upload(u)
               \/ OpenStream(u) \/ BeginList(u) \/ ReadDir(u) \/ Stat(u)
               \/ Delete(u) \/ IoFails(u) \/ Over(u)
        PROVE  FALSE
    <3>1. \/ answer' = answer
          \/ \E what \in {"none", "missing", "deleted"} : answer' = [answer EXCEPT ![u] = what]
          \/ \E what \in {"stored", "error", "end", "content", "mismatch"} : End(u, what)
      BY <2>8 DEF Put, Create, Fill, Rename, Head, Upload, OpenStream, BeginList, ReadDir,
                  Stat, Delete, IoFails, Over, Verdict
    <3> QED
      BY <3>1, <2>3, <2>4, <2>5
  <2>9. ASSUME NEW p \in Procs, Crash(p) PROVE FALSE
    BY <1>1, <2>1, <2>9 DEF Crash
  <2>10. CASE Rot \/ UNCHANGED vars
    BY <2>5, <2>10 DEF Rot, vars, control
  <2> QED
    BY <1>1, <2>2, <2>6, <2>7, <2>8, <2>9, <2>10 DEF Next
<1>2. ListInv /\ [Next]_vars => Complete
  BY <1>1 DEF ListInv, Listed
<1>3. ListInv /\ [Next]_vars => [Complete]_vars
  BY <1>2
<1> QED
  BY ListInit, ListNext, <1>3, PTL DEF Spec, ListComplete
=============================================================================
