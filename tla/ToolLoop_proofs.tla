--------------------------- MODULE ToolLoop_proofs ---------------------------
(***************************************************************************)
(* Theorems about the execution of a stage, for any contexts, tools and    *)
(* failures and any number of executions.  Each of the four invariants     *)
(* rests on state of its own, so they are proved side by side.  For the    *)
(* conversation, the recursion of FlattenSeq is unfolded first: a smallest *)
(* counterexample takes the place of induction.                            *)
(***************************************************************************)
EXTENDS ToolLoop, SequenceTheorems, WellFoundedInduction, TLAPS

(* What the engine has reported and nothing has lost is in the file and,   *)
(* if it is loaded, in the engine's memory, with which the next addition   *)
(* rewrites the file.                                                      *)
MemoryInv ==
  /\ DOMAIN kept = {ByTool, ByEngine}
  /\ Remembered
  /\ cache.loaded => kept[ByEngine] \subseteq cache.chunks \cup lost

(* A pooled VM has no global that a script has added.                      *)
PoolInv == Isolated /\ lua = [added |-> {}, changed |-> lua.changed]

(* The result of the present execution is whole from when it is written,   *)
(* unless a process of a command that timed out writes over it.            *)
Mine == [of |-> run, whole |-> TRUE]
Published == {"publish", "on_complete", "join", "idle"}

ResultInv ==
  /\ run \in Nat
  /\ \A r \in published \cup done : r \in Nat /\ r <= run
  /\ pc \notin Published => run \notin published
  /\ pc # "idle" => run \notin done
  /\ pc \in {"container", "stdout"} => ctx.container
  /\ strays = {} =>
       /\ pc \in {"index", "publish", "on_complete"} => result = Mine
       /\ (pc = "join" /\ ~failed /\ output = "text") => result = Mine
       /\ run \in published => result = Mine
       /\ (pc = "idle" /\ run \in done /\ output = "text")
            => result = Mine /\ (ctx.container \/ run \in cas)

-----------------------------------------------------------------------------
(* An open takes over all that is in the file, or counts it as lost.       *)
LEMMA OpenKeeps == MemoryInv /\ OpenMemory => MemoryInv'
BY DEF OpenMemory, Opened, Overlook, MemoryInv, Remembered

(* An addition that is written is in memory and file.                      *)
LEMMA EngineAddsKeeps == MemoryInv /\ EngineAdds => MemoryInv'
BY DEF EngineAdds, Stored, MemoryInv, Remembered, ByTool, ByEngine

(* One that fails may be in the memory, and is reported to nobody.         *)
LEMMA EngineAddFailsKeeps == MemoryInv /\ EngineAddFails => MemoryInv'
<1> SUFFICES ASSUME MemoryInv, EngineAddFails PROVE MemoryInv'
  OBVIOUS
<1>1. UNCHANGED <<file, kept, lost>>
  BY DEF EngineAddFails
<1>2. cache' = cache \/ cache' = [loaded |-> TRUE, chunks |-> cache.chunks \cup {chunks'}]
  BY DEF EngineAddFails
<1>3. kept[ByEngine] \subseteq cache.chunks \cup lost
  BY DEF EngineAddFails, MemoryInv
<1>4. cache'.loaded => kept[ByEngine] \subseteq cache'.chunks \cup lost
  BY <1>2, <1>3
<1> QED
  BY <1>1, <1>4 DEF MemoryInv, Remembered

(* A look that adds nothing changes nothing.                               *)
LEMMA FindsNothingKeeps == MemoryInv /\ EngineFindsNothing => MemoryInv'
BY DEF EngineFindsNothing, memory, MemoryInv, Remembered

(* A tool adds to what is in the file.                                     *)
LEMMA ToolKeeps ==
  ASSUME MemoryInv, NEW tool \in Tools, Effect(tool)
  PROVE  MemoryInv'
<1>1. CASE tool = "memory_store"
  <2>1. MemoryStoreTool
    BY <1>1 DEF Effect
  <2> QED
    BY <2>1 DEF MemoryStoreTool, Stored, Opened, MemoryInv, Remembered, ByTool, ByEngine
<1>2. CASE tool # "memory_store"
  <2>1. WriteFile \/ Shell \/ ReadFile \/ Http \/ MemoryQuery
    BY <1>2, LoopOK DEF Effect
  <2>2. UNCHANGED memory
    BY <2>1 DEF WriteFile, Shell, ReadFile, Http, MemoryQuery
  <2> QED
    BY <2>2 DEF memory, MemoryInv, Remembered
<1> QED
  BY <1>1, <1>2

(* A tool that overlooks the file has lost what was in it.                 *)
LEMMA ToolOverlooksKeeps == MemoryInv /\ ToolOverlooks => MemoryInv'
BY DEF ToolOverlooks, Overlook, Stored, MemoryInv, Remembered, ByTool, ByEngine

(* Every step keeps the memory.                                            *)
LEMMA MemoryNext == MemoryInv /\ [Next]_vars => MemoryInv'
<1> SUFFICES ASSUME MemoryInv, [Next]_vars PROVE MemoryInv'
  OBVIOUS
<1>1. CASE UNCHANGED memory
  BY <1>1 DEF memory, MemoryInv, Remembered
<1>2. CASE Sources
  BY <1>1, <1>2, EngineAddsKeeps, EngineAddFailsKeeps, FindsNothingKeeps DEF Sources
<1>3. CASE Index
  BY <1>1, <1>3, EngineAddsKeeps, EngineAddFailsKeeps DEF Index
<1>4. CASE RunTool
  BY <1>4, ToolKeeps, ToolOverlooksKeeps DEF RunTool
<1>5. CASE Crash
  BY <1>5 DEF Crash, Unloaded, MemoryInv, Remembered
<1>9. CASE OpenMemory
  BY <1>9, OpenKeeps
<1>10. CASE Corrupt \/ RivalAdds
  BY <1>10 DEF Corrupt, RivalAdds, MemoryInv, Remembered
<1>6. CASE UNCHANGED vars
  BY <1>1, <1>6 DEF vars
<1>7. CASE \/ Snapshot \/ LoadContext \/ ReadInputs \/ ResolveProfile \/ Validate \/ Assemble
           \/ Ask \/ ToolsDone \/ Truncate \/ Fill
  BY <1>1, <1>7 DEF Snapshot, LoadContext, ReadInputs, ResolveProfile, Validate, Assemble,
                    Ask, ToolsDone, Truncate, Fill
<1>8. CASE \/ Publish \/ Complete \/ Join \/ Container \/ Stdout \/ Begin \/ AskFails
           \/ ToolFails \/ ShellTimesOut \/ Stray \/ Panic \/ NoProvider \/ SnapshotFails
  BY <1>1, <1>8 DEF Publish, Complete, Join, Container, Stdout, Begin, AskFails,
                    ToolFails, ShellTimesOut, Stray, Panic, NoProvider, SnapshotFails
<1> QED
  BY <1>2, <1>3, <1>4, <1>5, <1>6, <1>7, <1>8, <1>9, <1>10 DEF Next, Work

-----------------------------------------------------------------------------
(* A hook finds a VM that was reset, and leaves one that is.               *)
LEMMA HookKeeps == PoolInv /\ Hook => PoolInv'
BY DEF Hook, Acquired, Reset, PoolInv, Isolated

(* Every step leaves the pooled VM reset.                                  *)
LEMMA PoolNext == PoolInv /\ [Next]_vars => PoolInv'
<1> SUFFICES ASSUME PoolInv, [Next]_vars PROVE PoolInv'
  OBVIOUS
<1>1. CASE UNCHANGED vm
  BY <1>1 DEF vm, PoolInv, Isolated
<1>2. CASE Validate \/ Complete
  BY <1>2, HookKeeps DEF Validate, Complete
<1>3. CASE Crash
  BY <1>3 DEF Crash, FreshVM, PoolInv, Isolated
<1>4. CASE UNCHANGED vars
  BY <1>1, <1>4 DEF vars
<1>5. CASE \/ Snapshot \/ LoadContext \/ ReadInputs \/ ResolveProfile \/ OpenMemory \/ Sources
           \/ Assemble \/ Ask \/ RunTool \/ ToolsDone \/ Truncate \/ Fill \/ Index
  BY <1>1, <1>5 DEF Snapshot, LoadContext, ReadInputs, ResolveProfile, OpenMemory, Sources,
                    Assemble, Ask, RunTool, ToolsDone, Truncate, Fill, Index
<1>6. CASE \/ Publish \/ Join \/ Container \/ Stdout \/ Begin \/ AskFails
           \/ ToolFails \/ ShellTimesOut \/ Stray \/ Panic \/ NoProvider \/ SnapshotFails
           \/ Corrupt \/ RivalAdds
  BY <1>1, <1>6 DEF Publish, Join, Container, Stdout, Begin, AskFails,
                    ToolFails, ShellTimesOut, Stray, Panic, NoProvider, SnapshotFails,
                    Corrupt, RivalAdds
<1> QED
  BY <1>2, <1>3, <1>4, <1>5, <1>6 DEF Next, Work

-----------------------------------------------------------------------------
(* A new execution has published nothing and is not done.                  *)
LEMMA BeginKeeps == ResultInv /\ (Begin \/ NoProvider) => ResultInv'
BY DEF Begin, NoProvider, Goto, stores, ResultInv, Published

(* Before its result is written, an execution may do anything to it.       *)
LEMMA BeforeKeeps ==
  ASSUME ResultInv, UNCHANGED <<run, published, done>>,
         pc \notin Published \cup {"index"},
         \/ pc' \notin Published \cup {"index", "container", "stdout"}
         \/ pc' = "join" /\ (failed' \/ output' = "empty")
  PROVE  ResultInv'
BY DEF ResultInv, Published

(* What leaves the execution where it is and its result alone.             *)
LEMMA SameKeeps ==
  ASSUME ResultInv, UNCHANGED <<pc, run, failed, output, result, strays, ctx, stores>>
  PROVE  ResultInv'
BY DEF ResultInv, Published, Mine, stores

(* The steps of an execution from its begin to its end.                    *)
LEMMA WorkKeeps ==
  ASSUME ResultInv, Work
  PROVE  ResultInv'
<1>1. CASE Snapshot
  BY <1>1, SameKeeps DEF Snapshot
<1>2. CASE LoadContext \/ ReadInputs \/ ResolveProfile
  <2>1. pc \in {"prepare", "inputs", "profile"} /\ UNCHANGED <<run, published, done>>
    BY <1>2 DEF LoadContext, ReadInputs, ResolveProfile, Ready, Unready, stores
  <2>2. pc' \in {"inputs", "profile", "on_validate", "sources"} \/ (pc' = "join" /\ failed')
    BY <1>2 DEF LoadContext, ReadInputs, ResolveProfile, Ready, Unready, Goto, Fails
  <2> QED
    BY <2>1, <2>2, BeforeKeeps DEF Published
<1>3. CASE Validate \/ Sources
  <2>1. pc \in {"on_validate", "sources"} /\ UNCHANGED <<run, published, done>>
    BY <1>3 DEF Validate, Sources, stores
  <2>2. pc' \in {"sources", "assemble"} \/ (pc' = "join" /\ (failed' \/ output' = "empty"))
    BY <1>3 DEF Validate, Sources, Goto, Fails
  <2> QED
    BY <2>1, <2>2, BeforeKeeps DEF Published
<1>4. CASE Assemble \/ Ask \/ RunTool \/ ToolsDone
  <2>1. pc \in {"assemble", "ask", "tools"} /\ UNCHANGED <<run, published, done>>
    BY <1>4 DEF Assemble, Ask, RunTool, ToolsDone, stores
  <2>2. pc' \in {"ask", "tools", "write"}
    BY <1>4 DEF Assemble, Ask, RunTool, ToolsDone, Goto
  <2> QED
    BY <2>1, <2>2, BeforeKeeps DEF Published
<1>5. CASE Truncate
  BY <1>5, BeforeKeeps DEF Truncate, Goto, stores, Published
<1>6. CASE Fill
  <2>1. CASE result' = [of |-> run, whole |-> TRUE] /\ Goto("index")
    BY <1>6, <2>1 DEF Fill, Goto, stores, ResultInv, Published, Mine
  <2>2. CASE FillFails
    BY <1>6, <2>2, BeforeKeeps DEF Fill, FillFails, Fails, Goto, stores, Published
  <2> QED
    BY <1>6, <2>1, <2>2 DEF Fill
<1>13. CASE OpenMemory
  <2>1. /\ pc \in {"sources", "index"}
        /\ UNCHANGED <<run, ctx, output, result, strays, published, done, cas>>
    BY <1>13 DEF OpenMemory, Remembers, place, stores
  <2>2. UNCHANGED <<pc, failed>> \/ (pc' = "join" /\ failed')
    BY <1>13 DEF OpenMemory, Goto, Fails
  <2> QED
    BY <2>1, <2>2 DEF ResultInv, Published, Mine
<1>7. CASE Index
  <2>1. pc = "index" /\ UNCHANGED <<run, ctx, output, result, strays, published, done, cas>>
    BY <1>7 DEF Index, place, stores
  <2>2. pc' = "publish" \/ (pc' = "join" /\ failed')
    BY <1>7 DEF Index, Goto, Fails
  <2> QED
    BY <2>1, <2>2 DEF ResultInv, Published, Mine
<1>8. CASE Publish
  <2>1. /\ pc = "publish" /\ UNCHANGED <<run, ctx, output, result, strays, done>>
        /\ published' \in {published, published \cup {run}}
    BY <1>8 DEF Publish, place
  <2>2. pc' \in {"on_complete", "join"}
    BY <1>8 DEF Publish, Goto
  <2> QED
    BY <2>1, <2>2 DEF ResultInv, Published, Mine
<1>9. CASE Complete
  BY <1>9 DEF Complete, Goto, place, stores, ResultInv, Published, Mine
<1>10. CASE Join
  <2>1. /\ pc = "join" /\ pc' = "idle"
        /\ UNCHANGED <<run, ctx, output, result, strays, published>>
    BY <1>10 DEF Join, End, Goto, place
  <2>2. \/ UNCHANGED done
        \/ done' = done \cup {run} /\ (output = "empty" \/ (~failed /\ run \in cas'))
    BY <1>10 DEF Join
  <2> QED
    BY <2>1, <2>2 DEF ResultInv, Published, Mine
<1>11. CASE Container
  BY <1>11 DEF Container, Goto, stores, ResultInv, Published, Mine
<1>12. CASE Stdout
  BY <1>12 DEF Stdout, Goto, ResultInv, Published, Mine
<1> QED
  BY <1>1, <1>2, <1>3, <1>4, <1>5, <1>6, <1>7, <1>8, <1>9, <1>10, <1>11, <1>12, <1>13 DEF Work

(* Every step keeps the result; a command that timed out leaves a stray.   *)
LEMMA ResultNext == ResultInv /\ [Next]_vars => ResultInv'
<1> SUFFICES ASSUME ResultInv, [Next]_vars PROVE ResultInv'
  OBVIOUS
<1>1. CASE AskFails \/ ToolFails \/ ShellTimesOut \/ Panic
  <2>1. pc \in {"ask", "tools"} /\ UNCHANGED <<run, published, done>>
    BY <1>1 DEF AskFails, ToolFails, ShellTimesOut, Panic, stores
  <2>2. (pc' = "join" /\ failed') \/ pc' = "dead"
    BY <1>1 DEF AskFails, ToolFails, ShellTimesOut, Panic, Fails, Goto
  <2> QED
    BY <2>1, <2>2, BeforeKeeps DEF Published
<1>2. CASE Stray
  BY <1>2 DEF Stray, stores, ResultInv
<1>3. CASE SnapshotFails
  BY <1>3, SameKeeps DEF SnapshotFails
<1>6. CASE Corrupt \/ RivalAdds
  BY <1>6, SameKeeps DEF Corrupt, RivalAdds, place
<1>4. CASE Crash
  BY <1>4 DEF Crash, End, Goto, stores, ResultInv, Published, Mine
<1>5. CASE UNCHANGED vars
  BY <1>5, SameKeeps DEF vars, place
<1> QED
  BY <1>1, <1>2, <1>3, <1>4, <1>5, <1>6, WorkKeeps, BeginKeeps DEF Next

-----------------------------------------------------------------------------
(* The first execution finds nothing.                                      *)
LEMMA LoopInit == Init => MemoryInv /\ PoolInv /\ ResultInv
BY DEF Init, MemoryInv, Remembered, Unloaded, PoolInv, Isolated, FreshVM, ResultInv, Published

(* What the engine has reported as stored is in the file, whatever tools,  *)
(* failed writes and restarts do to it in between, but for what an open    *)
(* overlooked, corruption took or another process's handle overwrote.      *)
THEOREM EngineRemembers == Spec => []Remembered
<1>1. MemoryInv => Remembered
  BY DEF MemoryInv
<1> QED
  BY LoopInit, MemoryNext, <1>1, PTL DEF Spec

(* No hook finds a global that the script of an earlier execution added.   *)
THEOREM HooksIsolated == Spec => []Isolated
<1>1. PoolInv => Isolated
  BY DEF PoolInv
<1> QED
  BY LoopInit, PoolNext, <1>1, PTL DEF Spec

(* An execution that ended well has left its whole result, in its place    *)
(* and in the content store, and what it published was written before.     *)
THEOREM ResultWhole == Spec => []WholeResult
<1>1. ResultInv => WholeResult
  BY DEF ResultInv, WholeResult, Mine
<1> QED
  BY LoopInit, ResultNext, <1>1, PTL DEF Spec

-----------------------------------------------------------------------------
(* A set of numbers that is not empty has a least.                         *)
LEMMA LeastOf ==
  ASSUME NEW T \in SUBSET Nat, T # {}
  PROVE  \E m \in T : \A k \in T : m <= k
<1>1. IsWellFoundedOn(OpToRel(<, Nat), Nat)
  BY NatLessThanWellFounded
<1>2. PICK m \in T : \A k \in T : <<k, m>> \notin OpToRel(<, Nat)
  BY <1>1, WFMin
<1>3. \A k \in T : ~(k < m)
  BY <1>2 DEF OpToRel
<1>4. \A k \in T : m <= k
  BY <1>3
<1> QED
  BY <1>4

(* The sequences that FlattenSeq goes through, up to the k-th.             *)
Flattens(f, s, k) ==
  \A i \in 1..k : f[i] = IF i = 1 THEN s[i] ELSE f[i - 1] \o s[i]

(* Some function satisfies the recursion: no prefix is the first without.  *)
LEMMA FlattenExists ==
  ASSUME NEW S, NEW s \in Seq(Seq(S))
  PROVE  \E f \in [1..Len(s) -> Seq(S)] : Flattens(f, s, Len(s))
<1> DEFINE n == Len(s)
           Bad == {k \in 0..n : ~\E f \in [1..k -> Seq(S)] : Flattens(f, s, k)}
<1>0. n \in Nat /\ \A i \in 1..n : s[i] \in Seq(S)
  OBVIOUS
<1>1. SUFFICES ASSUME Bad # {} PROVE FALSE
  BY <1>0
<1>2. PICK m \in Bad : \A k \in Bad : m <= k
  <2>1. Bad \in SUBSET Nat
    BY <1>0
  <2> HIDE DEF Bad
  <2> QED
    BY <1>1, <2>1, LeastOf
<1>3. m # 0
  <2>1. [i \in 1..0 |-> <<>>] \in [1..0 -> Seq(S)] /\ Flattens([i \in 1..0 |-> <<>>], s, 0)
    BY DEF Flattens
  <2> QED
    BY <2>1
<1>4. m - 1 \in 0..n /\ m - 1 \notin Bad /\ m \in 1..n
  <2>1. m \in 0..n /\ m - 1 \in 0..n /\ m \in 1..n
    BY <1>0, <1>3
  <2>2. ~(m <= m - 1)
    BY <2>1
  <2> HIDE DEF Bad
  <2> QED
    BY <1>2, <2>1, <2>2
<1>5. PICK f \in [1..(m - 1) -> Seq(S)] : Flattens(f, s, m - 1)
  BY <1>4
<1> DEFINE g == [i \in 1..m |-> IF i < m THEN f[i]
                               ELSE IF m = 1 THEN s[m] ELSE f[m - 1] \o s[m]]
<1>6. g \in [1..m -> Seq(S)]
  <2>1. m # 1 => f[m - 1] \o s[m] \in Seq(S)
    <3>1. m # 1 => m - 1 \in 1..(m - 1)
      BY <1>4
    <3> QED
      BY <1>0, <1>4, <3>1, ConcatProperties
  <2>2. \A i \in 1..m : i < m => i \in 1..(m - 1)
    BY <1>4
  <2> QED
    BY <1>0, <1>4, <2>1, <2>2
<1>7. Flattens(g, s, m)
  <2>1. ASSUME NEW i \in 1..m
        PROVE  g[i] = IF i = 1 THEN s[i] ELSE g[i - 1] \o s[i]
    <3>1. CASE i < m
      <4>1. i \in 1..(m - 1) /\ (i # 1 => i - 1 \in 1..m /\ i - 1 < m)
        BY <1>4, <3>1
      <4> QED
        BY <1>5, <3>1, <4>1 DEF Flattens
    <3>2. CASE i = m
      <4>1. i # 1 => i - 1 \in 1..m /\ i - 1 < m
        BY <1>4, <3>2
      <4> QED
        BY <3>2, <4>1
    <3> QED
      BY <1>4, <3>1, <3>2
  <2> HIDE DEF g
  <2> QED
    BY <2>1 DEF Flattens
<1> HIDE DEF g
<1> QED
  BY <1>2, <1>6, <1>7

(* There is no other: they agree up to any prefix.                         *)
LEMMA FlattenUnique ==
  ASSUME NEW f, NEW g, NEW s, NEW n \in Nat, Flattens(f, s, n), Flattens(g, s, n)
  PROVE  \A i \in 1..n : f[i] = g[i]
<1> DEFINE Bad == {i \in 1..n : f[i] # g[i]}
<1>1. SUFFICES ASSUME Bad # {} PROVE FALSE
  OBVIOUS
<1>2. PICK m \in Bad : \A k \in Bad : m <= k
  <2>1. Bad \in SUBSET Nat
    OBVIOUS
  <2> HIDE DEF Bad
  <2> QED
    BY <1>1, <2>1, LeastOf
<1>3. m # 1
  BY DEF Flattens
<1>4. m - 1 \in 1..n /\ m - 1 \notin Bad
  BY <1>2, <1>3
<1> QED
  BY <1>3, <1>4 DEF Flattens

(* So the choice in FlattenSeq satisfies the recursion.                    *)
LEMMA FlattenUnfold ==
  ASSUME NEW S, NEW s \in Seq(Seq(S)), s # <<>>
  PROVE  \E f \in [1..Len(s) -> Seq(S)] :
           Flattens(f, s, Len(s)) /\ FlattenSeq(s) = f[Len(s)]
<1> DEFINE G(f) == [i \in 1..Len(s) |-> IF i = 1 THEN s[i] ELSE f[i - 1] \o s[i]]
           F == CHOOSE f : f = G(f)
<1>0. Len(s) \in Nat /\ Len(s) # 0
  OBVIOUS
<1>1. PICK h \in [1..Len(s) -> Seq(S)] : Flattens(h, s, Len(s))
  BY FlattenExists
<1>2. h = G(h)
  BY <1>1 DEF Flattens
<1>3. F = G(F)
  BY <1>2
<1>4. FlattenSeq(s) = F[Len(s)]
  BY <1>0, Zenon DEF FlattenSeq
<1> HIDE DEF F
<1>5. Flattens(F, s, Len(s)) /\ DOMAIN F = 1..Len(s)
  BY <1>3 DEF Flattens
<1>6. \A i \in 1..Len(s) : h[i] = F[i]
  BY <1>0, <1>1, <1>5, FlattenUnique
<1>7. FlattenSeq(s) = h[Len(s)]
  <2>1. Len(s) \in 1..Len(s)
    BY <1>0
  <2> QED
    BY <1>4, <1>6, <2>1
<1> QED
  BY <1>1, <1>7

(* Of nothing it makes nothing.                                            *)
LEMMA FlattenEmpty == FlattenSeq(<<>>) = <<>>
BY DEF FlattenSeq

(* One more sequence is one more piece at the end.                         *)
LEMMA FlattenAppend ==
  ASSUME NEW S, NEW s \in Seq(Seq(S)), NEW x \in Seq(S)
  PROVE  /\ FlattenSeq(s) \in Seq(S)
         /\ FlattenSeq(Append(s, x)) = FlattenSeq(s) \o x
<1> DEFINE t == Append(s, x)
           n == Len(s)
<1>1. t \in Seq(Seq(S)) /\ t # <<>> /\ Len(t) = n + 1 /\ t[n + 1] = x /\ n \in Nat
      /\ \A i \in 1..n : t[i] = s[i]
  BY AppendProperties
<1> HIDE DEF t, n
<1>2. PICK g \in [1..Len(t) -> Seq(S)] : Flattens(g, t, Len(t)) /\ FlattenSeq(t) = g[Len(t)]
  BY <1>1, FlattenUnfold
<1>3. CASE s = <<>>
  <2>0. n = 0 /\ Len(t) = 1 /\ t[1] = x
    BY <1>1, <1>3 DEF n
  <2>1. FlattenSeq(t) = x
    BY <1>2, <2>0 DEF Flattens
  <2>2. <<>> \o x = x /\ <<>> \in Seq(S)
    OBVIOUS
  <2>3. FlattenSeq(s) = <<>>
    BY <1>3, FlattenEmpty
  <2> QED
    BY <2>1, <2>2, <2>3 DEF t
<1>4. CASE s # <<>>
  <2>1. PICK f \in [1..n -> Seq(S)] : Flattens(f, s, n) /\ FlattenSeq(s) = f[n]
    BY <1>4, FlattenUnfold DEF n
  <2>0. \A i \in 1..(n + 1) : g[i] = IF i = 1 THEN t[i] ELSE g[i - 1] \o t[i]
    BY <1>1, <1>2 DEF Flattens
  <2>2. Flattens(g, s, n)
    <3>1. ASSUME NEW i \in 1..n
          PROVE  g[i] = IF i = 1 THEN s[i] ELSE g[i - 1] \o s[i]
      <4>1. i \in 1..(n + 1) /\ t[i] = s[i]
        BY <1>1
      <4> QED
        BY <2>0, <4>1, Zenon
    <3> QED
      BY <3>1 DEF Flattens
  <2>3. n \in 1..n
    BY <1>1, <1>4 DEF n
  <2>4. g[n] = f[n]
    <3>1. n \in Nat /\ Flattens(f, s, n)
      BY <1>1, <2>1
    <3>2. \A i \in 1..n : g[i] = f[i]
      BY <2>2, <3>1, FlattenUnique
    <3> QED
      BY <2>3, <3>2
  <2>5. g[n + 1] = g[n] \o x
    <3>1. n + 1 \in 1..(n + 1) /\ n + 1 # 1 /\ (n + 1) - 1 = n
      BY <1>1, <2>3
    <3> QED
      BY <1>1, <2>0, <3>1
  <2> QED
    BY <1>1, <1>2, <2>1, <2>3, <2>4, <2>5 DEF t
<1> QED
  BY <1>3, <1>4

-----------------------------------------------------------------------------
(* The conversation: what was asked for and not yet answered is what is    *)
(* left to execute, and an answer stands where its call wants it.          *)
Ids == Nat \X Nat
Messages == [role : {"user", "assistant", "tool"}, calls : Seq(Ids)]

(* What the messages of a role name, message by message.                   *)
Said(ms, role) ==
  [i \in DOMAIN ms |-> IF ms[i].role = role THEN ms[i].calls ELSE <<>>]

(* The answer to a call is as far behind the message of the calls as the   *)
(* call is in it, or it is due and will be.                                *)
Placed(ms, due) ==
  \A i \in DOMAIN ms : ms[i].role = "assistant" =>
    \A k \in DOMAIN ms[i].calls :
      \/ i + k \in DOMAIN ms /\ ms[i + k] = Message("tool", <<ms[i].calls[k]>>)
      \/ /\ i + k > Len(ms) /\ i + k - Len(ms) \in DOMAIN due
         /\ due[i + k - Len(ms)] = ms[i].calls[k]

(* All calls are answered in their order but for those in `due`.           *)
Owing(ms, due) ==
  /\ FlattenSeq(Said(ms, "assistant")) = FlattenSeq(Said(ms, "tool")) \o due
  /\ Placed(ms, due)

(* Nothing is owed when the model is asked; while tools run, what is left  *)
(* of the calls is, unless the rounds are exhausted.                       *)
TalkInv ==
  /\ msgs \in Seq(Messages) /\ calls \in Seq(Ids) /\ round \in Nat
  /\ pc = "ask" => Owing(msgs, <<>>)
  /\ pc = "tools" /\ ~Exhausted(round) => Owing(msgs, calls)

(* A message appends its calls to what its role has said.                  *)
LEMMA SaidAppend ==
  ASSUME NEW ms \in Seq(Messages), NEW m \in Messages, NEW role
  PROVE  /\ Said(ms, role) \in Seq(Seq(Ids))
         /\ Said(Append(ms, m), role) =
              Append(Said(ms, role), IF m.role = role THEN m.calls ELSE <<>>)
<1> DEFINE x == IF m.role = role THEN m.calls ELSE <<>>
           n == Len(ms)
           t == Append(ms, m)
<1>1. n \in Nat /\ DOMAIN ms = 1..n /\ \A i \in 1..n : ms[i] \in Messages
  OBVIOUS
<1>2. x \in Seq(Ids)
  BY DEF Messages
<1>3. Said(ms, role) \in [1..n -> Seq(Ids)]
  BY <1>1 DEF Said, Messages
<1>4. Said(ms, role) \in Seq(Seq(Ids)) /\ Len(Said(ms, role)) = n
  BY <1>1, <1>3, SeqDef, LenProperties
<1>5. DOMAIN t = 1..(n + 1) /\ t[n + 1] = m /\ \A i \in 1..n : t[i] = ms[i]
  BY AppendProperties
<1> HIDE DEF x, t
<1> DEFINE A == Append(Said(ms, role), x)
<1>6. A = [i \in 1..(n + 1) |-> IF i = n + 1 THEN x ELSE Said(ms, role)[i]]
  <2>1. /\ A \in Seq(Seq(Ids)) /\ Len(A) = n + 1 /\ A[n + 1] = x
        /\ \A i \in 1..n : A[i] = Said(ms, role)[i]
    BY <1>2, <1>4, AppendProperties
  <2> HIDE DEF A, n
  <2>2. A = [i \in 1..(n + 1) |-> A[i]]
    BY <2>1, LenProperties
  <2>3. \A i \in 1..(n + 1) : A[i] = IF i = n + 1 THEN x ELSE Said(ms, role)[i]
    BY <1>1, <2>1
  <2> QED
    BY <2>2, <2>3
<1>7. Said(t, role) = [i \in 1..(n + 1) |-> IF t[i].role = role THEN t[i].calls ELSE <<>>]
  BY <1>5 DEF Said
<1>8. ASSUME NEW i \in 1..(n + 1)
      PROVE  (IF t[i].role = role THEN t[i].calls ELSE <<>>)
               = IF i = n + 1 THEN x ELSE Said(ms, role)[i]
  <2>1. CASE i = n + 1
    BY <1>5, <2>1 DEF x
  <2>2. CASE i # n + 1
    <3>1. i \in 1..n
      BY <1>1, <2>2
    <3> QED
      BY <1>1, <1>5, <2>2, <3>1 DEF Said
  <2> QED
    BY <2>1, <2>2
<1> QED
  BY <1>4, <1>6, <1>7, <1>8 DEF x, t

(* A conversation that opens owes nothing.                                 *)
LEMMA OwingOpened == Owing(<<>>, <<>>) /\ Owing(<<Message("user", <<>>)>>, <<>>)
<1> DEFINE m == Message("user", <<>>)
<1>1. \A role : Said(<<>>, role) = <<>>
  BY DEF Said
<1>2. <<>> \in Seq(Messages) /\ <<>> \in Seq(Seq(Ids)) /\ <<>> \in Seq(Ids) /\ m \in Messages
  BY DEF Message, Messages
<1>3. m.role = "user" /\ m.calls = <<>> /\ Append(<<>>, m) = <<m>>
  BY DEF Message
<1>4. \A role : Said(<<m>>, role) = Append(<<>>, <<>>)
  <2> HIDE DEF m
  <2>1. \A role : Said(Append(<<>>, m), role)
                    = Append(Said(<<>>, role), IF m.role = role THEN m.calls ELSE <<>>)
    BY <1>2, SaidAppend
  <2> QED
    BY <1>1, <1>3, <2>1
<1>5. FlattenSeq(Append(<<>>, <<>>)) = <<>>
  <2>1. FlattenSeq(Append(<<>>, <<>>)) = FlattenSeq(<<>>) \o <<>>
    BY <1>2, FlattenAppend
  <2> QED
    BY <2>1, FlattenEmpty
<1>6. <<>> \o <<>> = <<>>
  OBVIOUS
<1>7. Placed(<<>>, <<>>) /\ Placed(<<m>>, <<>>)
  BY DEF Placed, Message
<1> QED
  BY <1>1, <1>4, <1>5, <1>6, <1>7, FlattenEmpty DEF Owing

(* What one more message adds to either side.                              *)
LEMMA SaidMore ==
  ASSUME NEW ms \in Seq(Messages), NEW m \in Messages, NEW role
  PROVE  /\ FlattenSeq(Said(ms, role)) \in Seq(Ids)
         /\ m.role = role =>
              FlattenSeq(Said(Append(ms, m), role)) = FlattenSeq(Said(ms, role)) \o m.calls
         /\ m.role # role =>
              FlattenSeq(Said(Append(ms, m), role)) = FlattenSeq(Said(ms, role))
<1>1. m.calls \in Seq(Ids) /\ <<>> \in Seq(Ids)
  BY DEF Messages
<1>2. /\ Said(ms, role) \in Seq(Seq(Ids))
      /\ Said(Append(ms, m), role) =
           Append(Said(ms, role), IF m.role = role THEN m.calls ELSE <<>>)
  BY SaidAppend
<1>3. \A x \in Seq(Ids) : /\ FlattenSeq(Said(ms, role)) \in Seq(Ids)
                          /\ FlattenSeq(Append(Said(ms, role), x))
                               = FlattenSeq(Said(ms, role)) \o x
  BY <1>2, FlattenAppend
<1>4. FlattenSeq(Said(ms, role)) \o <<>> = FlattenSeq(Said(ms, role))
  BY <1>1, <1>3, ConcatEmptySeq
<1> QED
  BY <1>1, <1>2, <1>3, <1>4

(* A message with calls owes them all.                                     *)
LEMMA OwingAsked ==
  ASSUME NEW ms \in Seq(Messages), NEW due \in Seq(Ids), Owing(ms, <<>>)
  PROVE  Owing(Append(ms, Message("assistant", due)), due)
<1> DEFINE m == Message("assistant", due)
           t == Append(ms, m)
<1>1. m \in Messages /\ m.role = "assistant" /\ m.calls = due
  BY DEF Message, Messages
<1> HIDE DEF m
<1>2. /\ FlattenSeq(Said(t, "assistant")) = FlattenSeq(Said(ms, "assistant")) \o due
      /\ FlattenSeq(Said(t, "tool")) = FlattenSeq(Said(ms, "tool"))
      /\ FlattenSeq(Said(ms, "tool")) \in Seq(Ids)
  BY <1>1, SaidMore
<1>3. FlattenSeq(Said(ms, "assistant")) = FlattenSeq(Said(ms, "tool"))
  BY <1>2, ConcatEmptySeq DEF Owing
<1>4. /\ Len(ms) \in Nat /\ Len(t) = Len(ms) + 1 /\ DOMAIN t = 1..(Len(ms) + 1)
      /\ DOMAIN ms = 1..Len(ms)
      /\ t[Len(ms) + 1] = m /\ \A i \in 1..Len(ms) : t[i] = ms[i]
  BY <1>1, AppendProperties
<1> HIDE DEF t
<1>5. Placed(t, due)
  <2>1. ASSUME NEW i \in DOMAIN t, t[i].role = "assistant", NEW k \in DOMAIN t[i].calls
        PROVE  \/ i + k \in DOMAIN t /\ t[i + k] = Message("tool", <<t[i].calls[k]>>)
               \/ /\ i + k > Len(t) /\ i + k - Len(t) \in DOMAIN due
                  /\ due[i + k - Len(t)] = t[i].calls[k]
    <3>1. CASE i \in 1..Len(ms)
      <4>1. t[i] = ms[i] /\ i \in DOMAIN ms
        BY <1>4, <3>1
      <4>2. i + k \in DOMAIN ms /\ ms[i + k] = Message("tool", <<ms[i].calls[k]>>)
        BY <2>1, <4>1 DEF Owing, Placed
      <4> QED
        BY <1>4, <4>1, <4>2
    <3>2. CASE i = Len(ms) + 1
      <4>1. t[i].calls = due /\ k \in 1..Len(due) /\ k \in Nat
        BY <1>1, <1>4, <2>1, <3>2
      <4>2. i + k > Len(t) /\ i + k - Len(t) = k
        BY <1>4, <3>2, <4>1
      <4> QED
        BY <4>1, <4>2
    <3> QED
      BY <1>4, <2>1, <3>1, <3>2
  <2> QED
    BY <2>1 DEF Placed
<1> QED
  BY <1>2, <1>3, <1>5 DEF Owing, t, m

(* Concatenation under a name of its own, which the provers leave alone.   *)
Cat(a, b) == a \o b

(* Concatenation is associative.                                           *)
LEMMA CatAssociative ==
  ASSUME NEW S, NEW a \in Seq(S), NEW b \in Seq(S), NEW c \in Seq(S)
  PROVE  Cat(Cat(a, b), c) = Cat(a, Cat(b, c))
BY ConcatAssociative DEF Cat

(* The next call is taken from the front of those that are owed.           *)
LEMMA Regroup ==
  ASSUME NEW S
  PROVE  \A a, b, c, d \in Seq(S) : Cat(b, c) = d => Cat(Cat(a, b), c) = Cat(a, d)
BY CatAssociative

(* The answer to the first call is owed no more.                           *)
LEMMA OwingAnswered ==
  ASSUME NEW ms \in Seq(Messages), NEW due \in Seq(Ids), due # <<>>, Owing(ms, due)
  PROVE  Owing(Append(ms, Message("tool", <<Head(due)>>)), Tail(due))
<1> DEFINE m == Message("tool", <<Head(due)>>)
           t == Append(ms, m)
           rest == Tail(due)
<1>0. /\ Head(due) \in Ids /\ rest \in Seq(Ids) /\ <<Head(due)>> \in Seq(Ids)
      /\ <<Head(due)>> \o rest = due /\ Len(rest) = Len(due) - 1 /\ Len(due) \in Nat
      /\ Head(due) = due[1] /\ \A i \in 1..Len(rest) : rest[i] = due[i + 1]
  BY HeadTailProperties
<1>1. m \in Messages /\ m.role = "tool" /\ m.calls = <<Head(due)>>
  BY <1>0 DEF Message, Messages
<1> HIDE DEF m, rest
<1>2. /\ FlattenSeq(Said(t, "assistant")) = FlattenSeq(Said(ms, "assistant"))
      /\ FlattenSeq(Said(t, "tool")) = FlattenSeq(Said(ms, "tool")) \o m.calls
      /\ FlattenSeq(Said(ms, "tool")) \in Seq(Ids)
  <2>1. m.role # "assistant"
    BY <1>1
  <2>2. FlattenSeq(Said(t, "assistant")) = FlattenSeq(Said(ms, "assistant"))
    BY <1>1, <2>1, SaidMore
  <2>3. /\ FlattenSeq(Said(t, "tool")) = FlattenSeq(Said(ms, "tool")) \o m.calls
        /\ FlattenSeq(Said(ms, "tool")) \in Seq(Ids)
    BY <1>1, SaidMore
  <2> QED
    BY <2>2, <2>3
<1>3. (FlattenSeq(Said(ms, "tool")) \o m.calls) \o rest = FlattenSeq(Said(ms, "tool")) \o due
  <2>1. FlattenSeq(Said(ms, "tool")) \in Seq(Ids) /\ m.calls \in Seq(Ids)
        /\ rest \in Seq(Ids) /\ Cat(m.calls, rest) = due
    BY <1>0, <1>1, <1>2 DEF Cat
  <2>2. Cat(Cat(FlattenSeq(Said(ms, "tool")), m.calls), rest) = Cat(FlattenSeq(Said(ms, "tool")), due)
    BY <2>1, Regroup
  <2> QED
    BY <2>2 DEF Cat
<1>4. /\ Len(ms) \in Nat /\ Len(t) = Len(ms) + 1 /\ DOMAIN t = 1..(Len(ms) + 1)
      /\ DOMAIN ms = 1..Len(ms)
      /\ t[Len(ms) + 1] = m /\ \A i \in 1..Len(ms) : t[i] = ms[i]
  BY <1>1, AppendProperties
<1> HIDE DEF t
<1>5. Placed(t, rest)
  <2>1. ASSUME NEW i \in DOMAIN t, t[i].role = "assistant", NEW k \in DOMAIN t[i].calls
        PROVE  \/ i + k \in DOMAIN t /\ t[i + k] = Message("tool", <<t[i].calls[k]>>)
               \/ /\ i + k > Len(t) /\ i + k - Len(t) \in DOMAIN rest
                  /\ rest[i + k - Len(t)] = t[i].calls[k]
    <3>1. i \in DOMAIN ms /\ t[i] = ms[i] /\ i \in Nat
      BY <1>1, <1>4, <2>1
    <3>2. k \in Nat
      <4>1. ms[i] \in Messages
        BY <1>4, <3>1
      <4>2. ms[i].calls \in Seq(Ids)
        BY <4>1 DEF Messages
      <4>3. DOMAIN ms[i].calls = 1..Len(ms[i].calls) /\ Len(ms[i].calls) \in Nat
        BY <4>2, LenProperties
      <4>4. t[i].calls = ms[i].calls
        BY <3>1
      <4>5. k \in 1..Len(ms[i].calls)
        BY <2>1, <4>3, <4>4
      <4> QED
        BY <4>3, <4>5
    <3>3. \/ i + k \in DOMAIN ms /\ ms[i + k] = Message("tool", <<ms[i].calls[k]>>)
          \/ /\ i + k > Len(ms) /\ i + k - Len(ms) \in DOMAIN due
             /\ due[i + k - Len(ms)] = ms[i].calls[k]
      BY <2>1, <3>1 DEF Owing, Placed
    <3>4. CASE i + k \in DOMAIN ms /\ ms[i + k] = Message("tool", <<ms[i].calls[k]>>)
      BY <1>4, <3>1, <3>4
    <3>5. CASE i + k = Len(ms) + 1 /\ due[i + k - Len(ms)] = ms[i].calls[k]
      <4>1. due[1] = ms[i].calls[k]
        BY <1>4, <3>1, <3>2, <3>5
      <4>2. t[i + k] = Message("tool", <<due[1]>>) /\ i + k \in DOMAIN t
        BY <1>0, <1>4, <3>5 DEF m
      <4> QED
        BY <3>1, <4>1, <4>2
    <3>6. CASE /\ i + k > Len(ms) + 1 /\ i + k - Len(ms) \in DOMAIN due
               /\ due[i + k - Len(ms)] = ms[i].calls[k]
      <4> DEFINE j == i + k - Len(t)
      <4>1. j \in 1..Len(rest) /\ j + 1 = i + k - Len(ms) /\ i + k > Len(t)
        BY <1>0, <1>4, <3>1, <3>2, <3>6
      <4>2. rest[j] = due[j + 1]
        BY <1>0, <4>1
      <4>3. j \in DOMAIN rest
        BY <1>0, <4>1
      <4> QED
        BY <3>1, <3>6, <4>1, <4>2, <4>3
    <3> QED
      BY <1>4, <3>1, <3>2, <3>3, <3>4, <3>5, <3>6
  <2> QED
    BY <2>1 DEF Placed
<1> QED
  BY <1>2, <1>3, <1>5 DEF Owing, t, m, rest

(* Every step keeps the conversation in order.                             *)
LEMMA TalkNext == TalkInv /\ [Next]_vars => TalkInv'
<1> SUFFICES ASSUME TalkInv, [Next]_vars PROVE TalkInv'
  OBVIOUS
<1>1. CASE Assemble
  <2>1. /\ msgs' \in {<<>>, <<Message("user", <<>>)>>} /\ pc' = "ask"
        /\ UNCHANGED <<calls, round, ctx>>
    BY <1>1 DEF Assemble, Goto
  <2>2. Owing(msgs', <<>>)
    BY <2>1, OwingOpened
  <2>3. msgs' \in Seq(Messages)
    <3>1. Message("user", <<>>) \in Messages
      BY DEF Message, Messages
    <3>2. \A x \in Messages : <<x>> \in Seq(Messages)
      OBVIOUS
    <3>3. <<Message("user", <<>>)>> \in Seq(Messages) /\ <<>> \in Seq(Messages)
      BY <3>1, <3>2
    <3> QED
      BY <2>1, <3>3
  <2> QED
    BY <2>1, <2>2, <2>3 DEF TalkInv
<1>2. CASE Ask
  <2>1. CASE pc' = "write" /\ UNCHANGED talk
    BY <2>1 DEF talk, TalkInv
  <2>2. ASSUME NEW n \in 1..MaxCalls, round' = round + 1,
               calls' = [i \in 1..n |-> <<round', i>>],
               msgs' = IF Exhausted(round') THEN msgs ELSE Echoed(calls'), pc' = "tools"
        PROVE  TalkInv'
    <3>1. pc = "ask" /\ UNCHANGED ctx /\ n \in Nat /\ round' \in Nat
      BY <1>2, <2>2, LoopOK DEF Ask, TalkInv
    <3>2. calls' \in Seq(Ids)
      <4>1. calls' \in [1..n -> Ids]
        BY <2>2, <3>1 DEF Ids
      <4> QED
        BY <3>1, <4>1, SeqDef
    <3>3. CASE Exhausted(round')
      <4>1. Exhausted(round)'
        BY <3>1, <3>3 DEF Exhausted
      <4> QED
        BY <2>2, <3>1, <3>2, <3>3, <4>1 DEF TalkInv
    <3>4. CASE ~Exhausted(round')
      <4>1. msgs' = Append(msgs, Message("assistant", calls'))
        BY <2>2, <3>4 DEF Echoed
      <4>2. Message("assistant", calls') \in Messages
        BY <3>2 DEF Message, Messages
      <4>3. msgs' \in Seq(Messages)
        BY <4>1, <4>2, AppendProperties DEF TalkInv
      <4>4. Owing(msgs', calls')
        BY <3>1, <3>2, <4>1, OwingAsked DEF TalkInv
      <4> QED
        BY <2>2, <3>1, <3>2, <4>3, <4>4 DEF TalkInv
    <3> QED
      BY <3>3, <3>4
  <2> QED
    BY <1>2, <2>1, <2>2 DEF Ask, Goto
<1>3. CASE RunTool
  <2>1. /\ pc = "tools" /\ pc' = "tools" /\ calls # <<>> /\ calls' = Tail(calls)
        /\ msgs' = IF Exhausted(round) THEN msgs
                   ELSE Append(msgs, Message("tool", <<Head(calls)>>))
        /\ UNCHANGED <<round, ctx>>
    BY <1>3 DEF RunTool
  <2>2. calls' \in Seq(Ids) /\ Head(calls) \in Ids
    BY <2>1, HeadTailProperties DEF TalkInv
  <2>3. Exhausted(round)' = Exhausted(round)
    BY <2>1 DEF Exhausted
  <2>4. CASE Exhausted(round)
    BY <2>1, <2>2, <2>3, <2>4 DEF TalkInv
  <2>5. CASE ~Exhausted(round)
    <3>1. Message("tool", <<Head(calls)>>) \in Messages
      BY <2>2 DEF Message, Messages
    <3>2. msgs' \in Seq(Messages)
      BY <2>1, <2>5, <3>1, AppendProperties DEF TalkInv
    <3>3. Owing(msgs', calls')
      BY <2>1, <2>5, OwingAnswered DEF TalkInv
    <3> QED
      BY <2>1, <2>2, <3>2, <3>3 DEF TalkInv
  <2> QED
    BY <2>4, <2>5
<1>4. CASE ToolsDone
  <2>1. pc = "tools" /\ calls = <<>> /\ UNCHANGED <<talk, ctx>> /\
        (pc' = "write" \/ (~Exhausted(round) /\ pc' = "ask"))
    BY <1>4 DEF ToolsDone, Goto
  <2> QED
    BY <2>1 DEF TalkInv, talk
<1>5. CASE UNCHANGED talk /\ pc' \notin {"ask", "tools"}
  BY <1>5 DEF TalkInv, talk
<1>6. CASE UNCHANGED <<talk, pc, ctx>>
  BY <1>6 DEF TalkInv, talk, Exhausted
<1>7. CASE End
  <2>1. <<>> \in Seq(Messages) /\ <<>> \in Seq(Ids)
    OBVIOUS
  <2> QED
    BY <1>7, <2>1 DEF End, Goto, TalkInv
<1>8. CASE Begin \/ NoProvider
  <2>1. CASE Begin
    BY <1>5, <2>1 DEF Begin, Goto
  <2>2. CASE NoProvider
    BY <1>5, <2>2 DEF NoProvider
  <2> QED
    BY <1>8, <2>1, <2>2
<1>9. CASE LoadContext \/ ReadInputs \/ ResolveProfile \/ Validate \/ Sources
  BY <1>5, <1>9 DEF LoadContext, ReadInputs, ResolveProfile, Validate, Sources, Ready, Unready,
                    Fails, Goto
<1>10. CASE Truncate \/ Fill \/ Index \/ Publish \/ Complete \/ Container \/ Stdout
  BY <1>5, <1>10 DEF Truncate, Fill, FillFails, Index, Publish, Complete, Container, Stdout,
                     Fails, Goto
<1>11. CASE AskFails \/ ToolFails \/ ShellTimesOut \/ Panic
  BY <1>5, <1>11 DEF AskFails, ToolFails, ShellTimesOut, Panic, Fails, Goto
<1>12. CASE Snapshot \/ SnapshotFails \/ Stray \/ Corrupt \/ RivalAdds \/ UNCHANGED vars
  BY <1>6, <1>12 DEF Snapshot, SnapshotFails, Stray, Corrupt, RivalAdds, vars
<1>13. CASE OpenMemory
  BY <1>5, <1>13 DEF OpenMemory, Remembers, Fails, Goto
<1> QED
  BY <1>1, <1>2, <1>3, <1>4, <1>7, <1>8, <1>9, <1>10, <1>11, <1>12, <1>13
     DEF Next, Work, Join, Crash

(* In every request of an execution each call of the model is followed by  *)
(* its own answer, and there is no other answer (llm_driver.rs:229).       *)
THEOREM EveryCallAnswered == Spec => []Conversation
<1>1. Init => TalkInv
  <2>1. <<>> \in Seq(Messages) /\ <<>> \in Seq(Ids)
    OBVIOUS
  <2> QED
    BY <2>1 DEF Init, TalkInv
<1>2. TalkInv => Conversation
  <2> SUFFICES ASSUME TalkInv, pc = "ask"
               PROVE  /\ FlattenSeq(Said(msgs, "assistant")) = FlattenSeq(Said(msgs, "tool"))
                      /\ \A i \in DOMAIN msgs : msgs[i].role = "assistant" =>
                           \A k \in DOMAIN msgs[i].calls :
                             msgs[i + k] = Message("tool", <<msgs[i].calls[k]>>)
    BY DEF Conversation, Said
  <2>1. Owing(msgs, <<>>) /\ msgs \in Seq(Messages)
    BY DEF TalkInv
  <2>2. FlattenSeq(Said(msgs, "tool")) \in Seq(Ids)
    <3>1. Said(msgs, "tool") \in Seq(Seq(Ids))
      <4>1. Message("user", <<>>) \in Messages
        BY DEF Message, Messages
      <4> QED
        BY <2>1, <4>1, SaidAppend
    <3>2. <<>> \in Seq(Ids)
      OBVIOUS
    <3> QED
      BY <3>1, <3>2, FlattenAppend
  <2>3. FlattenSeq(Said(msgs, "assistant")) = FlattenSeq(Said(msgs, "tool"))
    BY <2>1, <2>2, ConcatEmptySeq DEF Owing
  <2>4. Placed(msgs, <<>>)
    BY <2>1 DEF Owing
  <2> QED
    BY <2>3, <2>4 DEF Placed
<1> QED
  BY <1>1, <1>2, TalkNext, PTL DEF Spec

=============================================================================
