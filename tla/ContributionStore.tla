------------------------- MODULE ContributionStore --------------------------
(***************************************************************************)
(* The contribution store (zerochain-memory graph_store.rs) and the view   *)
(* of it a Graph takes when it is opened (graph.rs).  A record is a file   *)
(* named by the hash of its content, written through a temporary file with *)
(* a fixed name; every publisher, in any process, works on the directory   *)
(* without a lock, and each file operation is a step.                      *)
(*                                                                         *)
(* An open file stays the file it was when its name is given away: fd[p]   *)
(* says whether publisher p writes to what is now the temporary file of    *)
(* its record, to the published one, or to one without a name.             *)
(***************************************************************************)
EXTENDS Naturals

CONSTANTS Records, Parents, Targets, Verifications,
          Crlf,        \* records whose body has CR LF line ends
          Publishers,
          Makes,       \* Makes[p]: the records publisher p has made
          Readers,
          Failing,     \* what may fail in this model
          MaxFaults,   \* bound on the failures
          NoRecord

ASSUME StoreOK ==
  /\ Parents \in [Records -> SUBSET Records]
  /\ Targets \in [Records -> SUBSET Records]
  /\ Verifications \subseteq Records
  /\ Crlf \subseteq Records
  /\ Makes \in [Publishers -> SUBSET Records]
  /\ Failing \subseteq {"crash", "io"}
  /\ MaxFaults \in Nat
  /\ NoRecord \notin Records

VARIABLES
  final,   \* final[r]: the file of record r
  tmp,     \* tmp[r]: its temporary file
  pc,      \* pc[p]: what publisher p does next
  rec,     \* rec[p]: the record it publishes, or published last
  todo,    \* todo[p]: parents it has still to look up
  fd,      \* fd[p]: the file it has open for writing
  result,  \* result[p]: the answer of its last call
  acked,   \* records some publisher was told are published
  view,    \* view[q]: the records in reader q's index
  skipped, \* skipped[q]: auxiliary: the files it could not read
  unread,  \* unread[q]: files the reader has still to read
  due,     \* due[q]: records acknowledged before the reader opened the graph
  faults   \* failures so far

writers == <<pc, rec, todo, fd, result>>
readers == <<view, skipped, unread, due>>
vars == <<final, tmp, writers, acked, readers, faults>>

Contents == {"none", "torn", "full"}

Fault(what) == what \in Failing /\ faults < MaxFaults /\ faults' = faults + 1

(* A file parses back to its record when it is whole.  CR LF is normalised *)
(* before the hash is computed, so a body that has it no longer matches    *)
(* its name.                                                               *)
Readable(r) == final[r] = "full" /\ r \notin Crlf

Init ==
  /\ final = [r \in Records |-> "none"]
  /\ tmp = [r \in Records |-> "none"]
  /\ pc = [p \in Publishers |-> "idle"]
  /\ rec = [p \in Publishers |-> NoRecord]
  /\ todo = [p \in Publishers |-> {}]
  /\ fd = [p \in Publishers |-> "closed"]
  /\ result = [p \in Publishers |-> "none"]
  /\ acked = {}
  /\ view = [q \in Readers |-> {}]
  /\ skipped = [q \in Readers |-> {}]
  /\ unread = [q \in Readers |-> {}]
  /\ due = [q \in Readers |-> {}]
  /\ faults = 0

Goto(p, to) == pc' = [pc EXCEPT ![p] = to]

Answer(p, how) ==
  /\ Goto(p, "idle")
  /\ result' = [result EXCEPT ![p] = how]
  /\ todo' = [todo EXCEPT ![p] = {}]

-----------------------------------------------------------------------------
Publish(p, r) ==
  /\ pc[p] = "idle"
  /\ r \in Makes[p]
  /\ rec' = [rec EXCEPT ![p] = r]
  /\ todo' = [todo EXCEPT ![p] = Parents[r]]
  /\ result' = [result EXCEPT ![p] = "none"]
  /\ Goto(p, "refs")
  /\ UNCHANGED <<final, tmp, fd, acked, readers, faults>>

CheckParent(p, d) ==
  /\ pc[p] = "refs"
  /\ d \in todo[p]
  /\ IF Readable(d)
     THEN todo' = [todo EXCEPT ![p] = @ \ {d}] /\ UNCHANGED <<pc, result>>
     ELSE Answer(p, "error")
  /\ UNCHANGED <<final, tmp, rec, fd, acked, readers, faults>>

(* Mutant: the type of the verified record is not looked at.               *)
CheckTargetExists(p) ==
  /\ pc[p] = "refs"
  /\ todo[p] = {}
  /\ IF \A d \in Targets[rec[p]] : Readable(d)
     THEN Goto(p, "look") /\ UNCHANGED <<todo, result>>
     ELSE Answer(p, "error")
  /\ UNCHANGED <<final, tmp, rec, fd, acked, readers, faults>>

CheckTarget(p) ==
  /\ pc[p] = "refs"
  /\ todo[p] = {}
  /\ IF \A d \in Targets[rec[p]] : Readable(d) /\ d \notin Verifications
     THEN Goto(p, "look") /\ UNCHANGED <<todo, result>>
     ELSE Answer(p, "error")
  /\ UNCHANGED <<final, tmp, rec, fd, acked, readers, faults>>

(* A file with the same content makes the call a success; with other       *)
(* content it is taken for a hash collision.                               *)
Look(p) ==
  /\ pc[p] = "look"
  /\ \/ /\ final[rec[p]] = "full"
        /\ Answer(p, "ok")
        /\ acked' = acked \cup {rec[p]}
     \/ final[rec[p]] = "torn" /\ Answer(p, "error") /\ UNCHANGED acked
     \/ final[rec[p]] = "none" /\ Goto(p, "open")
        /\ UNCHANGED <<todo, result, acked>>
  /\ UNCHANGED <<final, tmp, rec, fd, readers, faults>>

(* The temporary file is created, or truncated if it is there.             *)
Open(p) ==
  /\ pc[p] = "open"
  /\ tmp' = [tmp EXCEPT ![rec[p]] = "torn"]
  /\ fd' = [fd EXCEPT ![p] = "tmp"]
  /\ Goto(p, "fill")
  /\ UNCHANGED <<final, rec, todo, result, acked, readers, faults>>

(* Mutant: a write that fails is not noticed.                              *)
FillUnchecked(p) ==
  /\ pc[p] = "fill"
  /\ \/ /\ tmp' = IF fd[p] = "tmp" THEN [tmp EXCEPT ![rec[p]] = "full"] ELSE tmp
        /\ final' = IF fd[p] = "final" THEN [final EXCEPT ![rec[p]] = "full"]
                    ELSE final
        /\ UNCHANGED faults
     \/ Fault("io") /\ UNCHANGED <<final, tmp>>
  /\ fd' = [fd EXCEPT ![p] = "closed"]
  /\ Goto(p, "rename")
  /\ UNCHANGED <<rec, todo, result, acked, readers>>

(* The content goes to the file that was opened, wherever it is now.       *)
Fill(p) ==
  /\ pc[p] = "fill"
  /\ tmp' = IF fd[p] = "tmp" THEN [tmp EXCEPT ![rec[p]] = "full"] ELSE tmp
  /\ final' = IF fd[p] = "final" THEN [final EXCEPT ![rec[p]] = "full"]
              ELSE final
  /\ fd' = [fd EXCEPT ![p] = "closed"]
  /\ Goto(p, "rename")
  /\ UNCHANGED <<rec, todo, result, acked, readers, faults>>

Renamed(p) ==
  [q \in Publishers |->
     IF rec[q] # rec[p] \/ fd[q] = "closed" THEN fd[q]
     ELSE IF fd[q] = "tmp" THEN "final" ELSE "orphan"]

(* rename(2) moves whatever has the temporary name and fails if nothing    *)
(* has.                                                                    *)
Rename(p) ==
  /\ pc[p] = "rename"
  /\ IF tmp[rec[p]] = "none"
     THEN Answer(p, "error") /\ UNCHANGED <<final, tmp, fd, acked>>
     ELSE /\ final' = [final EXCEPT ![rec[p]] = tmp[rec[p]]]
          /\ tmp' = [tmp EXCEPT ![rec[p]] = "none"]
          /\ fd' = Renamed(p)
          /\ acked' = acked \cup {rec[p]}
          /\ Answer(p, "ok")
  /\ UNCHANGED <<rec, readers, faults>>

(* A file operation fails: the temporary file stays as it is.              *)
IoFails(p) ==
  /\ pc[p] \in {"refs", "look", "open", "fill", "rename"}
  /\ Fault("io")
  /\ Answer(p, "error")
  /\ fd' = [fd EXCEPT ![p] = "closed"]
  /\ UNCHANGED <<final, tmp, rec, acked, readers>>

(* The publishing process is killed between two file operations.           *)
Crash(p) ==
  /\ pc[p] # "idle"
  /\ Fault("crash")
  /\ Answer(p, "none")
  /\ fd' = [fd EXCEPT ![p] = "closed"]
  /\ UNCHANGED <<final, tmp, rec, acked, readers>>

-----------------------------------------------------------------------------
(* Mutant: the view of the last time is used again.                        *)
OpenGraphCached(q) ==
  /\ unread[q] = {}
  /\ due' = [due EXCEPT ![q] = acked]
  /\ UNCHANGED <<final, tmp, writers, acked, view, skipped, unread, faults>>

(* Graph::open lists the directory and reads one file after the other.     *)
OpenGraph(q) ==
  /\ unread[q] = {}
  /\ unread' = [unread EXCEPT ![q] = Records]
  /\ view' = [view EXCEPT ![q] = {}]
  /\ skipped' = [skipped EXCEPT ![q] = {}]
  /\ due' = [due EXCEPT ![q] = acked]
  /\ UNCHANGED <<final, tmp, writers, acked, faults>>

(* A file that does not parse back to its record is left out.              *)
ReadFile(q, r) ==
  /\ r \in unread[q]
  /\ unread' = [unread EXCEPT ![q] = @ \ {r}]
  /\ view' = IF Readable(r) THEN [view EXCEPT ![q] = @ \cup {r}] ELSE view
  /\ UNCHANGED <<final, tmp, writers, acked, skipped, due, faults>>

(* Nor is a failed read an error: the record is left out with a warning.   *)
SkipFile(q, r) ==
  /\ r \in unread[q]
  /\ Fault("io")
  /\ unread' = [unread EXCEPT ![q] = @ \ {r}]
  /\ skipped' = [skipped EXCEPT ![q] = @ \cup {r}]
  /\ UNCHANGED <<final, tmp, writers, acked, view, due>>

(* Only a failure of the listing itself makes the opening fail.            *)
ListFails(q) ==
  /\ unread[q] # {}
  /\ Fault("io")
  /\ unread' = [unread EXCEPT ![q] = {}]
  /\ view' = [view EXCEPT ![q] = {}]
  /\ skipped' = [skipped EXCEPT ![q] = {}]
  /\ due' = [due EXCEPT ![q] = {}]
  /\ UNCHANGED <<final, tmp, writers, acked>>

-----------------------------------------------------------------------------
Publishing(p) ==
  \/ \E r \in Records : Publish(p, r) \/ CheckParent(p, r)
  \/ CheckTarget(p) \/ Look(p) \/ Open(p) \/ Fill(p) \/ Rename(p)
  \/ IoFails(p) \/ Crash(p)

Opening(q) ==
  \/ OpenGraph(q) \/ ListFails(q)
  \/ \E r \in Records : ReadFile(q, r) \/ SkipFile(q, r)

Next == (\E p \in Publishers : Publishing(p)) \/ (\E q \in Readers : Opening(q))

Spec == Init /\ [][Next]_vars
-----------------------------------------------------------------------------
(* Every variable has its type.                                            *)
TypeOK ==
  /\ final \in [Records -> Contents]
  /\ tmp \in [Records -> Contents]
  /\ pc \in [Publishers -> {"idle", "refs", "look", "open", "fill", "rename"}]
  /\ rec \in [Publishers -> Records \cup {NoRecord}]
  /\ \A p \in Publishers : pc[p] # "idle" => rec[p] \in Records
  /\ todo \in [Publishers -> SUBSET Records]
  /\ fd \in [Publishers -> {"closed", "tmp", "final", "orphan"}]
  /\ result \in [Publishers -> {"none", "ok", "error"}]
  /\ acked \subseteq Records
  /\ view \in [Readers -> SUBSET Records]
  /\ unread \in [Readers -> SUBSET Records]
  /\ skipped \in [Readers -> SUBSET Records]
  /\ due \in [Readers -> SUBSET acked]
  /\ faults \in 0..MaxFaults

(* A record a publisher was told is published keeps its whole content,     *)
(* whatever crashes, failed writes and leftover temporary files there are; *)
(* and it can be read, unless its body has CR LF.                          *)
AckedReadable ==
  \A r \in acked : Readable(r) \/ (r \in Crlf /\ final[r] = "full")

(* A graph that is opened has what was acknowledged before, although its   *)
(* files are read one by one while others are published.  There are two    *)
(* exceptions and no more: a file whose read failed in this opening, and a *)
(* body with CR LF.                                                        *)
FreshView ==
  \A q \in Readers :
    due[q] \subseteq view[q] \cup unread[q] \cup skipped[q] \cup Crlf

(* Not checked by a run, false with either exception: "a fresh `open`      *)
(* always sees the latest state" (graph.rs:16).                            *)
AlwaysLatest == \A q \in Readers : due[q] \subseteq view[q] \cup unread[q]

(* The store is the graph of ContributionDag: the whole files are its      *)
(* records, whatever publishers do at the same time and wherever they stop.*)
Graph == INSTANCE ContributionDag WITH dag <- {r \in Records : final[r] = "full"}
KeepsDag == Graph!Dag
=============================================================================
