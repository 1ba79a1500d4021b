----------------------------- MODULE GraphViews ------------------------------
(***************************************************************************)
(* What the contribution graph answers: the tools, HTTP handlers and       *)
(* commands that publish to it and query it, the named views and effective *)
(* verdicts of graph_index.rs, and the embedding cache of graph_embed.rs.  *)
(*                                                                         *)
(* A record's id is a hash, so the order of ids says nothing of the order  *)
(* of time: an id is any number not yet used.  Its `created` is the clock  *)
(* of the process that built it, which may differ from another's and may   *)
(* be set back: any time.  The files themselves are the subject of         *)
(* ContributionStore; here a publication is one step.                      *)
(*                                                                         *)
(* Every reader lists the directory and skips what it cannot read: a file  *)
(* whose read fails, and every record whose body has a CR LF, which does   *)
(* not come back from the file as it was hashed.                           *)
(***************************************************************************)
EXTENDS Naturals, FiniteSets

CONSTANTS Ids,        \* the hashes, ordered as strings are
          Clients,
          Asks,       \* Asks[c]: what client c asks for
          Queriers,
          Filters,    \* what the queriers ask for
          TopK,
          MaxTime,    \* bound on the clocks
          Failing,    \* what may fail in this model
          MaxFaults,  \* bound on the failures
          MaxSkips    \* bound on the records one look fails to read

Types == {"setup", "result", "insight", "hypothesis", "report", "verification"}
Verdicts == {"confirmed", "partial", "failed"}

Metrics == [name : STRING, direction : {"", "lower", "higher"}, value : Nat]

(* A request: who asks, for which record; `defaults` when the caller names *)
(* no parents and is one that has a default.                               *)
Requests ==
  [by : {"engine", "tool", "http", "cli"}, actor : STRING, type : Types,
   verdict : Verdicts \cup {"none"}, on : SUBSET (Ids \cup {0}), defaults : BOOLEAN,
   workflow : STRING, metric : Metrics, tags : SUBSET STRING, crlf : BOOLEAN]

Record ==
  [id : Ids \cup {0}, type : Types, actor : STRING, created : 0..MaxTime,
   parents : SUBSET (Ids \cup {0}), workflow : STRING, metric : Metrics,
   tags : SUBSET STRING, verdict : Verdicts \cup {"none"}, target : Ids \cup {0},
   crlf : BOOLEAN]

(* A vector kept for a record; it fits when it has the dimension of the    *)
(* model in use.                                                           *)
Vector == [id : Ids, fits : BOOLEAN]

ASSUME GraphOK ==
  /\ Ids \subseteq Nat \ {0}
  /\ MaxTime \in Nat /\ MaxFaults \in Nat /\ MaxSkips \in Nat /\ TopK \in Nat \ {0}
  /\ Failing \subseteq {"crash", "io", "read", "embed", "corrupt", "model"}
  /\ Asks \in [Clients -> SUBSET Requests]
  /\ \A c \in Clients : \A a \in Asks[c] :
       a.on = {} /\ (a.defaults => a.type # "verification")

VARIABLES
  store,   \* the published records
  pc,      \* pc[c]: what client c does next
  ask,     \* ask[c]: what it was asked
  began,   \* began[c]: what was on disk when the call began
  missed,  \* missed[c]: the records its look at the directory failed to read
  draft,   \* draft[c]: the record it builds
  qpc,     \* qpc[q]: what querier q does next
  candidates, \* candidates[q]: ids of the records that match its filter
  vectors, \* vectors[q]: the vectors it holds
  skipped, \* skipped[q]: the records its second listing failed to read
  cache,   \* the lines of embeddings.jsonl
  faults

clients == <<pc, ask, draft>>
calls == <<began, missed>>
queriers == <<qpc, candidates, vectors, skipped>>
vars == <<store, clients, calls, queriers, cache, faults>>

Fault(what) == what \in Failing /\ faults < MaxFaults /\ faults' = faults + 1

(* A look at `all` reads every record, or skips some whose read fails.     *)
Looks(all) == {S \in SUBSET all : Cardinality(all \ S) <= MaxSkips}
Reads(all, S) == IF S = all THEN UNCHANGED faults ELSE Fault("read")

NoMetric == [name |-> "", direction |-> "", value |-> 0]
Infinite == 0    \* a metric value that is not a finite number
NoRecord == [id |-> 0, type |-> "none"]
IdsOf(S) == {r.id : r \in S}
Readable == {r \in store : ~r.crlf}

-----------------------------------------------------------------------------
(* The index over a set S of records.                                      *)
Older(a, b) ==
  \/ a.created < b.created
  \/ a.created = b.created /\ a.id < b.id

InWorkflow(S, w) == {r \in S : r.workflow = w}

LatestByName(S, w) ==
  {r \in InWorkflow(S, w) : \A s \in InWorkflow(S, w) : s.id <= r.id}

LatestInWorkflow(S, w) ==
  {r \in InWorkflow(S, w) : \A s \in InWorkflow(S, w) : ~Older(r, s)}

Children(S, r) == {s \in S : r.id \in s.parents}

(* The records are visited in the order of their ids; one replaces what is *)
(* held of its actor when it is newer.                                     *)
VerificationsOf(S, t, a) ==
  {r \in S : r.type = "verification" /\ r.target = t /\ r.actor = a}

HeldLast(S, t, a) ==
  {r \in VerificationsOf(S, t, a) :
     \A s \in VerificationsOf(S, t, a) : s.id <= r.id}

Held(S, t, a) ==
  {r \in VerificationsOf(S, t, a) :
     \A s \in VerificationsOf(S, t, a) :
       \/ s.created < r.created
       \/ s.created = r.created /\ r.id <= s.id}

ActorsIn(S) == {r.actor : r \in S} \ {""}

EffectiveVerdicts(S, t) ==
  UNION {{r.verdict : r \in Held(S, t, a)} : a \in ActorsIn(S)}

IsVerified(S, r) == EffectiveVerdicts(S, r.id) \cap {"confirmed", "partial"} # {}

Better(a, b) ==
  IF a.metric.direction = "lower" THEN a.metric.value < b.metric.value
                                  ELSE a.metric.value > b.metric.value

Finite(r) == r.metric.name # "" /\ r.metric.value # Infinite

Leaders(S) ==
  LET group(r) == {s \in S : /\ s.type = "result" /\ Finite(s)
                             /\ s.metric.name = r.metric.name
                             /\ s.metric.direction = r.metric.direction}
  IN {r \in S : /\ r.type = "result" /\ Finite(r)
                /\ \A s \in group(r) \ {r} :
                     ~Better(s, r) /\ (Better(r, s) \/ r.id < s.id)}

View(S, view) ==
  CASE view = "leaves" ->
         {r \in S : r.type # "verification" /\ Children(S, r) = {}}
    [] view = "open_hypotheses" -> {r \in S : r.type = "hypothesis"}
    [] view = "negative" -> {r \in S : "negative" \in r.tags}
    [] view = "unverified" -> {r \in S : r.type = "result" /\ ~IsVerified(S, r)}
    [] view = "leaders" -> Leaders(S)
    [] OTHER -> S

Filtered(S, f) ==
  {r \in View(S, f.view) : /\ f.type \in {"any", r.type}
                           /\ f.workflow \in {"any", r.workflow}
                           /\ f.tags \subseteq r.tags}

(* The answer to a query without a search text: the newest ones.  The sort *)
(* is stable over the order of the view, which is by id unless the view is *)
(* "recent".                                                               *)
Newer(a, b, view) ==
  \/ a.created > b.created
  \/ a.created = b.created /\ IF view = "recent" THEN a.id > b.id ELSE a.id < b.id

Newest(S, f) ==
  {r \in Filtered(S, f) : Cardinality({s \in Filtered(S, f) : Newer(s, r, f.view)}) < TopK}

-----------------------------------------------------------------------------
Init ==
  /\ store = {} /\ cache = {}
  /\ faults = 0
  /\ pc = [c \in Clients |-> "idle"]
  /\ ask = [c \in Clients |-> NoRecord]
  /\ began = [c \in Clients |-> {}]
  /\ missed = [c \in Clients |-> {}]
  /\ draft = [c \in Clients |-> NoRecord]
  /\ qpc = [q \in Queriers |-> "idle"]
  /\ candidates = [q \in Queriers |-> {}]
  /\ vectors = [q \in Queriers |-> {}]
  /\ skipped = [q \in Queriers |-> {}]

-----------------------------------------------------------------------------
(* A request to publish.  The engine publishes results; tools, HTTP and    *)
(* the command line insights, hypotheses, reports and verifications.       *)
Contributable(a) ==
  a.type \in IF a.by = "engine" THEN {"result"}
             ELSE {"insight", "hypothesis", "report", "verification"}

Busy == Cardinality({c \in Clients : pc[c] # "idle"})

Asked(c, a) ==
  /\ pc[c] = "idle"
  /\ Busy + Cardinality(store) < Cardinality(Ids)   \* bound on the records
  /\ a \in Asks[c] /\ Contributable(a)

Built(a, on, at) ==
  [id |-> 0, type |-> a.type, actor |-> a.actor, created |-> at,
   parents |-> on, workflow |-> a.workflow, metric |-> a.metric,
   tags |-> a.tags, verdict |-> a.verdict, crlf |-> a.crlf,
   target |-> IF a.type = "verification" THEN CHOOSE i \in on : TRUE ELSE 0]

(* The record is built once its parents are known, with whatever time the  *)
(* clock of this process says.                                             *)
Build(c, a, on) ==
  /\ \E at \in 0..MaxTime : draft' = [draft EXCEPT ![c] = Built(a, on, at)]
  /\ pc' = [pc EXCEPT ![c] = "publish"]

(* A verification names one record, its target, which is also its parent.  *)
Targeted(a, on) == a.type = "verification" => on # {}

(* The client names ids it has been told of, or one that no record has.    *)
Contribute(c, a) ==
  /\ Asked(c, a) /\ ~a.defaults
  /\ \E on \in {{}} \cup {{i} : i \in IdsOf(store) \cup {0}} :
       Targeted(a, on) /\ Build(c, a, on)
  /\ UNCHANGED <<store, ask, calls, queriers, cache, faults>>

(* No parents are named: the engine and the tools take the latest record   *)
(* of the workflow.                                                        *)
ContributeNext(c, a) ==
  /\ Asked(c, a) /\ a.defaults
  /\ ask' = [ask EXCEPT ![c] = a]
  /\ pc' = [pc EXCEPT ![c] = "open"]
  /\ began' = [began EXCEPT ![c] = store]
  /\ UNCHANGED <<store, missed, draft, queriers, cache, faults>>

(* It is looked up in the index of a directory read entry by entry: what   *)
(* was there before is listed unless its read fails, what is published     *)
(* meanwhile may be.                                                       *)
Open(c) ==
  /\ pc[c] = "open"
  /\ LET before == began[c] \cap Readable IN
     \E S \in Looks(before), new \in SUBSET (Readable \ before) :
       /\ Reads(before, S)
       /\ missed' = [missed EXCEPT ![c] = before \ S]
       /\ ask' = [ask EXCEPT ![c].on =
                     IdsOf(LatestInWorkflow(S \cup new, ask[c].workflow))]
  /\ pc' = [pc EXCEPT ![c] = "new"]
  /\ UNCHANGED <<store, began, draft, queriers, cache>>

(* An engine that cannot open the graph goes on without a parent.          *)
OpenFails(c) ==
  /\ pc[c] = "open" /\ ask[c].by = "engine" /\ Fault("io")
  /\ missed' = [missed EXCEPT ![c] = began[c]]
  /\ pc' = [pc EXCEPT ![c] = "new"]
  /\ UNCHANGED <<store, ask, began, draft, queriers, cache>>

New(c) ==
  /\ pc[c] = "new"
  /\ Build(c, ask[c], ask[c].on)
  /\ UNCHANGED <<store, ask, calls, queriers, cache, faults>>

Finish(c) ==
  /\ pc' = [pc EXCEPT ![c] = "idle"]
  /\ ask' = [ask EXCEPT ![c] = NoRecord]
  /\ began' = [began EXCEPT ![c] = {}]
  /\ missed' = [missed EXCEPT ![c] = {}]
  /\ draft' = [draft EXCEPT ![c] = NoRecord]

(* ContributionRecord::validate, then the references, each of which is     *)
(* read from its file.                                                     *)
Valid(d) ==
  /\ d.type = "hypothesis" => d.metric.name = ""
  /\ (d.type = "verification") = (d.verdict # "none")

References(d) ==
  /\ d.parents \subseteq IdsOf(Readable)
  /\ d.type = "verification" =>
       \E r \in Readable : r.id = d.target /\ r.type # "verification"

Same(r, d) == [r EXCEPT !.id = 0] = [d EXCEPT !.id = 0]

Publish(c) ==
  /\ pc[c] = "publish"
  /\ Valid(draft[c]) /\ References(draft[c])
  /\ IF \E r \in store : Same(r, draft[c])
     THEN UNCHANGED store
     ELSE \E i \in Ids \ IdsOf(store) :
            store' = store \cup {[draft[c] EXCEPT !.id = i]}
  /\ Finish(c)
  /\ UNCHANGED <<queriers, cache, faults>>

Refuse(c) ==
  /\ pc[c] = "publish"
  /\ ~(Valid(draft[c]) /\ References(draft[c]))
  /\ Finish(c)
  /\ UNCHANGED <<store, queriers, cache, faults>>

(* The directory cannot be written, or the process ends.                   *)
ContributeFails(c) ==
  /\ pc[c] # "idle" /\ (Fault("io") \/ Fault("crash"))
  /\ Finish(c)
  /\ UNCHANGED <<store, queriers, cache>>

-----------------------------------------------------------------------------
QGoto(q, to) == qpc' = [qpc EXCEPT ![q] = to]

(* A search by text.  The candidates are those of one listing, then the    *)
(* cache is loaded; without a candidate the answer is empty and nothing is *)
(* embedded.                                                               *)
Query(q, f) ==
  /\ qpc[q] = "idle"
  /\ \E S \in Looks(Readable) :
       /\ Reads(Readable, S)
       /\ IF Filtered(S, f) = {}
          THEN UNCHANGED queriers
          ELSE /\ candidates' = [candidates EXCEPT ![q] = IdsOf(Filtered(S, f))]
               /\ vectors' = [vectors EXCEPT ![q] = cache]
               /\ QGoto(q, "list")
               /\ UNCHANGED skipped
  /\ UNCHANGED <<store, clients, calls, cache>>

(* GraphEmbedIndex::build lists the directory once more, and embeds what   *)
(* it has no vector of.                                                    *)
PendingIfNoCache(q, S) == IF vectors[q] = {} THEN IdsOf(S) ELSE {}

Pending(q, S) == IdsOf(S) \ IdsOf(vectors[q])

Embed(q) ==
  /\ qpc[q] = "list"
  /\ \E S \in Looks(Readable) :
       /\ Reads(Readable, S)
       /\ skipped' = [skipped EXCEPT ![q] = IdsOf(Readable \ S)]
       /\ vectors' = [vectors EXCEPT ![q] =
                        @ \cup {[id |-> i, fits |-> TRUE] : i \in Pending(q, S)}]
       /\ QGoto(q, IF Pending(q, S) = {} THEN "search" ELSE "write")
  /\ UNCHANGED <<store, clients, calls, candidates, cache>>

(* Written to a temporary file of its own name, and renamed: the vectors   *)
(* another query has cached meanwhile are lost.                            *)
WriteCache(q) ==
  /\ qpc[q] = "write"
  /\ cache' = vectors[q]
  /\ QGoto(q, "search")
  /\ UNCHANGED <<store, clients, calls, candidates, vectors, skipped, faults>>

Answered(q) ==
  /\ QGoto(q, "idle")
  /\ vectors' = [vectors EXCEPT ![q] = {}]
  /\ candidates' = [candidates EXCEPT ![q] = {}]
  /\ skipped' = [skipped EXCEPT ![q] = {}]

(* The candidates that have a vector of the model's dimension are ranked,  *)
(* and TopK of them are the answer: which ones is up to the model.         *)
Misfits(q) == {v.id : v \in {u \in vectors[q] : ~u.fits}}

Ranked(q) == candidates[q] \cap {v.id : v \in {u \in vectors[q] : u.fits}}

Search(q) ==
  /\ qpc[q] = "search"
  /\ Answered(q)
  /\ UNCHANGED <<store, clients, calls, cache, faults>>

(* The directory, the cache or the model fails, or the process ends.       *)
QueryFails(q) ==
  /\ \/ qpc[q] \in {"list", "write"} /\ Fault("io")
     \/ qpc[q] \in {"list", "search"} /\ Fault("embed")
     \/ qpc[q] \in {"list", "write", "search"} /\ Fault("crash")
  /\ Answered(q)
  /\ UNCHANGED <<store, clients, calls, cache>>

(* Lines of the cache that do not parse are skipped.                       *)
Corrupt ==
  /\ Fault("corrupt")
  /\ \E left \in SUBSET cache : left # cache /\ cache' = left
  /\ UNCHANGED <<store, clients, calls, queriers>>

(* A process with a model of another dimension, before or after an upgrade *)
(* say, embeds every record that has no vector yet.                        *)
OtherModel ==
  /\ Fault("model")
  /\ LET new == IdsOf(Readable) \ IdsOf(cache) IN
     new # {} /\ cache' = cache \cup {[id |-> i, fits |-> FALSE] : i \in new}
  /\ UNCHANGED <<store, clients, calls, queriers>>

Next ==
  \/ Corrupt \/ OtherModel
  \/ \E c \in Clients :
       \/ \E a \in Asks[c] : Contribute(c, a) \/ ContributeNext(c, a)
       \/ Open(c) \/ OpenFails(c) \/ New(c)
       \/ Publish(c) \/ Refuse(c) \/ ContributeFails(c)
  \/ \E q \in Queriers :
       \/ \E f \in Filters : Query(q, f)
       \/ Embed(q) \/ WriteCache(q)
       \/ Search(q) \/ QueryFails(q)

Spec == Init /\ [][Next]_vars

-----------------------------------------------------------------------------
TypeOK ==
  /\ store \subseteq Record /\ IdsOf(store) \subseteq Ids
  /\ faults \in 0..MaxFaults
  /\ pc \in [Clients -> {"idle", "open", "new", "publish"}]
  /\ ask \in [Clients -> Requests \cup {NoRecord}]
  /\ draft \in [Clients -> Record \cup {NoRecord}]
  /\ began \in [Clients -> SUBSET store]
  /\ missed \in [Clients -> SUBSET store]
  /\ qpc \in [Queriers -> {"idle", "list", "write", "search"}]
  /\ candidates \in [Queriers -> SUBSET Ids]
  /\ vectors \in [Queriers -> SUBSET Vector]
  /\ skipped \in [Queriers -> SUBSET Ids]
  /\ cache \subseteq Vector

(* A record that takes its default parent is never placed before a record  *)
(* of its workflow that was published before the call, whoever published   *)
(* it: its parent is as late by its time, except for a record whose read   *)
(* failed in that one look, all of them when an engine could not open the  *)
(* graph, and for bodies with a CR LF, which no reader ever sees.          *)
Chained ==
  \A c \in Clients : pc[c] = "publish" /\ ask[c] # NoRecord =>
    \A r \in InWorkflow(began[c], ask[c].workflow) :
      \/ \E s \in store : s.id \in draft[c].parents /\ ~Older(s, r)
      \/ r.crlf
      \/ r \in missed[c] /\ faults > 0

(* A search by text ranks every candidate, whatever other searches did to  *)
(* the cache meanwhile and whatever it has lost, except for one whose read *)
(* failed in the second listing, and for one whose cached vector another   *)
(* model has made: nothing embeds that one again.                          *)
SearchComplete ==
  \A q \in Queriers : qpc[q] = "search" =>
    candidates[q] \subseteq Ranked(q) \cup skipped[q] \cup Misfits(q)

(* The verification that counts for an actor and a target never gives way  *)
(* to an older one, in whatever order the two are published.               *)
VerdictsAdvance ==
  [][\A t \in Ids, a \in ActorsIn(Readable) :
       \A old \in Held(Readable, t, a) : \E new \in Held(Readable, t, a)' :
         new.created >= old.created]_vars

(* Not checked by a run, false: a line that does not parse is made anew by *)
(* the next search (graph_embed.rs:117), one with a vector of another      *)
(* dimension is not, and its record stays out of every search.             *)
NoneLeftOut ==
  \A q \in Queriers : qpc[q] = "search" => candidates[q] \subseteq Ranked(q) \cup skipped[q]

(* Not checked by a run, false: "Verifications are never parents for new   *)
(* work" (graph_index.rs:165; the latest record of a workflow is the       *)
(* default parent of the next, a verification or not).                     *)
NeverAParent ==
  \A r, s \in store : s.id \in r.parents => s.type # "verification"
=============================================================================
