-------------------------- MODULE GraphViews_proofs --------------------------
(***************************************************************************)
(* Theorems about the contribution graph's answers, for any clients,       *)
(* requests, hashes, queriers and number of faults.  The inductive         *)
(* invariant says of every call under way what its last look at the        *)
(* directory still guarantees: the parents it has chosen are on disk, and  *)
(* the candidates of a search are readable until each of them has its      *)
(* vector, or the second listing has skipped it.  A default parent follows *)
(* what that look has read because a finite workflow has a latest record.  *)
(***************************************************************************)
EXTENDS GraphViews, FiniteSetTheorems, TLAPS

(* What a client between two steps may rely on.                            *)
Underway ==
  \A c \in Clients :
    /\ pc[c] \in {"open", "new"} => ask[c] \in Requests /\ ask[c].type # "verification"
    /\ pc[c] = "open" => ask[c].on = {}
    /\ pc[c] = "new" => ask[c].on \subseteq IdsOf(store) \cup {0}
    /\ pc[c] = "publish" => /\ draft[c] \in Record
                            /\ draft[c].parents \subseteq IdsOf(store) \cup {0}

(* Candidates are readable, and have their vectors once these are embedded *)
(* unless the second listing skipped them.                                 *)
SearchUnderway ==
  \A q \in Queriers :
    /\ qpc[q] = "list" => candidates[q] \subseteq IdsOf(Readable)
    /\ qpc[q] \in {"write", "search"} =>
         candidates[q] \subseteq IdsOf(vectors[q]) \cup skipped[q]

GraphInv == TypeOK /\ Underway /\ SearchUnderway

-----------------------------------------------------------------------------
(* A built record is a record with the parents it was given.               *)
LEMMA BuiltRecord ==
  ASSUME NEW a \in Requests, NEW on \in SUBSET (Ids \cup {0}), NEW at \in 0..MaxTime,
         a.type = "verification" => on # {}
  PROVE  /\ Built(a, on, at) \in Record
         /\ Built(a, on, at).parents = on
<1>1. (IF a.type = "verification" THEN CHOOSE i \in on : TRUE ELSE 0) \in Ids \cup {0}
  OBVIOUS
<1> QED
  BY <1>1 DEF Built, Record, Requests

(* Giving a record its id changes nothing else.                            *)
LEMMA NamedRecord ==
  ASSUME NEW d \in Record, NEW i \in Ids
  PROVE  /\ [d EXCEPT !.id = i] \in Record
         /\ [d EXCEPT !.id = i].id = i
         /\ [d EXCEPT !.id = i].created = d.created
         /\ [d EXCEPT !.id = i].parents = d.parents
         /\ [d EXCEPT !.id = i].type = d.type
         /\ [d EXCEPT !.id = i].target = d.target
         /\ [d EXCEPT !.id = i].actor = d.actor
         /\ [d EXCEPT !.id = i].crlf = d.crlf
BY DEF Record

(* What a view or a filter returns was there.                              *)
LEMMA FilteredIn ==
  ASSUME NEW S, NEW f
  PROVE  Filtered(S, f) \subseteq S
<1>1. View(S, f.view) \subseteq S
  <2>1. Leaders(S) \subseteq S
    BY DEF Leaders
  <2> QED
    BY <2>1, Zenon DEF View
<1> QED
  BY <1>1 DEF Filtered

LEMMA LatestIn ==
  ASSUME NEW S, NEW w
  PROVE  LatestInWorkflow(S, w) \subseteq S
BY DEF LatestInWorkflow, InWorkflow

(* A look returns some of the records, and reports what it skipped.        *)
LEMMA LooksIn ==
  ASSUME NEW all, NEW S \in Looks(all)
  PROVE  S \subseteq all
BY DEF Looks

LEMMA ReadsFaults ==
  ASSUME NEW all, NEW S, Reads(all, S)
  PROVE  faults' = faults \/ Fault("read")
BY DEF Reads

(* What a look for the default parent comes to.                            *)
LEMMA Looked ==
  ASSUME NEW c \in Clients, Open(c)
  PROVE  \E S \in SUBSET Readable :
           /\ missed' = [missed EXCEPT ![c] = (began[c] \cap Readable) \ S]
           /\ ask' = [ask EXCEPT ![c].on = IdsOf(LatestInWorkflow(S, ask[c].workflow))]
           /\ \/ (began[c] \cap Readable) \ S = {} /\ faults' = faults
              \/ Fault("read")
<1> DEFINE before == began[c] \cap Readable
<1>1. PICK S \in Looks(before), new \in SUBSET (Readable \ before) :
        /\ Reads(before, S)
        /\ missed' = [missed EXCEPT ![c] = before \ S]
        /\ ask' = [ask EXCEPT ![c].on = IdsOf(LatestInWorkflow(S \cup new, ask[c].workflow))]
  BY DEF Open
<1>2. S \subseteq before
  BY LooksIn
<1>3. S \cup new \in SUBSET Readable /\ before \ (S \cup new) = before \ S
  BY <1>2
<1>4. (before \ S = {} /\ faults' = faults) \/ Fault("read")
  BY <1>1 DEF Reads
<1> QED
  BY <1>1, <1>3, <1>4

(* A publication adds at most one record, whose id is new.                 *)
LEMMA Published ==
  ASSUME TypeOK, Underway, NEW c \in Clients, Publish(c)
  PROVE  \/ store' = store
         \/ \E i \in Ids \ IdsOf(store) :
              store' = store \cup {[draft[c] EXCEPT !.id = i]}
BY DEF Publish

-----------------------------------------------------------------------------
LEMMA TypingInit == Init => TypeOK
BY GraphOK DEF Init, TypeOK, IdsOf

LEMMA FinishTyping ==
  ASSUME TypeOK, NEW c \in Clients, Finish(c), store \subseteq store'
  PROVE  /\ pc' \in [Clients -> {"idle", "open", "new", "publish"}]
         /\ ask' \in [Clients -> Requests \cup {NoRecord}]
         /\ draft' \in [Clients -> Record \cup {NoRecord}]
         /\ began' \in [Clients -> SUBSET store']
         /\ missed' \in [Clients -> SUBSET store']
BY DEF TypeOK, Finish

LEMMA BuildTyping ==
  ASSUME TypeOK, NEW c \in Clients, NEW a \in Requests,
         NEW on \in SUBSET (Ids \cup {0}), a.type = "verification" => on # {},
         Build(c, a, on)
  PROVE  /\ pc' \in [Clients -> {"idle", "open", "new", "publish"}]
         /\ draft' \in [Clients -> Record \cup {NoRecord}]
         /\ pc' = [pc EXCEPT ![c] = "publish"]
         /\ draft'[c] \in Record /\ draft'[c].parents = on
         /\ \A d \in Clients \ {c} : draft'[d] = draft[d]
<1>1. PICK at \in 0..MaxTime : draft' = [draft EXCEPT ![c] = Built(a, on, at)]
  BY DEF Build
<1>2. Built(a, on, at) \in Record /\ Built(a, on, at).parents = on
  BY BuiltRecord
<1> QED
  BY <1>1, <1>2 DEF TypeOK, Build

(* The steps of the queriers and the loss of cache lines concern no client. *)
QuietForClients == UNCHANGED <<store, clients, calls>>

LEMMA QuerierSteps ==
  ASSUME Corrupt \/ OtherModel \/ (\E q \in Queriers : (\E f \in Filters : Query(q, f))
                       \/ Embed(q) \/ WriteCache(q) \/ Search(q) \/ QueryFails(q))
  PROVE  QuietForClients
BY DEF QuietForClients, Corrupt, OtherModel, Query, Embed, WriteCache, Search, QueryFails

LEMMA ClientSteps ==
  ASSUME NEW c \in Clients,
         \/ \E a \in Asks[c] : Contribute(c, a) \/ ContributeNext(c, a)
         \/ Open(c) \/ OpenFails(c) \/ New(c)
         \/ Publish(c) \/ Refuse(c) \/ ContributeFails(c)
  PROVE  UNCHANGED <<queriers, cache>>
BY DEF Contribute, ContributeNext, Open, OpenFails, New, Publish, Refuse, ContributeFails

LEMMA FaultTyping ==
  ASSUME TypeOK, NEW what, Fault(what)
  PROVE  faults' \in 0..MaxFaults
BY GraphOK DEF TypeOK, Fault

(* The part of the type invariant that the clients' steps can disturb.     *)
ClientTypes ==
  /\ store \subseteq Record /\ IdsOf(store) \subseteq Ids
  /\ faults \in 0..MaxFaults
  /\ pc \in [Clients -> {"idle", "open", "new", "publish"}]
  /\ ask \in [Clients -> Requests \cup {NoRecord}]
  /\ draft \in [Clients -> Record \cup {NoRecord}]
  /\ began \in [Clients -> SUBSET store]
  /\ missed \in [Clients -> SUBSET store]

LEMMA ClientTyping ==
  ASSUME TypeOK, Underway, NEW c \in Clients,
         \/ \E a \in Asks[c] : Contribute(c, a) \/ ContributeNext(c, a)
         \/ Open(c) \/ OpenFails(c) \/ New(c)
         \/ Publish(c) \/ Refuse(c) \/ ContributeFails(c)
  PROVE  ClientTypes'
<1>1. ASSUME NEW a \in Asks[c], Contribute(c, a)
      PROVE  ClientTypes'
  <2>1. a \in Requests
    BY GraphOK
  <2>2. PICK on \in {{}} \cup {{i} : i \in IdsOf(store) \cup {0}} :
          Targeted(a, on) /\ Build(c, a, on)
    BY <1>1 DEF Contribute
  <2>3. on \in SUBSET (Ids \cup {0}) /\ (a.type = "verification" => on # {})
    BY <2>2 DEF TypeOK, Targeted
  <2>4. UNCHANGED <<store, ask, calls, faults>>
    BY <1>1 DEF Contribute
  <2> QED
    BY <2>1, <2>2, <2>3, <2>4, BuildTyping DEF ClientTypes, TypeOK, IdsOf, calls
<1>2. ASSUME NEW a \in Asks[c], ContributeNext(c, a)
      PROVE  ClientTypes'
  <2>1. a \in Requests
    BY GraphOK
  <2> QED
    BY <1>2, <2>1 DEF ContributeNext, ClientTypes, TypeOK, IdsOf
<1>3. ASSUME Open(c)
      PROVE  ClientTypes'
  <2>1. PICK S \in SUBSET Readable :
          ask' = [ask EXCEPT ![c].on = IdsOf(LatestInWorkflow(S, ask[c].workflow))]
    BY <1>3, Looked
  <2>2. IdsOf(LatestInWorkflow(S, ask[c].workflow)) \subseteq Ids
    BY LatestIn DEF TypeOK, IdsOf, Readable
  <2>3. ask[c] \in Requests
    BY <1>3 DEF Underway, Open
  <2>4. ask' \in [Clients -> Requests \cup {NoRecord}]
    BY <2>1, <2>2, <2>3 DEF TypeOK, Requests
  <2>5. pc' = [pc EXCEPT ![c] = "new"] /\ UNCHANGED <<store, began, draft>>
    BY <1>3 DEF Open
  <2>6. missed' \in [Clients -> SUBSET store]
    BY <1>3, Looked DEF TypeOK, Readable
  <2>7. faults' \in 0..MaxFaults
    BY <1>3, Looked, FaultTyping DEF TypeOK
  <2> QED
    BY <2>4, <2>5, <2>6, <2>7 DEF ClientTypes, TypeOK, IdsOf
<1>4. ASSUME OpenFails(c)
      PROVE  ClientTypes'
  BY <1>4, FaultTyping DEF OpenFails, ClientTypes, TypeOK, IdsOf
<1>5. ASSUME New(c)
      PROVE  ClientTypes'
  <2>1. ask[c] \in Requests /\ ask[c].type # "verification"
    BY <1>5 DEF Underway, New
  <2>2. ask[c].on \in SUBSET (Ids \cup {0})
    BY <2>1 DEF Requests
  <2>3. Build(c, ask[c], ask[c].on) /\ UNCHANGED <<store, ask, calls, faults>>
    BY <1>5 DEF New
  <2> QED
    BY <2>1, <2>2, <2>3, BuildTyping DEF ClientTypes, TypeOK, IdsOf, calls
<1>6. ASSUME Publish(c)
      PROVE  ClientTypes'
  <2>1. draft[c] \in Record
    BY <1>6 DEF Underway, Publish
  <2>2. store' \subseteq Record /\ IdsOf(store') \subseteq Ids /\ store \subseteq store'
    <3>1. CASE store' = store
      BY <3>1 DEF TypeOK
    <3>2. ASSUME NEW i \in Ids, store' = store \cup {[draft[c] EXCEPT !.id = i]}
          PROVE  store' \subseteq Record /\ IdsOf(store') \subseteq Ids /\ store \subseteq store'
      <4> DEFINE new == [draft[c] EXCEPT !.id = i]
      <4>1. new \in Record /\ new.id = i
        BY <2>1, NamedRecord
      <4>2. store' = store \cup {new}
        BY <3>2
      <4> HIDE DEF new
      <4> QED
        BY <4>1, <4>2 DEF TypeOK, IdsOf
    <3> QED
      BY <1>6, <3>1, <3>2, Published
  <2>3. Finish(c) /\ UNCHANGED faults
    BY <1>6 DEF Publish
  <2> QED
    BY <2>2, <2>3, FinishTyping DEF ClientTypes, TypeOK, IdsOf
<1>7. ASSUME Refuse(c)
      PROVE  ClientTypes'
  <2>1. Finish(c) /\ UNCHANGED <<store, faults>>
    BY <1>7 DEF Refuse
  <2> QED
    BY <2>1, FinishTyping DEF ClientTypes, TypeOK, IdsOf
<1>8. ASSUME ContributeFails(c)
      PROVE  ClientTypes'
  <2>1. Finish(c) /\ UNCHANGED store /\ faults' \in 0..MaxFaults
    BY <1>8, FaultTyping DEF ContributeFails
  <2> QED
    BY <2>1, FinishTyping DEF ClientTypes, TypeOK, IdsOf
<1> QED
  BY <1>1, <1>2, <1>3, <1>4, <1>5, <1>6, <1>7, <1>8

(* Vectors made for published records are vectors.                         *)
LEMMA Vectors ==
  ASSUME NEW I \in SUBSET Ids, NEW b \in BOOLEAN
  PROVE  {[id |-> i, fits |-> b] : i \in I} \subseteq Vector
<1>1. \A i \in I : [id |-> i, fits |-> b] \in Vector
  BY DEF Vector
<1> QED
  BY <1>1

LEMMA TypingNext ==
  ASSUME TypeOK, Underway, [Next]_vars
  PROVE  TypeOK'
<1>1. ASSUME NEW c \in Clients,
             \/ \E a \in Asks[c] : Contribute(c, a) \/ ContributeNext(c, a)
             \/ Open(c) \/ OpenFails(c) \/ New(c)
             \/ Publish(c) \/ Refuse(c) \/ ContributeFails(c)
      PROVE  TypeOK'
  BY <1>1, ClientTyping, ClientSteps DEF ClientTypes, TypeOK, queriers
<1>2. ASSUME NEW q \in Queriers, NEW f \in Filters, Query(q, f)
      PROVE  TypeOK'
  <2>1. PICK S \in SUBSET Readable :
          /\ faults' = faults \/ Fault("read")
          /\ \/ UNCHANGED queriers
             \/ /\ candidates' = [candidates EXCEPT ![q] = IdsOf(Filtered(S, f))]
                /\ vectors' = [vectors EXCEPT ![q] = cache]
                /\ QGoto(q, "list")
                /\ UNCHANGED skipped
    BY <1>2, LooksIn, ReadsFaults DEF Query
  <2>2. IdsOf(Filtered(S, f)) \subseteq Ids
    BY FilteredIn DEF TypeOK, IdsOf, Readable
  <2>3. faults' \in 0..MaxFaults
    BY <2>1, FaultTyping DEF TypeOK
  <2>4. UNCHANGED <<store, clients, calls, cache>>
    BY <1>2 DEF Query
  <2>5. CASE UNCHANGED queriers
    BY <2>3, <2>4, <2>5 DEF TypeOK, IdsOf, clients, calls, queriers
  <2> QED
    BY <2>1, <2>2, <2>3, <2>4, <2>5 DEF QGoto, TypeOK, IdsOf, clients, calls
<1>3. ASSUME NEW q \in Queriers, Embed(q)
      PROVE  TypeOK'
  <2>1. PICK S \in SUBSET Readable :
          /\ faults' = faults \/ Fault("read")
          /\ skipped' = [skipped EXCEPT ![q] = IdsOf(Readable \ S)]
          /\ vectors' = [vectors EXCEPT ![q] =
                           @ \cup {[id |-> i, fits |-> TRUE] : i \in Pending(q, S)}]
          /\ QGoto(q, IF Pending(q, S) = {} THEN "search" ELSE "write")
    BY <1>3, LooksIn, ReadsFaults DEF Embed
  <2>2. IdsOf(S) \subseteq Ids /\ IdsOf(Readable \ S) \subseteq Ids
    BY DEF TypeOK, IdsOf, Readable
  <2>3. {[id |-> i, fits |-> TRUE] : i \in Pending(q, S)} \subseteq Vector
    BY <2>2, Vectors DEF Pending
  <2>4. faults' \in 0..MaxFaults
    BY <2>1, FaultTyping DEF TypeOK
  <2>5. UNCHANGED <<store, clients, calls, candidates, cache>>
    BY <1>3 DEF Embed
  <2>6. qpc' \in [Queriers -> {"idle", "list", "write", "search"}]
    BY <2>1 DEF QGoto, TypeOK
  <2>7. vectors' \in [Queriers -> SUBSET Vector] /\ skipped' \in [Queriers -> SUBSET Ids]
    BY <2>1, <2>2, <2>3 DEF TypeOK
  <2> QED
    BY <2>4, <2>5, <2>6, <2>7 DEF TypeOK, IdsOf, clients, calls
<1>4. ASSUME NEW q \in Queriers, WriteCache(q)
      PROVE  TypeOK'
  BY <1>4 DEF WriteCache, QGoto, TypeOK, IdsOf, clients, calls
<1>5. ASSUME NEW q \in Queriers, Search(q)
      PROVE  TypeOK'
  BY <1>5 DEF Search, Answered, QGoto, TypeOK, IdsOf, clients, calls
<1>6. ASSUME NEW q \in Queriers, QueryFails(q)
      PROVE  TypeOK'
  BY <1>6, FaultTyping DEF QueryFails, Answered, QGoto, TypeOK, IdsOf, clients, calls
<1>7. ASSUME Corrupt
      PROVE  TypeOK'
  BY <1>7, FaultTyping DEF Corrupt, TypeOK, IdsOf, clients, calls, queriers
<1>9. ASSUME OtherModel
      PROVE  TypeOK'
  <2> DEFINE new == IdsOf(Readable) \ IdsOf(cache)
  <2>1. cache' = cache \cup {[id |-> i, fits |-> FALSE] : i \in new}
    BY <1>9 DEF OtherModel
  <2>2. new \subseteq Ids
    BY DEF TypeOK, IdsOf, Readable
  <2>3. {[id |-> i, fits |-> FALSE] : i \in new} \subseteq Vector
    BY <2>2, Vectors
  <2> QED
    BY <1>9, <2>1, <2>3, FaultTyping DEF OtherModel, TypeOK, IdsOf, clients, calls, queriers
<1>8. CASE UNCHANGED vars
  BY <1>8 DEF vars, clients, calls, queriers, TypeOK, IdsOf
<1> QED
  BY <1>1, <1>2, <1>3, <1>4, <1>5, <1>6, <1>7, <1>8, <1>9 DEF Next

-----------------------------------------------------------------------------
(* Other clients keep what they rely on when records are only added.       *)
LEMMA OthersUnderway ==
  ASSUME Underway, NEW d \in Clients, IdsOf(store) \subseteq IdsOf(store'),
         pc'[d] = pc[d], ask'[d] = ask[d], draft'[d] = draft[d]
  PROVE  /\ pc'[d] \in {"open", "new"} => ask'[d] \in Requests /\ ask'[d].type # "verification"
         /\ pc'[d] = "open" => ask'[d].on = {}
         /\ pc'[d] = "new" => ask'[d].on \subseteq IdsOf(store') \cup {0}
         /\ pc'[d] = "publish" => /\ draft'[d] \in Record
                                  /\ draft'[d].parents \subseteq IdsOf(store') \cup {0}
BY DEF Underway

LEMMA StoreGrows ==
  ASSUME TypeOK, Underway, NEW c \in Clients, Publish(c)
  PROVE  store \subseteq store' /\ IdsOf(store) \subseteq IdsOf(store')
BY Published DEF IdsOf

LEMMA UnderwayNext ==
  ASSUME TypeOK, Underway, [Next]_vars
  PROVE  Underway'
<1>1. ASSUME NEW c \in Clients, NEW a \in Asks[c], Contribute(c, a)
      PROVE  Underway'
  <2>1. a \in Requests
    BY GraphOK
  <2>2. PICK on \in {{}} \cup {{i} : i \in IdsOf(store) \cup {0}} :
          Targeted(a, on) /\ Build(c, a, on)
    BY <1>1 DEF Contribute
  <2>3. on \in SUBSET (Ids \cup {0}) /\ (a.type = "verification" => on # {})
        /\ on \subseteq IdsOf(store) \cup {0}
    BY <2>2 DEF TypeOK, Targeted
  <2>4. UNCHANGED <<store, ask>>
    BY <1>1 DEF Contribute
  <2>5. pc'[c] = "publish" /\ draft'[c] \in Record /\ draft'[c].parents = on
        /\ \A d \in Clients \ {c} : pc'[d] = pc[d] /\ draft'[d] = draft[d]
    BY <2>1, <2>2, <2>3, BuildTyping DEF TypeOK
  <2> QED
    BY <2>3, <2>4, <2>5, OthersUnderway DEF Underway
<1>2. ASSUME NEW c \in Clients, NEW a \in Asks[c], ContributeNext(c, a)
      PROVE  Underway'
  <2>1. a \in Requests /\ a.on = {} /\ (a.defaults => a.type # "verification")
    BY GraphOK
  <2>2. pc' = [pc EXCEPT ![c] = "open"] /\ ask' = [ask EXCEPT ![c] = a] /\ a.defaults
        /\ UNCHANGED <<store, draft>>
    BY <1>2 DEF ContributeNext
  <2> QED
    BY <2>1, <2>2, OthersUnderway DEF Underway, TypeOK
<1>3. ASSUME NEW c \in Clients, Open(c)
      PROVE  Underway'
  <2>1. PICK S \in SUBSET Readable :
          ask' = [ask EXCEPT ![c].on = IdsOf(LatestInWorkflow(S, ask[c].workflow))]
    BY <1>3, Looked
  <2>2. IdsOf(LatestInWorkflow(S, ask[c].workflow)) \subseteq IdsOf(store)
    BY LatestIn DEF IdsOf, Readable
  <2>3. ask[c] \in Requests /\ ask[c].type # "verification"
    BY <1>3 DEF Underway, Open
  <2>4. pc' = [pc EXCEPT ![c] = "new"] /\ UNCHANGED <<store, draft>>
    BY <1>3 DEF Open
  <2>5. ask'[c] \in Requests /\ ask'[c].type # "verification"
        /\ ask'[c].on \subseteq IdsOf(store) \cup {0}
    BY <2>1, <2>2, <2>3 DEF TypeOK, Requests
  <2> QED
    BY <2>1, <2>4, <2>5, OthersUnderway DEF Underway, TypeOK
<1>4. ASSUME NEW c \in Clients, OpenFails(c)
      PROVE  Underway'
  <2>1. pc[c] = "open" /\ pc' = [pc EXCEPT ![c] = "new"] /\ UNCHANGED <<store, ask, draft>>
    BY <1>4 DEF OpenFails
  <2> QED
    BY <2>1, OthersUnderway DEF Underway, TypeOK
<1>5. ASSUME NEW c \in Clients, New(c)
      PROVE  Underway'
  <2>1. ask[c] \in Requests /\ ask[c].type # "verification"
        /\ ask[c].on \subseteq IdsOf(store) \cup {0}
    BY <1>5 DEF Underway, New
  <2>2. ask[c].on \in SUBSET (Ids \cup {0})
    BY <2>1 DEF Requests
  <2>3. Build(c, ask[c], ask[c].on) /\ UNCHANGED <<store, ask>>
    BY <1>5 DEF New
  <2>4. pc'[c] = "publish" /\ draft'[c] \in Record /\ draft'[c].parents = ask[c].on
        /\ \A d \in Clients \ {c} : pc'[d] = pc[d] /\ draft'[d] = draft[d]
    BY <2>1, <2>2, <2>3, BuildTyping DEF TypeOK
  <2> QED
    BY <2>1, <2>3, <2>4, OthersUnderway DEF Underway
<1>6. ASSUME NEW c \in Clients, Publish(c) \/ Refuse(c) \/ ContributeFails(c)
      PROVE  Underway'
  <2>1. Finish(c) /\ IdsOf(store) \subseteq IdsOf(store')
    BY <1>6, StoreGrows DEF Publish, Refuse, ContributeFails
  <2> QED
    BY <2>1, OthersUnderway DEF Finish, Underway, TypeOK
<1>7. CASE QuietForClients \/ UNCHANGED vars
  BY <1>7 DEF QuietForClients, vars, clients, Underway
<1> QED
  BY <1>1, <1>2, <1>3, <1>4, <1>5, <1>6, <1>7, QuerierSteps DEF Next

-----------------------------------------------------------------------------
LEMMA SearchNext ==
  ASSUME TypeOK, Underway, SearchUnderway, [Next]_vars
  PROVE  SearchUnderway'
<1>1. ASSUME NEW c \in Clients,
             \/ \E a \in Asks[c] : Contribute(c, a) \/ ContributeNext(c, a)
             \/ Open(c) \/ OpenFails(c) \/ New(c)
             \/ Publish(c) \/ Refuse(c) \/ ContributeFails(c)
      PROVE  SearchUnderway'
  <2>1. store \subseteq store'
    BY <1>1, StoreGrows
    DEF Contribute, ContributeNext, Open, OpenFails, New, Refuse, ContributeFails
  <2>2. IdsOf(Readable) \subseteq IdsOf(Readable')
    BY <2>1 DEF IdsOf, Readable
  <2>3. UNCHANGED queriers
    BY <1>1, ClientSteps
  <2> QED
    BY <2>2, <2>3 DEF queriers, SearchUnderway, IdsOf
<1>2. ASSUME NEW q \in Queriers, NEW f \in Filters, Query(q, f)
      PROVE  SearchUnderway'
  <2>1. PICK S \in SUBSET Readable :
          \/ UNCHANGED queriers
          \/ /\ candidates' = [candidates EXCEPT ![q] = IdsOf(Filtered(S, f))]
             /\ vectors' = [vectors EXCEPT ![q] = cache]
             /\ QGoto(q, "list")
             /\ UNCHANGED skipped
    BY <1>2, LooksIn DEF Query
  <2>2. IdsOf(Filtered(S, f)) \subseteq IdsOf(Readable)
    BY FilteredIn DEF IdsOf
  <2>3. UNCHANGED store
    BY <1>2 DEF Query
  <2>4. CASE UNCHANGED queriers
    BY <2>3, <2>4 DEF queriers, SearchUnderway, IdsOf, Readable
  <2> QED
    BY <2>1, <2>2, <2>3, <2>4 DEF QGoto, TypeOK, SearchUnderway, IdsOf, Readable
<1>3. ASSUME NEW q \in Queriers, Embed(q)
      PROVE  SearchUnderway'
  <2>1. PICK S \in SUBSET Readable :
          /\ skipped' = [skipped EXCEPT ![q] = IdsOf(Readable \ S)]
          /\ vectors' = [vectors EXCEPT ![q] =
                           @ \cup {[id |-> i, fits |-> TRUE] : i \in Pending(q, S)}]
          /\ QGoto(q, IF Pending(q, S) = {} THEN "search" ELSE "write")
    BY <1>3, LooksIn, ReadsFaults DEF Embed
  <2>2. qpc[q] = "list" /\ UNCHANGED <<store, candidates>>
    BY <1>3 DEF Embed
  <2>3. qpc'[q] \in {"search", "write"}
        /\ skipped'[q] = IdsOf(Readable \ S)
        /\ vectors'[q] = vectors[q] \cup {[id |-> i, fits |-> TRUE] : i \in Pending(q, S)}
        /\ \A p \in Queriers \ {q} :
             qpc'[p] = qpc[p] /\ vectors'[p] = vectors[p] /\ skipped'[p] = skipped[p]
    BY <2>1 DEF QGoto, TypeOK
  <2>4. IdsOf(Readable) \subseteq IdsOf(vectors'[q]) \cup skipped'[q]
    <3>1. \A i \in Pending(q, S) : i \in IdsOf(vectors'[q])
      <4>1. TAKE i \in Pending(q, S)
      <4>2. [id |-> i, fits |-> TRUE] \in vectors'[q] /\ [id |-> i, fits |-> TRUE].id = i
        BY <2>3
      <4> QED
        BY <4>2 DEF IdsOf
    <3>2. IdsOf(vectors[q]) \subseteq IdsOf(vectors'[q])
      BY <2>3 DEF IdsOf
    <3>3. IdsOf(S) \subseteq IdsOf(vectors'[q])
      BY <3>1, <3>2 DEF Pending
    <3> QED
      BY <2>3, <3>3 DEF IdsOf
  <2>5. candidates[q] \subseteq IdsOf(Readable)
    BY <2>2 DEF SearchUnderway
  <2>6. Readable' = Readable
    BY <2>2 DEF Readable
  <2>7. ASSUME NEW p \in Queriers
        PROVE  /\ qpc'[p] = "list" => candidates'[p] \subseteq IdsOf(Readable)
               /\ qpc'[p] \in {"write", "search"} =>
                    candidates'[p] \subseteq IdsOf(vectors'[p]) \cup skipped'[p]
    <3>1. CASE p = q
      BY <2>2, <2>3, <2>4, <2>5, <3>1
    <3>2. CASE p # q
      BY <2>2, <2>3, <3>2 DEF SearchUnderway
    <3> QED
      BY <3>1, <3>2
  <2> QED
    BY <2>6, <2>7 DEF SearchUnderway, IdsOf
<1>4. ASSUME NEW q \in Queriers, WriteCache(q)
      PROVE  SearchUnderway'
  BY <1>4 DEF WriteCache, QGoto, TypeOK, SearchUnderway, IdsOf, Readable
<1>5. ASSUME NEW q \in Queriers, Search(q) \/ QueryFails(q)
      PROVE  SearchUnderway'
  BY <1>5 DEF Search, QueryFails, Answered, QGoto, TypeOK, SearchUnderway, IdsOf, Readable
<1>6. CASE Corrupt \/ OtherModel \/ UNCHANGED vars
  BY <1>6 DEF Corrupt, OtherModel, vars, queriers, SearchUnderway, IdsOf, Readable
<1> QED
  BY <1>1, <1>2, <1>3, <1>4, <1>5, <1>6 DEF Next

LEMMA GraphInvInit == Init => GraphInv
BY TypingInit DEF Init, GraphInv, Underway, SearchUnderway, IdsOf

LEMMA GraphInvNext == GraphInv /\ [Next]_vars => GraphInv'
BY TypingNext, UnderwayNext, SearchNext DEF GraphInv

LEMMA Invariance == Spec => []GraphInv
<1> QED
  BY GraphInvInit, GraphInvNext, PTL DEF Spec

-----------------------------------------------------------------------------
(* The variables of the graph's clients and queriers have their types.     *)
THEOREM Typing == Spec => []TypeOK
<1>1. GraphInv => TypeOK
  BY DEF GraphInv
<1> QED
  BY <1>1, Invariance, PTL

(* Every candidate is ranked when the ranking starts, whatever the other   *)
(* searches and the losses do to the cache, but for a record the second    *)
(* listing failed to read and one whose cached vector does not fit.        *)
THEOREM SearchIsComplete == Spec => []SearchComplete
<1>1. GraphInv => SearchComplete
  <2>1. SUFFICES ASSUME GraphInv, NEW q \in Queriers, qpc[q] = "search",
                        NEW i \in candidates[q], i \notin skipped[q]
                 PROVE  i \in Ranked(q) \cup Misfits(q)
    BY DEF SearchComplete
  <2>2. i \in IdsOf(vectors[q])
    BY <2>1 DEF GraphInv, SearchUnderway
  <2>3. PICK v \in vectors[q] : v.id = i
    BY <2>2 DEF IdsOf
  <2>4. CASE v.fits
    BY <2>3, <2>4 DEF Ranked
  <2>5. CASE ~v.fits
    BY <2>3, <2>5 DEF Misfits
  <2> QED
    BY <2>4, <2>5
<1> QED
  BY <1>1, Invariance, PTL

-----------------------------------------------------------------------------
(* A new record takes the place of the verification that counts only when  *)
(* it is as new.                                                           *)
LEMMA Numbers == Ids \subseteq Nat /\ 0 \in Nat /\ 0..MaxTime \subseteq Nat
  BY GraphOK

LEMMA NotBefore ==
  \A c, i, d, j \in Nat :
    ~(c < d \/ (c = d /\ j <= i)) => c >= d /\ (c = d => i <= j)
  OBVIOUS

LEMMA Through ==
  \A c, i, d, j, e, k \in Nat :
    (e < d \/ (e = d /\ j <= k)) /\ c >= d /\ (c = d => i <= j)
    => e < c \/ (e = c /\ i <= k)
  OBVIOUS

LEMMA HeldAdvances ==
  ASSUME TypeOK, Underway, [Next]_vars, NEW t, NEW a, NEW old \in Held(Readable, t, a)
  PROVE  \E new \in Held(Readable, t, a)' : new.created >= old.created
<1>1. CASE Readable' = Readable
  <2>1. old.created \in Nat
    BY GraphOK DEF TypeOK, Record, Held, VerificationsOf, Readable
  <2> QED
    BY <1>1, <2>1 DEF Held, VerificationsOf
<1>2. ASSUME NEW x \in Record, Readable' = Readable \cup {x}
      PROVE  \E new \in Held(Readable, t, a)' : new.created >= old.created
  <2> DEFINE R == Readable
             R1 == Readable'
  <2>1. R1 = R \cup {x} /\ R \subseteq Record
    BY <1>2 DEF TypeOK, Readable
  <2>2. Held(Readable, t, a)' = Held(R1, t, a)
    BY DEF Held, VerificationsOf
  <2>3. old \in Held(R, t, a)
    OBVIOUS
  <2> HIDE DEF R, R1
  <2>4. \A r \in R1 : r.created \in Nat /\ r.id \in Nat
    <3>1. ASSUME NEW r \in Record
          PROVE  r.created \in Nat /\ r.id \in Nat
      <4>1. r.created \in 0..MaxTime /\ r.id \in Ids \cup {0}
        BY <3>1 DEF Record
      <4> QED
        BY <4>1, Numbers
    <3> QED
      BY <1>2, <2>1, <3>1
  <2>5. old \in R /\ old \in R1
    BY <2>1, <2>3 DEF Held, VerificationsOf
  <2>6. CASE old \in Held(R1, t, a)
    BY <2>2, <2>4, <2>5, <2>6
  <2>7. CASE old \notin Held(R1, t, a)
    <3>1. x \in VerificationsOf(R1, t, a)
          /\ ~(x.created < old.created \/ (x.created = old.created /\ old.id <= x.id))
      BY <2>1, <2>3, <2>7 DEF Held, VerificationsOf
    <3>2. x.created >= old.created /\ (x.created = old.created => x.id <= old.id)
      <4>1. /\ x.created \in Nat /\ x.id \in Nat
            /\ old.created \in Nat /\ old.id \in Nat
        BY <2>1, <2>4, <2>5
      <4> QED
        BY <3>1, <4>1, NotBefore
    <3>3. \A s \in VerificationsOf(R, t, a) :
            s.created < old.created \/ (s.created = old.created /\ old.id <= s.id)
      BY <2>3 DEF Held
    <3>4. \A s \in VerificationsOf(R1, t, a) :
            s.created < x.created \/ (s.created = x.created /\ x.id <= s.id)
      <4>1. SUFFICES ASSUME NEW s \in VerificationsOf(R1, t, a), s # x
                     PROVE  s.created < x.created \/ (s.created = x.created /\ x.id <= s.id)
        BY <2>1, <2>4 DEF VerificationsOf
      <4>2. s \in VerificationsOf(R, t, a) /\ s \in R1
        BY <2>1, <4>1 DEF VerificationsOf
      <4>3. s.created < old.created \/ (s.created = old.created /\ old.id <= s.id)
        BY <3>3, <4>2
      <4>4. /\ x.created \in Nat /\ x.id \in Nat
            /\ old.created \in Nat /\ old.id \in Nat
            /\ s.created \in Nat /\ s.id \in Nat
        BY <2>1, <2>4, <2>5, <4>2
      <4> QED
        BY <3>2, <4>3, <4>4, Through
    <3>5. x \in Held(R1, t, a)
      BY <3>1, <3>4 DEF Held
    <3> QED
      BY <2>2, <3>2, <3>5
  <2> QED
    BY <2>6, <2>7
<1>3. \/ store' = store
      \/ \E c \in Clients : Publish(c) /\ \E i \in Ids \ IdsOf(store) :
           store' = store \cup {[draft[c] EXCEPT !.id = i]}
  BY QuerierSteps, Published
  DEF Next, vars, QuietForClients, Contribute, ContributeNext, Open, OpenFails, New, Refuse,
      ContributeFails
<1>4. Readable' = Readable \/ \E x \in Record : Readable' = Readable \cup {x}
  <2>1. CASE store' = store
    BY <2>1 DEF Readable
  <2>2. ASSUME NEW c \in Clients, Publish(c), NEW i \in Ids \ IdsOf(store),
               store' = store \cup {[draft[c] EXCEPT !.id = i]}
        PROVE  Readable' = Readable \/ \E x \in Record : Readable' = Readable \cup {x}
    <3> DEFINE x == [draft[c] EXCEPT !.id = i]
    <3>1. x \in Record
      BY <2>2, NamedRecord DEF Publish, Underway
    <3>2. store' = store \cup {x}
      BY <2>2
    <3> HIDE DEF x
    <3>3. CASE x.crlf
      BY <3>2, <3>3 DEF Readable
    <3>4. CASE ~x.crlf
      <4>1. Readable' = Readable \cup {x}
        BY <3>2, <3>4 DEF Readable
      <4> QED
        BY <3>1, <4>1
    <3> QED
      BY <3>3, <3>4
  <2> QED
    BY <1>3, <2>1, <2>2
<1> QED
  BY <1>1, <1>2, <1>4

(* The verification that counts for an actor and a target is never         *)
(* replaced by an older one.                                               *)
THEOREM VerdictsOnlyAdvance == Spec => VerdictsAdvance
<1>1. ASSUME TypeOK, Underway, [Next]_vars
      PROVE  [\A t \in Ids, a \in ActorsIn(Readable) :
                \A old \in Held(Readable, t, a) : \E new \in Held(Readable, t, a)' :
                  new.created >= old.created]_vars
  BY <1>1, HeldAdvances
<1>2. GraphInv => TypeOK /\ Underway
  BY DEF GraphInv
<1> QED
  BY <1>1, <1>2, Invariance, PTL DEF Spec, VerdictsAdvance

-----------------------------------------------------------------------------
(* What a default parent follows.  A client that has looked its parent up  *)
(* and not yet published goes on following whatever was there when its     *)
(* call began, but for what it could not read.                             *)
Follows(c, on) ==
  \A r \in InWorkflow(began[c], ask[c].workflow) :
    \/ \E s \in store : s.id \in on /\ ~Older(s, r)
    \/ r.crlf
    \/ r \in missed[c] /\ faults > 0

Behind(c) ==
  /\ pc[c] = "idle" => ask[c] = NoRecord
  /\ pc[c] = "new" => Follows(c, ask[c].on)
  /\ pc[c] = "publish" /\ ask[c] # NoRecord => Follows(c, draft[c].parents)

Following == IsFiniteSet(store) /\ \A c \in Clients : Behind(c)

(* Age orders the records strictly.                                        *)
LEMMA OlderIsStrict ==
  ASSUME NEW a \in Record, NEW b \in Record, NEW d \in Record
  PROVE  ~Older(a, a) /\ (Older(a, b) /\ Older(b, d) => Older(a, d))
<1>1. /\ a.created \in Nat /\ b.created \in Nat /\ d.created \in Nat
      /\ a.id \in Nat /\ b.id \in Nat /\ d.id \in Nat
  <2>1. \A r \in Record : r.created \in 0..MaxTime /\ r.id \in Ids \cup {0}
    BY DEF Record
  <2> QED
    BY <2>1, Numbers
<1> QED
  BY <1>1 DEF Older

(* Finitely many records, some: one is older than none.  A smallest set    *)
(* without such a record would lack it still with any one taken away.      *)
LEMMA SomeLatest ==
  ASSUME NEW S \in SUBSET Record, IsFiniteSet(S), S # {}
  PROVE  \E m \in S : \A r \in S : ~Older(m, r)
<1> DEFINE HasLatest(A) == \E m \in A : \A r \in A : ~Older(m, r)
           Without == {A \in FiniteSubsetsOf(S) : A # {} /\ ~HasLatest(A)}
<1>1. SUFFICES ASSUME ~HasLatest(S)
               PROVE  FALSE
  OBVIOUS
<1>2. S \in Without
  BY <1>1 DEF FiniteSubsetsOf
<1>3. PICK A \in Without : \A B \in Without : <<B, A>> \notin StrictSubsetOrdering(S)
  <2>1. Without \subseteq FiniteSubsetsOf(S) /\ Without # {}
    BY <1>2
  <2> HIDE DEF Without
  <2> QED
    BY <2>1, FS_StrictSubsetOrderingWellFounded, WFMin
<1>4. A \subseteq S /\ IsFiniteSet(A) /\ A # {} /\ ~HasLatest(A)
  BY DEF FiniteSubsetsOf
<1>5. PICK x \in A : TRUE
  BY <1>4
<1> DEFINE B == A \ {x}
<1>6. B \subseteq S /\ IsFiniteSet(B) /\ B # A /\ B \subseteq A
  BY <1>4, <1>5, FS_Subset
<1>7. B \notin Without
  BY <1>3, <1>4, <1>6 DEF StrictSubsetOrdering
<1>8. CASE B = {}
  <2>1. A = {x}
    BY <1>5, <1>8
  <2> QED
    BY <1>4, <2>1, OlderIsStrict
<1>9. CASE B # {}
  <2>1. PICK m \in B : \A r \in B : ~Older(m, r)
    BY <1>6, <1>7, <1>9 DEF FiniteSubsetsOf
  <2>2. CASE Older(m, x)
    <3>1. \A r \in A : ~Older(x, r)
      <4>1. ASSUME NEW r \in A, Older(x, r)
            PROVE  FALSE
        <5>1. Older(m, r)
          BY <1>4, <1>6, <2>1, <2>2, <4>1, OlderIsStrict
        <5>2. r = x
          BY <2>1, <5>1
        <5> QED
          BY <1>4, <4>1, <5>2, OlderIsStrict
      <4> QED
        BY <4>1
    <3> QED
      BY <1>4, <1>5, <3>1
  <2>3. CASE ~Older(m, x)
    BY <1>4, <1>6, <2>1, <2>3
  <2> QED
    BY <2>2, <2>3
<1> QED
  BY <1>8, <1>9

(* The parent looked up in a listing follows all that was read of what was *)
(* there when the call began.                                              *)
LEMMA LookedUp ==
  ASSUME TypeOK, IsFiniteSet(store), NEW S \in SUBSET store, NEW w,
         NEW T \in SUBSET S, NEW r \in InWorkflow(T, w)
  PROVE  \E s \in store : s.id \in IdsOf(LatestInWorkflow(S, w)) /\ ~Older(s, r)
<1> DEFINE W == InWorkflow(S, w)
<1>1. W \in SUBSET Record /\ W \subseteq store /\ r \in W
  BY DEF TypeOK, InWorkflow
<1>2. IsFiniteSet(W)
  BY <1>1, FS_Subset
<1> HIDE DEF W
<1>3. PICK m \in W : \A s \in W : ~Older(m, s)
  BY <1>1, <1>2, SomeLatest
<1>4. m \in LatestInWorkflow(S, w)
  BY <1>3 DEF LatestInWorkflow, W
<1> QED
  BY <1>1, <1>3, <1>4 DEF IdsOf

(* A client whose own variables stand still follows what it followed.      *)
LEMMA StillBehind ==
  ASSUME NEW c \in Clients, Behind(c), store \subseteq store',
         faults > 0 => faults' > 0,
         pc'[c] = pc[c], ask'[c] = ask[c], began'[c] = began[c], missed'[c] = missed[c],
         draft'[c] = draft[c]
  PROVE  Behind(c)'
<1>1. ASSUME pc[c] = "new"
      PROVE  Follows(c, ask[c].on)'
  <2>1. Follows(c, ask[c].on)
    BY <1>1 DEF Behind
  <2> QED
    BY <2>1 DEF Follows, InWorkflow
<1>2. ASSUME pc[c] = "publish", ask[c] # NoRecord
      PROVE  Follows(c, draft[c].parents)'
  <2>1. Follows(c, draft[c].parents)
    BY <1>2 DEF Behind
  <2> QED
    BY <2>1 DEF Follows, InWorkflow
<1> QED
  BY <1>1, <1>2 DEF Behind

(* Nothing takes a failure back.                                           *)
LEMMA FaultsStay ==
  ASSUME TypeOK, Underway, [Next]_vars
  PROVE  faults > 0 => faults' > 0
<1>1. faults \in Nat
  BY GraphOK DEF TypeOK
<1>2. faults' = faults \/ faults' = faults + 1
  BY DEF Next, vars, Corrupt, OtherModel, Contribute, ContributeNext, Open, OpenFails, New, Publish,
         Refuse, ContributeFails, Query, Embed, WriteCache, Search, QueryFails, Reads, Fault
<1> QED
  BY <1>1, <1>2

(* A step of a client concerns no other client.                            *)
LEMMA OnlyItself ==
  ASSUME TypeOK, NEW c \in Clients, NEW d \in Clients \ {c},
         \/ \E a \in Asks[c] : Contribute(c, a) \/ ContributeNext(c, a)
         \/ Open(c) \/ OpenFails(c) \/ New(c)
         \/ Publish(c) \/ Refuse(c) \/ ContributeFails(c)
  PROVE  /\ pc'[d] = pc[d] /\ ask'[d] = ask[d] /\ draft'[d] = draft[d]
         /\ began'[d] = began[d] /\ missed'[d] = missed[d]
BY DEF TypeOK, Contribute, ContributeNext, Open, OpenFails, New, Publish, Refuse,
       ContributeFails, Build, Finish, calls

(* A call's own steps keep its record behind what came before the call.    *)
LEMMA BehindItself ==
  ASSUME TypeOK, Underway, Following, NEW c \in Clients,
         \/ \E a \in Asks[c] : Contribute(c, a) \/ ContributeNext(c, a)
         \/ Open(c) \/ OpenFails(c) \/ New(c)
         \/ Publish(c) \/ Refuse(c) \/ ContributeFails(c)
  PROVE  Behind(c)'
<1>1. ASSUME NEW a \in Asks[c], Contribute(c, a)
      PROVE  Behind(c)'
  <2>1. pc'[c] = "publish" /\ ask'[c] = NoRecord
    BY <1>1 DEF Contribute, Asked, Build, Following, Behind, TypeOK
  <2> QED
    BY <2>1 DEF Behind
<1>2. ASSUME NEW a \in Asks[c], ContributeNext(c, a)
      PROVE  Behind(c)'
  <2>1. pc'[c] = "open"
    BY <1>2 DEF ContributeNext, TypeOK
  <2> QED
    BY <2>1 DEF Behind
<1>3. ASSUME Open(c)
      PROVE  Behind(c)'
  <2>1. PICK S \in SUBSET Readable :
          /\ missed' = [missed EXCEPT ![c] = (began[c] \cap Readable) \ S]
          /\ ask' = [ask EXCEPT ![c].on = IdsOf(LatestInWorkflow(S, ask[c].workflow))]
          /\ (began[c] \cap Readable) \ S = {} \/ Fault("read")
    BY <1>3, Looked
  <2>2. ask[c] \in Requests
    BY <1>3 DEF Underway, Open
  <2>3. /\ pc'[c] = "new" /\ UNCHANGED <<store, began>>
        /\ ask'[c].on = IdsOf(LatestInWorkflow(S, ask[c].workflow))
        /\ ask'[c].workflow = ask[c].workflow
        /\ missed'[c] = (began[c] \cap Readable) \ S
    BY <1>3, <2>1, <2>2 DEF Open, TypeOK, Requests
  <2>6. missed'[c] # {} => faults' > 0
    BY <2>1, <2>3, GraphOK DEF Fault, TypeOK
  <2>4. \A r \in InWorkflow(began[c], ask[c].workflow) :
          \/ \E s \in store : s.id \in ask'[c].on /\ ~Older(s, r)
          \/ r.crlf
          \/ r \in missed'[c] /\ faults' > 0
    <3>1. TAKE r \in InWorkflow(began[c], ask[c].workflow)
    <3>2. r \in store /\ r \in began[c]
      BY DEF TypeOK, InWorkflow
    <3>3. CASE r \in S
      <4>1. r \in InWorkflow(S, ask[c].workflow) /\ S \in SUBSET store
        BY <3>3 DEF InWorkflow, Readable
      <4>2. \E s \in store :
              s.id \in IdsOf(LatestInWorkflow(S, ask[c].workflow)) /\ ~Older(s, r)
        BY <4>1, LookedUp DEF Following
      <4> QED
        BY <2>3, <4>2
    <3>4. CASE r \notin S
      BY <2>3, <2>6, <3>2, <3>4 DEF Readable
    <3> QED
      BY <3>3, <3>4
  <2>5. Follows(c, ask[c].on)'
    BY <2>3, <2>4 DEF Follows, InWorkflow
  <2> QED
    BY <2>3, <2>5 DEF Behind
<1>4. ASSUME OpenFails(c)
      PROVE  Behind(c)'
  <2>1. missed'[c] = began'[c] /\ pc'[c] = "new"
    BY <1>4 DEF OpenFails, TypeOK
  <2>2. faults' > 0
    BY <1>4, GraphOK DEF OpenFails, Fault, TypeOK
  <2>3. Follows(c, ask[c].on)'
    BY <2>1, <2>2 DEF Follows, InWorkflow
  <2> QED
    BY <2>1, <2>3 DEF Behind
<1>5. ASSUME New(c)
      PROVE  Behind(c)'
  <2>1. Follows(c, ask[c].on) /\ ask[c] \in Requests
    BY <1>5 DEF New, Following, Behind, Underway
  <2>2. UNCHANGED <<store, ask, began, missed, faults>> /\ Build(c, ask[c], ask[c].on)
    BY <1>5 DEF New, calls
  <2>3. pc'[c] = "publish" /\ draft'[c].parents = ask[c].on
    BY <2>2 DEF Build, Built, TypeOK
  <2>4. Follows(c, draft[c].parents)'
    BY <2>1, <2>2, <2>3 DEF Follows
  <2> QED
    BY <2>3, <2>4 DEF Behind
<1>6. ASSUME Finish(c)
      PROVE  Behind(c)'
  BY <1>6 DEF Finish, TypeOK, Behind
<1> QED
  BY <1>1, <1>2, <1>3, <1>4, <1>5, <1>6 DEF Publish, Refuse, ContributeFails

(* Every step keeps the default parents in order.                          *)
LEMMA FollowingNext ==
  ASSUME TypeOK, Underway, Following, [Next]_vars
  PROVE  Following'
<1>1. faults > 0 => faults' > 0
  BY FaultsStay
<1>2. ASSUME NEW c \in Clients,
             \/ \E a \in Asks[c] : Contribute(c, a) \/ ContributeNext(c, a)
             \/ Open(c) \/ OpenFails(c) \/ New(c)
             \/ Publish(c) \/ Refuse(c) \/ ContributeFails(c)
      PROVE  Following'
  <2>1. \/ store' = store
        \/ \E x : store' = store \cup {x}
    BY <1>2, Published
    DEF Contribute, ContributeNext, Open, OpenFails, New, Refuse, ContributeFails
  <2>2. store \subseteq store' /\ IsFiniteSet(store')
    BY <2>1, FS_AddElement DEF Following
  <2>3. Behind(c)'
    BY <1>2, BehindItself
  <2>4. ASSUME NEW d \in Clients \ {c}
        PROVE  Behind(d)'
    <3>1. /\ pc'[d] = pc[d] /\ ask'[d] = ask[d] /\ draft'[d] = draft[d]
          /\ began'[d] = began[d] /\ missed'[d] = missed[d]
      BY <1>2, OnlyItself
    <3>2. Behind(d)
      BY DEF Following
    <3> QED
      BY <1>1, <2>2, <3>1, <3>2, StillBehind
  <2> QED
    BY <2>2, <2>3, <2>4 DEF Following
<1>3. CASE QuietForClients \/ UNCHANGED vars
  <2>1. UNCHANGED <<store, clients, calls>>
    BY <1>3 DEF QuietForClients, vars
  <2> QED
    BY <1>1, <2>1, StillBehind DEF Following, clients, calls
<1> QED
  BY <1>2, <1>3, QuerierSteps DEF Next

(* A record that takes its default parent follows everything that was      *)
(* published in its workflow before the call and that its look at the      *)
(* directory could read, however many records are published while it looks *)
(* and builds, and whatever the clocks say.                                *)
THEOREM DefaultsFollow == Spec => []Chained
<1>1. Init => Following
  BY FS_EmptySet DEF Init, Following, Behind
<1>2. GraphInv /\ Following /\ [Next]_vars => Following'
  BY FollowingNext DEF GraphInv
<1>3. Following => Chained
  BY DEF Following, Behind, Follows, Chained
<1> QED
  BY <1>1, <1>2, <1>3, Invariance, PTL DEF Spec

=============================================================================
