--------------------------- MODULE Registry_proofs ---------------------------
(***************************************************************************)
(* Theorems about the registry of actors and the making of workflows, for  *)
(* any names, requests, actors, tools and faults.                          *)
(*                                                                         *)
(* OneActor rests on the second look-up: a handle that is registered stays *)
(* until the server ends.  AckedKept rests on the first worker past the    *)
(* check being the only one: what it has made so far is known, and nobody  *)
(* else is there to remove it.  NeverDenied rests on both, and on every    *)
(* message being with the registered actor, whose memory has whatever the  *)
(* server acknowledged, short of a workflow that its load left out.        *)
(***************************************************************************)
EXTENDS Registry, FiniteSetTheorems, SequenceTheorems, TLAPS

Early == {"idle", "enter", "lookup", "exists", "load"}

(* A request under way is about a workflow, and has an actor once it has   *)
(* spawned or found one.                                                   *)
Requests ==
  /\ DOMAIN handles = Names
  /\ DOMAIN pc = Clients /\ DOMAIN ask = Clients /\ DOMAIN has = Clients
  /\ left \in [Clients -> SUBSET Names]
  /\ \A c \in Clients : pc[c] # "idle" => ask[c] \in [kind : Kinds, name : Names]
  /\ \A c \in Clients : pc[c] \in Early => has[c] = None
  /\ \A c \in Clients : pc[c] = "insert" => has[c] \in Actors

Messages ==
  /\ box \in [Actors -> Seq(Message)]
  /\ job \in [Workers -> Message \cup {NoJob}]
  /\ DOMAIN at = Workers
  /\ \A w \in Workers : at[w] \notin {"idle", "over"} => job[w] \in Message

(* What has been made of a workflow when a worker is where it is.          *)
Whole == {"root", "s1", "s2", "link"} \cup TheGate
Made(here) ==
  CASE here = "root" -> {}
    [] here = "first" -> {"root"}
    [] here = "second" -> {"root", "s1"}
    [] OTHER -> {"root", "s1", "s2", "link"}

Past(w, n) == at[w] \notin {"idle", "check", "over"} /\ job[w].name = n
Acked(n) == \E s \in {"server", "tool"} : <<n, s>> \in acked

(* Short of rivals, one worker makes a workflow that nobody has been       *)
(* promised, and a workflow that somebody has been promised is whole.      *)
Undisturbed(n) ==
  /\ \A v, w \in Workers : Past(v, n) /\ Past(w, n) => v = w
  /\ \A w \in Workers : Past(w, n) =>
       ~Acked(n) /\ (at[w] \notin {"cleanup", "wipe"} => disk[n] = Made(at[w]))
  /\ Acked(n) => disk[n] = Whole

Makings ==
  /\ DOMAIN disk = Names
  /\ \A n \in Names : disk[n] # {} => "root" \in disk[n]
  /\ \A n \in Names \ rivals : Undisturbed(n)

RegInv == Requests /\ OneActor /\ Messages /\ Makings

-----------------------------------------------------------------------------
(* There is always an actor that nobody uses: every name and every other   *)
(* request uses one at most.                                               *)
LEMMA SpareActor ==
  ASSUME Requests, NEW c \in Clients, pc[c] = "load"
  PROVE  \E a \in Actors : Unused(a)
<1> DEFINE H == {handles[n] : n \in Names}
           O == Clients \ {c}
           G == {has[d] : d \in O}
           g == [d \in O |-> has[d]]
<1>1. IsFiniteSet(H) /\ Cardinality(H) <= Cardinality(Names)
  <2>1. [n \in Names |-> handles[n]] \in Surjection(Names, H)
    BY DEF Surjection
  <2> QED
    BY <2>1, FS_Surjection, RegistryOK
<1>2. IsFiniteSet(O) /\ Cardinality(O) = Cardinality(Clients) - 1
  BY FS_RemoveElement, RegistryOK
<1>3. IsFiniteSet(G) /\ Cardinality(G) <= Cardinality(O)
  <2>1. g \in Surjection(O, G)
    BY DEF Surjection
  <2> QED
    BY <2>1, <1>2, FS_Surjection
<1>4. /\ Cardinality(Names) \in Nat /\ Cardinality(Clients) \in Nat
      /\ Cardinality(H) \in Nat /\ Cardinality(G) \in Nat
      /\ Cardinality(H \cap G) \in Nat /\ Cardinality(Actors) \in Nat
  <2>1. IsFiniteSet(H \cap G)
    BY <1>1, FS_Subset
  <2> QED
    BY <2>1, <1>1, <1>3, FS_CardinalityType, RegistryOK
<1>5. IsFiniteSet(H \cup G) /\ Cardinality(H \cup G) < Cardinality(Actors)
  <2>1. /\ IsFiniteSet(H \cup G)
        /\ Cardinality(H \cup G) = Cardinality(H) + Cardinality(G) - Cardinality(H \cap G)
    BY <1>1, <1>3, FS_Union
  <2> HIDE DEF H, G, O
  <2> QED
    BY <2>1, <1>1, <1>2, <1>3, <1>4, RegistryOK
<1>6. ~(Actors \subseteq H \cup G)
  <2>1. Cardinality(H \cup G) \in Nat
    BY <1>5, FS_CardinalityType
  <2> HIDE DEF H, G, O
  <2> QED
    BY <2>1, <1>4, <1>5, FS_Subset
<1>7. PICK a \in Actors : a \notin H \cup G
  BY <1>6
<1>8. has[c] # a
  BY <1>7, RegistryOK DEF Requests, Early
<1> QED
  BY <1>7, <1>8 DEF Unused

(* The end of a request.                                                   *)
LEMMA LeaveKeeps ==
  ASSUME Requests, OneActor, NEW c, NEW what, Leave(c, what), handles' = handles
  PROVE  Requests' /\ OneActor'
<1>1. \A d \in Clients : \/ pc'[d] = "idle" /\ has'[d] = None
                         \/ pc'[d] = pc[d] /\ ask'[d] = ask[d] /\ has'[d] = has[d]
  BY DEF Leave, Goto, Requests
<1>2. /\ DOMAIN pc' = Clients /\ DOMAIN ask' = Clients /\ DOMAIN has' = Clients
      /\ left' \in [Clients -> SUBSET Names]
  BY DEF Leave, Goto, Requests
<1>3. Requests'
  BY <1>1, <1>2 DEF Requests, Early
<1> QED
  BY <1>1, <1>3 DEF OneActor

(* An answer ends a request, or lets a listing go on.                      *)
LEMMA ReplyKeeps ==
  ASSUME Requests, OneActor, NEW m, NEW what, Reply(m, what), handles' = handles
  PROVE  Requests' /\ OneActor'
<1>1. \/ UNCHANGED request
      \/ /\ pc[m.from] = "listing" /\ Goto(m.from, "list")
         /\ UNCHANGED <<ask, has, left>>
      \/ Leave(m.from, what)
  BY Zenon DEF Reply
<1>2. CASE UNCHANGED request
  BY <1>2 DEF request, Requests, OneActor, Early
<1>3. CASE /\ pc[m.from] = "listing" /\ Goto(m.from, "list")
           /\ UNCHANGED <<ask, has, left>>
  BY <1>3 DEF Goto, Requests, OneActor, Early
<1>4. CASE Leave(m.from, what)
  BY <1>4, LeaveKeeps
<1> QED
  BY <1>1, <1>2, <1>3, <1>4

(* The steps of a request itself.                                          *)
LEMMA AskKeeps ==
  ASSUME Requests, OneActor, NEW c \in Clients,
         \/ Ask(c) \/ Enter(c) \/ Lookup(c) \/ Exists(c) \/ ExistsFails(c)
          \/ Load(c) \/ LoadFails(c) \/ Insert(c)
         \/ Send(c) \/ BeginList(c) \/ ListSend(c) \/ EndList(c)
  PROVE  Requests' /\ OneActor'
<1>1. CASE Ask(c)
  <2>1. PICK k \in Wants[c], n \in Names : ask' = [ask EXCEPT ![c] = [kind |-> k, name |-> n]]
    BY <1>1 DEF Ask
  <2>2. k \in Kinds
    BY RegistryOK
  <2>3. \E to \in {"lookup", "enter"} : Goto(c, to)
    BY <1>1 DEF Ask
  <2> QED
    BY <1>1, <2>1, <2>2, <2>3 DEF Ask, Goto, registry, Requests, OneActor, Early
<1>2. CASE Enter(c)
  BY <1>2 DEF Enter, Goto, registry, Requests, OneActor, Early
<1>3. CASE Lookup(c)
  <2> DEFINE n == ask[c].name
  <2>1. \E to \in {"send", "load", "exists"} :
          Goto(c, to) /\ (handles[n] # None <=> to = "send")
    <3>1. Goto(c, CASE handles[n] # None -> "send"
                    [] handles[n] = None /\ ask[c].kind = "init" -> "load"
                    [] OTHER -> "exists")
      BY <1>3 DEF Lookup
    <3>2. CASE handles[n] # None
      BY <3>1, <3>2
    <3>3. CASE handles[n] = None /\ ask[c].kind = "init"
      BY <3>1, <3>3
    <3>4. CASE handles[n] = None /\ ask[c].kind # "init"
      BY <3>1, <3>4
    <3> QED
      BY <3>2, <3>3, <3>4
  <2> QED
    BY <1>3, <2>1 DEF Lookup, Goto, registry, Requests, OneActor, Early
<1>4. CASE Exists(c)
  <2>1. CASE Leave(c, "not_found")
    BY <1>4, <2>1, LeaveKeeps DEF Exists, registry
  <2>2. CASE Goto(c, "load") /\ UNCHANGED <<ask, has, left>>
    BY <1>4, <2>2 DEF Exists, Goto, registry, Requests, OneActor, Early
  <2> QED
    BY <1>4, <2>1, <2>2 DEF Exists
<1>5. CASE Load(c)
  <2>1. PICK a \in Actors : has' = [has EXCEPT ![c] = a]
    BY <1>5, SpareActor DEF Load
  <2> QED
    BY <1>5, <2>1 DEF Load, Goto, Requests, OneActor, Early
<1>6. CASE Insert(c)
  <2> DEFINE n == ask[c].name
  <2>1. has[c] \in Actors /\ has[c] # None /\ n \in Names /\ Goto(c, "send")
    BY <1>6, RegistryOK DEF Insert, Requests
  <2>2. CASE handles[n] # None
    BY <1>6, <2>1, <2>2 DEF Insert, Goto, Requests, OneActor, Early
  <2>3. CASE handles[n] = None
    <3>1. handles' = [handles EXCEPT ![n] = has[c]] /\ UNCHANGED <<has, ask, left>>
      BY <1>6, <2>3 DEF Insert
    <3>2. Requests'
      BY <2>1, <3>1 DEF Goto, Requests, Early
    <3>3. ASSUME NEW d \in Clients, pc'[d] \in {"send", "wait"}
          PROVE  has'[d] # None /\ has'[d] = handles'[ask'[d].name]
      <4>1. CASE d = c
        BY <4>1, <2>1, <3>1 DEF Requests
      <4>2. CASE d # c
        <5>1. pc[d] \in {"send", "wait"}
          BY <4>2, <3>3, <2>1 DEF Goto, Requests
        <5>2. has[d] # None /\ has[d] = handles[ask[d].name]
          BY <5>1 DEF OneActor
        <5>3. ask[d].name # n
          BY <5>2, <2>3
        <5> QED
          BY <5>2, <5>3, <3>1 DEF Requests
      <4> QED
        BY <4>1, <4>2
    <3> QED
      BY <3>2, <3>3 DEF OneActor
  <2> QED
    BY <2>2, <2>3
<1>7. CASE Send(c)
  BY <1>7 DEF Send, Goto, registry, Requests, OneActor, Early
<1>8. CASE BeginList(c)
  BY <1>8 DEF BeginList, Goto, Requests, OneActor, Early
<1>9. CASE ListSend(c)
  BY <1>9 DEF ListSend, Goto, registry, Requests, OneActor, Early
<1>10. CASE EndList(c)
  BY <1>10, LeaveKeeps DEF EndList
<1>11. CASE ExistsFails(c) \/ LoadFails(c)
  BY <1>11, LeaveKeeps DEF ExistsFails, LoadFails, registry
<1> QED
  BY <1>1, <1>2, <1>3, <1>4, <1>5, <1>6, <1>7, <1>8, <1>9, <1>10, <1>11

-----------------------------------------------------------------------------
(* Messages: what is taken and posted.                                     *)
LEMMA TakeKeeps ==
  ASSUME Messages, NEW a \in Actors, NEW kinds, Take(a, kinds)
  PROVE  Head(box[a]) \in Message /\ box' \in [Actors -> Seq(Message)]
BY HeadTailProperties DEF Messages, Take

(* A message for an actor that was found is well formed.                   *)
LEMMA PostKeeps ==
  ASSUME Messages, NEW a, NEW m \in Message, Post(a, m)
  PROVE  box' \in [Actors -> Seq(Message)]
<1>1. CASE a \in Actors
  BY <1>1, AppendProperties DEF Messages, Post
<1>2. CASE a \notin Actors
  BY <1>2 DEF Messages, Post
<1> QED
  BY <1>1, <1>2

(* The steps of a request leave the workers alone.                         *)
LEMMA AskMessages ==
  ASSUME RegInv, NEW c \in Clients,
         \/ Ask(c) \/ Enter(c) \/ Lookup(c) \/ Exists(c) \/ ExistsFails(c)
          \/ Load(c) \/ LoadFails(c) \/ Insert(c)
         \/ Send(c) \/ BeginList(c) \/ ListSend(c) \/ EndList(c)
  PROVE  Messages' /\ UNCHANGED <<disk, at, job, acked, rivals>>
<1>1. UNCHANGED <<disk, at, job, acked, rivals>>
  BY DEF Ask, Enter, Lookup, Exists, ExistsFails, Load, LoadFails, Insert, Send, BeginList, ListSend, EndList, making
<1>2. box' \in [Actors -> Seq(Message)]
  <2>1. CASE Send(c)
    <3>1. [kind |-> ask[c].kind, name |-> ask[c].name, from |-> c] \in Message
      BY <2>1 DEF Send, RegInv, Requests, Message
    <3> QED
      BY <2>1, <3>1, PostKeeps DEF Send, RegInv
  <2>2. CASE ListSend(c)
    <3>1. PICK n \in left[c] : Post(handles[n], [kind |-> "get", name |-> n, from |-> c])
      BY <2>2 DEF ListSend
    <3>2. n \in Names
      BY DEF RegInv, Requests
    <3>3. [kind |-> "get", name |-> n, from |-> c] \in Message
      BY <3>2 DEF Message, Kinds
    <3> QED
      BY <3>1, <3>2, <3>3, PostKeeps DEF RegInv
  <2>3. CASE box' = box
    BY <2>3 DEF RegInv, Messages
  <2> QED
    BY <2>1, <2>2, <2>3 DEF Ask, Enter, Lookup, Exists, ExistsFails, Load, LoadFails, Insert, BeginList, EndList
<1> QED
  BY <1>1, <1>2 DEF RegInv, Messages

-----------------------------------------------------------------------------
(* A step that writes no directory and lets nobody past the check.         *)
LEMMA NoNewMaker ==
  ASSUME Makings, UNCHANGED <<disk, acked>>, rivals \subseteq rivals',
         \A w \in Workers : \A n \in Names : Past(w, n)' =>
           Past(w, n) /\ at'[w] \in {at[w], "cleanup"}
  PROVE  Makings'
<1>1. ASSUME NEW n \in Names \ rivals' PROVE Undisturbed(n)'
  <2>1. Undisturbed(n)
    BY DEF Makings
  <2>2. \A v, w \in Workers : Past(v, n)' /\ Past(w, n)' => v = w
    BY <2>1 DEF Undisturbed
  <2>3. Acked(n)' = Acked(n)
    BY DEF Acked
  <2>4. ASSUME NEW w \in Workers, Past(w, n)'
        PROVE  ~Acked(n)' /\ (at'[w] \notin {"cleanup", "wipe"} => disk'[n] = Made(at[w])')
    BY <2>1, <2>3, <2>4 DEF Undisturbed
  <2> QED
    BY <2>1, <2>2, <2>3, <2>4 DEF Undisturbed
<1> QED
  BY <1>1 DEF Makings

(* The actor takes a message that it answers at once.                      *)
LEMMA AnswerKeeps ==
  ASSUME RegInv, NEW a \in Actors, Get(a) \/ Run(a) \/ Reload(a) \/ ReloadFails(a)
  PROVE  RegInv'
<1>1. UNCHANGED <<handles, disk, at, job, acked, rivals>>
  BY DEF Get, Run, Reload, ReloadFails, registry, making
<1>2. box' \in [Actors -> Seq(Message)]
  BY TakeKeeps DEF RegInv, Get, Run, Reload, ReloadFails
<1>3. \E m, what : Reply(m, what)
  BY DEF Get, Run, Reload, ReloadFails
<1>4. Requests' /\ OneActor'
  BY <1>1, <1>3, ReplyKeeps DEF RegInv
<1>5. Makings'
  BY <1>1, NoNewMaker DEF RegInv, Past
<1> QED
  BY <1>1, <1>2, <1>4, <1>5 DEF RegInv, Messages

(* An actor that takes an init stands before the check.                    *)
LEMMA TakeInitKeeps ==
  ASSUME RegInv, NEW a \in Actors, TakeInit(a)
  PROVE  RegInv'
<1>1. UNCHANGED <<handles, request, disk, acked, rivals>>
  BY DEF TakeInit, registry
<1>2. Head(box[a]) \in Message /\ box' \in [Actors -> Seq(Message)]
  BY TakeKeeps DEF RegInv, TakeInit
<1>3. a \in Workers /\ at' = [at EXCEPT ![a] = "check"] /\ job' = [job EXCEPT ![a] = Head(box[a])]
  BY DEF TakeInit, Workers
<1>4. Messages'
  BY <1>2, <1>3 DEF RegInv, Messages
<1>5. Makings'
  BY <1>1, <1>3, NoNewMaker DEF RegInv, Messages, Past
<1> QED
  BY <1>1, <1>4, <1>5 DEF RegInv, request, Requests, OneActor

(* A tool that is started stands before the check, and its message is      *)
(* well formed.                                                            *)
LEMMA InvokeKeeps ==
  ASSUME RegInv, NEW x \in Tools, Invoke(x)
  PROVE  RegInv'
<1>1. UNCHANGED <<handles, request, box, disk, acked, rivals>>
  BY DEF Invoke, registry
<1>2. PICK k \in Inits, n \in Names :
        job' = [job EXCEPT ![x] = [kind |-> k, name |-> n, from |-> None]]
  BY DEF Invoke
<1>3. x \in Workers /\ at' = [at EXCEPT ![x] = "check"]
  BY DEF Invoke, Workers
<1>4. Messages'
  BY <1>1, <1>2, <1>3 DEF RegInv, Messages, Message, Kinds
<1>5. Makings'
  BY <1>1, <1>2, <1>3, NoNewMaker DEF RegInv, Messages, Past
<1> QED
  BY <1>1, <1>4, <1>5 DEF RegInv, request, Requests, OneActor

(* A message without its sender is the same message.                       *)
LEMMA OrphanKeeps ==
  ASSUME NEW m \in Message \cup {NoJob}, NEW c
  PROVE  /\ Orphan(m, c) \in Message \cup {NoJob}
         /\ m \in Message => Orphan(m, c) \in Message
         /\ Orphan(m, c).name = m.name
BY DEF Orphan, Message, NoJob

(* A lost connection leaves the reply to nobody.                           *)
LEMMA DisconnectKeeps ==
  ASSUME RegInv, NEW c \in Clients, Disconnect(c)
  PROVE  RegInv'
<1>1. /\ UNCHANGED <<handles, disk, at, acked, rivals>> /\ Leave(c, "gone")
      /\ box' = [a \in Actors |-> [i \in DOMAIN box[a] |-> Orphan(box[a][i], c)]]
      /\ job' = [w \in Workers |-> Orphan(job[w], c)]
  BY DEF Disconnect
<1>2. Requests' /\ OneActor'
  BY <1>1, LeaveKeeps DEF RegInv
<1>3. ASSUME NEW a \in Actors PROVE [i \in DOMAIN box[a] |-> Orphan(box[a][i], c)] \in Seq(Message)
  <2>1. PICK n \in Nat : box[a] \in [1..n -> Message]
    BY SeqDef DEF RegInv, Messages
  <2>2. [i \in DOMAIN box[a] |-> Orphan(box[a][i], c)] \in [1..n -> Message]
    BY <2>1, OrphanKeeps
  <2> QED
    BY <2>2, SeqDef
<1>4. job' \in [Workers -> Message \cup {NoJob}] /\ \A w \in Workers : job'[w].name = job[w].name
  BY <1>1, OrphanKeeps DEF RegInv, Messages
<1>5. Messages'
  BY <1>1, <1>3, <1>4, OrphanKeeps DEF RegInv, Messages
<1>6. Makings'
  BY <1>1, <1>4, NoNewMaker DEF RegInv, Past
<1> QED
  BY <1>2, <1>5, <1>6 DEF RegInv

(* A server that starts again has no requests, and one actor for each      *)
(* workflow it can load.                                                   *)
LEMMA RestartKeeps ==
  ASSUME RegInv, Restart
  PROVE  RegInv'
<1>1. /\ DOMAIN handles' = Names
      /\ pc' = [c \in Clients |-> "idle"]
      /\ ask' = [c \in Clients |-> NoAsk]
      /\ has' = [c \in Clients |-> None]
      /\ left' = [c \in Clients |-> {}]
      /\ box' = [a \in Actors |-> <<>>]
      /\ at' = [w \in Workers |-> IF w \in Actors THEN "idle" ELSE at[w]]
      /\ job' = [w \in Workers |-> IF w \in Actors THEN NoJob ELSE job[w]]
      /\ UNCHANGED <<disk, acked, rivals>>
  BY DEF Restart
<1>2. Requests' /\ OneActor'
  BY <1>1 DEF Requests, OneActor
<1>3. Messages'
  BY <1>1, EmptySeq DEF RegInv, Messages
<1>4. Makings'
  BY <1>1, NoNewMaker DEF RegInv, Past
<1> QED
  BY <1>2, <1>3, <1>4 DEF RegInv

-----------------------------------------------------------------------------
(* A worker ends: its client has its answer.                               *)
LEMMA EndKeeps ==
  ASSUME RegInv, NEW w \in Workers, NEW what, End(w, what), UNCHANGED <<handles, box>>
  PROVE  /\ Requests' /\ OneActor' /\ Messages'
         /\ \A n \in Names : ~Past(w, n)'
         /\ \A v \in Workers, n \in Names : v # w => Past(v, n)' = Past(v, n) /\ at'[v] = at[v]
<1>1. Requests' /\ OneActor'
  BY ReplyKeeps DEF End, RegInv
<1>2. \E to \in {"idle", "over"} : at' = [at EXCEPT ![w] = to]
  BY DEF End, Go
<1>3. job' = [job EXCEPT ![w] = NoJob]
  BY DEF End
<1>4. Messages'
  BY <1>2, <1>3 DEF RegInv, Messages
<1>5. \A v \in Workers, n \in Names : v # w => Past(v, n)' = Past(v, n) /\ at'[v] = at[v]
  BY <1>2, <1>3 DEF RegInv, Messages, Past
<1> QED
  BY <1>1, <1>2, <1>4, <1>5 DEF RegInv, Messages, Past

(* A worker goes on to its next step.                                      *)
LEMMA GoKeeps ==
  ASSUME RegInv, NEW w \in Workers, at[w] \notin {"idle", "over"}, NEW to, Go(w, to),
         UNCHANGED <<handles, request, box, job>>
  PROVE  /\ Requests' /\ OneActor' /\ Messages' /\ at'[w] = to
         /\ \A v \in Workers, n \in Names : v # w => Past(v, n)' = Past(v, n) /\ at'[v] = at[v]
BY DEF Go, RegInv, Messages, Past, request, Requests, OneActor

(* A worker writes its own directory: nobody else makes that workflow,     *)
(* short of rivals.                                                        *)
LEMMA WriteKeeps ==
  ASSUME Makings, DOMAIN at = Workers, NEW w \in Workers, NEW m \in Names, Past(w, m),
         NEW d, disk' = [disk EXCEPT ![m] = d], d # {} => "root" \in d,
         UNCHANGED <<acked, rivals>>,
         \A v \in Workers, n \in Names : v # w => Past(v, n)' = Past(v, n) /\ at'[v] = at[v],
         \A n \in Names : Past(w, n)' => n = m,
         m \notin rivals /\ Past(w, m)' /\ at'[w] \notin {"cleanup", "wipe"} => d = Made(at'[w])
  PROVE  Makings'
<1>1. ASSUME NEW n \in Names \ rivals' PROVE Undisturbed(n)'
  <2>1. Undisturbed(n) /\ Acked(n)' = Acked(n)
    BY DEF Makings, Acked
  <2>2. CASE n = m
    <3>1. \A v \in Workers : Past(v, n)' => v = w
      BY <2>1, <2>2 DEF Undisturbed
    <3>2. ~Acked(n)'
      BY <2>1, <2>2 DEF Undisturbed
    <3>3. Past(w, n)' /\ at'[w] \notin {"cleanup", "wipe"} => disk'[n] = Made(at'[w])
      BY <2>2 DEF Makings
    <3>4. Past(w, n)' /\ at'[w] \notin {"cleanup", "wipe"} => disk'[n] = Made(at[w])'
      BY <3>3 DEF Made
    <3> QED
      BY <3>1, <3>2, <3>4 DEF Undisturbed
  <2>3. CASE n # m
    <3>1. disk'[n] = disk[n] /\ ~Past(w, n)'
      BY <2>3 DEF Makings
    <3>2. \A v \in Workers : Past(v, n)' => Past(v, n) /\ at'[v] = at[v]
      BY <3>1
    <3>3. \A v \in Workers : Past(v, n)' /\ at'[v] \notin {"cleanup", "wipe"} => disk'[n] = Made(at[v])'
      BY <2>1, <3>1, <3>2 DEF Undisturbed, Made
    <3> QED
      BY <2>1, <3>1, <3>2, <3>3 DEF Undisturbed
  <2> QED
    BY <2>2, <2>3
<1>2. DOMAIN disk' = Names /\ \A n \in Names : disk'[n] # {} => "root" \in disk'[n]
  BY DEF Makings
<1> QED
  BY <1>1, <1>2 DEF Makings

(* The check lets a worker in where nothing is.                            *)
LEMMA CheckKeeps ==
  ASSUME RegInv, NEW w \in Workers, Check(w)
  PROVE  RegInv'
<1> DEFINE m == job[w].name
<1>1. /\ at[w] = "check" /\ UNCHANGED <<handles, disk, box, acked, request, job>>
      /\ Meet(w) /\ rivals \subseteq rivals' /\ "root" \notin disk[m] /\ Go(w, "root")
  BY DEF Check, registry, Meet, Dir
<1>2. /\ Requests' /\ OneActor' /\ Messages' /\ at'[w] = "root"
      /\ \A v \in Workers, n \in Names : v # w => Past(v, n)' = Past(v, n) /\ at'[v] = at[v]
  BY <1>1, GoKeeps
<1>3. ASSUME NEW n \in Names \ rivals' PROVE Undisturbed(n)'
  <2>1. Undisturbed(n) /\ Acked(n)' = Acked(n)
    BY <1>1 DEF RegInv, Makings, Acked
  <2>2. CASE n = m
    <3>1. \A v \in Workers : v # w => ~Past(v, n)
      BY <1>1, <2>2 DEF Meet, Past
    <3>2. disk[n] = {} /\ ~Acked(n)
      BY <1>1, <2>1, <2>2 DEF RegInv, Makings, Undisturbed, Whole
    <3>3. Made(at[w])' = {}
      BY <1>2 DEF Made
    <3> QED
      BY <1>1, <1>2, <2>1, <3>1, <3>2, <3>3 DEF Undisturbed
  <2>3. CASE n # m
    <3>1. ~Past(w, n)'
      BY <1>1, <2>3 DEF Past
    <3>2. \A v \in Workers : Past(v, n)' => Past(v, n) /\ at'[v] = at[v]
      BY <1>2, <3>1
    <3>3. \A v \in Workers : Past(v, n)' /\ at'[v] \notin {"cleanup", "wipe"} => disk'[n] = Made(at[v])'
      BY <1>1, <2>1, <3>2 DEF Undisturbed, Made
    <3> QED
      BY <1>1, <2>1, <3>2, <3>3 DEF Undisturbed
  <2> QED
    BY <2>2, <2>3
<1> QED
  BY <1>1, <1>2, <1>3 DEF RegInv, Makings

(* Where something is an init ends.                                        *)
LEMMA RefuseKeeps ==
  ASSUME RegInv, NEW w \in Workers, Refuse(w)
  PROVE  RegInv'
<1>1. UNCHANGED <<handles, disk, box, acked, rivals>> /\ End(w, "exists")
  BY DEF Refuse, registry
<1>2. /\ Requests' /\ OneActor' /\ Messages'
      /\ \A v \in Workers : \A n \in Names : Past(v, n)' => Past(v, n) /\ at'[v] = at[v]
  BY <1>1, EndKeeps
<1> QED
  BY <1>1, <1>2, NoNewMaker DEF RegInv

(* A forced init takes the promise back before it removes anything.        *)
LEMMA ReplaceKeeps ==
  ASSUME RegInv, NEW w \in Workers, Replace(w)
  PROVE  RegInv'
<1> DEFINE m == job[w].name
<1>1. /\ at[w] = "check" /\ UNCHANGED <<handles, disk, box, request, job>>
      /\ Meet(w) /\ rivals \subseteq rivals' /\ Go(w, "wipe")
      /\ acked' = {k \in acked : k[1] # m}
  BY DEF Replace, registry, Meet
<1>2. /\ Requests' /\ OneActor' /\ Messages' /\ at'[w] = "wipe"
      /\ \A v \in Workers, n \in Names : v # w => Past(v, n)' = Past(v, n) /\ at'[v] = at[v]
  BY <1>1, GoKeeps
<1>3. ASSUME NEW n \in Names \ rivals' PROVE Undisturbed(n)'
  <2>1. Undisturbed(n) /\ (Acked(n)' => Acked(n) /\ n # m)
    BY <1>1 DEF RegInv, Makings, Acked
  <2>2. CASE n = m
    <3>1. \A v \in Workers : v # w => ~Past(v, n)
      BY <1>1, <2>2 DEF Meet, Past
    <3> QED
      BY <1>2, <2>1, <2>2, <3>1 DEF Undisturbed
  <2>3. CASE n # m
    <3>1. ~Past(w, n)'
      BY <1>1, <2>3 DEF Past
    <3>2. \A v \in Workers : Past(v, n)' => Past(v, n) /\ at'[v] = at[v]
      BY <1>2, <3>1
    <3>3. \A v \in Workers : Past(v, n)' /\ at'[v] \notin {"cleanup", "wipe"} => disk'[n] = Made(at[v])'
      BY <1>1, <2>1, <3>2 DEF Undisturbed, Made
    <3> QED
      BY <1>1, <2>1, <3>2, <3>3 DEF Undisturbed
  <2> QED
    BY <2>2, <2>3
<1> QED
  BY <1>1, <1>2, <1>3 DEF RegInv, Makings

(* What it removes nobody is promised.                                     *)
LEMMA WipeKeeps ==
  ASSUME RegInv, NEW w \in Workers, Wipe(w) \/ WipeFails(w)
  PROVE  RegInv'
<1> DEFINE m == job[w].name
<1>1. at[w] = "wipe" /\ UNCHANGED <<handles, box, acked, rivals>>
  BY DEF Wipe, WipeFails, registry
<1>2. m \in Names /\ Past(w, m)
  BY <1>1 DEF RegInv, Messages, Message, Past
<1>3. CASE UNCHANGED disk /\ End(w, "error")
  <2>1. /\ Requests' /\ OneActor' /\ Messages'
        /\ \A v \in Workers : \A n \in Names : Past(v, n)' => Past(v, n) /\ at'[v] = at[v]
    BY <1>1, <1>3, EndKeeps
  <2> QED
    BY <1>1, <1>3, <2>1, NoNewMaker DEF RegInv
<1>4. CASE Put(w, {}) /\ Go(w, "root") /\ UNCHANGED <<request, job>>
  <2>1. /\ Requests' /\ OneActor' /\ Messages' /\ at'[w] = "root"
        /\ \A v \in Workers, n \in Names : v # w => Past(v, n)' = Past(v, n) /\ at'[v] = at[v]
    BY <1>1, <1>4, GoKeeps
  <2>2. \A n \in Names : Past(w, n)' => n = m
    BY <1>4 DEF Past
  <2>3. Made(at'[w]) = {}
    BY <2>1 DEF Made
  <2>4. Makings'
    BY <1>1, <1>2, <1>4, <2>1, <2>2, <2>3, WriteKeeps DEF RegInv, Messages, Put
  <2> QED
    BY <2>1, <2>4 DEF RegInv
<1>5. CASE WipeFails(w)
  <2>1. PICK d \in SUBSET Dir(w) : "root" \in d /\ Put(w, d)
    BY <1>5 DEF WipeFails
  <2>2. /\ Requests' /\ OneActor' /\ Messages'
        /\ \A n \in Names : ~Past(w, n)'
        /\ \A v \in Workers, n \in Names : v # w => Past(v, n)' = Past(v, n) /\ at'[v] = at[v]
    BY <1>1, <1>5, EndKeeps DEF WipeFails
  <2>3. Makings'
    BY <1>1, <1>2, <2>1, <2>2, WriteKeeps DEF RegInv, Messages, Put
  <2> QED
    BY <2>2, <2>3 DEF RegInv
<1> QED
  BY <1>3, <1>4, <1>5 DEF Wipe

(* The steps of the making that go on.                                     *)
LEMMA MakeKeeps ==
  ASSUME RegInv, NEW w \in Workers, NEW here, NEW to, at[w] = here,
         here \in Making \ {"check", "wipe", "cleanup"}, Go(w, to), to \in Making \ {"check"},
         NEW d, Put(w, d), d # {} => "root" \in d,
         UNCHANGED <<handles, request, box, job, acked, rivals>>,
         job[w].name \notin rivals /\ to # "cleanup" /\ Dir(w) = Made(here) => d = Made(to)
  PROVE  RegInv'
<1> DEFINE m == job[w].name
<1>1. m \in Names /\ Past(w, m)
  BY DEF RegInv, Messages, Message, Past, Making
<1>2. /\ Requests' /\ OneActor' /\ Messages' /\ at'[w] = to
      /\ \A v \in Workers, n \in Names : v # w => Past(v, n)' = Past(v, n) /\ at'[v] = at[v]
  BY GoKeeps DEF Making
<1>3. \A n \in Names : Past(w, n)' => n = m
  BY DEF Past
<1>4. ASSUME m \notin rivals, to # "cleanup" PROVE d = Made(to)
  <2>1. disk[m] = Made(here)
    BY <1>1, <1>4 DEF RegInv, Makings, Undisturbed
  <2> QED
    BY <1>4, <2>1 DEF Dir
<1>5. Makings'
  BY <1>1, <1>2, <1>3, <1>4, WriteKeeps DEF RegInv, Messages, Put
<1> QED
  BY <1>2, <1>5 DEF RegInv

(* The same for the steps by name.                                         *)
LEMMA StepsKeep ==
  ASSUME RegInv, NEW w \in Workers,
         \/ MakeRoot(w) \/ MakeFirst(w) \/ MakeSecond(w) \/ Context(w)
  PROVE  RegInv'
<1>1. CASE MakeRoot(w)
  <2>1. /\ at[w] = "root" /\ Go(w, "first") /\ Put(w, Dir(w) \cup {"root"} \cup {})
        /\ UNCHANGED <<handles, request, box, job, acked, rivals>>
    BY <1>1 DEF MakeRoot, MakeDir, registry
  <2>2. Dir(w) = Made("root") => Dir(w) \cup {"root"} \cup {} = Made("first")
    BY DEF Made
  <2> QED
    BY <2>1, <2>2, MakeKeeps DEF Making
<1>2. CASE MakeFirst(w)
  <2>1. /\ at[w] = "first" /\ Go(w, "second") /\ Put(w, Dir(w) \cup {"root"} \cup {"s1"})
        /\ UNCHANGED <<handles, request, box, job, acked, rivals>>
    BY <1>2 DEF MakeFirst, MakeDir, registry
  <2>2. Dir(w) = Made("first") => Dir(w) \cup {"root"} \cup {"s1"} = Made("second")
    BY DEF Made
  <2> QED
    BY <2>1, <2>2, MakeKeeps DEF Making
<1>3. CASE MakeSecond(w)
  <2>1. /\ at[w] = "second" /\ Put(w, Dir(w) \cup {"root", "s2", "link"})
        /\ UNCHANGED <<handles, request, box, job, acked, rivals>>
    BY <1>3 DEF MakeSecond, registry
  <2>2. PICK to \in {"cleanup", "context"} : Go(w, to)
    BY <1>3 DEF MakeSecond
  <2>3. Dir(w) = Made("second") => Dir(w) \cup {"root", "s2", "link"} = Made("context")
    BY DEF Made
  <2> QED
    BY <2>1, <2>2, <2>3, MakeKeeps DEF Making
<1>4. CASE Context(w)
  <2>1. at[w] = "context" /\ UNCHANGED <<handles, request, box, job, acked, rivals>>
    BY <1>4 DEF Context, registry
  <2>2. CASE "s2" \in Dir(w)
    <3>1. Put(w, Dir(w) \ {"gate"}) /\ Go(w, "gate")
      BY <1>4, <2>2 DEF Context
    <3>2. "root" \in Dir(w) \ {"gate"}
      BY <2>1, <2>2 DEF Dir, RegInv, Makings, Messages, Message
    <3>3. Dir(w) = Made("context") => Dir(w) \ {"gate"} = Made("gate")
      BY DEF Made
    <3> QED
      BY <2>1, <3>1, <3>2, <3>3, MakeKeeps DEF Making
  <2>3. CASE "s2" \notin Dir(w)
    <3>1. UNCHANGED disk /\ Go(w, "cleanup")
      BY <1>4, <2>3 DEF Context
    <3>2. Requests' /\ OneActor' /\ Messages'
      BY <2>1, <3>1, GoKeeps
    <3>3. \A v \in Workers : \A n \in Names : Past(v, n)' =>
            Past(v, n) /\ at'[v] \in {at[v], "cleanup"}
      BY <2>1, <3>1 DEF Past, Go, RegInv, Messages
    <3> QED
      BY <2>1, <3>1, <3>2, <3>3, NoNewMaker DEF RegInv
  <2> QED
    BY <2>2, <2>3
<1> QED
  BY <1>1, <1>2, <1>3, <1>4

(* The gates are written last; then the making may be acknowledged.        *)
LEMMA GateKeeps ==
  ASSUME RegInv, NEW w \in Workers, Gate(w)
  PROVE  RegInv'
<1> DEFINE m == job[w].name
<1>1. /\ at[w] = "gate" /\ UNCHANGED <<handles, box, rivals>>
      /\ \E what : End(w, what)
  BY DEF Gate, Finish, registry
<1>2. m \in Names /\ Past(w, m)
  BY <1>1 DEF RegInv, Messages, Message, Past
<1>3. /\ Requests' /\ OneActor' /\ Messages'
      /\ \A n \in Names : ~Past(w, n)'
      /\ \A v \in Workers, n \in Names : v # w => Past(v, n)' = Past(v, n) /\ at'[v] = at[v]
  BY <1>1, EndKeeps
<1>4. CASE "s2" \in Dir(w)
  <2>1. /\ disk' = [disk EXCEPT ![m] = @ \cup TheGate]
        /\ acked' \in {acked, acked \cup {<<m, Side(w)>>}}
    BY <1>4 DEF Gate, Put, Dir, Finish
  <2>2. ASSUME NEW n \in Names \ rivals' PROVE Undisturbed(n)'
    <3>1. Undisturbed(n)
      BY <1>1 DEF RegInv, Makings
    <3>2. CASE n = m
      <4>1. \A v \in Workers : ~Past(v, n)'
        BY <1>2, <1>3, <3>1, <3>2 DEF Undisturbed
      <4>2. disk'[n] = Whole
        BY <1>1, <1>2, <2>1, <3>1, <3>2 DEF Undisturbed, Made, Whole, RegInv, Makings
      <4> QED
        BY <4>1, <4>2 DEF Undisturbed
    <3>3. CASE n # m
      <4>1. disk'[n] = disk[n] /\ Acked(n)' = Acked(n)
        BY <2>1, <3>3 DEF RegInv, Makings, Acked
      <4>2. \A v \in Workers : Past(v, n)' => Past(v, n) /\ at'[v] = at[v]
        BY <1>3
      <4>3. \A v \in Workers : Past(v, n)' /\ at'[v] \notin {"cleanup", "wipe"} => disk'[n] = Made(at[v])'
        BY <3>1, <4>1, <4>2 DEF Undisturbed, Made
      <4> QED
        BY <3>1, <4>1, <4>2, <4>3 DEF Undisturbed
    <3> QED
      BY <3>2, <3>3
  <2>3. DOMAIN disk' = Names /\ \A n \in Names : disk'[n] # {} => "root" \in disk'[n]
    BY <1>4, <2>1 DEF RegInv, Makings, Dir
  <2> QED
    BY <1>3, <2>2, <2>3 DEF RegInv, Makings
<1>5. CASE "s2" \notin Dir(w)
  <2>1. UNCHANGED <<disk, acked>>
    BY <1>5 DEF Gate
  <2>2. \A v \in Workers : \A n \in Names : Past(v, n)' => Past(v, n) /\ at'[v] = at[v]
    BY <1>3
  <2> QED
    BY <1>1, <1>3, <2>1, <2>2, NoNewMaker DEF RegInv
<1> QED
  BY <1>4, <1>5

(* The directory that is removed is one that nobody has been promised.     *)
LEMMA CleanupKeeps ==
  ASSUME RegInv, NEW w \in Workers, Cleanup(w)
  PROVE  RegInv'
<1> DEFINE m == job[w].name
<1>1. /\ at[w] = "cleanup" /\ UNCHANGED <<handles, box, acked, rivals>>
      /\ disk' = [disk EXCEPT ![m] = {}] /\ End(w, "error")
  BY DEF Cleanup, registry, Put
<1>2. m \in Names /\ Past(w, m)
  BY <1>1 DEF RegInv, Messages, Message, Past
<1>3. /\ Requests' /\ OneActor' /\ Messages'
      /\ \A n \in Names : ~Past(w, n)'
      /\ \A v \in Workers, n \in Names : v # w => Past(v, n)' = Past(v, n) /\ at'[v] = at[v]
  BY <1>1, EndKeeps
<1>4. Makings'
  BY <1>1, <1>2, <1>3, WriteKeeps DEF RegInv, Messages
<1> QED
  BY <1>3, <1>4 DEF RegInv

(* A making that fails is cleaned up, or ends before it has made anything  *)
(* or after its last part.                                                 *)
LEMMA InitFailsKeeps ==
  ASSUME RegInv, NEW w \in Workers, InitFails(w)
  PROVE  RegInv'
<1>1. at[w] \in Making /\ UNCHANGED <<handles, disk, box, acked, rivals>>
  BY DEF InitFails, registry
<1>2. CASE End(w, "error")
  <2>1. /\ Requests' /\ OneActor' /\ Messages'
        /\ \A v \in Workers : \A n \in Names : Past(v, n)' => Past(v, n) /\ at'[v] = at[v]
    BY <1>1, <1>2, EndKeeps
  <2> QED
    BY <1>1, <2>1, NoNewMaker DEF RegInv
<1>3. CASE at[w] # "check" /\ Go(w, "cleanup") /\ UNCHANGED <<request, job>>
  <2>1. Requests' /\ OneActor' /\ Messages'
    BY <1>1, <1>3, GoKeeps DEF Making
  <2>2. \A v \in Workers : \A n \in Names : Past(v, n)' =>
          Past(v, n) /\ at'[v] \in {at[v], "cleanup"}
    BY <1>1, <1>3 DEF Past, Go, RegInv, Messages, Making
  <2> QED
    BY <1>1, <2>1, <2>2, NoNewMaker DEF RegInv
<1> QED
  BY <1>2, <1>3 DEF InitFails

-----------------------------------------------------------------------------
(* Before the first request nothing is there.                              *)
LEMMA RegInit == Init => RegInv
<1> SUFFICES ASSUME Init PROVE RegInv
  OBVIOUS
<1>1. Requests /\ OneActor
  BY DEF Init, Requests, OneActor
<1>2. Messages
  BY EmptySeq DEF Init, Messages
<1>3. Makings
  BY DEF Init, Makings, Undisturbed, Past, Acked
<1> QED
  BY <1>1, <1>2, <1>3 DEF RegInv

(* The invariant is inductive.                                             *)
LEMMA RegNext == RegInv /\ [Next]_vars => RegInv'
<1> SUFFICES ASSUME RegInv, [Next]_vars PROVE RegInv'
  OBVIOUS
<1>1. ASSUME NEW c \in Clients,
             \/ Ask(c) \/ Enter(c) \/ Lookup(c) \/ Exists(c) \/ ExistsFails(c)
          \/ Load(c) \/ LoadFails(c) \/ Insert(c)
             \/ Send(c) \/ BeginList(c) \/ ListSend(c) \/ EndList(c)
      PROVE  RegInv'
  <2>1. Requests' /\ OneActor'
    BY <1>1, AskKeeps DEF RegInv
  <2>2. Messages' /\ UNCHANGED <<disk, at, job, acked, rivals>>
    BY <1>1, AskMessages
  <2>3. Makings'
    BY <2>2, NoNewMaker DEF RegInv, Past
  <2> QED
    BY <2>1, <2>2, <2>3 DEF RegInv
<1>2. ASSUME NEW c \in Clients, Disconnect(c) PROVE RegInv'
  BY <1>2, DisconnectKeeps
<1>3. ASSUME NEW w \in Workers, Work(w) PROVE RegInv'
  BY <1>3, CheckKeeps, RefuseKeeps, ReplaceKeeps, WipeKeeps, StepsKeep, GateKeeps, CleanupKeeps, AnswerKeeps, TakeInitKeeps
     DEF Work, Make, Act
<1>4. ASSUME NEW w \in Workers, InitFails(w) \/ WipeFails(w) PROVE RegInv'
  BY <1>4, InitFailsKeeps, WipeKeeps
<1>5. ASSUME NEW x \in Tools, Invoke(x) PROVE RegInv'
  BY <1>5, InvokeKeeps
<1>6. CASE Restart
  BY <1>6, RestartKeeps
<1>7. CASE UNCHANGED vars
  <2>1. UNCHANGED <<handles, request, disk, box, at, job, acked, rivals>>
    BY <1>7 DEF vars, registry, making
  <2>2. Makings'
    BY <2>1, NoNewMaker DEF RegInv, Past
  <2> QED
    BY <2>1, <2>2 DEF RegInv, request, Requests, OneActor, Messages
<1>8. ASSUME NEW a \in Actors, ReloadFails(a) PROVE RegInv'
  BY <1>8, AnswerKeeps
<1> QED
  BY <1>1, <1>2, <1>3, <1>4, <1>5, <1>6, <1>7, <1>8 DEF Next, Serve

(* Whatever requests race for a workflow, all that have an actor to talk   *)
(* to have the one that is registered (registry.rs:33).                    *)
THEOREM NoSecondActor == Spec => []OneActor
<1>1. RegInv => OneActor
  BY DEF RegInv
<1> QED
  BY RegInit, RegNext, <1>1, PTL DEF Spec

(* A workflow whose making was acknowledged keeps every part, short of two *)
(* makings at once: no failed init removes it, and none writes into it.    *)
THEOREM AckedStays == Spec => []AckedKept
<1>1. RegInv => AckedKept
  <2>1. Whole = (Parts \ {"gate"}) \cup TheGate
    BY DEF Whole, Parts
  <2> QED
    BY <2>1 DEF RegInv, Makings, Undisturbed, Acked, AckedKept
<1> QED
  BY RegInit, RegNext, <1>1, PTL DEF Spec

-----------------------------------------------------------------------------
(* NeverDenied.  A message is with the actor that is registered for its    *)
(* workflow, a request that waits is owed exactly one answer, about the    *)
(* workflow it asked for, and the actor registered for a workflow whose    *)
(* making the server acknowledged has its second stage in memory.          *)
Owed(c, w, i) ==
  IF i = 0 THEN job[w].from = c
  ELSE w \in Actors /\ i \in DOMAIN box[w] /\ box[w][i].from = c

NameAt(w, i) == IF i = 0 THEN job[w].name ELSE box[w][i].name

Addressed ==
  /\ \A a \in Actors : \A i \in DOMAIN box[a] : handles[box[a][i].name] = a
  /\ \A a \in Actors : at[a] \in Making => handles[job[a].name] = a

Expected(c) ==
  /\ \A v, w \in Workers : \A i, j \in Nat : Owed(c, v, i) /\ Owed(c, w, j) => v = w /\ i = j
  /\ \A w \in Workers : \A i \in Nat : Owed(c, w, i) =>
       /\ pc[c] \in {"wait", "listing"}
       /\ pc[c] = "wait" => NameAt(w, i) = ask[c].name

(* A worker that makes nothing owes nothing, a tool never does.            *)
Quiet ==
  /\ at \in [Workers -> Making \cup {"idle", "over"}]
  /\ \A w \in Workers : at[w] \in {"idle", "over"} => job[w].from = None
  /\ \A x \in Tools : job[x].from = None

Mailing == Addressed /\ Quiet /\ \A c \in Clients : Expected(c)

(* The actor that a request has spawned and not registered is its own.     *)
Fresh ==
  \A c \in Clients : pc[c] = "insert" =>
    /\ \A n \in Names : handles[n] # has[c]
    /\ \A d \in Clients \ {c} : has[d] # has[c]

Shapes ==
  /\ handles \in [Names -> Actors \cup {None}]
  /\ mem \in [Actors -> [Names -> SUBSET Visible]]
  /\ view \in [Workers -> SUBSET Visible]

(* Actor a has the second stage of n in memory m, if its load has not left *)
(* the workflow out (s).                                                   *)
Sees(m, s, a, n) == a \in Actors /\ (a \in s \/ "s2" \in m[a][n])

Known ==
  /\ \A n \in Names \ rivals : <<n, "server">> \in acked =>
       /\ handles[n] # None => Sees(mem, skipped, handles[n], n)
       /\ \A c \in Clients : pc[c] = "insert" /\ ask[c].name = n /\ handles[n] = None
            => Sees(mem, skipped, has[c], n)
  /\ \A a \in Actors : at[a] = "gate" => "s2" \in view[a]

Knowing == Shapes /\ Fresh /\ Known

-----------------------------------------------------------------------------
(* What is left of a mailbox when its first message is taken.              *)
LEMMA Taken ==
  ASSUME Messages, NEW a \in Actors, NEW kinds, Take(a, kinds)
  PROVE  /\ at[a] = "idle" /\ 1 \in DOMAIN box[a] /\ Head(box[a]) = box[a][1]
         /\ box[a][1] \in Message /\ box[a][1].kind \in kinds
         /\ \A i \in DOMAIN box'[a] :
              i \in Nat \ {0} /\ i + 1 \in DOMAIN box[a] /\ box'[a][i] = box[a][i + 1]
         /\ \A b \in Actors \ {a} : box'[b] = box[b]
<1>1. box[a] \in Seq(Message) /\ box[a] # <<>> /\ box' = [box EXCEPT ![a] = Tail(@)]
      /\ DOMAIN box = Actors /\ Head(box[a]).kind \in kinds /\ at[a] = "idle"
  BY DEF Messages, Take
<1>2. box'[a] = Tail(box[a]) /\ \A b \in Actors \ {a} : box'[b] = box[b]
  BY <1>1
<1>3. Head(box[a]) = box[a][1] /\ 1 \in DOMAIN box[a] /\ box[a][1] \in Message
  BY <1>1
<1>4. \A i \in DOMAIN Tail(box[a]) :
        i \in Nat \ {0} /\ i + 1 \in DOMAIN box[a] /\ Tail(box[a])[i] = box[a][i + 1]
  BY <1>1
<1> QED
  BY <1>1, <1>2, <1>3, <1>4

(* What a mailbox is when a message is posted.                             *)
LEMMA Posted ==
  ASSUME Messages, NEW a \in Actors, NEW m \in Message, Post(a, m)
  PROVE  /\ \A i \in DOMAIN box'[a] :
              \/ i = Len(box[a]) + 1 /\ box'[a][i] = m
              \/ i \in DOMAIN box[a] /\ box'[a][i] = box[a][i]
         /\ \A b \in Actors \ {a} : box'[b] = box[b]
         /\ Len(box[a]) \in Nat
<1>1. box[a] \in Seq(Message) /\ box' = [box EXCEPT ![a] = Append(@, m)] /\ DOMAIN box = Actors
  BY DEF Messages, Post
<1>2. box'[a] = Append(box[a], m) /\ \A b \in Actors \ {a} : box'[b] = box[b]
  BY <1>1
<1> QED
  BY <1>1, <1>2

(* Whom an answer concerns, and what it says.                              *)
LEMMA Replied ==
  ASSUME Requests, NEW m \in Message, NEW what, Reply(m, what)
  PROVE  /\ \A d \in Clients : d # m.from =>
              pc'[d] = pc[d] /\ ask'[d] = ask[d] /\ has'[d] = has[d]
         /\ m.from \in Clients =>
              /\ pc'[m.from] \in {"idle", "list"}
              /\ has'[m.from] \in {has[m.from], None}
         /\ last' # last /\ last'.what = "not_found" =>
              /\ m.from \in Clients /\ pc[m.from] # "listing"
              /\ what = "not_found" /\ last'.name = ask[m.from].name
<1>1. m.from \in Clients \cup {None} /\ None \notin Clients
  BY RegistryOK DEF Message
<1>2. CASE m.from = None
  <2>1. UNCHANGED request
    BY <1>2, Zenon DEF Reply
  <2> QED
    BY <1>1, <1>2, <2>1 DEF request
<1>3. CASE m.from # None /\ pc[m.from] = "listing"
  <2>1. Goto(m.from, "list") /\ UNCHANGED <<ask, has, left, last>>
    BY <1>3, Zenon DEF Reply
  <2> QED
    BY <1>1, <1>3, <2>1 DEF Goto, Requests
<1>4. CASE m.from # None /\ pc[m.from] # "listing"
  <2>1. Leave(m.from, what)
    BY <1>4, Zenon DEF Reply
  <2> QED
    BY <1>1, <1>4, <2>1 DEF Leave, Goto, Requests, NoAnswer
<1> QED
  BY <1>2, <1>3, <1>4

(* A client that is owed nothing expects nothing.                          *)
LEMMA NothingOwed ==
  ASSUME NEW c, \A w \in Workers : \A i \in Nat : ~Owed(c, w, i)'
  PROVE  Expected(c)'
BY DEF Expected

(* Answers that stay where they are.                                       *)
LEMMA SameOwed ==
  ASSUME NEW c, Expected(c), pc'[c] = pc[c], ask'[c] = ask[c],
         \A w \in Workers : \A i \in Nat : Owed(c, w, i)' =>
           Owed(c, w, i) /\ NameAt(w, i)' = NameAt(w, i)
  PROVE  Expected(c)'
BY DEF Expected

(* Answers that move up in one mailbox.                                    *)
LEMMA ShiftedOwed ==
  ASSUME NEW c, Expected(c), pc'[c] = pc[c], ask'[c] = ask[c], NEW a \in Workers,
         \A w \in Workers : \A i \in Nat : Owed(c, w, i)' =>
           \/ w # a /\ Owed(c, w, i) /\ NameAt(w, i)' = NameAt(w, i)
           \/ w = a /\ Owed(c, w, i + 1) /\ NameAt(w, i)' = NameAt(w, i + 1)
  PROVE  Expected(c)'
<1>1. ASSUME NEW v \in Workers, NEW w \in Workers, NEW i \in Nat, NEW j \in Nat,
             Owed(c, v, i)', Owed(c, w, j)'
      PROVE  v = w /\ i = j
  <2>1. \/ v # a /\ Owed(c, v, i)
        \/ v = a /\ Owed(c, v, i + 1)
    BY <1>1
  <2>2. \/ w # a /\ Owed(c, w, j)
        \/ w = a /\ Owed(c, w, j + 1)
    BY <1>1
  <2>3. \A k \in Nat, l \in Nat : k + 1 \in Nat /\ (k + 1 = l + 1 => k = l)
    OBVIOUS
  <2> QED
    BY <2>1, <2>2, <2>3 DEF Expected
<1>2. ASSUME NEW w \in Workers, NEW i \in Nat, Owed(c, w, i)'
      PROVE  /\ pc'[c] \in {"wait", "listing"}
             /\ pc'[c] = "wait" => NameAt(w, i)' = ask'[c].name
  <2>1. i + 1 \in Nat
    OBVIOUS
  <2> QED
    BY <1>2, <2>1 DEF Expected
<1> QED
  BY <1>1, <1>2 DEF Expected


-----------------------------------------------------------------------------
(* The actor takes a message that it answers at once: its client is owed   *)
(* nothing more.                                                           *)
LEMMA AnswerMails ==
  ASSUME RegInv, Mailing, NEW a \in Actors, NEW kinds, Take(a, kinds),
         NEW what, Reply(Head(box[a]), what), UNCHANGED <<handles, at, job>>
  PROVE  Mailing'
<1> DEFINE m == box[a][1]
<1>1. /\ at[a] = "idle" /\ 1 \in DOMAIN box[a] /\ Head(box[a]) = m /\ m \in Message
      /\ \A i \in DOMAIN box'[a] :
           i \in Nat \ {0} /\ i + 1 \in DOMAIN box[a] /\ box'[a][i] = box[a][i + 1]
      /\ \A b \in Actors \ {a} : box'[b] = box[b]
  BY Taken DEF RegInv
<1>2. \A d \in Clients : d # m.from => pc'[d] = pc[d] /\ ask'[d] = ask[d]
  BY <1>1, Replied DEF RegInv
<1>3. job[a].from = None /\ a \in Workers
  BY <1>1 DEF Mailing, Quiet, Workers
<1>4. Addressed'
  BY <1>1 DEF Mailing, Addressed
<1>5. ASSUME NEW c \in Clients
      PROVE  Expected(c)'
  <2>1. Expected(c) /\ c # None
    BY RegistryOK DEF Mailing
  <2>2. \A w \in Workers : \A i \in Nat : Owed(c, w, i)' =>
          \/ w # a /\ Owed(c, w, i) /\ NameAt(w, i)' = NameAt(w, i)
          \/ w = a /\ i # 0 /\ Owed(c, w, i + 1) /\ NameAt(w, i)' = NameAt(w, i + 1)
    BY <1>1, <1>3, <2>1 DEF Owed, NameAt
  <2>3. CASE c # m.from
    BY <1>2, <1>3, <2>1, <2>2, <2>3, ShiftedOwed
  <2>4. CASE c = m.from
    <3>1. Owed(c, a, 1)
      BY <1>1, <2>4 DEF Owed
    <3>2. \A i \in Nat : i # 0 => i + 1 \in Nat /\ i + 1 # 1
      OBVIOUS
    <3>3. \A w \in Workers : \A i \in Nat : ~Owed(c, w, i)'
      BY <1>3, <2>1, <2>2, <3>1, <3>2 DEF Expected
    <3> QED
      BY <3>3, NothingOwed
  <2> QED
    BY <2>3, <2>4
<1>6. Quiet'
  BY DEF Mailing, Quiet
<1> QED
  BY <1>4, <1>5, <1>6 DEF Mailing

(* The actor takes an init: it owes the answer from now on.                *)
LEMMA TakeInitMails ==
  ASSUME RegInv, Mailing, NEW a \in Actors, TakeInit(a)
  PROVE  Mailing'
<1> DEFINE m == box[a][1]
<1>1. /\ at[a] = "idle" /\ 1 \in DOMAIN box[a] /\ Head(box[a]) = m /\ m \in Message
      /\ \A i \in DOMAIN box'[a] :
           i \in Nat \ {0} /\ i + 1 \in DOMAIN box[a] /\ box'[a][i] = box[a][i + 1]
      /\ \A b \in Actors \ {a} : box'[b] = box[b]
  BY Taken DEF RegInv, TakeInit
<1>2. /\ job' = [job EXCEPT ![a] = m] /\ at' = [at EXCEPT ![a] = "check"]
      /\ UNCHANGED <<handles, pc, ask>> /\ a \in Workers /\ a \notin Tools
      /\ DOMAIN job = Workers /\ DOMAIN at = Workers
  BY <1>1, RegistryOK DEF TakeInit, registry, request, Workers, RegInv, Messages
<1>3. Addressed'
  BY <1>1, <1>2 DEF Mailing, Addressed, Workers
<1>4. ASSUME NEW c \in Clients
      PROVE  Expected(c)'
  <2>1. \A w \in Workers : \A i \in Nat : Owed(c, w, i)' =>
          \/ w # a /\ Owed(c, w, i) /\ NameAt(w, i)' = NameAt(w, i)
          \/ w = a /\ Owed(c, w, i + 1) /\ NameAt(w, i)' = NameAt(w, i + 1)
    BY <1>1, <1>2 DEF Owed, NameAt
  <2> QED
    BY <1>2, <2>1, ShiftedOwed DEF Mailing
<1>5. Quiet'
  BY <1>2 DEF Mailing, Quiet, Making
<1> QED
  BY <1>3, <1>4, <1>5 DEF Mailing

(* A command line init is owed to nobody.                                  *)
LEMMA InvokeMails ==
  ASSUME RegInv, Mailing, NEW x \in Tools, Invoke(x)
  PROVE  Mailing'
<1>1. PICK k \in Inits, n \in Names :
        job' = [job EXCEPT ![x] = [kind |-> k, name |-> n, from |-> None]]
  BY DEF Invoke
<1>2. /\ at' = [at EXCEPT ![x] = "check"]
      /\ UNCHANGED <<handles, pc, ask, box>> /\ x \in Workers /\ x \notin Actors
      /\ DOMAIN job = Workers /\ DOMAIN at = Workers
  BY RegistryOK DEF Invoke, registry, request, Workers, RegInv, Messages
<1>3. Addressed'
  BY <1>1, <1>2 DEF Mailing, Addressed, Workers
<1>4. ASSUME NEW c \in Clients
      PROVE  Expected(c)'
  <2>1. \A w \in Workers : \A i \in Nat : Owed(c, w, i)' =>
          Owed(c, w, i) /\ NameAt(w, i)' = NameAt(w, i)
    BY <1>1, <1>2, RegistryOK DEF Owed, NameAt
  <2> QED
    BY <1>2, <2>1, SameOwed DEF Mailing
<1>5. Quiet'
  BY <1>1, <1>2 DEF Mailing, Quiet, Making
<1> QED
  BY <1>3, <1>4, <1>5 DEF Mailing

(* A worker that goes on owes what it owed.                                *)
LEMMA GoMails ==
  ASSUME RegInv, Mailing, NEW w \in Workers, at[w] \in Making, NEW to \in Making, Go(w, to),
         UNCHANGED <<handles, request, box, job>>
  PROVE  Mailing'
<1>1. at' = [at EXCEPT ![w] = to] /\ UNCHANGED <<pc, ask>>
  BY DEF Go, request
<1>2. Addressed'
  BY <1>1 DEF Mailing, Addressed, Quiet, Workers
<1>3. ASSUME NEW c \in Clients
      PROVE  Expected(c)'
  BY <1>1, SameOwed DEF Mailing, Owed, NameAt
<1>4. Quiet'
  BY <1>1 DEF Mailing, Quiet, Making
<1> QED
  BY <1>2, <1>3, <1>4 DEF Mailing

(* A worker that ends has answered.                                        *)
LEMMA EndMails ==
  ASSUME RegInv, Mailing, NEW w \in Workers, at[w] \in Making, NEW what, End(w, what),
         UNCHANGED <<handles, box>>
  PROVE  Mailing'
<1> DEFINE m == job[w]
<1>1. /\ \E to \in {"idle", "over"} : at' = [at EXCEPT ![w] = to]
      /\ job' = [job EXCEPT ![w] = NoJob] /\ Reply(m, what)
      /\ DOMAIN job = Workers /\ DOMAIN at = Workers
  BY DEF End, Go, RegInv, Messages
<1>2. m \in Message
  BY DEF RegInv, Messages, Making
<1>3. \A d \in Clients : d # m.from => pc'[d] = pc[d] /\ ask'[d] = ask[d]
  BY <1>1, <1>2, Replied DEF RegInv
<1>4. Addressed'
  BY <1>1 DEF Mailing, Addressed, Making, Workers
<1>5. ASSUME NEW c \in Clients
      PROVE  Expected(c)'
  <2>1. Expected(c) /\ c # None
    BY RegistryOK DEF Mailing
  <2>2. \A v \in Workers : \A i \in Nat : Owed(c, v, i)' =>
          (v # w \/ i # 0) /\ Owed(c, v, i) /\ NameAt(v, i)' = NameAt(v, i)
    BY <1>1, <2>1 DEF Owed, NameAt, NoJob
  <2>3. CASE c # m.from
    BY <1>3, <2>1, <2>2, <2>3, SameOwed
  <2>4. CASE c = m.from
    <3>1. Owed(c, w, 0)
      BY <2>4 DEF Owed
    <3>2. \A v \in Workers : \A i \in Nat : ~Owed(c, v, i)'
      BY <2>1, <2>2, <3>1 DEF Expected
    <3> QED
      BY <3>2, NothingOwed
  <2> QED
    BY <2>3, <2>4
<1>6. Quiet'
  BY <1>1 DEF Mailing, Quiet, NoJob
<1> QED
  BY <1>4, <1>5, <1>6 DEF Mailing


(* A dropped handler's answer is owed to nobody.                           *)
LEMMA DisconnectMails ==
  ASSUME RegInv, Mailing, NEW c \in Clients, Disconnect(c)
  PROVE  Mailing'
<1>1. /\ UNCHANGED <<handles, at>> /\ Leave(c, "gone")
      /\ box' = [a \in Actors |-> [i \in DOMAIN box[a] |-> Orphan(box[a][i], c)]]
      /\ job' = [w \in Workers |-> Orphan(job[w], c)]
  BY DEF Disconnect
<1>2. \A d \in Clients : d # c => pc'[d] = pc[d] /\ ask'[d] = ask[d]
  BY <1>1 DEF Leave, Goto, RegInv, Requests
<1>3. \A a \in Actors : \A i \in DOMAIN box[a] : box[a][i] \in Message
  BY DEF RegInv, Messages
<1>4. \A m \in Message \cup {NoJob} :
        /\ Orphan(m, c).name = m.name
        /\ Orphan(m, c).from \in {m.from, None} /\ Orphan(m, c).from # c
  BY RegistryOK DEF Orphan, Message, NoJob
<1>5. \A a \in Actors : DOMAIN box'[a] = DOMAIN box[a] /\
        \A i \in DOMAIN box[a] :
          /\ box'[a][i].name = box[a][i].name
          /\ box'[a][i].from \in {box[a][i].from, None} /\ box'[a][i].from # c
  BY <1>1, <1>3, <1>4
<1>6. \A w \in Workers : /\ job'[w].name = job[w].name
                         /\ job'[w].from \in {job[w].from, None} /\ job'[w].from # c
  BY <1>1, <1>4 DEF RegInv, Messages
<1>7. Addressed'
  <2>1. ASSUME NEW a \in Actors, NEW i \in DOMAIN box'[a]
        PROVE  handles'[box'[a][i].name] = a
    <3>1. i \in DOMAIN box[a] /\ box'[a][i].name = box[a][i].name
      BY <1>5
    <3>2. handles[box[a][i].name] = a
      BY <3>1 DEF Mailing, Addressed
    <3> QED
      BY <1>1, <3>1, <3>2
  <2>2. \A a \in Actors : at'[a] \in Making => handles'[job'[a].name] = a
    BY <1>1, <1>6 DEF Mailing, Addressed, Workers
  <2> QED
    BY <2>1, <2>2 DEF Addressed
<1>8. ASSUME NEW d \in Clients
      PROVE  Expected(d)'
  <2>1. \A w \in Workers : \A i \in Nat : Owed(d, w, i)' =>
          d # c /\ Owed(d, w, i) /\ NameAt(w, i)' = NameAt(w, i)
    BY <1>5, <1>6, RegistryOK DEF Owed, NameAt
  <2>2. CASE d = c
    BY <2>1, <2>2, NothingOwed
  <2>3. CASE d # c
    BY <1>2, <2>1, <2>3, SameOwed DEF Mailing
  <2> QED
    BY <2>2, <2>3
<1>9. Quiet'
  BY <1>1, <1>6 DEF Mailing, Quiet, Workers
<1> QED
  BY <1>7, <1>8, <1>9 DEF Mailing

(* A server that starts again owes nothing.                                *)
LEMMA RestartMails ==
  ASSUME RegInv, Mailing, Restart
  PROVE  Mailing'
<1>1. /\ box' = [a \in Actors |-> <<>>]
      /\ at' = [w \in Workers |-> IF w \in Actors THEN "idle" ELSE at[w]]
      /\ job' = [w \in Workers |-> IF w \in Actors THEN NoJob ELSE job[w]]
  BY DEF Restart
<1>2. Addressed'
  BY <1>1 DEF Addressed, Workers, Making
<1>3. \A w \in Workers : job'[w].from = None
  BY <1>1 DEF Mailing, Quiet, NoJob, Workers
<1>4. ASSUME NEW c \in Clients
      PROVE  Expected(c)'
  <2>1. \A w \in Workers : \A i \in Nat : ~Owed(c, w, i)'
    BY <1>1, <1>3, RegistryOK DEF Owed
  <2> QED
    BY <2>1, NothingOwed
<1>5. Quiet'
  BY <1>1, <1>3 DEF Mailing, Quiet, Workers
<1> QED
  BY <1>2, <1>4, <1>5 DEF Mailing

(* A request that posts no message was owed nothing, and is not.           *)
LEMMA AskMails ==
  ASSUME RegInv, Mailing, NEW c \in Clients, pc[c] \notin {"wait", "listing"},
         UNCHANGED <<box, at, job>>,
         \A n \in Names : handles[n] # None => handles'[n] = handles[n],
         \A d \in Clients : d # c => pc'[d] = pc[d] /\ ask'[d] = ask[d]
  PROVE  Mailing'
<1>1. Addressed'
  <2>1. ASSUME NEW a \in Actors, NEW i \in DOMAIN box[a]
        PROVE  box[a][i].name \in Names
    <3>1. box[a] \in Seq(Message)
      BY DEF RegInv, Messages
    <3>2. box[a][i] \in Message
      BY <3>1
    <3> QED
      BY <3>2 DEF Message
  <2>2. \A a \in Actors : at[a] \in Making => job[a].name \in Names
    BY DEF RegInv, Messages, Message, Workers, Making
  <2>3. None \notin Actors
    BY RegistryOK
  <2> QED
    BY <2>1, <2>2, <2>3 DEF Mailing, Addressed
<1>2. ASSUME NEW d \in Clients
      PROVE  Expected(d)'
  <2>1. \A w \in Workers : \A i \in Nat : Owed(d, w, i)' =>
          Owed(d, w, i) /\ NameAt(w, i)' = NameAt(w, i)
    BY DEF Owed, NameAt
  <2>2. CASE d = c
    BY <2>1, <2>2, NothingOwed DEF Mailing, Expected
  <2>3. CASE d # c
    BY <2>1, <2>3, SameOwed DEF Mailing
  <2> QED
    BY <2>2, <2>3
<1>3. Quiet'
  BY DEF Mailing, Quiet
<1> QED
  BY <1>1, <1>2, <1>3 DEF Mailing

(* A request that posts its message is owed one answer.                    *)
LEMMA PostMails ==
  ASSUME RegInv, Mailing, NEW c \in Clients, pc[c] \notin {"wait", "listing"},
         UNCHANGED <<handles, at, job, ask>>, NEW k \in Kinds, NEW n \in Names,
         Post(handles[n], [kind |-> k, name |-> n, from |-> c]),
         NEW to, Goto(c, to), to = "listing" \/ (to = "wait" /\ n = ask[c].name)
  PROVE  Mailing'
<1> DEFINE m == [kind |-> k, name |-> n, from |-> c]
           a == handles[n]
<1>1. m \in Message
  BY DEF Message
<1>2. pc'[c] = to /\ \A d \in Clients : d # c => pc'[d] = pc[d]
  BY DEF Goto, RegInv, Requests
<1>3. \A w \in Workers : \A i \in Nat : ~Owed(c, w, i)
  BY DEF Mailing, Expected
<1>4. Quiet'
  BY DEF Mailing, Quiet
<1>5. CASE a \in Actors
  <2>1. /\ \A i \in DOMAIN box'[a] :
             \/ i = Len(box[a]) + 1 /\ box'[a][i] = m
             \/ i \in DOMAIN box[a] /\ box'[a][i] = box[a][i]
        /\ \A b \in Actors \ {a} : box'[b] = box[b]
        /\ Len(box[a]) \in Nat
    BY <1>1, <1>5, Posted DEF RegInv
  <2>2. m.name = n /\ m.from = c
    OBVIOUS
  <2> HIDE DEF m, a
  <2>3. Addressed'
    BY <2>1, <2>2 DEF Mailing, Addressed, a
  <2>4. ASSUME NEW d \in Clients, d # c
        PROVE  Expected(d)'
    <3>1. \A w \in Workers : \A i \in Nat : Owed(d, w, i)' =>
            Owed(d, w, i) /\ NameAt(w, i)' = NameAt(w, i)
      BY <2>1, <2>2, <2>4 DEF Owed, NameAt
    <3> QED
      BY <1>2, <2>4, <3>1, SameOwed DEF Mailing
  <2>5. \A w \in Workers : \A i \in Nat : Owed(c, w, i)' =>
          w = a /\ i = Len(box[a]) + 1 /\ NameAt(w, i)' = n
    <3>1. ASSUME NEW w \in Workers, NEW i \in Nat, Owed(c, w, i)'
          PROVE  w = a /\ i = Len(box[a]) + 1 /\ NameAt(w, i)' = n
      <4>1. i # 0
        BY <1>3, <3>1 DEF Owed
      <4>2. w \in Actors /\ i \in DOMAIN box'[w] /\ box'[w][i].from = c
        BY <3>1, <4>1 DEF Owed
      <4>3. ~(i \in DOMAIN box[w] /\ box'[w][i] = box[w][i])
        BY <1>3, <4>1, <4>2 DEF Owed
      <4>4. w = a /\ i = Len(box[a]) + 1 /\ box'[w][i] = m
        BY <2>1, <4>2, <4>3
      <4> QED
        BY <2>2, <4>1, <4>4 DEF NameAt
    <3> QED
      BY <3>1
  <2>6. Expected(c)'
    BY <1>2, <2>5 DEF Expected
  <2> QED
    BY <1>4, <2>3, <2>4, <2>6 DEF Mailing
<1>6. CASE a \notin Actors
  <2>1. box' = box
    BY <1>6 DEF Post, RegInv, Messages
  <2> QED
    BY <1>2, <1>3, <2>1, AskMails
<1> QED
  BY <1>5, <1>6


-----------------------------------------------------------------------------
(* Steps that write no memory, register nobody and acknowledge nothing.    *)
LEMMA SameKnowing ==
  ASSUME Requests, Knowing, UNCHANGED <<handles, skipped, mem>>, acked' \subseteq acked,
         rivals \subseteq rivals',
         view' \in [Workers -> SUBSET Visible],
         \A a \in Actors : at'[a] = "gate" => at[a] = "gate" /\ view'[a] = view[a],
         \A c \in Clients : /\ pc'[c] = "insert" =>
                                 pc[c] = "insert" /\ has'[c] = has[c] /\ ask'[c] = ask[c]
                            /\ \/ has'[c] \in {has[c], None}
                               \/ \E n \in Names : has'[c] = handles[n]
  PROVE  Knowing'
<1>1. Shapes'
  BY DEF Knowing, Shapes
<1>2. Fresh'
  <2>1. \A c \in Clients : pc[c] = "insert" => has[c] # None
    BY RegistryOK DEF Requests
  <2> QED
    BY <2>1 DEF Knowing, Fresh
<1>3. Known'
  BY DEF Knowing, Known, Sees
<1> QED
  BY <1>1, <1>2, <1>3 DEF Knowing

(* Steps that take nothing from the memory of an actor in use.             *)
LEMMA KnownKept ==
  ASSUME Knowing, UNCHANGED handles, rivals \subseteq rivals', acked' \subseteq acked,
         \A a \in Actors : at'[a] = "gate" => "s2" \in view'[a],
         \A c \in Clients : pc'[c] = "insert" =>
           pc[c] = "insert" /\ has'[c] = has[c] /\ ask'[c] = ask[c],
         \A n \in Names \ rivals : \A a \in Actors :
           /\ <<n, "server">> \in acked
           /\ a = handles[n] \/ \E c \in Clients : pc'[c] = "insert" /\ has[c] = a
           /\ Sees(mem, skipped, a, n)
           => Sees(mem', skipped', a, n)
  PROVE  Known'
<1>1. ASSUME NEW n \in Names \ rivals', <<n, "server">> \in acked'
      PROVE  /\ handles[n] # None => Sees(mem', skipped', handles[n], n)
             /\ \A c \in Clients : pc'[c] = "insert" /\ ask'[c].name = n /\ handles[n] = None
                  => Sees(mem', skipped', has'[c], n)
  <2>1. /\ n \in Names \ rivals /\ <<n, "server">> \in acked
        /\ handles[n] # None => Sees(mem, skipped, handles[n], n)
        /\ \A c \in Clients : pc[c] = "insert" /\ ask[c].name = n /\ handles[n] = None
             => Sees(mem, skipped, has[c], n)
    BY <1>1 DEF Knowing, Known
  <2>2. \A a : Sees(mem, skipped, a, n) => a \in Actors
    BY DEF Sees
  <2> QED
    BY <2>1, <2>2
<1> QED
  BY <1>1 DEF Known

(* What is read of a directory is some of its parts, the second stage when *)
(* it is there.                                                            *)
LEMMA SeenOf ==
  ASSUME NEW d
  PROVE  FromDir(d) \in SUBSET Visible /\ ("s2" \in d => "s2" \in FromDir(d))
BY DEF FromDir, Visible

(* What an actor loads is what is visible.                                 *)
LEMMA LoadedOf ==
  ASSUME NEW lost
  PROVE  Loaded(lost) \in [Names -> SUBSET Visible]
BY SeenOf, Visible # {} DEF Loaded, Visible

(* A workflow that was acknowledged has its second stage on disk.          *)
LEMMA AckedOnDisk ==
  ASSUME Makings, NEW n \in Names \ rivals, <<n, "server">> \in acked
  PROVE  disk[n] = Whole /\ "s2" \in FromDir(disk[n]) /\ "root" \in disk[n]
<1>1. disk[n] = Whole
  BY DEF Makings, Undisturbed, Acked
<1> QED
  BY <1>1, SeenOf DEF Whole

(* The steps of a request.                                                 *)
LEMMA AskKnows ==
  ASSUME RegInv, Mailing, Knowing, NEW c \in Clients,
         \/ Ask(c) \/ Enter(c) \/ Lookup(c) \/ Exists(c) \/ ExistsFails(c)
          \/ Load(c) \/ LoadFails(c) \/ Insert(c)
         \/ Send(c) \/ BeginList(c) \/ ListSend(c) \/ EndList(c)
  PROVE  Mailing' /\ Knowing'
<1>0. /\ DOMAIN pc = Clients /\ DOMAIN ask = Clients /\ DOMAIN has = Clients
      /\ UNCHANGED <<at, job, view, acked, rivals>>
  BY DEF RegInv, Requests, Ask, Enter, Lookup, Exists, ExistsFails, Load, LoadFails, Insert, Send, BeginList,
         ListSend, EndList, making
<1>1. CASE \/ Ask(c) \/ Enter(c) \/ Exists(c) \/ ExistsFails(c) \/ LoadFails(c)
           \/ BeginList(c) \/ EndList(c)
  <2>1. /\ pc[c] \notin {"wait", "listing"} /\ UNCHANGED <<box, handles, skipped, mem>>
        /\ pc'[c] # "insert" /\ has'[c] \in {has[c], None}
        /\ \A d \in Clients : d # c => pc'[d] = pc[d] /\ ask'[d] = ask[d] /\ has'[d] = has[d]
    BY <1>0, <1>1 DEF Ask, Enter, Exists, ExistsFails, LoadFails, BeginList, EndList,
                      Goto, Leave, registry
  <2>2. Mailing'
    BY <1>0, <2>1, AskMails
  <2>3. Knowing'
    BY <1>0, <2>1, SameKnowing DEF RegInv, Knowing, Shapes
  <2> QED
    BY <2>2, <2>3
<1>2. CASE Lookup(c)
  <2>1. /\ pc[c] = "lookup" /\ UNCHANGED <<box, handles, skipped, mem, ask>>
        /\ has' = [has EXCEPT ![c] = handles[ask[c].name]] /\ ask[c].name \in Names
        /\ \E to \in {"send", "load", "exists"} : Goto(c, to)
    BY <1>2 DEF Lookup, registry, RegInv, Requests
  <2>2. Mailing'
    BY <1>0, <2>1, AskMails DEF Goto
  <2>3. Knowing'
    BY <1>0, <2>1, SameKnowing DEF Goto, RegInv, Knowing, Shapes
  <2> QED
    BY <2>2, <2>3
<1>3. CASE Load(c)
  <2> DEFINE m == ask[c].name
  <2>1. PICK lost \in Overlooked, a \in Actors :
          /\ Unused(a) /\ has' = [has EXCEPT ![c] = a]
          /\ mem' = [mem EXCEPT ![a] = Loaded(lost)]
          /\ skipped' = IF m \in lost THEN skipped \cup {a} ELSE skipped \ {a}
    <3> DEFINE z == CHOOSE b \in Actors : Unused(b)
    <3>1. PICK lost \in Overlooked :
            /\ has' = [has EXCEPT ![c] = z]
            /\ mem' = [mem EXCEPT ![z] = Loaded(lost)]
            /\ skipped' = IF m \in lost THEN skipped \cup {z} ELSE skipped \ {z}
      BY <1>3 DEF Load
    <3>2. z \in Actors /\ Unused(z)
      BY <1>3, SpareActor DEF Load, RegInv
    <3> HIDE DEF z
    <3> QED
      BY <3>1, <3>2
  <2>2. pc[c] = "load" /\ UNCHANGED <<box, handles, ask, disk>> /\ Goto(c, "insert")
    BY <1>3 DEF Load
  <2>3. Mailing'
    BY <1>0, <2>2, AskMails DEF Goto
  <2>4. Shapes'
    BY <1>0, <2>1, <2>2, LoadedOf DEF Knowing, Shapes
  <2>5. Fresh'
    BY <1>0, <2>1, <2>2 DEF Goto, Knowing, Fresh, Unused
  <2>6. ASSUME NEW b, NEW n \in Names, Sees(mem, skipped, b, n), b # a PROVE Sees(mem', skipped', b, n)
    BY <2>1, <2>6 DEF Sees, Knowing, Shapes
  <2>7. ASSUME NEW n \in Names \ rivals, <<n, "server">> \in acked, m = n
        PROVE  Sees(mem', skipped', a, n)
    <3>1. CASE m \in lost
      BY <2>1, <3>1 DEF Sees
    <3>2. CASE m \notin lost
      <4>1. "s2" \in FromDir(disk[n])
        BY <2>7, AckedOnDisk DEF RegInv
      <4>2. "s2" \in Loaded(lost)[n]
        BY <2>7, <3>2, <4>1 DEF Loaded
      <4> QED
        BY <2>1, <4>2 DEF Sees, Knowing, Shapes
    <3> QED
      BY <3>1, <3>2
  <2>8. ASSUME NEW n \in Names \ rivals, <<n, "server">> \in acked
        PROVE  /\ handles[n] # None => Sees(mem', skipped', handles[n], n)
               /\ \A d \in Clients : pc'[d] = "insert" /\ ask[d].name = n /\ handles[n] = None
                    => Sees(mem', skipped', has'[d], n)
    <3>1. handles[n] # a
      BY <2>1 DEF Unused
    <3>2. handles[n] # None => Sees(mem, skipped, handles[n], n)
      BY <2>8 DEF Knowing, Known
    <3>3. ASSUME NEW d \in Clients, pc'[d] = "insert", ask[d].name = n, handles[n] = None
          PROVE  Sees(mem', skipped', has'[d], n)
      <4>1. CASE d = c
        BY <1>0, <2>1, <2>7, <2>8, <3>3, <4>1
      <4>2. CASE d # c
        <5>1. pc[d] = "insert" /\ has'[d] = has[d] /\ has[d] # a
          BY <1>0, <2>1, <2>2, <3>3, <4>2 DEF Goto, Unused
        <5>2. Sees(mem, skipped, has[d], n)
          BY <2>8, <3>3, <5>1 DEF Knowing, Known
        <5>3. has'[d] = has[d]
          BY <5>1
        <5>4. Sees(mem', skipped', has[d], n)
          BY <1>0, <2>6, <5>1, <5>2, <5>3
        <5> QED
          BY <5>1, <5>4 DEF Sees
      <4> QED
        BY <4>1, <4>2
    <3>4. handles[n] # None => Sees(mem', skipped', handles[n], n)
      BY <2>2, <2>6, <3>1, <3>2 DEF Sees
    <3> QED
      BY <3>3, <3>4
  <2>9. Known'
    BY <1>0, <2>2, <2>8 DEF Knowing, Known, Goto
  <2> QED
    BY <2>3, <2>4, <2>5, <2>9 DEF Knowing
<1>4. CASE Insert(c)
  <2> DEFINE n == ask[c].name
  <2>1. /\ pc[c] = "insert" /\ n \in Names /\ has[c] \in Actors
        /\ UNCHANGED <<box, ask, skipped>> /\ Goto(c, "send")
    BY <1>4 DEF Insert, RegInv, Requests
  <2>2. \A d \in Clients : d # c => pc'[d] = pc[d] /\ ask'[d] = ask[d]
    BY <1>0, <2>1 DEF Goto
  <2>3. CASE handles[n] # None
    <3>1. /\ has' = [has EXCEPT ![c] = handles[n]] /\ UNCHANGED handles
          /\ mem' = [mem EXCEPT ![has[c]] = [o \in Names |-> {}]]
      BY <1>4, <2>1, <2>3 DEF Insert, Drop
    <3>2. Mailing'
      BY <1>0, <2>1, <2>2, <3>1, AskMails
    <3>3. Shapes'
      BY <1>0, <2>1, <3>1 DEF Knowing, Shapes
    <3>4. Fresh'
      BY <1>0, <2>1, <3>1 DEF Goto, Knowing, Fresh
    <3>5. \A o \in Names : handles[o] # has[c]
      BY <2>1 DEF Knowing, Fresh
    <3>6. \A d \in Clients : pc'[d] = "insert" =>
            pc[d] = "insert" /\ has'[d] = has[d] /\ has[d] # has[c]
      BY <1>0, <2>1, <3>1 DEF Goto, Knowing, Fresh
    <3>7. \A o \in Names, b \in Actors : Sees(mem, skipped, b, o) /\ b # has[c]
            => Sees(mem', skipped', b, o)
      BY <2>1, <3>1 DEF Sees, Knowing, Shapes
    <3>8. Known'
      BY <1>0, <2>1, <3>1, <3>5, <3>6, <3>7, KnownKept DEF Knowing, Known
    <3> QED
      BY <3>2, <3>3, <3>4, <3>8 DEF Knowing
  <2>4. CASE handles[n] = None
    <3>1. handles' = [handles EXCEPT ![n] = has[c]] /\ UNCHANGED <<has, mem>>
      BY <1>4, <2>4 DEF Insert
    <3>2. Mailing'
      BY <1>0, <2>1, <2>2, <2>4, <3>1, AskMails DEF Knowing, Shapes
    <3>3. Shapes'
      BY <1>0, <2>1, <3>1 DEF Knowing, Shapes
    <3>4. Fresh'
      BY <1>0, <2>1, <3>1 DEF Goto, Knowing, Fresh, Shapes
    <3>5. ASSUME NEW o \in Names \ rivals, <<o, "server">> \in acked
          PROVE  /\ handles'[o] # None => Sees(mem, skipped, handles'[o], o)
                 /\ \A d \in Clients : pc'[d] = "insert" /\ ask[d].name = o /\ handles'[o] = None
                      => Sees(mem, skipped, has[d], o)
      <4>1. /\ handles[o] # None => Sees(mem, skipped, handles[o], o)
            /\ \A d \in Clients : pc[d] = "insert" /\ ask[d].name = o /\ handles[o] = None
                 => Sees(mem, skipped, has[d], o)
        BY <3>5 DEF Knowing, Known
      <4>2. handles'[o] = IF o = n THEN has[c] ELSE handles[o]
        BY <2>1, <3>1 DEF Knowing, Shapes
      <4>3. \A d \in Clients : pc'[d] = "insert" => pc[d] = "insert"
        BY <1>0, <2>1 DEF Goto
      <4>4. has[c] # None
        BY <2>1, RegistryOK
      <4> QED
        BY <2>1, <2>4, <4>1, <4>2, <4>3, <4>4
    <3>6. Known'
      BY <1>0, <2>1, <3>1, <3>5 DEF Knowing, Known
    <3> QED
      BY <3>2, <3>3, <3>4, <3>6 DEF Knowing
  <2> QED
    BY <2>3, <2>4
<1>5. CASE Send(c)
  <2>1. /\ pc[c] = "send" /\ UNCHANGED <<handles, skipped, mem, ask, has>> /\ Goto(c, "wait")
        /\ Post(has[c], [kind |-> ask[c].kind, name |-> ask[c].name, from |-> c])
    BY <1>5 DEF Send, registry
  <2>2. ask[c].kind \in Kinds /\ ask[c].name \in Names /\ has[c] = handles[ask[c].name]
    BY <2>1 DEF RegInv, Requests, OneActor
  <2>3. Mailing'
    BY <1>0, <2>1, <2>2, PostMails
  <2>4. Knowing'
    BY <1>0, <2>1, SameKnowing DEF Goto, RegInv, Knowing, Shapes
  <2> QED
    BY <2>3, <2>4
<1>6. CASE ListSend(c)
  <2>1. PICK n \in left[c] : Post(handles[n], [kind |-> "get", name |-> n, from |-> c])
    BY <1>6 DEF ListSend
  <2>2. /\ pc[c] = "list" /\ UNCHANGED <<handles, skipped, mem, ask, has>> /\ Goto(c, "listing")
        /\ n \in Names
    BY <1>6 DEF ListSend, registry, RegInv, Requests
  <2>3. Mailing'
    BY <1>0, <2>1, <2>2, PostMails DEF Kinds
  <2>4. Knowing'
    BY <1>0, <2>2, SameKnowing DEF Goto, RegInv, Knowing, Shapes
  <2> QED
    BY <2>3, <2>4
<1> QED
  BY <1>1, <1>2, <1>3, <1>4, <1>5, <1>6


(* The steps of an actor that takes a message.                             *)
LEMMA ActKnows ==
  ASSUME RegInv, Mailing, Knowing, NEW a \in Actors, Act(a) \/ ReloadFails(a)
  PROVE  Mailing' /\ Knowing'
<1>1. CASE TakeInit(a)
  <2>1. Mailing'
    BY <1>1, TakeInitMails
  <2>2. /\ UNCHANGED <<handles, skipped, pc, ask, has, mem, view, acked, rivals>>
        /\ at' = [at EXCEPT ![a] = "check"]
    BY <1>1 DEF TakeInit, registry, request
  <2>3. Knowing'
    BY <2>2, SameKnowing DEF RegInv, Messages, Workers, Knowing, Shapes
  <2> QED
    BY <2>1, <2>3
<1>2. CASE Get(a) \/ Run(a) \/ Reload(a) \/ ReloadFails(a)
  <2> DEFINE m == Head(box[a])
  <2>1. PICK kinds : Take(a, kinds)
    BY <1>2 DEF Get, Run, Reload, ReloadFails
  <2>2. /\ m = box[a][1] /\ 1 \in DOMAIN box[a] /\ m \in Message
    BY <2>1, Taken DEF RegInv
  <2>3. PICK what : Reply(m, what)
    BY <1>2 DEF Get, Run, Reload, ReloadFails
  <2>4. UNCHANGED <<disk, handles, skipped, at, job, view, acked, rivals>>
    BY <1>2 DEF Get, Run, Reload, ReloadFails, registry, making
  <2>5. Mailing'
    BY <2>1, <2>3, <2>4, AnswerMails
  <2>6. \A c \in Clients : /\ pc'[c] = "insert" =>
                                pc[c] = "insert" /\ has'[c] = has[c] /\ ask'[c] = ask[c]
                           /\ has'[c] \in {has[c], None}
    BY <2>2, <2>3, Replied DEF RegInv
  <2>7. CASE UNCHANGED mem
    BY <2>4, <2>5, <2>6, <2>7, SameKnowing DEF RegInv, Knowing, Shapes
  <2>8. CASE mem' # mem
    <3> DEFINE seen == FromDir(disk[m.name])
    <3>1. mem' = [mem EXCEPT ![a][m.name] = seen] /\ m.name \in Names
      BY <1>2, <2>2, <2>8 DEF Get, Run, Reload, ReloadFails, Message
    <3>2. Shapes'
      BY <2>4, <3>1, SeenOf DEF Knowing, Shapes
    <3>3. Fresh'
      <4>1. \A c \in Clients : pc[c] = "insert" => has[c] # None
        BY RegistryOK DEF RegInv, Requests
      <4> QED
        BY <2>4, <2>6, <4>1 DEF Knowing, Fresh
    <3>4. ASSUME NEW n \in Names \ rivals, <<n, "server">> \in acked, NEW b \in Actors,
                 Sees(mem, skipped, b, n)
          PROVE  Sees(mem', skipped', b, n)
      <4>1. "s2" \in FromDir(disk[n])
        BY <3>4, AckedOnDisk DEF RegInv
      <4> QED
        BY <2>4, <3>1, <3>4, <4>1 DEF Sees, Knowing, Shapes
    <3>5. Known'
      BY <2>4, <2>6, <3>4, KnownKept DEF Knowing, Known
    <3> QED
      BY <2>5, <3>2, <3>3, <3>5 DEF Knowing
  <2> QED
    BY <2>5, <2>7, <2>8
<1> QED
  BY <1>1, <1>2 DEF Act

(* A worker that ends, short of the acknowledgement.                       *)
LEMMA EndKnows ==
  ASSUME RegInv, Mailing, Knowing, NEW w \in Workers, at[w] \in Making, NEW what, End(w, what),
         UNCHANGED <<handles, skipped, mem, box, acked>>, rivals \subseteq rivals'
  PROVE  Mailing' /\ Knowing'
<1>1. Mailing'
  BY EndMails
<1>2. job[w] \in Message
  BY DEF RegInv, Messages, Making
<1>3. \A c \in Clients : /\ pc'[c] = "insert" =>
                              pc[c] = "insert" /\ has'[c] = has[c] /\ ask'[c] = ask[c]
                         /\ has'[c] \in {has[c], None}
  BY <1>2, Replied DEF RegInv, End
<1>4. /\ view' = [view EXCEPT ![w] = {}]
      /\ \E to \in {"idle", "over"} : at' = [at EXCEPT ![w] = to]
  BY DEF End, Go
<1>5. Knowing'
  BY <1>3, <1>4, SameKnowing DEF RegInv, Messages, Workers, Knowing, Shapes
<1> QED
  BY <1>1, <1>5

(* A worker that goes on, short of the reading back.                       *)
LEMMA GoKnows ==
  ASSUME RegInv, Mailing, Knowing, NEW w \in Workers, at[w] \in Making,
         NEW to \in Making \ {"gate"}, Go(w, to),
         UNCHANGED <<handles, skipped, request, mem, box, job, view>>, acked' \subseteq acked,
         rivals \subseteq rivals'
  PROVE  Mailing' /\ Knowing'
<1>1. Mailing'
  BY GoMails
<1>2. at' = [at EXCEPT ![w] = to] /\ UNCHANGED <<pc, ask, has>>
  BY DEF Go, request
<1>3. Knowing'
  BY <1>2, SameKnowing DEF RegInv, Messages, Workers, Knowing, Shapes
<1> QED
  BY <1>1, <1>3

(* What is read back has the second stage.                                 *)
LEMMA ContextKnows ==
  ASSUME RegInv, Mailing, Knowing, NEW w \in Workers, Context(w)
  PROVE  Mailing' /\ Knowing'
<1>1. at[w] = "context" /\ UNCHANGED <<handles, skipped, request, mem, box, job, acked, rivals>>
  BY DEF Context, registry
<1>2. CASE "s2" \notin Dir(w)
  <2>1. Go(w, "cleanup") /\ UNCHANGED view
    BY <1>2 DEF Context
  <2> QED
    BY <1>1, <2>1, GoKnows DEF Making
<1>3. CASE "s2" \in Dir(w)
  <2>1. /\ view' = [view EXCEPT ![w] = FromDir(Dir(w) \ {"gate"})] /\ Go(w, "gate")
    BY <1>3 DEF Context
  <2>2. Mailing'
    BY <1>1, <2>1, GoMails DEF Making
  <2>3. "s2" \in FromDir(Dir(w) \ {"gate"}) /\ FromDir(Dir(w) \ {"gate"}) \in SUBSET Visible
    BY <1>3, SeenOf
  <2>4. Shapes'
    BY <1>1, <2>1, <2>3 DEF Knowing, Shapes
  <2>5. Fresh'
    BY <1>1 DEF Knowing, Fresh, request
  <2>6. Known'
    BY <1>1, <2>1, <2>3 DEF Knowing, Known, Sees, Shapes, Go, RegInv, Messages, Workers, request
  <2> QED
    BY <2>2, <2>4, <2>5, <2>6 DEF Knowing
<1> QED
  BY <1>2, <1>3

(* What was read back is in memory when the making is acknowledged.        *)
LEMMA GateKnows ==
  ASSUME RegInv, Mailing, Knowing, NEW w \in Workers, Gate(w)
  PROVE  Mailing' /\ Knowing'
<1> DEFINE m == job[w].name
<1>1. at[w] = "gate" /\ UNCHANGED <<handles, skipped, box, rivals>> /\ at[w] \in Making
  BY DEF Gate, registry, Making
<1>2. CASE "s2" \notin Dir(w)
  BY <1>1, <1>2, EndKnows DEF Gate
<1>3. CASE "s2" \in Dir(w)
  <2>1. /\ mem' = IF w \in Actors THEN [mem EXCEPT ![w][m] = view[w]] ELSE mem
        /\ End(w, "ok") /\ acked' \in {acked, acked \cup {<<m, Side(w)>>}}
    BY <1>3 DEF Gate, Finish
  <2>2. job[w] \in Message /\ m \in Names
    BY <1>1 DEF RegInv, Messages, Message
  <2>3. Mailing'
    BY <1>1, <2>1, EndMails
  <2>4. /\ view' = [view EXCEPT ![w] = {}]
        /\ \E to \in {"idle", "over"} : at' = [at EXCEPT ![w] = to]
    BY <2>1 DEF End, Go
  <2>5. Shapes'
    BY <1>1, <2>1, <2>2, <2>4 DEF Knowing, Shapes
  <2>6. \A c \in Clients : /\ pc'[c] = "insert" =>
                                pc[c] = "insert" /\ has'[c] = has[c] /\ ask'[c] = ask[c]
                           /\ has'[c] \in {has[c], None}
    BY <2>1, <2>2, Replied DEF RegInv, End
  <2>7. Fresh'
    <3>1. \A c \in Clients : pc[c] = "insert" => has[c] # None
      BY RegistryOK DEF RegInv, Requests
    <3> QED
      BY <1>1, <2>6, <3>1 DEF Knowing, Fresh
  <2>8. ASSUME NEW n \in Names, NEW b \in Actors, Sees(mem, skipped, b, n)
        PROVE  Sees(mem', skipped', b, n)
    <3>1. w \in Actors => "s2" \in view[w]
      BY <1>1 DEF Knowing, Known
    <3> QED
      BY <1>1, <2>1, <2>2, <2>8, <3>1 DEF Sees, Knowing, Shapes
  <2>9. ASSUME NEW n \in Names \ rivals, <<n, "server">> \in acked'
        PROVE  /\ handles[n] # None => Sees(mem', skipped', handles[n], n)
               /\ \A c \in Clients : pc'[c] = "insert" /\ ask'[c].name = n /\ handles[n] = None
                    => Sees(mem', skipped', has'[c], n)
    <3>1. CASE n = m /\ w \in Actors
      <4>1. handles[n] = w /\ "s2" \in view[w] /\ w # None
        BY <1>1, <3>1, RegistryOK DEF Mailing, Addressed, Knowing, Known
      <4> QED
        BY <2>1, <2>2, <3>1, <4>1 DEF Knowing, Shapes, Sees
    <3>2. CASE n # m \/ w \notin Actors
      <4>1. <<n, "server">> \in acked
        BY <2>1, <2>9, <3>2 DEF Side
      <4>2. /\ handles[n] # None => Sees(mem, skipped, handles[n], n)
            /\ \A c \in Clients : pc[c] = "insert" /\ ask[c].name = n /\ handles[n] = None
                 => Sees(mem, skipped, has[c], n)
        BY <4>1 DEF Knowing, Known
      <4>3. \A b : Sees(mem, skipped, b, n) => b \in Actors
        BY DEF Sees
      <4> QED
        BY <2>6, <2>8, <4>2, <4>3
    <3> QED
      BY <3>1, <3>2
  <2>10. \A a \in Actors : at'[a] = "gate" => "s2" \in view'[a]
    BY <2>4 DEF Knowing, Known, Shapes, RegInv, Messages, Workers
  <2>11. Known'
    BY <1>1, <2>9, <2>10 DEF Known
  <2> QED
    BY <2>3, <2>5, <2>7, <2>11 DEF Knowing
<1> QED
  BY <1>2, <1>3

(* The steps of a worker.                                                  *)
LEMMA WorkKnows ==
  ASSUME RegInv, Mailing, Knowing, NEW w \in Workers,
         Work(w) \/ InitFails(w) \/ WipeFails(w)
  PROVE  Mailing' /\ Knowing'
<1>1. CASE Check(w) \/ Replace(w)
  <2>1. /\ at[w] \in Making /\ (Go(w, "root") \/ Go(w, "wipe"))
        /\ UNCHANGED <<handles, skipped, request, mem, box, job, view>>
        /\ acked' \subseteq acked /\ rivals \subseteq rivals'
    BY <1>1 DEF Check, Replace, Meet, registry, Making
  <2> QED
    BY <2>1, GoKnows DEF Making
<1>2. CASE MakeRoot(w) \/ MakeFirst(w) \/ MakeSecond(w)
  <2>1. /\ at[w] \in Making
        /\ UNCHANGED <<handles, skipped, request, mem, box, job, view, acked, rivals>>
    BY <1>2 DEF MakeRoot, MakeFirst, MakeDir, MakeSecond, registry, Making
  <2>2. PICK to \in {"first", "second", "context", "cleanup"} : Go(w, to)
    BY <1>2 DEF MakeRoot, MakeFirst, MakeDir, MakeSecond
  <2> QED
    BY <2>1, <2>2, GoKnows DEF Making
<1>3. CASE Context(w)
  BY <1>3, ContextKnows
<1>4. CASE Gate(w)
  BY <1>4, GateKnows
<1>5. CASE Cleanup(w)
  <2>1. /\ at[w] = "cleanup" /\ UNCHANGED <<handles, skipped, mem, box, acked, rivals>>
        /\ End(w, "error")
    BY <1>5 DEF Cleanup, registry
  <2> QED
    BY <2>1, EndKnows DEF Making
<1>6. CASE w \in Actors /\ Act(w)
  BY <1>6, ActKnows
<1>7. CASE InitFails(w)
  <2>1. at[w] \in Making /\ UNCHANGED <<handles, skipped, mem, box, acked, rivals>>
    BY <1>7 DEF InitFails, registry
  <2> QED
    BY <1>7, <2>1, EndKnows, GoKnows DEF InitFails, Making
<1>8. CASE Refuse(w) \/ Wipe(w) \/ WipeFails(w)
  <2>1. at[w] \in Making /\ UNCHANGED <<handles, skipped, mem, box, acked, rivals>>
    BY <1>8 DEF Refuse, Wipe, WipeFails, registry, Making
  <2> QED
    BY <1>8, <2>1, EndKnows, GoKnows DEF Refuse, Wipe, WipeFails, Making
<1> QED
  BY <1>1, <1>2, <1>3, <1>4, <1>5, <1>6, <1>7, <1>8 DEF Work, Make

(* A lost connection drops at most an actor that is registered nowhere.    *)
LEMMA DisconnectKnows ==
  ASSUME RegInv, Mailing, Knowing, NEW c \in Clients, Disconnect(c)
  PROVE  Knowing'
<1>1. UNCHANGED <<handles, skipped, at, view, acked, rivals>> /\ Leave(c, "gone") /\ Drop(c)
  BY DEF Disconnect
<1>2. /\ pc'[c] = "idle" /\ has'[c] = None
      /\ \A d \in Clients : d # c => pc'[d] = pc[d] /\ has'[d] = has[d] /\ ask'[d] = ask[d]
  BY <1>1 DEF Leave, Goto, RegInv, Requests
<1>3. Shapes'
  BY <1>1 DEF Drop, Knowing, Shapes
<1>4. Fresh'
  <2>1. \A d \in Clients : pc[d] = "insert" => has[d] # None
    BY RegistryOK DEF RegInv, Requests
  <2> QED
    BY <1>1, <1>2, <2>1 DEF Knowing, Fresh
<1>5. pc[c] = "insert" => \A n \in Names : handles[n] # has[c]
  BY DEF Knowing, Fresh
<1>6. \A n \in Names, a \in Actors : Sees(mem, skipped, a, n) /\ ~(pc[c] = "insert" /\ a = has[c])
        => Sees(mem', skipped', a, n)
  BY <1>1 DEF Drop, Sees, Knowing, Shapes
<1>7. \A d \in Clients : pc'[d] = "insert" =>
        /\ pc[d] = "insert" /\ has'[d] = has[d] /\ ask'[d] = ask[d]
        /\ pc[c] = "insert" => has[d] # has[c]
  BY <1>2 DEF Knowing, Fresh
<1>8. Known'
  BY <1>1, <1>5, <1>6, <1>7, KnownKept DEF Knowing, Known
<1> QED
  BY <1>3, <1>4, <1>8 DEF Knowing

(* There are actors enough for every workflow that is loaded.              *)
LEMMA ActorsEnough ==
  ASSUME NEW T \in SUBSET Names
  PROVE  \E g \in [T -> Actors] : \A n, o \in T : g[n] = g[o] => n = o
<1> DEFINE k == Cardinality(T)
           l == Cardinality(Actors)
<1>1. IsFiniteSet(T) /\ k \in Nat /\ l \in Nat /\ k <= l
  <2>1. IsFiniteSet(T) /\ k <= Cardinality(Names)
    BY FS_Subset, RegistryOK
  <2>2. k \in Nat /\ l \in Nat /\ Cardinality(Names) \in Nat /\ Cardinality(Clients) \in Nat
    BY <2>1, FS_CardinalityType, RegistryOK
  <2> QED
    BY <2>1, <2>2, RegistryOK
<1>2. PICK f \in Bijection(1..k, T) : TRUE
  BY <1>1, FS_CardinalityType DEF ExistsBijection
<1>3. PICK h \in Bijection(1..l, Actors) : TRUE
  BY FS_CardinalityType, RegistryOK DEF ExistsBijection
<1> HIDE DEF k, l
<1>4. /\ f \in [1..k -> T] /\ \A t \in T : \E i \in 1..k : f[i] = t
  BY DEF Bijection, Surjection
<1>5. /\ h \in [1..l -> Actors] /\ \A i, j \in 1..l : h[i] = h[j] => i = j
  BY DEF Bijection, Injection, IsInjective
<1> DEFINE place(t) == CHOOSE i \in 1..k : f[i] = t
           g == [t \in T |-> h[place(t)]]
<1>6. \A t \in T : place(t) \in 1..k /\ f[place(t)] = t
  BY <1>4
<1>7. \A t \in T : place(t) \in 1..l
  BY <1>1, <1>6
<1>8. g \in [T -> Actors]
  BY <1>5, <1>7
<1>9. \A n, o \in T : g[n] = g[o] => n = o
  <2> SUFFICES ASSUME NEW n \in T, NEW o \in T, g[n] = g[o]
               PROVE  n = o
    BY Zenon
  <2>0. h[place(n)] = h[place(o)]
    OBVIOUS
  <2>1. place(n) = place(o)
    BY <1>5, <1>7, <2>0
  <2> QED
    BY <1>6, <2>1
<1> QED
  BY <1>8, <1>9

(* After a restart what was acknowledged has an actor that has loaded it,  *)
(* or one whose load left it out, or none yet.                             *)
LEMMA RestartKnows ==
  ASSUME RegInv, Mailing, Knowing, Restart
  PROVE  Knowing'
<1>1. PICK unlisted, lost \in Overlooked :
        LET there == Readable \ unlisted
            f == CHOOSE g \in [there -> Actors] : \A n, o \in there : g[n] = g[o] => n = o
        IN
        /\ handles' = [n \in Names |-> IF n \in there THEN f[n] ELSE None]
        /\ mem' = [a \in Actors |->
                    IF \E n \in there : f[n] = a
                    THEN Loaded({n \in there \cap lost : f[n] = a})
                    ELSE [n \in Names |-> {}]]
        /\ skipped' = {f[n] : n \in there \cap lost}
  BY DEF Restart
<1> DEFINE there == Readable \ unlisted
           f == CHOOSE g \in [there -> Actors] : \A n, o \in there : g[n] = g[o] => n = o
<1>2. /\ handles' = [n \in Names |-> IF n \in there THEN f[n] ELSE None]
      /\ mem' = [a \in Actors |->
                  IF \E n \in there : f[n] = a
                  THEN Loaded({n \in there \cap lost : f[n] = a})
                  ELSE [n \in Names |-> {}]]
      /\ skipped' = {f[n] : n \in there \cap lost}
  BY <1>1
<1>3. /\ pc' = [c \in Clients |-> "idle"]
      /\ at' = [w \in Workers |-> IF w \in Actors THEN "idle" ELSE at[w]]
      /\ view' = [w \in Workers |-> IF w \in Actors THEN {} ELSE view[w]]
      /\ UNCHANGED <<disk, acked, rivals>>
  BY DEF Restart
<1>4. f \in [there -> Actors]
  <2>1. there \in SUBSET Names
    BY DEF Readable
  <2> HIDE DEF there
  <2> QED
    BY <2>1, ActorsEnough
<1> HIDE DEF f
<1>5. Shapes'
  <2>1. handles' \in [Names -> Actors \cup {None}]
    BY <1>2, <1>4
  <2>2. mem' \in [Actors -> [Names -> SUBSET Visible]]
    <3>1. \A a \in Actors : mem'[a] \in [Names -> SUBSET Visible]
      <4>1. \A a \in Actors : \E lost_ :
              mem'[a] = Loaded(lost_) \/ mem'[a] = [n \in Names |-> {}]
        BY <1>2
      <4> QED
        BY <4>1, LoadedOf
    <3> QED
      BY <1>2, <3>1
  <2>3. view' \in [Workers -> SUBSET Visible]
    BY <1>3 DEF Knowing, Shapes
  <2> QED
    BY <2>1, <2>2, <2>3 DEF Shapes
<1>6. Fresh'
  BY <1>3 DEF Fresh
<1>7. ASSUME NEW n \in Names \ rivals, <<n, "server">> \in acked, n \in there
      PROVE  Sees(mem', skipped', f[n], n)
  <2>1. "s2" \in FromDir(disk[n]) /\ f[n] \in Actors
    BY <1>4, <1>7, AckedOnDisk DEF RegInv
  <2>2. CASE n \in lost
    BY <1>2, <1>7, <2>1, <2>2 DEF Sees
  <2>3. CASE n \notin lost
    <3>1. mem'[f[n]] = Loaded({o \in there \cap lost : f[o] = f[n]})
      BY <1>2, <1>7, <2>1
    <3>2. n \notin {o \in there \cap lost : f[o] = f[n]}
      BY <2>3
    <3>3. "s2" \in Loaded({o \in there \cap lost : f[o] = f[n]})[n]
      BY <2>1, <3>2 DEF Loaded
    <3> QED
      BY <2>1, <3>1, <3>3 DEF Sees
  <2> QED
    BY <2>2, <2>3
<1>8. Known'
  BY <1>2, <1>3, <1>7, RegistryOK DEF Known, Workers
<1> QED
  BY <1>5, <1>6, <1>8 DEF Knowing

(* At first nobody waits and no actor has been spawned.                    *)
LEMMA KnowsInit == Init => Mailing /\ Knowing
<1> SUFFICES ASSUME Init PROVE Mailing /\ Knowing
  OBVIOUS
<1>1. Addressed /\ Quiet
  BY DEF Init, Addressed, Quiet, Making, NoJob, Workers
<1>2. \A c \in Clients : Expected(c)
  BY RegistryOK DEF Init, Expected, Owed, NoJob
<1>3. Knowing
  BY DEF Init, Knowing, Shapes, Fresh, Known, Workers, Visible
<1> QED
  BY <1>1, <1>2, <1>3 DEF Mailing

(* Every step keeps letters and knowledge in order.                        *)
LEMMA KnowsNext ==
  ASSUME RegInv, Mailing, Knowing, [Next]_vars
  PROVE  Mailing' /\ Knowing'
<1>1. ASSUME NEW c \in Clients, Ask(c) \/ Serve(c) \/ ExistsFails(c) \/ LoadFails(c)
      PROVE  Mailing' /\ Knowing'
  BY <1>1, AskKnows DEF Serve
<1>2. ASSUME NEW c \in Clients, Disconnect(c) PROVE Mailing' /\ Knowing'
  BY <1>2, DisconnectMails, DisconnectKnows
<1>3. ASSUME NEW w \in Workers, Work(w) \/ InitFails(w) \/ WipeFails(w)
      PROVE  Mailing' /\ Knowing'
  BY <1>3, WorkKnows
<1>4. ASSUME NEW x \in Tools, Invoke(x) PROVE Mailing' /\ Knowing'
  <2>1. Mailing'
    BY <1>4, InvokeMails
  <2>2. /\ UNCHANGED <<handles, skipped, pc, ask, has, mem, view, acked, rivals>>
        /\ at' = [at EXCEPT ![x] = "check"]
    BY <1>4 DEF Invoke, registry, request
  <2>3. Knowing'
    BY <2>2, SameKnowing DEF RegInv, Messages, Workers, Knowing, Shapes
  <2> QED
    BY <2>1, <2>3
<1>5. CASE Restart
  BY <1>5, RestartMails, RestartKnows
<1>6. CASE UNCHANGED vars
  <2>1. UNCHANGED <<handles, skipped, request, mem, box, at, job, view, acked, rivals>>
    BY <1>6 DEF vars, registry, making
  <2>2. Mailing'
    <3>1. Addressed' /\ Quiet'
      BY <2>1 DEF Mailing, Addressed, Quiet
    <3>2. \A c \in Clients : Expected(c)'
      BY <2>1 DEF Mailing, Expected, Owed, NameAt, request
    <3> QED
      BY <3>1, <3>2 DEF Mailing
  <2>3. Knowing'
    BY <2>1 DEF request, Knowing, Shapes, Fresh, Known
  <2> QED
    BY <2>2, <2>3
<1>7. ASSUME NEW a \in Actors, ReloadFails(a) PROVE Mailing' /\ Knowing'
  BY <1>7, ActKnows
<1> QED
  BY <1>1, <1>2, <1>3, <1>4, <1>5, <1>6, <1>7 DEF Next

(* The number of failures is a number.                                     *)
LEMMA FaultsCount == (faults \in Nat /\ [Next]_vars) => faults' \in Nat
<1> SUFFICES ASSUME faults \in Nat, [Next]_vars PROVE UNCHANGED faults \/ faults' = faults + 1
  OBVIOUS
<1>1. ASSUME NEW c \in Clients, Ask(c) \/ Serve(c) \/ Disconnect(c) \/ ExistsFails(c) \/ LoadFails(c)
      PROVE  UNCHANGED faults \/ faults' = faults + 1
  BY <1>1 DEF Ask, Serve, Enter, Lookup, Exists, Load, Insert, Send, BeginList, ListSend, EndList,
              Disconnect, ExistsFails, LoadFails, Fault
<1>2. ASSUME NEW w \in Workers, Work(w) \/ InitFails(w) \/ WipeFails(w)
      PROVE  UNCHANGED faults \/ faults' = faults + 1
  BY <1>2 DEF Work, Make, Act, Check, Refuse, Replace, Wipe, MakeRoot, MakeFirst, MakeDir,
              MakeSecond, Context, Gate, Cleanup, Get, Run, Reload, TakeInit, InitFails, WipeFails,
              Fault
<1>3. ASSUME NEW a, ReloadFails(a) \/ Invoke(a)
      PROVE  UNCHANGED faults \/ faults' = faults + 1
  BY <1>3 DEF ReloadFails, Invoke, Fault
<1> QED
  BY <1>1, <1>2, <1>3 DEF Next, Restart, Fault, vars

(* Who says that a workflow is not there, short of a failure: a request    *)
(* that finds no directory, or an actor that does not have it in memory,   *)
(* or cannot load it, of the workflow that its client asked for.           *)
LEMMA Deniers ==
  ASSUME RegInv, Mailing, faults \in Nat, [Next]_vars, last' # last, faults' = faults,
         last'.what = "not_found"
  PROVE  /\ last'.name \in Names
         /\ \/ "root" \notin disk[last'.name]
            \/ \E a \in Actors : handles[last'.name] = a /\ "s2" \notin mem[a][last'.name]
            \/ FromDir(disk[last'.name]) = {}
<1>1. ASSUME NEW c \in Clients, Exists(c)
      PROVE  last'.name \in Names /\ "root" \notin disk[last'.name]
  BY <1>1 DEF Exists, Leave, RegInv, Requests
<1>2. ASSUME NEW a \in Actors, Get(a) \/ Run(a) \/ Reload(a) \/ ReloadFails(a)
      PROVE  /\ last'.name \in Names
             /\ \/ handles[last'.name] = a /\ "s2" \notin mem[a][last'.name]
                \/ FromDir(disk[last'.name]) = {}
  <2> DEFINE m == Head(box[a])
  <2>1. PICK kinds : Take(a, kinds)
    BY <1>2 DEF Get, Run, Reload, ReloadFails
  <2>2. /\ m = box[a][1] /\ 1 \in DOMAIN box[a] /\ m \in Message
    BY <2>1, Taken DEF RegInv
  <2>3. PICK what : /\ Reply(m, what)
                    /\ what = "not_found" => \/ "s2" \notin mem[a][m.name]
                                             \/ FromDir(disk[m.name]) = {}
    <3>1. CASE Get(a)
      BY <3>1 DEF Get
    <3>2. CASE ReloadFails(a)
      BY <3>2 DEF ReloadFails
    <3>3. CASE Run(a)
      <4>1. Reply(m, CASE "s2" \notin mem[a][m.name] -> "not_found"
                       [] {"s2", "gate"} \subseteq mem[a][m.name] -> "gated"
                       [] OTHER -> "ran")
        BY <3>3 DEF Run
      <4>2. CASE "s2" \in mem[a][m.name]
        BY <4>1, <4>2
      <4> QED
        BY <4>1, <4>2
    <3>4. CASE Reload(a)
      BY <3>4 DEF Reload
    <3> QED
      BY <1>2, <3>1, <3>2, <3>3, <3>4
  <2>4. m.from \in Clients /\ pc[m.from] # "listing" /\ what = "not_found"
        /\ last'.name = ask[m.from].name
    BY <2>2, <2>3, Replied DEF RegInv
  <2>5. Owed(m.from, a, 1)
    BY <2>2 DEF Owed
  <2>6. ask[m.from].name = m.name
    BY <2>2, <2>4, <2>5 DEF Mailing, Expected, NameAt, Workers
  <2>7. handles[m.name] = a
    BY <2>2 DEF Mailing, Addressed
  <2> QED
    BY <2>2, <2>3, <2>4, <2>6, <2>7 DEF Message
<1>3. ASSUME NEW w \in Workers, NEW what, at[w] \in Making, End(w, what), what # "not_found"
      PROVE  FALSE
  <2>1. job[w] \in Message
    BY <1>3 DEF RegInv, Messages, Making
  <2> QED
    BY <1>3, <2>1, Replied DEF RegInv, End
<1>4. ASSUME NEW w \in Workers, Make(w) \/ InitFails(w) \/ WipeFails(w)
      PROVE  FALSE
  <2>1. UNCHANGED last \/ \E what : at[w] \in Making /\ End(w, what) /\ what # "not_found"
    BY <1>4 DEF Make, InitFails, WipeFails, Check, Refuse, Replace, Wipe, MakeRoot, MakeFirst, MakeDir, MakeSecond, Context,
                Gate, Finish, Cleanup, request, Making
  <2> QED
    BY <1>3, <2>1
<1>5. ASSUME NEW c \in Clients,
             \/ Ask(c) \/ Enter(c) \/ Lookup(c) \/ Load(c) \/ LoadFails(c) \/ Insert(c)
             \/ Send(c) \/ BeginList(c) \/ ListSend(c) \/ EndList(c) \/ Disconnect(c)
      PROVE  FALSE
  <2>1. UNCHANGED last \/ last' = NoAnswer
    BY <1>5 DEF Ask, Enter, Lookup, Load, LoadFails, Insert, Send, BeginList, ListSend, EndList,
                Disconnect, Leave
  <2> QED
    BY <2>1 DEF NoAnswer
<1>6. ASSUME NEW a, TakeInit(a) \/ Invoke(a)
      PROVE  FALSE
  BY <1>6 DEF TakeInit, Invoke, request
<1>7. ASSUME Restart
      PROVE  FALSE
  BY <1>7 DEF Restart, NoAnswer
<1>8. ASSUME UNCHANGED vars
      PROVE  FALSE
  BY <1>8 DEF vars, request
<1>9. ASSUME NEW c, ExistsFails(c)
      PROVE  FALSE
  BY <1>9 DEF ExistsFails, Fault
<1> QED
  BY <1>1, <1>2, <1>4, <1>5, <1>6, <1>7, <1>8, <1>9 DEF Next, Serve, Work, Act

(* A workflow whose making the server acknowledged is never said not to be *)
(* there, by any request that races with others, with lost connections or  *)
(* with a restart, short of a stat that fails and of an actor whose load   *)
(* left it out.                                                            *)
THEOREM NobodyIsDenied == Spec => NeverDenied
<1> DEFINE Inv == RegInv /\ Mailing /\ Knowing /\ faults \in Nat
<1>1. Init => Inv
  BY RegInit, KnowsInit DEF Init
<1>2. Inv /\ [Next]_vars => Inv'
  BY RegNext, KnowsNext, FaultsCount
<1>3. Inv /\ [Next]_vars =>
        [(/\ last' # last /\ faults' = faults
          /\ <<last'.name, "server">> \in acked /\ last'.name \notin rivals
          /\ handles[last'.name] \notin skipped)
           => last'.what # "not_found"]_vars
  <2> SUFFICES ASSUME Inv, [Next]_vars, last' # last, faults' = faults,
                      <<last'.name, "server">> \in acked, last'.name \notin rivals,
                      handles[last'.name] \notin skipped, last'.what = "not_found"
               PROVE  FALSE
    OBVIOUS
  <2>1. last'.name \in Names
    BY Deniers
  <2>2. disk[last'.name] = Whole /\ "s2" \in FromDir(disk[last'.name])
        /\ "root" \in disk[last'.name]
    BY <2>1, AckedOnDisk DEF RegInv
  <2>3. handles[last'.name] # None => "s2" \in mem[handles[last'.name]][last'.name]
    BY <2>1 DEF Knowing, Known, Sees
  <2>4. \A a \in Actors : a # None
    BY RegistryOK
  <2> QED
    BY <2>2, <2>3, <2>4, Deniers
<1> HIDE DEF Inv
<1> QED
  BY <1>1, <1>2, <1>3, PTL DEF Spec, NeverDenied

=============================================================================
