---------------------------- MODULE PromptBridge ----------------------------
(***************************************************************************)
(* Prompts between stages: the handlers send and poll (prompt.rs), the     *)
(* in-memory and the NATS broker (zerochain-broker), and the background    *)
(* subscriber that writes each prompt into the input directory of the      *)
(* stage it is for (subscriber.rs).                                        *)
(*                                                                         *)
(* A message in a queue is its position in `log`, the order in which the   *)
(* prompts were published.  The input of every stage but the first is a    *)
(* link to the output of the one before, as init_workflow makes it, so a   *)
(* run of that stage, which empties its output, is part of the model.      *)
(***************************************************************************)
EXTENDS Naturals, Sequences, FiniteSets

CONSTANTS Senders, Pollers,
          Bridge,       \* the subscription of the background subscriber
          Workflows,    \* workflow names, as the tokens between their dots
          StageNames,   \* the stages of a workflow, in their order
          Routes,       \* the pairs <<from, to>> of stages prompts are for
          Ring, Fwd,    \* capacity of a broadcast channel and of its forward
          MaxPrompts,   \* bound on the prompts
          Failures,     \* what may fail in this model
          MaxFailures,  \* bound on the failures
          None, Torn

Stages == DOMAIN StageNames
Subs == {Bridge} \cup Pollers
Positions == 1..MaxPrompts

ASSUME BridgeOK ==
  /\ StageNames \in Seq(STRING)
  /\ Workflows \subseteq Seq(STRING) \ {<<>>}
  /\ Routes \subseteq Stages \X Stages
  /\ Ring \in Nat \ {0} /\ Fwd \in Nat \ {0}
  /\ MaxPrompts \in Nat /\ MaxFailures \in Nat
  /\ Failures \subseteq {"io", "stop"}
  /\ Bridge \notin Pollers

VARIABLES
  broker,    \* "memory" or "nats"
  cas,       \* prompts that are stored, by their number
  asked,     \* number of prompts so far
  log,       \* prompts published, in order
  at,        \* at[c]: where a sender or poller is
  ask,       \* ask[c]: the prompt of a sender, the stage of a poller
  topic,     \* topic[s]: the subject subscribed, None if not subscribed
  ring,      \* ring[s]: the broadcast channel as the forwarding task sees it
  held,      \* held[s]: the message that task waits to pass on
  fwd,       \* fwd[s]: the channel to the subscription
  job,       \* the message the background subscriber works on
  step,      \* where it is
  file,      \* file[w][to][from]: input/<from>.md of stage `to`
  running,   \* stages whose run has emptied its output
  answered,  \* prompts answered with 200
  excused,   \* prompts that need not arrive: nobody listened, lag, a failure
  bridged,   \* prompts that were written
  failures

queues == <<topic, ring, held, fwd>>
sending == <<cas, asked, log, at, ask>>
worker == <<job, step>>
tally == <<answered, excused, bridged, failures>>
bridgeVars == <<broker, sending, queues, worker, file, running, tally>>

Clients == Senders \cup Pollers
NoPrompt == [id |-> 0, wf |-> <<>>, from |-> 0, to |-> 0]
Failure(what) == what \in Failures /\ failures < MaxFailures /\ failures' = failures + 1

Subject(wf, stage) == <<"zerochain">> \o wf \o <<StageNames[stage]>>
Everything == <<"zerochain", "*", "*">>

(* subject_matches: "*" stands for one token.                              *)
SubjectMatches(pattern, subject) ==
  /\ Len(pattern) = Len(subject)
  /\ \A i \in 1..Len(pattern) : pattern[i] \in {"*", subject[i]}

BridgeInit ==
  /\ broker \in {"memory", "nats"}
  /\ cas = {} /\ asked = 0 /\ log = <<>>
  /\ at = [c \in Clients |-> "idle"]
  /\ ask = [c \in Clients |-> NoPrompt]
  /\ topic = [s \in Subs |-> None]
  /\ ring = [s \in Subs |-> <<>>]
  /\ held = [s \in Subs |-> 0]
  /\ fwd = [s \in Subs |-> <<>>]
  /\ job = 0 /\ step = "starting"
  /\ file = [w \in Workflows |-> [to \in Stages |-> [from \in Stages |-> None]]]
  /\ running = {}
  /\ answered = {} /\ excused = {} /\ bridged = {}
  /\ failures = 0

Proceed(c, to) == at' = [at EXCEPT ![c] = to]

-----------------------------------------------------------------------------
(* send: the prompt goes to the store, then its CID to the broker.         *)
Ask(c) ==
  /\ at[c] = "idle"
  /\ asked < MaxPrompts
  /\ asked' = asked + 1
  /\ \E w \in Workflows, route \in Routes :
       ask' = [ask EXCEPT ![c] =
                [id |-> asked + 1, wf |-> w, from |-> route[1], to |-> route[2]]]
  /\ Proceed(c, "put")
  /\ UNCHANGED <<broker, cas, log, queues, worker, file, running, tally>>

Store(c) ==
  /\ at[c] = "put"
  /\ cas' = cas \cup {ask[c].id}
  /\ Proceed(c, "publish")
  /\ UNCHANGED <<broker, asked, log, ask, queues, worker, file, running, tally>>

Listening(m) ==
  {s \in Subs : topic[s] # None /\ SubjectMatches(topic[s], Subject(m.wf, m.to))}

(* A full broadcast channel drops its oldest message.  The NATS client has *)
(* a queue of its own, external to this code, that the model never fills.  *)
Full(s) == broker = "memory" /\ Len(ring[s]) = Ring

Enqueue(c) ==
  LET n == Len(log) + 1
      to == Listening(ask[c])
  IN
  /\ at[c] = "publish"
  /\ log' = Append(log, ask[c])
  /\ ring' = [s \in Subs |-> IF s \notin to THEN ring[s]
                             ELSE Append(IF Full(s) THEN Tail(ring[s]) ELSE ring[s], n)]
  /\ excused' = excused
       \cup (IF topic[Bridge] = None THEN {n} ELSE {})
       \cup (IF Bridge \in to /\ Full(Bridge) THEN {Head(ring[Bridge])} ELSE {})
  /\ ask' = [ask EXCEPT ![c] = NoPrompt]
  /\ Proceed(c, "idle")
  /\ UNCHANGED <<broker, cas, asked, topic, held, fwd, worker, file, running, bridged>>

Send(c) ==
  /\ Enqueue(c)
  /\ answered' = answered \cup {Len(log')}
  /\ UNCHANGED failures

(* The flush fails after the message has gone out: an error is answered.   *)
FlushFails(c) ==
  /\ broker = "nats"
  /\ Enqueue(c)
  /\ Failure("io")
  /\ UNCHANGED answered

(* The store or the broker fails, or the client goes: no answer with 200.  *)
SendFails(c) ==
  /\ at[c] \in {"put", "publish"}
  /\ Failure("io")
  /\ ask' = [ask EXCEPT ![c] = NoPrompt]
  /\ Proceed(c, "idle")
  /\ UNCHANGED <<broker, cas, asked, log, queues, worker, file, running, answered, excused, bridged>>

-----------------------------------------------------------------------------
(* The forwarding task of a subscription takes one message and waits until *)
(* it has passed it on.                                                    *)
Take(s) ==
  /\ topic[s] # None
  /\ held[s] = 0 /\ ring[s] # <<>>
  /\ held' = [held EXCEPT ![s] = Head(ring[s])]
  /\ ring' = [ring EXCEPT ![s] = Tail(@)]
  /\ UNCHANGED <<broker, sending, topic, fwd, worker, file, running, tally>>

(* Mutant: a message is dropped when there is no room for it.              *)
PassOrDrop(s) ==
  /\ held[s] # 0
  /\ fwd' = [fwd EXCEPT ![s] = IF Len(@) < Fwd THEN Append(@, held[s]) ELSE @]
  /\ held' = [held EXCEPT ![s] = 0]
  /\ UNCHANGED <<broker, sending, topic, ring, worker, file, running, tally>>

Pass(s) ==
  /\ held[s] # 0
  /\ Len(fwd[s]) < Fwd
  /\ fwd' = [fwd EXCEPT ![s] = Append(@, held[s])]
  /\ held' = [held EXCEPT ![s] = 0]
  /\ UNCHANGED <<broker, sending, topic, ring, worker, file, running, tally>>

Subscribe(s, subject) == topic' = [topic EXCEPT ![s] = subject]

(* Dropping a subscription ends its task with what is under way.           *)
Unsubscribe(s) ==
  /\ topic' = [topic EXCEPT ![s] = None]
  /\ ring' = [ring EXCEPT ![s] = <<>>]
  /\ held' = [held EXCEPT ![s] = 0]
  /\ fwd' = [fwd EXCEPT ![s] = <<>>]

(* poll: the first message after the subscription, or a time-out.          *)
BeginPoll(c) ==
  /\ at[c] = "idle"
  /\ \E w \in Workflows, stage \in {route[2] : route \in Routes} :
       /\ Subscribe(c, Subject(w, stage))
       /\ ask' = [ask EXCEPT ![c] = [NoPrompt EXCEPT !.wf = w, !.to = stage, !.id = Len(log)]]
  /\ Proceed(c, "poll")
  /\ UNCHANGED <<broker, cas, asked, log, ring, held, fwd, worker, file, running, tally>>

EndPoll(c) ==
  /\ at[c] = "poll"
  /\ Unsubscribe(c)
  /\ ask' = [ask EXCEPT ![c] = NoPrompt]
  /\ Proceed(c, "idle")
  /\ UNCHANGED <<broker, cas, asked, log, worker, file, running, tally>>

-----------------------------------------------------------------------------
(* The background subscriber, one message at a time.                       *)
Start ==
  /\ step = "starting"
  /\ Subscribe(Bridge, Everything)
  /\ step' = "listening"
  /\ UNCHANGED <<broker, sending, ring, held, fwd, job, file, running, tally>>

(* The subscription fails: the background subscriber ends for good.        *)
StartFails ==
  /\ step = "starting"
  /\ broker = "nats"
  /\ Failure("io")
  /\ step' = "ended"
  /\ UNCHANGED <<broker, sending, queues, job, file, running, answered, excused, bridged>>

(* Mutant: messages are handled as they come to hand.                      *)
ReceiveAny ==
  /\ step = "listening"
  /\ \E i \in DOMAIN fwd[Bridge] :
       /\ job' = fwd[Bridge][i]
       /\ fwd' = [fwd EXCEPT ![Bridge] =
                   SubSeq(@, 1, i - 1) \o SubSeq(@, i + 1, Len(@))]
  /\ step' = "fetching"
  /\ UNCHANGED <<broker, sending, topic, ring, held, file, running, tally>>

Receive ==
  /\ step = "listening"
  /\ fwd[Bridge] # <<>>
  /\ job' = Head(fwd[Bridge])
  /\ fwd' = [fwd EXCEPT ![Bridge] = Tail(@)]
  /\ step' = "fetching"
  /\ UNCHANGED <<broker, sending, topic, ring, held, file, running, tally>>

(* The content is fetched; without it the message is given up.             *)
Fetch ==
  /\ step = "fetching"
  /\ IF log[job].id \in cas
     THEN step' = "writing" /\ UNCHANGED job
     ELSE step' = "listening" /\ job' = 0
  /\ UNCHANGED <<broker, sending, queues, file, running, tally>>

Set(what) == file' = [file EXCEPT ![log[job].wf][log[job].to][log[job].from] = what]

(* The file is written in place: it is emptied, then filled.               *)
OpenFile ==
  /\ step = "writing"
  /\ Set(Torn)
  /\ step' = "filling"
  /\ UNCHANGED <<broker, sending, queues, job, running, tally>>

FillFile ==
  /\ step = "filling"
  /\ IF file[log[job].wf][log[job].to][log[job].from] = Torn THEN Set(job) ELSE UNCHANGED file
  /\ bridged' = bridged \cup {job}
  /\ step' = "listening" /\ job' = 0
  /\ UNCHANGED <<broker, sending, queues, running, answered, excused, failures>>

(* The store, the directory or the file fails: the message is given up.    *)
BridgeFails ==
  /\ step \in {"fetching", "writing", "filling"}
  /\ Failure("io")
  /\ excused' = excused \cup {job}
  /\ step' = "listening" /\ job' = 0
  /\ UNCHANGED <<broker, sending, queues, file, running, answered, bridged>>

(* The server ends, at a signal or by dying, and starts again: what was in *)
(* the queues is gone.                                                     *)
Restart ==
  /\ Failure("stop")
  /\ excused' = excused \cup (DOMAIN log \ bridged)
  /\ topic' = [s \in Subs |-> None]
  /\ ring' = [s \in Subs |-> <<>>]
  /\ held' = [s \in Subs |-> 0]
  /\ fwd' = [s \in Subs |-> <<>>]
  /\ job' = 0 /\ step' = "starting"
  /\ at' = [c \in Clients |-> "idle"]
  /\ ask' = [c \in Clients |-> NoPrompt]
  /\ running' = {}
  /\ UNCHANGED <<broker, cas, asked, log, file, answered, bridged>>

-----------------------------------------------------------------------------
(* Mutant: the run empties its input as well.                              *)
EmptiedToo(w, stage) ==
  [file EXCEPT ![w] = [to \in Stages |-> IF to \in {stage, stage + 1} THEN [from \in Stages |-> None] ELSE @[to]]]

(* A run of a stage empties its output, which is the input of the next.    *)
(* In the model every stage runs at most once between two restarts.        *)
Emptied(w, stage) ==
  [file EXCEPT ![w] = [to \in Stages |-> IF to = stage + 1 THEN [from \in Stages |-> None] ELSE @[to]]]

RunStage(w, stage) ==
  /\ <<w, stage>> \notin running
  /\ running' = running \cup {<<w, stage>>}
  /\ file' = Emptied(w, stage)
  /\ UNCHANGED <<broker, sending, queues, worker, tally>>

Work == Start \/ Receive \/ Fetch \/ OpenFile \/ FillFile
Forward(s) == Take(s) \/ Pass(s)

BridgeNext ==
  \/ \E c \in Senders : Ask(c) \/ Store(c) \/ Send(c) \/ FlushFails(c) \/ SendFails(c)
  \/ \E c \in Pollers : BeginPoll(c) \/ EndPoll(c)
  \/ \E s \in Subs : Forward(s)
  \/ Work \/ StartFails \/ BridgeFails \/ Restart
  \/ \E w \in Workflows, stage \in Stages : RunStage(w, stage)

BridgeSpec == BridgeInit /\ [][BridgeNext]_bridgeVars

(* Tokio runs the tasks that can run.                                      *)
BridgeFairSpec == BridgeSpec /\ WF_bridgeVars(Work) /\ \A s \in Subs : WF_bridgeVars(Forward(s))
-----------------------------------------------------------------------------
(* Every variable has its type; the channels keep to their bounds.         *)
BridgeTypeOK ==
  /\ broker \in {"memory", "nats"}
  /\ cas \subseteq Positions /\ asked \in 0..MaxPrompts
  /\ log \in Seq([id : Positions, wf : Workflows, from : Stages, to : Stages])
  /\ at \in [Clients -> {"idle", "put", "publish", "poll"}]
  /\ ask \in [Clients -> [id : 0..MaxPrompts, wf : Workflows \cup {<<>>},
                          from : Stages \cup {0}, to : Stages \cup {0}]]
  /\ \A s \in Subs :
       /\ ring[s] \in Seq(Positions) /\ fwd[s] \in Seq(Positions)
       /\ held[s] \in Positions \cup {0}
       /\ Len(fwd[s]) <= Fwd
       /\ broker = "memory" => Len(ring[s]) <= Ring
       /\ topic[s] = None => ring[s] = <<>> /\ fwd[s] = <<>> /\ held[s] = 0
  /\ job \in Positions \cup {0}
  /\ step \in {"starting", "listening", "fetching", "writing", "filling", "ended"}
  /\ file \in [Workflows -> [Stages -> [Stages -> Positions \cup {None, Torn}]]]
  /\ running \subseteq Workflows \X Stages
  /\ answered \cup excused \cup bridged \subseteq DOMAIN log
  /\ failures \in 0..MaxFailures

SameFile(m, n) ==
  log[m].wf = log[n].wf /\ log[m].to = log[n].to /\ log[m].from = log[n].from

InFile(n) == file[log[n].wf][log[n].to][log[n].from]

(* When a message arrives, its content gets into the input directory of    *)
(* the stage it is for (subscriber.rs:5): every prompt that was answered   *)
(* with 200 does, unless nobody listened when it was published, the        *)
(* subscriber fell behind the channel, or it failed or was stopped.  This  *)
(* is about names of one part: the subscription does not match the subject *)
(* of a workflow with a dot in its name, and no run has one.               *)
Arrives == \A n \in Positions : n \in answered ~> n \in bridged \cup excused

(* A prompt is never written over a later one of the same stages.          *)
NeverOlder ==
  [][\A n \in bridged' \ bridged : \A m \in bridged : SameFile(m, n) => m < n]_bridgeVars

(* A prompt that was written stays until a later one is, unless the stage  *)
(* in front has been run, into whose output the link leads.                *)
StaysInInput ==
  failures = 0 =>
    \A n \in bridged :
      \/ InFile(n) = n
      \/ \E m \in bridged : m > n /\ SameFile(m, n)
      \/ job # 0 /\ SameFile(job, n)
      \/ <<log[n].wf, log[n].to - 1>> \in running
=============================================================================
