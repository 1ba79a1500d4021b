---------------------------- MODULE ContentStore ----------------------------
(***************************************************************************)
(* The content-addressed store (zerochain-cas): the file system backend of *)
(* backend.rs, the S3 backend of s3.rs and the handlers of artifact.rs.    *)
(*                                                                         *)
(* A content stands for the bytes and for their CID.  What lies under a    *)
(* CID hashes to it ("whole") or does not ("torn").  Tasks of several      *)
(* processes put, get, read as a stream, list and delete.                  *)
(***************************************************************************)
EXTENDS Naturals, FiniteSets

CONSTANTS Tasks,      \* tasks of the processes, one operation at a time each
          ProcOf,     \* ProcOf[t]: the process of task t
          PidOf,      \* PidOf[p]: its PID, which names its temporary files
          Contents,
          Ops,        \* the operations the tasks ask for
          Chunks,     \* reads a stream takes before it is at its end
          MaxPuts,    \* bound on the puts a process begins
          Failing,    \* what may fail in this model
          MaxFaults,  \* bound on the failures
          None

Procs == {ProcOf[t] : t \in Tasks}
Pids == {PidOf[p] : p \in Procs}

ASSUME StoreOK ==
  /\ Ops \subseteq {"put", "get", "stream", "list", "delete"}
  /\ Failing \subseteq {"io", "crash", "rot"}
  /\ Chunks \in Nat \ {0} /\ MaxPuts \in Nat /\ MaxFaults \in Nat
  /\ None \notin Contents
  /\ \A p, q \in Procs : PidOf[p] = PidOf[q] => p = q

VARIABLES
  backend,  \* "local" or "s3"
  objects,  \* objects[c]: what lies under the CID of c
  temps,    \* temporary files: of what, by whom, and whether filled
  counter,  \* TEMP_COUNTER of each process
  pc,       \* pc[t]: where the operation is
  arg,      \* arg[t]: the content it is about, if it is about one
  temp,     \* temp[t]: the number of its temporary file
  stream,   \* stream[t]: how much was read, and whether it is the content
  seen,     \* seen[t]: the listing so far, and what it has still to look at
  answer,   \* answer[t]: how its last operation ended
  acked,    \* contents whose put was acknowledged and that nobody deleted
  harmed,   \* contents that rotted since they were last written
  faults

store == <<objects, temps, counter>>
control == <<pc, arg, temp, stream, seen, answer>>
vars == <<backend, store, control, acked, harmed, faults>>

NoStream == [read |-> 0, good |-> TRUE]
NoListing == [found |-> {}, todo |-> {}, dir |-> {}, always |-> {}]
Fault(what) == what \in Failing /\ faults < MaxFaults /\ faults' = faults + 1

Init ==
  /\ backend \in {"local", "s3"}
  /\ objects = [c \in Contents |-> "none"]
  /\ temps = {}
  /\ counter = [p \in Procs |-> 0]
  /\ pc = [t \in Tasks |-> "idle"]
  /\ arg = [t \in Tasks |-> None]
  /\ temp = [t \in Tasks |-> 0]
  /\ stream = [t \in Tasks |-> NoStream]
  /\ seen = [t \in Tasks |-> NoListing]
  /\ answer = [t \in Tasks |-> "none"]
  /\ acked = {}
  /\ harmed = {}
  /\ faults = 0

Goto(t, to) == pc' = [pc EXCEPT ![t] = to]

End(t, what) ==
  /\ Goto(t, "idle")
  /\ answer' = [answer EXCEPT ![t] = what]
  /\ temp' = [temp EXCEPT ![t] = 0]
  /\ stream' = [stream EXCEPT ![t] = NoStream]
  /\ seen' = [seen EXCEPT ![t] = NoListing]
  /\ arg' = [arg EXCEPT ![t] = None]

(* A listing remembers, for the properties, what was there all the time.   *)
StillThere(now) ==
  [t \in Tasks |-> [seen[t] EXCEPT !.always = @ \cap {c \in Contents : now[c] # "none"}]]

-----------------------------------------------------------------------------
(* put of the local backend: a temporary file, filled and renamed.         *)
TempOf(t) == [of |-> arg[t], pid |-> PidOf[ProcOf[t]], n |-> temp[t]]
Temp(t, full) == [file |-> TempOf(t), full |-> full]
Others(t) == {f \in temps : f.file # TempOf(t)}

Put(t) ==
  LET p == ProcOf[t] IN
  /\ pc[t] = "idle" /\ "put" \in Ops
  /\ counter[p] < MaxPuts
  /\ \E c \in Contents : arg' = [arg EXCEPT ![t] = c]
  /\ IF backend = "s3"
     THEN Goto(t, "head") /\ UNCHANGED <<counter, temp>>
     ELSE /\ Goto(t, "create")
          /\ temp' = [temp EXCEPT ![t] = counter[p]]
          /\ counter' = [counter EXCEPT ![p] = @ + 1]
  /\ answer' = [answer EXCEPT ![t] = "none"]
  /\ UNCHANGED <<backend, objects, temps, stream, seen, acked, harmed, faults>>

(* Mutant: the file is written where it is read.                           *)
CreateInPlace(t) ==
  /\ pc[t] = "create"
  /\ temps' = Others(t) \cup {Temp(t, FALSE)}
  /\ objects' = [objects EXCEPT ![arg[t]] = "torn"]
  /\ Goto(t, "fill")
  /\ UNCHANGED <<backend, counter, arg, temp, stream, seen, answer, acked, harmed, faults>>

Create(t) ==
  /\ pc[t] = "create"
  /\ temps' = Others(t) \cup {Temp(t, FALSE)}
  /\ Goto(t, "fill")
  /\ UNCHANGED <<backend, objects, counter, arg, temp, stream, seen, answer, acked, harmed, faults>>

Fill(t) ==
  /\ pc[t] = "fill"
  /\ temps' = Others(t) \cup {Temp(t, TRUE)}
  /\ Goto(t, "rename")
  /\ UNCHANGED <<backend, objects, counter, arg, temp, stream, seen, answer, acked, harmed, faults>>

(* A file system that does not rename onto a file says that it exists: the *)
(* object is left, and the temporary file is removed if that succeeds.     *)
Rename(t) ==
  LET c == arg[t] IN
  /\ pc[t] = "rename"
  /\ \/ /\ \E f \in temps :
             /\ f.file = TempOf(t)
             /\ objects' = [objects EXCEPT ![c] = IF f.full THEN "whole" ELSE "torn"]
        /\ temps' = Others(t)
        /\ harmed' = harmed \ {c}
        /\ UNCHANGED faults
     \/ /\ objects[c] # "none"
        /\ \/ temps' = Others(t) /\ UNCHANGED faults
           \/ Fault("io") /\ UNCHANGED temps
        /\ UNCHANGED <<objects, harmed>>
  /\ acked' = acked \cup {c}
  /\ End(t, "stored")
  /\ UNCHANGED <<backend, counter>>

(* put of the S3 backend: an object that exists is left as it is.          *)
Head(t) ==
  LET c == arg[t] IN
  /\ pc[t] = "head"
  /\ IF objects[c] = "none"
     THEN Goto(t, "upload") /\ UNCHANGED <<arg, temp, stream, seen, answer, acked>>
     ELSE acked' = acked \cup {c} /\ End(t, "stored")
  /\ UNCHANGED <<backend, store, harmed, faults>>

Upload(t) ==
  LET c == arg[t] IN
  /\ pc[t] = "upload"
  /\ objects' = [objects EXCEPT ![c] = "whole"]
  /\ acked' = acked \cup {c}
  /\ harmed' = harmed \ {c}
  /\ End(t, "stored")
  /\ UNCHANGED <<backend, temps, counter, faults>>

-----------------------------------------------------------------------------
(* get reads everything and compares the hash.                             *)
Get(t) ==
  /\ pc[t] = "idle" /\ "get" \in Ops
  /\ \E c \in Contents :
       answer' = [answer EXCEPT ![t] = CASE objects[c] = "none" -> "missing"
                                         [] objects[c] = "torn" -> "mismatch"
                                         [] OTHER -> "content"]
  /\ UNCHANGED <<backend, store, pc, arg, temp, stream, seen, acked, harmed, faults>>

(* get_reader: the local backend hashes the bytes as they pass.  The S3    *)
(* backend has fetched and compared all of them before it answers.         *)
OpenStream(t) ==
  /\ pc[t] = "idle" /\ "stream" \in Ops /\ backend = "local"
  /\ \E c \in Contents :
       IF objects[c] = "none"
       THEN answer' = [answer EXCEPT ![t] = "missing"] /\ UNCHANGED <<pc, arg, stream>>
       ELSE /\ arg' = [arg EXCEPT ![t] = c]
            /\ stream' = [stream EXCEPT ![t] = [read |-> 0, good |-> objects[c] = "whole"]]
            /\ answer' = [answer EXCEPT ![t] = "none"]
            /\ Goto(t, "stream")
  /\ UNCHANGED <<backend, store, temp, seen, acked, harmed, faults>>

Verdict(t) ==
  IF stream[t].good /\ stream[t].read = Chunks THEN "content" ELSE "mismatch"

(* Mutant: every poll that brings nothing is the end.                      *)
AtEndWithoutRoom(t, room) == ~room \/ stream[t].read = Chunks

(* A poll that brings nothing: at the end of the file when the buffer had  *)
(* room, and otherwise only a full buffer.                                 *)
AtEnd(t, room) == room /\ stream[t].read = Chunks

Poll(t) ==
  /\ pc[t] = "stream"
  /\ \E room \in BOOLEAN :
       CASE AtEnd(t, room) ->
              /\ Goto(t, "over")
              /\ answer' = [answer EXCEPT ![t] = Verdict(t)]
              /\ UNCHANGED <<arg, temp, stream, seen>>
         [] room /\ ~AtEnd(t, room) ->
              /\ stream' = [stream EXCEPT ![t].read = @ + 1]
              /\ UNCHANGED <<pc, arg, temp, seen, answer>>
         [] OTHER -> UNCHANGED control
  /\ UNCHANGED <<backend, store, acked, harmed, faults>>

(* The reader is dropped; one that is polled again, after a mismatch too,  *)
(* ends without an error.                                                  *)
Over(t) ==
  /\ pc[t] = "over"
  /\ \E what \in {Verdict(t), "end"} : End(t, what)
  /\ UNCHANGED <<backend, store, acked, harmed, faults>>

-----------------------------------------------------------------------------
(* list: one directory per prefix (here: per content).  The entries are    *)
(* read in one go and looked at one by one afterwards; a temporary file    *)
(* that has been renamed by then fails the listing.                        *)
Entries(c) == {f.file : f \in {g \in temps : g.file.of = c}}

BeginList(t) ==
  /\ pc[t] = "idle" /\ "list" \in Ops
  /\ seen' = [seen EXCEPT ![t] =
       [found |-> {}, todo |-> Contents, dir |-> {},
        always |-> {c \in Contents : objects[c] # "none"}]]
  /\ answer' = [answer EXCEPT ![t] = "none"]
  /\ Goto(t, "list")
  /\ UNCHANGED <<backend, store, arg, temp, stream, acked, harmed, faults>>

ReadDir(t) ==
  /\ pc[t] = "list"
  /\ \E c \in seen[t].todo :
       /\ arg' = [arg EXCEPT ![t] = c]
       /\ seen' = [seen EXCEPT ![t] =
            [found |-> IF objects[c] # "none" THEN @.found \cup {c} ELSE @.found,
             todo |-> @.todo \ {c}, dir |-> Entries(c), always |-> @.always]]
  /\ Goto(t, "stat")
  /\ UNCHANGED <<backend, store, temp, stream, answer, acked, harmed, faults>>

(* Mutant: a listing that meets a file that is gone says what it has.      *)
StatStops(t) ==
  /\ pc[t] = "stat"
  /\ IF seen[t].dir \subseteq Entries(arg[t])
     THEN Goto(t, "list") /\ arg' = [arg EXCEPT ![t] = None] /\ UNCHANGED <<temp, stream, seen, answer>>
     ELSE Goto(t, "list") /\ seen' = [seen EXCEPT ![t].todo = {}]
          /\ UNCHANGED <<arg, temp, stream, answer>>
  /\ UNCHANGED <<backend, store, acked, harmed, faults>>

(* An object that was deleted meanwhile fails the listing as well.         *)
Stat(t) ==
  /\ pc[t] = "stat"
  /\ IF \/ seen[t].dir \subseteq Entries(arg[t]) /\ (arg[t] \in seen[t].found => objects[arg[t]] # "none")
        \/ backend = "s3"
     THEN Goto(t, "list") /\ arg' = [arg EXCEPT ![t] = None] /\ UNCHANGED <<temp, stream, seen, answer>>
     ELSE End(t, "error")
  /\ UNCHANGED <<backend, store, acked, harmed, faults>>

EndList(t) ==
  /\ pc[t] = "list" /\ seen[t].todo = {}
  /\ End(t, "listed")
  /\ UNCHANGED <<backend, store, acked, harmed, faults>>

(* S3 answers that it has deleted what was not there, or 404.              *)
Delete(t) ==
  /\ pc[t] = "idle" /\ "delete" \in Ops
  /\ \E c \in Contents :
       IF objects[c] = "none"
       THEN /\ \E what \in {"missing", "deleted"} :
                 /\ what = "deleted" => backend = "s3"
                 /\ answer' = [answer EXCEPT ![t] = what]
            /\ UNCHANGED <<objects, acked, harmed, seen>>
       ELSE /\ objects' = [objects EXCEPT ![c] = "none"]
            /\ acked' = acked \ {c}
            /\ harmed' = harmed \ {c}
            /\ seen' = StillThere(objects')
            /\ answer' = [answer EXCEPT ![t] = "deleted"]
  /\ UNCHANGED <<backend, temps, counter, pc, arg, temp, stream, faults>>

-----------------------------------------------------------------------------
(* An operation of the file system or of S3 fails.  A put that fails       *)
(* leaves its temporary file as it is.                                     *)
IoFails(t) ==
  /\ pc[t] \notin {"idle", "over"}
  /\ Fault("io")
  /\ End(t, "error")
  /\ UNCHANGED <<backend, store, acked, harmed>>

(* A process dies and starts again under its PID.                          *)
Crash(p) ==
  LET mine == {t \in Tasks : ProcOf[t] = p}
      Reset(f, v) == [t \in Tasks |-> IF t \in mine THEN v ELSE f[t]]
  IN
  /\ Fault("crash")
  /\ counter' = [counter EXCEPT ![p] = 0]
  /\ pc' = Reset(pc, "idle")
  /\ temp' = Reset(temp, 0)
  /\ stream' = Reset(stream, NoStream)
  /\ seen' = Reset(seen, NoListing)
  /\ answer' = Reset(answer, "none")
  /\ arg' = Reset(arg, None)
  /\ UNCHANGED <<backend, objects, temps, acked, harmed>>

(* The stored bytes change, for some of those who read them, too.          *)
Rot ==
  /\ Fault("rot")
  /\ \E c \in Contents :
       /\ objects[c] = "whole"
       /\ objects' = [objects EXCEPT ![c] = "torn"]
       /\ harmed' = harmed \cup {c}
       /\ \E hit \in SUBSET {t \in Tasks : pc[t] = "stream" /\ arg[t] = c} :
            stream' = [t \in Tasks |-> IF t \in hit THEN [stream[t] EXCEPT !.good = FALSE]
                                                    ELSE stream[t]]
  /\ UNCHANGED <<backend, temps, counter, pc, arg, temp, seen, answer, acked>>

Next ==
  \/ \E t \in Tasks : \/ Put(t) \/ Create(t) \/ Fill(t) \/ Rename(t)
                      \/ Head(t) \/ Upload(t)
                      \/ Get(t) \/ OpenStream(t) \/ Poll(t) \/ Over(t)
                      \/ BeginList(t) \/ ReadDir(t) \/ Stat(t) \/ EndList(t)
                      \/ Delete(t) \/ IoFails(t)
  \/ \E p \in Procs : Crash(p)
  \/ Rot

Spec == Init /\ [][Next]_vars

-----------------------------------------------------------------------------
(* Every variable has its type.                                            *)
TypeOK ==
  /\ backend \in {"local", "s3"}
  /\ objects \in [Contents -> {"none", "whole", "torn"}]
  /\ temps \subseteq [file : [of : Contents, pid : Pids, n : 0..MaxPuts], full : BOOLEAN]
  /\ counter \in [Procs -> 0..MaxPuts]
  /\ pc \in [Tasks -> {"idle", "create", "fill", "rename", "head", "upload",
                       "stream", "over", "list", "stat"}]
  /\ arg \in [Tasks -> Contents \cup {None}]
  /\ temp \in [Tasks -> 0..MaxPuts]
  /\ stream \in [Tasks -> [read : 0..Chunks, good : BOOLEAN]]
  /\ answer \in [Tasks -> {"none", "stored", "content", "missing", "mismatch",
                           "end", "listed", "deleted", "error"}]
  /\ acked \subseteq Contents /\ harmed \subseteq Contents
  /\ faults \in 0..MaxFaults

(* "Writes are atomic (temp file + rename) to prevent partial reads"       *)
(* (backend.rs:113): whatever other tasks and processes do and wherever    *)
(* they die, a put that was acknowledged left its content under its CID,   *)
(* and nothing but decay makes what lies under a CID anything else.        *)
AckedStored ==
  /\ \A c \in acked \ harmed : objects[c] = "whole"
  /\ \A c \in Contents : objects[c] = "torn" => c \in harmed

(* HashingReader: a stream that ends well has brought exactly the content, *)
(* and one that reports a mismatch has not been the content: a full buffer *)
(* is not the end.                                                         *)
StreamHonest ==
  [][\A t \in Tasks :
       (pc[t] = "stream" /\ pc'[t] # "stream") =>
         CASE answer'[t] = "content" -> stream[t].good /\ stream[t].read = Chunks
           [] answer'[t] = "mismatch" -> ~stream[t].good
           [] OTHER -> TRUE]_vars

(* Not checked by a run, false: a stream that is at its end without an     *)
(* error was the content (it may have been polled again after a mismatch). *)
EndIsContent ==
  [][\A t \in Tasks : (pc[t] = "over" /\ answer'[t] = "end") => stream[t].good]_vars

(* A listing that succeeds has every object that was there all the time.   *)
ListComplete ==
  [][\A t \in Tasks :
       (pc[t] = "list" /\ answer'[t] = "listed") => seen[t].always \subseteq seen[t].found]_vars
=============================================================================
