------------------------------ MODULE Imports ------------------------------
(***************************************************************************)
(* File imports of one tenant: api/handlers/imports.rs, the task that      *)
(* extracts memories from an imported file (ingest/intelligence.rs), and   *)
(* the import_tasks table of store/spaces.rs.                              *)
(*                                                                         *)
(* A process is a request and then, if the request spawns one, the         *)
(* background task.  The task's record is one JSON document: every change  *)
(* of it is a read, a delete and an insert, by handlers and background     *)
(* tasks alike, and nobody holds a lock.  A request can be dropped at any  *)
(* await (30 s); a background task ends only by itself or with the server, *)
(* and goes on when a read or a write of its record fails.                 *)
(***************************************************************************)
EXTENDS Naturals, Sequences, FiniteSets

CONSTANTS
  Files,         \* contents of files (their SHA-256 hashes)
  Tasks,         \* import task ids (UUIDs: never reused)
  Procs,         \* requests and background tasks at once
  Ops,           \* the requests that an instance lets run
  ImportPermits, \* permits of the import semaphore
  MaxRequests    \* bound: requests

\* The columns of a task record that a decision depends on.
Record ==
  [status : {"processing", "completed", "failed", "rolled_back"},
   extraction : {"pending", "running", "completed", "skipped"},
   reconcile : {"pending", "running", "completed", "skipped"}]

\* Changes of a record that are written as a read, a delete and an insert.
Edits == {"start", "no_data", "progress", "extracted", "no_facts", "reconciling",
          "merged", "finish", "fail"}
\* Those that end the background task.
LastEdits == {"no_data", "no_facts", "finish", "fail"}

HandlerPhases == {"hash", "store", "record", "permit", "json", "sessions", "purge",
                  "retrigger", "rollback"}
TaskPhases    == Edits \cup {"read", "extract", "lock", "reconcile"}
Phases        == HandlerPhases \cup TaskPhases

ASSUME ImportsAssumption ==
  /\ ImportPermits \in Nat \ {0} /\ MaxRequests \in Nat
  /\ Ops \subseteq {"import", "force", "json", "trigger", "rollback"}
  /\ IsFiniteSet(Procs) /\ Tasks # {} /\ Files # {}

VARIABLES
  sessions,  \* the raw imports: which task stored which file
  rows,      \* rows[t]: the rows of the import_tasks table with id t
  memories,  \* memories of the personal store: who made them, their `source`
  pc,        \* pc[p]: "idle", or what p does next
  io,        \* io[p]: how far p is in writing a record
  job,       \* job[p]: what p has read
  made,      \* task ids in use
  recorded,  \* tasks whose record was inserted
  requests,  \* requests so far
  raced,     \* files with two imports in flight at once
  torn,      \* tasks whose record was lost between its delete and its insert
  stranded   \* tasks whose request was dropped before it could spawn, whose
             \* background task died with the server, or whose last edit failed

ghosts == <<made, recorded, requests, raced, torn, stranded>>
vars   == <<sessions, rows, memories, pc, io, job, ghosts>>

NoRecord == [status |-> "completed", extraction |-> "skipped", reconcile |-> "skipped"]
NoJob == [task |-> CHOOSE t \in Tasks : TRUE, file |-> CHOOSE f \in Files : TRUE,
          known |-> FALSE, post |-> FALSE, facts |-> FALSE, copy |-> NoRecord]

Raw    == [task : Tasks, file : Files]
Memory == [by : Tasks, source : {"ingest", "export"}]
Job    == [task : Tasks, file : Files, known : BOOLEAN, post : BOOLEAN,
           facts : BOOLEAN, copy : Record]

TypeOK ==
  /\ sessions \subseteq Raw /\ memories \subseteq Memory
  /\ rows \in [Tasks -> Seq(Record)]
  /\ pc \in [Procs -> Phases \cup {"idle"}]
  /\ io \in [Procs -> {"get", "delete", "add"}]
  /\ job \in [Procs -> Job]
  /\ recorded \subseteq made /\ made \subseteq Tasks
  /\ requests \in 0 .. MaxRequests
  /\ raced \subseteq Files /\ torn \subseteq Tasks /\ stranded \subseteq Tasks

Init ==
  /\ sessions = {} /\ memories = {}
  /\ rows = [t \in Tasks |-> <<>>]
  /\ pc = [p \in Procs |-> "idle"]
  /\ io = [p \in Procs |-> "get"]
  /\ job = [p \in Procs |-> NoJob]
  /\ made = {} /\ recorded = {} /\ requests = 0
  /\ raced = {} /\ torn = {} /\ stranded = {}

Goto(p, phase) == pc' = [pc EXCEPT ![p] = phase] /\ io' = [io EXCEPT ![p] = "get"]
Finish(p) == Goto(p, "idle") /\ job' = [job EXCEPT ![p] = NoJob]
RangeOf(s) == {s[k] : k \in DOMAIN s}

Request(p) ==
  /\ pc[p] = "idle" /\ requests < MaxRequests
  /\ requests' = requests + 1

-----------------------------------------------------------------------------
(* POST /v1/imports. *)

Known(f) == \E s \in sessions : s.file = f

Importing(f) == {p \in Procs : pc[p] \in {"hash", "store"} /\ job[p].file = f}

\* The file's hash is looked up, unless the import is forced.
ImportStart(p, t, f, post) ==
  /\ Request(p) /\ t \notin made
  /\ \/ "import" \in Ops /\ ~Known(f)
     \/ "force" \in Ops
  /\ Goto(p, "hash")
  /\ job' = [job EXCEPT ![p] = [NoJob EXCEPT !.task = t, !.file = f, !.post = post]]
  /\ made' = made \cup {t}
  /\ raced' = IF Importing(f) # {} THEN raced \cup {f} ELSE raced
  /\ UNCHANGED <<sessions, rows, memories, recorded, torn, stranded>>

\* Fault: bulk_create trusts the caller's look-up.
HashUnchecked(p) ==
  /\ pc[p] = "hash"
  /\ Goto(p, "store")
  /\ UNCHANGED <<sessions, rows, memories, job, ghosts>>

\* bulk_create looks the hash up again, also for a forced import ...
ReadHashes(p) ==
  /\ pc[p] = "hash"
  /\ Goto(p, "store")
  /\ job' = [job EXCEPT ![p].known = Known(job[p].file)]
  /\ UNCHANGED <<sessions, rows, memories, ghosts>>

\* ... and leaves out a text that is there.
StoreRaw(p) ==
  /\ pc[p] = "store"
  /\ sessions' = IF job[p].known THEN sessions
                 ELSE sessions \cup {[task |-> job[p].task, file |-> job[p].file]}
  /\ Goto(p, "record")
  /\ job' = [job EXCEPT ![p].known = FALSE]
  /\ UNCHANGED <<rows, memories, ghosts>>

NewRecord(post) ==
  IF post
  THEN [status |-> "processing", extraction |-> "pending", reconcile |-> "pending"]
  ELSE NoRecord

\* create_import_task.
RecordTask(p) ==
  /\ pc[p] = "record"
  /\ rows' = [rows EXCEPT ![job[p].task] = Append(@, NewRecord(job[p].post))]
  /\ recorded' = recorded \cup {job[p].task}
  /\ IF job[p].post THEN Goto(p, "permit") /\ UNCHANGED job ELSE Finish(p)
  /\ UNCHANGED <<sessions, memories, made, requests, raced, torn, stranded>>

\* The request waits for one of the import permits, then spawns the task.
Working == {p \in Procs : pc[p] \in TaskPhases}

Spawn(p) ==
  /\ pc[p] = "permit"
  /\ Cardinality(Working) < ImportPermits
  /\ Goto(p, "start")
  /\ UNCHANGED <<sessions, rows, memories, job, ghosts>>

\* A JSON export: its memories are created as they are; the file leaves no hash.
JsonImport(p, t) ==
  /\ Request(p) /\ "json" \in Ops /\ t \notin made
  /\ memories' = memories \cup {[by |-> t, source |-> "export"]}
  /\ Goto(p, "json")
  /\ job' = [job EXCEPT ![p] = [NoJob EXCEPT !.task = t]]
  /\ made' = made \cup {t}
  /\ UNCHANGED <<sessions, rows, recorded, raced, torn, stranded>>

JsonRecord(p) ==
  /\ pc[p] = "json"
  /\ rows' = [rows EXCEPT ![job[p].task] = Append(@, NoRecord)]
  /\ recorded' = recorded \cup {job[p].task}
  /\ Finish(p)
  /\ UNCHANGED <<sessions, memories, made, requests, raced, torn, stranded>>

-----------------------------------------------------------------------------
(* POST /v1/imports/{id}/intelligence and /rollback. *)

\* get_import_task, any one row; a task that is being processed is refused.
TriggerStart(p, t) ==
  /\ Request(p) /\ "trigger" \in Ops
  /\ \E r \in RangeOf(rows[t]) :
       /\ r.status # "processing"
       /\ job' = [job EXCEPT ![p] = [NoJob EXCEPT !.task = t,
                    !.copy = [status |-> "processing", extraction |-> "pending",
                              reconcile |-> "pending"]]]
  /\ pc' = [pc EXCEPT ![p] = "retrigger"]
  /\ io' = [io EXCEPT ![p] = "delete"]
  /\ UNCHANGED <<sessions, rows, memories, made, recorded, raced, torn, stranded>>

RollbackStart(p, t) ==
  /\ Request(p) /\ "rollback" \in Ops
  /\ \E r \in RangeOf(rows[t]) :
       job' = [job EXCEPT ![p] = [NoJob EXCEPT !.task = t,
                                    !.copy = [r EXCEPT !.status = "rolled_back"]]]
  /\ Goto(p, "sessions")
  /\ UNCHANGED <<sessions, rows, memories, made, recorded, raced, torn, stranded>>

RollbackSessions(p) ==
  /\ pc[p] = "sessions"
  /\ sessions' = {s \in sessions : s.task # job[p].task}
  /\ Goto(p, "purge")
  /\ UNCHANGED <<rows, memories, job, ghosts>>

\* The memories to remove are looked for by source = 'intelligence'.
RollbackMemories(p) ==
  /\ pc[p] = "purge"
  /\ memories' = {m \in memories : m.source # "intelligence"}
  /\ pc' = [pc EXCEPT ![p] = "rollback"]
  /\ io' = [io EXCEPT ![p] = "delete"]
  /\ UNCHANGED <<sessions, rows, job, ghosts>>

-----------------------------------------------------------------------------
(* Writing a record. *)

\* Fault: a status that no reader of the record knows.
EditedMisspelled(edit, r) ==
  IF edit = "fail" THEN [r EXCEPT !.status = "error"] ELSE r

\* What a set_task_field changes.  Counters and errors are not modelled, but a
\* change of them alone writes the whole record back all the same.
Edited(edit, r) ==
  CASE edit = "start"       -> [r EXCEPT !.extraction = "running"]
    [] edit = "no_data"     -> [r EXCEPT !.extraction = "completed",
                                         !.reconcile = "skipped", !.status = "completed"]
    [] edit = "extracted"   -> [r EXCEPT !.extraction = "completed"]
    [] edit = "no_facts"    -> [r EXCEPT !.reconcile = "skipped", !.status = "completed"]
    [] edit = "reconciling" -> [r EXCEPT !.reconcile = "running"]
    [] edit = "finish"      -> [r EXCEPT !.reconcile = "completed", !.status = "completed"]
    [] edit = "fail"        -> [r EXCEPT !.status = "failed"]
    [] OTHER                -> r

\* Where the task goes once the change is written.
AfterEdit(p) ==
  CASE pc[p] = "start"       -> "read"
    [] pc[p] = "progress"    -> "extracted"
    [] pc[p] = "extracted"   -> IF job[p].facts THEN "reconciling" ELSE "no_facts"
    [] pc[p] = "reconciling" -> "lock"
    [] pc[p] = "merged"      -> "finish"
    [] pc[p] = "retrigger"   -> "permit"
    [] OTHER                 -> "idle"

Leave(p) == IF AfterEdit(p) = "idle" THEN Finish(p)
            ELSE /\ Goto(p, AfterEdit(p))
                 /\ job' = [job EXCEPT ![p].copy = NoRecord]

Tear(P) == torn' = torn \cup {job[p].task : p \in {q \in P : io[q] = "add"}}

\* set_task_field passes over the error of a read, a delete or an insert: the
\* change is not made, after the delete the record is lost, and the task goes on.
EditFails(p) ==
  /\ pc[p] \in Edits
  /\ Tear({p})
  /\ stranded' = IF pc[p] \in LastEdits THEN stranded \cup {job[p].task} ELSE stranded
  /\ Leave(p)
  /\ UNCHANGED <<sessions, rows, memories, made, recorded, requests, raced>>

\* A record that is not there right now is not changed at all.
EditGet(p) ==
  /\ pc[p] \in Edits /\ io[p] = "get"
  /\ \/ /\ rows[job[p].task] = <<>>
        /\ Leave(p)
     \/ \E r \in RangeOf(rows[job[p].task]) :
          /\ io' = [io EXCEPT ![p] = "delete"]
          /\ job' = [job EXCEPT ![p].copy = Edited(pc[p], r)]
          /\ UNCHANGED pc
  /\ UNCHANGED <<sessions, rows, memories, ghosts>>

\* update_import_task: delete every row with the id ...
EditDelete(p) ==
  /\ pc[p] # "idle" /\ io[p] = "delete"
  /\ rows' = [rows EXCEPT ![job[p].task] = <<>>]
  /\ io' = [io EXCEPT ![p] = "add"]
  /\ UNCHANGED <<sessions, memories, pc, job, ghosts>>

\* Fault: the record is written only if it is still there.
EditAddIfThere(p) ==
  /\ pc[p] # "idle" /\ io[p] = "add"
  /\ rows' = [rows EXCEPT ![job[p].task] = [k \in DOMAIN @ |-> job[p].copy]]
  /\ Leave(p)
  /\ UNCHANGED <<sessions, memories, ghosts>>

\* ... and insert the changed copy.
EditAdd(p) ==
  /\ pc[p] # "idle" /\ io[p] = "add"
  /\ rows' = [rows EXCEPT ![job[p].task] = Append(@, job[p].copy)]
  /\ Leave(p)
  /\ UNCHANGED <<sessions, memories, ghosts>>

-----------------------------------------------------------------------------
(* The background task: IntelligenceTask::run. *)

\* Fault: without session data the task just ends.
ReadRawSilently(p) ==
  /\ pc[p] = "read"
  /\ IF \E s \in sessions : s.task = job[p].task
     THEN Goto(p, "extract") /\ UNCHANGED job
     ELSE Finish(p)
  /\ UNCHANGED <<sessions, rows, memories, ghosts>>

\* The texts of the import are read, unless that fails.
ReadRaw(p) ==
  /\ pc[p] = "read"
  /\ \/ Goto(p, IF \E s \in sessions : s.task = job[p].task THEN "extract" ELSE "no_data")
     \/ Goto(p, "fail")
  /\ UNCHANGED <<sessions, rows, memories, job, ghosts>>

\* The LLM finds facts, finds none, or fails (one chunk of text).
Extract(p) ==
  /\ pc[p] = "extract"
  /\ \/ Goto(p, "fail") /\ UNCHANGED job
     \/ /\ Goto(p, "progress")
        /\ \E found \in BOOLEAN : job' = [job EXCEPT ![p].facts = found]
  /\ UNCHANGED <<sessions, rows, memories, ghosts>>

\* Processes that hold the reconcile semaphore: it is released at the very end.
Reconciling == {p \in Procs : pc[p] \in {"reconcile", "merged", "finish"}}

\* Fault: no semaphore.
LockFree(p) ==
  /\ pc[p] = "lock"
  /\ Goto(p, "reconcile")
  /\ UNCHANGED <<sessions, rows, memories, job, ghosts>>

Lock(p) ==
  /\ pc[p] = "lock"
  /\ Reconciling = {}
  /\ Goto(p, "reconcile")
  /\ UNCHANGED <<sessions, rows, memories, job, ghosts>>

\* The reconciler stores facts (source "ingest"), merges them into memories that
\* are there, or fails: all of them end in "completed".
Reconcile(p) ==
  /\ pc[p] = "reconcile"
  /\ \/ memories' = memories \cup {[by |-> job[p].task, source |-> "ingest"]}
     \/ UNCHANGED memories
  /\ Goto(p, "merged")
  /\ UNCHANGED <<sessions, rows, job, ghosts>>

-----------------------------------------------------------------------------
(* Failures. *)

\* A request is dropped or fails; its task, if it was to have one, never starts.
Drop(p) ==
  /\ pc[p] \in HandlerPhases
  /\ Tear({p})
  /\ stranded' = IF pc[p] = "permit" THEN stranded \cup {job[p].task} ELSE stranded
  /\ Finish(p)
  /\ UNCHANGED <<sessions, rows, memories, made, recorded, requests, raced>>

\* The server dies; nothing restarts its background tasks.
Crash ==
  /\ \E p \in Procs : pc[p] # "idle"
  /\ Tear(Procs)
  /\ stranded' = stranded \cup {job[p].task : p \in {q \in Procs : pc[q] # "idle"}}
  /\ pc' = [p \in Procs |-> "idle"]
  /\ io' = [p \in Procs |-> "get"]
  /\ job' = [p \in Procs |-> NoJob]
  /\ UNCHANGED <<sessions, rows, memories, made, recorded, requests, raced>>

Start(p) ==
  \E t \in Tasks :
    \/ \E f \in Files, post \in BOOLEAN : ImportStart(p, t, f, post)
    \/ JsonImport(p, t) \/ TriggerStart(p, t) \/ RollbackStart(p, t)

HandlerStep(p) ==
  \/ ReadHashes(p) \/ StoreRaw(p) \/ RecordTask(p) \/ JsonRecord(p)
  \/ RollbackSessions(p) \/ RollbackMemories(p)

TaskStep(p) ==
  EditFails(p) \/ EditGet(p) \/ EditDelete(p) \/ EditAdd(p) \/ ReadRaw(p) \/ Extract(p) \/ Reconcile(p)

Next ==
  \/ \E p \in Procs :
       \/ Start(p) \/ HandlerStep(p) \/ TaskStep(p) \/ Spawn(p) \/ Lock(p) \/ Drop(p)
  \/ Crash

\* The runtime goes on polling what is spawned or awaited; a permit that is free
\* again and again is given to each waiter in turn (tokio's semaphore is FIFO).
\* Steps other than those that take a permit stay enabled until they are taken.
Fairness == \A p \in Procs : SF_vars(HandlerStep(p) \/ TaskStep(p) \/ Spawn(p) \/ Lock(p))

Spec == Init /\ [][Next]_vars /\ Fairness

-----------------------------------------------------------------------------
(* Properties. *)

Active(t) == {p \in Procs : pc[p] # "idle" /\ job[p].task = t}

\* A task that says "processing" (and so refuses to be triggered) has a request
\* or a background task that will say otherwise, whatever rollbacks, triggers
\* and progress reports write over each other and whichever of them fail; the
\* exceptions are a request dropped while it waited for its permit, a last edit
\* that failed, and a crash.
ProcessingHasRunner ==
  \A t \in Tasks \ stranded :
    (\E r \in RangeOf(rows[t]) : r.status = "processing") => Active(t) # {}

\* A file is stored for one task only, unless two imports of it overlapped.
StoredOnceUnlessRaced ==
  \A s1, s2 \in sessions : s1.file = s2.file /\ s1.file \notin raced => s1 = s2

\* The record of a task disappears only while it is being rewritten, or when
\* the rewrite was cut off, or its insert failed.
NoTaskLost ==
  \A t \in recorded \ torn : rows[t] = <<>> => \E p \in Active(t) : io[p] = "add"

\* Two imports never reconcile at once: each one's facts are compared with
\* memories that no other import is changing.
OneReconcile == Cardinality(Reconciling) <= 1

\* Every import that keeps its request and its server comes to an end, whatever
\* fails on the way but the last edit of its record: it is not processing forever.
ImportSettles ==
  \A t \in Tasks :
    []<>(t \in stranded \/ \A r \in RangeOf(rows[t]) : r.status # "processing")

\* docs/API.md:595: a rollback deletes all the memories that the import produced.
RollbackRemovesFacts ==
  \A t \in Tasks : Active(t) = {} =>
    \A r \in RangeOf(rows[t]) : r.status = "rolled_back" =>
      \A m \in memories : m.by # t

\* docs/API.md: force=true skips the duplicate check, to import a file again.  Here:
\* an import that is recorded has its text stored.
ForcedImportStored ==
  \A t \in Tasks : \A r \in RangeOf(rows[t]) :
    r.status = "processing" /\ r.extraction = "pending" =>
      \E s \in sessions : s.task = t

\* The records of imports through racing triggers, rollbacks, dropped
\* requests, failing writes and crashes (api/handlers/imports.rs, ingest/intelligence.rs).
ImportsSafe ==
  TypeOK /\ ProcessingHasRunner /\ StoredOnceUnlessRaced /\ NoTaskLost /\ OneReconcile
=============================================================================
