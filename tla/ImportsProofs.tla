---------------------------- MODULE ImportsProofs ----------------------------
(***************************************************************************)
(* Proofs about Imports, for any files, tasks and processes and any number *)
(* of requests: the records of imports are kept and settled by somebody, a *)
(* file is stored once, and one import reconciles at a time.               *)
(***************************************************************************)
EXTENDS Imports, FiniteSetTheorems, TLAPS

\* The writes that end a request or a task.
Final == LastEdits \cup {"rollback"}

\* Who has yet to settle a task: its background task, or a request that waits
\* to spawn it, until the record of its end is all there is left to insert.
Settling(p) ==
  /\ pc[p] \in TaskPhases \cup {"permit"}
  /\ ~(pc[p] \in Final /\ io[p] = "add")

-----------------------------------------------------------------------------
(* The invariant. *)

\* Only those who write a record are within a write.
Writers ==
  \A p \in Procs : io[p] # "get" => pc[p] \in Edits \cup {"retrigger", "rollback"}

\* What is written last does not say "processing".
FinalCopies ==
  \A p \in Procs :
    /\ pc[p] \in Final /\ io[p] # "get" => job[p].copy.status # "processing"
    /\ pc[p] \in {"sessions", "purge", "rollback"} => job[p].copy.status # "processing"

\* A new task has its id.
IdsMade == \A p \in Procs : pc[p] \in {"hash", "store", "record", "json"} => job[p].task \in made

\* A record that says "processing" has somebody who settles it.
Settled ==
  \A t \in Tasks \ stranded : \A r \in RangeOf(rows[t]) :
    r.status = "processing" => \E p \in Procs : Settling(p) /\ job[p].task = t

\* Between its look at the hashes and its insertion an import of a file that
\* is not raced is the only one, and the file is not there.
Alone ==
  \A p \in Procs : job[p].file \notin raced =>
    /\ pc[p] \in {"hash", "store"} =>
         \A q \in Procs : pc[q] \in {"hash", "store"} /\ job[q].file = job[p].file => q = p
    /\ pc[p] = "store" /\ ~job[p].known => ~Known(job[p].file)

\* One process is past the reconcile semaphore.
OneHolder == \A p, q \in Reconciling : p = q

IInv ==
  /\ TypeOK /\ Writers /\ FinalCopies /\ IdsMade
  /\ Settled /\ NoTaskLost /\ StoredOnceUnlessRaced /\ Alone /\ OneHolder

-----------------------------------------------------------------------------
(* Types. *)

\* An idle process has the type of a job.
LEMMA NoJobType == NoJob \in Job
BY ImportsAssumption DEF NoJob, NoRecord, Job, Record

\* Where a write leads to is a phase.
LEMMA AfterEditType ==
  ASSUME NEW p \in Procs
  PROVE  AfterEdit(p) \in Phases \cup {"idle"}
BY DEF AfterEdit, Phases, HandlerPhases, TaskPhases, Edits

\* What an edit makes of a record is one.
LEMMA EditedType ==
  ASSUME NEW e, NEW r \in Record
  PROVE  Edited(e, r) \in Record
BY DEF Edited, Record

\* The end of a process, or its next phase after a write.
LEMMA LeaveType ==
  ASSUME TypeOK, NEW p \in Procs, Leave(p)
  PROVE  /\ pc' \in [Procs -> Phases \cup {"idle"}]
         /\ io' \in [Procs -> {"get", "delete", "add"}]
         /\ job' \in [Procs -> Job]
<1>1. NoRecord \in Record
  BY DEF NoRecord, Record
<1>2. [job[p] EXCEPT !.copy = NoRecord] \in Job
  <2>1. job[p] \in Job  BY DEF TypeOK
  <2>2. QED  BY <1>1, <2>1 DEF Job
<1>3. AfterEdit(p) \in Phases \cup {"idle"}
  BY AfterEditType
<1>4. QED
  BY <1>2, <1>3, NoJobType DEF TypeOK, Leave, Finish, Goto

\* The start of a request keeps the types.
LEMMA StartType ==
  ASSUME TypeOK, NEW p \in Procs, Start(p)
  PROVE  TypeOK'
<1>1. ASSUME NEW t \in Tasks, NEW f \in Files, NEW post \in BOOLEAN, ImportStart(p, t, f, post)
      PROVE  TypeOK'
  <2>1. [NoJob EXCEPT !.task = t, !.file = f, !.post = post] \in Job
    BY NoJobType DEF Job
  <2>2. requests' \in 0 .. MaxRequests /\ made' \subseteq Tasks /\ made \subseteq made'
    BY <1>1, ImportsAssumption DEF ImportStart, Request, TypeOK
  <2>3. QED
    BY <1>1, <2>1, <2>2 DEF TypeOK, ImportStart, Goto, Phases, HandlerPhases
<1>2. ASSUME NEW t \in Tasks, JsonImport(p, t)  PROVE TypeOK'
  <2>1. [NoJob EXCEPT !.task = t] \in Job
    BY NoJobType DEF Job
  <2>2. requests' \in 0 .. MaxRequests /\ made' \subseteq Tasks /\ made \subseteq made'
    BY <1>2, ImportsAssumption DEF JsonImport, Request, TypeOK
  <2>3. memories' \subseteq Memory
    BY <1>2 DEF TypeOK, JsonImport, Memory
  <2>4. QED
    BY <1>2, <2>1, <2>2, <2>3 DEF TypeOK, JsonImport, Goto, Phases, HandlerPhases
<1>3. ASSUME NEW t \in Tasks, TriggerStart(p, t)  PROVE TypeOK'
  <2>1. [NoJob EXCEPT !.task = t, !.copy = [status |-> "processing", extraction |-> "pending",
                                          reconcile |-> "pending"]] \in Job
    BY NoJobType DEF Job, Record
  <2>2. requests' \in 0 .. MaxRequests
    BY <1>3, ImportsAssumption DEF TriggerStart, Request, TypeOK
  <2>3. QED
    BY <1>3, <2>1, <2>2 DEF TypeOK, TriggerStart, Phases, HandlerPhases
<1>4. ASSUME NEW t \in Tasks, RollbackStart(p, t)  PROVE TypeOK'
  <2>1. PICK r \in RangeOf(rows[t]) :
          job' = [job EXCEPT ![p] = [NoJob EXCEPT !.task = t,
                                       !.copy = [r EXCEPT !.status = "rolled_back"]]]
    BY <1>4 DEF RollbackStart
  <2>2. r \in Record
    BY DEF RangeOf, TypeOK
  <2>3. [NoJob EXCEPT !.task = t, !.copy = [r EXCEPT !.status = "rolled_back"]] \in Job
    BY <2>2, NoJobType DEF Job, Record
  <2>4. requests' \in 0 .. MaxRequests
    BY <1>4, ImportsAssumption DEF RollbackStart, Request, TypeOK
  <2>5. QED
    BY <1>4, <2>1, <2>3, <2>4 DEF TypeOK, RollbackStart, Goto, Phases, HandlerPhases
<1>5. QED  BY <1>1, <1>2, <1>3, <1>4 DEF Start

\* The steps of handlers keep the types.
LEMMA HandlerType ==
  ASSUME TypeOK, IdsMade, NEW p \in Procs, HandlerStep(p)
  PROVE  TypeOK'
<1>1. job[p] \in Job /\ rows[job[p].task] \in Seq(Record)
  BY DEF TypeOK, Job
<1>2. NoRecord \in Record /\ NewRecord(job[p].post) \in Record
  BY DEF NoRecord, NewRecord, Record
<1>3. \A b \in BOOLEAN : [job[p] EXCEPT !.known = b] \in Job
  BY <1>1 DEF Job
<1>4. CASE ReadHashes(p)
  <2>1. Known(job[p].file) \in BOOLEAN  BY DEF Known
  <2>2. [job[p] EXCEPT !.known = Known(job[p].file)] \in Job
    BY <1>3, <2>1
  <2>3. QED  BY <1>4, <2>2 DEF TypeOK, ReadHashes, Goto, Phases, HandlerPhases, ghosts
<1>5. CASE StoreRaw(p)
  <2>1. sessions' \subseteq Raw
    BY <1>1, <1>5 DEF TypeOK, StoreRaw, Raw, Job
  <2>2. [job[p] EXCEPT !.known = FALSE] \in Job
    BY <1>3
  <2>3. QED  BY <1>5, <2>1, <2>2 DEF TypeOK, StoreRaw, Goto, Phases, HandlerPhases, ghosts
<1>6. CASE RecordTask(p) \/ JsonRecord(p)
  <2>1. rows' \in [Tasks -> Seq(Record)]
    <3>1. PICK r \in Record : rows' = [rows EXCEPT ![job[p].task] = Append(@, r)]
      BY <1>2, <1>6 DEF RecordTask, JsonRecord
    <3>2. Append(rows[job[p].task], r) \in Seq(Record)
      BY <1>1
    <3>3. QED  BY <3>1, <3>2 DEF TypeOK
  <2>2. recorded' \subseteq made'
    BY <1>6 DEF TypeOK, RecordTask, JsonRecord, IdsMade
  <2>3. QED
    BY <1>6, <2>1, <2>2, NoJobType
    DEF TypeOK, RecordTask, JsonRecord, Finish, Goto, Phases, HandlerPhases
<1>7. CASE RollbackSessions(p) \/ RollbackMemories(p)
  BY <1>7 DEF TypeOK, RollbackSessions, RollbackMemories, Goto, Phases, HandlerPhases, ghosts
<1>8. QED  BY <1>4, <1>5, <1>6, <1>7 DEF HandlerStep

\* The steps of background tasks, and of the writing of records, too.
LEMMA TaskType ==
  ASSUME TypeOK, NEW p \in Procs, TaskStep(p)
  PROVE  TypeOK'
<1>1. job[p] \in Job /\ rows[job[p].task] \in Seq(Record) /\ job[p].copy \in Record
  BY DEF TypeOK, Job
<1>2. CASE EditGet(p)
  <2>1. CASE Leave(p)
    BY <1>2, <2>1, LeaveType DEF TypeOK, EditGet, ghosts
  <2>2. ASSUME NEW r \in RangeOf(rows[job[p].task]),
               io' = [io EXCEPT ![p] = "delete"],
               job' = [job EXCEPT ![p].copy = Edited(pc[p], r)],
               UNCHANGED pc
        PROVE  TypeOK'
    <3>1. Edited(pc[p], r) \in Record
      BY <1>1, EditedType DEF RangeOf
    <3>2. [job[p] EXCEPT !.copy = Edited(pc[p], r)] \in Job
      BY <1>1, <3>1 DEF Job
    <3>3. job' = [job EXCEPT ![p] = [job[p] EXCEPT !.copy = Edited(pc[p], r)]]
      BY <2>2
    <3> HIDE DEF EditGet
    <3>4. UNCHANGED <<sessions, rows, memories, ghosts>>  BY <1>2 DEF EditGet
    <3>5. QED  BY <2>2, <3>2, <3>3, <3>4 DEF TypeOK, ghosts
  <2>3. QED  BY <1>2, <2>1, <2>2 DEF EditGet
<1>3. CASE EditDelete(p)
  <2>1. job[p].task \in Tasks /\ <<>> \in Seq(Record)
    BY <1>1 DEF Job
  <2>2. QED  BY <1>3, <2>1 DEF TypeOK, EditDelete, ghosts
<1>4. CASE EditAdd(p)
  <2>1. Append(rows[job[p].task], job[p].copy) \in Seq(Record)
    BY <1>1
  <2>2. Leave(p)
    BY <1>4 DEF EditAdd
  <2>3. QED  BY <1>4, <2>1, <2>2, LeaveType DEF TypeOK, EditAdd, ghosts
<1>5. CASE ReadRaw(p)
  BY <1>5 DEF TypeOK, ReadRaw, Goto, Phases, TaskPhases, Edits, ghosts
<1>6. CASE Extract(p)
  <2>1. \A b \in BOOLEAN : [job[p] EXCEPT !.facts = b] \in Job
    BY <1>1 DEF Job
  <2>2. QED  BY <1>6, <2>1 DEF TypeOK, Extract, Goto, Phases, TaskPhases, Edits, ghosts
<1>7. CASE Reconcile(p)
  <2>1. memories' \subseteq Memory
    BY <1>1, <1>7 DEF TypeOK, Reconcile, Memory, Job
  <2>2. QED  BY <1>7, <2>1 DEF TypeOK, Reconcile, Goto, Phases, TaskPhases, Edits, ghosts
<1>8. CASE EditFails(p)
  <2>1. Leave(p) /\ UNCHANGED <<sessions, rows, memories, made, recorded, requests, raced>>
    BY <1>8 DEF EditFails
  <2>2. torn' \subseteq Tasks /\ stranded' \subseteq Tasks
    BY <1>1, <1>8 DEF EditFails, Tear, TypeOK, Job
  <2>3. QED  BY <2>1, <2>2, LeaveType DEF TypeOK
<1>9. QED  BY <1>2, <1>3, <1>4, <1>5, <1>6, <1>7, <1>8 DEF TaskStep

\* And permits, drops and crashes.
LEMMA RestType ==
  ASSUME TypeOK, NEW p \in Procs, Spawn(p) \/ Lock(p) \/ Drop(p) \/ Crash
  PROVE  TypeOK'
<1>1. \A q \in Procs : job[q].task \in Tasks
  BY DEF TypeOK, Job
<1>2. CASE Spawn(p) \/ Lock(p)
  BY <1>2 DEF TypeOK, Spawn, Lock, Goto, Phases, TaskPhases, Edits, ghosts
<1>3. CASE Drop(p)
  BY <1>1, <1>3, NoJobType DEF TypeOK, Drop, Tear, Finish, Goto
<1>4. CASE Crash
  BY <1>1, <1>4, NoJobType DEF TypeOK, Crash, Tear
<1>5. QED  BY <1>2, <1>3, <1>4

-----------------------------------------------------------------------------
(* Steps. *)

Step(p) == Start(p) \/ HandlerStep(p) \/ TaskStep(p) \/ Spawn(p) \/ Lock(p) \/ Drop(p)

\* A step of a process leaves the others where they are.
LEMMA OthersKeep ==
  ASSUME TypeOK, NEW p \in Procs, Step(p)
  PROVE  \A q \in Procs \ {p} : pc'[q] = pc[q] /\ io'[q] = io[q] /\ job'[q] = job[q]
<1> USE DEF TypeOK
<1>1. CASE Start(p)
  BY <1>1 DEF Start, ImportStart, JsonImport, TriggerStart, RollbackStart, Goto
<1>2. CASE HandlerStep(p)
  BY <1>2 DEF HandlerStep, ReadHashes, StoreRaw, RecordTask, JsonRecord, RollbackSessions,
              RollbackMemories, Goto, Finish
<1>3. CASE TaskStep(p)
  BY <1>3 DEF TaskStep, EditFails, EditGet, EditDelete, EditAdd, ReadRaw, Extract, Reconcile, Leave,
              Goto, Finish
<1>4. CASE Spawn(p) \/ Lock(p) \/ Drop(p)
  BY <1>4 DEF Spawn, Lock, Drop, Goto, Finish
<1>5. QED  BY <1>1, <1>2, <1>3, <1>4 DEF Step

\* Where a write of a record leads: to its end if it is a last one, otherwise
\* to a phase in which the task has yet to be settled.
LEMMA LeaveKind ==
  ASSUME TypeOK, NEW p \in Procs, pc[p] \in Edits \cup {"retrigger", "rollback"}, Leave(p)
  PROVE  /\ pc[p] \in Final => pc'[p] = "idle"
         /\ pc[p] \notin Final =>
              /\ pc'[p] \in (TaskPhases \cup {"permit"}) /\ io'[p] = "get"
              /\ job'[p].task = job[p].task
         /\ io'[p] = "get"
         /\ pc'[p] \in {"reconcile", "merged", "finish"} => pc[p] = "merged"
BY DEF TypeOK, Leave, AfterEdit, Goto, Finish, Edits, Final, LastEdits, TaskPhases, Job

\* Writers, their last copies and new ids: what a process knows by itself.
LEMMA LocalStep ==
  ASSUME TypeOK, Writers, FinalCopies, IdsMade, NEW p \in Procs, Step(p)
  PROVE  Writers' /\ FinalCopies' /\ IdsMade'
<1>1. made \subseteq made'
  BY DEF Step, Start, ImportStart, JsonImport, TriggerStart, RollbackStart, HandlerStep,
         ReadHashes, StoreRaw, RecordTask, JsonRecord, RollbackSessions, RollbackMemories,
         TaskStep, EditFails, EditGet, EditDelete, EditAdd, ReadRaw, Extract, Reconcile, Spawn, Lock,
         Drop, ghosts
<1>2. /\ io'[p] # "get" => pc'[p] \in Edits \cup {"retrigger", "rollback"}
      /\ pc'[p] \in Final /\ io'[p] # "get" => job'[p].copy.status # "processing"
      /\ pc'[p] \in {"sessions", "purge", "rollback"} => job'[p].copy.status # "processing"
      /\ pc'[p] \in {"hash", "store", "record", "json"} => job'[p].task \in made'
  <2> USE DEF TypeOK, Edits, Final, LastEdits
  <2>1. CASE Start(p)
    <3>1. ASSUME NEW t \in Tasks, NEW f \in Files, NEW post \in BOOLEAN,
                 ImportStart(p, t, f, post)
          PROVE  <1>2!1 /\ <1>2!2 /\ <1>2!3 /\ <1>2!4
      BY <3>1 DEF ImportStart, Goto, NoJob
    <3>2. ASSUME NEW t \in Tasks, JsonImport(p, t)
          PROVE  <1>2!1 /\ <1>2!2 /\ <1>2!3 /\ <1>2!4
      BY <3>2 DEF JsonImport, Goto, NoJob
    <3>3. ASSUME NEW t \in Tasks, TriggerStart(p, t)
          PROVE  <1>2!1 /\ <1>2!2 /\ <1>2!3 /\ <1>2!4
      BY <3>3 DEF TriggerStart
    <3>4. ASSUME NEW t \in Tasks, RollbackStart(p, t)
          PROVE  <1>2!1 /\ <1>2!2 /\ <1>2!3 /\ <1>2!4
      <4>1. PICK r \in RangeOf(rows[t]) :
              job' = [job EXCEPT ![p] = [NoJob EXCEPT !.task = t,
                                           !.copy = [r EXCEPT !.status = "rolled_back"]]]
        BY <3>4 DEF RollbackStart
      <4>2. r \in Record  BY DEF RangeOf
      <4>3. job'[p].copy.status = "rolled_back"
        BY <4>1, <4>2 DEF NoJob, Record
      <4>4. QED  BY <3>4, <4>3 DEF RollbackStart, Goto
    <3>5. QED  BY <2>1, <3>1, <3>2, <3>3, <3>4 DEF Start
  <2>2. CASE HandlerStep(p)
    BY <2>2 DEF HandlerStep, ReadHashes, StoreRaw, RecordTask, JsonRecord, RollbackSessions,
                RollbackMemories, Goto, Finish, ghosts, IdsMade, FinalCopies, Job
  <2>3. CASE EditGet(p)
    <3>1. CASE Leave(p)
      BY <2>3, <3>1, LeaveKind DEF EditGet, TaskPhases
    <3>2. ASSUME NEW r \in RangeOf(rows[job[p].task]),
                 io' = [io EXCEPT ![p] = "delete"],
                 job' = [job EXCEPT ![p].copy = Edited(pc[p], r)],
                 UNCHANGED pc
          PROVE  <1>2!1 /\ <1>2!2 /\ <1>2!3 /\ <1>2!4
      <4>1. r \in Record  BY DEF RangeOf, Job
      <4>2. pc[p] \in Final => Edited(pc[p], r).status # "processing"
        BY <2>3, <4>1 DEF EditGet, Edited, Record
      <4>3. job'[p].copy = Edited(pc[p], r)  BY <3>2 DEF Job
      <4>4. QED  BY <2>3, <3>2, <4>2, <4>3 DEF EditGet
    <3>3. QED  BY <2>3, <3>1, <3>2 DEF EditGet
  <2>4. CASE EditDelete(p)
    BY <2>4 DEF EditDelete, Writers, FinalCopies, IdsMade, ghosts
  <2>5. CASE EditAdd(p) \/ EditFails(p)
    BY <2>5, LeaveKind DEF EditAdd, EditFails, Writers, TaskPhases
  <2>6. CASE ReadRaw(p) \/ Extract(p) \/ Reconcile(p) \/ Spawn(p) \/ Lock(p)
    BY <2>6 DEF ReadRaw, Extract, Reconcile, Spawn, Lock, Goto
  <2>7. CASE Drop(p)
    BY <2>7 DEF Drop, Finish, Goto
  <2>8. QED
    BY <2>1, <2>2, <2>3, <2>4, <2>5, <2>6, <2>7 DEF Step, TaskStep
<1>3. QED
  BY <1>1, <1>2, OthersKeep DEF Writers, FinalCopies, IdsMade

\* A step that inserts no record and leaves its process settling, or its task
\* stranded, keeps every task settled.
LEMMA StillSettled ==
  ASSUME TypeOK, Settled, NEW p \in Procs, Step(p), UNCHANGED rows, stranded \subseteq stranded',
         Settling(p) => \/ Settling(p)' /\ job'[p].task = job[p].task
                        \/ job[p].task \in stranded'
  PROVE  Settled'
<1> SUFFICES ASSUME NEW t \in Tasks \ stranded', NEW r \in RangeOf(rows'[t]),
                    r.status = "processing"
             PROVE  \E q \in Procs : Settling(q)' /\ job'[q].task = t
  BY DEF Settled
<1>1. PICK q \in Procs : Settling(q) /\ job[q].task = t
  BY DEF Settled
<1>2. CASE q = p
  BY <1>1, <1>2
<1>3. CASE q # p
  BY <1>1, <1>3, OthersKeep DEF Settling
<1>4. QED  BY <1>2, <1>3

\* A process that writes its task's rows, and is settling after it unless
\* nothing it adds says "processing" and it was not settling before.
LEMMA WriteSettled ==
  ASSUME TypeOK, Settled, NEW p \in Procs, Step(p), UNCHANGED stranded,
         NEW t \in Tasks, job[p].task = t,
         \A u \in Tasks \ {t} : rows'[u] = rows[u],
         \/ Settling(p)' /\ job'[p].task = t
         \/ \A r \in RangeOf(rows'[t]) :
              r.status # "processing" \/ (r \in RangeOf(rows[t]) /\ ~Settling(p))
  PROVE  Settled'
<1> SUFFICES ASSUME NEW u \in Tasks \ stranded', NEW r \in RangeOf(rows'[u]),
                    r.status = "processing"
             PROVE  \E q \in Procs : Settling(q)' /\ job'[q].task = u
  BY DEF Settled
<1>1. CASE Settling(p)' /\ job'[p].task = t /\ u = t
  BY <1>1
<1>2. CASE ~(Settling(p)' /\ job'[p].task = t /\ u = t)
  <2>1. r \in RangeOf(rows[u]) /\ (u = t => ~Settling(p))
    BY <1>2
  <2>2. PICK q \in Procs : Settling(q) /\ job[q].task = u
    BY <2>1 DEF Settled
  <2>3. q # p
    BY <2>1, <2>2
  <2>4. QED  BY <2>2, <2>3, OthersKeep DEF Settling
<1>3. QED  BY <1>1, <1>2

\* One more row: what is in the range of the new sequence.
LEMMA AppendRange ==
  ASSUME NEW s \in Seq(Record), NEW r \in Record, NEW x \in RangeOf(Append(s, r))
  PROVE  x = r \/ x \in RangeOf(s)
BY DEF RangeOf

\* Every step keeps a record that says "processing" in the hands of somebody.
LEMMA SettledStep ==
  ASSUME TypeOK, Writers, FinalCopies, Settled, NEW p \in Procs, Step(p)
  PROVE  Settled'
<1>1. job[p] \in Job /\ job[p].task \in Tasks /\ job[p].copy \in Record
      /\ rows[job[p].task] \in Seq(Record)
  BY DEF TypeOK, Job
<1>2. CASE Start(p)
  <2>1. ~Settling(p) /\ UNCHANGED <<rows, stranded>>
    BY <1>2 DEF Start, ImportStart, JsonImport, TriggerStart, RollbackStart, Request, Settling,
                TaskPhases, Edits
  <2>2. QED  BY <2>1, StillSettled
<1>3. CASE ReadHashes(p) \/ StoreRaw(p) \/ RollbackSessions(p) \/ RollbackMemories(p)
  <2>1. ~Settling(p) /\ UNCHANGED <<rows, stranded>>
    BY <1>3 DEF ReadHashes, StoreRaw, RollbackSessions, RollbackMemories, Settling, TaskPhases,
                Edits, ghosts
  <2>2. QED  BY <2>1, StillSettled
<1>4. CASE RecordTask(p)
  <2>1. /\ ~Settling(p) /\ UNCHANGED stranded
        /\ rows' = [rows EXCEPT ![job[p].task] = Append(@, NewRecord(job[p].post))]
    BY <1>4 DEF RecordTask, Settling, TaskPhases, Edits
  <2>2. NewRecord(job[p].post) \in Record
    BY DEF NewRecord, NoRecord, Record
  <2>3. CASE job[p].post
    <3>1. Settling(p)' /\ job'[p].task = job[p].task
      BY <1>4, <2>3 DEF RecordTask, Goto, Settling, Final, LastEdits, TypeOK
    <3>2. QED  BY <1>1, <2>1, <3>1, WriteSettled DEF TypeOK
  <2>4. CASE ~job[p].post
    <3>1. NewRecord(job[p].post).status = "completed"
      BY <2>4 DEF NewRecord, NoRecord
    <3>2. \A r \in RangeOf(rows'[job[p].task]) :
            r.status # "processing" \/ (r \in RangeOf(rows[job[p].task]) /\ ~Settling(p))
      BY <1>1, <2>1, <2>2, <3>1, AppendRange DEF TypeOK
    <3>3. QED  BY <1>1, <2>1, <3>2, WriteSettled DEF TypeOK
  <2>5. QED  BY <2>3, <2>4
<1>5. CASE JsonRecord(p)
  <2>1. /\ ~Settling(p) /\ UNCHANGED stranded
        /\ rows' = [rows EXCEPT ![job[p].task] = Append(@, NoRecord)]
    BY <1>5 DEF JsonRecord, Settling, TaskPhases, Edits
  <2>2. NoRecord \in Record /\ NoRecord.status = "completed"
    BY DEF NoRecord, Record
  <2>3. \A r \in RangeOf(rows'[job[p].task]) :
          r.status # "processing" \/ (r \in RangeOf(rows[job[p].task]) /\ ~Settling(p))
    BY <1>1, <2>1, <2>2, AppendRange DEF TypeOK
  <2>4. QED  BY <1>1, <2>1, <2>3, WriteSettled DEF TypeOK
<1>6. CASE EditGet(p)
  <2>1. UNCHANGED <<rows, stranded>> /\ pc[p] \in Edits
    BY <1>6 DEF EditGet, ghosts
  <2>2. CASE rows[job[p].task] = <<>> /\ Leave(p)
    <3>1. RangeOf(rows'[job[p].task]) = {}
      BY <2>1, <2>2 DEF RangeOf
    <3>2. QED  BY <1>1, <2>1, <3>1, WriteSettled
  <2>3. CASE ~(rows[job[p].task] = <<>> /\ Leave(p))
    <3>1. /\ io' = [io EXCEPT ![p] = "delete"] /\ UNCHANGED pc
          /\ job'[p].task = job[p].task
      BY <1>6, <2>3 DEF EditGet, TypeOK, Job
    <3>2. Settling(p)'
      BY <2>1, <3>1 DEF Settling, TaskPhases, TypeOK
    <3>3. QED  BY <2>1, <3>1, <3>2, StillSettled
  <2>4. QED  BY <2>2, <2>3
<1>7. CASE EditDelete(p)
  <2>1. UNCHANGED stranded /\ rows' = [rows EXCEPT ![job[p].task] = <<>>]
    BY <1>7 DEF EditDelete, ghosts
  <2>2. RangeOf(rows'[job[p].task]) = {}
    BY <1>1, <2>1 DEF RangeOf, TypeOK
  <2>3. QED  BY <1>1, <2>1, <2>2, WriteSettled DEF TypeOK
<1>8. CASE EditAdd(p)
  <2>1. /\ UNCHANGED stranded /\ Leave(p)
        /\ rows' = [rows EXCEPT ![job[p].task] = Append(@, job[p].copy)]
        /\ io[p] = "add" /\ pc[p] \in Edits \cup {"retrigger", "rollback"}
    BY <1>8 DEF EditAdd, ghosts, Writers
  <2>2. CASE pc[p] \in Final
    <3>1. ~Settling(p) /\ job[p].copy.status # "processing"
      BY <2>1, <2>2 DEF Settling, FinalCopies
    <3>2. \A r \in RangeOf(rows'[job[p].task]) :
            r.status # "processing" \/ (r \in RangeOf(rows[job[p].task]) /\ ~Settling(p))
      BY <1>1, <2>1, <3>1, AppendRange DEF TypeOK
    <3>3. QED  BY <1>1, <2>1, <3>2, WriteSettled DEF TypeOK
  <2>3. CASE pc[p] \notin Final
    <3>1. Settling(p)' /\ job'[p].task = job[p].task
      BY <2>1, <2>3, LeaveKind DEF Settling
    <3>2. QED  BY <1>1, <2>1, <3>1, WriteSettled DEF TypeOK
  <2>4. QED  BY <2>2, <2>3
<1>9. CASE ReadRaw(p) \/ Extract(p) \/ Reconcile(p) \/ Spawn(p) \/ Lock(p)
  <2>1. /\ UNCHANGED <<rows, stranded>> /\ pc'[p] \in TaskPhases /\ io'[p] = "get"
        /\ job'[p].task = job[p].task
    BY <1>9 DEF ReadRaw, Extract, Reconcile, Spawn, Lock, Goto, TaskPhases, Edits, ghosts,
                TypeOK, Job
  <2>2. Settling(p)'
    BY <2>1 DEF Settling
  <2>3. QED  BY <2>1, <2>2, StillSettled
<1>10. CASE Drop(p)
  <2>1. Settling(p) => pc[p] = "permit"
    BY <1>10 DEF Drop, Settling, HandlerPhases, TaskPhases, Edits
  <2>2. /\ UNCHANGED rows /\ stranded \subseteq stranded'
        /\ Settling(p) => job[p].task \in stranded'
    BY <1>10, <2>1 DEF Drop
  <2>3. QED  BY <2>2, StillSettled
<1>11. CASE EditFails(p)
  <2>1. /\ pc[p] \in Edits /\ Leave(p) /\ UNCHANGED rows /\ stranded \subseteq stranded'
        /\ pc[p] \in LastEdits => job[p].task \in stranded'
    BY <1>11 DEF EditFails
  <2>2. pc[p] \notin Final => Settling(p)' /\ job'[p].task = job[p].task
    BY <2>1, LeaveKind DEF Settling
  <2>3. pc[p] \in Final => job[p].task \in stranded'
    BY <2>1 DEF Final, Edits
  <2>4. QED  BY <2>1, <2>2, <2>3, StillSettled
<1>12. QED
  BY <1>2, <1>3, <1>4, <1>5, <1>6, <1>7, <1>8, <1>9, <1>10, <1>11 DEF Step, HandlerStep, TaskStep

\* A record is missing only within a rewrite, or torn.
LEMMA LostStep ==
  ASSUME TypeOK, Writers, NoTaskLost, NEW p \in Procs, Step(p)
  PROVE  NoTaskLost'
<1>1. job[p].task \in Tasks /\ rows[job[p].task] \in Seq(Record) /\ job[p].copy \in Record
  BY DEF TypeOK, Job
<1>2. SUFFICES ASSUME NEW t \in recorded' \ torn', rows'[t] = <<>>
               PROVE  \E q \in Procs : pc'[q] # "idle" /\ job'[q].task = t /\ io'[q] = "add"
  BY DEF NoTaskLost, Active
<1>3. ASSUME NEW r \in Record, NEW s \in Seq(Record)  PROVE Append(s, r) # <<>>
  <2>1. Len(Append(s, r)) = Len(s) + 1 /\ Len(s) \in Nat
    OBVIOUS
  <2>2. Len(<<>>) = 0
    OBVIOUS
  <2>3. Len(Append(s, r)) # 0
    BY <2>1
  <2>4. QED  BY <2>2, <2>3
<1>4. torn \subseteq torn'
  BY DEF Step, Start, ImportStart, JsonImport, TriggerStart, RollbackStart, HandlerStep,
         ReadHashes, StoreRaw, RecordTask, JsonRecord, RollbackSessions, RollbackMemories,
         TaskStep, EditFails, EditGet, EditDelete, EditAdd, ReadRaw, Extract, Reconcile, Spawn, Lock,
         Drop, Tear, ghosts
<1>5. CASE EditDelete(p) /\ job[p].task = t
  BY <1>5 DEF EditDelete, TypeOK
<1>6. CASE (RecordTask(p) \/ JsonRecord(p) \/ EditAdd(p)) /\ job[p].task = t
  <2>1. PICK r \in Record : rows' = [rows EXCEPT ![t] = Append(@, r)]
    <3>1. NoRecord \in Record /\ NewRecord(job[p].post) \in Record
      BY DEF NoRecord, NewRecord, Record
    <3>2. QED  BY <1>1, <1>6, <3>1 DEF RecordTask, JsonRecord, EditAdd
  <2>2. rows'[t] # <<>>
    BY <1>1, <1>3, <1>6, <2>1 DEF TypeOK
  <2>3. QED  BY <1>2, <2>2
<1>7. CASE /\ ~(EditDelete(p) /\ job[p].task = t)
           /\ ~((RecordTask(p) \/ JsonRecord(p) \/ EditAdd(p)) /\ job[p].task = t)
  <2>1. t \in recorded /\ rows[t] = <<>>
    BY <1>2, <1>7
    DEF Step, Start, ImportStart, JsonImport, TriggerStart, RollbackStart, HandlerStep,
        ReadHashes, StoreRaw, RecordTask, JsonRecord, RollbackSessions, RollbackMemories,
        TaskStep, EditFails, EditGet, EditDelete, EditAdd, ReadRaw, Extract, Reconcile, Spawn, Lock,
        Drop, ghosts, TypeOK
  <2>2. PICK q \in Procs : pc[q] # "idle" /\ job[q].task = t /\ io[q] = "add"
    BY <1>2, <1>4, <2>1 DEF NoTaskLost, Active
  <2>3. CASE q = p
    <3>1. pc[p] \in Edits \cup {"retrigger", "rollback"}
      BY <2>2, <2>3 DEF Writers
    <3>2. ~EditAdd(p)
      BY <1>7, <2>2, <2>3
    <3>3. Drop(p) \/ EditFails(p)
      BY <2>2, <2>3, <3>1, <3>2
      DEF Step, Start, ImportStart, JsonImport, TriggerStart, RollbackStart, Request,
          HandlerStep, ReadHashes, StoreRaw, RecordTask, JsonRecord, RollbackSessions,
          RollbackMemories, TaskStep, EditGet, EditDelete, ReadRaw, Extract, Reconcile,
          Spawn, Lock, Edits
    <3>4. t \in torn'
      BY <2>2, <2>3, <3>3 DEF Drop, EditFails, Tear
    <3>5. QED  BY <1>2, <3>4
  <2>4. CASE q # p
    BY <2>2, <2>4, OthersKeep
  <2>5. QED  BY <2>3, <2>4
<1>8. QED  BY <1>5, <1>6, <1>7

\* A file that is not raced has one import, which stores it if nobody has.
LEMMA StoreStep ==
  ASSUME TypeOK, StoredOnceUnlessRaced, Alone, NEW p \in Procs, Step(p)
  PROVE  StoredOnceUnlessRaced' /\ Alone'
<1>1. job[p] \in Job
  BY DEF TypeOK
<1>2. CASE \E t \in Tasks, f \in Files, post \in BOOLEAN : ImportStart(p, t, f, post)
  <2>1. PICK t \in Tasks, f \in Files, post \in BOOLEAN : ImportStart(p, t, f, post)
    BY <1>2
  <2>2. /\ UNCHANGED sessions /\ raced \subseteq raced'
        /\ pc' = [pc EXCEPT ![p] = "hash"] /\ job'[p].file = f
        /\ Importing(f) # {} => f \in raced'
    BY <2>1 DEF ImportStart, Goto, TypeOK, NoJob
  <2>3. StoredOnceUnlessRaced'
    BY <2>2 DEF StoredOnceUnlessRaced
  <2>4. ASSUME NEW q \in Procs, job'[q].file \notin raced', pc'[q] \in {"hash", "store"},
               NEW r \in Procs, pc'[r] \in {"hash", "store"}, job'[r].file = job'[q].file
        PROVE  r = q
    <3>1. CASE q # p /\ r # p
      BY <2>2, <2>4, <3>1, OthersKeep DEF Alone
    <3>2. CASE q = p \/ r = p
      <4>1. job'[q].file = f /\ job'[r].file = f
        BY <2>2, <2>4, <3>2
      <4>2. \A o \in Procs \ {p} : o \notin {q, r}
        <5>1. ASSUME NEW o \in {q, r}, o # p  PROVE FALSE
          <6>1. o \in Importing(f)
            BY <2>4, <4>1, <5>1, OthersKeep DEF Importing
          <6>2. QED  BY <2>2, <2>4, <4>1, <6>1
        <5>2. QED  BY <5>1
      <4>3. QED  BY <2>4, <4>2
    <3>3. QED  BY <3>1, <3>2
  <2>5. ASSUME NEW q \in Procs, job'[q].file \notin raced', pc'[q] = "store", ~job'[q].known
        PROVE  \A s \in sessions' : s.file # job'[q].file
    <3>1. q # p
      BY <2>2, <2>5 DEF TypeOK
    <3>2. QED  BY <2>2, <2>5, <3>1, OthersKeep DEF Alone, Known
  <2>6. QED  BY <2>3, <2>4, <2>5 DEF Alone, Known
<1>3. CASE ReadHashes(p)
  <2>1. /\ UNCHANGED <<sessions, raced>> /\ pc[p] = "hash" /\ pc' = [pc EXCEPT ![p] = "store"]
        /\ job'[p].file = job[p].file /\ job'[p].known = Known(job[p].file)
    BY <1>1, <1>3 DEF ReadHashes, Goto, TypeOK, Job, ghosts
  <2>2. \A q \in Procs : job'[q].file = job[q].file
    BY <2>1, OthersKeep
  <2>3. \A q \in Procs : pc'[q] \in {"hash", "store"} <=> pc[q] \in {"hash", "store"}
    BY <2>1 DEF TypeOK
  <2>4. ASSUME NEW q \in Procs, job'[q].file \notin raced', pc'[q] = "store", ~job'[q].known
        PROVE  \A s \in sessions' : s.file # job'[q].file
    <3>1. CASE q = p
      <4>1. ~Known(job[p].file)
        BY <2>1, <2>4, <3>1, Zenon
      <4>2. QED  BY <2>1, <3>1, <4>1 DEF Known
    <3>2. CASE q # p
      BY <2>1, <2>4, <3>2, OthersKeep DEF Alone, Known
    <3>3. QED  BY <3>1, <3>2
  <2>5. QED  BY <2>1, <2>2, <2>3, <2>4 DEF Alone, Known, StoredOnceUnlessRaced
<1>4. CASE StoreRaw(p)
  <2>1. /\ UNCHANGED raced /\ pc[p] = "store" /\ pc' = [pc EXCEPT ![p] = "record"]
        /\ sessions' = IF job[p].known THEN sessions
                        ELSE sessions \cup {[task |-> job[p].task, file |-> job[p].file]}
    BY <1>4 DEF StoreRaw, Goto, ghosts
  <2>2. ~job[p].known /\ job[p].file \notin raced => ~Known(job[p].file)
    BY <2>1 DEF Alone
  <2>3. StoredOnceUnlessRaced'
    BY <2>1, <2>2 DEF StoredOnceUnlessRaced, Known
  <2>4. ASSUME NEW q \in Procs, job'[q].file \notin raced', pc'[q] \in {"hash", "store"}
        PROVE  q # p /\ job[q].file # job[p].file
    BY <2>1, <2>4, OthersKeep DEF Alone, TypeOK
  <2>5. ASSUME NEW q \in Procs, job'[q].file \notin raced', pc'[q] = "store", ~job'[q].known
        PROVE  \A s \in sessions' : s.file # job'[q].file
    BY <2>1, <2>4, <2>5, OthersKeep DEF Alone, Known
  <2>6. QED  BY <2>1, <2>3, <2>4, <2>5, OthersKeep DEF Alone, Known
<1>5. CASE ~ReadHashes(p) /\ ~StoreRaw(p)
           /\ ~(\E t \in Tasks, f \in Files, post \in BOOLEAN : ImportStart(p, t, f, post))
  <2>1. sessions' \subseteq sessions /\ UNCHANGED raced
    BY <1>5
    DEF Step, Start, JsonImport, TriggerStart, RollbackStart, HandlerStep, RecordTask,
        JsonRecord, RollbackSessions, RollbackMemories, TaskStep, EditFails, EditGet, EditDelete,
        EditAdd, ReadRaw, Extract, Reconcile, Spawn, Lock, Drop, ghosts
  <2>2. pc'[p] \in {"hash", "store"} => pc'[p] = pc[p] /\ job'[p] = job[p]
    BY <1>5
    DEF Step, Start, JsonImport, TriggerStart, RollbackStart, HandlerStep, RecordTask,
        JsonRecord, RollbackSessions, RollbackMemories, TaskStep, EditFails, EditGet, EditDelete,
        EditAdd, ReadRaw, Extract, Reconcile, Spawn, Lock, Drop, ghosts, Leave, AfterEdit,
        Goto, Finish, TypeOK, Edits
  <2>3. \A q \in Procs : pc'[q] \in {"hash", "store"} => pc'[q] = pc[q] /\ job'[q] = job[q]
    BY <2>2, OthersKeep
  <2>4. QED  BY <2>1, <2>3 DEF Alone, StoredOnceUnlessRaced, Known
<1>6. QED  BY <1>2, <1>3, <1>4, <1>5

\* Only an empty semaphore lets a process past it.
LEMMA HolderStep ==
  ASSUME TypeOK, Writers, OneHolder, NEW p \in Procs, Step(p)
  PROVE  OneHolder'
<1>1. CASE Lock(p)
  <2>1. Reconciling = {} /\ pc' = [pc EXCEPT ![p] = "reconcile"]
    BY <1>1 DEF Lock, Goto
  <2>2. QED  BY <2>1 DEF OneHolder, Reconciling, TypeOK
<1>2. CASE ~Lock(p)
  <2>1. pc'[p] \in {"reconcile", "merged", "finish"} => pc[p] \in {"reconcile", "merged", "finish"}
    <3>1. CASE (EditGet(p) \/ EditAdd(p) \/ EditFails(p)) /\ Leave(p)
      <4>1. pc[p] \in Edits \cup {"retrigger", "rollback"}
        BY <3>1 DEF EditGet, EditAdd, EditFails, Writers
      <4>2. QED  BY <3>1, <4>1, LeaveKind
    <3>2. CASE ~((EditGet(p) \/ EditAdd(p) \/ EditFails(p)) /\ Leave(p))
      BY <1>2, <3>2
      DEF Step, Start, ImportStart, JsonImport, TriggerStart, RollbackStart, HandlerStep,
          ReadHashes, StoreRaw, RecordTask, JsonRecord, RollbackSessions, RollbackMemories,
          TaskStep, EditFails, EditGet, EditDelete, EditAdd, ReadRaw, Extract, Reconcile, Spawn, Drop,
          Goto, Finish, TypeOK
    <3>3. QED  BY <3>1, <3>2
  <2>2. QED  BY <2>1, OthersKeep DEF OneHolder, Reconciling
<1>3. QED  BY <1>1, <1>2

\* A crash leaves nobody at work, and every task that had somebody stranded.
LEMMA CrashStep ==
  ASSUME IInv, Crash
  PROVE  IInv' 
<1>1. CASE Procs = {}
  BY <1>1 DEF Crash
<1>2. CASE Procs # {}
  <2>1. TypeOK'
    BY <1>2, RestType DEF IInv
  <2>2. /\ UNCHANGED <<sessions, rows, raced, recorded, made>>
        /\ \A q \in Procs : pc'[q] = "idle" /\ io'[q] = "get"
        /\ \A q \in Procs : pc[q] # "idle" => job[q].task \in stranded'
        /\ \A q \in Procs : io[q] = "add" => job[q].task \in torn'
        /\ torn \subseteq torn' /\ stranded \subseteq stranded'
    BY DEF Crash, Tear
  <2>3. Settled'
    <3>1. \A q \in Procs : Settling(q) => pc[q] # "idle"
      BY DEF Settling, TaskPhases, Edits
    <3>2. QED  BY <2>2, <3>1 DEF IInv, Settled
  <2>4. NoTaskLost'
    BY <2>2 DEF IInv, NoTaskLost, Active
  <2>5. /\ Writers' /\ FinalCopies' /\ IdsMade' /\ StoredOnceUnlessRaced' /\ Alone'
        /\ OneHolder'
    BY <2>2 DEF IInv, Writers, FinalCopies, Final, LastEdits, IdsMade, StoredOnceUnlessRaced, Alone,
                OneHolder, Reconciling
  <2>6. QED  BY <2>1, <2>3, <2>4, <2>5 DEF IInv
<1>3. QED  BY <1>1, <1>2

-----------------------------------------------------------------------------
(* The theorem. *)

\* The records of imports through racing triggers, rollbacks, dropped requests,
\* failing reads and writes of them, and crashes: types, a runner for whatever
\* says "processing" unless its last edit failed, one task per file that is
\* not raced, no record lost but by a cut or failing rewrite, one
\* reconciliation at a time (api/handlers/imports.rs, ingest/intelligence.rs).
THEOREM RecordsSafe == Spec => []ImportsSafe
<1>1. Init => IInv
  <2> SUFFICES ASSUME Init  PROVE IInv
    OBVIOUS
  <2>1. TypeOK
    BY NoJobType, ImportsAssumption DEF Init, TypeOK
  <2>2. \A t \in Tasks : RangeOf(rows[t]) = {}
    BY DEF Init, RangeOf
  <2>3. QED
    BY <2>1, <2>2
    DEF IInv, Init, Writers, FinalCopies, Final, LastEdits, IdsMade, Settled, NoTaskLost,
        StoredOnceUnlessRaced, Alone, OneHolder, Reconciling
<1>2. IInv /\ [Next]_vars => IInv'
  <2> SUFFICES ASSUME IInv, [Next]_vars  PROVE IInv'
    OBVIOUS
  <2>1. ASSUME NEW p \in Procs, Step(p)  PROVE IInv'
    <3>1. TypeOK'
      BY <2>1, StartType, HandlerType, TaskType, RestType DEF IInv, Step
    <3>2. QED
      BY <2>1, <3>1, LocalStep, SettledStep, LostStep, StoreStep, HolderStep DEF IInv
  <2>2. CASE Crash
    BY <2>2, CrashStep
  <2>3. CASE UNCHANGED vars
    BY <2>3 DEF vars, ghosts, IInv, TypeOK, Writers, FinalCopies, IdsMade, Settled, Settling,
                NoTaskLost, Active, StoredOnceUnlessRaced, Alone, Known, OneHolder, Reconciling
  <2>4. QED  BY <2>1, <2>2, <2>3 DEF Next, Step
<1>3. IInv => ImportsSafe
  <2> SUFFICES ASSUME IInv  PROVE ImportsSafe
    OBVIOUS
  <2>1. OneReconcile
    <3>1. CASE Reconciling = {}
      BY <3>1, FS_EmptySet DEF OneReconcile
    <3>2. CASE Reconciling # {}
      <4>1. PICK p : Reconciling = {p}
        BY <3>2 DEF IInv, OneHolder
      <4>2. Cardinality(Reconciling) = 1
        BY <4>1, FS_Singleton
      <4>3. QED  BY <4>2 DEF OneReconcile
    <3>3. QED  BY <3>1, <3>2
  <2>2. ProcessingHasRunner
    <3>1. \A q \in Procs : Settling(q) => pc[q] # "idle"
      BY DEF Settling, TaskPhases, Edits
    <3>2. QED  BY <3>1 DEF IInv, Settled, ProcessingHasRunner, Active
  <2>3. QED  BY <2>1, <2>2 DEF IInv, ImportsSafe
<1>4. QED
  BY <1>1, <1>2, <1>3, PTL DEF Spec
=============================================================================
