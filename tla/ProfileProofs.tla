----------------------------- MODULE ProfileProofs -----------------------------
(***************************************************************************)
(* Proofs about Profile, for any preferences, values and threads and any   *)
(* number of requests and inductions: inductions are alone and settle      *)
(* their runs, the caches are true to the table, nothing is induced twice. *)
(***************************************************************************)
EXTENDS Profile, FiniteSetTheorems, TLAPS

Job == [list : SUBSET Preference, next : Phases, run : 0 .. MaxRuns,
        items : SUBSET Values, dirty : BOOLEAN]

\* What one thread does.
Step(p) == Handler(p) \/ Induce(p) \/ Scheduler(p)

-----------------------------------------------------------------------------
(* The invariant. *)

\* Which operation a thread is at in which phase, and where it fills the
\* cache or empties it on the way to.
Fit(p) ==
  /\ pc[p] = "idle" <=> op[p] = "none"
  /\ pc[p] \in {"cooldown", "acquire", "record", "few", "load", "llm", "items",
                "release", "complete", "close"} => op[p] \in Induction
  /\ pc[p] \in {"dormant", "recheck", "cleanup"} => op[p] = "sweep"
  /\ pc[p] = "inject" => op[p] = "inject"
  /\ pc[p] = "write" => op[p] \in {"update", "delete"}
  /\ pc[p] = "written" => op[p] \in {"create", "update", "delete"}
  /\ pc[p] = "uninject" => op[p] \in {"update", "delete", "trigger"}
  /\ pc[p] = "upserted" =>
       \/ op[p] \in {"create", "update"} /\ job[p].next = "written"
       \/ op[p] \in Induction /\ job[p].next = "items"
  /\ pc[p] = "fill" =>
       \/ op[p] = "list"
       \/ op[p] = "inject" /\ job[p].next = "inject"
       \/ op[p] \in Induction /\ job[p].next \in {"llm", "release"}
       \/ op[p] = "sweep" /\ job[p].next \in {"dormant", "cleanup"}

\* An induction has its run from the lock on.
HasRun(p) ==
  job[p].run # 0 <=> op[p] \in Induction /\ pc[p] \notin {"cooldown", "acquire"}

\* Who has yet to empty the cache is on the way to it.
DirtyAt(p) ==
  job[p].dirty =>
  \/ pc[p] \in {"upserted", "written", "items", "release", "complete", "close",
                "dormant", "cleanup"}
  \/ pc[p] = "fill" /\ job[p].next = "release"

\* What a thread knows of itself.
Local(p)  == Fit(p) /\ HasRun(p) /\ DirtyAt(p)
AtRest(p) == pc[p] = "idle" => job[p] = NoJob
Placed    == \A p \in Procs : Local(p) /\ AtRest(p)

\* The lock is the run of who induces, and no two have one run.
LockOfRun == \A p \in Procs : Inducing(p) => lock = job[p].run
OwnRun == \A p, q \in Procs : job[p].run # 0 /\ job[q].run = job[p].run => q = p

\* What a run's thread knows of the status of the run.
Status ==
  \A p \in Procs : job[p].run # 0 =>
    /\ pc[p] \in {"few", "load", "llm", "items", "complete", "fill", "upserted"} =>
         runs[job[p].run] = "running"
    /\ pc[p] \in {"close", "uninject"} => runs[job[p].run] # "running"

\* The runs that the cooldown counts: one at most, and none as long as somebody
\* has passed the check and not recorded his own.
Hot == {r \in cooling : runs[r] # "skipped"}
Cooled ==
  overlap \/ /\ \A r, s \in Hot : r = s
             /\ (\E p \in Procs : pc[p] \in {"acquire", "record"}) => Hot = {}

\* What is read for a cache is the table, or raced.
ReadTrue ==
  \A p \in Procs : pc[p] \in {"fill", "inject"} => job[p].list = prefs \/ p \in raced

\* An injected preference has its row, or a handler is about to empty the cache.
Rewriting(p) == op[p] \in {"update", "delete"} /\ pc[p] \in {"upserted", "written", "uninject"}
InjectionKept ==
  \/ lateInject
  \/ \E p \in Procs : Rewriting(p)
  \/ \A S \in injected : \A m \in S : \E n \in prefs : n.id = m.id /\ n.value = m.value
InjectedActive == \A S \in injected : \A m \in S : m.active

\* All that an induction has to recognise is in its list, or is its own.
Comparing(p) ==
  /\ job[p].run # 0
  /\ \/ pc[p] \in {"llm", "items", "upserted"}
     \/ pc[p] = "fill" /\ job[p].next = "llm"
Covered ==
  \A p \in Procs \ raced : Comparing(p) =>
    \A m \in prefs : m.observed =>
      \/ m.value \in ValuesOf(job[p].list)
      \/ pc[p] \in {"items", "upserted"} /\ m.value \notin job[p].items

\* The preferences of the table, of the caches and of the lists of threads.
Listed == UNION {job[p].list : p \in Procs}
Seen   == prefs \cup (UNION cache) \cup (UNION injected) \cup Listed

KnownIds  == \A m \in Seen : m.id \in used
UniqueIds == \A m, n \in prefs : m.id = n.id => m = n

\* A preference that may be deleted for its age was dormant all this season.
Dormant == \A m, n \in Seen : m.id = n.id /\ ~m.active /\ m.old => ~n.active

IInv ==
  /\ TypeOK /\ Placed
  /\ LockOfRun /\ OwnRun /\ RunsAccounted /\ Status /\ Cooled
  /\ CacheFresh /\ ReadTrue /\ InjectionKept /\ InjectedActive /\ Covered /\ InducedOnce
  /\ KnownIds /\ UniqueIds /\ Dormant

-----------------------------------------------------------------------------
(* Types. *)

Typed == job \in [Procs -> Job]

\* And so it is where it is written.
LEMMA JobWrites ==
  ASSUME Typed, NEW p \in Procs
  PROVE  /\ \A S \in SUBSET Preference :
              job' = [job EXCEPT ![p].list = S] => job' \in [Procs -> Job]
         /\ \A n \in Phases :
              job' = [job EXCEPT ![p].next = n] => job' \in [Procs -> Job]
         /\ \A k \in 0 .. MaxRuns :
              job' = [job EXCEPT ![p].run = k] => job' \in [Procs -> Job]
         /\ \A d \in BOOLEAN :
              job' = [job EXCEPT ![p].dirty = d] => job' \in [Procs -> Job]
         /\ \A I \in SUBSET Values :
              job' = [job EXCEPT ![p].items = I] => job' \in [Procs -> Job]
         /\ \A S \in SUBSET Preference, n \in Phases :
              job' = [job EXCEPT ![p].list = S, ![p].next = n] => job' \in [Procs -> Job]
         /\ \A S \in SUBSET Preference, d \in BOOLEAN :
              job' = [job EXCEPT ![p].list = S, ![p].dirty = d] => job' \in [Procs -> Job]
         /\ \A d \in BOOLEAN, n \in Phases :
              job' = [job EXCEPT ![p].dirty = d, ![p].next = n] => job' \in [Procs -> Job]
         /\ \A I \in SUBSET Values, d \in BOOLEAN :
              job' = [job EXCEPT ![p].items = I, ![p].dirty = d] => job' \in [Procs -> Job]
         /\ \A S \in SUBSET Preference, d \in BOOLEAN, n \in Phases :
              job' = [job EXCEPT ![p].list = S, ![p].dirty = d,
              ![p].next = n] => job' \in [Procs -> Job]
         /\ \A I \in SUBSET Values, d \in BOOLEAN, n \in Phases :
              job' = [job EXCEPT ![p].items = I, ![p].dirty = d,
              ![p].next = n] => job' \in [Procs -> Job]
<1>1. job[p] \in Job
  BY DEF Typed
<1>2. \A r \in Job : [job EXCEPT ![p] = r] \in [Procs -> Job]
  BY DEF Typed
<1>3. ASSUME NEW S \in SUBSET Preference,
             job' = [job EXCEPT ![p].list = S]
      PROVE  job' \in [Procs -> Job]
  <2>1. [job[p] EXCEPT !.list = S] \in Job
    BY <1>1 DEF Job
  <2>2. [job EXCEPT ![p].list = S]
          = [job EXCEPT ![p] = [job[p] EXCEPT !.list = S]]
    BY DEF Typed
  <2>3. QED  BY <1>3, <1>2, <2>1, <2>2, Zenon
<1>4. ASSUME NEW n \in Phases,
             job' = [job EXCEPT ![p].next = n]
      PROVE  job' \in [Procs -> Job]
  <2>1. [job[p] EXCEPT !.next = n] \in Job
    BY <1>1 DEF Job
  <2>2. [job EXCEPT ![p].next = n]
          = [job EXCEPT ![p] = [job[p] EXCEPT !.next = n]]
    BY DEF Typed
  <2>3. QED  BY <1>4, <1>2, <2>1, <2>2, Zenon
<1>5. ASSUME NEW k \in 0 .. MaxRuns,
             job' = [job EXCEPT ![p].run = k]
      PROVE  job' \in [Procs -> Job]
  <2>1. [job[p] EXCEPT !.run = k] \in Job
    BY <1>1 DEF Job
  <2>2. [job EXCEPT ![p].run = k]
          = [job EXCEPT ![p] = [job[p] EXCEPT !.run = k]]
    BY DEF Typed
  <2>3. QED  BY <1>5, <1>2, <2>1, <2>2, Zenon
<1>6. ASSUME NEW d \in BOOLEAN,
             job' = [job EXCEPT ![p].dirty = d]
      PROVE  job' \in [Procs -> Job]
  <2>1. [job[p] EXCEPT !.dirty = d] \in Job
    BY <1>1 DEF Job
  <2>2. [job EXCEPT ![p].dirty = d]
          = [job EXCEPT ![p] = [job[p] EXCEPT !.dirty = d]]
    BY DEF Typed
  <2>3. QED  BY <1>6, <1>2, <2>1, <2>2, Zenon
<1>7. ASSUME NEW I \in SUBSET Values,
             job' = [job EXCEPT ![p].items = I]
      PROVE  job' \in [Procs -> Job]
  <2>1. [job[p] EXCEPT !.items = I] \in Job
    BY <1>1 DEF Job
  <2>2. [job EXCEPT ![p].items = I]
          = [job EXCEPT ![p] = [job[p] EXCEPT !.items = I]]
    BY DEF Typed
  <2>3. QED  BY <1>7, <1>2, <2>1, <2>2, Zenon
<1>8. ASSUME NEW S \in SUBSET Preference, NEW n \in Phases,
             job' = [job EXCEPT ![p].list = S, ![p].next = n]
      PROVE  job' \in [Procs -> Job]
  <2>1. [job[p] EXCEPT !.list = S, !.next = n] \in Job
    BY <1>1 DEF Job
  <2>2. [job EXCEPT ![p].list = S, ![p].next = n]
          = [job EXCEPT ![p] = [job[p] EXCEPT !.list = S, !.next = n]]
    BY DEF Typed
  <2>3. QED  BY <1>8, <1>2, <2>1, <2>2, Zenon
<1>9. ASSUME NEW S \in SUBSET Preference, NEW d \in BOOLEAN,
             job' = [job EXCEPT ![p].list = S, ![p].dirty = d]
      PROVE  job' \in [Procs -> Job]
  <2>1. [job[p] EXCEPT !.list = S, !.dirty = d] \in Job
    BY <1>1 DEF Job
  <2>2. [job EXCEPT ![p].list = S, ![p].dirty = d]
          = [job EXCEPT ![p] = [job[p] EXCEPT !.list = S, !.dirty = d]]
    BY DEF Typed
  <2>3. QED  BY <1>9, <1>2, <2>1, <2>2, Zenon
<1>10. ASSUME NEW d \in BOOLEAN, NEW n \in Phases,
             job' = [job EXCEPT ![p].dirty = d, ![p].next = n]
      PROVE  job' \in [Procs -> Job]
  <2>1. [job[p] EXCEPT !.dirty = d, !.next = n] \in Job
    BY <1>1 DEF Job
  <2>2. [job EXCEPT ![p].dirty = d, ![p].next = n]
          = [job EXCEPT ![p] = [job[p] EXCEPT !.dirty = d, !.next = n]]
    BY DEF Typed
  <2>3. QED  BY <1>10, <1>2, <2>1, <2>2, Zenon
<1>11. ASSUME NEW I \in SUBSET Values, NEW d \in BOOLEAN,
             job' = [job EXCEPT ![p].items = I, ![p].dirty = d]
      PROVE  job' \in [Procs -> Job]
  <2>1. [job[p] EXCEPT !.items = I, !.dirty = d] \in Job
    BY <1>1 DEF Job
  <2>2. [job EXCEPT ![p].items = I, ![p].dirty = d]
          = [job EXCEPT ![p] = [job[p] EXCEPT !.items = I, !.dirty = d]]
    BY DEF Typed
  <2>3. QED  BY <1>11, <1>2, <2>1, <2>2, Zenon
<1>12. ASSUME NEW S \in SUBSET Preference, NEW d \in BOOLEAN, NEW n \in Phases,
             job' = [job EXCEPT ![p].list = S, ![p].dirty = d, ![p].next = n]
      PROVE  job' \in [Procs -> Job]
  <2>1. [job[p] EXCEPT !.list = S, !.dirty = d, !.next = n] \in Job
    BY <1>1 DEF Job
  <2>2. [job EXCEPT ![p].list = S, ![p].dirty = d, ![p].next = n]
          = [job EXCEPT ![p] = [job[p] EXCEPT !.list = S, !.dirty = d, !.next = n]]
    BY DEF Typed
  <2>3. QED  BY <1>12, <1>2, <2>1, <2>2, Zenon
<1>13. ASSUME NEW I \in SUBSET Values, NEW d \in BOOLEAN, NEW n \in Phases,
             job' = [job EXCEPT ![p].items = I, ![p].dirty = d, ![p].next = n]
      PROVE  job' \in [Procs -> Job]
  <2>1. [job[p] EXCEPT !.items = I, !.dirty = d, !.next = n] \in Job
    BY <1>1 DEF Job
  <2>2. [job EXCEPT ![p].items = I, ![p].dirty = d, ![p].next = n]
          = [job EXCEPT ![p] = [job[p] EXCEPT !.items = I, !.dirty = d, !.next = n]]
    BY DEF Typed
  <2>3. QED  BY <1>13, <1>2, <2>1, <2>2, Zenon
<1>14. QED
  BY <1>3, <1>4, <1>5, <1>6, <1>7, <1>8, <1>9, <1>10, <1>11, <1>12, <1>13, Zenon

\* Finishing a request keeps jobs typed ...
LEMMA FinishJob ==
  ASSUME TypeOK, NEW p \in Procs, Finish(p)
  PROVE  job' \in [Procs -> Job]
<1>1. NoJob \in Job
  BY ProfileAssumption DEF NoJob, Job, Phases
<1>2. QED
  BY <1>1 DEF TypeOK, Job, Finish

\* ... and so is the list that Get reads.
LEMMA GetJob ==
  ASSUME TypeOK, NEW p \in Procs, NEW n \in Phases, Get(p, n)
  PROVE  job' \in [Procs -> Job]
<1>1. Typed
  BY DEF Typed, TypeOK, Job
<1>2. ASSUME NEW S \in cache, job' = [job EXCEPT ![p].list = S]  PROVE job' \in [Procs -> Job]
  <2>1. S \in SUBSET Preference
    BY DEF TypeOK
  <2>2. QED  BY <1>1, <1>2, <2>1, JobWrites
<1>3. ASSUME job' = [job EXCEPT ![p].list = prefs, ![p].next = n]  PROVE job' \in [Procs -> Job]
  <2>1. prefs \in SUBSET Preference
    BY DEF TypeOK
  <2>2. QED  BY <1>1, <1>3, <2>1, JobWrites
<1>4. QED  BY <1>2, <1>3 DEF Get

\* A handler keeps the jobs of the threads typed ...
LEMMA HandlerJob ==
  ASSUME TypeOK, NEW p \in Procs, Handler(p)
  PROVE  job' \in [Procs -> Job]
<1> USE DEF Phases
<1>1. Typed /\ job[p].next \in Phases
  BY DEF Typed, TypeOK, Job
<1>2. CASE List(p) \/ Inject(p)
  BY <1>2, GetJob DEF List, Inject
<1>3. CASE Fill(p)
  BY <1>3, <1>1, FinishJob, JobWrites DEF Fill
<1>4. CASE FillInjection(p) \/ Uninject(p)
  BY <1>4, FinishJob DEF FillInjection, Uninject
<1>5. CASE Create(p)
  BY <1>5, <1>1, JobWrites DEF Create
<1>6. CASE Upserted(p)
  BY <1>6, <1>1, JobWrites DEF Upserted
<1>7. ASSUME NEW o \in Ops, Read(p, o)  PROVE job' \in [Procs -> Job]
  <2>1. PICK m \in prefs : job' = [job EXCEPT ![p].list = {m}]
    BY <1>7 DEF Read
  <2>2. {m} \in SUBSET Preference
    BY DEF TypeOK
  <2>3. QED  BY <1>1, <2>1, <2>2, JobWrites
<1>8. CASE WriteUpdate(p)
  BY <1>8, <1>1, JobWrites DEF WriteUpdate
<1>9. CASE WriteDelete(p)
  BY <1>9, <1>1, FinishJob, JobWrites DEF WriteDelete
<1>10. CASE Written(p)
  BY <1>10, <1>1, FinishJob, JobWrites DEF Written
<1>11. QED
  BY <1>2, <1>3, <1>4, <1>5, <1>6, <1>7, <1>8, <1>9, <1>10 DEF Handler

\* ... and so does an induction ...
LEMMA InduceJob ==
  ASSUME TypeOK, NEW p \in Procs, Induce(p)
  PROVE  job' \in [Procs -> Job]
<1> USE DEF Phases
<1>1. Typed /\ job[p].next \in Phases /\ job[p].items \in SUBSET Values /\ job \in [Procs -> Job]
  BY DEF Typed, TypeOK, Job
<1>2. CASE (\E o \in Ops : CheckLock(p, o)) \/ Record(p) \/ TooFew(p) \/ Complete(p)
  BY <1>2, <1>1 DEF CheckLock, Record, TooFew, Complete, threads
<1>3. CASE CheckCooldown(p) \/ Dropped(p) \/ Close(p)
  BY <1>3, <1>1, FinishJob, JobWrites DEF CheckCooldown, Dropped, Close
<1>4. CASE Acquire(p)
  <2>1. \A r \in Runs : r \in 0 .. MaxRuns
    BY ProfileAssumption DEF Runs
  <2>2. QED
    BY <1>4, <1>1, <2>1, FinishJob, JobWrites DEF Acquire
<1>5. CASE Load(p) \/ Snapshot(p)
  BY <1>5, GetJob DEF Load, Snapshot
<1>6. CASE LLMFails(p) \/ Release(p)
  <2>1. job' = [job EXCEPT ![p].list = {}]
    BY <1>6 DEF LLMFails, Release
  <2>2. {} \in SUBSET Preference
    OBVIOUS
  <2>3. QED  BY <1>1, <2>1, <2>2, JobWrites, Zenon
<1>7. CASE LLMAnswers(p)
  BY <1>7, <1>1, JobWrites DEF LLMAnswers
<1>8. CASE Reinforce(p)
  <2>1. PICK v : job' = [job EXCEPT ![p].items = job[p].items \ {v}, ![p].dirty = TRUE]
    BY <1>8, <1>1 DEF Reinforce
  <2>2. QED  BY <1>1, <2>1, JobWrites
<1>9. CASE Extract(p)
  <2>1. PICK v : job' = [job EXCEPT ![p].items = job[p].items \ {v}, ![p].dirty = TRUE, ![p].next = "items"]
    BY <1>9, <1>1 DEF Extract
  <2>2. QED  BY <1>1, <2>1, JobWrites
<1>10. QED
  BY <1>2, <1>3, <1>4, <1>5, <1>6, <1>7, <1>8, <1>9 DEF Induce

\* ... and the scheduler.
LEMMA SchedulerJob ==
  ASSUME TypeOK, NEW p \in Procs, Scheduler(p)
  PROVE  job' \in [Procs -> Job]
<1> USE DEF Phases
<1>1. Typed /\ job[p].list \in SUBSET Preference /\ job \in [Procs -> Job]
  BY DEF Typed, TypeOK, Job
<1>2. CASE Sweep(p) \/ Recheck(p)
  BY <1>2, GetJob DEF Sweep, Recheck
<1>3. CASE MarkDormant(p) \/ CleanUp(p)
  <2>1. PICK m : job' = [job EXCEPT ![p].list = job[p].list \ {m}, ![p].dirty = TRUE]
    BY <1>3, <1>1 DEF MarkDormant, CleanUp
  <2>2. QED  BY <1>1, <2>1, JobWrites
<1>4. CASE DormantDone(p)
  BY <1>4, <1>1, JobWrites DEF DormantDone
<1>5. CASE CleanUpDone(p)
  BY <1>5, FinishJob DEF CleanUpDone
<1>6. QED
  BY <1>2, <1>3, <1>4, <1>5 DEF Scheduler

\* A handler keeps phases, operations and races typed ...
LEMMA HandlerControl ==
  ASSUME TypeOK, NEW p \in Procs, Handler(p)
  PROVE  /\ pc' \in [Procs -> Phases] /\ op' \in [Procs -> Ops \cup {"none"}]
         /\ raced' \subseteq Procs /\ requests' \in 0 .. MaxRequests
<1> USE ProfileAssumption DEF TypeOK, Get, Goto, Finish, Begin, Start, begun, threads, Upsert,
        Race, Phases
<1>1. CASE List(p)
  BY <1>1 DEF List
<1>2. CASE Fill(p)
  BY <1>2 DEF Fill
<1>3. CASE Inject(p)
  BY <1>3 DEF Inject
<1>4. CASE FillInjection(p)
  BY <1>4 DEF FillInjection
<1>5. CASE Create(p)
  BY <1>5 DEF Create
<1>6. CASE Upserted(p)
  BY <1>6 DEF Upserted
<1>7. CASE WriteUpdate(p)
  BY <1>7 DEF WriteUpdate
<1>8. CASE WriteDelete(p)
  BY <1>8 DEF WriteDelete
<1>9. CASE Written(p)
  BY <1>9 DEF Written
<1>10. CASE Uninject(p)
  BY <1>10 DEF Uninject
<1>11. CASE \E o \in Ops : Read(p, o)
  BY <1>11 DEF Read
<1>12. QED
  BY <1>1, <1>2, <1>3, <1>4, <1>5, <1>6, <1>7, <1>8, <1>9, <1>10, <1>11 DEF Handler

\* ... and so does an induction ...
LEMMA InduceControl ==
  ASSUME TypeOK, NEW p \in Procs, Induce(p)
  PROVE  /\ pc' \in [Procs -> Phases] /\ op' \in [Procs -> Ops \cup {"none"}]
         /\ raced' \subseteq Procs /\ requests' \in 0 .. MaxRequests
<1> USE ProfileAssumption DEF TypeOK, Get, Goto, Finish, Begin, Start, begun, threads, Upsert,
        Race, Phases
<1>1. CASE CheckCooldown(p)
  BY <1>1 DEF CheckCooldown
<1>2. CASE Acquire(p)
  BY <1>2 DEF Acquire
<1>3. CASE Record(p)
  BY <1>3 DEF Record
<1>4. CASE TooFew(p)
  BY <1>4 DEF TooFew
<1>5. CASE Load(p)
  BY <1>5 DEF Load
<1>6. CASE LLMFails(p)
  BY <1>6 DEF LLMFails
<1>7. CASE LLMAnswers(p)
  BY <1>7 DEF LLMAnswers
<1>8. CASE Dropped(p)
  BY <1>8 DEF Dropped
<1>9. CASE Reinforce(p)
  BY <1>9 DEF Reinforce
<1>10. CASE Extract(p)
  BY <1>10 DEF Extract
<1>11. CASE Snapshot(p)
  BY <1>11 DEF Snapshot
<1>12. CASE Release(p)
  BY <1>12 DEF Release
<1>13. CASE Complete(p)
  BY <1>13 DEF Complete
<1>14. CASE Close(p)
  BY <1>14 DEF Close
<1>15. CASE \E o \in Ops : CheckLock(p, o)
  BY <1>15 DEF CheckLock
<1>16. QED
  BY <1>1, <1>2, <1>3, <1>4, <1>5, <1>6, <1>7, <1>8, <1>9, <1>10, <1>11, <1>12, <1>13, <1>14,
          <1>15 DEF Induce

\* ... and the scheduler.
LEMMA SchedulerControl ==
  ASSUME TypeOK, NEW p \in Procs, Scheduler(p)
  PROVE  /\ pc' \in [Procs -> Phases] /\ op' \in [Procs -> Ops \cup {"none"}]
         /\ raced' \subseteq Procs /\ requests' \in 0 .. MaxRequests
<1> USE ProfileAssumption DEF TypeOK, Get, Goto, Finish, Begin, Start, begun, threads, Upsert,
        Race, Phases
<1>1. CASE Sweep(p)
  BY <1>1 DEF Sweep
<1>2. CASE MarkDormant(p)
  BY <1>2 DEF MarkDormant
<1>3. CASE DormantDone(p)
  BY <1>3 DEF DormantDone
<1>4. CASE Recheck(p)
  BY <1>4 DEF Recheck
<1>5. CASE CleanUp(p)
  BY <1>5 DEF CleanUp
<1>6. CASE CleanUpDone(p)
  BY <1>6 DEF CleanUpDone
<1>7. QED
  BY <1>1, <1>2, <1>3, <1>4, <1>5, <1>6 DEF Scheduler

\* The types of the engine and of the flags.
Scalars ==
  /\ lock \in 0 .. MaxRuns
  /\ runs \in [Runs -> {"none", "running", "completed", "failed", "skipped"}]
  /\ cooling \subseteq Runs /\ lost \subseteq Runs
  /\ {late, lateInject, overlap, blind} \subseteq BOOLEAN

\* A handler keeps them typed ...
LEMMA HandlerScalars ==
  ASSUME TypeOK, NEW p \in Procs, Handler(p)
  PROVE  Scalars'
<1> USE DEF TypeOK, Scalars, engine, caches, EmptyCache, EmptyInjected
<1>1. CASE List(p) \/ Inject(p) \/ (\E o \in Ops : Read(p, o)) \/ Create(p)
  BY <1>1 DEF List, Inject, Read, Create
<1>2. CASE Upserted(p) \/ WriteUpdate(p) \/ WriteDelete(p) \/ Written(p) \/ Uninject(p)
  BY <1>2 DEF Upserted, WriteUpdate, WriteDelete, Written, Uninject
<1>3. CASE Fill(p)
  BY <1>3 DEF Fill
<1>4. CASE FillInjection(p)
  BY <1>4 DEF FillInjection
<1>5. QED  BY <1>1, <1>2, <1>3, <1>4 DEF Handler

\* ... an induction, which has a run once it holds the lock ...
LEMMA InduceScalars ==
  ASSUME TypeOK, NEW p \in Procs, Local(p), Induce(p)
  PROVE  Scalars'
<1> USE ProfileAssumption DEF TypeOK, Scalars, SetRun, engine, Runs, caches, EmptyCache,
        EmptyInjected
<1>0. pc[p] \in {"record", "llm"} => job[p].run \in 1 .. MaxRuns
  <2>1. job[p].run \in 0 .. MaxRuns
    OBVIOUS
  <2>2. pc[p] \in {"record", "llm"} => job[p].run # 0
    BY DEF Local, Fit, HasRun, Induction
  <2>3. QED  BY <2>1, <2>2
<1>1. CASE CheckCooldown(p)
  BY <1>1 DEF CheckCooldown
<1>2. CASE Acquire(p)
  BY <1>2 DEF Acquire
<1>3. CASE Record(p)
  BY <1>0, <1>3 DEF Record
<1>4. CASE TooFew(p)
  BY <1>4 DEF TooFew
<1>5. CASE Load(p)
  BY <1>5 DEF Load
<1>6. CASE LLMFails(p)
  BY <1>6 DEF LLMFails
<1>7. CASE LLMAnswers(p)
  BY <1>7 DEF LLMAnswers
<1>8. CASE Dropped(p)
  BY <1>0, <1>8 DEF Dropped
<1>9. CASE Reinforce(p)
  BY <1>9 DEF Reinforce
<1>10. CASE Extract(p)
  BY <1>10 DEF Extract
<1>11. CASE Snapshot(p)
  BY <1>11 DEF Snapshot
<1>12. CASE Release(p)
  BY <1>12 DEF Release
<1>13. CASE Complete(p)
  BY <1>13 DEF Complete
<1>14. CASE Close(p)
  BY <1>14 DEF Close
<1>15. CASE \E o \in Ops : CheckLock(p, o)
  BY <1>15 DEF CheckLock
<1>16. QED
  BY <1>1, <1>2, <1>3, <1>4, <1>5, <1>6, <1>7, <1>8, <1>9, <1>10, <1>11, <1>12, <1>13, <1>14,
          <1>15 DEF Induce

\* ... and the scheduler.
LEMMA SchedulerScalars ==
  ASSUME TypeOK, NEW p \in Procs, Scheduler(p)
  PROVE  Scalars'
BY DEF TypeOK, Scalars, Scheduler, Sweep, MarkDormant, DormantDone, Recheck, CleanUp, CleanUpDone,
        engine, caches, EmptyCache, EmptyInjected

\* The rows that are written are preferences.
LEMMA RowTypes ==
  /\ \A i \in Ids, v \in Values, o \in BOOLEAN : New(i, v, o) \in Preference /\ New(i, v, o).id = i
  /\ \A m \in Preference :
       /\ m.id \in Ids
       /\ \A v \in Values : [m EXCEPT !.value = v, !.observed = FALSE, !.old = FALSE] \in Preference
       /\ [m EXCEPT !.strong = TRUE, !.old = FALSE] \in Preference
       /\ [m EXCEPT !.active = FALSE, !.old = FALSE] \in Preference
BY DEF New, Preference

\* What a thread has listed is seen.
LEMMA ListSeen == \A p \in Procs : job[p].list \subseteq Listed /\ job[p].list \subseteq Seen
<1>1. ASSUME NEW p \in Procs, NEW m \in job[p].list
      PROVE  m \in Listed
  <2>1. job[p].list \in {job[q].list : q \in Procs}
    OBVIOUS
  <2>2. QED  BY <2>1, Zenon DEF Listed
<1>2. \A p \in Procs : job[p].list \subseteq Listed
  BY <1>1
<1>3. Listed \subseteq Seen
  <2> SUFFICES ASSUME NEW m \in Listed  PROVE m \in Seen
    OBVIOUS
  <2> QED  BY DEF Seen
<1>4. QED  BY <1>2, <1>3

\* INSERT OR REPLACE writes a row of the type that it is given.
LEMMA UpsertTable ==
  ASSUME TypeOK, NEW p, NEW m \in Preference, NEW next, Upsert(p, m, next)
  PROVE  prefs' \subseteq Preference /\ used' \subseteq Ids /\ used \subseteq used'
BY RowTypes DEF TypeOK, Upsert

\* A handler keeps the rows and what is copied of them typed ...
LEMMA HandlerTable ==
  ASSUME TypeOK, NEW p \in Procs, Handler(p)
  PROVE  /\ prefs' \subseteq Preference /\ used' \subseteq Ids /\ reinforced' \subseteq used'
         /\ cache' \subseteq SUBSET Preference /\ injected' \subseteq SUBSET Preference
<1> USE DEF TypeOK, EmptyCache, EmptyInjected, table, caches
<1>1. CASE \/ List(p) \/ Fill(p) \/ Inject(p) \/ FillInjection(p) \/ Upserted(p)
           \/ (\E o \in Ops : Read(p, o)) \/ WriteDelete(p) \/ Written(p) \/ Uninject(p)
  BY <1>1 DEF List, Fill, Inject, FillInjection, Upserted, Read, WriteDelete, Written, Uninject, Job
<1>2. CASE Create(p)
  <2>1. PICK i \in Ids, v \in Values : Upsert(p, New(i, v, FALSE), "written")
    BY <1>2 DEF Create
  <2>2. New(i, v, FALSE) \in Preference
    BY RowTypes
  <2>3. UNCHANGED <<reinforced, caches>>
    BY <1>2 DEF Create
  <2>4. QED  BY <2>1, <2>2, <2>3, UpsertTable
<1>3. CASE WriteUpdate(p)
  <2>1. PICK m \in job[p].list, v \in Values :
          Upsert(p, [m EXCEPT !.value = v, !.observed = FALSE, !.old = FALSE], "written")
    BY <1>3 DEF WriteUpdate
  <2>2. m \in Preference
    BY DEF Job
  <2>3. [m EXCEPT !.value = v, !.observed = FALSE, !.old = FALSE] \in Preference
    BY <2>2, RowTypes
  <2>4. UNCHANGED <<reinforced, caches>>
    BY <1>3 DEF WriteUpdate
  <2>5. QED  BY <2>1, <2>3, <2>4, UpsertTable
<1>4. QED
  BY <1>1, <1>2, <1>3 DEF Handler

\* ... and so does an induction, which reinforces ids that it has seen ...
LEMMA InduceTable ==
  ASSUME TypeOK, KnownIds, NEW p \in Procs, Induce(p)
  PROVE  /\ prefs' \subseteq Preference /\ used' \subseteq Ids /\ reinforced' \subseteq used'
         /\ cache' \subseteq SUBSET Preference /\ injected' \subseteq SUBSET Preference
<1> USE DEF TypeOK, EmptyCache, EmptyInjected, table, caches
<1>1. CASE \/ (\E o \in Ops : CheckLock(p, o)) \/ CheckCooldown(p) \/ Acquire(p) \/ Record(p)
           \/ TooFew(p) \/ Load(p) \/ LLMFails(p) \/ LLMAnswers(p) \/ Dropped(p)
           \/ Snapshot(p) \/ Release(p) \/ Complete(p) \/ Close(p)
  BY <1>1 DEF CheckLock, CheckCooldown, Acquire, Record, TooFew, Load, LLMFails, LLMAnswers,
          Dropped,
              Snapshot, Release, Complete, Close
<1>2. CASE Reinforce(p)
  <2>1. PICK k \in job[p].list :
          /\ prefs' = {IF n.id = k.id THEN [n EXCEPT !.strong = TRUE, !.old = FALSE] ELSE n : n \in prefs}
          /\ reinforced' = reinforced \cup {k.id}
    BY <1>2 DEF Reinforce
  <2>2. k.id \in used
    <3>1. k \in Seen
      BY ListSeen
    <3>2. QED  BY <3>1 DEF KnownIds
  <2>3. UNCHANGED <<used, caches>>
    BY <1>2 DEF Reinforce
  <2>4. prefs' \subseteq Preference
    <3> DEFINE Edit(n) == IF n.id = k.id THEN [n EXCEPT !.strong = TRUE, !.old = FALSE] ELSE n
    <3>1. \A n \in prefs : Edit(n) \in Preference
      BY RowTypes
    <3>2. prefs' = {Edit(n) : n \in prefs}
      BY <2>1
    <3> HIDE DEF Edit
    <3>3. QED  BY <3>1, <3>2
  <2>5. QED  BY <2>1, <2>2, <2>3, <2>4
<1>3. CASE Extract(p)
  <2>1. PICK v \in job[p].items, i \in Ids : Upsert(p, New(i, v, TRUE), "items")
    BY <1>3 DEF Extract
  <2>2. v \in Values
    BY DEF Job
  <2>3. New(i, v, TRUE) \in Preference
    BY <2>2, RowTypes
  <2>4. UNCHANGED <<reinforced, caches>>
    BY <1>3 DEF Extract
  <2>5. QED  BY <2>1, <2>3, <2>4, UpsertTable
<1>4. QED
  BY <1>1, <1>2, <1>3 DEF Induce

\* ... and the scheduler.
LEMMA SchedulerTable ==
  ASSUME TypeOK, NEW p \in Procs, Scheduler(p)
  PROVE  /\ prefs' \subseteq Preference /\ used' \subseteq Ids /\ reinforced' \subseteq used'
         /\ cache' \subseteq SUBSET Preference /\ injected' \subseteq SUBSET Preference
<1> USE DEF TypeOK, EmptyCache, EmptyInjected, table, caches
<1>1. CASE Sweep(p) \/ DormantDone(p) \/ Recheck(p) \/ CleanUp(p) \/ CleanUpDone(p)
  BY <1>1 DEF Sweep, DormantDone, Recheck, CleanUp, CleanUpDone
<1>2. CASE MarkDormant(p)
  <2>1. PICK m \in Stale(p) :
          prefs' = {IF n.id = m.id THEN [n EXCEPT !.active = FALSE,
          !.old = FALSE] ELSE n : n \in prefs}
    BY <1>2 DEF MarkDormant
  <2>2. prefs' \subseteq Preference
    <3> DEFINE Edit(n) == IF n.id = m.id THEN [n EXCEPT !.active = FALSE, !.old = FALSE] ELSE n
    <3>1. \A n \in prefs : Edit(n) \in Preference
      BY RowTypes
    <3>2. prefs' = {Edit(n) : n \in prefs}
      BY <2>1
    <3> HIDE DEF Edit
    <3>3. QED  BY <3>1, <3>2
  <2>3. QED  BY <1>2, <2>2 DEF MarkDormant
<1>3. QED
  BY <1>1, <1>2 DEF Scheduler

\* A step of a thread keeps the types.
LEMMA StepType ==
  ASSUME TypeOK, KnownIds, NEW p \in Procs, Local(p), Step(p)
  PROVE  TypeOK'
<1>1. job' \in [Procs -> Job]
  BY HandlerJob, InduceJob, SchedulerJob DEF Step
<1>2. /\ pc' \in [Procs -> Phases] /\ op' \in [Procs -> Ops \cup {"none"}]
      /\ raced' \subseteq Procs /\ requests' \in 0 .. MaxRequests
  BY HandlerControl, InduceControl, SchedulerControl DEF Step
<1>3. Scalars'
  BY HandlerScalars, InduceScalars, SchedulerScalars DEF Step
<1>4. /\ prefs' \subseteq Preference /\ used' \subseteq Ids /\ reinforced' \subseteq used'
      /\ cache' \subseteq SUBSET Preference /\ injected' \subseteq SUBSET Preference
  BY HandlerTable, InduceTable, SchedulerTable DEF Step
<1>5. QED
  BY <1>1, <1>2, <1>3, <1>4 DEF TypeOK, Job, Scalars

\* Time and the death of the server, too.
LEMMA EnvironmentType ==
  ASSUME TypeOK, Environment
  PROVE  TypeOK'
<1> USE ProfileAssumption DEF TypeOK, table, caches, engine, threads, begun, EmptyCache,
        EmptyInjected
<1>1. CASE Expire \/ CooledDown
  BY <1>1 DEF Expire, CooledDown
<1>5. CASE CacheExpires
  BY <1>5 DEF CacheExpires
<1>2. CASE Season
  <2>1. \A m \in Preference : [m EXCEPT !.aged = TRUE, !.old = TRUE] \in Preference
    BY DEF Preference
  <2>2. prefs' \subseteq Preference
    <3> DEFINE Later(m) == [m EXCEPT !.aged = TRUE, !.old = TRUE]
    <3>1. prefs' = {Later(m) : m \in prefs}
      BY <1>2 DEF Season
    <3> HIDE DEF Later
    <3>2. \A m \in Preference : Later(m) \in Preference
      BY <2>1 DEF Later
    <3>3. QED  BY <3>1, <3>2
  <2>3. UNCHANGED <<used, runs, lost, overlap, pc, op, requests, job, raced, blind>>
    BY <1>2 DEF Season
  <2>4. cache' = {} /\ injected' = {} /\ lock' = 0 /\ cooling' = {} /\ reinforced' = {}
        /\ late' = FALSE /\ lateInject' = FALSE
    BY <1>2 DEF Season
  <2>5. {late', lateInject', overlap', blind'} \subseteq BOOLEAN
    BY <2>3, <2>4
  <2>6. QED  BY <2>2, <2>3, <2>4, <2>5
<1>3. CASE Crash
  <2>1. NoJob \in Job
    BY DEF NoJob, Job, Phases
  <2>2. lost' \subseteq Runs
    <3>1. \A p \in Procs : job[p].run # 0 => job[p].run \in Runs
      BY DEF Runs, Job
    <3>2. QED  BY <1>3, <3>1 DEF Crash
  <2>3. pc' \in [Procs -> Phases] /\ op' \in [Procs -> Ops \cup {"none"}]
    BY <1>3 DEF Crash, Phases
  <2>4. job' \in [Procs -> Job]
    BY <1>3, <2>1 DEF Crash
  <2>5. QED  BY <1>3, <2>2, <2>3, <2>4 DEF Crash, Job
<1>4. QED
  BY <1>1, <1>2, <1>3, <1>5 DEF Environment

-----------------------------------------------------------------------------
(* Threads. *)

\* A step of a thread leaves the others where they are.
LEMMA OthersKeep ==
  ASSUME TypeOK, NEW p \in Procs, Step(p), NEW q \in Procs \ {p}
  PROVE  pc'[q] = pc[q] /\ op'[q] = op[q] /\ job'[q] = job[q]
<1> USE DEF TypeOK, Get, Goto, Finish, Begin, Start, begun, threads
<1>1. CASE Handler(p)
  BY <1>1 DEF Handler, Read, List, Fill, Inject, FillInjection, Create, Upserted, WriteUpdate,
          WriteDelete, Written, Uninject
<1>2. CASE Induce(p)
  BY <1>2 DEF Induce, CheckLock, CheckCooldown, Acquire, Record, TooFew, Load, LLMFails,
          LLMAnswers, Dropped, Reinforce, Extract, Snapshot, Release, Complete, Close
<1>3. CASE Scheduler(p)
  BY <1>3 DEF Scheduler, Sweep, MarkDormant, DormantDone, Recheck, CleanUp, CleanUpDone
<1>4. QED  BY <1>1, <1>2, <1>3 DEF Step

\* What a thread knows of itself stays true.
LEMMA LocalStep ==
  ASSUME TypeOK, NEW p \in Procs, Local(p), Step(p)
  PROVE  Local(p)'
<1> USE ProfileAssumption DEF TypeOK, Get, Goto, Finish, Begin, Start, NoJob, begun, threads,
        Local, Fit, HasRun, DirtyAt, Induction
<1>1. CASE List(p)
  BY <1>1 DEF List
<1>2. CASE Fill(p)
  BY <1>2 DEF Fill
<1>3. CASE Inject(p)
  BY <1>3 DEF Inject
<1>4. CASE FillInjection(p)
  BY <1>4 DEF FillInjection
<1>5. CASE Create(p)
  BY <1>5 DEF Create
<1>6. CASE Upserted(p)
  BY <1>6 DEF Upserted
<1>7. CASE WriteUpdate(p)
  BY <1>7 DEF WriteUpdate
<1>8. CASE WriteDelete(p)
  BY <1>8 DEF WriteDelete
<1>9. CASE Written(p)
  BY <1>9 DEF Written
<1>10. CASE Uninject(p)
  BY <1>10 DEF Uninject
<1>11. CASE CheckCooldown(p)
  BY <1>11 DEF CheckCooldown
<1>12. CASE Acquire(p)
  <2>1. pc[p] = "acquire" /\ op[p] \in Induction /\ job[p].run = 0
    BY <1>12 DEF Acquire
  <2>2. CASE ~LockFree
    BY <1>12, <2>1, <2>2 DEF Acquire
  <2>3. CASE LockFree
    <3>1. PICK r \in Runs : job' = [job EXCEPT ![p].run = r] /\ Goto(p, "record")
      BY <1>12, <2>3 DEF Acquire
    <3>2. r # 0
      BY DEF Runs
    <3>3. QED  BY <2>1, <3>1, <3>2
  <2>4. QED  BY <2>2, <2>3
<1>13. CASE Record(p)
  BY <1>13 DEF Record
<1>14. CASE TooFew(p)
  BY <1>14 DEF TooFew
<1>15. CASE Load(p)
  BY <1>15 DEF Load
<1>16. CASE LLMFails(p)
  BY <1>16 DEF LLMFails
<1>17. CASE LLMAnswers(p)
  BY <1>17 DEF LLMAnswers
<1>18. CASE Dropped(p)
  BY <1>18 DEF Dropped
<1>19. CASE Reinforce(p)
  <2>1. pc[p] = "items" /\ UNCHANGED <<pc, op>>
    BY <1>19 DEF Reinforce
  <2>2. PICK v : job' = [job EXCEPT ![p].items = job[p].items \ {v}, ![p].dirty = TRUE]
    BY <1>19 DEF Reinforce
  <2>3. QED  BY <2>1, <2>2
<1>20. CASE Extract(p)
  BY <1>20 DEF Extract
<1>21. CASE Snapshot(p)
  BY <1>21 DEF Snapshot
<1>22. CASE Release(p)
  BY <1>22 DEF Release
<1>23. CASE Complete(p)
  BY <1>23 DEF Complete
<1>24. CASE Close(p)
  BY <1>24 DEF Close
<1>25. CASE Sweep(p)
  BY <1>25 DEF Sweep
<1>26. CASE MarkDormant(p)
  <2>1. pc[p] = "dormant" /\ UNCHANGED <<pc, op>>
    BY <1>26 DEF MarkDormant
  <2>2. PICK m : job' = [job EXCEPT ![p].list = job[p].list \ {m}, ![p].dirty = TRUE]
    BY <1>26 DEF MarkDormant
  <2>3. QED  BY <2>1, <2>2
<1>27. CASE DormantDone(p)
  BY <1>27 DEF DormantDone
<1>28. CASE Recheck(p)
  BY <1>28 DEF Recheck
<1>29. CASE CleanUp(p)
  BY <1>29 DEF CleanUp
<1>30. CASE CleanUpDone(p)
  BY <1>30 DEF CleanUpDone
<1>31. CASE (\E o \in Ops : Read(p, o)) \/ (\E o \in Ops : CheckLock(p, o))
  BY <1>31 DEF Read, CheckLock
<1>32. QED
  BY <1>1, <1>2, <1>3, <1>4, <1>5, <1>6, <1>7, <1>8, <1>9, <1>10, <1>11, <1>12, <1>13, <1>14,
          <1>15, <1>16, <1>17, <1>18, <1>19, <1>20, <1>21, <1>22, <1>23, <1>24, <1>25, <1>26,
                  <1>27, <1>28, <1>29, <1>30, <1>31 DEF Step, Handler, Induce, Scheduler

\* A thread at rest has given up its job.
LEMMA RestStep ==
  ASSUME TypeOK, NEW p \in Procs, Local(p), Step(p)
  PROVE  AtRest(p)'
<1> USE DEF TypeOK, Get, Goto, Finish, Begin, Start, begun, threads, AtRest, Local, Fit, Induction
<1>1. CASE Handler(p)
  BY <1>1 DEF Handler, Read, List, Fill, Inject, FillInjection, Create, Upserted, WriteUpdate,
          WriteDelete, Written, Uninject
<1>2. CASE Induce(p)
  BY <1>2 DEF Induce, CheckLock, CheckCooldown, Acquire, Record, TooFew, Load, LLMFails,
          LLMAnswers, Dropped, Reinforce, Extract, Snapshot, Release, Complete, Close
<1>3. CASE Scheduler(p)
  BY <1>3 DEF Scheduler, Sweep, MarkDormant, DormantDone, Recheck, CleanUp, CleanUpDone
<1>4. QED  BY <1>1, <1>2, <1>3 DEF Step

-----------------------------------------------------------------------------
(* Inductions. *)

Engine == LockOfRun /\ OwnRun /\ RunsAccounted /\ Status /\ Cooled

\* A step that leaves lock, runs and cooldown as they are, and its thread with
\* the run it had, or at the end of one that is settled.
LEMMA QuietEngine ==
  ASSUME TypeOK, TypeOK', Engine, NEW p \in Procs, UNCHANGED engine,
         \A q \in Procs \ {p} : pc'[q] = pc[q] /\ job'[q].run = job[q].run,
         pc'[p] \in {"acquire", "record"} => overlap \/ Hot = {},
         \/ /\ job'[p].run = job[p].run
            /\ job[p].run # 0 =>
                 /\ pc[p] \notin {"complete", "close", "uninject"} <=> pc'[p] \notin {"complete", "close", "uninject"}
                 /\ pc'[p] \in {"few", "load", "llm", "items", "complete", "fill", "upserted"} => runs[job[p].run] = "running"
                 /\ pc'[p] \in {"close", "uninject"} => runs[job[p].run] # "running"
         \/ /\ job'[p].run = 0
            /\ job[p].run # 0 => pc[p] \in {"close", "uninject"}
  PROVE  Engine'
<1> USE DEF Engine, TypeOK, engine
<1>1. LockOfRun'
  BY DEF LockOfRun, Inducing
<1>2. OwnRun'
  BY DEF OwnRun
<1>3. RunsAccounted'
  <2>1. lock # 0 /\ lock \notin lost => \E q \in Procs : (Inducing(q) /\ job[q].run = lock)'
    BY DEF RunsAccounted, Inducing
  <2>2. ASSUME NEW r \in Runs, runs[r] = "running", r \notin lost
        PROVE  \E q \in Procs : job'[q].run = r
    <3>1. PICK q \in Procs : job[q].run = r
      BY <2>2 DEF RunsAccounted
    <3>2. r # 0
      BY DEF Runs
    <3>3. QED  BY <2>2, <3>1, <3>2 DEF Status
  <2>3. QED  BY <2>1, <2>2 DEF RunsAccounted
<1>4. Status'
  BY DEF Status
<1>5. Cooled'
  BY DEF Cooled, Hot
<1>6. QED  BY <1>1, <1>2, <1>3, <1>4, <1>5

\* A step that settles the run of its thread.
LEMMA SettleEngine ==
  ASSUME TypeOK, TypeOK', Engine, NEW p \in Procs,
         UNCHANGED <<lock, cooling, lost, overlap>>,
         \A q \in Procs \ {p} : pc'[q] = pc[q] /\ job'[q].run = job[q].run,
         job'[p].run = job[p].run, job[p].run \in Runs, runs[job[p].run] = "running",
         NEW s \in {"skipped", "failed", "completed"},
         runs' = [runs EXCEPT ![job[p].run] = s],
         \/ pc'[p] = "release" /\ pc[p] \in {"few", "load", "llm"}
         \/ pc'[p] = "close" /\ pc[p] = "complete"
  PROVE  Engine'
<1> USE DEF Engine, TypeOK
<1>1. LockOfRun'
  BY DEF LockOfRun, Inducing
<1>2. OwnRun'
  BY DEF OwnRun
<1>3. RunsAccounted'
  <2>1. lock # 0 /\ lock \notin lost => \E q \in Procs : (Inducing(q) /\ job[q].run = lock)'
    BY DEF RunsAccounted, Inducing
  <2>2. \A r \in Runs : runs'[r] = "running" => runs[r] = "running"
    OBVIOUS
  <2>3. QED  BY <2>1, <2>2 DEF RunsAccounted
<1>4. Status'
  <2> SUFFICES ASSUME NEW q \in Procs, job'[q].run # 0
               PROVE  /\ pc'[q] \in {"few", "load", "llm", "items", "complete", "fill",
                                    "upserted"} =>
                           runs'[job'[q].run] = "running"
                      /\ pc'[q] \in {"close", "uninject"} => runs'[job'[q].run] # "running"
    BY DEF Status
  <2>1. CASE q = p
    BY <2>1
  <2>2. CASE q # p
    <3>1. job[q].run # job[p].run
      BY <2>2 DEF OwnRun, Runs
    <3>2. runs'[job[q].run] = runs[job[q].run]
      BY <3>1
    <3>3. QED  BY <2>2, <3>2 DEF Status
  <2>3. QED  BY <2>1, <2>2
<1>5. Cooled'
  <2>1. Hot' \subseteq Hot
    BY DEF Hot
  <2>2. \A q \in Procs : pc'[q] \in {"acquire", "record"} => pc[q] \in {"acquire", "record"}
    OBVIOUS
  <2>3. QED  BY <2>1, <2>2 DEF Cooled
<1>6. QED  BY <1>1, <1>2, <1>3, <1>4, <1>5

\* A step of a thread keeps what is said of inductions.
LEMMA EngineStep ==
  ASSUME TypeOK, TypeOK', Placed, Engine, NEW p \in Procs, Local(p)', Step(p)
  PROVE  Engine'
<1>0. Local(p)
  BY DEF Placed
<1>1. \A q \in Procs \ {p} : pc'[q] = pc[q] /\ job'[q] = job[q] /\ job'[q].run = job[q].run
  BY OthersKeep
<1>2. /\ job[p].run # 0 <=> op[p] \in Induction /\ pc[p] \notin {"cooldown", "acquire"}
      /\ job'[p].run # 0 <=> op'[p] \in Induction /\ pc'[p] \notin {"cooldown", "acquire"}
  BY <1>0 DEF Local, HasRun
<1>3. job[p].run # 0 /\ pc[p] \in {"few", "load", "llm", "items", "complete", "fill", "upserted"} =>
        runs[job[p].run] = "running"
  BY DEF Engine, Status
<1>4. CASE Handler(p)
  <2>1. UNCHANGED engine
    BY <1>4 DEF Handler, Read, List, Fill, Inject, FillInjection, Create, Upserted, WriteUpdate,
            WriteDelete, Written, Uninject
  <2>2. CASE List(p) \/ Inject(p) \/ FillInjection(p) \/ Create(p) \/ (\E o \in Ops : Read(p, o)) \/ WriteUpdate(p) \/ WriteDelete(p) \/ Written(p)
    <3>1. job[p].run = 0 /\ job'[p].run = 0 /\ pc'[p] \notin {"acquire", "record"}
      BY <1>0, <1>2, <2>2 DEF TypeOK, Local, Fit, Induction, List, Inject, FillInjection, Create,
              Read, WriteUpdate, WriteDelete, Written, Finish, Goto, Begin, Start, Get, begun, NoJob
    <3>2. QED  BY <1>1, <2>1, <3>1, QuietEngine
  <2>3. CASE Fill(p)
    BY <1>0, <1>1, <1>2, <1>3, <2>1, <2>3, QuietEngine DEF TypeOK, Local, Fit, Induction, Fill,
            Finish, Goto, NoJob, begun
  <2>4. CASE Upserted(p)
    BY <1>0, <1>1, <1>2, <1>3, <2>1, <2>4, QuietEngine DEF TypeOK, Local, Fit, Induction, Upserted,
            Goto, begun
  <2>5. CASE Uninject(p)
    BY <1>0, <1>1, <1>2, <1>3, <2>1, <2>5, QuietEngine DEF TypeOK, Uninject, Finish, NoJob
  <2>6. QED  BY <1>4, <2>2, <2>3, <2>4, <2>5 DEF Handler
<1>5. CASE Scheduler(p)
  <2>1. UNCHANGED engine
    BY <1>5 DEF Scheduler, Sweep, MarkDormant, DormantDone, Recheck, CleanUp, CleanUpDone
  <2>2. op[p] \notin Induction /\ op'[p] \notin Induction /\ pc'[p] \notin {"acquire", "record"}
    BY <1>0, <1>5 DEF TypeOK, Local, Fit, Induction, Scheduler, Sweep, MarkDormant, DormantDone,
            Recheck, CleanUp, CleanUpDone, Begin, Get, Goto, Finish, begun
  <2>3. QED  BY <1>0, <1>1, <1>2, <2>1, <2>2, QuietEngine
<1>6. CASE (\E o \in Ops : CheckLock(p, o))
  BY <1>0, <1>1, <1>2, <1>6, QuietEngine DEF TypeOK, CheckLock, Start, Begin, Local, Fit,
          Induction, engine
<1>7. CASE Load(p) \/ Snapshot(p)
  BY <1>0, <1>1, <1>2, <1>3, <1>7, QuietEngine DEF TypeOK, Load, Snapshot, Get, Local, Fit,
          Induction, begun
<1>8. CASE LLMAnswers(p)
  BY <1>0, <1>1, <1>2, <1>3, <1>8, QuietEngine DEF TypeOK, LLMAnswers, Goto, Local, Fit, Induction,
          begun
<1>9. CASE Reinforce(p) \/ Extract(p)
  <2>1. UNCHANGED engine /\ pc[p] = "items" /\ pc'[p] \in {"items", "upserted"}
    BY <1>9 DEF TypeOK, Reinforce, Extract
  <2>2. job'[p].run = job[p].run
    <3>1. CASE Reinforce(p)
      <4>1. PICK v : job' = [job EXCEPT ![p].items = job[p].items \ {v}, ![p].dirty = TRUE]
        BY <3>1 DEF Reinforce, TypeOK
      <4>2. QED  BY <4>1 DEF TypeOK
    <3>2. CASE Extract(p)
      BY <3>2 DEF Extract, TypeOK
    <3>3. QED  BY <1>9, <3>1, <3>2
  <2>3. QED  BY <1>0, <1>1, <1>2, <1>3, <2>1, <2>2, QuietEngine
<1>10. CASE Close(p)
  BY <1>0, <1>1, <1>2, <1>3, <1>10, QuietEngine DEF TypeOK, Close, Goto, Finish, Local, Fit,
          Induction, begun, NoJob, Engine, Status
<1>11. CASE CheckCooldown(p)
  <2>1. UNCHANGED engine /\ job[p].run = 0 /\ job'[p].run = 0
    BY <1>0, <1>2, <1>11 DEF CheckCooldown, Finish, Goto, NoJob, TypeOK
  <2>2. pc'[p] = "idle" \/ (pc'[p] = "acquire" /\ CooldownOver)
    <3>1. CASE CooldownOver
      BY <1>11, <3>1 DEF CheckCooldown, Goto, TypeOK
    <3>2. CASE ~CooldownOver
      BY <1>11, <3>2 DEF CheckCooldown, Finish, TypeOK
    <3>3. QED  BY <3>1, <3>2
  <2>3. CooldownOver => Hot = {}
    BY DEF CooldownOver, Hot
  <2>4. QED  BY <1>1, <2>1, <2>2, <2>3, QuietEngine
<1>12. CASE Acquire(p)
  <2>1. job[p].run = 0 /\ pc[p] = "acquire"
    BY <1>0, <1>2, <1>12 DEF Acquire
  <2>2. CASE ~LockFree
    <3>1. UNCHANGED engine /\ job'[p].run = 0 /\ pc'[p] = "idle"
      BY <1>12, <2>2 DEF Acquire, Finish, NoJob, TypeOK, engine
    <3>2. QED  BY <1>1, <2>1, <3>1, QuietEngine
  <2>3. CASE LockFree
    <3>1. PICK r \in Runs \ Given : lock' = r /\ job' = [job EXCEPT ![p].run = r] /\ Goto(p, "record")
      BY <1>12, <2>3 DEF Acquire
    <3>2. UNCHANGED <<runs, cooling, lost, overlap>>
      BY <1>12 DEF Acquire
    <3>3. job'[p].run = r /\ pc'[p] = "record" /\ r # 0
      BY <3>1 DEF TypeOK, Goto, Runs
    <3>4. \A q \in Procs : ~Inducing(q)
      BY <2>3 DEF LockFree, Engine, LockOfRun, Inducing
    <3>5. runs[r] = "none" /\ \A q \in Procs : job[q].run # r
      BY DEF Given
    <3>6. LockOfRun'
      BY <1>1, <3>1, <3>3, <3>4 DEF LockOfRun, Inducing
    <3>7. OwnRun'
      BY <1>1, <3>3, <3>5 DEF Engine, OwnRun
    <3>8. RunsAccounted'
      <4>1. Inducing(p)' /\ job'[p].run = lock'
        BY <3>1, <3>3 DEF Inducing
      <4>2. ASSUME NEW s \in Runs, runs[s] = "running", s \notin lost  PROVE \E q \in Procs : job'[q].run = s
        <5>1. PICK q \in Procs : job[q].run = s
          BY <4>2 DEF Engine, RunsAccounted
        <5>2. s # 0
          BY DEF Runs
        <5>3. QED  BY <1>1, <2>1, <5>1, <5>2
      <4>3. QED  BY <3>2, <4>1, <4>2 DEF RunsAccounted
    <3>9. Status'
      BY <1>1, <3>2, <3>3 DEF Engine, Status
    <3>10. Cooled'
      <4>1. overlap \/ Hot = {}
        BY <2>1 DEF Engine, Cooled
      <4>2. QED  BY <3>2, <4>1 DEF Cooled, Hot
    <3>11. QED  BY <3>6, <3>7, <3>8, <3>9, <3>10 DEF Engine
  <2>4. QED  BY <2>2, <2>3
<1>13. CASE Record(p)
  <2>1. /\ pc[p] = "record" /\ pc'[p] \in {"few", "load"} /\ job' = job /\ job[p].run \in Runs
        /\ runs' = [runs EXCEPT ![job[p].run] = "running"] /\ cooling' = cooling \cup {job[p].run}
        /\ overlap' = (overlap \/ \E q \in Procs : pc[q] = "acquire") /\ UNCHANGED <<lock, lost>>
    BY <1>0, <1>2, <1>13 DEF Record, SetRun, Goto, TypeOK, Runs, Local, Fit
  <2>2. Inducing(p)
    BY <2>1 DEF Inducing, Runs
  <2>3. \A q \in Procs \ {p} : ~Inducing(q) /\ job[q].run # job[p].run
    BY <2>1, <2>2 DEF Engine, LockOfRun, OwnRun, Inducing, Runs
  <2>4. LockOfRun' /\ OwnRun'
    BY <1>1, <2>1, <2>2 DEF Engine, LockOfRun, OwnRun, Inducing
  <2>5. RunsAccounted'
    <3>1. lock # 0 /\ lock \notin lost => \E q \in Procs : (Inducing(q) /\ job[q].run = lock)'
      BY <1>1, <2>1 DEF Engine, RunsAccounted, Inducing
    <3>2. \A r \in Runs : runs'[r] = "running" => runs[r] = "running" \/ r = job[p].run
      BY <2>1 DEF TypeOK
    <3>3. QED  BY <2>1, <3>1, <3>2 DEF Engine, RunsAccounted
  <2>6. Status'
    BY <1>1, <2>1, <2>3 DEF Engine, Status, TypeOK
  <2>7. Cooled'
    <3>1. CASE overlap'
      BY <3>1 DEF Cooled
    <3>2. CASE ~overlap'
      <4>1. Hot = {}
        BY <2>1, <3>2 DEF Engine, Cooled
      <4>2. Hot' \subseteq {job[p].run}
        BY <2>1, <4>1 DEF Hot, TypeOK
      <4>3. \A q \in Procs : pc'[q] \notin {"acquire", "record"}
        <5>1. ASSUME NEW q \in Procs \ {p}, pc[q] = "record"  PROVE FALSE
          BY <2>3, <5>1 DEF Placed, Local, Fit, HasRun, Inducing
        <5>2. QED  BY <1>1, <2>1, <3>2, <5>1
      <4>4. QED  BY <4>2, <4>3 DEF Cooled
    <3>3. QED  BY <3>1, <3>2
  <2>8. QED  BY <2>4, <2>5, <2>6, <2>7 DEF Engine
<1>14. CASE TooFew(p) \/ LLMFails(p)
  <2>1. /\ pc[p] \in {"few", "load", "llm"} /\ pc'[p] = "release" /\ UNCHANGED <<lock, cooling, lost, overlap>>
        /\ job'[p].run = job[p].run
        /\ \E s \in {"skipped", "failed", "completed"} : runs' = [runs EXCEPT ![job[p].run] = s]
    BY <1>14 DEF TooFew, LLMFails, SetRun, Goto, TypeOK
  <2>2. job[p].run \in Runs
    BY <1>0, <1>2, <2>1 DEF TypeOK, Runs, Local, Fit
  <2>3. runs[job[p].run] = "running"
    BY <1>3, <2>1, <2>2 DEF Runs
  <2>4. QED  BY <1>1, <2>1, <2>2, <2>3, SettleEngine
<1>16. CASE Dropped(p)
  BY <1>0, <1>1, <1>2, <1>16 DEF Engine, Dropped, Hot, Cooled, TypeOK, Finish, LockOfRun, OwnRun,
          RunsAccounted, Status, Inducing, engine, NoJob
<1>17. CASE Release(p)
  <2>1. /\ pc[p] = "release" /\ lock' = 0 /\ job'[p].run = job[p].run /\ job[p].run \in Runs
        /\ UNCHANGED <<runs, cooling, lost, overlap>>
        /\ pc'[p] = IF runs[job[p].run] = "running" THEN "complete" ELSE "close"
    BY <1>0, <1>2, <1>17 DEF Release, Goto, TypeOK, Local, Fit, Runs
  <2>2. Inducing(p)
    BY <2>1 DEF Inducing, Runs
  <2>3. \A q \in Procs \ {p} : ~Inducing(q)
    BY <2>1, <2>2 DEF Engine, LockOfRun, OwnRun, Inducing, Runs
  <2>4. LockOfRun'
    BY <1>1, <2>1, <2>3 DEF LockOfRun, Inducing
  <2>5. OwnRun'
    BY <1>1, <2>1 DEF Engine, OwnRun
  <2>6. RunsAccounted'
    <3>1. ASSUME NEW r \in Runs, runs[r] = "running", r \notin lost  PROVE \E q \in Procs : job'[q].run = r
      BY <1>1, <2>1, <3>1 DEF Engine, RunsAccounted
    <3>2. QED  BY <2>1, <3>1 DEF RunsAccounted
  <2>7. Status'
    BY <1>1, <2>1 DEF Engine, Status
  <2>8. Cooled'
    BY <1>1, <2>1 DEF Engine, Cooled, Hot
  <2>9. QED  BY <2>4, <2>5, <2>6, <2>7, <2>8 DEF Engine
<1>18. CASE Complete(p)
  <2>1. /\ pc[p] = "complete" /\ pc'[p] = "close" /\ UNCHANGED <<lock, cooling, lost, overlap>> /\ job' = job
        /\ runs' = [runs EXCEPT ![job[p].run] = "completed"]
    BY <1>18 DEF Complete, SetRun, Goto, TypeOK
  <2>2. job[p].run \in Runs
    BY <1>0, <1>2, <2>1 DEF TypeOK, Runs, Local, Fit
  <2>3. runs[job[p].run] = "running"
    BY <1>3, <2>1, <2>2 DEF Runs
  <2>4. QED  BY <1>1, <2>1, <2>2, <2>3, SettleEngine
<1>19. QED
  BY <1>4, <1>5, <1>6, <1>7, <1>8, <1>9, <1>10, <1>11, <1>12, <1>13, <1>14, <1>16, <1>17,
          <1>18 DEF Step, Induce

-----------------------------------------------------------------------------
(* Writes of the table, and the other steps. *)

Deletes(p) == WriteDelete(p) /\ IdsOf(job[p].list) \subseteq IdsOf(prefs)
Writes(p)  == \/ Create(p) \/ WriteUpdate(p) \/ Deletes(p)
              \/ Reinforce(p) \/ Extract(p) \/ MarkDormant(p) \/ CleanUp(p)

\* A thread that writes the table races the others and has the cache to empty.
LEMMA WriteStep ==
  ASSUME TypeOK, NEW p \in Procs, Writes(p)
  PROVE  /\ Race(p) /\ UNCHANGED caches /\ job'[p].dirty
         /\ pc[p] \in {"idle", "write", "items", "dormant", "cleanup"}
         /\ pc'[p] \in {"upserted", "written", "items", "dormant", "cleanup"}
         /\ pc[p] = "idle" => op'[p] = "create"
         /\ pc[p] # "idle" => op'[p] = op[p]
<1> USE DEF TypeOK, Upsert, Start, Begin, begun
<1>1. CASE Create(p)
  BY <1>1 DEF Create
<1>2. CASE WriteUpdate(p)
  BY <1>2 DEF WriteUpdate
<1>3. CASE Deletes(p)
  BY <1>3 DEF Deletes, WriteDelete
<1>4. CASE Reinforce(p)
  <2>1. pc[p] = "items" /\ UNCHANGED <<pc, begun, caches>> /\ Race(p)
    BY <1>4 DEF Reinforce
  <2>2. PICK v : job' = [job EXCEPT ![p].items = job[p].items \ {v}, ![p].dirty = TRUE]
    BY <1>4 DEF Reinforce
  <2>3. QED  BY <2>1, <2>2
<1>5. CASE Extract(p)
  BY <1>5 DEF Extract
<1>6. CASE MarkDormant(p)
  <2>1. pc[p] = "dormant" /\ UNCHANGED <<pc, begun, caches>> /\ Race(p)
    BY <1>6 DEF MarkDormant
  <2>2. PICK m : job' = [job EXCEPT ![p].list = job[p].list \ {m}, ![p].dirty = TRUE]
    BY <1>6 DEF MarkDormant
  <2>3. QED  BY <2>1, <2>2
<1>7. CASE CleanUp(p)
  <2>1. pc[p] = "cleanup" /\ UNCHANGED <<pc, begun, caches>> /\ Race(p)
    BY <1>7 DEF CleanUp
  <2>2. PICK m : job' = [job EXCEPT ![p].list = job[p].list \ {m}, ![p].dirty = TRUE]
    BY <1>7 DEF CleanUp
  <2>3. QED  BY <2>1, <2>2
<1>8. QED  BY <1>1, <1>2, <1>3, <1>4, <1>5, <1>6, <1>7 DEF Writes

\* A list that is read is the table, or one that the cache had; one that may be
\* outdated counts as raced.
LEMMA GetStep ==
  ASSUME TypeOK, CacheFresh, NEW p \in Procs, NEW next \in Phases, Get(p, next)
  PROVE  /\ job'[p].list \in cache \cup {prefs}
         /\ p \in raced' \/ job'[p].list = prefs
         /\ raced' \cup {p} = raced \cup {p}
         /\ pc'[p] = next \/ (pc'[p] = "fill" /\ job'[p].next = next)
         /\ job'[p].dirty = job[p].dirty
BY DEF Get, TypeOK, CacheFresh

\* What a step that writes nothing does to the list cache, to the cached
\* injection and to the list of its thread.
CacheStep(p) ==
  \/ UNCHANGED <<cache, late>> /\ (job[p].dirty => job'[p].dirty)
  \/ cache' = {}
  \/ pc[p] = "fill" /\ cache' = {job[p].list} /\ late' = (p \in raced)

InjectedStep(p) ==
  \/ UNCHANGED <<injected, lateInject>> /\ (Rewriting(p) => Rewriting(p)')
  \/ injected' = {}
  \/ /\ pc[p] = "inject" /\ lateInject' = (p \in raced)
     /\ injected' = {{m \in job[p].list : m.active}}

ListStep(p) ==
  \/ /\ job'[p].list \subseteq job[p].list
     /\ pc'[p] \notin {"fill", "inject"} /\ ~Comparing(p)'
  \/ /\ job'[p].list = job[p].list /\ (p \in raced' <=> p \in raced)
     /\ pc'[p] # "fill" /\ (pc'[p] = "inject" => pc[p] = "fill")
     /\ Comparing(p)' => Comparing(p)
     /\ Comparing(p)' /\ pc[p] \in {"items", "upserted"} =>
          pc'[p] \in {"items", "upserted"} /\ job'[p].items = job[p].items
  \/ job'[p].list \in cache \cup {prefs} /\ (p \in raced' \/ job'[p].list = prefs)
  \/ job'[p].list \subseteq prefs /\ pc'[p] = "write"

Quiet(p) ==
  /\ UNCHANGED <<table, blind>> /\ raced' \cup {p} = raced \cup {p}
  /\ CacheStep(p) /\ InjectedStep(p) /\ ListStep(p)

\* A step that writes nothing does to them what is said above.
LEMMA QuietStep ==
  ASSUME TypeOK, CacheFresh, NEW p \in Procs, Local(p), Step(p), ~Writes(p)
  PROVE  Quiet(p)
<1> USE DEF TypeOK, Goto, Finish, Begin, Start, begun, threads, table, caches, NoJob, EmptyCache,
        EmptyInjected,
            Quiet, CacheStep, InjectedStep, ListStep, Rewriting, Comparing, Local, Fit, HasRun,
            DirtyAt, Induction
<1>1. CASE List(p)
  BY <1>1, GetStep DEF List, Phases
<1>2. CASE Fill(p)
  BY <1>2 DEF Fill
<1>3. CASE Inject(p)
  BY <1>3, GetStep DEF Inject, Phases
<1>4. CASE FillInjection(p)
  BY <1>4 DEF FillInjection
<1>5. CASE Upserted(p)
  BY <1>5 DEF Upserted
<1>6. CASE WriteDelete(p)
  BY <1>6 DEF WriteDelete, Writes, Deletes
<1>7. CASE Written(p)
  BY <1>7 DEF Written
<1>8. CASE Uninject(p)
  BY <1>8 DEF Uninject
<1>9. CASE CheckCooldown(p)
  BY <1>9 DEF CheckCooldown
<1>10. CASE Acquire(p)
  BY <1>10 DEF Acquire
<1>11. CASE Record(p)
  BY <1>11 DEF Record
<1>12. CASE TooFew(p)
  BY <1>12 DEF TooFew
<1>13. CASE Load(p)
  BY <1>13, GetStep DEF Load, Phases
<1>14. CASE LLMFails(p)
  BY <1>14 DEF LLMFails
<1>15. CASE LLMAnswers(p)
  BY <1>15 DEF LLMAnswers
<1>16. CASE Dropped(p)
  BY <1>16 DEF Dropped
<1>17. CASE Snapshot(p)
  BY <1>17, GetStep DEF Snapshot, Phases
<1>18. CASE Release(p)
  BY <1>18 DEF Release
<1>19. CASE Complete(p)
  BY <1>19 DEF Complete
<1>20. CASE Close(p)
  BY <1>20 DEF Close
<1>21. CASE Sweep(p)
  BY <1>21, GetStep DEF Sweep, Phases
<1>22. CASE DormantDone(p)
  BY <1>22 DEF DormantDone
<1>23. CASE Recheck(p)
  BY <1>23, GetStep DEF Recheck, Phases
<1>24. CASE CleanUpDone(p)
  BY <1>24 DEF CleanUpDone
<1>25. CASE (\E o \in Ops : Read(p, o)) \/ (\E o \in Ops : CheckLock(p, o))
  BY <1>25 DEF Read, CheckLock
<1>26. QED
  BY <1>1, <1>2, <1>3, <1>4, <1>5, <1>6, <1>7, <1>8, <1>9, <1>10, <1>11, <1>12, <1>13, <1>14,
          <1>15, <1>16, <1>17, <1>18, <1>19, <1>20, <1>21, <1>22, <1>23, <1>24, <1>25 DEF Step,
                  Writes, Handler, Induce, Scheduler

-----------------------------------------------------------------------------
(* The caches, and what an induction compares. *)

\* Inductions are alone.
LEMMA Alone == TypeOK /\ Engine => OneInduction
BY DEF TypeOK, Engine, LockOfRun, OwnRun, OneInduction, Inducing

\* A write races every thread that has something to compare or to insert.
LEMMA WriteRaces ==
  ASSUME TypeOK, Engine, NEW p \in Procs, Writes(p), NEW q \in Procs \ {p}
  PROVE  /\ q \in raced => q \in raced'
         /\ pc[q] # "idle" /\ ~(Inducing(p) /\ Inducing(q)) => q \in raced'
         /\ Comparing(q) => q \in raced' \/ Inducing(p)
         /\ pc[q] \in {"fill", "inject"} => q \in raced' \/ Inducing(p)
BY WriteStep DEF TypeOK, Race, Comparing, Inducing

\* What a cache holds, or will be given, is the table unless it is marked.
LEMMA CachesStep ==
  ASSUME TypeOK, Placed, Engine, CacheFresh, ReadTrue, NEW p \in Procs, Step(p)
  PROVE  CacheFresh' /\ ReadTrue'
<1>0. Local(p) /\ OneInduction
  BY Alone DEF Placed
<1>1. \A q \in Procs \ {p} : pc'[q] = pc[q] /\ job'[q] = job[q]
  BY OthersKeep
<1>2. CASE Writes(p)
  <2>1. CacheFresh'
    BY <1>2, WriteStep DEF CacheFresh
  <2>2. ASSUME NEW q \in Procs, pc'[q] \in {"fill", "inject"}  PROVE q \in raced'
    <3>1. q # p
      BY <1>2, <2>2, WriteStep
    <3>2. pc[q] \in {"fill", "inject"}
      BY <1>1, <2>2, <3>1
    <3>3. ~(Inducing(p) /\ Inducing(q))
      BY <1>0, <3>1 DEF OneInduction
    <3>4. QED  BY <1>2, <3>1, <3>2, <3>3, WriteRaces
  <2>3. QED  BY <2>1, <2>2 DEF ReadTrue
<1>3. CASE ~Writes(p)
  <2>1. Quiet(p)
    BY <1>0, <1>3, QuietStep
  <2>2. prefs' = prefs
    BY <2>1 DEF Quiet, table
  <2>3. CacheFresh'
    <3>1. CASE UNCHANGED <<cache, late>> /\ (job[p].dirty => job'[p].dirty)
      BY <1>1, <2>2, <3>1 DEF CacheFresh
    <3>2. CASE cache' = {}
      BY <3>2 DEF CacheFresh
    <3>3. CASE pc[p] = "fill" /\ cache' = {job[p].list} /\ late' = (p \in raced)
      BY <2>2, <3>3 DEF CacheFresh, ReadTrue
    <3>4. QED  BY <2>1, <3>1, <3>2, <3>3 DEF Quiet, CacheStep
  <2>4. ReadTrue'
    <3> SUFFICES ASSUME NEW q \in Procs, pc'[q] \in {"fill", "inject"}
                 PROVE  job'[q].list = prefs' \/ q \in raced'
      BY DEF ReadTrue
    <3>1. CASE q # p
      BY <1>1, <2>1, <2>2, <3>1 DEF Quiet, ReadTrue
    <3>2. CASE q = p
      BY <2>1, <2>2, <3>2 DEF Quiet, ListStep, ReadTrue
    <3>3. QED  BY <3>1, <3>2
  <2>5. QED  BY <2>3, <2>4
<1>4. QED  BY <1>2, <1>3

\* A reinforcement and a change of status edit rows in place.
LEMMA EditedRows ==
  ASSUME TypeOK, NEW p \in Procs, Reinforce(p) \/ MarkDormant(p)
  PROVE  \E f :
           /\ prefs' = {f[n] : n \in prefs}
           /\ \A n \in prefs : /\ f[n].id = n.id /\ f[n].value = n.value /\ f[n].observed = n.observed
                               /\ f[n] = n \/ (~f[n].old /\ (f[n].active => n.active))
<1>1. \A n \in prefs : n \in Preference
  BY DEF TypeOK
<1>2. CASE Reinforce(p)
  <2>1. PICK k : prefs' = {IF n.id = k.id THEN [n EXCEPT !.strong = TRUE, !.old = FALSE] ELSE n : n \in prefs}
    BY <1>2 DEF Reinforce
  <2> DEFINE F(n) == IF n.id = k.id THEN [n EXCEPT !.strong = TRUE, !.old = FALSE] ELSE n
  <2>2. \A n \in prefs : /\ F(n).id = n.id /\ F(n).value = n.value /\ F(n).observed = n.observed
                         /\ F(n) = n \/ (~F(n).old /\ (F(n).active => n.active))
    BY <1>1 DEF Preference
  <2>3. prefs' = {F(n) : n \in prefs}
    BY <2>1
  <2> HIDE DEF F
  <2> WITNESS [n \in prefs |-> F(n)]
  <2> QED  BY <2>2, <2>3
<1>3. CASE MarkDormant(p)
  <2>1. PICK k : prefs' = {IF n.id = k.id THEN [n EXCEPT !.active = FALSE, !.old = FALSE] ELSE n : n \in prefs}
    BY <1>3 DEF MarkDormant
  <2> DEFINE F(n) == IF n.id = k.id THEN [n EXCEPT !.active = FALSE, !.old = FALSE] ELSE n
  <2>2. \A n \in prefs : /\ F(n).id = n.id /\ F(n).value = n.value /\ F(n).observed = n.observed
                         /\ F(n) = n \/ (~F(n).old /\ (F(n).active => n.active))
    BY <1>1 DEF Preference
  <2>3. prefs' = {F(n) : n \in prefs}
    BY <2>1
  <2> HIDE DEF F
  <2> WITNESS [n \in prefs |-> F(n)]
  <2> QED  BY <2>2, <2>3
<1>4. QED  BY <1>2, <1>3

\* The rows that a write leaves in the table: which have gone, and where the
\* others come from.
KeepsRows(p) == \A m \in prefs : \E n \in prefs' : n.id = m.id /\ n.value = m.value

\* A write keeps ids and values, or is a handler's, or takes one row away: one with
\* a new id, or one that was listed as expired.
LEMMA WriteRows ==
  ASSUME TypeOK, NEW p \in Procs, Writes(p)
  PROVE  \/ KeepsRows(p)
         \/ Rewriting(p)'
         \/ \E i \in Ids \ used : \A m \in prefs : m.id # i => m \in prefs'
         \/ \E o \in Expired(p) : \A m \in prefs : m.id # o.id => m \in prefs'
<1>1. CASE Create(p) \/ Extract(p)
  <2>1. PICK i, v, o : i \in Ids \ used /\ prefs' = {n \in prefs : n.id # New(i, v, o).id} \cup {New(i, v, o)}
    BY <1>1, Zenon DEF Create, Extract, Upsert
  <2>2. New(i, v, o).id = i
    BY DEF New
  <2>3. i \in Ids \ used /\ \A m \in prefs : m.id # i => m \in prefs'
    BY <2>1, <2>2
  <2>4. QED  BY <2>3
<1>2. CASE WriteUpdate(p) \/ Deletes(p)
  <2>1. op'[p] = op[p] /\ op[p] \in {"update", "delete"} /\ pc'[p] \in {"upserted", "written"}
    BY <1>2 DEF WriteUpdate, Deletes, WriteDelete, TypeOK, begun
  <2>2. QED  BY <2>1 DEF Rewriting
<1>3. CASE Reinforce(p) \/ MarkDormant(p)
  BY <1>3, EditedRows DEF KeepsRows
<1>5. CASE CleanUp(p)
  <2>1. PICK o \in Expired(p) : prefs' = {n \in prefs : n.id # o.id}
    BY <1>5 DEF CleanUp
  <2>2. QED  BY <2>1
<1>6. QED  BY <1>1, <1>2, <1>3, <1>5 DEF Writes

\* An injected preference is active; its row goes only in the hands of a
\* handler, for the scheduler deletes what has long been dormant.
LEMMA InjectedStepKeeps ==
  ASSUME TypeOK, Placed, CacheFresh, ReadTrue, InjectionKept, InjectedActive, KnownIds, Dormant,
         NEW p \in Procs, Step(p)
  PROVE  InjectionKept' /\ InjectedActive'
<1>0. Local(p)
  BY DEF Placed
<1>1. \A q \in Procs \ {p} : pc'[q] = pc[q] /\ op'[q] = op[q]
  BY OthersKeep
<1>2. CASE Writes(p)
  <2>1. UNCHANGED <<injected, lateInject>> /\ ~Rewriting(p)
    BY <1>2, WriteStep DEF caches, Rewriting
  <2>2. \A q \in Procs : Rewriting(q) => Rewriting(q)'
    BY <1>1, <2>1 DEF Rewriting
  <2>3. InjectedActive'
    BY <2>1 DEF InjectedActive
  <2>4. \A S \in injected : \A m \in S : m \in Seen /\ m.active
    BY DEF Seen, InjectedActive
  <2>5. ASSUME \A S \in injected : \A m \in S : \E n \in prefs : n.id = m.id /\ n.value = m.value
        PROVE  InjectionKept'
    <3>1. CASE KeepsRows(p)
      BY <2>1, <2>5, <3>1 DEF KeepsRows, InjectionKept
    <3>2. CASE Rewriting(p)'
      BY <3>2 DEF InjectionKept
    <3>3. CASE \E i \in Ids \ used : \A m \in prefs : m.id # i => m \in prefs'
      BY <2>1, <2>4, <2>5, <3>3 DEF InjectionKept, KnownIds
    <3>4. CASE \E o \in Expired(p) : \A m \in prefs : m.id # o.id => m \in prefs'
      <4>1. PICK o \in Expired(p) : \A m \in prefs : m.id # o.id => m \in prefs'
        BY <3>4
      <4>2. o \in Seen /\ ~o.active /\ o.old
        BY ListSeen DEF Expired
      <4>3. \A S \in injected : \A m \in S : m.id # o.id
        BY <2>4, <4>2 DEF Dormant
      <4>4. QED  BY <2>1, <2>5, <4>1, <4>3 DEF InjectionKept
    <3>5. QED  BY <1>2, <3>1, <3>2, <3>3, <3>4, WriteRows
  <2>6. QED  BY <2>1, <2>2, <2>3, <2>5 DEF InjectionKept
<1>3. CASE ~Writes(p)
  <2>1. Quiet(p)
    BY <1>0, <1>3, QuietStep
  <2>2. prefs' = prefs
    BY <2>1 DEF Quiet, table
  <2>3. CASE UNCHANGED <<injected, lateInject>> /\ (Rewriting(p) => Rewriting(p)')
    <3>1. \A q \in Procs : Rewriting(q) => Rewriting(q)'
      BY <1>1, <2>3 DEF Rewriting
    <3>2. QED  BY <2>2, <2>3, <3>1 DEF InjectionKept, InjectedActive
  <2>4. CASE injected' = {}
    BY <2>4 DEF InjectionKept, InjectedActive
  <2>5. CASE /\ pc[p] = "inject" /\ lateInject' = (p \in raced)
             /\ injected' = {{m \in job[p].list : m.active}}
    <3>1. InjectedActive'
      BY <2>5 DEF InjectedActive
    <3>2. job[p].list = prefs \/ lateInject'
      BY <2>5 DEF ReadTrue
    <3>3. QED  BY <2>2, <2>5, <3>1, <3>2 DEF InjectionKept
  <2>6. QED  BY <2>1, <2>3, <2>4, <2>5 DEF Quiet, InjectedStep
<1>4. QED  BY <1>2, <1>3

\* An extracted row is one of the items, and new to the list; every other
\* observed row was there with the same id and value.
LEMMA ExtractedRow ==
  ASSUME TypeOK, NEW p \in Procs, Extract(p)
  PROVE  \E v \in job[p].items, i \in Ids \ used :
           /\ v \notin ValuesOf(job[p].list)
           /\ prefs' = {n \in prefs : n.id # i} \cup {New(i, v, TRUE)}
           /\ job'[p].items = job[p].items \ {v} /\ job'[p].list = job[p].list
<1>1. PICK v \in job[p].items, i \in Ids \ used :
        /\ ~Known(p, v) /\ Upsert(p, New(i, v, TRUE), "items")
        /\ job' = [job EXCEPT ![p].items = job[p].items \ {v}, ![p].dirty = TRUE, ![p].next = "items"]
  BY DEF Extract
<1>2. New(i, v, TRUE).id = i
  BY DEF New
<1>3. prefs' = {n \in prefs : n.id # i} \cup {New(i, v, TRUE)}
  BY <1>1, <1>2 DEF Upsert
<1>4. job'[p].items = job[p].items \ {v} /\ job'[p].list = job[p].list
  BY <1>1 DEF TypeOK
<1>5. QED  BY <1>1, <1>3, <1>4 DEF Known

\* Any other write leaves only observed rows that were there.
LEMMA ObservedRows ==
  ASSUME TypeOK, NEW p \in Procs, Writes(p), ~Extract(p), NEW m \in prefs', m.observed
  PROVE  \E n \in prefs : n.observed /\ n.id = m.id /\ n.value = m.value
<1>1. CASE Create(p) \/ WriteUpdate(p)
  <2>1. PICK k : ~k.observed /\ prefs' = {n \in prefs : n.id # k.id} \cup {k}
    <3>1. CASE Create(p)
      <4>1. PICK i, v : prefs' = {n \in prefs : n.id # New(i, v, FALSE).id} \cup {New(i, v, FALSE)}
        BY <3>1, Zenon DEF Create, Upsert
      <4>2. ~New(i, v, FALSE).observed
        BY DEF New
      <4>3. QED  BY <4>1, <4>2
    <3>2. CASE WriteUpdate(p)
      <4>1. PICK k \in job[p].list, v \in Values :
              Upsert(p, [k EXCEPT !.value = v, !.observed = FALSE, !.old = FALSE], "written")
        BY <3>2 DEF WriteUpdate
      <4>2. k \in Preference
        BY DEF TypeOK
      <4>3. [k EXCEPT !.value = v, !.observed = FALSE, !.old = FALSE].observed = FALSE
        BY <4>2 DEF Preference
      <4>4. QED  BY <4>1, <4>3 DEF Upsert
    <3>3. QED  BY <1>1, <3>1, <3>2
  <2>2. QED  BY <2>1
<1>2. CASE Deletes(p) \/ CleanUp(p)
  BY <1>2 DEF Deletes, WriteDelete, CleanUp
<1>3. CASE Reinforce(p) \/ MarkDormant(p)
  BY <1>3, EditedRows
<1>4. QED  BY <1>1, <1>2, <1>3 DEF Writes

\* No write leaves two rows with one id.
LEMMA UniqueStep ==
  ASSUME TypeOK, UniqueIds, NEW p \in Procs, Writes(p)
  PROVE  UniqueIds'
<1>1. CASE Create(p) \/ Extract(p) \/ WriteUpdate(p)
  <2>1. PICK k : prefs' = {n \in prefs : n.id # k.id} \cup {k}
    BY <1>1, Zenon DEF Create, Extract, WriteUpdate, Upsert
  <2>2. QED  BY <2>1 DEF UniqueIds
<1>2. CASE Deletes(p) \/ CleanUp(p)
  BY <1>2 DEF Deletes, WriteDelete, CleanUp, UniqueIds
<1>3. CASE Reinforce(p) \/ MarkDormant(p)
  BY <1>3, EditedRows DEF UniqueIds
<1>4. QED  BY <1>1, <1>2, <1>3 DEF Writes

\* What an induction has to recognise stays in its list, or is its own.
LEMMA CoveredStep ==
  ASSUME TypeOK, Placed, Engine, CacheFresh, Covered, NEW p \in Procs, Step(p), Local(p)'
  PROVE  Covered'
<1>0. Local(p) /\ OneInduction
  BY Alone DEF Placed
<1>1. \A q \in Procs \ {p} : pc'[q] = pc[q] /\ job'[q] = job[q]
  BY OthersKeep
<1> SUFFICES ASSUME NEW q \in Procs, q \notin raced', Comparing(q)', NEW m \in prefs', m.observed
             PROVE  \/ m.value \in ValuesOf(job[q].list)'
                    \/ pc'[q] \in {"items", "upserted"} /\ m.value \notin job'[q].items
  BY DEF Covered
<1>2. CASE Writes(p) /\ q # p
  <2>1. Comparing(q) /\ pc[q] # "idle"
    BY <1>1, <1>2 DEF Comparing
  <2>2. Inducing(p) /\ Inducing(q)
    BY <1>2, <2>1, WriteRaces DEF Comparing, Inducing
  <2>3. QED  BY <1>0, <1>2, <2>2 DEF OneInduction
<1>3. CASE Writes(p) /\ q = p
  <2>1. p \notin raced
    BY <1>3, WriteStep DEF Race
  <2>2. Reinforce(p) \/ Extract(p)
    <3>1. op'[p] \in Induction /\ pc'[p] \in {"items", "upserted"}
      BY <1>3, WriteStep DEF Comparing, Local, HasRun
    <3>2. ~Create(p) /\ ~WriteUpdate(p) /\ ~Deletes(p)
      BY <3>1 DEF Create, WriteUpdate, Deletes, WriteDelete, Start, Begin, TypeOK, Induction, begun
    <3>3. ~MarkDormant(p) /\ ~CleanUp(p)
      BY <3>1 DEF MarkDormant, CleanUp
    <3>4. QED  BY <1>3, <3>2, <3>3 DEF Writes
  <2>3. pc[p] = "items" /\ job[p].run # 0
    BY <1>0, <2>2 DEF Reinforce, Extract, Local, Fit, HasRun, Induction
  <2>4. Comparing(p)
    BY <2>3 DEF Comparing
  <2>5. \A n \in prefs : n.observed => n.value \in ValuesOf(job[p].list) \/ n.value \notin job[p].items
    BY <2>1, <2>4 DEF Covered
  <2>6. CASE Extract(p)
    <3>1. PICK v \in job[p].items, i \in Ids \ used :
            /\ v \notin ValuesOf(job[p].list)
            /\ prefs' = {n \in prefs : n.id # i} \cup {New(i, v, TRUE)}
            /\ job'[p].items = job[p].items \ {v} /\ job'[p].list = job[p].list
      BY <2>6, ExtractedRow
    <3>2. New(i, v, TRUE).value = v
      BY DEF New
    <3>3. pc'[p] = "upserted"
      BY <2>6 DEF Extract, TypeOK
    <3>4. QED  BY <1>3, <2>5, <3>1, <3>2, <3>3 DEF ValuesOf
  <2>7. CASE Reinforce(p) /\ ~Extract(p)
    <3>1. PICK n \in prefs : n.observed /\ n.value = m.value
      BY <1>3, <2>7, ObservedRows
    <3>2. PICK v : job' = [job EXCEPT ![p].items = job[p].items \ {v}, ![p].dirty = TRUE]
      BY <2>7 DEF Reinforce
    <3>3. job'[p].items \subseteq job[p].items /\ job'[p].list = job[p].list
      BY <3>2 DEF TypeOK
    <3>4. pc'[p] = "items"
      BY <2>3, <2>7 DEF Reinforce
    <3>5. QED  BY <1>3, <2>5, <3>1, <3>3, <3>4 DEF ValuesOf
  <2>8. QED  BY <2>2, <2>6, <2>7
<1>4. CASE ~Writes(p)
  <2>1. Quiet(p)
    BY <1>0, <1>4, QuietStep
  <2>2. prefs' = prefs
    BY <2>1 DEF Quiet, table
  <2>3. CASE q # p
    BY <1>1, <2>1, <2>2, <2>3 DEF Quiet, Covered, Comparing, ValuesOf
  <2>4. CASE q = p
    <3>1. CASE job'[p].list = prefs
      BY <2>2, <2>4, <3>1 DEF ValuesOf
    <3>2. CASE /\ job'[p].list = job[p].list /\ (p \in raced' <=> p \in raced)
               /\ Comparing(p)' => Comparing(p)
               /\ Comparing(p)' /\ pc[p] \in {"items", "upserted"} =>
                    pc'[p] \in {"items", "upserted"} /\ job'[p].items = job[p].items
      BY <2>2, <2>4, <3>2 DEF Covered, ValuesOf
    <3>3. QED  BY <2>1, <2>4, <3>1, <3>2 DEF Quiet, ListStep, Comparing
  <2>5. QED  BY <2>3, <2>4
<1>5. QED  BY <1>2, <1>3, <1>4

\* So a value is extracted once, or blindly.
LEMMA InducedStep ==
  ASSUME TypeOK, TypeOK', Placed, Covered, InducedOnce, UniqueIds, UniqueIds', NEW p \in Procs, Step(p)
  PROVE  InducedOnce'
<1>0. Local(p)
  BY DEF Placed
<1> SUFFICES ASSUME NEW m \in prefs', NEW n \in prefs', m.observed, n.observed, m.value = n.value
             PROVE  m = n \/ blind'
  BY DEF InducedOnce
<1>1. CASE Extract(p)
  <2>1. PICK v \in job[p].items, i \in Ids \ used :
          /\ v \notin ValuesOf(job[p].list)
          /\ prefs' = {k \in prefs : k.id # i} \cup {New(i, v, TRUE)}
    BY <1>1, ExtractedRow
  <2>2. blind' <=> blind \/ p \in raced
    BY <1>1 DEF Extract
  <2>3. pc[p] = "items" /\ Comparing(p)
    BY <1>0, <1>1 DEF Extract, Local, Fit, HasRun, Induction, Comparing
  <2>4. p \in raced \/ \A k \in prefs : k.observed => k.value # v
    BY <2>1, <2>3 DEF Covered
  <2>5. New(i, v, TRUE).value = v
    BY DEF New
  <2>6. QED  BY <2>1, <2>2, <2>4, <2>5 DEF InducedOnce
<1>2. CASE Writes(p) /\ ~Extract(p)
  <2>1. PICK k \in prefs : k.observed /\ k.id = m.id /\ k.value = m.value
    BY <1>2, ObservedRows
  <2>2. PICK l \in prefs : l.observed /\ l.id = n.id /\ l.value = n.value
    BY <1>2, ObservedRows
  <2>3. blind' = blind
    BY <1>2 DEF Writes, Create, WriteUpdate, Deletes, WriteDelete, Reinforce, MarkDormant, CleanUp
  <2>4. k = l \/ blind
    BY <2>1, <2>2 DEF InducedOnce
  <2>5. QED  BY <2>1, <2>2, <2>3, <2>4 DEF UniqueIds
<1>3. CASE ~Writes(p)
  <2>1. prefs' = prefs /\ blind' = blind
    <3>1. UNCHANGED <<table, blind>>
      BY <1>3 DEF Step, Handler, Induce, Scheduler, Writes, Deletes, List, Fill, Inject,
              FillInjection, Read, Upserted, WriteDelete, Written, Uninject, CheckLock,
              CheckCooldown, Acquire, Record, TooFew, Load, LLMFails, LLMAnswers, Dropped,
              Snapshot, Release, Complete, Close, Sweep, DormantDone, Recheck, CleanUpDone, table
    <3>2. QED  BY <3>1 DEF table
  <2>2. QED  BY <2>1 DEF InducedOnce
<1>4. QED  BY <1>1, <1>2, <1>3

-----------------------------------------------------------------------------
(* What is seen. *)

\* Where a preference comes from: it was seen, it is the new version of one
\* that was, or its id is new.
From(m) ==
  \/ m \in Seen
  \/ ~m.old /\ \E o \in Seen : o.id = m.id /\ (m.active => o.active)
  \/ ~m.old /\ m.id \in used' \ used

\* A write shows no other preferences than the table's new rows ...
LEMMA WrittenFrom ==
  ASSUME TypeOK, NEW p \in Procs, Writes(p)
  PROVE  /\ \A m \in prefs' : From(m)
         /\ job'[p].list \subseteq job[p].list
         /\ used \subseteq used'
<1>0. \A m \in prefs : m \in Seen /\ From(m)
  BY DEF Seen, From
<1>1. \A m \in job[p].list : m \in Seen /\ m \in Preference
  BY ListSeen DEF TypeOK
<1>2. CASE Create(p) \/ Extract(p)
  <2>1. PICK i, v, o :
          i \in Ids \ used /\ prefs' = {n \in prefs : n.id # New(i, v, o).id} \cup {New(i, v,
          o)} /\ used' = used \cup {New(i, v, o).id}
    BY <1>2, Zenon DEF Create, Extract, Upsert
  <2>2. New(i, v, o).id = i /\ ~New(i, v, o).old
    BY DEF New
  <2>3. From(New(i, v, o))
    BY <2>1, <2>2 DEF From
  <2>4. job'[p].list = job[p].list
    <3>1. CASE Create(p)
      BY <3>1 DEF Create, TypeOK
    <3>2. CASE Extract(p)
      BY <3>2, ExtractedRow
    <3>3. QED  BY <1>2, <3>1, <3>2
  <2>5. QED  BY <1>0, <2>1, <2>3, <2>4
<1>3. CASE WriteUpdate(p)
  <2>1. PICK k \in job[p].list, v \in Values :
          Upsert(p, [k EXCEPT !.value = v, !.observed = FALSE, !.old = FALSE], "written")
    BY <1>3 DEF WriteUpdate
  <2> DEFINE n == [k EXCEPT !.value = v, !.observed = FALSE, !.old = FALSE]
  <2>2. n.id = k.id /\ ~n.old /\ n.active = k.active
    BY <1>1 DEF Preference
  <2>3. prefs' = {m \in prefs : m.id # n.id} \cup {n} /\ used' = used \cup {n.id}
    BY <2>1 DEF Upsert
  <2> HIDE DEF n
  <2>4. From(n)
    BY <1>1, <2>2 DEF From
  <2>5. job'[p].list = {}
    BY <1>3 DEF WriteUpdate, TypeOK
  <2>6. QED  BY <1>0, <2>3, <2>4, <2>5
<1>4. CASE Deletes(p)
  BY <1>0, <1>4 DEF Deletes, WriteDelete, TypeOK
<1>5. CASE CleanUp(p)
  <2>1. PICK m : job' = [job EXCEPT ![p].list = job[p].list \ {m}, ![p].dirty = TRUE]
    BY <1>5 DEF CleanUp
  <2>2. QED  BY <1>0, <1>5, <2>1 DEF CleanUp, TypeOK
<1>6. CASE Reinforce(p) \/ MarkDormant(p)
  <2>1. PICK f : /\ prefs' = {f[n] : n \in prefs}
                 /\ \A n \in prefs : /\ f[n].id = n.id
                                     /\ f[n] = n \/ (~f[n].old /\ (f[n].active => n.active))
    BY <1>6, EditedRows
  <2>2. \A n \in prefs : From(f[n])
    BY <1>0, <2>1 DEF From
  <2>3. used' = used
    BY <1>6 DEF Reinforce, MarkDormant
  <2>4. job'[p].list \subseteq job[p].list
    <3>1. CASE Reinforce(p)
      <4>1. PICK v : job' = [job EXCEPT ![p].items = job[p].items \ {v}, ![p].dirty = TRUE]
        BY <3>1 DEF Reinforce
      <4>2. QED  BY <4>1 DEF TypeOK
    <3>2. CASE MarkDormant(p)
      <4>1. PICK m : job' = [job EXCEPT ![p].list = job[p].list \ {m}, ![p].dirty = TRUE]
        BY <3>2 DEF MarkDormant
      <4>2. QED  BY <4>1 DEF TypeOK
    <3>3. QED  BY <1>6, <3>1, <3>2
  <2>5. QED  BY <2>1, <2>2, <2>3, <2>4
<1>7. QED  BY <1>2, <1>3, <1>4, <1>5, <1>6 DEF Writes

\* ... and the other steps copy what was seen.
LEMMA SeenFrom ==
  ASSUME TypeOK, Placed, CacheFresh, NEW p \in Procs, Step(p)
  PROVE  (\A m \in Seen' : From(m)) /\ used \subseteq used'
<1>0. Local(p) /\ (\A S \in cache : S \subseteq Seen) /\ (\A S \in injected : S \subseteq Seen) /\ prefs \subseteq Seen
  BY DEF Placed, Seen
<1>1. \A q \in Procs \ {p} : job'[q].list = job[q].list
  BY OthersKeep
<1>2. CASE Writes(p)
  <2>1. job'[p].list \subseteq job[p].list /\ used \subseteq used' /\ \A m \in prefs' : From(m)
    BY <1>2, WrittenFrom
  <2>2. UNCHANGED <<cache, injected>>
    BY <1>2, WriteStep DEF caches
  <2>3. ASSUME NEW q \in Procs, NEW m \in job'[q].list  PROVE m \in Seen
    BY <1>1, <2>1, <2>3, ListSeen
  <2>4. QED
    BY <1>0, <2>1, <2>2, <2>3 DEF Seen, Listed, From
<1>3. CASE ~Writes(p)
  <2>1. Quiet(p)
    BY <1>0, <1>3, QuietStep
  <2>2. UNCHANGED <<prefs, used>>
    BY <2>1 DEF Quiet, table
  <2>3. job[p].list \subseteq Seen
    BY ListSeen
  <2>4. \A S \in cache' : S \subseteq Seen
    BY <1>0, <2>1, <2>3 DEF Quiet, CacheStep
  <2>5. \A S \in injected' : S \subseteq Seen
    BY <1>0, <2>1, <2>3 DEF Quiet, InjectedStep
  <2>6. job'[p].list \subseteq Seen
    BY <1>0, <2>1, <2>3 DEF Quiet, ListStep
  <2>7. \A q \in Procs : job'[q].list \subseteq Seen
    BY <1>1, <2>6, ListSeen
  <2>8. Seen' \subseteq Seen
    BY <1>0, <2>2, <2>4, <2>5, <2>7 DEF Seen, Listed
  <2>9. QED  BY <2>2, <2>8 DEF From
<1>4. QED  BY <1>2, <1>3

\* So all ids are known, rows keep their ids to themselves, and a preference
\* that may be deleted for its age has no active version anywhere.
LEMMA SeenStep ==
  ASSUME TypeOK, Placed, CacheFresh, KnownIds, UniqueIds, Dormant, NEW p \in Procs, Step(p)
  PROVE  KnownIds' /\ UniqueIds' /\ Dormant'
<1>1. (\A m \in Seen' : From(m)) /\ used \subseteq used'
  BY SeenFrom
<1>2. KnownIds'
  BY <1>1 DEF KnownIds, From
<1>3. UniqueIds'
  <2>1. CASE Writes(p)
    BY <2>1, UniqueStep
  <2>2. CASE ~Writes(p)
    BY <2>2, QuietStep DEF Placed, Quiet, table, UniqueIds
  <2>3. QED  BY <2>1, <2>2
<1>4. Dormant'
  <2> SUFFICES ASSUME NEW m \in Seen', NEW n \in Seen', m.id = n.id, ~m.active, m.old
               PROVE  ~n.active
    BY DEF Dormant
  <2>1. m \in Seen
    BY <1>1 DEF From
  <2>2. From(n) /\ n.id \in used
    BY <1>1, <2>1 DEF KnownIds
  <2>3. QED  BY <2>1, <2>2 DEF From, Dormant
<1>5. QED  BY <1>2, <1>3, <1>4

-----------------------------------------------------------------------------
(* Time, and the death of the server. *)

\* Nothing is seen of an empty cache, or of threads at rest.
LEMMA SeenAtRest ==
  ASSUME cache = {}, injected = {}, \A p \in Procs : job[p].list = {}
  PROVE  Seen = prefs
BY DEF Seen, Listed

\* The passing of the lock, of the cooldown and of a cache.
LEMMA ExpiryKeeps ==
  ASSUME IInv, Expire \/ CooledDown \/ CacheExpires
  PROVE  IInv'
<1> USE DEF IInv
<1>1. TypeOK'
  BY EnvironmentType DEF Environment
<1>2. UNCHANGED <<table, threads, pc, op, job, raced, blind, runs, lost, overlap>>
  BY DEF Expire, CooledDown, CacheExpires, threads, begun, engine
<1>3. UNCHANGED <<prefs, used, Listed>>
  BY <1>2 DEF table, Listed
<1>4. Placed' /\ OwnRun' /\ Status' /\ Covered' /\ InducedOnce' /\ UniqueIds' /\ ReadTrue'
  BY <1>2, <1>3 DEF Placed, Local, Fit, HasRun, DirtyAt, AtRest, OwnRun, Status, Covered,
          Comparing, InducedOnce, UniqueIds, ReadTrue
<1>5. LockOfRun' /\ RunsAccounted' /\ Cooled'
  <2>1. CASE Expire
    BY <1>2, <2>1 DEF Expire, LockOfRun, Inducing, RunsAccounted, Cooled, Hot
  <2>2. CASE CooledDown
    BY <1>2, <2>2 DEF CooledDown, LockOfRun, Inducing, RunsAccounted, Cooled, Hot
  <2>3. CASE CacheExpires
    BY <1>2, <2>3 DEF CacheExpires, engine, LockOfRun, Inducing, RunsAccounted, Cooled, Hot
  <2>4. QED  BY <2>1, <2>2, <2>3
<1>6. /\ cache' = {} \/ UNCHANGED <<cache, late>>
      /\ injected' = {} \/ UNCHANGED <<injected, lateInject>>
  BY DEF Expire, CooledDown, CacheExpires, caches, EmptyCache, EmptyInjected
<1>7. CacheFresh' /\ InjectionKept' /\ InjectedActive'
  BY <1>2, <1>3, <1>6 DEF CacheFresh, InjectionKept, InjectedActive, Rewriting
<1>8. Seen' \subseteq Seen
  BY <1>3, <1>6 DEF Seen
<1>9. KnownIds' /\ Dormant'
  BY <1>3, <1>8 DEF KnownIds, Dormant
<1>10. QED  BY <1>1, <1>4, <1>5, <1>7, <1>9

\* Half a year: nobody works, the caches are empty, the rows grow old.
LEMMA SeasonKeeps ==
  ASSUME IInv, Season
  PROVE  IInv'
<1> USE DEF IInv
<1>1. TypeOK'
  BY EnvironmentType DEF Environment
<1>2. UNCHANGED <<used, runs, lost, overlap, pc, op, job, raced, blind>>
  BY DEF Season, threads, begun
<1>3. \A p \in Procs : pc[p] = "idle" /\ job[p] = NoJob
  BY DEF Season, Placed, Local, AtRest
<1>4. cache' = {} /\ injected' = {} /\ lock' = 0 /\ cooling' = {}
  BY DEF Season, EmptyCache, EmptyInjected
<1>5. \A p \in Procs : job[p].run = 0 /\ job[p].list = {}
  BY <1>3 DEF NoJob
<1>6. PICK f : /\ prefs' = {f[m] : m \in prefs}
               /\ \A m \in prefs : f[m].id = m.id /\ f[m].value = m.value /\ f[m].observed = m.observed
                                   /\ f[m].active = m.active
  <2> DEFINE Later(m) == [m EXCEPT !.aged = TRUE, !.old = TRUE]
  <2>1. \A m \in prefs : Later(m).id = m.id /\ Later(m).value = m.value /\ Later(m).observed = m.observed
                         /\ Later(m).active = m.active
    BY DEF TypeOK, Preference
  <2>2. prefs' = {Later(m) : m \in prefs}
    BY DEF Season
  <2> HIDE DEF Later
  <2> WITNESS [m \in prefs |-> Later(m)]
  <2> QED  BY <2>1, <2>2
<1>7. Placed'
  BY <1>2 DEF Placed, Local, Fit, HasRun, DirtyAt, AtRest
<1>8. LockOfRun' /\ OwnRun' /\ RunsAccounted' /\ Status' /\ Cooled'
  BY <1>2, <1>3, <1>4, <1>5 DEF LockOfRun, OwnRun, RunsAccounted, Status, Cooled, Hot, Inducing
<1>9. CacheFresh' /\ ReadTrue' /\ InjectionKept' /\ InjectedActive' /\ Covered'
  BY <1>2, <1>3, <1>4, <1>5 DEF CacheFresh, ReadTrue, InjectionKept, InjectedActive, Covered,
          Comparing
<1>10. InducedOnce' /\ UniqueIds'
  BY <1>2, <1>6 DEF InducedOnce, UniqueIds
<1>11. Seen' = prefs'
  BY <1>2, <1>4, <1>5 DEF Seen, Listed
<1>12. KnownIds'
  BY <1>2, <1>6, <1>11 DEF KnownIds, Seen
<1>13. Dormant'
  BY <1>10, <1>11 DEF Dormant, UniqueIds
<1>14. QED  BY <1>1, <1>7, <1>8, <1>9, <1>10, <1>12, <1>13

\* The death of the server, whatever its threads are at.
LEMMA CrashKeeps ==
  ASSUME IInv, Crash
  PROVE  IInv'
<1> USE DEF IInv
<1>1. TypeOK'
  BY EnvironmentType DEF Environment
<1>2. UNCHANGED <<prefs, used, lock, runs, cooling, overlap, blind>>
  BY DEF Crash, table
<1>3. \A p \in Procs : pc'[p] = "idle" /\ op'[p] = "none" /\ job'[p] = NoJob
  BY DEF Crash
<1>4. cache' = {} /\ injected' = {}
  BY DEF Crash, EmptyCache, EmptyInjected
<1>5. \A p \in Procs : job'[p].run = 0 /\ job'[p].list = {} /\ ~job'[p].dirty
  BY <1>3 DEF NoJob
<1>6. Placed'
  BY <1>3, <1>5 DEF Placed, Local, Fit, HasRun, DirtyAt, AtRest, Induction, NoJob
<1>7. RunsAccounted'
  <2>1. \A p \in Procs : job[p].run # 0 => job[p].run \in lost'
    BY DEF Crash
  <2>2. \A r \in Runs : r # 0
    BY DEF Runs
  <2>3. lost \subseteq lost'
    BY DEF Crash
  <2>4. QED  BY <1>2, <2>1, <2>2, <2>3 DEF RunsAccounted
<1>8. LockOfRun' /\ OwnRun' /\ Status' /\ Cooled'
  BY <1>2, <1>3, <1>5 DEF LockOfRun, OwnRun, Status, Cooled, Hot, Inducing
<1>9. CacheFresh' /\ ReadTrue' /\ InjectionKept' /\ InjectedActive' /\ Covered'
  BY <1>3, <1>4, <1>5 DEF CacheFresh, ReadTrue, InjectionKept, InjectedActive, Covered, Comparing
<1>10. InducedOnce' /\ UniqueIds'
  BY <1>2 DEF InducedOnce, UniqueIds
<1>11. Seen' = prefs'
  BY <1>4, <1>5 DEF Seen, Listed
<1>12. KnownIds' /\ Dormant'
  BY <1>2, <1>10, <1>11 DEF KnownIds, Dormant, UniqueIds, Seen
<1>13. QED  BY <1>1, <1>6, <1>7, <1>8, <1>9, <1>10, <1>12

-----------------------------------------------------------------------------
(* The theorem. *)

\* The invariant holds at first ...
LEMMA InitInv == Init => IInv
<1> SUFFICES ASSUME Init  PROVE IInv
  OBVIOUS
<1>1. NoJob \in Job
  BY ProfileAssumption DEF NoJob, Job, Phases
<1>2. TypeOK
  <2>1. job \in [Procs -> Job]
    BY <1>1 DEF Init
  <2>2. pc \in [Procs -> Phases]
    BY DEF Init, Phases
  <2>3. lock \in 0 .. MaxRuns /\ requests \in 0 .. MaxRequests
    BY ProfileAssumption DEF Init
  <2>4. runs \in [Runs -> {"none", "running", "completed", "failed", "skipped"}]
    BY DEF Init
  <2>5. op \in [Procs -> Ops \cup {"none"}]
    BY DEF Init
  <2>6. cooling \subseteq Runs /\ lost \subseteq Runs /\ {late, lateInject, overlap, blind} \subseteq BOOLEAN
    BY DEF Init
  <2>7. prefs \subseteq Preference /\ used \subseteq Ids /\ reinforced \subseteq used
        /\ cache \subseteq SUBSET Preference /\ injected \subseteq SUBSET Preference /\ raced \subseteq Procs
    BY DEF Init
  <2>8. QED  BY <2>1, <2>2, <2>3, <2>4, <2>5, <2>6, <2>7 DEF TypeOK, Job
<1>3. \A p \in Procs : job[p].run = 0 /\ job[p].list = {} /\ ~job[p].dirty
  BY DEF Init, NoJob
<1>4. Seen = {}
  BY <1>3 DEF Init, Seen, Listed
<1>5. Placed
  BY <1>3 DEF Init, Placed, Local, Fit, HasRun, DirtyAt, AtRest, Induction
<1>6. LockOfRun /\ OwnRun /\ Status
  BY <1>3 DEF LockOfRun, OwnRun, Status, Inducing
<1>7. RunsAccounted /\ Cooled
  BY DEF Init, RunsAccounted, Cooled, Hot
<1>8. CacheFresh /\ ReadTrue /\ InjectionKept /\ InjectedActive /\ Covered /\ InducedOnce
  BY DEF Init, CacheFresh, ReadTrue, InjectionKept, InjectedActive, Covered, InducedOnce
<1>9. KnownIds /\ UniqueIds /\ Dormant
  BY <1>4 DEF Init, KnownIds, UniqueIds, Dormant
<1>10. QED  BY <1>2, <1>5, <1>6, <1>7, <1>8, <1>9 DEF IInv

\* ... and a step of a thread keeps it ...
LEMMA StepInv ==
  ASSUME IInv, NEW p \in Procs, Step(p)
  PROVE  IInv'
<1> USE DEF IInv
<1>1. Engine /\ Local(p)
  BY DEF Engine, Placed
<1>2. TypeOK'
  BY <1>1, StepType
<1>3. Local(p)' /\ AtRest(p)'
  BY <1>1, LocalStep, RestStep
<1>4. Placed'
  BY <1>3, OthersKeep DEF Placed, Local, Fit, HasRun, DirtyAt, AtRest
<1>5. Engine'
  BY <1>1, <1>2, <1>3, EngineStep
<1>6. CacheFresh' /\ ReadTrue'
  BY <1>1, CachesStep
<1>7. InjectionKept' /\ InjectedActive'
  BY InjectedStepKeeps
<1>8. Covered'
  BY <1>1, <1>3, CoveredStep
<1>9. KnownIds' /\ UniqueIds' /\ Dormant'
  BY SeenStep
<1>10. InducedOnce'
  BY <1>2, <1>9, InducedStep
<1>11. QED  BY <1>2, <1>4, <1>5, <1>6, <1>7, <1>8, <1>9, <1>10 DEF Engine

\* ... and so does a step that changes nothing.
LEMMA StutterInv == IInv /\ UNCHANGED vars => IInv'
<1> SUFFICES ASSUME IInv, UNCHANGED vars  PROVE IInv'
  OBVIOUS
<1>1. UNCHANGED <<prefs, used, cache, injected, late, lateInject, lock, runs, cooling, lost, overlap, pc, op, requests, job, raced, reinforced, blind>>
  BY DEF vars, table, caches, engine, threads, begun
<1>2. Seen' = Seen
  BY <1>1 DEF Seen, Listed
<1>3. TypeOK' /\ Placed'
  BY <1>1 DEF IInv, TypeOK, Placed, Local, Fit, HasRun, DirtyAt, AtRest
<1>4. LockOfRun' /\ OwnRun' /\ RunsAccounted' /\ Status' /\ Cooled'
  BY <1>1 DEF IInv, LockOfRun, OwnRun, RunsAccounted, Status, Cooled, Hot, Inducing
<1>5. CacheFresh' /\ ReadTrue' /\ InjectionKept' /\ InjectedActive' /\ Covered' /\ InducedOnce'
  BY <1>1 DEF IInv, CacheFresh, ReadTrue, InjectionKept, InjectedActive, Covered, InducedOnce,
          Rewriting, Comparing
<1>6. KnownIds' /\ UniqueIds' /\ Dormant'
  BY <1>1, <1>2 DEF IInv, KnownIds, UniqueIds, Dormant
<1>7. QED  BY <1>3, <1>4, <1>5, <1>6 DEF IInv

\* It says all that the property says.
LEMMA IInvSafe == IInv => ProfileSafe
<1> SUFFICES ASSUME IInv  PROVE ProfileSafe
  OBVIOUS
<1> USE DEF IInv
<1>1. OneInduction
  BY Alone DEF Engine
<1>2. InjectionTrue
  BY DEF InjectionKept, InjectionTrue, Rewriting
<1>3. CooldownKept
  <2>1. CASE overlap
    BY <2>1 DEF CooldownKept
  <2>2. CASE Hot = {}
    BY <2>2, FS_EmptySet DEF CooldownKept, Hot
  <2>3. CASE ~overlap /\ Hot # {}
    <3>1. PICK r \in Hot : Hot = {r}
      BY <2>3 DEF Cooled
    <3>2. Cardinality(Hot) = 1
      BY <3>1, FS_Singleton
    <3>3. QED  BY <3>2 DEF CooldownKept, Hot
  <2>4. QED  BY <2>1, <2>2, <2>3
<1>4. QED  BY <1>1, <1>2, <1>3 DEF ProfileSafe

\* Inductions of a tenant are alone and settle their runs, the list cache and
\* the injection are true to the table, and no value is induced twice, however
\* requests, inductions, the scheduler, dropped requests and crashes interleave
\* (profile_v2/: store.rs, injection.rs, induction.rs).
THEOREM ProfileIsSafe == Spec => []ProfileSafe
<1>1. Init => IInv
  BY InitInv
<1>2. IInv /\ [Next]_vars => IInv'
  <2> SUFFICES ASSUME IInv, [Next]_vars  PROVE IInv'
    OBVIOUS
  <2>1. CASE Environment
    BY <2>1, ExpiryKeeps, SeasonKeeps, CrashKeeps DEF Environment
  <2>2. CASE \E p \in Procs : Handler(p) \/ Induce(p) \/ Scheduler(p)
    BY <2>2, StepInv DEF Step
  <2>3. CASE UNCHANGED vars
    BY <2>3, StutterInv
  <2>4. QED  BY <2>1, <2>2, <2>3 DEF Next
<1>3. IInv => ProfileSafe
  BY IInvSafe
<1>4. QED  BY <1>1, <1>2, <1>3, PTL DEF Spec

=============================================================================
