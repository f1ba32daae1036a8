------------------------------ MODULE Profile ------------------------------
(***************************************************************************)
(* The preference profile of one tenant: the SQLite table with its list    *)
(* cache (profile_v2/store.rs), the injection cache (injection.rs), the    *)
(* induction engine with its lock and cooldown (induction.rs), the         *)
(* preference handlers (api/handlers/profile_v2.rs) and the scheduler's    *)
(* ageing of preferences (lifecycle/scheduler.rs).                         *)
(*                                                                         *)
(* Every SQLite call is atomic under one connection mutex; between calls   *)
(* other threads run.  The one await is the LLM call of an induction: only *)
(* there can a request be dropped.  The caches live in memory, the lock    *)
(* and the runs in SQLite.  Failures of SQLite itself are not modelled.    *)
(***************************************************************************)
EXTENDS Naturals, FiniteSets

CONSTANTS
  Ids,      \* preference ids (UUIDs: never reused)
  Values,   \* a slot with a value
  Procs,    \* threads that serve a request or a task
  Ops,      \* the operations that an instance lets run
  MaxRuns,  \* bound: inductions that acquire the lock
  MaxItems, \* bound: preferences that the LLM returns
  MaxRequests \* bound: requests and tasks that start

\* strong: the confidence was raised; observed: the value comes from an
\* induction; aged: last_reinforced_at is older than the dormant threshold;
\* old: updated_at is older than the deletion threshold.
Preference == [id : Ids, value : Values, active : BOOLEAN, strong : BOOLEAN,
               observed : BOOLEAN, aged : BOOLEAN, old : BOOLEAN]

Runs   == 1 .. MaxRuns
Phases == {"idle", "fill", "inject", "write", "upserted", "written", "uninject",
           "cooldown", "acquire", "record", "few", "load", "llm", "items",
           "release", "complete", "close", "dormant", "recheck", "cleanup"}

ASSUME ProfileAssumption ==
  /\ {MaxRuns, MaxItems, MaxRequests} \subseteq Nat
  /\ Ops \subseteq {"list", "inject", "create", "update", "delete", "trigger",
                    "induce", "sweep"}

VARIABLES
  prefs,      \* the preferences table
  used,       \* ids ever inserted
  cache,      \* the cached list: at most one set of preferences
  injected,   \* the cached injection: at most one set of preferences
  lock,       \* the run that holds the induction lock, or 0
  runs,       \* runs[r]: status of the r-th run
  cooling,    \* runs that started within the cooldown
  pc, op, job,
  requests,   \* how many have started
  raced,      \* processes whose list may have been read before a write
  late,       \* the cached list comes from such a process
  lateInject, \* the cached injection comes from such a process
  reinforced, \* ids reinforced by an induction within the dormant threshold
  lost,       \* runs whose request was dropped or whose server died
  overlap,    \* a run was recorded after another induction had passed the cooldown
  blind       \* an induction has compared its items with an outdated list

begun   == <<op, requests>>
threads == <<pc, begun, job>>
table   == <<prefs, used>>
caches  == <<cache, injected, late, lateInject>>
engine  == <<lock, runs, cooling, lost, overlap>>
vars    == <<table, caches, engine, threads, raced, reinforced, blind>>

NoJob == [list |-> {}, next |-> "idle", run |-> 0, items |-> {}, dirty |-> FALSE]

TypeOK ==
  /\ prefs \subseteq Preference /\ used \subseteq Ids /\ reinforced \subseteq used
  /\ cache \subseteq SUBSET Preference /\ injected \subseteq SUBSET Preference
  /\ lock \in 0 .. MaxRuns
  /\ runs \in [Runs -> {"none", "running", "completed", "failed", "skipped"}]
  /\ cooling \subseteq Runs /\ lost \subseteq Runs
  /\ pc \in [Procs -> Phases] /\ op \in [Procs -> Ops \cup {"none"}]
  /\ job \in [Procs -> [list : SUBSET Preference, next : Phases, run : 0 .. MaxRuns,
                        items : SUBSET Values, dirty : BOOLEAN]]
  /\ raced \subseteq Procs /\ requests \in 0 .. MaxRequests
  /\ {late, lateInject, overlap, blind} \subseteq BOOLEAN

Init ==
  /\ prefs = {} /\ used = {} /\ reinforced = {}
  /\ cache = {} /\ injected = {} /\ late = FALSE /\ lateInject = FALSE
  /\ lock = 0 /\ runs = [r \in Runs |-> "none"] /\ cooling = {}
  /\ lost = {} /\ overlap = FALSE /\ blind = FALSE
  /\ pc = [p \in Procs |-> "idle"] /\ op = [p \in Procs |-> "none"]
  /\ job = [p \in Procs |-> NoJob] /\ raced = {}
  /\ requests = 0

-----------------------------------------------------------------------------
(* Threads, the connection mutex and the caches. *)

IdsOf(S)    == {m.id : m \in S}
ValuesOf(S) == {m.value : m \in S}
Induction   == {"trigger", "induce"}
Inducing(p) == job[p].run # 0 /\ pc[p] \notin {"complete", "close", "uninject"}

Goto(p, phase) == pc' = [pc EXCEPT ![p] = phase] /\ UNCHANGED <<begun, raced>>
Finish(p) == /\ pc' = [pc EXCEPT ![p] = "idle"] /\ op' = [op EXCEPT ![p] = "none"]
             /\ job' = [job EXCEPT ![p] = NoJob] /\ raced' = raced \ {p}
             /\ UNCHANGED requests

Begin(p, o) ==
  /\ pc[p] = "idle" /\ o \in Ops /\ requests < MaxRequests
  /\ op' = [op EXCEPT ![p] = o] /\ requests' = requests + 1
Start(p, o, phase) == Begin(p, o) /\ pc' = [pc EXCEPT ![p] = phase]

\* upsert_preference holds the connection until it has emptied the cache.
ConnFree == \A p \in Procs : pc[p] # "upserted"

\* p has written the table: the lists that others have read are outdated.
\* (The lock keeps inductions apart: they do not race each other.)
Race(p) == raced' = raced \cup {q \in Procs \ {p} :
             pc[q] # "idle" /\ ~(Inducing(p) /\ Inducing(q))}

EmptyCache    == cache' = {} /\ late' = FALSE
EmptyInjected == injected' = {} /\ lateInject' = FALSE

\* get_preferences: a hit, or a read of the rows ...
Get(p, next) ==
  \/ \E S \in cache :
       /\ pc' = [pc EXCEPT ![p] = next]
       /\ job' = [job EXCEPT ![p].list = S]
       /\ raced' = IF late \/ \E q \in Procs : job[q].dirty THEN raced \cup {p}
                                                            ELSE raced \ {p}
  \/ /\ cache = {} /\ ConnFree
     /\ pc' = [pc EXCEPT ![p] = "fill"]
     /\ job' = [job EXCEPT ![p].list = prefs, ![p].next = next]
     /\ raced' = raced \ {p}

\* ... and, with the connection given back, the insertion into the cache.
Fill(p) ==
  /\ pc[p] = "fill"
  /\ cache' = {job[p].list} /\ late' = (p \in raced)
  /\ IF op[p] = "list" THEN Finish(p)
     ELSE Goto(p, job[p].next) /\ job' = [job EXCEPT ![p].next = "idle"]
  /\ UNCHANGED <<table, injected, lateInject, engine, reinforced, blind>>

\* A list request that hits the cache changes nothing.
List(p) ==
  /\ Begin(p, "list") /\ cache = {} /\ Get(p, "idle")
  /\ UNCHANGED <<table, caches, engine, reinforced, blind>>

\* build_injection, when no injection is cached.
Inject(p) ==
  /\ Begin(p, "inject") /\ injected = {} /\ Get(p, "inject")
  /\ UNCHANGED <<table, caches, engine, reinforced, blind>>

FillInjection(p) ==
  /\ pc[p] = "inject"
  /\ injected' = {{m \in job[p].list : m.active}} /\ lateInject' = (p \in raced)
  /\ Finish(p)
  /\ UNCHANGED <<table, cache, late, engine, reinforced, blind>>

-----------------------------------------------------------------------------
(* The handlers. *)

\* upsert_preference: INSERT OR REPLACE of the whole row ...
Upsert(p, m, next) ==
  /\ ConnFree
  /\ prefs' = {n \in prefs : n.id # m.id} \cup {m} /\ used' = used \cup {m.id}
  /\ Race(p)

\* Fault: the id and the value change places.
NewSwapped(i, v, observed) ==
  [id |-> v, value |-> i, active |-> TRUE, strong |-> FALSE,
   observed |-> observed, aged |-> FALSE, old |-> FALSE]

New(i, v, observed) == [id |-> i, value |-> v, active |-> TRUE, strong |-> FALSE,
                        observed |-> observed, aged |-> FALSE, old |-> FALSE]

\* create_preference.
Create(p) ==
  /\ Start(p, "create", "upserted")
  /\ \E i \in Ids \ used, v \in Values : Upsert(p, New(i, v, FALSE), "written")
  /\ job' = [job EXCEPT ![p].dirty = TRUE, ![p].next = "written"]
  /\ UNCHANGED <<caches, engine, reinforced, blind>>

\* ... and the invalidation, before the connection is given back.
Upserted(p) ==
  /\ pc[p] = "upserted"
  /\ EmptyCache
  /\ Goto(p, job[p].next) /\ job' = [job EXCEPT ![p].dirty = FALSE, ![p].next = "idle"]
  /\ UNCHANGED <<table, injected, lateInject, engine, reinforced, blind>>

\* update_preference and delete_preference read the row by its id ...
Read(p, o) ==
  /\ Start(p, o, "write") /\ o \in {"update", "delete"} /\ ConnFree
  /\ \E m \in prefs : job' = [job EXCEPT ![p].list = {m}]
  /\ UNCHANGED <<table, caches, engine, raced, reinforced, blind>>

\* ... an update writes that row back with a new value, whatever has happened
\* to the stored one (a deleted preference comes back) ...
WriteUpdate(p) ==
  /\ pc[p] = "write" /\ op[p] = "update"
  /\ \E m \in job[p].list, v \in Values :
       Upsert(p, [m EXCEPT !.value = v, !.observed = FALSE, !.old = FALSE], "written")
  /\ pc' = [pc EXCEPT ![p] = "upserted"]
  /\ job' = [job EXCEPT ![p].list = {}, ![p].dirty = TRUE, ![p].next = "written"]
  /\ UNCHANGED <<begun, caches, engine, reinforced, blind>>

\* ... and a delete that finds no row is a 404.
WriteDelete(p) ==
  /\ pc[p] = "write" /\ op[p] = "delete" /\ ConnFree
  /\ IF IdsOf(job[p].list) \subseteq IdsOf(prefs)
     THEN /\ prefs' = {n \in prefs : n.id \notin IdsOf(job[p].list)}
          /\ pc' = [pc EXCEPT ![p] = "written"]
          /\ job' = [job EXCEPT ![p].list = {}, ![p].dirty = TRUE]
          /\ Race(p) /\ UNCHANGED begun
     ELSE Finish(p) /\ UNCHANGED prefs
  /\ UNCHANGED <<used, caches, engine, reinforced, blind>>

\* Fault: the handlers leave the invalidation to the store.
WrittenUncleared(p) ==
  /\ pc[p] = "written"
  /\ IF op[p] = "create" THEN Finish(p)
     ELSE Goto(p, "uninject") /\ job' = [job EXCEPT ![p].dirty = FALSE]
  /\ UNCHANGED <<table, caches, engine, reinforced, blind>>

\* The handlers' own invalidation of the list; create_preference ends here.
Written(p) ==
  /\ pc[p] = "written"
  /\ EmptyCache
  /\ IF op[p] = "create" THEN Finish(p)
     ELSE Goto(p, "uninject") /\ job' = [job EXCEPT ![p].dirty = FALSE]
  /\ UNCHANGED <<table, injected, lateInject, engine, reinforced, blind>>

\* Fault: the injection is left to expire.
UninjectSkipped(p) ==
  /\ pc[p] = "uninject" /\ Finish(p)
  /\ UNCHANGED <<table, caches, engine, reinforced, blind>>

Uninject(p) ==
  /\ pc[p] = "uninject"
  /\ EmptyInjected /\ Finish(p)
  /\ UNCHANGED <<table, cache, late, engine, reinforced, blind>>

-----------------------------------------------------------------------------
(* The induction engine: trigger_induction and run_induction_inner. *)

\* Requested by the user ("trigger") or started by an ingest ("induce").
\* With the lock taken the request ends at once.
CheckLock(p, o) ==
  /\ o \in Induction /\ Start(p, o, "cooldown") /\ ConnFree /\ lock = 0
  /\ UNCHANGED <<table, caches, engine, job, raced, reinforced, blind>>

\* Fault: only completed runs count.
CooldownOverCompleted == \A r \in cooling : runs[r] # "completed"
\* Skipped runs do not count.
CooldownOver == \A r \in cooling : runs[r] = "skipped"

CheckCooldown(p) ==
  /\ pc[p] = "cooldown" /\ ConnFree
  /\ IF CooldownOver THEN Goto(p, "acquire") /\ UNCHANGED job ELSE Finish(p)
  /\ UNCHANGED <<table, caches, engine, reinforced, blind>>

\* The runs that the lock has been given to: those recorded, and the holder's.
Given == {r \in Runs : runs[r] # "none"} \cup {job[p].run : p \in Procs} \cup lost

\* acquire_induction_lock looks and inserts in one critical section.
\* Fault: acquire_induction_lock inserts without counting first.
LockUnchecked == TRUE
LockFree == lock = 0
Acquire(p) ==
  /\ pc[p] = "acquire" /\ ConnFree
  /\ IF LockFree
     THEN \E r \in Runs \ Given :
            /\ \A s \in Runs \ Given : r <= s
            /\ lock' = r
            /\ job' = [job EXCEPT ![p].run = r] /\ Goto(p, "record")
     ELSE Finish(p) /\ UNCHANGED lock
  /\ UNCHANGED <<table, caches, runs, cooling, lost, overlap, reinforced, blind>>

SetRun(p, status) == runs' = [runs EXCEPT ![job[p].run] = status]

\* create_induction_run; then too few candidates end the run.
Record(p) ==
  /\ pc[p] = "record" /\ ConnFree
  /\ SetRun(p, "running") /\ cooling' = cooling \cup {job[p].run}
  /\ overlap' = (overlap \/ \E q \in Procs : pc[q] = "acquire")
  /\ \E phase \in {"few", "load"} : Goto(p, phase)
  /\ UNCHANGED <<table, caches, lock, lost, job, reinforced, blind>>

TooFew(p) ==
  /\ pc[p] = "few" /\ ConnFree
  /\ SetRun(p, "skipped") /\ Goto(p, "release")
  /\ UNCHANGED <<table, caches, lock, cooling, lost, overlap, job, reinforced, blind>>

\* The preferences that the prompt lists and that the items are compared with.
Load(p) ==
  /\ pc[p] = "load" /\ Get(p, "llm")
  /\ UNCHANGED <<begun, table, caches, engine, reinforced, blind>>

\* Fault: a failure returns without releasing the lock.
LLMFailsLocked(p) ==
  /\ pc[p] \in {"load", "llm"} /\ ConnFree
  /\ SetRun(p, "failed") /\ Goto(p, "close")
  /\ job' = [job EXCEPT ![p].list = {}]
  /\ UNCHANGED <<table, caches, lock, cooling, lost, overlap, reinforced, blind>>

\* The LLM is missing (no list is loaded), fails, or does not answer within
\* 60 seconds.
LLMFails(p) ==
  /\ pc[p] \in {"load", "llm"} /\ ConnFree
  /\ SetRun(p, "failed") /\ Goto(p, "release")
  /\ job' = [job EXCEPT ![p].list = {}]
  /\ UNCHANGED <<table, caches, lock, cooling, lost, overlap, reinforced, blind>>

\* The LLM returns items; it is told to return no preference twice.
LLMAnswers(p) ==
  /\ pc[p] = "llm"
  /\ \E I \in SUBSET Values :
       Cardinality(I) <= MaxItems /\ job' = [job EXCEPT ![p].items = I]
  /\ Goto(p, "items")
  /\ UNCHANGED <<table, caches, engine, reinforced, blind>>

\* The user's request is dropped at the await (the client leaves, or the
\* 30 second limit passes): the lock and the running run stay behind.
Dropped(p) ==
  /\ pc[p] = "llm" /\ op[p] = "trigger"
  /\ lost' = lost \cup {job[p].run} /\ Finish(p)
  /\ UNCHANGED <<table, caches, lock, runs, cooling, overlap, reinforced, blind>>

\* Fault: dormant preferences are not compared.
KnownActive(p, v) == v \in ValuesOf({m \in job[p].list : m.active})
Known(p, v) == v \in ValuesOf(job[p].list)

\* An item that a listed preference matches: update_confidence.
Reinforce(p) ==
  /\ pc[p] = "items" /\ ConnFree
  /\ \E v \in job[p].items, k \in job[p].list :
       /\ Known(p, v) /\ k.value = v
       /\ prefs' = {IF n.id = k.id THEN [n EXCEPT !.strong = TRUE, !.old = FALSE]
                                   ELSE n : n \in prefs}
       /\ reinforced' = reinforced \cup {k.id}
       /\ job' = [job EXCEPT ![p].items = @ \ {v}, ![p].dirty = TRUE]
  /\ Race(p)
  /\ UNCHANGED <<used, caches, engine, pc, begun, blind>>

\* An item that none matches: upsert_preference.
Extract(p) ==
  /\ pc[p] = "items"
  /\ \E v \in job[p].items, i \in Ids \ used :
       /\ ~Known(p, v)
       /\ Upsert(p, New(i, v, TRUE), "items")
       /\ job' = [job EXCEPT ![p].items = @ \ {v}, ![p].dirty = TRUE, ![p].next = "items"]
  /\ pc' = [pc EXCEPT ![p] = "upserted"]
  /\ blind' = (blind \/ p \in raced)
  /\ UNCHANGED <<begun, caches, engine, reinforced>>

\* All items are done: the version snapshot is taken through the cache.
Snapshot(p) ==
  /\ pc[p] = "items" /\ job[p].items = {} /\ Get(p, "release")
  /\ UNCHANGED <<begun, table, caches, engine, reinforced, blind>>

\* release_lock_by_tenant; a run that has not failed is completed after it.
Release(p) ==
  /\ pc[p] = "release" /\ ConnFree
  /\ lock' = 0 /\ job' = [job EXCEPT ![p].list = {}]
  /\ Goto(p, IF runs[job[p].run] = "running" THEN "complete" ELSE "close")
  /\ UNCHANGED <<table, caches, runs, cooling, lost, overlap, reinforced, blind>>

Complete(p) ==
  /\ pc[p] = "complete" /\ ConnFree
  /\ SetRun(p, "completed") /\ Goto(p, "close")
  /\ UNCHANGED <<table, caches, lock, cooling, lost, overlap, job, reinforced, blind>>

\* The list is invalidated; only the handler also invalidates the injection.
Close(p) ==
  /\ pc[p] = "close"
  /\ EmptyCache
  /\ IF op[p] = "trigger"
     THEN Goto(p, "uninject") /\ job' = [job EXCEPT ![p].dirty = FALSE]
     ELSE Finish(p)
  /\ UNCHANGED <<table, injected, lateInject, engine, reinforced, blind>>

-----------------------------------------------------------------------------
(* The scheduler: check_dormant_preferences, cleanup_deleted_preferences. *)

Sweep(p) ==
  /\ Begin(p, "sweep") /\ (\A q \in Procs : op[q] # "sweep") /\ Get(p, "dormant")
  /\ UNCHANGED <<table, caches, engine, reinforced, blind>>

Stale(p) == {m \in job[p].list : m.active /\ m.aged}
Expired(p) == {m \in job[p].list : ~m.active /\ m.old}

\* update_status, for one listed preference after the other ...
MarkDormant(p) ==
  /\ pc[p] = "dormant" /\ ConnFree
  /\ \E m \in Stale(p) :
       /\ prefs' = {IF n.id = m.id THEN [n EXCEPT !.active = FALSE, !.old = FALSE]
                                   ELSE n : n \in prefs}
       /\ job' = [job EXCEPT ![p].list = @ \ {m}, ![p].dirty = TRUE]
  /\ Race(p)
  /\ UNCHANGED <<used, caches, engine, pc, begun, reinforced, blind>>

\* ... then the invalidation, if there was one; and the list is read again.
DormantDone(p) ==
  /\ pc[p] = "dormant" /\ Stale(p) = {}
  /\ IF job[p].dirty THEN EmptyCache ELSE UNCHANGED <<cache, late>>
  /\ Goto(p, "recheck") /\ job' = [job EXCEPT ![p].list = {}, ![p].dirty = FALSE]
  /\ UNCHANGED <<table, injected, lateInject, engine, reinforced, blind>>

Recheck(p) ==
  /\ pc[p] = "recheck" /\ Get(p, "cleanup")
  /\ UNCHANGED <<begun, table, caches, engine, reinforced, blind>>

CleanUp(p) ==
  /\ pc[p] = "cleanup" /\ ConnFree
  /\ \E m \in Expired(p) :
       /\ prefs' = {n \in prefs : n.id # m.id}
       /\ job' = [job EXCEPT ![p].list = @ \ {m}, ![p].dirty = TRUE]
  /\ Race(p)
  /\ UNCHANGED <<used, caches, engine, pc, begun, reinforced, blind>>

CleanUpDone(p) ==
  /\ pc[p] = "cleanup" /\ Expired(p) = {}
  /\ IF job[p].dirty THEN EmptyCache ELSE UNCHANGED <<cache, late>>
  /\ Finish(p)
  /\ UNCHANGED <<table, injected, lateInject, engine, reinforced, blind>>

-----------------------------------------------------------------------------
(* Time, and the death of the server. *)

\* The lock's 600 seconds outlast the work of a live run (the LLM has 60).
Expire ==
  /\ lock # 0 /\ \A p \in Procs : ~Inducing(p)
  /\ lock' = 0
  /\ UNCHANGED <<table, caches, runs, cooling, lost, overlap, threads, raced, reinforced, blind>>

\* The cooldown passes; no live run is as old.
CooledDown ==
  /\ cooling # {} /\ \A p \in Procs : ~Inducing(p) /\ pc[p] # "complete"
  /\ cooling' = {}
  /\ UNCHANGED <<table, caches, lock, runs, lost, overlap, threads, raced, reinforced, blind>>

\* Each cache has a time to live of half an hour.
CacheExpires ==
  /\ \/ cache # {} /\ EmptyCache /\ UNCHANGED <<injected, lateInject>>
     \/ injected # {} /\ EmptyInjected /\ UNCHANGED <<cache, late>>
  /\ UNCHANGED <<table, engine, threads, raced, reinforced, blind>>

\* Half a year passes: every preference is past both thresholds.
Season ==
  /\ \A p \in Procs : pc[p] = "idle"
  /\ prefs' = {[m EXCEPT !.aged = TRUE, !.old = TRUE] : m \in prefs}
  /\ EmptyCache /\ EmptyInjected /\ lock' = 0 /\ cooling' = {} /\ reinforced' = {}
  /\ UNCHANGED <<used, runs, lost, overlap, threads, raced, blind>>

Crash ==
  /\ \E p \in Procs : pc[p] # "idle"
  /\ lost' = lost \cup {job[p].run : p \in {q \in Procs : job[q].run # 0}}
  /\ pc' = [p \in Procs |-> "idle"] /\ op' = [p \in Procs |-> "none"]
  /\ job' = [p \in Procs |-> NoJob] /\ raced' = {}
  /\ EmptyCache /\ EmptyInjected
  /\ UNCHANGED <<table, lock, runs, cooling, overlap, requests, reinforced, blind>>

Handler(p)   == \/ List(p) \/ Fill(p) \/ Inject(p) \/ FillInjection(p) \/ Create(p)
                \/ Upserted(p) \/ (\E o \in Ops : Read(p, o)) \/ WriteUpdate(p)
                \/ WriteDelete(p) \/ Written(p) \/ Uninject(p)
Induce(p)    == \/ (\E o \in Ops : CheckLock(p, o)) \/ CheckCooldown(p) \/ Acquire(p)
                \/ Record(p) \/ TooFew(p) \/ Load(p) \/ LLMFails(p) \/ LLMAnswers(p)
                \/ Dropped(p) \/ Reinforce(p) \/ Extract(p) \/ Snapshot(p) \/ Release(p)
                \/ Complete(p) \/ Close(p)
Scheduler(p) == \/ Sweep(p) \/ MarkDormant(p) \/ DormantDone(p) \/ Recheck(p)
                \/ CleanUp(p) \/ CleanUpDone(p)
Environment  == Expire \/ CooledDown \/ CacheExpires \/ Season \/ Crash

Next == Environment \/ \E p \in Procs : Handler(p) \/ Induce(p) \/ Scheduler(p)
Spec == Init /\ [][Next]_vars

-----------------------------------------------------------------------------
(* Properties. *)

\* Two inductions of a tenant never work at the same time: whoever passes the
\* first look at the lock still has to win acquire_induction_lock.
OneInduction == \A p, q \in Procs : Inducing(p) /\ Inducing(q) => p = q

\* Every way out of an induction gives the lock back and settles its run: only
\* a dropped request or a crash leaves a lock or a running run behind.
RunsAccounted ==
  /\ lock # 0 => lock \in lost \/ \E p \in Procs : Inducing(p) /\ job[p].run = lock
  /\ \A r \in Runs :
       runs[r] = "running" => r \in lost \/ \E p \in Procs : job[p].run = r

\* The list cache is never wrong for long: it shows the table, unless a writer
\* has yet to invalidate it or a reader has inserted what it read before a write.
CacheFresh ==
  \A S \in cache : S = prefs \/ late \/ \E p \in Procs : job[p].dirty

\* What a user has deleted or rewritten leaves the injected profile by the end
\* of the request, unless the injection was built from an outdated list.
InjectionTrue ==
  \/ lateInject
  \/ \E p \in Procs : pc[p] \in {"upserted", "written", "uninject"}
  \/ \A S \in injected : \A m \in S :
       \E n \in prefs : n.id = m.id /\ n.value = m.value

\* A later induction recognises what an earlier one has stored, across the
\* caches, the scheduler and crashes: no value is extracted twice, unless the
\* induction compared with a list that somebody has changed meanwhile.
InducedOnce ==
  \A m, n \in prefs :
    m.observed /\ n.observed /\ m.value = n.value => m = n \/ blind

\* At most one induction per cooldown that was not skipped, unless another had
\* passed the cooldown check before the first one started.
CooldownKept ==
  Cardinality({r \in cooling : runs[r] # "skipped"}) <= 1 \/ overlap

\* docs/architecture.md: 90 days without reinforcement make a preference
\* dormant, so one that was reinforced within them stays active.
ReinforcedStaysActive ==
  [][\A m \in prefs : m.active /\ m.id \in reinforced =>
       \A n \in prefs' : n.id = m.id => n.active]_vars

\* Inductions, caches and cooldowns of a tenant's preferences, through
\* dropped requests, crashes and the scheduler (profile_v2/).
ProfileSafe ==
  TypeOK /\ OneInduction /\ RunsAccounted /\ CacheFresh /\ InjectionTrue /\ InducedOnce /\ CooldownKept
=============================================================================
