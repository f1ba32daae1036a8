# Formal model of Cerebro: server, plugins and web interface

TLA+ models of the memory server (`omem-server/`), of the plugins that feed it and read it
from coding agents (`plugins/`), and of the web interface (`omem-web/`); TLC runs over
small instances of them, and TLAPS proofs about twenty-one modules. Paths are relative to `src/`;
those that begin with `store/`, `api/`, `ingest/`, `lifecycle/` or `profile_v2/` to
`omem-server/src/`. The modules follow the code, await by await.

## 1. The system

omem-server is an axum HTTP server (tokio, one process) that stores memories of users
for coding agents. Persistent state lives in LanceDB directories (one per user and per
shared space, and a `_system` database with spaces, sharing events, import tasks and
vault passwords) and in one SQLite file (tenants, categories, preferences, induction
locks and runs). Everything else (store handles, caches, session locks, dream jobs,
semaphores) is in memory and dies with the process.

Three facts shape every module of the server:

* **A LanceDB call is one commit, and nothing spans two.** There are no transactions.
  `update` with a vector (`store/lancedb.rs:1710`), `update_space` (`store/spaces.rs:345`)
  and `update_import_task` (`store/spaces.rs:471`) are a delete *and then* an add.
* **Handlers keep whole rows across awaits.** They read a row, compute, and write every
  column back. Any other request may commit in between.
* **A request may stop at any await.** `api/router.rs:165` puts a 30 s `TimeoutLayer`
  around every request; a client that disconnects has the same effect. A spawned task is
  not dropped, but dies with the server, and nothing restarts it.

The plugins are clients in four hosts: opencode and OpenClaw load them into their own
process, Claude Code and ZCode run a process per hook, with files for whatever must
outlive it; the MCP server is a child process of an agent. They send transcripts, ask for
memories to put before a prompt, and offer tools. The web interface is a React
application of one page, whose handlers and effects run to their next `await`. Four facts
shape these modules:

* **What was sent is remembered apart from what was stored**: a set of message ids in
  memory, a cursor file, a count in a state file. Mark and message travel separately, and
  an answer may be lost after the server has done what was asked.
* **Hooks overlap.** A timer, a chat hook and a compaction of opencode meet in shared
  maps; hook processes of Claude Code meet in files without locks, or with a lock file
  that is taken over by its age.
* **A closure is older than the page.** A React handler that resumes after an `await`
  has the values of its own render, reads the stores as they are now, and is not
  cancelled when the page has moved on. Answers arrive in any order.
* **Hosts are only seen through their events.** opencode, Claude Code, ZCode, OpenClaw
  and the browser are modelled as far as the code in `src/` depends on them.

### Components

| Component | State | Operations | What makes it correct |
|---|---|---|---|
| Memory table: `store/lancedb.rs`, `api/handlers/memory.rs`, `lifecycle/{tier,forgetting,decay}.rs` | `memories` table of a store | create, get (counts an access), update, delete, batch visibility, backfill, re-embed, history entry, search bump; tier evaluation and three forgetting phases; SUPERSEDE | nothing vanishes without a delete; nothing deleted returns; one row per id; access counts and vectors are true |
| Sharing: `api/handlers/sharing.rs` | one store per user and space, `sharing_events`, rules | share, batch, share-all, pull, unshare, reshare, publish, auto-share, stale check; what edits, touches, deletes and sweeps the rows | a shared memory stays available; one copy per space; copies never go back; vectors match texts; copies are audited |
| Spaces: `store/spaces.rs`, `api/handlers/spaces.rs` | one JSON document per space | create, update, delete, add / remove / re-role a member, rules | no edit is lost; a space is never lost and never returns; the owner is a member |
| Imports: `api/handlers/imports.rs`, `ingest/intelligence.rs` | `sessions`, `import_tasks`, two semaphores | import, force, JSON import, trigger, rollback, the extraction task, whose record writes may fail unnoticed | every task settles; a file is stored once; no record is lost; one reconcile at a time |
| Profile: `profile_v2/*`, `api/handlers/profile_v2.rs`, ageing in `lifecycle/scheduler.rs` | `preferences`, two caches, induction lock, runs | list, inject, create, update, delete, induce, age, clean up | one induction at a time; locks and runs are given back; caches are not wrong for long; nothing is induced twice |
| Reconciler: `ingest/reconciler.rs` | per batch: facts left, a snapshot of the memories its searches returned | self-dedup by the LLM, exact match, merge within the session, seven decisions (CREATE, MERGE, SKIP, SUPERSEDE, SUPPORT, CONTEXTUALIZE, CONTRADICT) | no memory gives way to an unrelated fact; what is known is not created again; a superseded memory stays so and has its successor; decisions spare pinned memories |
| Message ingest: `ingest/pipeline.rs`, `ingest/session.rs` | `session_messages` | hash dedup, store, spawn extraction | a message is stored once; ingest permit is given back |
| Session ingest: `api/handlers/memory.rs:1525-2564` | lock per session, session memories, tails | chunk, extract, write | the work of one session is serial; its tail is not lost |
| Store manager and index GC: `store/manager.rs`, `store/lancedb.rs:2633-2858` | LRU of store handles, per-handle compaction state | get, evict, reconnect, compact | an evicted handle does no harm; a table is compacted after enough writes |
| Scheduler: `lifecycle/scheduler.rs` | a daily loop | pages through all stores, evaluates tiers, forgets, prunes locks | each row is met once; a lock in use is not pruned |
| Dream jobs: `dream/` | in-memory job table, one-lane semaphore | start, run, expire, cancel | limits hold; a job ends |
| Retrieval: `retrieve/` | none | vector / text search, fusion, rerank | pure; its only write is the access bump |
| Recalls: `api/handlers/session_recalls.rs`, `store/lancedb.rs:972-1062` | sessions and events, two tables | record, attach feedback | an event has its session |
| Small handlers (vault, merge, categories, files, GitHub), tenants and auth, LLM and embedding clients, statistics | – | – | see section 8 |
| opencode plugin: `plugins/opencode/src/{hooks,index}.ts` | maps and sets per session, one idle timer variable, the capture flag, the main session, the switch | inject at a chat message, capture at idle, archive before a compaction, summary after it, autocontinue, session deleted, toggle | resends are bounded and have a cause; nothing is left out silently; only the main session is stored; the memory block is in the context once |
| Tools: `plugins/{mcp,opencode,openclaw}/src/tools.ts`, `zcode/mcp/server.js` | requests and their timers | every tool, with its request | the agent is told the truth; nobody passes a policy; every call is answered |
| OpenClaw hooks: `plugins/openclaw/src/hooks.ts` | none | inject, capture the end of a turn, capture before a reset | what was said is captured; injected memories do not come back |
| Claude Code flush: `plugins/claude-code/hooks` | cursor and counter files, the handoff file of `/clear` | flush at every n-th turn, at compaction, at the end, after `/clear` | at least once; the cursor never passes what the server lacks |
| Claude Code dreams: `dream.mjs`, `apply-dream.mjs` | state file, lock file, memory files | trigger, dream, poll, orphan, report; merge an archive | what was said is dreamt of; a result is shown; the merge keeps its contract |
| ZCode archive: `plugins/zcode/hooks/stop.js` | state file per session | archive the new part of the conversation | at least once |
| Local web server: `opencode/src/web-server.ts`, `claude-code/scripts/web-server.mjs`, `zcode/web-server.js` | one port, pid and `.live` files | bind, watch, take over, kill, idle exit | somebody serves while somebody needs it; daemons leave |
| Updater: `plugins/opencode/src/updater.ts` | installed files, lock file | check, lock, unpack | the installed files are of one version |
| Accounts and vault: `omem-web/src/stores`, `api/client.ts`, login, settings, vault door | accounts, current account, unlocked flag | sign in, switch, remove, log out, 401, set, verify, reset | somebody is signed in; a password is not set over another |
| Memory pages: list, detail, forms | filters, pages, lists, closures | search, page, delete, roll back, edit, change scope | the page shows what the server has; what is deleted is what was shown |
| Session page and preferences: `session-detail.tsx`, `profile-page.tsx` | private memories opened; preferences of a project | unlock, lock; create, update, delete, refetch | private text is shown only when proved since the last lock; nothing is created twice unawares |
| Other pages, evaluation, deployment | – | – | see section 8 |

Interactions: requests come from the plugins and the web interface over HTTP; each
client's model takes the server as something that serves a request, or not, and whose
answer may be lost; each server module takes requests as coming at any time. The
handlers call the store manager for a table, then the embedding client or the LLM, then
the table. Sharing reads one store and writes another. The ingest pipeline, the import
task and session ingest spawn tasks that end in the reconciler, and session ingest also
in an induction. The scheduler and the lifecycle trigger run the same forgetting code as
each other over tables that handlers are changing. A space document is read by every
sharing request for access rights and rules.

The hard behaviours are listed one by one under `hazards` in `PROJECT.json`, each at its
line: stale whole-row writes, delete-then-add updates cut in half or overlapping,
check-then-insert without a lock, requests dropped while background state says they are
running, caches filled after the write that invalidated them, cooperating modules
that test different columns; and on the clients' side marks that move without the message,
locks taken over by age, late answers, and closures older than the page.

## 2. Modules

| Module | Models | How |
|---|---|---|
| `MemoryTable` | the memory table with its handlers, tasks and forgetting phases | `rows[id]` is the sequence of rows that carry the id. A process has `op` (its handler), `todo` (snapshots not yet written back) and `pend` (the row deleted and not yet added). `ScalarUpdate`, `RewriteDelete`/`RewriteInsert` and `HardDelete` are the three commits; each handler is a read action and a write action built on them |
| `Sharing` | all operations that copy memories between stores, plus what happens to the rows: creation, import, edits, whole-row writes of accesses and visibility, deletion, the lifecycle sweep | `table[s]` per store; `pc`/`job` per request: source read, existing-copy check, vector read, insert, delete, event; an edit is a read, a delete and an insert, a touch (`TouchRead`, `WriteBack`) a read and a write |
| `Spaces` | a space document under all handlers that edit it | read + check + edit of the copy is one action (a single await), then delete, then insert |
| `Imports` | import requests and extraction tasks | a process is first the request and then its background task, `io` is how far a record write is, each part of which may fail (`EditFails`); the semaphores are the sets `Working` and `Reconciling` |
| `Profile` | preferences, caches, inductions and ageing | threads around SQLite calls that are atomic under one mutex (`ConnFree`), with the cache fill after the mutex is given back |
| `Reconciler` | batches of facts reconciled with the memories of a user, several at a time, while users create and delete memories | `job[p]` is what a batch holds: the facts of the stage, those it passed on, the snapshot; `rest` is what is left to do of a decision that has begun. Stages are gather, match, create or merge, decide; each store call is a step |
| `MemoryRegister` | what the table is for a handler that nobody disturbs: a register for each memory | abstract specification of six actions: create, change, get, search, bind, remove. `Register == INSTANCE MemoryRegister WITH memory <- Memory, ...` in `MCMemoryTable`: a memory is the row that is stored or the one that a rewrite has pending |
| `MemoryTableProofs` | proofs about `MemoryTable`, its refinement of the register among them | section 6 |
| `SharingProofs` | proofs about `Sharing` | section 6 |
| `OpenCode` | the hooks of the opencode plugin | the maps of the plugin are variables; `cap[t]` is an idle timer and then the capture it runs, `chat[c]` a chat hook that awaits the injection, `comp` the compacting hook; each await is a step, and any other hook may run there |
| `Delivery` | what a hook that archives a transcript promises: at least once, and the mark is truthful | abstract specification of three actions: say, deliver, mark |
| `ClaudeHooks` | the hook processes of Claude Code that flush transcripts | `proc[p]` is a process between its awaits, the files are variables. `Contract == INSTANCE Delivery WITH got <- Got, mark <- cursor`: the hooks implement it |
| `ClaudeHooksProofs` | proofs about `ClaudeHooks`, the refinement among them, `Dreams` and `ApplyDream` | section 6 |
| `ZCode` | the Stop hook of ZCode and the switch of its tools | conversations are sequences, a compaction replaces a prefix by a summary |
| `WebServer` | the port of the machine | opencode processes, daemons and windows with hooks; probes, kills, timers and exits are steps |
| `Updater` | the self-update of opencode | the installed files one by one, the lock file with its owner and age; processes die and installations fail halfway |
| `Dreams`, `ApplyDream` | dreams of Claude Code: trigger, worker, orphans, report; the merge of an archive | files read and written in separate steps; a transcript is the sequence of times at which its pieces (16 KB each) were written, a job is fed with pieces; the merge is a pure operator applied to every directory and archive of the bounds |
| `Tools`, `OpenClaw` | the tools of four plugins; the hooks of OpenClaw | a call is a record with its tool and surface; `ServeTool` is what the server does before it answers, `Extracted` the task that an ingest spawns, `Said` what the agent is told |
| `Accounts`, `MemoryLists`, `MemoryDetail`, `MemoryForm`, `SessionPage`, `ProfilePage` | the parts of the web interface that change something | requests in flight are sets of records that carry the closure they will resume in |
| `ImportsProofs` | proofs about `Imports` | section 6 |
| `ProfileProofs` | proofs about `Profile` | section 6 |
| `OpenCodeProofs` | proofs about `OpenCode` | section 6 |
| `PartsProofs` | proofs about `ZCode`, `WebServer`, `Updater`, `Tools`, `OpenClaw`, `Spaces`, `Reconciler` | section 6 |
| `PageProofs` | proofs about `Accounts`, `SessionPage`, `MemoryForm`, `ProfilePage`, `MemoryDetail`, `MemoryLists` | section 6 |
| `MC*` | model values, definitions for constants, symmetry, modes and parts | only what TLC needs |

What the data are: texts are members of a small set; an embedding is *the text it was
computed from*, so that a wrong vector is visible; scores, ages and LLM answers are
nondeterministic choices; timestamps are booleans (past a threshold or not). Failures
are actions: `Abandon`/`Drop` is a dropped or failed request, `Crash` the death of the
server, `ReembedAddFails` an error in a loop that goes on, `Fail` an error that ends a batch.

History variables (`gone`, `torn`, `overlapped`, `raced`, `stranded`, `late`, `blind`,
`clashed`, ..., in the clients `excused`, `causes`, `halved`, `elsewhere` and their like) record *why* something unusual
could have happened. They never guard an action; the properties use them to say exactly
which race is the only excuse. So "`Len(rows[i]) > 1 => i \in overlapped`" reads: two rows
with one id prove that two rewrites of it overlapped, and no timeout, crash, sweep or
scalar write does it.

Definitions whose comment begins with *Fault* are single changes of the definition after
them, of the kind a bug would make. No specification uses them. `PROJECT.json` lists for
each property a fault that TLC finds to violate it, which shows that the property
depends on the code.

### Decisions a reader should know

* **Modes and parts.** `MCMemoryTable` holds two instances in one run, by a variable
  `mode` that never changes: "race" (two requests, few kinds) and "serial" (one request at
  a time, every kind). `MCSharing` holds four: "serial", and three of races, where at most one row
  is being written back ("race", four ids), where besides the sweep deletes ("sweep",
  three ids), and where two writes of one row may take each other back ("clash", two ids). `MCMachine`, `MCWebApp` and `MCTools` do the same for
  components that share no variable, by a variable `part`: the behaviours of the
  components together are the interleavings of theirs alone, and each property speaks of
  one component, so that running one at a time loses nothing. The pages of the web
  interface do share the stores of `Accounts`: the account of a page changes only through
  the login page or the pages of settings and spaces, which replace it, so that a page's
  model has one account; what the vault's lock does to an open session page is `vaultOpen` there.
* `OpenCode`: a transcript is a number of messages. Texts and the wording of injections
  are left out; whether enough was said is a threshold on new messages.
* `ClaudeHooks`: Claude Code runs the hooks of one session one after the other and kills a
  hook at its time limit; the detached flush of an ended session is neither killed nor
  waited for. A message may be too short to be kept (`Short`).
* `Tools`: the server accepts an ingest (202) when the messages are stored, and extracts memories in a
  spawned task that may find nothing or fail, and tells nobody (`Extracted`). "Ingestion
  complete" (`mcp/src/tools.ts:472`) therefore means *accepted*, and `ToldTruly` says no more
  of it. `checkPermission` allows everything without an agent or a configuration
  (`opencode/src/tools.ts:17`); `index.ts` always passes both, so that this is left out.
  A request that is cut off or times out may still be served (`adrift`). An agent
  repeats a store until it is told that it is done. Names of agents are sequences of
  letters, because the policy lookup goes by prefixes (`opencode/src/config.ts`).
* `OpenCode`: `barred` names the sessions that were flagged as injected because their agent
  had no access; the flag outlives a switch of agents (`hooks.ts:382-386`).
* `Accounts`: one login form at a time. The vault page is mounted anew when it is entered or
  the account changes, and what arrives for a door that was left is dropped.
* `OpenClaw`'s context engine and server backend are in its sources, and `index.ts` does
  not register them: they are not modelled.
* `WebServer`: times are ordered rather than counted (a killed process is gone before the
  hook that killed it goes on, since 500 ms are less than 700 ms). Whoever watches the
  port probes it, and so keeps an idle daemon alive. Processes are found and killed as on
  Linux; the commands of the other systems are left out.
* `Updater`: a process that dies leaves its lock, and an installation that dies or fails
  leaves files of two versions (`halved`), until another ends. An installation is shorter
  than the five minutes after which a lock is taken over.
* `Dreams`: one request holds at most `Room` transcripts (session and payload limits
  together) and of each the first `Cap` pieces (`PER_SESSION_CAP`, `dream.mjs:38`): what is
  appended to a longer session is never fed, and `last_dream_at` passes it all the same.
  `MaterialDreamt` names that case. The six and 24 hours of the trigger are free.
* `ZCode` leaves out that a state file cannot be written (`stop.js:79`), `ClaudeHooks` that
  a transcript cannot be read, which counts as nothing to send (`common.mjs:532-548`), and
  that the message a cursor names is no longer in the transcript, which sends everything again.
* `MemoryForm`: tags are sets of words, the box is the set of words typed. Enter adds the
  text of the box as one more tag and empties the box; the next change of the box replaces
  the list by what the box then says: `SavedKeepsTags` names that as an excuse. The fields
  stay enabled while the form is saved; the PUT carries what the form held when Save was
  pressed (`payload`), and it is of that moment that the property speaks: what is typed
  afterwards is dropped when the answer leaves the page.
* `MemoryDetail`: others change scopes and delete memories too, by the same requests or by
  writing back a whole row that they read before (`Elsewhere`). The page does not hear of
  it; `elsewhere` names the memories whose scope it may no longer know. A change of
  visibility answers well for a memory that is not there.
* `ProfilePage`: the form may change the value, the home (scope and project) or both, and
  sends what differs from what it was opened with. A list may be answered from the
  server's cache, one change old (`prior`).
* `MemoryLists`: the list starts with the page, filter and words of its address. Whether
  the server's index finds a memory is a constant (`Matching`).
* `SessionPage`: a password that was submitted before a lock and is found right after it
  opens the page again, as `handleVaultUnlock` does; `ShownOnlyProved` counts it as proved.
* `MemoryTable`: `Bump` and `Backfill` are single UPDATE statements and so cannot lose
  anything; `get_memory` is a whole-row write and can. A PUT with new content may change tier,
  state and project in the same rewrite (`Requested`). A sweep may skip a row
  (`SweepSkip`) because age and score are free. The bound on versions also bounds the
  number of writes to a row, so a sweep always can skip or finish.
* `Sharing`: whoever writes a memory writes the whole row that it read before an await:
  an edit with a new text (read, embedding, delete, insert), the access of a GET, a PUT
  without content, a change of visibility, a tier or state of the sweep. Two such writes
  that begin from one row give two texts one version number, and the later takes the
  earlier back. `check_stale` compares version numbers (`api/handlers/memory.rs:695`) and cannot see
  it. `clashed` names the memories written from a row that was not there any more; what is said of versions
  (`EmbeddingNotOlder`, `ReshareNeverGoesBack`, `FreshMeansCurrent`) is
  said of the others. What becomes of the rows themselves then is `MemoryTable`'s subject.
  An edit that is dropped between its two commits loses the source.
* `Sharing.Forget`: the lifecycle sweep deletes rows of any cached store, copies of spaces
  included. It looks for what is days old, and so does not take what a request that
  is still under way has just made (`Fresh`). What it deletes is no longer expected to be
  found (`shared`).
* `Sharing.AutoShare` does its inserts in one step. With the present code no rule can
  match a memory created directly, so the step never inserts anything (section 5); there
  is no interleaving to lose.
* A memory created directly has an empty `space_id`, and its copies name that as their
  source space. `get_store("")` opens another directory, so the stale check of such a
  copy reports the source as deleted and a reshare of it ends in NotFound. The model has
  this ("blank"); a JSON import sets `space_id`, and copies of imported memories can be
  reshared. `docs/SHARING.md:310` says that a reshare soft-deletes the old copy; the code
  hard-deletes it, and so does the model.
* Hiding a memory that is bound to a project leaves it bound, and publishing does not
  rebind it; only creation enforces "Private memories are global" (`ingest/reconciler.rs:675`).
* `Imports` takes one chunk of text per extraction. Progress counters are not columns of
  the model, but the read-delete-insert that writes them is (`progress`, `merged`).
  `set_task_field` passes over every storage error (`ingest/intelligence.rs:359-364`): the
  change is then not made, or the record is gone, and the task goes on. A last change
  that is lost in this way leaves a record that says "processing" for ever; `stranded` names it.
  `MCImports` gives ids out in order and requests to the first idle process, instead of a symmetry.
* `Profile`: the LLM returns distinct preferences, as its prompt demands; the changelog
  and the saved versions are append-only and left out. Creating a preference and
  background inductions do not invalidate the injection, against the comment at
  `profile_v2/injection.rs:144`, so `InjectionTrue` is about updates and deletions. The
  ageing sweep runs for stores of tenants that the scheduler lists; the model is one such
  tenant.
* `Reconciler`: an abstract is the set of facts it tells, a content the set of
  conversations it quotes. Searches return any part of the table. The LLM answers with
  any decisions in any order, no more of them than facts (a bound); SKIP changes nothing and is a
  decision not given. The text of a MERGE may tell everything it was shown or only the
  new fact. Whether wording of the LLM still *contains* a fact's abstract is free
  (`Reworded`).
* What `Reconciler` shows about its code without contradicting a document: the facts of
  one conversation share one source text (`ingest/pipeline.rs:273`), so after a
  repeated ingest each matches whichever memory of that conversation the hash map holds;
  a memory created directly has an empty abstract, which every fact contains, so an
  exact match rewrites it, pinned or not, when the fact weighs more (the documentation
  protects it from MERGE and SUPERSEDE decisions only); of two texts without headings a
  session merge keeps the old one (`ingest/reconciler.rs:999`), while abstract and
  embedding are the new fact's. The properties are stated around these.

## 3. Plan

Done, in this order: `MemoryTable` with its proofs, `Sharing`, `Spaces`, `Imports`,
`Profile`, `Reconciler`; then the clients: `OpenCode`, `Delivery` and `ClaudeHooks` with
their refinement and its proof, `ZCode`, `WebServer`, `Updater`, `Dreams`, `ApplyDream`,
the web interface, `Tools` and `OpenClaw`; last `MemoryRegister` with its proof.

Next:

1. `ZCode` as an implementation of `Delivery` for sessions that are never compacted
   (with compactions it is not one: run `zcode_lost`).
2. `SessionIngest`: two requests of one session and one of another, the per-session lock
   and the daemon that prunes it, chunks and tails; message ingest belongs to it.
3. `StoreCache` (handles, eviction, two live handles on one directory), `Scheduler`
   (offset paging over a table whose rows move), `DreamJobs` (the server's side of the
   dreams) and `Recalls`.

Every safety property of the runs is proved (section 6), and so are the two refinements.
`MemoryTable` is a *register for each memory* (`MemoryRegister`) only while no two handlers
are under way at once; what is left of that with two, `DuplicatesNeedOverlap`,
`DeletedStaysDeleted`, `NothingVanishes` and `AccessNeverOvercounted` say.

## 4. Runs

All passing runs explore the whole reachable state space of their instance. Distinct
states are given; the times are for two workers.

| Run | Instance | Shows |
|---|---|---|
| `table` | race: 1 id, 2 processes, one text, all kinds of handlers but SUPERSEDE, publish, history and backfill; serial: 2 ids, 1 process at a time, 2 texts (one temporary), *every* handler and attribute (the second memory starts as an ordinary fact). @table@ | `RowsSafe`: types, nothing vanishes, nothing deleted returns, duplicates need overlap, accesses are not invented, under every interleaving with timeouts and crashes; `SerialExact`: without overlap access counts and embeddings are exact; `IsRegister`: without overlap the table implements `MemoryRegister` |
| `sharing` | race, sweep, clash: 1 user with one original, 1 space, 2 requests that share, unshare, reshare, edit or touch, with 4, 3 and 2 ids; serial: 2 users (one without write access), 3 ids, 1 request, every operation. @sharing@ | `CopiesExact`: availability, one copy, no going back, no stale embedding, "not stale" means current, audit, under interleaving, dropped requests, write-backs and the sweep, the versions of memories whose writes clashed excepted; serially also: copies carry their own text's embedding, and reshare refreshes |
| `spaces` | 2 users, 1 space, 2 requests, eight edits including a demotion and a removal of the owner, duplicate member entries. 1.0 M states, 23 s | `SpacesSafe`: lost updates, lost spaces and resurrections happen only in the races named |
| `imports` | 1 file, 2 tasks, 2 processes, 3 requests of five kinds, any read or write of a record failing. @imports@ | `ImportsSafe`: records, semaphores and duplicate checks; `ImportSettles`: an import settles, unless its request was dropped, its last edit failed or the server died |
| `profile` | 2 ids, 2 values, 2 threads, 2 runs, 4 requests. 3.9 M states, 117 s | `ProfileSafe`: lock, cooldown, caches, ageing and inductions |
| `reconcile` | 2 batches at a time, 3 ids, 4 facts of 3 conversations (2 similar pairs), 3 requests. 336 k states, 20 s | `BatchesSafe`: what a batch may overwrite, create, supersede and revive, with failures, creations and deletions |
| `opencode` | a main session of 2 messages and a sub-agent's of 1, an agent that may write and one without access, 2 timers, 2 chat hooks, one compaction, restart, fault and toggle, two switches of agents, no more than two of all these. 2.2 M states, 124 s | resends have a cause, silence means captured, only the main session is stored, the injected block is in the context once and its flag is true |
| `claude_hooks` | 2 sessions of 3 and 1 messages, 2 hook processes, 1 fault, 1 resume. 1.8 M states, 46 s | `Delivers`: the hooks implement `Delivery`; resends have a cause; an ended session is delivered to its last word unless its flush was given up |
| `machine` | ZCode: 6 messages, 1 compaction, 1 toggle, 2 lost requests; web server: 1 opencode process and 1 session per window, or none and 2 sessions, 2 windows, 2 daemons; 2 updaters, 3 versions, 1 death or failure; 2 dreamers, 2 transcripts of which one piece is read; archives of 2 entries over 2 files. @machine@ | archive, port, update, dreams and merge, with the liveness of the port |
| `tools` | 2 calls in flight of any tool of 4 plugins, 2 agents with overlapping policies; OpenClaw: 4 messages, captures of 2, budget 3. @tools@ | what agents are told, policies, double stores, answers, captures |
| `webapp` | 2 accounts, 4 requests; lists of 2 memories with 3 (4) fetches; 2 memories on the page, 5 requests and 1 change elsewhere; 3 tags and 3 edits; 2 private memories, 3 proofs, 2 locks; 1 preference of a project, 5 requests. @webapp@ | the web interface under answers in any order |
| `zcode_lost` | ZCode alone, one compaction, no faults | violation: see section 5 |

Invariants named `...Safe` or `...Exact` are the conjunction of the component's named
invariants; the names stay in the modules, where each is stated and commented, and in
the sections below.

Bounds, and why they are enough:

* **Two processes.** Each of the races here is between two: one holds a snapshot, a
  pending row, an answer or an old closure, the other commits. A third adds no new kind of
  overlap; the proofs of section 6 cover every number of them.
* **One id in the race of the table.** All state but the handlers' lists is per id, and
  no handler relates two ids in one commit. Two ids are in the serial mode; sharing, where
  ids do interact (source, old copy, new copy), has four.
* **`MaxVersion` 3, `MaxAccess` 2** (race): three writes of a row, so that a stale write
  after a write after a read occurs; the tier thresholds `WorkingAt` 1 and `CoreAt` 2 and
  the protection threshold 1 are reached within the accesses; a racing PUT does not ask
  for Core, so that Core is reached by accesses alone. A serial table needs two versions
  and one access. In sharing `MaxVersion` 2 gives a copy that is one version
  behind, which is all that "stale" compares, and two writes from version 1.
* **Ids of sharing**: a source and an old and a new copy are three; two reshares of one copy
  side by side need a fourth; two writes that clash, and a copy of their memory, need two.
* **`MaxMembers` 3**: the owner and a member entered twice.
* **`MaxRequests` 3** (imports): an import, a trigger or rollback while its task runs,
  and one more. Failures are not bounded. `ImportPermits` 2 equals the processes; one permit would only delay the
  same steps, and the reconcile semaphore (1, as in `main.rs:263-273`) does contend.
* **`MaxRequests` 4, `MaxRuns` 2** (profile): create or induce, age, edit, induce again;
  the second induction meets what the first has stored. `MaxItems` 1 keeps each batch
  small; the two runs together still store or reinforce two values.
* **`MaxRequests` 3, 3 ids** (reconciler): one batch stores memories and two more overlap
  on them, or two batches and a pinned memory. The facts are two of one conversation
  that weigh differently, one similar to the first (session merge), one nearly equal to
  the second (exact match) of category "project".
* **`MaxBudget` 2** (opencode): any two disturbances in one behaviour. An agent that may only
  read differs from one without access in that a chat is injected; the proofs cover every policy. A second idle timer
  is pending while the first captures; two chat hooks are between search and answer.
* **3 messages, 1 fault, 1 resume** (claude_hooks): a flush, a flush that fails and one
  that makes up for it; `Interval` 2 makes the turn counter fire; the proof has no bounds.
* **`CaptureThreshold` 2, `MaxTalk` 6** (ZCode): an archive, a compaction that leaves less
  than was counted, and talk until the conversation is longer than it was. In `zcode_lost`
  turns are longer (`Growth` 4), so that one takes a compacted conversation past its
  recorded length and the threshold of 3 at once.
* **`MaxRetries` 1, `MaxVisits` 1** (web server): the retries of a failed bind are used up,
  and a visit delays an idle exit.
* **`MaxUpdates` 4, `MaxBreaks` 1** (updates): a process dies or fails while it installs, two
  find its old lock, one takes it from the other, and one more starts.
* **`MaxClock` 3, `Cap` 1, `MaxDeaths` 1** (dreams): a transcript grows before, during and
  after a dream, and beyond what is read of it; a worker leaves its lock behind and two find it.
* **`MaxToolCalls` 2**: a store and its repetition; a change and what races it.
* **4 requests of the accounts, 5 of the pages**: a request, the one that supersedes it,
  its answer late, and the deletion or switch between them.
* `CHECK_DEADLOCK FALSE` where ids, requests, messages or calls run out. The run of the
  memory table checks deadlock.

Symmetry is used over processes, timers, ids or values that no constant distinguishes. The
runs with symmetry check invariants, or action properties and step refinements that treat
those values alike; no liveness is checked under symmetry. `MCWebApp` lets the first
account have the password in one initial state instead of using symmetry.

### Fairness

Liveness is stated in three places:

* `Imports`: weak fairness of the steps of a process states that the tokio runtime goes on
  polling what was spawned or awaited. Strong fairness of `Spawn` and `Lock` states that a
  permit released again and again reaches each waiter: tokio's semaphore queues waiters
  first in first out. A dropped request and a crash are not fair actions, nor is the failure of a write alone, and
  `ImportSettles` excuses exactly those tasks that they strand: the request dropped at its
  permit, the server dead, the last edit swallowed. Nothing in the code restarts a stranded task, so without the
  excuse the property is false (hazards at `api/handlers/imports.rs:256` and `ingest/intelligence.rs:203`).
* `WebServer` (`WFair`, in the machine run `MFair`): the interval timers of an opencode
  process, a daemon and a hook that has begun are fair: `setInterval` fires again and again,
  and processes are scheduled. What people do (open, close, kill, visit) is not fair.
  `PortTakenOver` and `DaemonsLeave` therefore say what happens once people leave
  matters alone, and excuse a process whose retries are used up.
* `Tools` (`TFairness`): the timer of each request rings. That the server answers is not
  assumed; `EveryoneAnswered` rests on the timers alone.

## 5. What the runs found

One finding has a run: `zcode_lost`. `plugins/zcode/hooks/stop.js:15` promises that a
conversation is archived at least once. The hook compares lengths: after a compaction the
conversation is shorter and is sent whole, but if it has meanwhile grown past the
recorded length, `slice(lastMsgCount)` skips the summary and whatever else precedes that
length. The property `AtLeastOnce` is violated without any failure; `ProcessedIsArchived`
says what does hold (everything, unless the session was compacted).

Other disagreements of code and documentation are decided by a single guard or assignment
and have no run; the modules keep the property that shows each:

* Auto-share rules never match a memory created directly (`Sharing.AutoShareDelivers`).
* A rollback of an import looks for `source = 'intelligence'`; the facts have source
  `ingest`, so they stay (`Imports.RollbackRemovesFacts`).
* A forced import of a known file is recorded as stored and processed without text
  (`Imports.ForcedImportStored`).
* Reinforcement writes `confidence` and `updated_at`; ageing reads `last_reinforced_at`
  (`Profile.ReinforcedStaysActive`).
* `apply-dream.mjs:8-9` says that an addition "never blindly overwrites" an existing file;
  one of a new name whose slug is an old file's does (`:148-149`, `ApplyDream.NeverOverwritten`).
* `dream.mjs:235-237` says of a dream whose polling budget is used up that the recovery of
  orphans "still picks up a late completion". It has just written the phase "fail", and
  `session-start.mjs:20` looks for "run" only (`Dreams.PollEnds`, `Dreams.ReadState`).
* `cleanup_expired` deletes pinned memories whose text has an expired TTL keyword
  (`lifecycle/forgetting.rs:47`); `docs/API.md:2899` says that a pinned memory is never
  deleted automatically.

What the excuses of the clients' properties name is reachable as well, and worth knowing:
an idle timer that rings during another capture is dropped (`OpenCode`); a second `/clear`
within the minute replaces the handoff of the first (`ClaudeHooks`); of two
processes that find the old update lock of a dead one, the slower removes the lock of the
other, which is installing by then (`Updater`, `robbed`); what follows the first 16 KB of a
session is never dreamt of, and what is said during a dream is not dreamt of either, because
the time recorded is that of the dream's end (`Dreams`); a failed deletion of
OpenClaw is reported as done (`Tools`); a reset of OpenClaw sends injected memories as the
user's words (`OpenClaw`); a late 401 of one account logs out another (`Accounts`); the
vault's door may offer to set a password after a status request was lost (`Accounts`); a
late answer shows one memory under the address of another, and the delete button then
deletes the one of the address (`MemoryDetail`); a tag added by Enter can be dropped by
the next change of the box (`MemoryForm`); a failed refetch says that a creation failed
which did not (`ProfilePage`); tags typed while the form is saved are dropped with the page
(`MemoryForm`); an ingest that is reported complete may yet find nothing (`Tools`).

What holds, and could easily not: a memory deleted while no rewrite held it never comes
back; access counts are lost in races but never invented; a shared memory stays available
through any reshare; an import's record that says "processing" has somebody working on it
unless its request was dropped at the permit, its last edit failed in silence or the server died; whoever wins the
induction lock is alone although the lock, the cooldown and the acquisition are three
separate looks at the database; a batch that runs alone never revives a memory that was
superseded, since it writes from its snapshot only before its first decision; the cursor of
Claude Code's hooks never passes a message that the server lacks, although the hooks
overlap, are killed and share files without a lock; a message of opencode is sent twice
only after something removed the record that it was sent; a private memory is shown only
when its password was proved since the last lock.

What the excused races mean in practice: two concurrent edits with new content can leave
two rows with one id (`overlapped`); a rewrite cut off by the 30 s limit loses the row
(`torn`); two edits of a space lose one (`raced`); two requests can share the same memory
twice (`overlap`); two writes from one row give two texts one version (`clashed`), after
which a copy that passes for current may show the text that lost. The properties are exact about these: each is reachable in the runs,
and nothing else leads there.

## 6. Proofs

Every safety invariant that a passing run checks is a theorem of its specification, for
every value of the constants; the run shows it on a small instance. Each rests only on the
assumption named in its component's module (the types of the constants, which TLC evaluates
in each run); the few that say more are mentioned. One pattern runs through all of them: the
properties speak of what is stored, shown or counted, and are not inductive; the invariants
add what requests, hooks and closures *hold* between two awaits.

### Server

`MemoryTable`, for every set of ids, processes, texts and handlers and every bound
(`TableAssumption`):

| Theorem of `MemoryTableProofs` | Statement |
|---|---|
| `TypeCorrect` | `Spec => []TypeOK` |
| `AccessBounded` | `Spec => []AccessNeverOvercounted` |
| `NoResurrection` | `Spec => []DeletedStaysDeleted` |
| `NoLoss` | `Spec => []NothingVanishes` |
| `NoDuplicateWithoutOverlap` | `Spec => []DuplicatesNeedOverlap` |
| `TableSafe` | `Spec => []RowsSafe`, the five together |
| `SerialIsExact` | `ModeSpec => []SerialExact` |
| `SerialIsRegister` | `ModeSpec => IsRegister`, that is `ModeSpec => Register!Spec` |

Types and counts go together in one induction (`TypeInv`). `TypeOK` alone is not
inductive enough for the count: a handler writes back the count of its *snapshot*, so the
invariant must say that no snapshot and no pending row shows more accesses than were made
(`HeldNeverOvercounted`), and that a row is filed under its own id (`Filed`).

For the life of a memory the invariant `LifeInv` strengthens the three properties by what
processes hold: `KnownIds` (every id held or stored was inserted once), `GoneSettled` (a
`gone` id is absent *and* no rewriter holds it, so nobody can add it again) and `OneCopy`
(stored rows plus pending rows of an id are at most one, unless rewrites of it
overlapped). `HeldShape` says which handlers have pending rows at all. Instead of
arguing about each of some thirty actions three times, `NextStepKind` shows that every
step is one of six kinds (calm, birth, delete, lift, land, tear), and one lemma per kind
(`CalmLife` ... `TearLife`) preserves `LifeInv`.

`SerialExact` is about handlers run one at a time, each cut off anywhere. `OneBusy` says
that one process is busy, and whoever is busy must move before another begins, so that the
others hold nothing (`Only`) and nothing overlaps. Then every snapshot is `Faithful`: it has
counted every access and has the text of the row that its update will overwrite. `OneCopy`,
from `LifeInv`, is what makes the row of an id *the* row. `ModeSpec` has the two modes of
`MCSpec` and none of its bounds.

For the refinement a snapshot must be more than faithful: it *is* the row (`Current`), or,
for SUPERSEDE, the row with the mark that is yet to be written. One lemma for each kind of
commit says what it does to the memories (`ScalarMemory` ... `StoreMemory`), one for each
kind of change which action of the register that is (`ChangeIsStep` ... `RemoveIsStep`).
Reads, the second commit of a rewrite, and whatever is cut off elsewhere are stutters; a
rewrite cut off between its commits, or a crash there, removes the memory. That a write may
change only its own columns is the point: a scalar update writes them all, and is right
only because the rest of its copy is what the row has.

`Sharing`, for any users, spaces, ids and requests (`SharingAssumption`: there is a user):

| Theorem of `SharingProofs` | Statement |
|---|---|
| `CopiesAreSafe` | `Spec => []CopiesSafe`: availability, one copy, no going back, no stale embedding, "not stale" means current, audit, with requests and write-backs racing, dropped, and the sweep deleting |
| `CopiesAreExact` | `MCSpec => []CopiesExact`: besides, when requests are served one at a time, exact embeddings, and a reshare's copy is at its source's version |

The invariant speaks of all memories that are *known*: stored, held by an edit between its
delete and its insert, or read by a request (`Known`). Of these it says (`Memories`) that
they are well formed (`Formed`), that nobody changes where one comes from (`Inherited`), that
of a memory whose writes have not clashed what was read is never newer than what exists, and
the same if of the same version (`OnlyNewer`), that a stored embedding is not older than any
text that somebody may yet write back beside it (`VectorsAhead`), and that a source has not
got older since it was copied (`SourcesAhead`). Each of the last three is about the race of
a whole-row write with a copy: without `Known` it is not inductive, since the row that a
request has read is written back later, over whatever is there by then. `OnePlace` says which store that write goes
to, and that an edit between its commits is the only one with its memory, unless two
clashed. `Fit` says what every request knows at each of its phases.

`Available` is not inductive without the answer to who may delete a copy: a shared memory
has a copy in its space that nobody *threatens*, where a reshare that is about to delete the
old copy threatens that one, and has its new one in the table (`Made`). `SingleCopies` counts
requests as well as rows: one request at a time copies a memory to a space, and if one does,
no copy is there that it does not know of, or the copy is its own, or two requests
overlapped. In the serial mode nothing clashes, a request's source is the row that is stored,
and so embeddings are exact (`SerialInv`).

`Spaces`, for any users, spaces, rules and requests (`SpacesAssumption`: at least one user
and one space):

| Theorem of `PartsProofs` | Statement |
|---|---|
| `SpacesAreSafe` | `SpSpec => []SpacesSafe`: lost edits, lost spaces and resurrections need the races named; the owner stays a member |

`SpInv` adds what a request holds (`Placed`), that a space nobody raced for has one request
at it (`Solo`) whose document is `Apply` of the latest (`LoneJob`), that whoever holds a
deleted space is accounted for (`NoComeback`), and that the owner is a member in every copy
that can still be written (`OwnersHeld`). The removal of a member keeps the others in their
order (`Without`, a recursive function), which is why the owner's entry survives it.

`Imports`, for any files, tasks and processes, any number of permits of the import
semaphore and of requests (`ImportsAssumption`: finitely many processes, at least one task
and file):

| Theorem of `ImportsProofs` | Statement |
|---|---|
| `RecordsSafe` | `Spec => []ImportsSafe` |

`ProcessingHasRunner` is not inductive: it counts every process that is at work on a task,
also a request that wants to roll it back or trigger it again, and such a request may be
dropped or refused. The invariant `Settled` counts only those who are `Settling`: the
background task, or the request that waits at the permit to spawn it, until all that is left
to do is insert a last record, and a last record does not say "processing" (`FinalCopies`).
A step either leaves its process settling or strands its task (`StillSettled`), or writes
the task's rows (`WriteSettled`); a write that fails in silence leaves the process settling
unless it was the last. `Alone` is what makes the look at the hashes good at the
insertion: the import of a file that is not raced is the only one between the two, and has
seen that nobody stored it. `OneHolder` is `OneReconcile` without a cardinality.

`Profile`, for any preferences, values, threads, runs and requests (`ProfileAssumption`):

| Theorem of `ProfileProofs` | Statement |
|---|---|
| `ProfileIsSafe` | `Spec => []ProfileSafe` |

The engine of inductions: an inducing thread's run is the one the lock names, unless it was
lost to a takeover (`LockOfRun`), no two threads have one run (`OwnRun`), a run that is not
finished has its thread or was left by a crash (`RunsAccounted`), and its state agrees with
how far the thread is (`Status`). The caches: what a thread has read and not yet put into a
cache is the table's, or the row was written meanwhile and the thread is known to be late
(`ReadTrue`, `InjectionKept`). `Covered` and `InducedOnce` say that what an induction is
about to store was compared with everything that is stored by anyone but a request;
`Dormant` says that a preference nobody has seen active cannot become so in a held list.

`Reconciler`, for any facts, texts, requests and batches at a time
(`ReconcilerAssumption`):

| Theorem of `PartsProofs` | Statement |
|---|---|
| `BatchesAreSafe` | `Spec => BatchesSafe` |

`ReInv`: every memory stored or held, and so every row that can still be written, is sound
(`AllSound`); a memory marked as superseded when no other batch ran is marked in *every*
copy that anyone can still write (`AllMarked`), so that no snapshot revives it; a stored id
is in the table, or being rewritten, or gone for a cause (`AllStored`); a snapshot has one
row per id (`OneEach`); and the facts a batch has passed on are unknown to its snapshot
(`AllPassed`), since after the exact match neither grows. `Kept` lists what any step but
`Mark` owes to the invariant; each such step is one of five kinds (quiet, store, rewrite,
write back, insert), with a lemma for each.

### Plugins

`ClaudeHooks`, for every set of sessions and hook processes, every transcript length and
number of faults and resumes (`ClaudeAssumption`):

| Theorem of `ClaudeHooksProofs` | Statement |
|---|---|
| `TypeCorrect` | `Spec => []TypeOK` |
| `CursorTruthful` | no cursor passes a message that the server lacks |
| `Implements` | `Spec => Delivers`, that is `Spec => Contract!Spec` |
| `ResendsHaveCause` | `Spec => []ResentNeedsCause` |
| `TailsArrive` | `Spec => []TailDelivered` |

The invariant `IInv` adds to the types what a flush in flight knows (`Flights`): everything
before the place it read from is kept at the server, although another process may have
moved the cursor since; after a served request the same holds up to the end of its batch,
which is why the answer may set the cursor there wherever it is by then. The step of the
refinement maps a request that arrives to `Deliver`, an advance of the cursor to `Mark` (the
server has all messages before it, by `IInv`), a turn to `Say`, and all else to a stutter.

For the resends (`RInv`) sessions that no two processes flushed at once are enough: a flush
is then alone (`Sole`), reads from the cursor (`AtCursor`), and a message counted once more
than the answers nobody used is being carried by a flush whose request was served
(`Counted`). For the tails, an ended session is `InHand`: delivered, or named by the handoff
file, or carried by a process that will read its transcript to the end (`Brings`).

`Dreams`, for any transcripts, workers and limits, where the id of no job is not an id
(`DreamsAssumption`), and `ApplyDream`, for any files, names, slugs, links and archives:

| Theorem of `ClaudeHooksProofs` | Statement |
|---|---|
| `MaterialIsDreamt` | `DSpec => MaterialDreamt` |
| `ResultIsShown` | `DSpec => ResultShown` |
| `ContractIsKept` | `ASpec => ContractKept` |

`DreamInv` says what a worker or job knows that was fed at some time (`FedWorker`,
`FedJobs`): every piece written until then is in its food, or lies behind the cap, or the
request was full, or `last_dream_at` had passed the piece before. `high` is therefore the
greatest value `last_dream_at` ever had, and not the present one, which a worker that fails
or a window that answers late moves back. `Told` ties the state file and a waiting window to
jobs the server knows. For the results, `Alone` says that a worker at work has the lock as
long as no lock was taken from one, so that nobody else writes over a result that waits.

The merge is one step, so that its theorem needs only that nothing is written before it: it
is about what the choice of entries, conflicts, paths and the order of writes and removals
come to together. A file written to was chosen by name (the entry's own or that of its link
in the index), or is named by the slug of a new name; the entry that removes one is the best
of its name.

`OpenCode`, for any sessions, timers, agents, policies and lengths (`OpenCodeAssumption`):

| Theorem of `OpenCodeProofs` | Statement |
|---|---|
| `ResendIsBounded` | `Spec => []ResendBounded` |
| `QuietIsCaptured` | `Spec => []QuietMeansCaptured` |
| `OnlyMainIsStored` | `Spec => []OnlyMainStored` |
| `InjectionIsHonest` | `Spec => []InjectionHonest` |

One induction carries all four. `Locked` and `OneRun` say that `isCapturing` stands for one
running timer, `OfMain` that what runs is of a session that has been the main one, `Recorded`
and `InFlight` that a message sent is in the plugin's map, or in the request of that timer,
or was forgotten with a cause, `Promised` that what an idle event asked for is stored, given
up or in the hands of a pending or running timer. The attempt to prove that the flag of an
injection stands for a block in the context failed for a good reason: an agent without
access is flagged without a block (`hooks.ts:382-386`), and the flag outlives a switch to
another agent, which is then not injected. `InjectionHonest` now names such sessions
(`barred`).

The parts of the plugins that have little state are proved in `PartsProofs`:

| Theorem of `PartsProofs` | Statement | From |
|---|---|---|
| `TurnsArchived` | `ZSpec => []ProcessedIsArchived` | `ZCodeAssumption` |
| `ArchivedTwiceNeedsCause` | `ZSpec => []SentAgainNeedsCause` | the same |
| `ServedWindows` | `WSpec => []WindowsServed` | `WebAssumption` |
| `VersionWhole` | `USpec => []OneVersion` | `UpdaterAssumption` (nobody is called like the absence of a lock) |
| `AgentIsToldTruly` | `TSpec => []ToldTruly` | `ToolsAssumption` |
| `PolicyIsKept` | `TSpec => []PolicyKept` | the same |
| `StoredOnce` | `TSpec => []StoredOnceUnlessMisled` | the same |
| `CapturedOrCut` | `ClSpec => []CapturedUnlessCut` | `OpenClawAssumption` |
| `EchoesAreOfResets` | `ClSpec => []EchoOnlyByReset` | the same |
| `CapturesAreHonest` | `ClSpec => []CapturesHonest`, both together | the same |

* *ZCode.* The recorded length may be of the conversation before a compaction, so it says
  nothing of the messages there are now. The invariant says what it does say (`Counted`):
  nothing at or after it was sent since the last cause for sending it again; and until the
  first compaction every snapshot of the transcript is a prefix of the conversation.
* *WebServer.* A daemon that was told to die has the port to itself and somebody waits for
  it (`KilledFor`); a window whose hook is over has its `.live` file or a cause (`Listed`).
* *Updater.* As long as no lock was removed from a process that was installing, the lock is
  the installing process's (`LockHeld`), whoever died before and whoever's old lock was
  taken over; `Unpacked` says which files are already of the version the owner fetched,
  which need not be the one it had asked for. An installation that ends makes the files
  whole again, also after one that stopped halfway.
* *Tools.* Calls are numbered and apart (`Numbered`); what a pending call got is what the
  server did (`ServedRight`), and an ingest is accepted before anything is extracted
  (`Ingesting`); the answer of a call that is still adrift says that it is lost
  (`GivenUp`); what a call does its agent may do, or the plugin took it for another
  (`Granted`); one store is under way for what an agent wants stored (`Storing`).
* *OpenClaw.* What `agent_end` sends is computed by a loop with a budget, a recursive
  function of the position. The proof has its existence (`LoopExists`, `LoadExists`) and
  that what the loop reaches is sent (`ReachedIsSent`): its bytes are the load of the
  messages so far until it ends, and it ends only beyond the budget.

### Web interface

The accounts and five pages, for any keys, memories, words, projects, filters and bounds.
Three assumptions: a wish is not named like the preference there at the start
(`WishesAssumption`), the empty memory has no id of a memory (`DetailAssumption`), ids and
sizes of pages are numbers (`ListAssumption`).

| Theorem of `PageProofs` | Statement |
|---|---|
| `ShownProved` | `SeSpec => []ShownOnlyProved` |
| `TagsKept` | `FormSpec => []SavedKeepsTags` |
| `CreatedOnce` | `PSpec => []TwiceOnlyMisled` |
| `PrefsShown` | `PSpec => []PrefsSettled` |
| `ShownIsDeleted` | `DetSpec => []DeletedWasShown` |
| `DetailIsTrue` | `DetSpec => []DetailTrue` |
| `ListsShown` | `LSpec => []ListSettled` |
| `SomebodyIsSignedIn` | `AcSpec => []SomebodySignedIn` |
| `PasswordIsKept` | `AcSpec => []PasswordKept` |

`ShownOnlyProved` speaks of memories whose card is loaded; a card loads at any time, so
the invariant `OpenOnlyProved` says the same of all that the two sets and the flag open,
loaded or not. Each handler that changes a lock has its lemma; the one for a right
password has three cases: it unlocks the page, opens the pending memory, or toggles a card
as its own rendering saw it. `FormInv` says, as long as there is no excuse, that the box
has all words of the list and the list all words that were not taken out: typing replaces
the list, which is safe only because all of the list was in the box; and it says the same of
what a Save under way has sent, whatever is typed meanwhile. `PrefsInv` ties the
disabled button to what is in flight: one creation or change at a time (`SaverAlone`), so
that a preference is there only if the user was told, was misled, or the answer that tells
him is still on its way (`Answered`).

What a page shows *once it waits for nothing* follows, on three pages, from an invariant of
one form: what is shown is good, or a fetch that is newer is under way (`ListGood` with
`Behind` of the preferences, `ShownFits` with `Overtaken` of the lists, `Found` with
`Newest` and `Coming` of a memory's page); the answers under way are good too, each for what
was asked (`AnswersGood`, `AnswersFit`). The page of a memory needs in addition that its
dialog was opened over the memory it showed, which is what `DeletedWasShown` is about; what
it shows is the server's scope only of memories that nobody else has touched since
(`Untouched`), and with a change of its own under way the answer tells of the rest
(`Coming`).

For the accounts `Registered` says that the current account, wherever it is kept, is in the
list or was removed for a cause, and `SignedIn` that a page inside the application has one;
the next account after a removal is the least of a finite set (`LeastOf`). For the vault,
the request that sets a first password comes from the door of its own account (`OfDoor`) that
was told so by a current status (`FirstOnly`). This proof found an error of the model, at
five requests, beyond the bound of its run: an answer that arrived after the door had been
left was applied to the door that was mounted next. React drops it; so does the model now
(`door`).

### What is not proved

Liveness (`ImportSettles`, `PortTakenOver`, `DaemonsLeave`, `EveryoneAnswered`) is checked
by TLC only: the provers have no ENABLED. Every other property of a passing run is a theorem.

There is no general induction over data. Three recursive functions are proved about one by
one (`Spaces.Without`, `OpenClaw.Budgeted`, `OpenClaw.Load`), by the least number at which the
claim would fail (`LeastOf`). `SelectSeq` and the folds of the community modules are opaque
to the provers, so that the models proved about use sets of positions or recursive functions
in their place.

## 7. Hazards without a property

`PROJECT.json` lists forty hazards, each with a property. Not in the list are the pair of
columns of reinforcement and ageing (`profile_v2/store.rs:164`, stated as
`Profile.ReinforcedStaysActive`, which the code violates), and smaller or later ones:
session locks that a daemon prunes (`api/handlers/memory.rs:1580`), store handles that
live on after their eviction (`store/manager.rs:88`), paging over rows that move
(`lifecycle/scheduler.rs:310`), dream limits checked without a lock (`dream/mod.rs:273`),
recall events in a table of their own (`store/lancedb.rs:1011`),
`find_or_create_shared_space` (`api/handlers/sharing.rs:837`), the vault's password row
(`store/spaces.rs:194`), expiry by a TTL word, which deletes pinned memories, and the
version snapshot of a profile, which is taken through the cache
(`profile_v2/induction.rs:399`) and misses its own run's reinforcements.

## 8. Not modelled

* *Retrieval, decay, statistics, admission and noise filters, prompts*: pure functions
  over floats or text. Their result is a free choice where a module needs it.
* *LLM and embedding clients, file extraction, GitHub conversion*: calls of other
  services. A failure or any answer is possible wherever they are called.
* *Tenants, API keys, routing, configuration*: checks before a handler; the modules start
  behind them. Access rights of spaces are in `Spaces` and `Sharing`.
* *SQLite errors* in `Profile`, and corrupt LanceDB directories: a storage error ends a
  handler like a dropped request does.
* *opencode*: the texts of injections and nudges, the configuration cascade, logs and
  toasts. *Claude Code*: injection at session start, prompt
  nudges, the approval of recalls. *ZCode*: the hooks at session start, prompt and tool use
  only read. They put text before a model and change no state that another step reads.
* *OpenClaw's* context engine and server backend, which nothing registers.
* *Web interface*: spaces, categories, lifecycle, import, dashboard, analytics, tier
  history and session list ask and show, with at most one write at a time, and repeat the
  patterns of the pages modelled; the overview, facts and changelog of a profile only show;
  `use-sse.ts` and the scheduler page are not reached from `App.tsx`.
* *Session and message ingest, store manager, scheduler, dream jobs of the server,
  recalls*: planned (section 3).
* *OpenViking evaluation, deployment, websites*: scripts and static pages.
* Vault passwords, merge and categories: small handlers with one table each; the vault's
  delete-then-insert is a hazard of its own and has a place in the plan.
