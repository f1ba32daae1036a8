---------------------------- MODULE MemoryTable ----------------------------
(***************************************************************************)
(* One tenant's `memories` table (store/lancedb.rs) and everything that    *)
(* reads it, awaits, and writes it back: the HTTP handlers of              *)
(* api/handlers/memory.rs, the re-embedding task, a reconciler SUPERSEDE,  *)
(* and the lifecycle cycle that POST /v1/lifecycle/trigger spawns          *)
(* (api/handlers/lifecycle.rs, lifecycle/forgetting.rs).                   *)
(*                                                                         *)
(* A LanceDB operation (add, update, delete, query) is one atomic commit;  *)
(* nothing spans two of them.  A handler is therefore a process that holds *)
(* a snapshot of whole rows while other processes commit.  `update` with a *)
(* vector is two commits, a delete and an add; without one it overwrites   *)
(* every scalar column of whatever row still has the id.                   *)
(***************************************************************************)
EXTENDS Naturals, Sequences

CONSTANTS
  Ids,          \* memory ids (UUIDs: never reused)
  Procs,        \* requests and background tasks in flight at once
  Contents,     \* memory texts (never empty)
  Temporary,    \* the texts in which forgetting.rs detects a TTL
  Ops,          \* the handlers that an instance lets run
  NewAttrs,     \* attributes a request may create a memory with
  Patches,      \* attribute changes a PUT may ask for
  WorkingAt,    \* accesses that make a memory Working
  CoreAt,       \* accesses that make a memory Core
  ProtectAt,    \* forgetting_access_count_protection
  MaxVersion,   \* bound: no write beyond this version
  MaxAccess     \* bound: accesses of one memory

HistoryOps  == {"history", "historyVector", "historyNone"}
RequestOps  == {"get", "update", "hide", "publish", "delete"} \cup HistoryOps
TaskOps     == {"reembed", "supersede"}
SweepOps    == {"tiers", "expire", "archive", "stale"}
InstantOps  == {"create", "bump", "purge", "backfill"}
HandlerOps  == RequestOps \cup TaskOps \cup SweepOps
RewriterOps == {"update", "history", "historyVector", "reembed"}

Tiers == {"Peripheral", "Working", "Core"}

Attrs == [tier : Tiers, pinned : BOOLEAN, private : BOOLEAN, project : BOOLEAN]
Patch == [tier : Tiers, active : BOOLEAN, project : BOOLEAN]

ASSUME TableAssumption ==
  /\ NewAttrs \subseteq Attrs /\ Patches \subseteq Patch
  /\ Temporary \subseteq Contents /\ "none" \notin Contents
  /\ Ops \subseteq HandlerOps \cup InstantOps
  /\ WorkingAt \in Nat /\ CoreAt \in Nat /\ ProtectAt \in Nat
  /\ MaxVersion \in Nat \ {0} /\ MaxAccess \in Nat


\* The columns that some handler changes or decides on.  `abst` is the text
\* that l0_abstract summarises ("none" if it has none), `vec` the text the stored
\* embedding was computed from, `project` whether project_path is set,
\* `private` whether visibility is "private".
Row ==
  [id : Ids, content : Contents, abst : Contents \cup {"none"}, vec : Contents,
   version : 0 .. MaxVersion,
   access : 0 .. MaxAccess, tier : Tiers, active : BOOLEAN,
   superseded : BOOLEAN, pinned : BOOLEAN, private : BOOLEAN,
   project : BOOLEAN]

VARIABLES
  rows,        \* rows[id]: the rows of the table that carry this id
  op,          \* op[p]: the handler p runs, or "idle"
  todo,        \* todo[p]: snapshots read by p and not yet written back
  pend,        \* pend[p]: the row p has deleted and not yet re-inserted
  used,        \* ids ever inserted
  accesses,    \* accesses[id]: accesses recorded so far
  deleted,     \* ids a delete was committed for
  gone,        \* ids deleted while no rewrite held a snapshot of them
  torn,        \* ids whose rewrite stopped between its delete and its add
  overlapped   \* ids that two rewrites had deleted before either added

procVars == <<op, todo, pend>>
history  == <<used, accesses, deleted, gone, torn, overlapped>>
vars     == <<rows, procVars, history>>

TypeOK ==
  /\ rows \in [Ids -> Seq(Row)]
  /\ op \in [Procs -> HandlerOps \cup {"idle"}]
  /\ todo \in [Procs -> SUBSET Row]
  /\ pend \in [Procs -> SUBSET Row]
  /\ used \subseteq Ids
  /\ accesses \in [Ids -> 0 .. MaxAccess]
  /\ deleted \subseteq Ids /\ gone \subseteq Ids
  /\ torn \subseteq Ids /\ overlapped \subseteq Ids

Init ==
  /\ rows = [i \in Ids |-> <<>>]
  /\ op = [p \in Procs |-> "idle"]
  /\ todo = [p \in Procs |-> {}]
  /\ pend = [p \in Procs |-> {}]
  /\ used = {}
  /\ accesses = [i \in Ids |-> 0]
  /\ deleted = {} /\ gone = {} /\ torn = {} /\ overlapped = {}

-----------------------------------------------------------------------------
(* The table's commits. *)

Present(i)   == rows[i] # <<>>
RowsOf(i)    == {rows[i][k] : k \in DOMAIN rows[i]}
AllRows      == UNION {RowsOf(i) : i \in Ids}
IdsOf(S)     == {m.id : m \in S}

\* Some rewriting handler still holds a snapshot of i, or i's pending row.
Rewriting(i) == \E p \in Procs : /\ op[p] \in RewriterOps
                                 /\ i \in IdsOf(todo[p] \cup pend[p])

\* update() bumps the version of the caller's copy, not of the stored row.
NextVersion(m) == [m EXCEPT !.version = @ + 1]

\* Fault: the scalar path as an upsert.
ScalarUpsert(m) ==
  /\ m.version < MaxVersion
  /\ rows' = [rows EXCEPT ![m.id] = <<NextVersion(m)>>]

\* update() without a vector: every row with the id takes all of m's columns
\* but keeps its embedding; no row with the id, no effect.
ScalarUpdate(m) ==
  /\ m.version < MaxVersion
  /\ rows' = [rows EXCEPT ![m.id] =
                [k \in DOMAIN @ |-> [NextVersion(m) EXCEPT !.vec = rows[m.id][k].vec]]]

HardDelete(S) ==
  /\ rows' = [i \in Ids |-> IF i \in S THEN <<>> ELSE rows[i]]
  /\ deleted' = deleted \cup (S \cap used)
  /\ gone' = gone \cup {i \in S \cap used : ~Rewriting(i)}

\* Fault: the vector path adds the new row without deleting the old one.
RewriteWithoutDelete(p, m) ==
  /\ m.version < MaxVersion
  /\ pend[p] = {}
  /\ pend' = [pend EXCEPT ![p] = {NextVersion(m)}]
  /\ UNCHANGED <<rows, overlapped>>

\* update() with a vector, first commit: delete the rows, keep p's version.
RewriteDelete(p, m) ==
  /\ m.version < MaxVersion
  /\ pend[p] = {}
  /\ rows' = [rows EXCEPT ![m.id] = <<>>]
  /\ pend' = [pend EXCEPT ![p] = {NextVersion(m)}]
  /\ overlapped' = IF \E q \in Procs \ {p} : m.id \in IdsOf(pend[q])
                   THEN overlapped \cup {m.id} ELSE overlapped

Idle(p)  == op[p] = "idle"
Become(p, o, S) == op' = [op EXCEPT ![p] = o] /\ todo' = [todo EXCEPT ![p] = S]
Done(p)  == Become(p, "idle", {})
Drop(p, m) == todo' = [todo EXCEPT ![p] = @ \ {m}] /\ UNCHANGED op

-----------------------------------------------------------------------------
(* Handlers of a single commit. *)

\* A private memory is stored without the project it was sent with; only a
\* fact of the reconciler has an abstract, and it is the abstract it embeds.
NewRow(i, c, a) ==
  [id |-> i, content |-> c, abst |-> IF a.pinned THEN "none" ELSE c, vec |-> c,
   version |-> 1, access |-> 0,
   tier |-> a.tier, active |-> TRUE, superseded |-> FALSE, pinned |-> a.pinned,
   private |-> a.private, project |-> a.project /\ ~a.private]

\* What create_fact_memory stores: an Insight, in the lowest tier.
FactAttrs == {a \in NewAttrs : ~a.pinned /\ a.tier = "Peripheral"}

\* POST /v1/memories with content (pinned) or a fact the reconciler stores
\* (not pinned).  The embedding comes first: a failure there writes nothing.
Create(p, i, c, a) ==
  /\ Idle(p) /\ "create" \in Ops
  /\ i \notin used
  /\ a.pinned \/ a \in FactAttrs
  /\ rows' = [rows EXCEPT ![i] = Append(@, NewRow(i, c, a))]
  /\ used' = used \cup {i}
  /\ UNCHANGED <<procVars, accesses, deleted, gone, torn, overlapped>>

\* The spawned bump of a search's hits: one UPDATE that adds 1 in place.
Bump(p, S) ==
  /\ Idle(p) /\ "bump" \in Ops
  /\ \A i \in S : i \in used /\ accesses[i] < MaxAccess
  /\ rows' = [i \in Ids |-> IF i \in S
                THEN [k \in DOMAIN rows[i] |-> [rows[i][k] EXCEPT !.access = @ + 1]]
                ELSE rows[i]]
  /\ accesses' = [i \in Ids |-> IF i \in S THEN accesses[i] + 1 ELSE accesses[i]]
  /\ UNCHANGED <<procVars, used, deleted, gone, torn, overlapped>>

\* POST /v1/memories/batch-delete by ids or by filter, DELETE /v1/memories/all.
Purge(p, S) ==
  /\ Idle(p) /\ "purge" \in Ops
  /\ HardDelete(S)
  /\ UNCHANGED <<procVars, used, accesses, torn, overlapped>>

\* backfill_project_path: rows without a project and not private get one.
Backfill(p) ==
  /\ Idle(p) /\ "backfill" \in Ops
  /\ rows' = [i \in Ids |-> [k \in DOMAIN rows[i] |->
                IF rows[i][k].private THEN rows[i][k]
                ELSE [rows[i][k] EXCEPT !.project = TRUE]]]
  /\ UNCHANGED <<procVars, history>>

-----------------------------------------------------------------------------
(* Reads: a handler takes its snapshot. *)

\* get_by_id (LIMIT 1), the first step of five handlers.
ReadOne(p, o, m) ==
  /\ Idle(p) /\ o \in Ops
  /\ o \in {"get", "update", "history", "delete", "supersede"}
  /\ m \in AllRows
  /\ ~(o = "supersede" /\ m.pinned)
  /\ Become(p, o, {m})
  /\ UNCHANGED <<rows, pend, history>>

\* batch_update_visibility reads the rows of the given ids in one query.
ReadGiven(p, o, S) ==
  /\ Idle(p) /\ o \in Ops \cap {"hide", "publish"}
  /\ S # {}
  /\ Become(p, o, UNION {RowsOf(i) : i \in S})
  /\ UNCHANGED <<rows, pend, history>>

\* reembed_memories lists the active rows; a triggered cycle lists all rows.
ReadAll(p, o) ==
  /\ Idle(p) /\ o \in Ops
  /\ \/ o = "reembed" /\ Become(p, o, {m \in AllRows : m.active})
     \/ o = "tiers" /\ Become(p, o, AllRows)
  /\ UNCHANGED <<rows, pend, history>>

\* A handler whose list of snapshots is used up returns.
Finish(p) ==
  /\ op[p] \in {"hide", "publish", "reembed", "stale"}
  /\ todo[p] = {} /\ pend[p] = {}
  /\ Done(p)
  /\ UNCHANGED <<rows, pend, history>>

-----------------------------------------------------------------------------
(* Request handlers: the write after the read. *)

\* TierManager::evaluate_tier.  The composite score and the age are free:
\* only the access counts, visibility and the one-step order constrain it.
EvaluateTier(m) ==
  {m.tier}
    \cup (IF m.tier = "Peripheral" /\ m.access >= WorkingAt THEN {"Working"} ELSE {})
    \cup (IF m.tier = "Working" /\ m.access >= CoreAt THEN {"Core"} ELSE {})
    \cup (IF m.tier = "Working" /\ ~m.private THEN {"Peripheral"} ELSE {})
    \cup (IF m.tier = "Core" /\ ~m.private THEN {"Working"} ELSE {})

\* get_memory: count the access on the copy, re-evaluate, write it all back.
GetWrite(p, m) ==
  /\ op[p] = "get" /\ m \in todo[p]
  /\ accesses[m.id] < MaxAccess
  /\ LET counted == [m EXCEPT !.access = @ + 1]
     IN \E t \in EvaluateTier(counted) : ScalarUpdate([counted EXCEPT !.tier = t])
  /\ accesses' = [accesses EXCEPT ![m.id] = @ + 1]
  /\ Done(p)
  /\ UNCHANGED <<pend, used, deleted, gone, torn, overlapped>>

\* What a PUT asks of the columns that are no text: nothing, or a patch.
Requested(m) ==
  {m} \cup {[m EXCEPT !.tier = a.tier, !.active = a.active, !.project = @ \/ a.project] :
              a \in Patches}

\* update_memory without content: tier, state and project_path as asked.
UpdateScalar(p, m) ==
  /\ op[p] = "update" /\ m \in todo[p]
  /\ \E w \in Requested(m) : ScalarUpdate(w)
  /\ Done(p)
  /\ UNCHANGED <<pend, history>>

\* Fault: new content is stored with the embedding of the old one.
UpdateKeepVector(p, m, c) ==
  /\ op[p] = "update" /\ m \in todo[p]
  /\ \E w \in Requested(m) : RewriteDelete(p, [w EXCEPT !.content = c])
  /\ Drop(p, m)
  /\ UNCHANGED <<used, accesses, deleted, gone, torn>>

\* update_memory with content: embed it, then rewrite the row, as asked.
UpdateRewrite(p, m, c) ==
  /\ op[p] = "update" /\ m \in todo[p]
  /\ \E w \in Requested(m) : RewriteDelete(p, [w EXCEPT !.content = c, !.vec = c])
  /\ Drop(p, m)
  /\ UNCHANGED <<used, accesses, deleted, gone, torn>>

\* delete_tier_history_entry reads the embedding in a second query, and with
\* it rewrites the row; if the row is gone by then it tries a scalar write.
HistoryVector(p, m) ==
  /\ op[p] = "history" /\ m \in todo[p]
  /\ \/ \E r \in RowsOf(m.id) : Become(p, "historyVector", {[m EXCEPT !.vec = r.vec]})
     \/ ~Present(m.id) /\ Become(p, "historyNone", {m})
  /\ UNCHANGED <<rows, pend, history>>

HistoryRewrite(p, m) ==
  /\ op[p] = "historyVector" /\ m \in todo[p]
  /\ RewriteDelete(p, m)
  /\ Drop(p, m)
  /\ UNCHANGED <<used, accesses, deleted, gone, torn>>

HistoryScalar(p, m) ==
  /\ op[p] = "historyNone" /\ m \in todo[p]
  /\ ScalarUpdate(m)
  /\ Done(p)
  /\ UNCHANGED <<pend, history>>

\* The second commit of a rewrite.
RewriteInsert(p, m) ==
  /\ m \in pend[p]
  /\ rows' = [rows EXCEPT ![m.id] = Append(@, m)]
  /\ pend' = [pend EXCEPT ![p] = {}]
  /\ IF op[p] = "reembed" THEN UNCHANGED <<op, todo>> ELSE Done(p)
  /\ UNCHANGED history

DeleteWrite(p, m) ==
  /\ op[p] = "delete" /\ m \in todo[p]
  /\ HardDelete({m.id})
  /\ Done(p)
  /\ UNCHANGED <<pend, used, accesses, torn, overlapped>>

\* batch_update_visibility: one whole-row write for each snapshot.
VisibilityWrite(p, m) ==
  /\ op[p] \in {"hide", "publish"} /\ m \in todo[p]
  /\ ScalarUpdate([m EXCEPT !.private = (op[p] = "hide")])
  /\ Drop(p, m)
  /\ UNCHANGED <<pend, history>>

-----------------------------------------------------------------------------
(* Background tasks. *)

\* Re-embedding rewrites each row from the list it took at the start, and
\* embeds the abstract when there is one, also after the content was edited.
ReembedRewrite(p, m) ==
  /\ op[p] = "reembed" /\ m \in todo[p]
  /\ RewriteDelete(p, [m EXCEPT !.vec = IF m.abst # "none" THEN m.abst ELSE m.content])
  /\ Drop(p, m)
  /\ UNCHANGED <<used, accesses, deleted, gone, torn>>

\* handle_supersede: store the new fact, then mark the old row from the copy.
SupersedeCreate(p, m, i, c, a) ==
  /\ op[p] = "supersede" /\ m \in todo[p] /\ ~m.superseded
  /\ i \notin used
  /\ rows' = [rows EXCEPT ![i] = Append(@, NewRow(i, c, a))]
  /\ used' = used \cup {i}
  /\ todo' = [todo EXCEPT ![p] = {[m EXCEPT !.superseded = TRUE]}]
  /\ UNCHANGED <<op, pend, accesses, deleted, gone, torn, overlapped>>

SupersedeMark(p, m) ==
  /\ op[p] = "supersede" /\ m \in todo[p] /\ m.superseded
  /\ ScalarUpdate(m)
  /\ Done(p)
  /\ UNCHANGED <<pend, history>>

TierWrite(p, m) ==
  /\ op[p] = "tiers" /\ m \in todo[p] /\ m.active
  /\ \E t \in EvaluateTier(m) \ {m.tier} : ScalarUpdate([m EXCEPT !.tier = t])
  /\ Drop(p, m)
  /\ UNCHANGED <<pend, history>>

\* cleanup_expired: a text with a TTL keyword that has run out.
Expire(p, m) ==
  /\ op[p] = "expire" /\ m \in todo[p]
  /\ m.content \in Temporary
  /\ HardDelete({m.id})
  /\ Drop(p, m)
  /\ UNCHANGED <<pend, used, accesses, torn, overlapped>>

ArchiveWrite(p, m) ==
  /\ op[p] = "archive" /\ m \in todo[p] /\ m.superseded
  /\ ScalarUpdate([m EXCEPT !.active = FALSE])
  /\ Drop(p, m)
  /\ UNCHANGED <<pend, history>>

Forgettable(m) == m.active /\ ~m.pinned /\ m.access < ProtectAt

\* cleanup_stale: the checks are made on the snapshot.
StaleDelete(p, m) ==
  /\ op[p] = "stale" /\ m \in todo[p]
  /\ Forgettable(m)
  /\ HardDelete({m.id})
  /\ Drop(p, m)
  /\ UNCHANGED <<pend, used, accesses, torn, overlapped>>

\* A sweep passes over a row: not eligible, not old enough, or its write
\* failed and was logged.
SweepSkip(p, m) ==
  /\ op[p] \in SweepOps \cup {"reembed"} /\ m \in todo[p]
  /\ Drop(p, m)
  /\ UNCHANGED <<rows, pend, history>>

\* run_lifecycle_cycle: the next phase lists the table afresh.  A phase also
\* ends early, on a storage error or at max_stale_deletions.
After == [tiers |-> "expire", expire |-> "archive", archive |-> "stale"]

NextPhase(p) ==
  /\ op[p] \in DOMAIN After
  /\ op[p] = "tiers" => todo[p] = {}
  /\ Become(p, After[op[p]], AllRows)
  /\ UNCHANGED <<rows, pend, history>>

StopSweep(p) ==
  /\ op[p] = "stale" /\ todo[p] # {}
  /\ Done(p)
  /\ UNCHANGED <<rows, pend, history>>

-----------------------------------------------------------------------------
(* Failures. *)

\* A request ends without (the rest of) its writes: an embedding or storage
\* error, a failed validation, or the 30 s TimeoutLayer dropping the future.
Abandon(p) ==
  /\ op[p] \in RequestOps \cup {"supersede"}
  /\ torn' = torn \cup IdsOf(pend[p])
  /\ pend' = [pend EXCEPT ![p] = {}]
  /\ Done(p)
  /\ UNCHANGED <<rows, used, accesses, deleted, gone, overlapped>>

\* The re-embedding task logs a failed add and goes on to the next row.
ReembedAddFails(p) ==
  /\ op[p] = "reembed" /\ pend[p] # {}
  /\ torn' = torn \cup IdsOf(pend[p])
  /\ pend' = [pend EXCEPT ![p] = {}]
  /\ UNCHANGED <<rows, op, todo, used, accesses, deleted, gone, overlapped>>

\* The server process dies: everything in flight is lost, the table stays.
Crash ==
  /\ \E p \in Procs : ~Idle(p)
  /\ torn' = torn \cup UNION {IdsOf(pend[p]) : p \in Procs}
  /\ op' = [p \in Procs |-> "idle"]
  /\ todo' = [p \in Procs |-> {}]
  /\ pend' = [p \in Procs |-> {}]
  /\ UNCHANGED <<rows, used, accesses, deleted, gone, overlapped>>

-----------------------------------------------------------------------------

InstantStep(p) ==
  \/ \E i \in Ids, c \in Contents, a \in NewAttrs : Create(p, i, c, a)
  \/ \E S \in SUBSET Ids : Bump(p, S) \/ Purge(p, S)
  \/ Backfill(p)

ReadStep(p) ==
  \/ \E o \in RequestOps \cup TaskOps, m \in AllRows : ReadOne(p, o, m)
  \/ \E o \in {"hide", "publish"}, S \in SUBSET Ids : ReadGiven(p, o, S)
  \/ \E o \in TaskOps \cup SweepOps : ReadAll(p, o)

WriteStep(p, m) ==
  \/ GetWrite(p, m)
  \/ UpdateScalar(p, m)
  \/ \E c \in Contents : UpdateRewrite(p, m, c)
  \/ HistoryVector(p, m)
  \/ HistoryRewrite(p, m)
  \/ HistoryScalar(p, m)
  \/ DeleteWrite(p, m)
  \/ VisibilityWrite(p, m)
  \/ ReembedRewrite(p, m)
  \/ \E i \in Ids, c \in Contents, a \in FactAttrs : SupersedeCreate(p, m, i, c, a)
  \/ SupersedeMark(p, m)
  \/ TierWrite(p, m)
  \/ Expire(p, m)
  \/ ArchiveWrite(p, m)
  \/ StaleDelete(p, m)
  \/ SweepSkip(p, m)

Next ==
  \/ \E p \in Procs :
       \/ InstantStep(p)
       \/ ReadStep(p)
       \/ \E m \in todo[p] : WriteStep(p, m)
       \/ \E m \in pend[p] : RewriteInsert(p, m)
       \/ Finish(p)
       \/ NextPhase(p)
       \/ StopSweep(p)
       \/ Abandon(p)
       \/ ReembedAddFails(p)
  \/ Crash

Spec == Init /\ [][Next]_vars

-----------------------------------------------------------------------------
(* What holds in every interleaving. *)

\* A memory deleted while no rewrite held a snapshot of it never comes back:
\* scalar updates, bumps, visibility changes and sweeps that read it before
\* the delete cannot re-create it (store/lancedb.rs, update).
DeletedStaysDeleted == \A i \in gone : ~Present(i)

\* A stored memory disappears only through a delete of its id, or because
\* the process that was rewriting it was cut off between its two commits.
NothingVanishes ==
  \A i \in used : \/ Present(i)
                  \/ \E p \in Procs : i \in IdsOf(pend[p])
                  \/ i \in deleted \cup torn

\* Two rows share an id only after two rewrites of it overlapped; a single
\* rewriter, however it races with everything else, never duplicates.
DuplicatesNeedOverlap == \A i \in Ids : Len(rows[i]) > 1 => i \in overlapped

\* Racing whole-row writes lose accesses but never invent one: no row shows
\* more accesses than happened, so none earns a tier or protection unduly.
AccessNeverOvercounted ==
  \A i \in Ids : \A k \in DOMAIN rows[i] : rows[i][k].access <= accesses[i]

(* What holds when handlers do not overlap (one process). *)

\* Without overlap no access is lost, and the embedding is of the stored
\* content or of the stored abstract, whatever edits came before.
SerialRowsExact ==
  \A i \in Ids : \A k \in DOMAIN rows[i] :
    /\ rows[i][k].access = accesses[i]
    /\ rows[i][k].vec \in {rows[i][k].content, rows[i][k].abst}

\* The table's safety, whatever handlers interleave and wherever one is cut
\* off (store/lancedb.rs:1719-1790 and the handlers that call it).
RowsSafe ==
  /\ TypeOK
  /\ DeletedStaysDeleted /\ NothingVanishes /\ DuplicatesNeedOverlap
  /\ AccessNeverOvercounted
=============================================================================
