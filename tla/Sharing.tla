------------------------------ MODULE Sharing ------------------------------
(***************************************************************************)
(* Shared copies of memories: api/handlers/sharing.rs over one LanceDB     *)
(* store per user and per shared space.                                    *)
(*                                                                         *)
(* A request reads the source memory, then the copies already in the       *)
(* target, then the source's embedding, then inserts the copy, then        *)
(* records a sharing event.  Every read and every write is a separate      *)
(* await on a separate table, so other requests commit in between, and a   *)
(* request that is dropped (30 s timeout, disconnect, panic) leaves what   *)
(* it has committed.  Whoever writes a memory writes the whole row that it *)
(* read before an await: an edit deletes the row and inserts it with a new *)
(* text, an access, a change of visibility and the lifecycle sweep write   *)
(* the old text back.  `clashed` names the memories that such a write has  *)
(* taken back to an earlier row.                                           *)
(***************************************************************************)
EXTENDS Naturals, FiniteSets

CONSTANTS
  Users,       \* tenants; a user's personal store is named by the user
  Spaces,      \* team and organization spaces; every user is a member of each
  Writers,     \* users that are not Readers of the spaces
  Admins,      \* users that own or administer the spaces
  Ids,         \* memory ids (UUIDs: never reused)
  Procs,       \* requests and spawned tasks in flight at once
  Ops,         \* the requests that an instance lets run
  RuleSources, \* source_space of the auto-share rules of every space
  MaxVersion   \* bound: no edit beyond this version

Stores == Users \cup Spaces

\* Values of the space_id column.  "blank" is the empty string of a memory that
\* was created directly, "tenant" the bare tenant id that pull writes; neither
\* is the key of a store that holds memories.
SpaceIds == Stores \cup {"blank", "tenant"}

ASSUME SharingAssumption ==
  /\ Users # {} /\ Users \cap Spaces = {} /\ Stores \cap {"blank", "tenant"} = {}
  /\ Writers \subseteq Users /\ Admins \subseteq Users
  /\ RuleSources \subseteq Stores
  /\ Ops \subseteq {"share", "pull", "reshare", "unshare", "create", "import",
                   "edit", "touch", "remove", "sweep"}
  /\ MaxVersion \in Nat \ {0}

\* The text that memory `of` had at its version `at`.
Text == [of : Ids, at : 1 .. MaxVersion]

\* Provenance.
Origin == [space : SpaceIds, id : Ids, ver : 1 .. MaxVersion, by : Users]

\* `from` holds the provenance of a copy and nothing for an original, `vec` the
\* text that the stored embedding was computed from (nothing: a zero vector).
Memory ==
  [id : Ids, ver : 1 .. MaxVersion, text : Text, vec : SUBSET Text,
   space : SpaceIds, from : SUBSET Origin]

Phases == {"idle", "check", "source", "vector", "create", "delete", "event",
           "auto", "embed", "add", "touch"}
Kinds  == {"none", "share", "pull", "reshare", "unshare", "auto", "edit", "touch"}

\* What a request has read: the source and the space_id it was looked up under,
\* the copy to replace or delete, the embedding; and the id it has inserted.
Job ==
  [kind : Kinds, by : Users, at : Stores, within : SpaceIds,
   src : SUBSET Memory, old : SUBSET Memory, vec : SUBSET Text, new : SUBSET Ids]

VARIABLES
  table,    \* table[s]: the memories of store s
  pc,       \* pc[p]: what request p does next
  job,      \* job[p]: what request p has read
  events,   \* the sharing_events table
  used,     \* ids ever inserted
  shared,   \* <<space, source>> shared and neither unshared nor swept since
  overlap,  \* <<space, source>> copied by two requests at once, or by a reshare
            \* that stopped between its insert and its delete
  unlogged, \* copies whose request stopped before it recorded its event
  checked,  \* memories whose auto-share task ran to its end
  clashed   \* memories written from a row that was not there any more

vars == <<table, pc, job, events, used, shared, overlap, unlogged, checked, clashed>>

TypeOK ==
  /\ table \in [Stores -> SUBSET Memory]
  /\ pc \in [Procs -> Phases]
  /\ job \in [Procs -> Job]
  /\ events \subseteq [action : Kinds, memory : Ids]
  /\ used \subseteq Ids /\ checked \subseteq Ids /\ unlogged \subseteq Ids
  /\ clashed \subseteq Ids
  /\ shared \subseteq Spaces \X Ids /\ overlap \subseteq Spaces \X Ids

NoJob == [kind |-> "none", by |-> CHOOSE u \in Users : TRUE,
          at |-> CHOOSE s \in Stores : TRUE, within |-> "blank",
          src |-> {}, old |-> {}, vec |-> {}, new |-> {}]

Init ==
  /\ table = [s \in Stores |-> {}]
  /\ pc = [p \in Procs |-> "idle"]
  /\ job = [p \in Procs |-> NoJob]
  /\ events = {} /\ used = {} /\ shared = {} /\ overlap = {}
  /\ unlogged = {} /\ checked = {} /\ clashed = {}

-----------------------------------------------------------------------------
(* Reads. *)

\* The rows of the store that a space_id names; any other name opens an empty one.
RowsIn(space) == IF space \in Stores THEN table[space] ELSE {}

RowsWithId(space, i) == {m \in RowsIn(space) : m.id = i}

\* find_by_provenance_source.
CopiesOf(s, i) == {c \in table[s] : \E o \in c.from : o.id = i}

\* The requests that will insert, or have just inserted, a copy of i in s.
Copying(s, i) ==
  {p \in Procs : /\ job[p].kind \in {"share", "reshare"} /\ job[p].at = s
                 /\ pc[p] \in {"check", "source", "vector", "create", "delete"}
                 /\ \/ \E m \in job[p].src : m.id = i
                    \/ \E m \in job[p].old : \E o \in m.from : o.id = i}

NoteOverlap(s, i) ==
  overlap' = IF s \in Spaces /\ Copying(s, i) # {}
             THEN overlap \cup {<<s, i>>} ELSE overlap

Finish(p) ==
  /\ pc' = [pc EXCEPT ![p] = "idle"]
  /\ job' = [job EXCEPT ![p] = NoJob]

-----------------------------------------------------------------------------
(* Copies. *)

\* Fault: the copy's own version recorded as the source's.
CopyVersionOne(src, i, space, u) ==
  [id |-> i, ver |-> 1, text |-> src.text, vec |-> {}, space |-> space,
   from |-> {[space |-> src.space, id |-> src.id, ver |-> 1, by |-> u]}]

\* make_shared_copy: a new memory at version 1 whose provenance names the
\* source's space_id, id and version.
MakeSharedCopy(src, i, space, u) ==
  [id |-> i, ver |-> 1, text |-> src.text, vec |-> {}, space |-> space,
   from |-> {[space |-> src.space, id |-> src.id, ver |-> src.ver, by |-> u]}]

\* A pull names the space it read instead, and leaves its tenant id as space_id.
PulledCopy(src, i, u, space) ==
  [MakeSharedCopy(src, i, "tenant", u) EXCEPT
     !.from = {[space |-> space, id |-> src.id, ver |-> src.ver, by |-> u]}]

\* The requests of P read the memories f in u's personal store to copy them to s.
StartShares(P, f, u, s) ==
  /\ "share" \in Ops /\ u \in Writers
  /\ pc' = [p \in Procs |-> IF p \in P THEN "check" ELSE pc[p]]
  /\ job' = [p \in Procs |-> IF p \in P
       THEN [NoJob EXCEPT !.kind = "share", !.by = u, !.at = s, !.within = u,
                          !.src = {f[p]}]
       ELSE job[p]]
  /\ overlap' = overlap \cup
       {<<s, f[p].id>> : p \in {r \in P : \/ Copying(s, f[r].id) # {}
                                        \/ \E q \in P \ {r} : f[q].id = f[r].id}}
  /\ UNCHANGED <<table, events, used, shared, unlogged, checked, clashed>>

IdleProcs == {p \in Procs : pc[p] = "idle"}

\* One memory: the request itself.
ShareStart(p, u, s) ==
  /\ pc[p] = "idle"
  /\ \E m \in table[u] : StartShares({p}, [q \in {p} |-> m], u, s)

\* A list of ids, copied up to ten at a time; the list may repeat an id.
BatchShare(u, s) ==
  \E P \in SUBSET IdleProcs : \E f \in [P -> table[u]] :
    Cardinality(P) > 1 /\ StartShares(P, f, u, s)

\* Share-all, share-all-to-user and publish: the memories without a copy so far.
ShareAll(u, s) ==
  \E P \in SUBSET IdleProcs \ {{}} :
    \E f \in [P -> {m \in table[u] : CopiesOf(s, m.id) = {}}] :
      /\ \A p, q \in P : f[p] = f[q] => p = q
      /\ StartShares(P, f, u, s)

\* Fault: share without looking for an existing copy.
ShareCheckSkipped(p) ==
  /\ pc[p] = "check"
  /\ pc' = [pc EXCEPT ![p] = "vector"]
  /\ UNCHANGED <<table, job, events, used, shared, overlap, unlogged, checked, clashed>>

\* An existing copy is returned as it is; otherwise the request goes on.
ShareCheck(p) ==
  /\ pc[p] = "check"
  /\ \E m \in job[p].src :
       IF CopiesOf(job[p].at, m.id) # {}
       THEN Finish(p)
       ELSE pc' = [pc EXCEPT ![p] = "vector"] /\ UNCHANGED job
  /\ UNCHANGED <<table, events, used, shared, overlap, unlogged, checked, clashed>>

\* Pull: no look for a copy that the personal store already has.
PullStart(p, u, s) ==
  /\ "pull" \in Ops /\ pc[p] = "idle"
  /\ \E m \in table[s] :
       /\ pc' = [pc EXCEPT ![p] = "vector"]
       /\ job' = [job EXCEPT ![p] = [NoJob EXCEPT
                    !.kind = "pull", !.by = u, !.at = u, !.within = s,
                    !.src = {m}]]
  /\ UNCHANGED <<table, events, used, shared, overlap, unlogged, checked, clashed>>

\* Reshare: find the copy in the personal store or in some space ...
ReshareStart(p, u, s) ==
  /\ "reshare" \in Ops /\ pc[p] = "idle" /\ s \in {u} \cup Spaces
  /\ \E c \in table[s] : \E o \in c.from :
       /\ pc' = [pc EXCEPT ![p] = "source"]
       /\ job' = [job EXCEPT ![p] = [NoJob EXCEPT
                    !.kind = "reshare", !.by = u, !.at = s, !.within = o.space,
                    !.old = {c}]]
       /\ NoteOverlap(s, o.id)
  /\ UNCHANGED <<table, events, used, shared, unlogged, checked, clashed>>

\* Fault: the old copy is deleted before its source is known to exist.
ReshareSourceAfterDelete(p) ==
  /\ pc[p] = "source"
  /\ table' = [table EXCEPT ![job[p].at] = @ \ job[p].old]
  /\ LET rows == UNION {RowsWithId(o.space, o.id) :
                          o \in UNION {c.from : c \in job[p].old}}
     IN IF rows = {}
        THEN Finish(p)
        ELSE \E m \in rows : /\ pc' = [pc EXCEPT ![p] = "vector"]
                             /\ job' = [job EXCEPT ![p].src = {m}]
  /\ UNCHANGED <<events, used, shared, overlap, unlogged, checked, clashed>>

\* ... and read the source in the store that its provenance names.
ReshareSource(p) ==
  /\ pc[p] = "source"
  /\ LET rows == UNION {RowsWithId(o.space, o.id) :
                          o \in UNION {c.from : c \in job[p].old}}
     IN IF rows = {}
        THEN Finish(p)
        ELSE \E m \in rows : /\ pc' = [pc EXCEPT ![p] = "vector"]
                             /\ job' = [job EXCEPT ![p].src = {m}]
  /\ UNCHANGED <<table, events, used, shared, overlap, unlogged, checked, clashed>>

\* Fault: a reshare keeps the embedding of the copy it replaces.
ReadOldVector(p) ==
  /\ pc[p] = "vector"
  /\ pc' = [pc EXCEPT ![p] = "create"]
  /\ job' = [job EXCEPT ![p].vec =
       IF job[p].kind = "reshare" THEN UNION {c.vec : c \in job[p].old}
       ELSE UNION {m.vec : m \in job[p].src}]
  /\ UNCHANGED <<table, events, used, shared, overlap, unlogged, checked, clashed>>

\* get_vector_by_id: of whatever row the source's store has by now.
ReadVector(p) ==
  /\ pc[p] = "vector"
  /\ \E m \in job[p].src :
       job' = [job EXCEPT ![p].vec =
                 UNION {r.vec : r \in RowsWithId(job[p].within, m.id)}]
  /\ pc' = [pc EXCEPT ![p] = "create"]
  /\ UNCHANGED <<table, events, used, shared, overlap, unlogged, checked, clashed>>

\* Fault: a reshare records the copy's own version as the source's.
NewCopyVersionOne(j, src, i) ==
  LET space == CASE j.kind = "reshare" -> (CHOOSE c \in j.old : TRUE).space
                 [] j.kind = "pull" -> "tenant"
                 [] OTHER -> j.at
      copy == MakeSharedCopy(src, i, space, j.by)
  IN IF j.kind = "reshare"
     THEN [copy EXCEPT !.from = {[o EXCEPT !.ver = 1] : o \in copy.from}, !.vec = j.vec]
     ELSE [copy EXCEPT !.vec = j.vec]

NewCopy(j, src, i) ==
  LET copy == CASE j.kind = "pull"  -> PulledCopy(src, i, j.by, j.within)
                [] j.kind = "share" -> MakeSharedCopy(src, i, j.at, j.by)
                [] OTHER -> MakeSharedCopy(src, i,
                              (CHOOSE c \in j.old : TRUE).space, j.by)
  IN [copy EXCEPT !.vec = j.vec]

\* Insert the copy; a reshare goes on to delete the old one.
CreateCopy(p) ==
  /\ pc[p] = "create"
  /\ \E m \in job[p].src, i \in Ids \ used :
       /\ table' = [table EXCEPT ![job[p].at] = @ \cup {NewCopy(job[p], m, i)}]
       /\ used' = used \cup {i}
       /\ job' = [job EXCEPT ![p].new = {i}]
       /\ shared' = IF job[p].at \in Spaces
                    THEN shared \cup {<<job[p].at, m.id>>} ELSE shared
  /\ pc' = [pc EXCEPT ![p] = IF job[p].kind = "reshare" THEN "delete" ELSE "event"]
  /\ UNCHANGED <<events, overlap, unlogged, checked, clashed>>

\* Unshare: pick the first copy; only its sharer or an admin may delete it.
UnshareStart(p, u, s) ==
  /\ "unshare" \in Ops /\ pc[p] = "idle" /\ u \in Writers
  /\ \E c \in table[s] :
       /\ \E o \in c.from : o.by = u \/ u \in Admins
       /\ pc' = [pc EXCEPT ![p] = "delete"]
       /\ job' = [job EXCEPT ![p] = [NoJob EXCEPT
                    !.kind = "unshare", !.by = u, !.at = s, !.old = {c},
                    !.new = {o.id : o \in c.from}]]
  /\ UNCHANGED <<table, events, used, shared, overlap, unlogged, checked, clashed>>

OldIds(p) == {c.id : c \in job[p].old}

\* hard_delete of the copy that was read; no effect if it is gone.
DeleteCopy(p) ==
  /\ pc[p] = "delete"
  /\ table' = [table EXCEPT ![job[p].at] = {m \in @ : m.id \notin OldIds(p)}]
  /\ shared' = IF job[p].kind = "unshare"
               THEN shared \ {<<job[p].at, i>> : i \in job[p].new} ELSE shared
  /\ pc' = [pc EXCEPT ![p] = "event"]
  /\ UNCHANGED <<job, events, used, overlap, unlogged, checked, clashed>>

\* Fault: the event of a reshare names the copy that was replaced.
RecordOldEvent(p) ==
  /\ pc[p] = "event"
  /\ events' = events \cup
       {[action |-> job[p].kind, memory |-> i] :
          i \in IF job[p].kind = "reshare" THEN OldIds(p) ELSE job[p].new}
  /\ Finish(p)
  /\ UNCHANGED <<table, used, shared, overlap, unlogged, checked, clashed>>

\* record_sharing_event, then the answer.
RecordEvent(p) ==
  /\ pc[p] = "event"
  /\ events' = events \cup
       {[action |-> job[p].kind, memory |-> i] : i \in job[p].new}
  /\ Finish(p)
  /\ UNCHANGED <<table, used, shared, overlap, unlogged, checked, clashed>>

-----------------------------------------------------------------------------
(* The source's side. *)

Original(i, space) ==
  [id |-> i, ver |-> 1, text |-> [of |-> i, at |-> 1],
   vec |-> {[of |-> i, at |-> 1]}, space |-> space, from |-> {}]

\* POST /v1/memories: space_id stays blank; an auto-share task is spawned.
CreateMemory(p, u) ==
  /\ "create" \in Ops /\ pc[p] = "idle"
  /\ \E i \in Ids \ used :
       LET m == Original(i, "blank")
       IN /\ table' = [table EXCEPT ![u] = @ \cup {m}]
          /\ used' = used \cup {i}
          /\ job' = [job EXCEPT ![p] = [NoJob EXCEPT
                       !.kind = "auto", !.by = u, !.at = u, !.src = {m}]]
  /\ pc' = [pc EXCEPT ![p] = "auto"]
  /\ UNCHANGED <<events, shared, overlap, unlogged, checked, clashed>>

\* A JSON import sets space_id; nothing checks its auto-share rules.
ImportMemory(u) ==
  /\ "import" \in Ops
  /\ \E i \in Ids \ used :
       /\ table' = [table EXCEPT ![u] = @ \cup {Original(i, u)}]
       /\ used' = used \cup {i}
  /\ UNCHANGED <<pc, job, events, shared, overlap, unlogged, checked, clashed>>

\* check_auto_share: the spaces with a rule whose source_space is the memory's
\* space_id get a copy.  (The inserts are taken together: see README.)
AutoShareTargets(m) == {s \in Spaces : m.space \in RuleSources}

AutoShare(p) ==
  /\ pc[p] = "auto"
  /\ \E m \in job[p].src : \E f \in [AutoShareTargets(m) -> Ids \ used] :
       /\ \A s, t \in AutoShareTargets(m) : f[s] = f[t] => s = t
       /\ table' = [s \in Stores |->
            IF s \in AutoShareTargets(m)
            THEN table[s] \cup {[MakeSharedCopy(m, f[s], s, job[p].by)
                                   EXCEPT !.vec = m.vec]}
            ELSE table[s]]
       /\ used' = used \cup {f[s] : s \in AutoShareTargets(m)}
       /\ events' = events \cup {[action |-> "share", memory |-> f[s]] :
                                   s \in AutoShareTargets(m)}
       /\ shared' = shared \cup {<<s, m.id>> : s \in AutoShareTargets(m)}
       /\ checked' = checked \cup {m.id}
  /\ Finish(p)
  /\ UNCHANGED <<overlap, unlogged, clashed>>

\* A row is read, to be written back whole.
ReadToWrite(p, k, c, s) ==
  /\ pc[p] = "idle"
  /\ \E m \in table[s] :
       /\ m.ver < MaxVersion
       /\ job' = [job EXCEPT ![p] = [NoJob EXCEPT !.kind = k, !.at = s, !.src = {m}]]
  /\ pc' = [pc EXCEPT ![p] = c]
  /\ UNCHANGED <<table, events, used, shared, overlap, unlogged, checked, clashed>>

\* PUT with new content reads the row and waits for the embedding of its text ...
EditRead(p, u) == "edit" \in Ops /\ ReadToWrite(p, "edit", "embed", u)

\* A GET that counts the access, a PUT without content and a change of visibility
\* do in the personal store, a tier or an archived state of the sweep in any.
TouchRead(p, s) == "touch" \in Ops /\ ReadToWrite(p, "touch", "touch", s)

\* The next version of the memory that was read, with a new text.
Edited(m) ==
  LET text == [of |-> m.id, at |-> m.ver + 1]
  IN [m EXCEPT !.ver = @ + 1, !.text = text, !.vec = {text}]

\* ... deletes whatever row it has by now ...
EditDelete(p) ==
  /\ pc[p] = "embed"
  /\ \E m \in job[p].src :
       table' = [table EXCEPT ![job[p].at] = {r \in @ : r.id # m.id}]
  /\ clashed' = clashed \cup {m.id : m \in job[p].src \ table[job[p].at]}
  /\ pc' = [pc EXCEPT ![p] = "add"]
  /\ UNCHANGED <<job, events, used, shared, overlap, unlogged, checked>>

\* ... and inserts the next version of the one that it read.
EditAdd(p) ==
  /\ pc[p] = "add"
  /\ \E m \in job[p].src :
       table' = [table EXCEPT ![job[p].at] = @ \cup {Edited(m)}]
  /\ Finish(p)
  /\ UNCHANGED <<events, used, shared, overlap, unlogged, checked, clashed>>

\* Fault: a write-back that keeps the version.
TouchedSilently(m, r) == [m EXCEPT !.vec = r.vec]

\* Every column of m is written over row r but the embedding.
Touched(m, r) == [m EXCEPT !.ver = @ + 1, !.vec = r.vec]

\* A write-back: no effect if the row is gone.
WriteBack(p) ==
  /\ pc[p] = "touch"
  /\ \E m \in job[p].src :
       /\ table' = [table EXCEPT ![job[p].at] =
                      {IF r.id = m.id THEN Touched(m, r) ELSE r : r \in @}]
       /\ clashed' = clashed \cup {r.id : r \in RowsWithId(job[p].at, m.id) \ {m}}
  /\ Finish(p)
  /\ UNCHANGED <<events, used, shared, overlap, unlogged, checked>>

DeleteMemory(u) ==
  /\ "remove" \in Ops
  /\ \E m \in table[u] : table' = [table EXCEPT ![u] = {r \in @ : r.id # m.id}]
  /\ UNCHANGED <<pc, job, events, used, shared, overlap, unlogged, checked, clashed>>

\* A request made i and is still under way: seconds old, where the sweep deletes
\* what is days old.
Fresh(i) == \E p \in Procs : job[p].kind # "unshare" /\ i \in job[p].new

\* The lifecycle sweep deletes a stale or expired memory of any store, copies of
\* the spaces included.
Forget(s) ==
  /\ "sweep" \in Ops
  /\ \E m \in table[s] :
       /\ ~Fresh(m.id)
       /\ table' = [table EXCEPT ![s] = {r \in @ : r.id # m.id}]
       /\ shared' = shared \ {<<s, o.id>> : o \in m.from}
  /\ UNCHANGED <<pc, job, events, used, overlap, unlogged, checked, clashed>>

\* A request or task is dropped at an await: what it committed stays.
Drop(p) ==
  /\ pc[p] # "idle"
  /\ overlap' = IF pc[p] = "delete" /\ job[p].kind = "reshare" /\ job[p].at \in Spaces
                THEN overlap \cup {<<job[p].at, m.id>> : m \in job[p].src}
                ELSE overlap
  /\ unlogged' = IF job[p].kind = "unshare" THEN unlogged
                 ELSE unlogged \cup job[p].new
  /\ Finish(p)
  /\ UNCHANGED <<table, events, used, shared, checked, clashed>>

Step(p) ==
  \/ ShareCheck(p) \/ ReshareSource(p) \/ ReadVector(p) \/ CreateCopy(p)
  \/ DeleteCopy(p) \/ RecordEvent(p) \/ AutoShare(p)
  \/ EditDelete(p) \/ EditAdd(p) \/ WriteBack(p)

Start(p, u) ==
  \/ \E s \in Spaces : \/ ShareStart(p, u, s) \/ PullStart(p, u, s)
                       \/ UnshareStart(p, u, s)
  \/ \E s \in Stores : ReshareStart(p, u, s) \/ TouchRead(p, s)
  \/ CreateMemory(p, u) \/ EditRead(p, u)

Next ==
  \/ \E p \in Procs : Step(p) \/ Drop(p)
  \/ \E p \in Procs, u \in Users : Start(p, u)
  \/ \E u \in Users, s \in Spaces : BatchShare(u, s) \/ ShareAll(u, s)
  \/ \E u \in Users : ImportMemory(u) \/ DeleteMemory(u)
  \/ \E s \in Stores : Forget(s)

Spec == Init /\ [][Next]_vars

-----------------------------------------------------------------------------
(* Properties. *)

\* check_stale_for_memory: the source's version has moved on, or the source is
\* not where the provenance says.
IsStaleReversed(c, o) ==
  ~\E m \in RowsWithId(o.space, o.id) : o.ver <= m.ver
IsStale(c, o) ==
  ~\E m \in RowsWithId(o.space, o.id) : o.ver >= m.ver

\* A memory that was shared into a space, and whose copies were neither unshared
\* nor swept since, is always to be found there, whatever reshares and write-backs
\* are under way or were dropped half-way.
SharedStaysAvailable ==
  \A t \in shared : CopiesOf(t[1], t[2]) # {}

\* A space holds one copy of a memory unless two requests copied it at once or a
\* reshare stopped between its insert and its delete.
OneCopyUnlessOverlap ==
  \A s \in Spaces, i \in Ids : <<s, i>> \notin overlap =>
    Cardinality({c \in CopiesOf(s, i) :
       ~\E p \in Procs : pc[p] = "delete" /\ c.id \in job[p].new}) <= 1

\* The embedding read after the source may be missing or newer than the text it
\* is stored with, never older: search cannot match a memory by a text that its source had
\* before the one it shows, unless two writes of that source clashed.
EmbeddingNotOlder ==
  \A s \in Stores : \A c \in table[s] : \A v \in c.vec :
    v.of = c.text.of /\ v.of \notin clashed => v.at >= c.text.at

\* A reshare never replaces a copy by one of an earlier version of the source, as
\* long as no two writes of the source clashed.
ReshareNeverGoesBack ==
  \A p \in Procs : pc[p] = "delete" /\ job[p].kind = "reshare" =>
    \A c \in table[job[p].at], b \in job[p].old : c.id \in job[p].new =>
      \A o \in c.from, o2 \in b.from : o.id \notin clashed => o.ver >= o2.ver

\* A copy that nobody has edited and check_stale does not flag shows its source's
\* present text, as long as no two writes of the source clashed.
FreshMeansCurrent ==
  \A s \in Stores : \A c \in table[s] : \A o \in c.from :
    c.text.of # c.id /\ o.id \notin clashed /\ ~IsStale(c, o) =>
      \E m \in RowsWithId(o.space, o.id) : m.text = c.text

\* With one request at a time a memory is stored with the embedding of its own
\* text, or with none if its source was deleted before the embedding was read.
SerialEmbeddingExact ==
  \A s \in Stores : \A c \in table[s] : c.vec \subseteq {c.text}

\* With one request at a time, the copy that a reshare has just made is at the
\* version its source has, wherever the source still is (README: "Re-share stale
\* copies").
ReshareRefreshes ==
  \A p \in Procs : pc[p] = "event" /\ job[p].kind = "reshare" =>
    \A c \in table[job[p].at] : c.id \in job[p].new =>
      \A o \in c.from : \A m \in RowsWithId(job[p].within, o.id) : o.ver = m.ver

\* Every copy has its event in the log, unless the request that made it has
\* yet to record it or was dropped first.
CopiesAudited ==
  \A s \in Stores : \A c \in table[s] : c.from # {} =>
    \/ \E e \in events : e.action # "unshare" /\ e.memory = c.id
    \/ c.id \in unlogged
    \/ \E p \in Procs : c.id \in job[p].new

\* docs/API.md:1156: a memory created directly is shared by the rules that match
\* it; here, once its auto-share task has run to the end.
AutoShareDelivers ==
  Users \subseteq RuleSources => checked \X Spaces \subseteq shared

\* What holds of the copies, whatever requests race or are dropped half-way
\* (api/handlers/sharing.rs:237-860).
CopiesSafe ==
  /\ TypeOK
  /\ SharedStaysAvailable /\ OneCopyUnlessOverlap
  /\ EmbeddingNotOlder /\ ReshareNeverGoesBack /\ FreshMeansCurrent /\ CopiesAudited

\* And what holds besides when one request is served at a time.
SerialCopiesExact == SerialEmbeddingExact /\ ReshareRefreshes
=============================================================================
