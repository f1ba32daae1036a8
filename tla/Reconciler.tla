----------------------------- MODULE Reconciler -----------------------------
(***************************************************************************)
(* The reconciler (ingest/reconciler.rs): what a background task does with *)
(* the facts the LLM extracted from a conversation or an imported file.    *)
(* A batch of facts is compared with a snapshot of the memories that a few *)
(* searches returned, in stages that each use up some of the facts: exact  *)
(* match, merge within the session, decisions of the LLM.                  *)
(*                                                                         *)
(* Batches of different conversations run at the same time, and users      *)
(* create and delete memories meanwhile.  The commits on the table are     *)
(* those of MemoryTable: `update` with a vector is a delete and an add,    *)
(* without one it overwrites whatever row has the id.                      *)
(*                                                                         *)
(* A text is what it tells: `abst` is the set of facts that a memory's     *)
(* abstract tells ({}: the empty abstract of a memory created directly),   *)
(* `content` the set of conversations that its content quotes verbatim.    *)
(***************************************************************************)
EXTENDS Naturals, Sequences, Functions

CONSTANTS
  Ids,         \* memory ids (UUIDs: never reused)
  Facts,       \* distinct one-line abstracts the extraction can produce
  Texts,       \* conversations, chunks and sections
  Sessions,
  Procs,       \* tasks that may run a batch
  Source,      \* Source[f]: the text that f was extracted from (source_text)
  Weight,      \* Weight[f]: category_importance of f
  NoteWeight,  \* the importance of a memory created directly
  Kin,         \* pairs of facts with Jaccard similarity above 0.6
  Near,        \* pairs of facts with Jaccard similarity above 0.5
  Plain,       \* texts without "## " headings
  Projects,    \* facts of category "project"
  Requests,    \* the batches that may be submitted
  MaxRequests  \* bound: requests (batches, creations, deletions)

Batch == [facts : Seq(Facts), session : Sessions \cup {"none"}]

ASSUME ReconcilerAssumption ==
  /\ Source \in [Facts -> Texts]
  /\ Weight \in [Facts -> Nat] /\ NoteWeight \in Nat
  /\ Kin \subseteq Near /\ Near \subseteq Facts \X Facts
  /\ Plain \subseteq Texts /\ Projects \subseteq Facts
  /\ Requests \subseteq Batch /\ \A r \in Requests : r.facts # <<>>
  /\ "none" \notin Ids \cup Sessions \cup Facts
  /\ MaxRequests \in Nat

\* `heir` is superseded_by, set together with invalidated_at.
Row == [id : Ids, content : SUBSET Texts, abst : SUBSET Facts, weight : Nat,
        pinned : BOOLEAN, session : Sessions \cup {"none"}, heir : Ids \cup {"none"}]

Stages == {"idle", "gather", "match", "create", "merge", "decide"}

\* What is left to do of a decision that has begun.
Rests == {"none", "merge", "supersede", "support", "contradict",
          "mark", "relate", "evidence"}

\* `due` counts the decisions to come; `held` is the row a decision has
\* read, `own` the one it has created, `pend` the one deleted and not re-added.
Job == [facts : Seq(Facts), left : Seq(Facts), snap : SUBSET Row,
        session : Sessions \cup {"none"}, due : Nat, rest : Rests,
        fact : Facts \cup {"none"}, held : SUBSET Row, own : SUBSET Row,
        pend : SUBSET Row]

VARIABLES
  rows,       \* the table
  stage,      \* stage[p]: where p's batch is
  job,        \* job[p]: what p holds
  used,       \* ids ever inserted
  requests,   \* requests so far
  removed,    \* ids deleted, or lost by a rewrite that failed half way
  retired,    \* ids that a SUPERSEDE has marked
  contended   \* ids marked while another batch was running

vars == <<rows, stage, job, used, requests, removed, retired, contended>>

TypeOK ==
  /\ rows \subseteq Row
  /\ stage \in [Procs -> Stages]
  /\ job \in [Procs -> Job]
  /\ used \subseteq Ids /\ removed \subseteq Ids
  /\ retired \subseteq Ids /\ contended \subseteq Ids
  /\ requests \in 0 .. MaxRequests

NoJob == [facts |-> <<>>, left |-> <<>>, snap |-> {}, session |-> "none",
          due |-> 0, rest |-> "none", fact |-> "none", held |-> {}, own |-> {},
          pend |-> {}]

Init ==
  /\ rows = {}
  /\ stage = [p \in Procs |-> "idle"]
  /\ job = [p \in Procs |-> NoJob]
  /\ used = {} /\ requests = 0
  /\ removed = {} /\ retired = {} /\ contended = {}

-----------------------------------------------------------------------------
(* The table. *)

IdsOf(S)   == {m.id : m \in S}
RowsBut(S) == {m \in rows : m.id \notin S}

\* update() without a vector.
Overwrite(m) == rows' = {IF r.id = m.id THEN m ELSE r : r \in rows}

\* update() with a vector, first commit; j is p's job apart from the row.
Rewrite(p, m) ==
  /\ rows' = RowsBut({m.id})
  /\ job' = [job EXCEPT ![p].pend = {m}]

\* create_fact_memory; a failing embedding writes nothing.
FactMemory(p, i, f) ==
  [id |-> i, content |-> {Source[f]}, abst |-> {f}, weight |-> Weight[f],
   pinned |-> FALSE, session |-> job[p].session, heir |-> "none"]

Store(m) ==
  /\ m.id \notin used
  /\ rows' = rows \cup {m}
  /\ used' = used \cup {m.id}

At(p, s) == stage[p] = s /\ job[p].pend = {}

\* The facts of the current stage, one after the other.
Current(p) == Head(job[p].facts)
Working(p, s) == At(p, s) /\ job[p].facts # <<>>

Stop(p) ==
  /\ stage' = [stage EXCEPT ![p] = "idle"]
  /\ job' = [job EXCEPT ![p] = NoJob]

history == <<used, requests, removed, retired, contended>>

-----------------------------------------------------------------------------
(* The snapshot. *)

Submit(p, r) ==
  /\ stage[p] = "idle" /\ requests < MaxRequests
  /\ requests' = requests + 1
  /\ stage' = [stage EXCEPT ![p] = "gather"]
  /\ job' = [job EXCEPT ![p] = [NoJob EXCEPT
       !.facts = r.facts, !.session = r.session]]
  /\ UNCHANGED <<rows, used, removed, retired, contended>>

\* gather_existing searches for the session and, for each fact, by vector and by
\* words.  A search has limits and may fail: it finds some new ids, or nothing
\* new.  If all fail the batch does too (Fail).
Search(p, S) ==
  /\ stage[p] = "gather" /\ S # {}
  /\ S \cap {m \in rows : m.id \in IdsOf(job[p].snap)} = {}
  /\ \A a, b \in S : a.id = b.id => a = b
  /\ job' = [job EXCEPT ![p].snap = @ \cup S]
  /\ UNCHANGED <<rows, stage, history>>

\* batch_self_dedup: the LLM names the facts to keep, by index and in any
\* order; without a usable index all are kept.  One fact is not asked about.
Selections(s) == {s} \cup UNION {[1 .. n -> Range(s)] : n \in 1 .. Len(s)}

SelfDedup(p, kept) ==
  /\ stage[p] = "gather"
  /\ stage' = [stage EXCEPT ![p] = "match"]
  /\ job' = [job EXCEPT ![p].facts = kept]
  /\ UNCHANGED <<rows, history>>

-----------------------------------------------------------------------------
(* exact_match_dedup. *)

\* What in the snapshot counts as a duplicate of f: the same source text, else
\* an abstract of which one contains the other, else a similar one.  Of several,
\* the order of a hash map decides.  The empty abstract is contained in any.
\* Whether wording by the LLM still contains f is not known.
SameText(p, f)  == {m \in job[p].snap : m.content = {Source[f]}}
Contained(p, f) == {m \in job[p].snap : m.abst \in {{}, {f}}}
Similar(p, f)   == {m \in job[p].snap : \E g \in Facts : m.abst = {g} /\ <<f, g>> \in Kin}
Reworded(p, f)  == {m \in job[p].snap : f \in m.abst /\ m.abst # {f}}

\* Fault: similarity is computed but its threshold is not tested.
DuplicatesOfAny(p, f) == job[p].snap

\* Fault: the abstract is searched only in the fact's, not the fact's in it.
DuplicatesOneWay(p, f) ==
  IF SameText(p, f) # {} THEN SameText(p, f)
  ELSE {m \in Contained(p, f) : m.abst = {}} \cup Similar(p, f)

Duplicates(p, f) ==
  IF SameText(p, f) # {} THEN SameText(p, f)
  ELSE IF Contained(p, f) # {} THEN Contained(p, f)
  ELSE Similar(p, f)

Candidates(p, f) ==
  LET sure == Duplicates(p, f) IN IF sure # {} THEN sure ELSE Reworded(p, f)

\* The memory found is at least as important: the fact is dropped.
MatchSkip(p) ==
  /\ Working(p, "match")
  /\ \E m \in Candidates(p, Current(p)) : m.weight >= Weight[Current(p)]
  /\ job' = [job EXCEPT ![p].facts = Tail(@)]
  /\ UNCHANGED <<rows, stage, history>>

\* Otherwise the fact takes the memory's place, pinned or not.
MatchUpgrade(p) ==
  /\ Working(p, "match")
  /\ LET f == Current(p) IN
     \E m \in Candidates(p, f) :
       /\ m.weight < Weight[f]
       /\ Rewrite(p, [m EXCEPT !.content = {Source[f]}, !.abst = {f}, !.weight = Weight[f]])
  /\ UNCHANGED <<stage, history>>

Pass(p) == job' = [job EXCEPT ![p].facts = Tail(@), ![p].left = Append(@, Current(p))]

MatchPass(p) ==
  /\ Working(p, "match")
  /\ Duplicates(p, Current(p)) = {}
  /\ Pass(p)
  /\ UNCHANGED <<rows, stage, history>>

-----------------------------------------------------------------------------
(* create_all_facts and fast_session_merge. *)

CreateNext(p, i) ==
  /\ Working(p, "create")
  /\ Store(FactMemory(p, i, Current(p)))
  /\ job' = [job EXCEPT ![p].facts = Tail(@)]
  /\ UNCHANGED <<stage, requests, removed, retired, contended>>

SessionMatches(p, f) ==
  {m \in job[p].snap : /\ m.session = job[p].session
                       /\ \E g \in m.abst : g = f \/ <<f, g>> \in Near}

\* paragraph_diff_merge: paragraphs under a new heading are added; of texts
\* without headings the first one stays.
MergedContent(content, t) ==
  IF t \in Plain /\ (content = {} \/ content \cap Plain # {})
  THEN content ELSE content \cup {t}

SessionMerge(p) ==
  /\ Working(p, "merge")
  /\ LET f == Current(p) IN
     \E m \in SessionMatches(p, f) :
       /\ ~m.pinned
       /\ Rewrite(p, [m EXCEPT !.content = MergedContent(@, Source[f]),
                               !.abst = {f}, !.weight = Weight[f]])
  /\ UNCHANGED <<stage, history>>

SessionPass(p) ==
  /\ Working(p, "merge")
  /\ LET found == SessionMatches(p, Current(p)) IN
       (\E m \in found : m.pinned) \/ (\A m \in found, g \in Facts : m.abst # {g})
  /\ Pass(p)
  /\ UNCHANGED <<rows, stage, history>>

\* A stage has met all its facts; those it passed on go to the next.
NextStage(p) ==
  IF stage[p] = "match" /\ job[p].snap = {} THEN "create"
  ELSE IF stage[p] = "match" /\ job[p].session # "none" THEN "merge"
  ELSE "decide"

Advance(p) ==
  /\ stage[p] \in {"match", "merge"} /\ job[p].pend = {}
  /\ job[p].facts = <<>> /\ job[p].left # <<>>
  /\ stage' = [stage EXCEPT ![p] = NextStage(p)]
  /\ job' = [job EXCEPT ![p].facts = job[p].left, ![p].left = <<>>,
                        ![p].due = Len(job[p].left)]
  /\ UNCHANGED <<rows, history>>

-----------------------------------------------------------------------------
(* The LLM's decisions, carried out in the order it gives them.  It should   *)
(* give one for each fact; it may leave facts out or repeat them.  SKIP has  *)
(* no effect, and is like a decision not given.                              *)

\* Fault: the loop goes on after the last decision.
DecidingForever(p) == At(p, "decide") /\ job[p].rest = "none"

Deciding(p) == At(p, "decide") /\ job[p].rest = "none" /\ job[p].due > 0

Resting(p, r) == At(p, "decide") /\ job[p].rest = r

DecideCreate(p, i, f) ==
  /\ Deciding(p)
  /\ Store(FactMemory(p, i, f))
  /\ job' = [job EXCEPT ![p].due = @ - 1]
  /\ UNCHANGED <<stage, requests, removed, retired, contended>>

\* Fault: the memory is taken from the snapshot.
DecideOnSnapshot(p, f, o) ==
  /\ Deciding(p)
  /\ \E m \in job[p].snap :
       job' = [job EXCEPT ![p].rest = o, ![p].fact = f, ![p].held = {m}, ![p].due = @ - 1]
  /\ UNCHANGED <<rows, stage, history>>

\* MERGE, SUPERSEDE, SUPPORT, CONTRADICT start with get_by_id of a memory of
\* the snapshot; not finding it is an error (Fail).
DecideOn(p, f, o) ==
  /\ Deciding(p)
  /\ \E m \in {n \in rows : n.id \in IdsOf(job[p].snap)} :
       job' = [job EXCEPT ![p].rest = o, ![p].fact = f, ![p].held = {m}, ![p].due = @ - 1]
  /\ UNCHANGED <<rows, stage, history>>

\* CONTEXTUALIZE: create, then rewrite the new memory with its relation.
DecideContext(p, i, f) ==
  /\ Deciding(p)
  /\ LET m == FactMemory(p, i, f) IN
       /\ Store(m)
       /\ job' = [job EXCEPT ![p].rest = "relate", ![p].fact = f, ![p].own = {m},
                             ![p].due = @ - 1]
  /\ UNCHANGED <<stage, requests, removed, retired, contended>>

Held(p) == CHOOSE m \in job[p].held : TRUE
Own(p)  == CHOOSE m \in job[p].own : TRUE

Settled(p) == [job EXCEPT ![p].rest = "none", ![p].fact = "none", ![p].held = {}, ![p].own = {}]

\* Fault: any memory may be replaced.
AnyMayBeReplaced(m) == TRUE

MayBeReplaced(m) == ~m.pinned

\* The LLM's merged text, written from the abstracts it was shown, or, if it
\* gave none, the fact's own.
MergedTexts(p) ==
  {{job[p].fact} \cup UNION {m.abst : m \in {n \in job[p].snap : n.id = Held(p).id}},
   {job[p].fact}}

Merge(p) ==
  /\ Resting(p, "merge") /\ MayBeReplaced(Held(p))
  /\ \E a \in MergedTexts(p) : Rewrite(p, [Held(p) EXCEPT !.content = {}, !.abst = a])
  /\ UNCHANGED <<stage, history>>

\* MERGE or SUPERSEDE of a pinned memory is downgraded to CREATE.
Downgrade(p, i) ==
  /\ Resting(p, "merge") \/ Resting(p, "supersede")
  /\ ~MayBeReplaced(Held(p))
  /\ Store(FactMemory(p, i, job[p].fact))
  /\ job' = Settled(p)
  /\ UNCHANGED <<stage, requests, removed, retired, contended>>

\* Fault: the error of create is ignored.
CreateIgnored(p, i, next) ==
  /\ i \notin used
  /\ used' = used \cup {i}
  /\ job' = [job EXCEPT ![p].rest = next, ![p].own = {FactMemory(p, i, job[p].fact)}]
  /\ UNCHANGED <<rows, stage, requests, removed, retired, contended>>

CreateOwn(p, i, next) ==
  /\ LET m == FactMemory(p, i, job[p].fact) IN
       /\ Store(m)
       /\ job' = [job EXCEPT ![p].rest = next, ![p].own = {m}]
  /\ UNCHANGED <<stage, requests, removed, retired, contended>>

SupersedeCreate(p, i) ==
  /\ Resting(p, "supersede") /\ MayBeReplaced(Held(p))
  /\ CreateOwn(p, i, "mark")

\* The old memory, as it was read, is written back with its successor.
Mark(p) ==
  /\ Resting(p, "mark")
  /\ Overwrite([Held(p) EXCEPT !.heir = Own(p).id])
  /\ job' = Settled(p)
  /\ LET marked == {Held(p).id} \cap IdsOf(rows) IN
       /\ retired' = retired \cup marked
       /\ contended' = IF \E q \in Procs \ {p} : stage[q] # "idle"
                       THEN contended \cup marked ELSE contended
  /\ UNCHANGED <<stage, used, requests, removed>>

\* SUPPORT changes the confidence and the relations of the copy only.
Support(p) ==
  /\ Resting(p, "support")
  /\ Overwrite(Held(p))
  /\ job' = Settled(p)
  /\ UNCHANGED <<stage, history>>

\* CONTRADICT of a project fact is a SUPERSEDE, which reads again.
ContradictProject(p) ==
  /\ Resting(p, "contradict") /\ job[p].fact \in Projects
  /\ \E m \in {n \in rows : n.id = Held(p).id} :
       job' = [job EXCEPT ![p].rest = "supersede", ![p].held = {m}]
  /\ UNCHANGED <<rows, stage, history>>

ContradictCreate(p, i) ==
  /\ Resting(p, "contradict") /\ job[p].fact \notin Projects
  /\ CreateOwn(p, i, "relate")

\* The new memory is rewritten with its relation.
Relate(p) ==
  /\ Resting(p, "relate")
  /\ Rewrite(p, Own(p))
  /\ UNCHANGED <<stage, history>>

\* The contradicted memory, as it was read, gets its relation.
Evidence(p) ==
  /\ Resting(p, "evidence")
  /\ Overwrite(Held(p))
  /\ job' = Settled(p)
  /\ UNCHANGED <<stage, history>>

-----------------------------------------------------------------------------
(* The second commit of a rewrite, the end of a batch, and the users. *)

Insert(p) ==
  /\ job[p].pend # {}
  /\ rows' = rows \cup job[p].pend
  /\ job' = LET done == [job EXCEPT ![p].pend = {}] IN
            IF stage[p] # "decide" THEN [done EXCEPT ![p].facts = Tail(@)]
            ELSE IF job[p].rest = "relate" /\ job[p].held # {}
                 THEN [done EXCEPT ![p].rest = "evidence"]
            ELSE [done EXCEPT ![p].rest = "none", ![p].fact = "none",
                              ![p].held = {}, ![p].own = {}]
  /\ UNCHANGED <<stage, history>>

Return(p) ==
  /\ job[p].pend = {}
  /\ \/ stage[p] \in {"match", "merge", "create"} /\ job[p].facts = <<>> /\ job[p].left = <<>>
     \/ stage[p] = "decide" /\ job[p].rest = "none"
  /\ Stop(p)
  /\ UNCHANGED <<rows, history>>

\* Every call of the store, the LLM or the embedding service may fail, an
\* index may be invalid, and the server may die: nothing resumes the batch.
Fail(p) ==
  /\ stage[p] # "idle"
  /\ Stop(p)
  /\ removed' = removed \cup IdsOf(job[p].pend)
  /\ UNCHANGED <<rows, used, requests, retired, contended>>

\* POST /v1/memories with content: the abstract is never set.
CreatePinned(i, s) ==
  /\ requests < MaxRequests
  /\ requests' = requests + 1
  /\ Store([id |-> i, content |-> {}, abst |-> {}, weight |-> NoteWeight,
            pinned |-> TRUE, session |-> s, heir |-> "none"])
  /\ UNCHANGED <<stage, job, removed, retired, contended>>

Delete(i) ==
  /\ requests < MaxRequests
  /\ requests' = requests + 1
  /\ i \in IdsOf(rows)
  /\ rows' = RowsBut({i})
  /\ removed' = removed \cup {i}
  /\ UNCHANGED <<stage, job, used, retired, contended>>

Gathering(p) ==
  \/ \E r \in Requests : Submit(p, r)
  \/ \E S \in SUBSET rows : Search(p, S)
  \/ \E kept \in Selections(job[p].facts) : SelfDedup(p, kept)

Matching(p) ==
  \/ MatchSkip(p) \/ MatchUpgrade(p) \/ MatchPass(p)
  \/ SessionMerge(p) \/ SessionPass(p) \/ Advance(p)
  \/ \E i \in Ids : CreateNext(p, i)

Carrying(p) ==
  \/ \E f \in Range(job[p].facts) :
       \/ \E i \in Ids : DecideCreate(p, i, f) \/ DecideContext(p, i, f)
       \/ \E o \in {"merge", "supersede", "support", "contradict"} : DecideOn(p, f, o)
  \/ \E i \in Ids : Downgrade(p, i) \/ SupersedeCreate(p, i) \/ ContradictCreate(p, i)
  \/ Merge(p) \/ Mark(p) \/ Support(p) \/ ContradictProject(p) \/ Relate(p) \/ Evidence(p)

Next ==
  \/ \E p \in Procs : Gathering(p) \/ Matching(p) \/ Carrying(p)
                      \/ Insert(p) \/ Return(p) \/ Fail(p)
  \/ \E i \in Ids : Delete(i) \/ \E s \in Sessions \cup {"none"} : CreatePinned(i, s)

Spec == Init /\ [][Next]_vars

-----------------------------------------------------------------------------
(* Properties. *)

\* Every fact some memory tells, the rows in the gap of a rewrite included.
Told == UNION {m.abst : m \in rows \cup UNION {job[p].pend : p \in Procs}}

\* The copies that p's next write of id i is computed from.
Basis(p, i) ==
  {m \in (IF job[p].rest \in {"none", "merge"} THEN job[p].snap ELSE job[p].held) : m.id = i}

\* Memory s quotes g's text, or tells g, a fact of the same text or a similar one.
Related(g, s) ==
  \/ s.content = {Source[g]}
  \/ \E e \in s.abst : e = g \/ Source[e] = Source[g] \/ <<g, e>> \in Near

\* The whole memory gives way to one fact that it is related to.
GivesWay(p, m) ==
  \E g \in Facts, s \in Basis(p, m.id) : m.abst = {g} /\ Related(g, s)

\* What a batch may do to a told fact with its next step: lose it in a
\* rewrite that fails half way; drop it because the copy it works from did
\* not tell it yet; let a related fact take the memory; or merge without a text.
MayDrop(p, f) ==
  \/ job[p].pend # {} /\ job'[p] = NoJob
  \/ job[p].held # {} /\ job'[p].held = {}
     /\ \A s \in Basis(p, Held(p).id) : f \notin s.abst
  \/ \E m \in job'[p].pend :
       \/ \A s \in Basis(p, m.id) : f \notin s.abst
       \/ GivesWay(p, m)
       \/ job[p].rest = "merge" /\ m.abst = {job[p].fact}

\* A fact told by a memory (reconciler.rs:692-855, 255-318, 144-196) stays
\* told until a user deletes the memory or a batch does one of the above: no
\* batch overwrites what it saw with an unrelated fact of another text.
KnowledgeKept ==
  [][\A f \in Told \ Told' :
       \/ UNCHANGED job
       \/ \E p \in Procs : job'[p] # job[p] /\ MayDrop(p, f)]_vars

\* A superseded memory (reconciler.rs:356-360) comes back to life only if
\* another batch was running when it was marked.  One batch alone never
\* revives it: it writes from its snapshot only before its first decision.
RevivalNeedsOverlap ==
  \A m \in rows : m.id \in retired /\ m.heir = "none" => m.id \in contended

\* The memory that superseded_by names (reconciler.rs:354-360) was stored
\* before, and is there, or being rewritten, unless it was deleted or lost.
SuccessorStored ==
  \A m \in rows : m.heir # "none" =>
    m.heir \in removed \cup IdsOf(rows) \cup UNION {IdsOf(job[p].pend) : p \in Procs}

\* A batch stores a new memory only for a fact of which its snapshot showed
\* neither the text, nor the abstract, nor a similar one (reconciler.rs:82,
\* 692-855): whatever stages and decisions lie between, what was recognised
\* as a duplicate is not created.
OnlyUnknownCreated ==
  [][\A m \in rows' : m.id \notin used /\ ~m.pinned =>
       \E p \in Procs :
         /\ job'[p] # job[p]
         /\ \A s \in job[p].snap :
              /\ s.abst # {} /\ s.abst # m.abst /\ s.content # m.content
              /\ \A f \in m.abst, g \in s.abst : s.abst = {g} => <<f, g>> \notin Kin]_vars

\* Session merge, MERGE, SUPERSEDE and a CONTRADICT that becomes one
\* (reconciler.rs:167, 288, 344, 458) leave pinned memories alone: the
\* exact match is the only stage that rewrites one, and none is superseded.
PinnedSafeFromDecisions ==
  [][/\ \A p \in Procs : \A m \in job'[p].pend \ job[p].pend : m.pinned => stage[p] = "match"
     /\ \A m \in rows' : m.pinned => m.heir = "none"]_vars

\* What two batches over one table may not do to it (ingest/reconciler.rs).
BatchesSafe ==
  /\ [](TypeOK /\ RevivalNeedsOverlap /\ SuccessorStored)
  /\ KnowledgeKept /\ OnlyUnknownCreated /\ PinnedSafeFromDecisions
=============================================================================
