----------------------------- MODULE SharingProofs -----------------------------
(***************************************************************************)
(* Proofs about Sharing: CopiesSafe, whatever requests race or are dropped *)
(* half-way, and CopiesExact, which says more of one request at a time.    *)
(*                                                                         *)
(* SharingInv says what is known of (rows, what an edit has deleted to     *)
(* insert it again, and what the requests have read), that of one memory   *)
(* nothing known is newer than what exists, what each request has in hand  *)
(* at each of its steps, where a memory is, and which copies a space       *)
(* keeps.  After the lemmas on what each action does (...Says) and on the  *)
(* parts, one lemma per action shows that it keeps the invariant           *)
(* (...Keeps).                                                             *)
(***************************************************************************)
EXTENDS MCSharing, FiniteSetTheorems, TLAPS

\* Request p holds row m between the two halves of an edit.
Holds(p, m) == pc[p] = "add" /\ m \in job[p].src

\* The memories that exist: the rows, and what an edit has deleted to insert it
\* again.
IsRow(m) == \E s \in Stores : m \in table[s]
Alive(m) == IsRow(m) \/ \E p \in Procs : Holds(p, m)

\* What a request has read.
Seen(p, m) == m \in job[p].src \/ m \in job[p].old
Known(m) == Alive(m) \/ \E p \in Procs : Seen(p, m)

\* The text that a memory has at its version.
Own(m) == [of |-> m.id, at |-> m.ver]

\* A memory is of ids in use, a copy of one other memory, and its own text is of
\* its version or an earlier one.
WellFormed(m) ==
  /\ m.id \in used /\ m.text.of \in used
  /\ \A o \in m.from : o.id \in used /\ o.id # m.id /\ m.from = {o}
  /\ m.text.of = m.id => m.text.at <= m.ver
Formed == \A m \in Memory : Known(m) => WellFormed(m)

\* Nobody changes where a memory comes from.
Inherited == \A m, r \in Memory : Known(m) /\ Known(r) /\ m.id = r.id => r.from = m.from

\* A reader has read what is there, or an earlier version of it, unless two writes
\* have clashed.
Precedes(m, r) == r.ver >= m.ver /\ (r.ver = m.ver => r = m)
OnlyNewer ==
  \A m, r \in Memory : Known(m) /\ Alive(r) /\ m.id = r.id /\ m.id \notin clashed =>
    Precedes(m, r)

\* The embedding that a row has is not older than any text that anybody may write
\* back beside it.
Matches(m, r) == \A v \in r.vec : v.of = m.text.of /\ v.of \notin clashed => v.at >= m.text.at
VectorsAhead == \A m, r \in Memory : Known(m) /\ IsRow(r) /\ m.id = r.id => Matches(m, r)

\* A source has not got older since it was copied, and if it is at the version
\* that was copied, an unedited copy shows its text; unless its writes clashed.
Follows(c, r) ==
  \A o \in c.from : o.id = r.id /\ o.id \notin clashed =>
    /\ r.ver >= o.ver
    /\ c.text.of # c.id /\ r.ver = o.ver => c.text = r.text
SourcesAhead == \A c, r \in Memory : Known(c) /\ Alive(r) => Follows(c, r)

\* Where a memory is: in one store, which is the one that whoever read it to write
\* it back will write to; what an edit holds is nowhere else, unless two writes have
\* clashed; and a space has one row of an id.
Writes(p) == pc[p] \in {"embed", "add", "touch"}
OnePlace ==
  /\ \A s, t \in Stores : \A m \in table[s], r \in table[t] : m.id = r.id => s = t
  /\ \A s \in Stores, p \in Procs : \A m \in table[s], r \in job[p].src :
       Writes(p) /\ m.id = r.id => /\ s = job[p].at
                                   /\ pc[p] = "add" => m.id \in clashed
  /\ \A p, q \in Procs : \A m \in job[p].src, r \in job[q].src :
       Writes(p) /\ Writes(q) /\ m.id = r.id =>
         /\ job[p].at = job[q].at
         /\ pc[p] = "add" /\ pc[q] = "add" /\ p # q => m.id \in clashed
  /\ \A s \in Spaces : \A m, r \in table[s] : m.id = r.id => m = r

\* What a request has in hand at each of its steps.
OneSource(p) == \E m \in Memory : job[p].src = {m}
Resharing(p) == job[p].kind = "reshare"
OneNew(p) == \E i \in Ids : job[p].new = {i}
OldCopy(p) == \E c \in Memory, o \in Origin :
  /\ job[p].old = {c} /\ c.from = {o} /\ job[p].within = o.space
  /\ \A m \in job[p].src : m.id = o.id /\ (m.id \notin clashed => m.ver >= o.ver)
Copier(p) ==
  /\ job[p].kind \in {"share", "pull", "reshare"}
  /\ job[p].kind = "share" => job[p].at \in Spaces
  /\ job[p].kind = "pull" => job[p].at \in Users
  /\ Resharing(p) => OldCopy(p)
  /\ ~Resharing(p) => job[p].old = {}
Unsharing(p) ==
  /\ job[p].kind = "unshare" /\ job[p].at \in Spaces /\ job[p].src = {}
  /\ \E c \in Memory, o \in Origin :
       job[p].old = {c} /\ c.from = {o} /\ job[p].new = {o.id}
FitAt(p) ==
  /\ pc[p] = "idle" => job[p] = NoJob
  /\ pc[p] = "check" => /\ job[p].kind = "share" /\ Copier(p) /\ OneSource(p)
                        /\ job[p].new = {}
  /\ pc[p] = "source" => Resharing(p) /\ Copier(p) /\ job[p].src = {} /\ job[p].new = {}
  /\ pc[p] = "vector" => Copier(p) /\ OneSource(p) /\ job[p].new = {}
  /\ pc[p] = "create" => /\ Copier(p) /\ OneSource(p) /\ job[p].new = {}
                         /\ \A m \in job[p].src, v \in job[p].vec :
                              v.of = m.text.of /\ v.of \notin clashed => v.at >= m.text.at
  /\ pc[p] = "delete" => \/ Resharing(p) /\ Copier(p) /\ OneSource(p) /\ OneNew(p)
                         \/ Unsharing(p)
  /\ pc[p] = "event" => (Copier(p) /\ OneSource(p)) \/ Unsharing(p)
  /\ pc[p] = "auto" => /\ job[p].kind = "auto" /\ job[p].old = {} /\ job[p].new = {}
                       /\ \E m \in Memory : job[p].src = {m} /\ m.space = "blank"
  /\ Writes(p) => /\ job[p].kind \in {"edit", "touch"} /\ job[p].old = {} /\ job[p].new = {}
                  /\ pc[p] # "touch" => job[p].at \in Users
                  /\ \E m \in Memory : job[p].src = {m} /\ m.ver < MaxVersion
  /\ job[p].new \subseteq used
Fit == \A p \in Procs : FitAt(p)

\* The copy that a reshare has made is of the source that it read.
Making(p) == Resharing(p) /\ pc[p] \in {"delete", "event"}
MadeOf(p) ==
  /\ \A c \in Memory : Known(c) /\ c.id \in job[p].new =>
       /\ c.id \notin OldIds(p)
       /\ \A o \in c.from, m \in job[p].src : o.id = m.id /\ o.ver = m.ver
  /\ \A s \in Spaces : \A c \in table[s] : c.id \in job[p].new => s = job[p].at
Made == \A p \in Procs : Making(p) => MadeOf(p)

\* A copy that no reshare is about to delete.
Threatened(s, c) ==
  \E p \in Procs : /\ pc[p] = "delete" /\ Resharing(p) /\ job[p].at = s
                   /\ c.id \in OldIds(p)
Available == \A t \in shared : \E c \in CopiesOf(t[1], t[2]) : ~Threatened(t[1], c)

\* One request copies a memory to a space unless they overlap ...
Settled(s, i) ==
  {c \in CopiesOf(s, i) : \A p \in Procs : pc[p] = "delete" /\ Resharing(p) => c.id \notin job[p].new}
OneCopier(s, i) == \A p, q \in Copying(s, i) : p = q
OneSettled(s, i) == \A c, d \in Settled(s, i) : c = d
NoneYet(s, i) ==
  \A p \in Copying(s, i) : pc[p] \in {"vector", "create"} /\ job[p].kind = "share" =>
    CopiesOf(s, i) = {}
OldOrNew(s, i) ==
  \A p \in Copying(s, i) : Resharing(p) =>
    \A c \in CopiesOf(s, i) : c.id \in OldIds(p) \cup job[p].new
Single(s, i) == OneCopier(s, i) /\ OneSettled(s, i) /\ NoneYet(s, i) /\ OldOrNew(s, i)
SingleCopies == \A s \in Spaces, i \in Ids : <<s, i>> \notin overlap => Single(s, i)

\* Every copy is logged, or its request has yet to.
Logged(m) ==
  \/ \E e \in events : e.action # "unshare" /\ e.memory = m.id
  \/ m.id \in unlogged
  \/ \E p \in Procs : job[p].kind # "unshare" /\ m.id \in job[p].new
AllLogged == \A m \in Memory : Known(m) /\ m.from # {} => Logged(m)

\* What every step keeps.
Memories == Formed /\ Inherited /\ OnlyNewer /\ VectorsAhead /\ SourcesAhead
SharingInv ==
  TypeOK /\ Fit /\ Memories /\ OnePlace /\ Made /\ Available /\ SingleCopies /\ AllLogged
-----------------------------------------------------------------------------
\* A request starts with no job.
LEMMA NoJobType ==
  /\ NoJob \in Job /\ NoJob.kind = "none" /\ NoJob.src = {} /\ NoJob.old = {}
  /\ NoJob.new = {} /\ NoJob.vec = {}
<1>1. (CHOOSE u \in Users : TRUE) \in Users BY SharingAssumption
<1>2. (CHOOSE s \in Stores : TRUE) \in Stores BY SharingAssumption DEF Stores
<1> QED BY <1>1, <1>2 DEF NoJob, Job, Kinds, SpaceIds

\* Stores and spaces: a space is a store, a user's store is one, and the values
\* of space_id contain both.
LEMMA Places ==
  /\ Users \subseteq Stores /\ Spaces \subseteq Stores /\ Stores \subseteq SpaceIds
  /\ "tenant" \in SpaceIds /\ "blank" \in SpaceIds /\ "blank" \notin RuleSources
  /\ \A s \in Spaces : s \notin Users
BY SharingAssumption DEF Stores, SpaceIds

\* Request p does c next and has read j.
Turns(p, c, j) ==
  /\ c \in Phases /\ j \in Job
  /\ pc' = [pc EXCEPT ![p] = c] /\ job' = [job EXCEPT ![p] = j]

\* The others are where they were.
LEMMA TurnsOne ==
  ASSUME TypeOK, NEW p \in Procs, NEW c, NEW j, Turns(p, c, j)
  PROVE  /\ pc' \in [Procs -> Phases] /\ job' \in [Procs -> Job]
         /\ pc'[p] = c /\ job'[p] = j
         /\ \A q \in Procs \ {p} : pc'[q] = pc[q] /\ job'[q] = job[q]
BY DEF Turns, TypeOK

\* Finish ends a request.
LEMMA FinishTurns ==
  ASSUME NEW p \in Procs, Finish(p)
  PROVE  Turns(p, "idle", NoJob)
BY NoJobType DEF Finish, Turns, Phases

\* What copying, and its list forms, start.
LEMMA SharesAre ==
  ASSUME NEW u \in Users, NEW s \in Spaces,
         \/ \E p \in Procs : ShareStart(p, u, s)
         \/ BatchShare(u, s) \/ ShareAll(u, s)
  PROVE  \E P \in SUBSET IdleProcs : \E f \in [P -> table[u]] : StartShares(P, f, u, s)
<1>1. CASE \E p \in Procs : ShareStart(p, u, s)
  <2>1. PICK p \in Procs : ShareStart(p, u, s) BY <1>1
  <2>2. PICK m \in table[u] : StartShares({p}, [q \in {p} |-> m], u, s)
        BY <2>1 DEF ShareStart
  <2>3. {p} \in SUBSET IdleProcs BY <2>1 DEF ShareStart, IdleProcs
  <2>4. [q \in {p} |-> m] \in [{p} -> table[u]] OBVIOUS
  <2> QED BY <2>2, <2>3, <2>4
<1>2. CASE BatchShare(u, s)
  BY <1>2 DEF BatchShare
<1>3. CASE ShareAll(u, s)
  <2>1. PICK P \in SUBSET IdleProcs \ {{}} :
          \E f \in [P -> {m \in table[u] : CopiesOf(s, m.id) = {}}] : StartShares(P, f, u, s)
        BY <1>3 DEF ShareAll
  <2>2. PICK f \in [P -> {m \in table[u] : CopiesOf(s, m.id) = {}}] : StartShares(P, f, u, s)
        BY <2>1
  <2>3. f \in [P -> table[u]] OBVIOUS
  <2> QED BY <2>1, <2>2, <2>3
<1> QED BY <1>1, <1>2, <1>3

\* What the request of one copy has read of its source.
Sharing1(u, s, m) ==
  [NoJob EXCEPT !.kind = "share", !.by = u, !.at = s, !.within = u, !.src = {m}]

\* A share is a job, for each that starts, of a row of the personal store.
LEMMA StartSharesSays ==
  ASSUME TypeOK, NEW u \in Users, NEW s \in Spaces, NEW P, NEW f, P \subseteq IdleProcs,
         \A p \in P : f[p] \in table[u], StartShares(P, f, u, s)
  PROVE  /\ TypeOK'
         /\ \A p \in P : /\ f[p] \in table[u] /\ f[p] \in Memory
                         /\ pc[p] = "idle" /\ pc'[p] = "check"
                         /\ job'[p].kind = "share" /\ job'[p].at = s /\ job'[p].within = u
                         /\ job'[p].src = {f[p]} /\ job'[p].old = {} /\ job'[p].new = {}
                         /\ job'[p].vec = {}
         /\ \A q \in Procs \ P : pc'[q] = pc[q] /\ job'[q] = job[q]
<1>0. P \subseteq Procs /\ table[u] \subseteq Memory /\ table[u] \subseteq Memory
      BY Places DEF IdleProcs, TypeOK
<1>1. \A p \in P : f[p] \in table[u] /\ f[p] \in Memory /\ pc[p] = "idle"
      BY <1>0 DEF IdleProcs
<1>2. \A p \in P : pc'[p] = "check" /\ job'[p] = Sharing1(u, s, f[p])
      BY <1>0 DEF StartShares, Sharing1
<1>3. \A q \in Procs \ P : pc'[q] = pc[q] /\ job'[q] = job[q]
      BY DEF StartShares
<1>4. ASSUME NEW m \in Memory, NEW j, j = Sharing1(u, s, m)
      PROVE  /\ j \in Job /\ j.kind = "share" /\ j.at = s /\ j.within = u
             /\ j.src = {m} /\ j.old = {} /\ j.new = {} /\ j.vec = {}
      BY <1>4, NoJobType, Places DEF Sharing1, NoJob, Job, Kinds
<1>5. \A p \in P : /\ job'[p] \in Job /\ job'[p].kind = "share" /\ job'[p].at = s
                   /\ job'[p].within = u /\ job'[p].src = {f[p]} /\ job'[p].old = {}
                   /\ job'[p].new = {} /\ job'[p].vec = {}
      BY <1>1, <1>2, <1>4
<1>6. pc' \in [Procs -> Phases] /\ job' \in [Procs -> Job]
  <2>1. pc' = [p \in Procs |-> pc'[p]] /\ job' = [p \in Procs |-> job'[p]]
        BY DEF StartShares
  <2>2. \A p \in Procs : pc'[p] \in Phases /\ job'[p] \in Job
        BY <1>2, <1>3, <1>5 DEF TypeOK, Phases
  <2> QED BY <2>1, <2>2
<1>7. overlap' \subseteq Spaces \X Ids
  <2>1. \A m \in Memory : m.id \in Ids BY DEF Memory
  <2>2. \A p \in P : <<s, f[p].id>> \in Spaces \X Ids BY <1>1, <2>1
  <2>3. overlap' \subseteq overlap \cup {<<s, f[p].id>> : p \in P} BY DEF StartShares
  <2> QED BY <2>2, <2>3 DEF TypeOK
<1>8. TypeOK'
      BY <1>6, <1>7 DEF TypeOK, StartShares
<1> QED BY <1>1, <1>2, <1>3, <1>5, <1>8

\* What a request reads is a memory.
LEMMA ReadIsMemory ==
  ASSUME TypeOK
  PROVE  /\ \A s \in Stores : table[s] \subseteq Memory
         /\ \A s \in SpaceIds : RowsIn(s) \subseteq Memory
         /\ \A p \in Procs : job[p] \in Job /\ job[p].src \subseteq Memory /\ job[p].old \subseteq Memory
         /\ \A m \in Memory : m.id \in Ids /\ m.from \subseteq Origin /\ m.ver \in 1 .. MaxVersion
                              /\ m.text \in Text /\ m.vec \subseteq Text /\ m.space \in SpaceIds
<1>1. \A s \in Stores : table[s] \subseteq Memory BY DEF TypeOK
<1>2. \A s \in SpaceIds : RowsIn(s) \subseteq Memory BY <1>1 DEF RowsIn
<1>3. \A p \in Procs : job[p] \in Job /\ job[p].src \subseteq Memory /\ job[p].old \subseteq Memory
      BY DEF TypeOK, Job
<1>4. \A m \in Memory : m.id \in Ids /\ m.from \subseteq Origin /\ m.ver \in 1 .. MaxVersion
                        /\ m.text \in Text /\ m.vec \subseteq Text /\ m.space \in SpaceIds
      BY DEF Memory
<1> QED BY <1>1, <1>2, <1>3, <1>4

\* A request that only reads, or ends.
Reads(p, c, j) ==
  /\ Turns(p, c, j)
  /\ UNCHANGED <<table, used, shared, clashed>>
  /\ events \subseteq events' /\ events' \subseteq [action : Kinds, memory : Ids]
  /\ overlap \subseteq overlap' /\ overlap' \subseteq Spaces \X Ids
  /\ unlogged \subseteq unlogged' /\ unlogged' \subseteq Ids
  /\ checked' \subseteq Ids

\* ... leaves the state well-typed.
LEMMA ReadsType ==
  ASSUME TypeOK, NEW p \in Procs, NEW c, NEW j, Reads(p, c, j)
  PROVE  TypeOK'
BY TurnsOne DEF Reads, TypeOK

\* The look for a copy that is there already.
LEMMA ShareCheckSays ==
  ASSUME TypeOK, Fit, NEW p \in Procs, ShareCheck(p)
  PROVE  /\ pc[p] = "check" /\ events' = events /\ overlap' = overlap /\ unlogged' = unlogged
         /\ \/ Reads(p, "idle", NoJob)
            \/ /\ Reads(p, "vector", job[p])
               /\ \A m \in job[p].src : CopiesOf(job[p].at, m.id) = {}
<1>1. FitAt(p) /\ pc[p] = "check" BY DEF Fit, ShareCheck
<1>2. PICK m \in Memory : job[p].src = {m} BY <1>1 DEF FitAt, OneSource
<1>3. CASE CopiesOf(job[p].at, m.id) # {}
  <2>1. Finish(p) BY <1>2, <1>3 DEF ShareCheck
  <2>2. Turns(p, "idle", NoJob) BY <2>1, FinishTurns
  <2> QED BY <1>1, <2>2 DEF ShareCheck, Reads, TypeOK
<1>4. CASE CopiesOf(job[p].at, m.id) = {}
  <2>1. pc' = [pc EXCEPT ![p] = "vector"] /\ job' = job BY <1>2, <1>4 DEF ShareCheck
  <2>2. Turns(p, "vector", job[p]) BY <2>1, ReadIsMemory DEF Turns, Phases, TypeOK
  <2>3. \A k \in job[p].src : CopiesOf(job[p].at, k.id) = {} BY <1>2, <1>4
  <2> QED BY <1>1, <2>2, <2>3 DEF ShareCheck, Reads, TypeOK
<1> QED BY <1>3, <1>4

\* A pull has read a row of the space.
LEMMA PullStartSays ==
  ASSUME TypeOK, NEW p \in Procs, NEW u \in Users, NEW s \in Spaces, PullStart(p, u, s)
  PROVE  /\ pc[p] = "idle" /\ events' = events /\ overlap' = overlap /\ unlogged' = unlogged
         /\ \E m \in table[s] : \E j \in Job :
              /\ Reads(p, "vector", j) /\ m \in Memory
              /\ j.kind = "pull" /\ j.at = u /\ j.within = s /\ j.src = {m}
              /\ j.old = {} /\ j.new = {} /\ j.vec = {}
<1>1. PICK m \in table[s] :
        /\ pc' = [pc EXCEPT ![p] = "vector"]
        /\ job' = [job EXCEPT ![p] = [NoJob EXCEPT
                     !.kind = "pull", !.by = u, !.at = u, !.within = s, !.src = {m}]]
      BY DEF PullStart
<1>2. m \in Memory BY Places, ReadIsMemory
<1> DEFINE j == [NoJob EXCEPT !.kind = "pull", !.by = u, !.at = u, !.within = s, !.src = {m}]
<1>3. /\ j \in Job /\ j.kind = "pull" /\ j.at = u /\ j.within = s /\ j.src = {m}
      /\ j.old = {} /\ j.new = {} /\ j.vec = {}
      BY <1>2, NoJobType, Places DEF NoJob, Job, Kinds
<1>4. Turns(p, "vector", j) BY <1>1, <1>3 DEF Turns, Phases
<1> HIDE DEF j
<1>5. Reads(p, "vector", j) BY <1>4 DEF Reads, PullStart, TypeOK
<1> QED BY <1>2, <1>3, <1>5 DEF PullStart

\* A reshare has found the copy.
LEMMA ReshareStartSays ==
  ASSUME TypeOK, NEW p \in Procs, NEW u \in Users, NEW s \in Stores, ReshareStart(p, u, s)
  PROVE  /\ pc[p] = "idle" /\ events' = events /\ unlogged' = unlogged
         /\ \E c \in table[s] : \E o \in c.from : \E j \in Job :
              /\ Reads(p, "source", j) /\ c \in Memory /\ o \in Origin
              /\ j.kind = "reshare" /\ j.at = s /\ j.within = o.space /\ j.src = {}
              /\ j.old = {c} /\ j.new = {} /\ j.vec = {}
              /\ NoteOverlap(s, o.id)
<1>0. PICK c \in table[s] : \E o \in c.from :
        /\ pc' = [pc EXCEPT ![p] = "source"]
        /\ job' = [job EXCEPT ![p] = [NoJob EXCEPT
                     !.kind = "reshare", !.by = u, !.at = s, !.within = o.space, !.old = {c}]]
        /\ NoteOverlap(s, o.id)
      BY DEF ReshareStart
<1>1. PICK o \in c.from :
        /\ pc' = [pc EXCEPT ![p] = "source"]
        /\ job' = [job EXCEPT ![p] = [NoJob EXCEPT
                     !.kind = "reshare", !.by = u, !.at = s, !.within = o.space, !.old = {c}]]
        /\ NoteOverlap(s, o.id)
      BY <1>0
<1>2. c \in Memory /\ o \in Origin BY ReadIsMemory
<1> DEFINE j == [NoJob EXCEPT !.kind = "reshare", !.by = u, !.at = s, !.within = o.space, !.old = {c}]
<1>3. o.space \in SpaceIds /\ o.id \in Ids BY <1>2 DEF Origin
<1>4. /\ j \in Job /\ j.kind = "reshare" /\ j.at = s /\ j.within = o.space /\ j.src = {}
      /\ j.old = {c} /\ j.new = {} /\ j.vec = {}
      BY <1>2, <1>3, NoJobType, Places DEF NoJob, Job, Kinds
<1>5. Turns(p, "source", j) BY <1>1, <1>4 DEF Turns, Phases
<1> HIDE DEF j
<1>6. overlap \subseteq overlap' /\ overlap' \subseteq Spaces \X Ids
      BY <1>1, <1>3 DEF NoteOverlap, TypeOK
<1>7. Reads(p, "source", j) BY <1>5, <1>6 DEF Reads, ReshareStart, TypeOK
<1> QED BY <1>1, <1>2, <1>4, <1>7 DEF ReshareStart

\* ... and reads its source, a row of the store that the provenance names, or
\* ends.
LEMMA ReshareSourceSays ==
  ASSUME TypeOK, Fit, NEW p \in Procs, ReshareSource(p)
  PROVE  /\ pc[p] = "source" /\ events' = events /\ overlap' = overlap /\ unlogged' = unlogged
         /\ \/ Reads(p, "idle", NoJob)
            \/ \E m \in RowsIn(job[p].within), j \in Job :
                 /\ Reads(p, "vector", j) /\ m \in Memory
                 /\ j.kind = job[p].kind /\ j.at = job[p].at /\ j.within = job[p].within
                 /\ j.src = {m} /\ j.old = job[p].old /\ j.new = job[p].new
                 /\ \A c \in job[p].old, o \in Origin : o \in c.from => m.id = o.id
<1>1. FitAt(p) /\ pc[p] = "source" BY DEF Fit, ReshareSource
<1>2. PICK c \in Memory, o \in Origin :
        job[p].old = {c} /\ c.from = {o} /\ job[p].within = o.space
      BY <1>1 DEF FitAt, Copier, OldCopy
<1> DEFINE rows == UNION {RowsWithId(k.space, k.id) : k \in UNION {b.from : b \in job[p].old}}
<1>3. rows = RowsWithId(job[p].within, o.id) BY <1>2
<1>4. CASE rows = {}
  <2>1. Finish(p) BY <1>4 DEF ReshareSource
  <2>2. Turns(p, "idle", NoJob) BY <2>1, FinishTurns
  <2> QED BY <1>1, <2>2 DEF ReshareSource, Reads, TypeOK
<1>5. CASE rows # {}
  <2>1. PICK m \in rows : /\ pc' = [pc EXCEPT ![p] = "vector"]
                          /\ job' = [job EXCEPT ![p].src = {m}]
        BY <1>5 DEF ReshareSource
  <2> HIDE DEF rows
  <2>2. m \in RowsIn(job[p].within) /\ m.id = o.id BY <2>1, <1>3 DEF RowsWithId
  <2>3. job[p].within \in SpaceIds BY ReadIsMemory DEF Job
  <2>4. m \in Memory BY <2>2, <2>3, ReadIsMemory
  <2> DEFINE j == [job[p] EXCEPT !.src = {m}]
  <2>5. j \in Job /\ j.kind = job[p].kind /\ j.at = job[p].at /\ j.within = job[p].within
        /\ j.src = {m} /\ j.old = job[p].old /\ j.new = job[p].new
        BY <2>4, ReadIsMemory DEF Job
  <2>6. Turns(p, "vector", j) BY <2>1, <2>5 DEF Turns, Phases, TypeOK
  <2> HIDE DEF j
  <2>7. Reads(p, "vector", j) BY <2>6 DEF Reads, ReshareSource, TypeOK
  <2>8. \A b \in job[p].old, k \in Origin : k \in b.from => m.id = k.id BY <1>2, <2>2
  <2>9. \E r \in RowsIn(job[p].within), k \in Job :
          /\ Reads(p, "vector", k) /\ r \in Memory
          /\ k.kind = job[p].kind /\ k.at = job[p].at /\ k.within = job[p].within
          /\ k.src = {r} /\ k.old = job[p].old /\ k.new = job[p].new
          /\ \A b \in job[p].old, l \in Origin : l \in b.from => r.id = l.id
        BY <2>2, <2>4, <2>5, <2>7, <2>8
  <2> QED BY <1>1, <2>9 DEF ReshareSource
<1> QED BY <1>4, <1>5

\* The embedding is of the rows with the source's id.
LEMMA ReadVectorSays ==
  ASSUME TypeOK, NEW p \in Procs, ReadVector(p)
  PROVE  /\ pc[p] = "vector" /\ events' = events /\ overlap' = overlap /\ unlogged' = unlogged
         /\ \E j \in Job :
              /\ Reads(p, "create", j)
              /\ j.kind = job[p].kind /\ j.at = job[p].at /\ j.within = job[p].within
              /\ j.src = job[p].src /\ j.old = job[p].old /\ j.new = job[p].new
              /\ \A v \in j.vec : \E m \in job[p].src : \E r \in RowsIn(job[p].within) :
                   r.id = m.id /\ v \in r.vec
<1>1. PICK m \in job[p].src :
        job' = [job EXCEPT ![p].vec = UNION {r.vec : r \in RowsWithId(job[p].within, m.id)}]
      BY DEF ReadVector
<1> DEFINE w == UNION {r.vec : r \in RowsWithId(job[p].within, m.id)}
           j == [job[p] EXCEPT !.vec = w]
<1>2. \A v \in w : \E r \in RowsIn(job[p].within) : r.id = m.id /\ v \in r.vec
      BY DEF RowsWithId
<1>3. job[p].within \in SpaceIds BY ReadIsMemory DEF Job
<1>4. w \subseteq Text BY <1>2, <1>3, ReadIsMemory
<1>5. job' = [job EXCEPT ![p].vec = w] BY <1>1
<1> HIDE DEF w
<1>6. /\ j \in Job /\ j.kind = job[p].kind /\ j.at = job[p].at /\ j.within = job[p].within
      /\ j.src = job[p].src /\ j.old = job[p].old /\ j.new = job[p].new /\ j.vec = w
      BY <1>4, ReadIsMemory DEF Job
<1>7. Turns(p, "create", j) BY <1>5, <1>6 DEF Turns, Phases, TypeOK, ReadVector
<1> HIDE DEF j
<1>8. Reads(p, "create", j) BY <1>7 DEF Reads, ReadVector, TypeOK
<1>9. \A v \in j.vec : \E k \in job[p].src : \E r \in RowsIn(job[p].within) :
        r.id = k.id /\ v \in r.vec
      BY <1>2, <1>6
<1> QED BY <1>6, <1>8, <1>9 DEF ReadVector

\* An unshare has picked a copy.
LEMMA UnshareStartSays ==
  ASSUME TypeOK, Formed, NEW p \in Procs, NEW u \in Users, NEW s \in Spaces, UnshareStart(p, u, s)
  PROVE  /\ pc[p] = "idle" /\ events' = events /\ overlap' = overlap /\ unlogged' = unlogged
         /\ \E c \in table[s], j \in Job : \E o \in Origin :
              /\ Reads(p, "delete", j) /\ c \in Memory /\ c.from = {o}
              /\ j.kind = "unshare" /\ j.at = s /\ j.src = {} /\ j.old = {c}
              /\ j.new = {o.id} /\ o.id \in used
<1>1. PICK c \in table[s] :
        /\ \E k \in c.from : k.by = u \/ u \in Admins
        /\ pc' = [pc EXCEPT ![p] = "delete"]
        /\ job' = [job EXCEPT ![p] = [NoJob EXCEPT
                     !.kind = "unshare", !.by = u, !.at = s, !.old = {c},
                     !.new = {k.id : k \in c.from}]]
      BY DEF UnshareStart
<1>2. PICK o \in c.from : TRUE BY <1>1
<1>3. c \in Memory /\ Known(c) BY Places, ReadIsMemory DEF Known, Alive, IsRow
<1>4. c.from = {o} /\ o \in Origin /\ o.id \in used /\ o.id \in Ids
      BY <1>2, <1>3, ReadIsMemory DEF Formed, WellFormed, Origin
<1> DEFINE w == {k.id : k \in c.from}
           j == [NoJob EXCEPT !.kind = "unshare", !.by = u, !.at = s, !.old = {c}, !.new = w]
<1>5. w = {o.id} BY <1>4
<1>6. job' = [job EXCEPT ![p] = j] BY <1>1
<1> HIDE DEF w
<1>7. /\ j \in Job /\ j.kind = "unshare" /\ j.at = s /\ j.src = {} /\ j.old = {c} /\ j.new = w
      BY <1>3, <1>4, <1>5, NoJobType, Places DEF NoJob, Job, Kinds
<1>8. Turns(p, "delete", j) BY <1>1, <1>6, <1>7 DEF Turns, Phases
<1> HIDE DEF j
<1>9. Reads(p, "delete", j) BY <1>8 DEF Reads, UnshareStart, TypeOK
<1> QED BY <1>3, <1>4, <1>5, <1>7, <1>9 DEF UnshareStart

\* The event is of the ids that the job has inserted.
LEMMA RecordEventSays ==
  ASSUME TypeOK, NEW p \in Procs, RecordEvent(p)
  PROVE  /\ pc[p] = "event" /\ overlap' = overlap /\ unlogged' = unlogged
         /\ Reads(p, "idle", NoJob)
         /\ \A i \in job[p].new : \E e \in events' : e.action = job[p].kind /\ e.memory = i
<1>1. Turns(p, "idle", NoJob) BY FinishTurns DEF RecordEvent
<1>2. events' = events \cup {[action |-> job[p].kind, memory |-> i] : i \in job[p].new}
      BY DEF RecordEvent
<1>3. events' \subseteq [action : Kinds, memory : Ids] /\ events \subseteq events'
      BY <1>2, ReadIsMemory DEF TypeOK, Job
<1>4. ASSUME NEW i \in job[p].new
      PROVE  \E e \in events' : e.action = job[p].kind /\ e.memory = i
  <2> DEFINE e == [action |-> job[p].kind, memory |-> i]
  <2>1. e \in events' BY <1>2
  <2>2. e.action = job[p].kind /\ e.memory = i OBVIOUS
  <2> QED BY <2>1, <2>2
<1> QED BY <1>1, <1>3, <1>4 DEF RecordEvent, Reads, TypeOK

\* A drop loses the job, and notes what the job leaves behind.
LEMMA DropSays ==
  ASSUME TypeOK, NEW p \in Procs, Drop(p)
  PROVE  /\ pc[p] # "idle" /\ events' = events
         /\ Reads(p, "idle", NoJob)
         /\ job[p].kind # "unshare" => job[p].new \subseteq unlogged'
         /\ pc[p] = "delete" /\ Resharing(p) /\ job[p].at \in Spaces =>
              \A m \in job[p].src : <<job[p].at, m.id>> \in overlap'
<1>1. Turns(p, "idle", NoJob) BY FinishTurns DEF Drop
<1>2. overlap \subseteq overlap' /\ overlap' \subseteq Spaces \X Ids
  <2>1. CASE pc[p] = "delete" /\ job[p].kind = "reshare" /\ job[p].at \in Spaces
    <3>1. overlap' = overlap \cup {<<job[p].at, m.id>> : m \in job[p].src} BY <2>1 DEF Drop
    <3>2. \A m \in job[p].src : <<job[p].at, m.id>> \in Spaces \X Ids BY <2>1, ReadIsMemory
    <3> QED BY <3>1, <3>2 DEF TypeOK
  <2>2. CASE ~(pc[p] = "delete" /\ job[p].kind = "reshare" /\ job[p].at \in Spaces)
    BY <2>2 DEF Drop, TypeOK
  <2> QED BY <2>1, <2>2
<1>3. unlogged \subseteq unlogged' /\ unlogged' \subseteq Ids
      BY ReadIsMemory DEF Drop, TypeOK, Job
<1>4. job[p].kind # "unshare" => job[p].new \subseteq unlogged' BY DEF Drop
<1>5. pc[p] = "delete" /\ Resharing(p) /\ job[p].at \in Spaces =>
        \A m \in job[p].src : <<job[p].at, m.id>> \in overlap'
      BY DEF Drop, Resharing
<1>6. Reads(p, "idle", NoJob) BY <1>1, <1>2, <1>3 DEF Drop, Reads, TypeOK
<1> QED BY <1>4, <1>5, <1>6 DEF Drop

\* No rule is about a memory with a blank space_id: the task of a memory that
\* was created directly copies nothing.
LEMMA AutoShareSays ==
  ASSUME TypeOK, Fit, NEW p \in Procs, AutoShare(p)
  PROVE  /\ pc[p] = "auto" /\ events' = events /\ overlap' = overlap /\ unlogged' = unlogged
         /\ Reads(p, "idle", NoJob)
<1>1. FitAt(p) /\ pc[p] = "auto" BY DEF Fit, AutoShare
<1>2. PICK m \in Memory : job[p].src = {m} /\ m.space = "blank" BY <1>1 DEF FitAt
<1>3. AutoShareTargets(m) = {} BY <1>2, Places DEF AutoShareTargets
<1>4. AutoShareTargets(m) = {} /\ table' = table /\ used' = used /\ events' = events
      /\ shared' = shared /\ checked' = checked \cup {m.id}
  <2>1. PICK n \in job[p].src : \E f \in [AutoShareTargets(n) -> Ids \ used] :
               /\ table' = [s \in Stores |->
                      IF s \in AutoShareTargets(n)
                      THEN table[s] \cup {[MakeSharedCopy(n, f[s], s, job[p].by)
                                             EXCEPT !.vec = n.vec]}
                      ELSE table[s]]
               /\ used' = used \cup {f[s] : s \in AutoShareTargets(n)}
               /\ events' = events \cup {[action |-> "share", memory |-> f[s]] :
                                           s \in AutoShareTargets(n)}
               /\ shared' = shared \cup {<<s, n.id>> : s \in AutoShareTargets(n)}
               /\ checked' = checked \cup {n.id}
        BY DEF AutoShare
  <2>2. n = m /\ AutoShareTargets(n) = {} BY <1>2, <1>3
  <2>3. PICK f \in [AutoShareTargets(n) -> Ids \ used] :
               /\ table' = [s \in Stores |->
                      IF s \in AutoShareTargets(n)
                      THEN table[s] \cup {[MakeSharedCopy(n, f[s], s, job[p].by)
                                             EXCEPT !.vec = n.vec]}
                      ELSE table[s]]
               /\ used' = used \cup {f[s] : s \in AutoShareTargets(n)}
               /\ events' = events \cup {[action |-> "share", memory |-> f[s]] :
                                           s \in AutoShareTargets(n)}
               /\ shared' = shared \cup {<<s, n.id>> : s \in AutoShareTargets(n)}
               /\ checked' = checked \cup {n.id}
        BY <2>1
  <2>4. table' = [s \in Stores |-> table[s]] BY <2>2, <2>3
  <2>5. table' = table BY <2>4 DEF TypeOK
  <2>6. used' = used /\ events' = events /\ shared' = shared /\ checked' = checked \cup {m.id}
        BY <2>2, <2>3
  <2> QED BY <1>3, <2>5, <2>6
<1>7. checked' \subseteq Ids BY <1>4, ReadIsMemory DEF TypeOK
<1>8. Turns(p, "idle", NoJob) BY FinishTurns DEF AutoShare
<1> QED BY <1>1, <1>4, <1>7, <1>8 DEF AutoShare, Reads, TypeOK

-----------------------------------------------------------------------------
(* The steps that write. *)

\* Copy n of memory m.
CopyOf(n, m) ==
  /\ n.ver = 1 /\ n.text = m.text
  /\ \E o \in Origin : n.from = {o} /\ o.id = m.id /\ o.ver = m.ver

\* A new copy is at version 1, names its source's id and version, and has the
\* embedding that was read.
LEMMA NewCopyIs ==
  ASSUME NEW j \in Job, NEW m \in Memory, NEW i \in Ids,
         j.kind \in {"share", "pull", "reshare"},
         j.kind = "reshare" => \E c \in Memory : j.old = {c}
  PROVE  \E n \in Memory : n = NewCopy(j, m, i) /\ n.id = i /\ n.vec = j.vec /\ CopyOf(n, m)
<1>1. j.by \in Users /\ j.at \in SpaceIds /\ j.within \in SpaceIds /\ j.vec \subseteq Text
      BY Places DEF Job
<1>2. 1 \in 1 .. MaxVersion BY SharingAssumption
<1>3. m.text \in Text /\ m.space \in SpaceIds /\ m.id \in Ids /\ m.ver \in 1 .. MaxVersion
      BY DEF Memory
<1>4. ASSUME NEW space \in SpaceIds, NEW within \in SpaceIds, NEW n,
             n = [id |-> i, ver |-> 1, text |-> m.text, vec |-> j.vec, space |-> space,
                  from |-> {[space |-> within, id |-> m.id, ver |-> m.ver, by |-> j.by]}]
      PROVE  n \in Memory /\ n.id = i /\ n.vec = j.vec /\ CopyOf(n, m)
  <2> DEFINE o == [space |-> within, id |-> m.id, ver |-> m.ver, by |-> j.by]
  <2>1. o \in Origin /\ o.id = m.id /\ o.ver = m.ver BY <1>1, <1>3 DEF Origin
  <2>2. n.from = {o} /\ n.ver = 1 /\ n.text = m.text /\ n.id = i /\ n.vec = j.vec BY <1>4
  <2>3. n \in Memory BY <1>4, <1>1, <1>2, <1>3, <2>1 DEF Memory
  <2> HIDE DEF o
  <2> QED BY <2>1, <2>2, <2>3 DEF CopyOf
<1>5. CASE j.kind = "pull"
  <2> DEFINE o == [space |-> j.within, id |-> m.id, ver |-> m.ver, by |-> j.by]
  <2>2. NewCopy(j, m, i) = [PulledCopy(m, i, j.by, j.within) EXCEPT !.vec = j.vec]
        BY <1>5 DEF NewCopy
  <2>3. PulledCopy(m, i, j.by, j.within) =
          [id |-> i, ver |-> 1, text |-> m.text, vec |-> {}, space |-> "tenant", from |-> {o}]
        BY DEF PulledCopy, MakeSharedCopy
  <2>1. NewCopy(j, m, i) =
          [id |-> i, ver |-> 1, text |-> m.text, vec |-> j.vec, space |-> "tenant", from |-> {o}]
        BY <2>2, <2>3
  <2> QED BY <2>1, <1>1, <1>4, Places
<1>6. CASE j.kind = "share"
  <2>1. NewCopy(j, m, i) =
          [id |-> i, ver |-> 1, text |-> m.text, vec |-> j.vec, space |-> j.at,
           from |-> {[space |-> m.space, id |-> m.id, ver |-> m.ver, by |-> j.by]}]
        BY <1>6 DEF NewCopy, PulledCopy, MakeSharedCopy
  <2> QED BY <2>1, <1>1, <1>3, <1>4
<1>7. CASE j.kind = "reshare"
  <2>1. PICK c \in Memory : j.old = {c} BY <1>7
  <2>2. (CHOOSE b \in j.old : TRUE) = c BY <2>1
  <2>3. c.space \in SpaceIds BY DEF Memory
  <2>5. NewCopy(j, m, i) =
          [MakeSharedCopy(m, i, (CHOOSE b \in j.old : TRUE).space, j.by) EXCEPT !.vec = j.vec]
        BY <1>7 DEF NewCopy
  <2>6. NewCopy(j, m, i) = [MakeSharedCopy(m, i, c.space, j.by) EXCEPT !.vec = j.vec]
        BY <2>2, <2>5
  <2>4. NewCopy(j, m, i) =
          [id |-> i, ver |-> 1, text |-> m.text, vec |-> j.vec, space |-> c.space,
           from |-> {[space |-> m.space, id |-> m.id, ver |-> m.ver, by |-> j.by]}]
        BY <2>6 DEF MakeSharedCopy
  <2> QED BY <2>3, <2>4, <1>1, <1>3, <1>4
<1> QED BY <1>5, <1>6, <1>7

\* Memory n, of an id that was never used, is inserted in store s.
Adds(s, n) ==
  /\ n \in Memory /\ n.id \notin used /\ s \in Stores
  /\ table' = [table EXCEPT ![s] = @ \cup {n}] /\ used' = used \cup {n.id}

\* The copy is inserted, and the request goes on with its id.
LEMMA CreateCopySays ==
  ASSUME TypeOK, Fit, NEW p \in Procs, CreateCopy(p)
  PROVE  /\ pc[p] = "create" /\ UNCHANGED <<events, overlap, unlogged, clashed>> /\ TypeOK'
         /\ shared \subseteq shared'
         /\ \E m, n \in Memory, j \in Job :
              /\ job[p].src = {m} /\ CopyOf(n, m) /\ n.vec = job[p].vec
              /\ Adds(job[p].at, n)
              /\ Turns(p, IF Resharing(p) THEN "delete" ELSE "event", j)
              /\ j.kind = job[p].kind /\ j.at = job[p].at /\ j.within = job[p].within
              /\ j.src = {m} /\ j.old = job[p].old /\ j.new = {n.id} /\ j.vec = job[p].vec
              /\ shared' \subseteq shared \cup {<<job[p].at, m.id>>}
<1>1. FitAt(p) /\ pc[p] = "create" BY DEF Fit, CreateCopy
<1>2. PICK m \in Memory : job[p].src = {m} BY <1>1 DEF FitAt, OneSource
<1>3. PICK i \in Ids \ used :
       /\ table' = [table EXCEPT ![job[p].at] = @ \cup {NewCopy(job[p], m, i)}]
       /\ used' = used \cup {i}
       /\ job' = [job EXCEPT ![p].new = {i}]
       /\ shared' = IF job[p].at \in Spaces
                    THEN shared \cup {<<job[p].at, m.id>>} ELSE shared
      BY <1>2 DEF CreateCopy
<1>4. job[p] \in Job /\ job[p].at \in Stores /\ m.id \in Ids BY ReadIsMemory DEF Job
<1>5. /\ job[p].kind \in {"share", "pull", "reshare"}
      /\ job[p].kind = "reshare" => \E c \in Memory : job[p].old = {c}
      BY <1>1 DEF FitAt, Copier, OldCopy, Resharing
<1>6. PICK n \in Memory : n = NewCopy(job[p], m, i) /\ n.id = i /\ n.vec = job[p].vec /\ CopyOf(n, m)
      BY <1>4, <1>5, NewCopyIs
<1>7. Adds(job[p].at, n) BY <1>3, <1>4, <1>6 DEF Adds
<1> DEFINE j == [job[p] EXCEPT !.new = {i}]
           c == IF Resharing(p) THEN "delete" ELSE "event"
<1>8. /\ j \in Job /\ j.kind = job[p].kind /\ j.at = job[p].at /\ j.within = job[p].within
      /\ j.src = {m} /\ j.old = job[p].old /\ j.new = {n.id} /\ j.vec = job[p].vec
      BY <1>2, <1>4, <1>6 DEF Job
<1>9. pc' = [pc EXCEPT ![p] = c] BY DEF CreateCopy, Resharing
<1>10. c \in Phases BY DEF Phases
<1>11. job' = [job EXCEPT ![p] = j] BY <1>3 DEF TypeOK
<1> HIDE DEF j, c
<1>12. Turns(p, c, j) BY <1>8, <1>9, <1>10, <1>11 DEF Turns
<1>13. /\ shared' \subseteq Spaces \X Ids /\ shared \subseteq shared'
      /\ shared' \subseteq shared \cup {<<job[p].at, m.id>>}
       BY <1>3, <1>4 DEF TypeOK
<1>14. table' \in [Stores -> SUBSET Memory] /\ used' \subseteq Ids
       BY <1>3, <1>4, <1>6 DEF TypeOK
<1>15. TypeOK' BY <1>12, <1>13, <1>14, TurnsOne DEF TypeOK, CreateCopy
<1> USE DEF c
<1> QED BY <1>1, <1>2, <1>6, <1>7, <1>8, <1>12, <1>13, <1>15 DEF CreateCopy

\* The rows of the copy's id go, from the store that the request works in.
LEMMA DeleteCopySays ==
  ASSUME TypeOK, NEW p \in Procs, DeleteCopy(p)
  PROVE  /\ pc[p] = "delete" /\ UNCHANGED <<events, overlap, unlogged, used, clashed>> /\ TypeOK'
         /\ Turns(p, "event", job[p])
         /\ table' = [table EXCEPT ![job[p].at] = {m \in @ : m.id \notin OldIds(p)}]
         /\ shared' = IF job[p].kind = "unshare"
                      THEN shared \ {<<job[p].at, i>> : i \in job[p].new} ELSE shared
<1>1. Turns(p, "event", job[p]) BY ReadIsMemory DEF DeleteCopy, Turns, Phases, TypeOK
<1>2. table' \in [Stores -> SUBSET Memory] BY DEF DeleteCopy, TypeOK
<1>3. shared' \subseteq Spaces \X Ids BY DEF DeleteCopy, TypeOK
<1>4. TypeOK' BY <1>1, <1>2, <1>3, TurnsOne DEF TypeOK, DeleteCopy
<1> QED BY <1>1, <1>4 DEF DeleteCopy

\* An original: its text and embedding are of its version.
LEMMA OriginalIs ==
  ASSUME NEW i \in Ids, NEW space \in SpaceIds
  PROVE  \E n \in Memory : /\ n = Original(i, space) /\ n.id = i /\ n.ver = 1 /\ n.from = {}
                          /\ n.text = Own(n) /\ n.vec = {n.text} /\ n.space = space
<1> DEFINE n == Original(i, space)
           w == [of |-> i, at |-> 1]
<1>1. 1 \in 1 .. MaxVersion BY SharingAssumption
<1>2. w \in Text BY <1>1 DEF Text
<1>3. n.text = w /\ n.vec = {w} /\ n.id = i /\ n.ver = 1 /\ n.from = {} /\ n.space = space
      BY DEF Original
<1>4. n \in Memory BY <1>1, <1>2 DEF Original, Memory
<1>5. n.text = Own(n) BY <1>3 DEF Own
<1> QED BY <1>3, <1>4, <1>5

\* A memory that is created directly is in the personal store before its task.
LEMMA CreateMemorySays ==
  ASSUME TypeOK, NEW p \in Procs, NEW u \in Users, CreateMemory(p, u)
  PROVE  /\ pc[p] = "idle" /\ UNCHANGED <<events, shared, overlap, unlogged, clashed>> /\ TypeOK'
         /\ \E n \in Memory, j \in Job :
              /\ Adds(u, n) /\ Turns(p, "auto", j)
              /\ n.from = {} /\ n.ver = 1 /\ n.text = Own(n) /\ n.vec = {n.text}
              /\ n.space = "blank"
              /\ j.kind = "auto" /\ j.src = {n} /\ j.old = {} /\ j.new = {}
<1>1. PICK i \in Ids \ used :
        /\ table' = [table EXCEPT ![u] = @ \cup {Original(i, "blank")}]
        /\ used' = used \cup {i}
        /\ job' = [job EXCEPT ![p] = [NoJob EXCEPT
                       !.kind = "auto", !.by = u, !.at = u, !.src = {Original(i, "blank")}]]
      BY DEF CreateMemory
<1>2. PICK n \in Memory : /\ n = Original(i, "blank") /\ n.id = i /\ n.ver = 1 /\ n.from = {}
                          /\ n.text = Own(n) /\ n.vec = {n.text} /\ n.space = "blank"
      BY Places, OriginalIs
<1>3. Adds(u, n) BY <1>1, <1>2, Places DEF Adds
<1> DEFINE j == [NoJob EXCEPT !.kind = "auto", !.by = u, !.at = u, !.src = {n}]
<1>4. j \in Job /\ j.kind = "auto" /\ j.src = {n} /\ j.old = {} /\ j.new = {}
      BY <1>2, NoJobType, Places DEF NoJob, Job, Kinds
<1>5. job' = [job EXCEPT ![p] = j] BY <1>1, <1>2
<1>6. Turns(p, "auto", j) BY <1>4, <1>5 DEF Turns, Phases, CreateMemory
<1> HIDE DEF j
<1>7. table' \in [Stores -> SUBSET Memory] /\ used' \subseteq Ids
      BY <1>3, <1>1 DEF Adds, TypeOK
<1>8. TypeOK' BY <1>6, <1>7, TurnsOne DEF TypeOK, CreateMemory
<1> QED BY <1>2, <1>3, <1>4, <1>6, <1>8 DEF CreateMemory

\* An import inserts without a task.
LEMMA ImportMemorySays ==
  ASSUME TypeOK, NEW u \in Users, ImportMemory(u)
  PROVE  /\ UNCHANGED <<pc, job, events, shared, overlap, unlogged, clashed>> /\ TypeOK'
         /\ \E n \in Memory :
              Adds(u, n) /\ n.from = {} /\ n.ver = 1 /\ n.text = Own(n) /\ n.vec = {n.text}
<1>1. PICK i \in Ids \ used :
        /\ table' = [table EXCEPT ![u] = @ \cup {Original(i, u)}]
        /\ used' = used \cup {i}
      BY DEF ImportMemory
<1>2. PICK n \in Memory : /\ n = Original(i, u) /\ n.id = i /\ n.ver = 1 /\ n.from = {}
                          /\ n.text = Own(n) /\ n.vec = {n.text}
      BY Places, OriginalIs
<1>3. Adds(u, n) BY <1>1, <1>2, Places DEF Adds
<1>4. table' \in [Stores -> SUBSET Memory] /\ used' \subseteq Ids
      BY <1>3, <1>1 DEF Adds, TypeOK
<1>5. TypeOK' BY <1>4 DEF TypeOK, ImportMemory
<1> QED BY <1>2, <1>3, <1>5 DEF ImportMemory

\* What a request that writes back is, and what it does after its read.
WriteKinds  == {"edit", "touch"}
WritePhases == {"embed", "touch"}

\* A row is read to be written back.
LEMMA ReadToWriteSays ==
  ASSUME TypeOK, NEW p \in Procs, NEW k \in WriteKinds, NEW c \in WritePhases,
         NEW s \in Stores, ReadToWrite(p, k, c, s)
  PROVE  /\ pc[p] = "idle"
         /\ \E m \in table[s], j \in Job :
              /\ Reads(p, c, j) /\ m \in Memory /\ m.ver < MaxVersion
              /\ j.kind = k /\ j.at = s /\ j.src = {m} /\ j.old = {} /\ j.new = {}
<1>1. PICK m \in table[s] :
        /\ m.ver < MaxVersion
        /\ job' = [job EXCEPT ![p] = [NoJob EXCEPT !.kind = k, !.at = s, !.src = {m}]]
      BY DEF ReadToWrite
<1>2. m \in Memory BY ReadIsMemory
<1> DEFINE j == [NoJob EXCEPT !.kind = k, !.at = s, !.src = {m}]
<1>3. j \in Job /\ j.kind = k /\ j.at = s /\ j.src = {m} /\ j.old = {} /\ j.new = {}
      BY <1>2, NoJobType DEF NoJob, Job, Kinds, WriteKinds
<1>4. Turns(p, c, j) BY <1>1, <1>3 DEF Turns, Phases, ReadToWrite, WritePhases
<1> HIDE DEF j
<1>5. Reads(p, c, j) BY <1>4 DEF Reads, ReadToWrite, TypeOK
<1> QED BY <1>1, <1>2, <1>3, <1>5 DEF ReadToWrite

\* The first half of an edit deletes the rows with the id of the one that it read,
\* and notes if that one is not there any more.
LEMMA EditDeleteSays ==
  ASSUME TypeOK, Fit, NEW p \in Procs, EditDelete(p)
  PROVE  /\ pc[p] = "embed" /\ UNCHANGED <<events, used, shared, overlap, unlogged>> /\ TypeOK'
         /\ Turns(p, "add", job[p]) /\ job[p].at \in Users /\ clashed \subseteq clashed'
         /\ job[p].kind \in {"edit", "touch"} /\ job[p].old = {} /\ job[p].new = {}
         /\ \E m \in Memory :
              /\ job[p].src = {m} /\ m.ver < MaxVersion
              /\ table' = [table EXCEPT ![job[p].at] = {r \in @ : r.id # m.id}]
              /\ m \in table[job[p].at] \/ m.id \in clashed'
<1>1. FitAt(p) /\ pc[p] = "embed" BY DEF Fit, EditDelete
<1>2. /\ job[p].at \in Users /\ job[p].kind \in {"edit", "touch"}
      /\ job[p].old = {} /\ job[p].new = {}
      BY <1>1 DEF FitAt, Writes
<1>3. PICK m \in Memory : job[p].src = {m} /\ m.ver < MaxVersion BY <1>1 DEF FitAt, Writes
<1>4. table' = [table EXCEPT ![job[p].at] = {r \in @ : r.id # m.id}] BY <1>3 DEF EditDelete
<1>5. clashed' = clashed \cup {k.id : k \in job[p].src \ table[job[p].at]} BY DEF EditDelete
<1>6. m \in table[job[p].at] \/ m.id \in clashed' BY <1>3, <1>5
<1>7. clashed \subseteq clashed' /\ clashed' \subseteq Ids
      BY <1>5, ReadIsMemory DEF TypeOK
<1>8. Turns(p, "add", job[p]) BY ReadIsMemory DEF Turns, Phases, EditDelete, TypeOK
<1>9. table' \in [Stores -> SUBSET Memory] BY <1>4 DEF TypeOK
<1>10. TypeOK' BY <1>7, <1>8, <1>9, TurnsOne DEF TypeOK, EditDelete
<1> QED BY <1>1, <1>2, <1>3, <1>4, <1>6, <1>7, <1>8, <1>10 DEF EditDelete

\* Memory e is the next version of m: with a text of its own, or with m's text and the
\* embedding of the row that it is written over.
NextOf(e, m) ==
  e.id = m.id /\ e.ver = m.ver + 1 /\ e.from = m.from /\ e.space = m.space
Retexted(e) == e.text = Own(e) /\ e.vec = {e.text}
Retained(e, m) ==
  e.text = m.text /\ \E r \in Memory : IsRow(r) /\ r.id = m.id /\ e.vec = r.vec
Rewrites(e, m) == NextOf(e, m) /\ (Retexted(e) \/ Retained(e, m))

\* The second half inserts the next version.
LEMMA EditAddSays ==
  ASSUME TypeOK, Fit, NEW p \in Procs, EditAdd(p)
  PROVE  /\ pc[p] = "add" /\ UNCHANGED <<events, used, shared, overlap, unlogged, clashed>>
         /\ TypeOK' /\ Turns(p, "idle", NoJob) /\ job[p].at \in Users /\ job[p].new = {}
         /\ \E m, e \in Memory :
              /\ job[p].src = {m} /\ NextOf(e, m) /\ Retexted(e)
              /\ table' = [table EXCEPT ![job[p].at] = @ \cup {e}]
<1>1. FitAt(p) /\ pc[p] = "add" BY DEF Fit, EditAdd
<1>2. PICK m \in Memory : job[p].src = {m} /\ m.ver < MaxVersion BY <1>1 DEF FitAt, Writes
<1>3. job[p].at \in Users /\ job[p].at \in Stores /\ job[p].new = {}
      BY <1>1, Places DEF FitAt, Writes
<1>4. table' = [table EXCEPT ![job[p].at] = @ \cup {Edited(m)}] BY <1>2 DEF EditAdd
<1> DEFINE w == [of |-> m.id, at |-> m.ver + 1]
           e == [m EXCEPT !.ver = @ + 1, !.text = w, !.vec = {w}]
<1>5. m.ver \in 1 .. MaxVersion /\ m.id \in Ids BY ReadIsMemory
<1>6. m.ver + 1 \in 1 .. MaxVersion BY <1>2, <1>5, SharingAssumption
<1>7. w \in Text BY <1>5, <1>6 DEF Text
<1>8. Edited(m) = e BY DEF Edited
<1>9. e \in Memory /\ e.id = m.id /\ e.ver = m.ver + 1 /\ e.from = m.from /\ e.text = w
      /\ e.vec = {w} /\ e.space = m.space
      BY <1>6, <1>7 DEF Memory
<1>10. NextOf(e, m) /\ Retexted(e) BY <1>9 DEF NextOf, Retexted, Own
<1> HIDE DEF e
<1>11. Turns(p, "idle", NoJob) BY FinishTurns DEF EditAdd
<1>12. table' \in [Stores -> SUBSET Memory] BY <1>3, <1>4, <1>8, <1>9 DEF TypeOK
<1>13. TypeOK' BY <1>11, <1>12, TurnsOne DEF TypeOK, EditAdd
<1> QED BY <1>1, <1>2, <1>3, <1>4, <1>8, <1>9, <1>10, <1>11, <1>13 DEF EditAdd

\* A row k of the store is written over, or it is of another id and stays.
WrittenBack(k, r, m) == IF r.id = m.id THEN NextOf(k, m) /\ k.text = m.text /\ k.vec = r.vec
                        ELSE k = r

\* A write-back writes the row that was read over what has its id by now, and notes
\* if that is another one.
LEMMA WriteBackSays ==
  ASSUME TypeOK, Fit, NEW p \in Procs, WriteBack(p)
  PROVE  /\ pc[p] = "touch" /\ UNCHANGED <<events, used, shared, overlap, unlogged>> /\ TypeOK'
         /\ Turns(p, "idle", NoJob) /\ clashed \subseteq clashed' /\ job[p].at \in Stores
         /\ job[p].kind \in {"edit", "touch"} /\ job[p].new = {}
         /\ \E m \in Memory :
              /\ job[p].src = {m}
              /\ \A s \in Stores \ {job[p].at} : table'[s] = table[s]
              /\ \A k \in table'[job[p].at] :
                   k \in Memory /\ \E r \in table[job[p].at] : WrittenBack(k, r, m)
              /\ \A r \in table[job[p].at] : \E k \in table'[job[p].at] : WrittenBack(k, r, m)
              /\ clashed' = clashed \cup {r.id : r \in RowsWithId(job[p].at, m.id) \ {m}}
<1>1. FitAt(p) /\ pc[p] = "touch" BY DEF Fit, WriteBack
<1>2. PICK m \in Memory : job[p].src = {m} /\ m.ver < MaxVersion BY <1>1 DEF FitAt, Writes
<1>3. job[p].kind \in {"edit", "touch"} /\ job[p].new = {} BY <1>1 DEF FitAt, Writes
<1>4. PICK s \in Stores : s = job[p].at BY ReadIsMemory DEF Job
<1>5. /\ table' = [table EXCEPT ![s] = {IF r.id = m.id THEN Touched(m, r) ELSE r : r \in @}]
      /\ clashed' = clashed \cup {r.id : r \in RowsWithId(s, m.id) \ {m}}
      BY <1>2, <1>4 DEF WriteBack
<1>6. ASSUME NEW r \in table[s], r.id = m.id
      PROVE  Touched(m, r) \in Memory /\ WrittenBack(Touched(m, r), r, m)
  <2> DEFINE e == [m EXCEPT !.ver = @ + 1, !.vec = r.vec]
  <2>1. m.ver \in 1 .. MaxVersion /\ r \in Memory /\ r.vec \subseteq Text BY ReadIsMemory
  <2>2. m.ver + 1 \in 1 .. MaxVersion BY <1>2, <2>1, SharingAssumption
  <2>3. Touched(m, r) = e BY DEF Touched
  <2>4. /\ e \in Memory /\ e.id = m.id /\ e.ver = m.ver + 1 /\ e.from = m.from
        /\ e.text = m.text /\ e.vec = r.vec /\ e.space = m.space
        BY <2>1, <2>2 DEF Memory
  <2> HIDE DEF e
  <2> QED BY <1>6, <2>3, <2>4 DEF WrittenBack, NextOf
<1>7. /\ table'[s] = {IF r.id = m.id THEN Touched(m, r) ELSE r : r \in table[s]}
      /\ \A t \in Stores \ {s} : table'[t] = table[t]
      BY <1>5 DEF TypeOK
<1>8. \A k \in table'[s] : k \in Memory /\ \E r \in table[s] : WrittenBack(k, r, m)
  <2>1. SUFFICES ASSUME NEW k \in table'[s]
                 PROVE  k \in Memory /\ \E r \in table[s] : WrittenBack(k, r, m)
        OBVIOUS
  <2>2. PICK r \in table[s] : k = (IF r.id = m.id THEN Touched(m, r) ELSE r) BY <1>7
  <2>3. CASE r.id = m.id BY <1>6, <2>2, <2>3
  <2>4. CASE r.id # m.id BY <2>2, <2>4, ReadIsMemory DEF WrittenBack
  <2> QED BY <2>3, <2>4
<1>9. \A r \in table[s] : \E k \in table'[s] : WrittenBack(k, r, m)
  <2>1. SUFFICES ASSUME NEW r \in table[s] PROVE \E k \in table'[s] : WrittenBack(k, r, m)
        OBVIOUS
  <2>2. (IF r.id = m.id THEN Touched(m, r) ELSE r) \in table'[s] BY <1>7
  <2>3. CASE r.id = m.id BY <1>6, <2>2, <2>3
  <2>4. CASE r.id # m.id BY <2>2, <2>4 DEF WrittenBack
  <2> QED BY <2>3, <2>4
<1>10. clashed \subseteq clashed' /\ clashed' \subseteq Ids
  <2>1. s \in SpaceIds BY Places
  <2>2. \A r \in RowsWithId(s, m.id) : r.id \in Ids BY <2>1, ReadIsMemory DEF RowsWithId
  <2> QED BY <1>5, <2>2 DEF TypeOK
<1>11. Turns(p, "idle", NoJob) BY FinishTurns DEF WriteBack
<1>12. table' \in [Stores -> SUBSET Memory]
  <2>1. \A t \in Stores : table'[t] \subseteq Memory BY <1>7, <1>8, ReadIsMemory
  <2>2. table' = [t \in Stores |-> table'[t]] BY <1>5 DEF TypeOK
  <2> QED BY <2>1, <2>2
<1>13. TypeOK' BY <1>10, <1>11, <1>12, TurnsOne DEF TypeOK, WriteBack
<1>14. /\ \A t \in Stores \ {job[p].at} : table'[t] = table[t]
       /\ \A k \in table'[job[p].at] :
            k \in Memory /\ \E r \in table[job[p].at] : WrittenBack(k, r, m)
       /\ \A r \in table[job[p].at] : \E k \in table'[job[p].at] : WrittenBack(k, r, m)
       /\ clashed' = clashed \cup {r.id : r \in RowsWithId(job[p].at, m.id) \ {m}}
       BY <1>4, <1>5, <1>7, <1>8, <1>9
<1> QED BY <1>1, <1>2, <1>3, <1>4, <1>10, <1>11, <1>13, <1>14 DEF WriteBack

\* A deletion takes the rows of one id from the personal store.
LEMMA DeleteMemorySays ==
  ASSUME TypeOK, NEW u \in Users, DeleteMemory(u)
  PROVE  /\ UNCHANGED <<pc, job, events, used, shared, overlap, unlogged, clashed>> /\ TypeOK'
         /\ \A s \in Stores : table'[s] \subseteq table[s]
         /\ \A s \in Spaces : table'[s] = table[s]
<1>1. PICK m \in table[u] : table' = [table EXCEPT ![u] = {r \in @ : r.id # m.id}]
      BY DEF DeleteMemory
<1>2. table' \in [Stores -> SUBSET Memory] BY <1>1 DEF TypeOK
<1>3. TypeOK' BY <1>2 DEF TypeOK, DeleteMemory
<1> QED BY <1>1, <1>3, Places DEF DeleteMemory, TypeOK

\* The sweep takes them from any store, and what is not shared there any more is
\* noted.
LEMMA ForgetSays ==
  ASSUME TypeOK, NEW s \in Stores, Forget(s)
  PROVE  /\ UNCHANGED <<pc, job, events, used, overlap, unlogged, clashed>> /\ TypeOK'
         /\ \A t \in Stores : table'[t] \subseteq table[t]
         /\ \A t \in Stores \ {s} : table'[t] = table[t]
         /\ \E m \in table[s] : /\ \A r \in table[s] : r.id # m.id => r \in table'[s]
                                /\ shared' = shared \ {<<s, o.id>> : o \in m.from}
<1>1. PICK m \in table[s] : /\ table' = [table EXCEPT ![s] = {r \in @ : r.id # m.id}]
                            /\ shared' = shared \ {<<s, o.id>> : o \in m.from}
      BY DEF Forget
<1>2. table' \in [Stores -> SUBSET Memory] /\ shared' \subseteq Spaces \X Ids
      BY <1>1 DEF TypeOK
<1>3. TypeOK' BY <1>2 DEF TypeOK, Forget
<1>4. \A t \in Stores \ {s} : table'[t] = table[t] BY <1>1 DEF TypeOK
<1>5. table'[s] = {r \in table[s] : r.id # m.id} BY <1>1 DEF TypeOK
<1> QED BY <1>1, <1>3, <1>4, <1>5 DEF Forget

-----------------------------------------------------------------------------
(* What exists and what is known of it. *)

\* Of one id one memory exists, unless its writes have clashed.
LEMMA AliveOnce ==
  ASSUME TypeOK, OnlyNewer, NEW m \in Memory, NEW r \in Memory, Alive(m), Alive(r), m.id = r.id,
         m.id \notin clashed
  PROVE  m = r
<1>1. Known(m) /\ Known(r) BY DEF Known
<1>2. Precedes(m, r) /\ Precedes(r, m) BY <1>1 DEF OnlyNewer
<1>3. m.ver \in Nat /\ r.ver \in Nat BY SharingAssumption DEF Memory
<1> QED BY <1>2, <1>3 DEF Precedes

\* Where nothing new exists or is known, but what a clash has brought back, all is as
\* before.
LEMMA KeepMemories ==
  ASSUME Memories, used \subseteq used', clashed \subseteq clashed',
         \A m \in Memory : Known(m)' => Known(m),
         \A m \in Memory : IsRow(m)' => IsRow(m),
         \A m \in Memory : Alive(m)' => Alive(m) \/ m.id \in clashed'
  PROVE  Memories'
<1>1. Formed' BY DEF Memories, Formed, WellFormed
<1>2. Inherited' BY DEF Memories, Inherited
<1>3. OnlyNewer' BY DEF Memories, OnlyNewer, Precedes
<1>4. VectorsAhead'
  <2>1. ASSUME NEW m \in Memory, NEW r \in Memory, Known(m)', IsRow(r)', m.id = r.id
        PROVE  Matches(m, r)'
    <3>1. Matches(m, r) BY <2>1 DEF Memories, VectorsAhead
    <3> QED BY <3>1 DEF Matches
  <2> QED BY <2>1 DEF VectorsAhead
<1>5. SourcesAhead'
  <2>1. ASSUME NEW c \in Memory, NEW r \in Memory, Known(c)', Alive(r)' PROVE Follows(c, r)'
    <3>1. CASE Alive(r)
      <4>1. Follows(c, r) BY <2>1, <3>1 DEF Memories, SourcesAhead
      <4> QED BY <4>1 DEF Follows
    <3>2. CASE r.id \in clashed' BY <3>2 DEF Follows
    <3> QED BY <2>1, <3>1, <3>2
  <2> QED BY <2>1 DEF SourcesAhead
<1> QED BY <1>1, <1>2, <1>3, <1>4, <1>5 DEF Memories

\* A new memory, an original or a copy of one that is known.
LEMMA AddMemories ==
  ASSUME TypeOK, Memories, NEW n \in Memory, n.id \notin used, used' = used \cup {n.id},
         clashed' = clashed,
         \A m \in Memory : Known(m)' => Known(m) \/ m = n,
         \A m \in Memory : IsRow(m)' => IsRow(m) \/ m = n,
         \A m \in Memory : Alive(m)' => Alive(m) \/ m = n,
         \/ n.from = {} /\ n.ver = 1 /\ n.text = Own(n) /\ n.vec = {n.text}
         \/ \E m \in Memory : /\ Known(m) /\ CopyOf(n, m)
                              /\ \A v \in n.vec :
                                   v.of = m.text.of /\ v.of \notin clashed => v.at >= m.text.at
  PROVE  Memories'
<1>0. \A m \in Memory : Known(m) => m.id \in used /\ m.id # n.id
      BY DEF Memories, Formed, WellFormed
<1>1. \A m \in Memory, o \in Origin : Known(m) /\ o \in m.from => o.id # n.id /\ o.id \in used
      BY DEF Memories, Formed, WellFormed
<1>9. \A m \in Memory : IsRow(m) => Known(m) BY DEF Known, Alive
<1>10. n.ver \in Nat /\ n.text.at \in Nat BY SharingAssumption DEF Memory, Text
<1>2. ASSUME n.from = {}, n.ver = 1, n.text = Own(n), n.vec = {n.text}
      PROVE  WellFormed(n)' /\ Matches(n, n)
      BY <1>2, <1>10 DEF WellFormed, Own, Matches
<1>3. ASSUME NEW m \in Memory, Known(m), CopyOf(n, m),
             \A v \in n.vec : v.of = m.text.of /\ v.of \notin clashed => v.at >= m.text.at
      PROVE  WellFormed(n)' /\ Matches(n, n) /\ \A r \in Memory : Alive(r) => Follows(n, r)
  <2>1. PICK o \in Origin : n.from = {o} /\ o.id = m.id /\ o.ver = m.ver BY <1>3 DEF CopyOf
  <2>2. n.ver = 1 /\ n.text = m.text BY <1>3 DEF CopyOf
  <2>3. WellFormed(m) BY <1>3 DEF Memories, Formed
  <2>4. m.text.of \in used /\ m.id \in used /\ m.id # n.id /\ m.text.of # n.id
        BY <2>3, <1>0, <1>3 DEF WellFormed
  <2>5. WellFormed(n)' BY <2>1, <2>2, <2>4 DEF WellFormed
  <2>6. Matches(n, n) BY <1>3, <2>2 DEF Matches
  <2>7. ASSUME NEW r \in Memory, Alive(r) PROVE Follows(n, r)
    <3>1. r.id = m.id /\ m.id \notin clashed => Precedes(m, r)
          BY <1>3, <2>7 DEF Memories, OnlyNewer
    <3> QED BY <2>1, <2>2, <3>1 DEF Follows, Precedes
  <2> QED BY <2>5, <2>6, <2>7
<1>4. WellFormed(n)' /\ Matches(n, n) /\ \A r \in Memory : Alive(r) => Follows(n, r)
      BY <1>2, <1>3 DEF Follows
<1>5. Formed'
  <2>1. ASSUME NEW m \in Memory, Known(m)' PROVE WellFormed(m)'
    <3>1. CASE m = n BY <1>4, <3>1
    <3>2. CASE Known(m)
      <4>1. WellFormed(m) BY <3>2 DEF Memories, Formed
      <4> QED BY <4>1 DEF WellFormed
    <3> QED BY <2>1, <3>1, <3>2
  <2> QED BY <2>1 DEF Formed
<1>6. Inherited'
  <2>1. ASSUME NEW m \in Memory, NEW r \in Memory, Known(m)', Known(r)', m.id = r.id
        PROVE  r.from = m.from
    <3>1. (Known(m) \/ m = n) /\ (Known(r) \/ r = n) BY <2>1
    <3>2. (Known(m) /\ Known(r)) \/ m = r BY <1>0, <2>1, <3>1
    <3> QED BY <2>1, <3>2 DEF Memories, Inherited
  <2> QED BY <2>1 DEF Inherited
<1>7. OnlyNewer'
  <2>1. ASSUME NEW m \in Memory, NEW r \in Memory, Known(m)', Alive(r)', m.id = r.id,
               m.id \notin clashed
        PROVE  Precedes(m, r)
    <3>1. Known(m) \/ m = n BY <2>1
    <3>2. Alive(r) \/ r = n BY <2>1
    <3>3. CASE Known(m) /\ Alive(r) BY <2>1, <3>3 DEF Memories, OnlyNewer
    <3>4. CASE m = n /\ r = n BY <1>10, <3>4 DEF Precedes
    <3>5. Alive(r) => Known(r) BY DEF Known
    <3> QED BY <2>1, <3>1, <3>2, <3>3, <3>4, <3>5, <1>0
  <2> QED BY <2>1 DEF OnlyNewer, Precedes
<1>8. VectorsAhead'
  <2>1. ASSUME NEW m \in Memory, NEW r \in Memory, Known(m)', IsRow(r)', m.id = r.id
        PROVE  Matches(m, r)'
    <3>1. (Known(m) \/ m = n) /\ (IsRow(r) \/ r = n) BY <2>1
    <3>2. (Known(m) /\ IsRow(r)) \/ (m = n /\ r = n) BY <1>0, <1>9, <2>1, <3>1
    <3>3. Matches(m, r) BY <1>4, <2>1, <3>2 DEF Memories, VectorsAhead
    <3> QED BY <3>3 DEF Matches
  <2> QED BY <2>1 DEF VectorsAhead
<1>11. SourcesAhead'
  <2>1. ASSUME NEW c \in Memory, NEW r \in Memory, Known(c)', Alive(r)' PROVE Follows(c, r)
    <3>0. c.from \subseteq Origin BY DEF Memory
    <3>1. Known(c) \/ c = n BY <2>1
    <3>2. Alive(r) \/ r = n BY <2>1
    <3>3. CASE Known(c) /\ Alive(r) BY <3>3 DEF Memories, SourcesAhead
    <3>4. CASE c = n /\ Alive(r) BY <3>4, <1>4
    <3>5. CASE Known(c) /\ r = n BY <3>0, <3>5, <1>1 DEF Follows
    <3>6. CASE c = n /\ r = n
      <4>1. \A o \in n.from : o.id # n.id BY <1>4 DEF WellFormed
      <4> QED BY <3>6, <4>1 DEF Follows
    <3> QED BY <3>1, <3>2, <3>3, <3>4, <3>5, <3>6
  <2> QED BY <2>1 DEF SourcesAhead, Follows
<1> QED BY <1>5, <1>6, <1>7, <1>8, <1>11 DEF Memories

\* Rows of the id of m, which somebody has read, are written over by its next version;
\* unless that clashes, m was what existed and one next version does.
LEMMA RewriteMemories ==
  ASSUME TypeOK, Memories, NEW m \in Memory, Known(m), used' = used, clashed \subseteq clashed',
         \A k \in Memory : Known(k)' => Known(k) \/ (Rewrites(k, m) /\ Alive(k)'),
         \A k \in Memory : IsRow(k)' => IsRow(k) \/ Rewrites(k, m),
         \A k \in Memory : Alive(k)' => Alive(k) \/ Rewrites(k, m),
         m.id \notin clashed' => /\ Alive(m)
                                 /\ \A k \in Memory : Alive(k)' /\ k.id = m.id => Rewrites(k, m)
                                 /\ \A k, l \in Memory : Alive(k)' /\ Alive(l)' /\ k.id = m.id
                                                         /\ l.id = m.id => k = l
  PROVE  Memories'
<1>1. \A k \in Memory : k.ver \in Nat /\ k.text.at \in Nat BY SharingAssumption DEF Memory, Text
<1>2. WellFormed(m) BY DEF Memories, Formed
<1>3. \A k \in Memory : Rewrites(k, m) =>
        k.id = m.id /\ k.from = m.from /\ k.ver = m.ver + 1 /\ k.ver > m.ver
      BY <1>1 DEF Rewrites, NextOf
<1>4. \A k \in Memory : IsRow(k)' => Alive(k)' BY DEF Alive
<1>5. Formed'
  <2>1. ASSUME NEW k \in Memory, Known(k)' PROVE WellFormed(k)'
    <3>1. CASE Known(k)
      <4>1. WellFormed(k) BY <3>1 DEF Memories, Formed
      <4> QED BY <4>1 DEF WellFormed
    <3>2. CASE Rewrites(k, m) /\ Retexted(k)
      BY <1>1, <1>2, <1>3, <3>2 DEF WellFormed, Retexted, Own
    <3>3. CASE Rewrites(k, m) /\ Retained(k, m)
      BY <1>1, <1>2, <1>3, <3>3 DEF WellFormed, Retained
    <3> QED BY <2>1, <3>1, <3>2, <3>3 DEF Rewrites
  <2> QED BY <2>1 DEF Formed
<1>6. Inherited'
  <2>1. \A k \in Memory : Known(k)' /\ k.id = m.id => k.from = m.from
        BY <1>3 DEF Memories, Inherited
  <2>2. \A k, l \in Memory : Known(k)' /\ Known(l)' /\ k.id = l.id => l.from = k.from
        BY <1>3, <2>1 DEF Memories, Inherited
  <2> QED BY <2>2 DEF Inherited
<1>7. OnlyNewer'
  <2>1. ASSUME NEW k \in Memory, NEW r \in Memory, Known(k)', Alive(r)', k.id = r.id,
               k.id \notin clashed'
        PROVE  Precedes(k, r)
    <3>1. CASE k.id # m.id
      <4>1. Known(k) /\ Alive(r) BY <1>3, <2>1, <3>1
      <4> QED BY <2>1, <4>1 DEF Memories, OnlyNewer
    <3>2. CASE k.id = m.id /\ Known(k)
      <4>1. Precedes(k, m) BY <2>1, <3>2 DEF Memories, OnlyNewer
      <4>2. Rewrites(r, m) BY <2>1, <3>2
      <4> QED BY <1>1, <1>3, <4>1, <4>2 DEF Precedes
    <3>3. CASE k.id = m.id /\ ~Known(k)
      <4>1. k = r BY <2>1, <3>3
      <4> QED BY <1>1, <4>1 DEF Precedes
    <3> QED BY <3>1, <3>2, <3>3
  <2> QED BY <2>1 DEF OnlyNewer, Precedes
<1>8. VectorsAhead'
  <2>1. ASSUME NEW k \in Memory, NEW r \in Memory, Known(k), IsRow(r)', k.id = r.id
        PROVE  Matches(k, r)'
    <3>1. CASE IsRow(r)
      <4>1. Matches(k, r) BY <2>1, <3>1 DEF Memories, VectorsAhead
      <4> QED BY <4>1 DEF Matches
    <3>2. CASE Rewrites(r, m) /\ Retained(r, m)
      <4>1. PICK b \in Memory : IsRow(b) /\ b.id = m.id /\ r.vec = b.vec BY <3>2 DEF Retained
      <4>2. Matches(k, b) BY <1>3, <2>1, <3>2, <4>1 DEF Memories, VectorsAhead
      <4> QED BY <4>1, <4>2 DEF Matches
    <3>3. CASE Rewrites(r, m) /\ Retexted(r)
      <4>1. SUFFICES ASSUME NEW v \in r.vec, v.of = k.text.of, v.of \notin clashed'
                     PROVE  v.at >= k.text.at
            BY DEF Matches
      <4>2. v.of = m.id /\ v.at = r.ver /\ k.id = m.id
            BY <1>3, <2>1, <3>3, <4>1 DEF Retexted, Own
      <4>3. Precedes(k, m) BY <2>1, <4>1, <4>2 DEF Memories, OnlyNewer
      <4>4. k.text.at <= k.ver BY <2>1, <4>1, <4>2 DEF Memories, Formed, WellFormed
      <4> QED BY <1>1, <1>3, <3>3, <4>2, <4>3, <4>4 DEF Precedes
    <3> QED BY <2>1, <3>1, <3>2, <3>3 DEF Rewrites
  <2>2. ASSUME NEW k \in Memory, NEW r \in Memory, Known(k)', IsRow(r)', k.id = r.id
        PROVE  Matches(k, r)'
    <3>1. CASE Known(k) BY <2>1, <2>2, <3>1
    <3>2. CASE Rewrites(k, m) /\ Retained(k, m)
      <4>1. Matches(m, r)' BY <1>3, <2>1, <2>2, <3>2
      <4> QED BY <3>2, <4>1 DEF Retained, Matches
    <3>3. CASE ~Known(k) /\ Rewrites(k, m) /\ Retexted(k)
      <4>1. SUFFICES ASSUME NEW v \in r.vec, v.of = k.text.of, v.of \notin clashed'
                     PROVE  v.at >= k.text.at
            BY DEF Matches
      <4>2. v.of = m.id BY <1>3, <3>3, <4>1 DEF Retexted, Own
      <4>3. Alive(k)' /\ Alive(r)' BY <1>4, <2>2, <3>3
      <4>4. k = r BY <1>3, <2>2, <3>3, <4>1, <4>2, <4>3
      <4> QED BY <1>1, <3>3, <4>4 DEF Retexted
    <3> QED BY <2>2, <3>1, <3>2, <3>3 DEF Rewrites
  <2> QED BY <2>2 DEF VectorsAhead
<1>9. SourcesAhead'
  <2>1. ASSUME NEW c \in Memory, NEW r \in Memory, Known(c), Alive(r)' PROVE Follows(c, r)'
    <3>0. \A o \in c.from : o.ver \in Nat BY SharingAssumption DEF Memory, Origin
    <3>1. CASE Alive(r)
      <4>1. Follows(c, r) BY <2>1, <3>1 DEF Memories, SourcesAhead
      <4> QED BY <4>1 DEF Follows
    <3>2. CASE Rewrites(r, m)
      <4>1. SUFFICES ASSUME NEW o \in c.from, o.id = r.id, o.id \notin clashed'
                     PROVE  r.ver >= o.ver /\ r.ver # o.ver
            BY DEF Follows
      <4>2. r.id = m.id /\ r.ver > m.ver BY <1>3, <3>2
      <4>3. Alive(m) /\ m.id \notin clashed BY <4>1, <4>2
      <4>4. Follows(c, m) BY <2>1, <4>3 DEF Memories, SourcesAhead
      <4>5. m.ver >= o.ver BY <4>1, <4>2, <4>3, <4>4 DEF Follows
      <4> QED BY <1>1, <3>0, <4>1, <4>2, <4>5
    <3> QED BY <2>1, <3>1, <3>2
  <2>2. ASSUME NEW c \in Memory, NEW r \in Memory, Known(c)', Alive(r)' PROVE Follows(c, r)'
    <3>1. CASE Known(c) BY <2>1, <2>2, <3>1
    <3>2. CASE Rewrites(c, m)
      <4>1. Follows(m, r)' BY <2>1, <2>2
      <4>2. c.from = m.from /\ c.id = m.id BY <1>3, <3>2
      <4>3. c.text.of = c.id \/ c.text = m.text BY <3>2 DEF Rewrites, Retexted, Retained, Own
      <4> QED BY <4>1, <4>2, <4>3 DEF Follows
    <3> QED BY <2>2, <3>1, <3>2
  <2> QED BY <2>2 DEF SourcesAhead
<1> QED BY <1>5, <1>6, <1>7, <1>8, <1>9 DEF Memories

-----------------------------------------------------------------------------
(* What each step does to what exists and is known. *)

\* A memory is its columns.
LEMMA SameMemory ==
  ASSUME NEW k \in Memory, NEW l \in Memory, k.id = l.id, k.ver = l.ver, k.text = l.text,
         k.vec = l.vec, k.space = l.space, k.from = l.from
  PROVE  k = l
BY DEF Memory

\* A state with no memory in a place where none of its id was, and no new writer.
LEMMA SamePlaces ==
  ASSUME OnePlace, clashed \subseteq clashed',
         \A s \in Stores : \A m \in table'[s] : \E r \in table[s] : r.id = m.id,
         \A s \in Spaces : \A m, r \in table'[s] : m.id = r.id =>
            m = r \/ (m \in table[s] /\ r \in table[s]),
         \A q \in Procs : Writes(q)' => /\ Writes(q) /\ job'[q] = job[q]
                                        /\ pc'[q] = "add" => pc[q] = "add"
  PROVE  OnePlace'
<1>1. \A s, t \in Stores : \A m \in table'[s], r \in table'[t] : m.id = r.id => s = t
  <2>1. SUFFICES ASSUME NEW s \in Stores, NEW t \in Stores, NEW m \in table'[s], NEW r \in table'[t],
                        m.id = r.id
                 PROVE  s = t
        OBVIOUS
  <2>2. PICK k \in table[s] : k.id = m.id OBVIOUS
  <2>3. PICK l \in table[t] : l.id = r.id OBVIOUS
  <2> QED BY <2>1, <2>2, <2>3 DEF OnePlace
<1>2. ASSUME NEW s \in Stores, NEW q \in Procs, NEW m \in table'[s], NEW r \in job'[q].src,
             Writes(q)', m.id = r.id
      PROVE  s = job'[q].at /\ (pc'[q] = "add" => m.id \in clashed')
  <2>1. PICK k \in table[s] : k.id = m.id OBVIOUS
  <2>2. Writes(q) /\ job'[q] = job[q] /\ (pc'[q] = "add" => pc[q] = "add") BY <1>2
  <2> QED BY <1>2, <2>1, <2>2 DEF OnePlace
<1>3. ASSUME NEW q \in Procs, NEW v \in Procs, NEW m \in job'[q].src, NEW r \in job'[v].src,
             Writes(q)', Writes(v)', m.id = r.id
      PROVE  /\ job'[q].at = job'[v].at
             /\ pc'[q] = "add" /\ pc'[v] = "add" /\ q # v => m.id \in clashed'
  <2>1. /\ Writes(q) /\ job'[q] = job[q] /\ (pc'[q] = "add" => pc[q] = "add")
        /\ Writes(v) /\ job'[v] = job[v] /\ (pc'[v] = "add" => pc[v] = "add")
        BY <1>3
  <2> QED BY <1>3, <2>1 DEF OnePlace
<1>4. \A s \in Spaces : \A m, r \in table'[s] : m.id = r.id => m = r BY DEF OnePlace
<1> QED BY <1>1, <1>2, <1>3, <1>4 DEF OnePlace

\* The same where rows only go.
LEMMA FewerPlaces ==
  ASSUME OnePlace, clashed \subseteq clashed',
         \A s \in Stores : table'[s] \subseteq table[s],
         \A q \in Procs : Writes(q)' => /\ Writes(q) /\ job'[q] = job[q]
                                        /\ pc'[q] = "add" => pc[q] = "add"
  PROVE  OnePlace'
<1>1. \A s \in Stores : \A m \in table'[s] : \E r \in table[s] : r.id = m.id OBVIOUS
<1>2. \A s \in Spaces : \A m, r \in table'[s] : m \in table[s] /\ r \in table[s] BY Places
<1> QED BY <1>1, <1>2, SamePlaces

\* A step that reads.
LEMMA ReadsMemories ==
  ASSUME TypeOK, Memories, NEW p \in Procs, NEW c, NEW j, Reads(p, c, j),
         c # "add", \A m \in j.src \cup j.old : Known(m)
  PROVE  Memories' /\ \A m \in Memory : Known(m)' => Known(m)
<1>1. /\ pc'[p] = c /\ job'[p] = j
      /\ \A q \in Procs \ {p} : pc'[q] = pc[q] /\ job'[q] = job[q]
      BY TurnsOne DEF Reads
<1>2. table' = table /\ used' = used /\ clashed' = clashed BY DEF Reads
<1>3. \A m \in Memory : (IsRow(m)' => IsRow(m)) /\ (Alive(m)' => Alive(m))
      BY <1>1, <1>2 DEF Alive, IsRow, Holds
<1>4. \A m \in Memory : Known(m)' => Known(m)
  <2>1. ASSUME NEW m \in Memory, NEW q \in Procs, Seen(q, m)' PROVE Known(m)
    <3>1. m \in job'[q].src \/ m \in job'[q].old BY <2>1 DEF Seen
    <3>2. CASE q = p BY <1>1, <3>1, <3>2
    <3>3. CASE q # p BY <1>1, <3>1, <3>3 DEF Known, Seen
    <3> QED BY <3>2, <3>3
  <2> QED BY <1>3, <2>1 DEF Known
<1>5. Memories' BY <1>2, <1>3, <1>4, KeepMemories
<1> QED BY <1>4, <1>5

\* One that writes nothing back is in nobody's place.
LEMMA ReadsPlaces ==
  ASSUME TypeOK, OnePlace, NEW p \in Procs, NEW c, NEW j, Reads(p, c, j),
         c \notin {"embed", "add", "touch"}
  PROVE  OnePlace'
<1>1. /\ pc'[p] = c
      /\ \A q \in Procs \ {p} : pc'[q] = pc[q] /\ job'[q] = job[q]
      BY TurnsOne DEF Reads
<1>2. table' = table /\ clashed' = clashed BY DEF Reads
<1>3. \A q \in Procs : Writes(q)' => Writes(q) /\ job'[q] = job[q] /\ (pc'[q] = "add" => pc[q] = "add")
      BY <1>1 DEF Writes
<1> QED BY <1>2, <1>3, FewerPlaces

\* What a request of p has read is known.
LEMMA ReadIsKnown ==
  ASSUME NEW p \in Procs
  PROVE  \A m \in job[p].src \cup job[p].old : Known(m)
BY DEF Known, Seen

\* The rows are known.
LEMMA RowsAreKnown ==
  ASSUME NEW s \in SpaceIds
  PROVE  \A m \in RowsIn(s) : Alive(m) /\ Known(m)
BY DEF Known, Alive, IsRow, RowsIn

\* The start of shares.
LEMMA StartSharesMemories ==
  ASSUME TypeOK, Memories, OnePlace, NEW u \in Users, NEW s \in Spaces,
         NEW P, NEW f, P \subseteq IdleProcs, \A p \in P : f[p] \in table[u],
         StartShares(P, f, u, s)
  PROVE  Memories' /\ OnePlace' /\ \A m \in Memory : Known(m)' => Known(m)
<1>0. /\ TypeOK'
      /\ \A p \in P : /\ f[p] \in table[u] /\ f[p] \in Memory
                      /\ pc[p] = "idle" /\ pc'[p] = "check"
                      /\ job'[p].kind = "share" /\ job'[p].at = s /\ job'[p].within = u
                      /\ job'[p].src = {f[p]} /\ job'[p].old = {} /\ job'[p].new = {}
                      /\ job'[p].vec = {}
      /\ \A q \in Procs \ P : pc'[q] = pc[q] /\ job'[q] = job[q]
      BY StartSharesSays
<1>1. /\ \A p \in P : /\ f[p] \in table[u] /\ pc'[p] = "check"
                      /\ job'[p].src = {f[p]} /\ job'[p].old = {}
      /\ \A q \in Procs \ P : pc'[q] = pc[q] /\ job'[q] = job[q]
      BY <1>0
<1>2. table' = table /\ used' = used /\ clashed' = clashed BY DEF StartShares
<1>3. \A m \in Memory : (IsRow(m)' => IsRow(m)) /\ (Alive(m)' => Alive(m))
      BY <1>1, <1>2 DEF Alive, IsRow, Holds
<1>4. \A m \in table[u] : Known(m) BY Places DEF Known, Alive, IsRow
<1>5. \A m \in Memory : Known(m)' => Known(m)
  <2>1. ASSUME NEW m \in Memory, NEW q \in Procs, Seen(q, m)' PROVE Known(m)
    <3>1. m \in job'[q].src \/ m \in job'[q].old BY <2>1 DEF Seen
    <3>2. CASE q \in P BY <1>1, <1>4, <3>1, <3>2
    <3>3. CASE q \notin P BY <1>1, <3>1, <3>3 DEF Known, Seen
    <3> QED BY <3>2, <3>3
  <2> QED BY <1>3, <2>1 DEF Known
<1>6. Memories' BY <1>2, <1>3, <1>5, KeepMemories
<1>7. \A q \in Procs : Writes(q)' => Writes(q) /\ job'[q] = job[q] /\ (pc'[q] = "add" => pc[q] = "add")
      BY <1>1 DEF Writes
<1>8. OnePlace' BY <1>2, <1>7, FewerPlaces
<1> QED BY <1>5, <1>6, <1>8

\* A row that is read to be written back will go where it is.
LEMMA ReadToWriteMemories ==
  ASSUME TypeOK, Memories, OnePlace, NEW p \in Procs, NEW k \in WriteKinds,
         NEW c \in WritePhases, NEW s \in Stores, ReadToWrite(p, k, c, s)
  PROVE  Memories' /\ OnePlace' /\ \A m \in Memory : Known(m)' => Known(m)
<1>0. \E m \in table[s], j \in Job :
        /\ Reads(p, c, j) /\ m \in Memory /\ m.ver < MaxVersion
        /\ j.kind = k /\ j.at = s /\ j.src = {m} /\ j.old = {} /\ j.new = {}
      BY ReadToWriteSays
<1>1. PICK m \in table[s], j \in Job :
        /\ Reads(p, c, j) /\ m \in Memory /\ m.ver < MaxVersion
        /\ j.kind = k /\ j.at = s /\ j.src = {m} /\ j.old = {} /\ j.new = {}
      BY <1>0
<1>2. /\ pc'[p] = c /\ job'[p] = j /\ pc'[p] # "add"
      /\ \A q \in Procs \ {p} : pc'[q] = pc[q] /\ job'[q] = job[q]
      BY <1>1, TurnsOne DEF Reads, WritePhases
<1>3. table' = table /\ clashed' = clashed BY <1>1 DEF Reads
<1>4. Known(m) BY DEF Known, Alive, IsRow
<1>5. c # "add" /\ \A r \in j.src \cup j.old : Known(r) BY <1>1, <1>4 DEF WritePhases
<1>6. Memories' /\ \A r \in Memory : Known(r)' => Known(r) BY <1>1, <1>5, ReadsMemories
<1>7. ASSUME NEW q \in Procs, q # p, Writes(q)', NEW r \in job'[q].src, r.id = m.id
      PROVE  job'[q].at = s
  <2>1. Writes(q) /\ r \in job[q].src /\ job'[q].at = job[q].at BY <1>2, <1>7 DEF Writes
  <2> QED BY <1>7, <2>1 DEF OnePlace
<1>8. OnePlace'
  <2>1. \A t, v \in Stores : \A l \in table'[t], r \in table'[v] : l.id = r.id => t = v
        BY <1>3 DEF OnePlace
  <2>2. ASSUME NEW t \in Stores, NEW q \in Procs, NEW l \in table'[t], NEW r \in job'[q].src,
               Writes(q)', l.id = r.id
        PROVE  t = job'[q].at /\ (pc'[q] = "add" => l.id \in clashed')
    <3>1. CASE q = p
      <4>1. r = m /\ job'[q].at = s BY <1>1, <1>2, <2>2, <3>1
      <4> QED BY <1>2, <1>3, <2>2, <3>1, <4>1 DEF OnePlace
    <3>2. CASE q # p
      <4>1. pc'[q] = pc[q] /\ job'[q] = job[q] /\ Writes(q) BY <1>2, <2>2, <3>2 DEF Writes
      <4> QED BY <1>3, <2>2, <4>1 DEF OnePlace
    <3> QED BY <3>1, <3>2
  <2>3. ASSUME NEW q \in Procs, NEW v \in Procs, NEW l \in job'[q].src, NEW r \in job'[v].src,
               Writes(q)', Writes(v)', l.id = r.id
        PROVE  /\ job'[q].at = job'[v].at
               /\ pc'[q] = "add" /\ pc'[v] = "add" /\ q # v => l.id \in clashed'
    <3>1. CASE q = p /\ v = p BY <3>1
    <3>2. CASE q = p /\ v # p
      <4>1. l = m /\ job'[q].at = s BY <1>1, <1>2, <2>3, <3>2
      <4> QED BY <1>2, <1>7, <2>3, <3>2, <4>1
    <3>3. CASE q # p /\ v = p
      <4>1. r = m /\ job'[v].at = s BY <1>1, <1>2, <2>3, <3>3
      <4> QED BY <1>2, <1>7, <2>3, <3>3, <4>1
    <3>4. CASE q # p /\ v # p
      <4>1. /\ pc'[q] = pc[q] /\ job'[q] = job[q] /\ Writes(q)
            /\ pc'[v] = pc[v] /\ job'[v] = job[v] /\ Writes(v)
            BY <1>2, <2>3, <3>4 DEF Writes
      <4> QED BY <1>3, <2>3, <4>1 DEF OnePlace
    <3> QED BY <3>1, <3>2, <3>3, <3>4
  <2>4. \A t \in Spaces : \A l, r \in table'[t] : l.id = r.id => l = r BY <1>3 DEF OnePlace
  <2> QED BY <2>1, <2>2, <2>3, <2>4 DEF OnePlace
<1> QED BY <1>6, <1>8

\* A new row: it is there, and nothing else is new.
LEMMA AddsRows ==
  ASSUME TypeOK, NEW s, NEW n, Adds(s, n)
  PROVE  /\ s \in Stores /\ n \in Memory /\ n.id \notin used /\ used' = used \cup {n.id}
         /\ table'[s] = table[s] \cup {n}
         /\ \A t \in Stores \ {s} : table'[t] = table[t]
         /\ \A t \in Stores : table[t] \subseteq table'[t] /\ table'[t] \subseteq table[t] \cup {n}
BY DEF Adds, TypeOK

\* The insertion of a memory by a request that is not writing one back.
LEMMA AddsMemories ==
  ASSUME TypeOK, Memories, OnePlace, NEW s, NEW n, Adds(s, n), clashed' = clashed,
         \A q \in Procs : Writes(q)' => pc'[q] = pc[q] /\ job'[q] = job[q],
         \A q \in Procs : \A m \in job'[q].src \cup job'[q].old : Known(m) \/ m = n,
         \/ n.from = {} /\ n.ver = 1 /\ n.text = Own(n) /\ n.vec = {n.text}
         \/ \E m \in Memory : /\ Known(m) /\ CopyOf(n, m)
                              /\ \A v \in n.vec :
                                   v.of = m.text.of /\ v.of \notin clashed => v.at >= m.text.at
  PROVE  Memories' /\ OnePlace' /\ \A m \in Memory : Known(m)' => Known(m) \/ m = n
<1>1. /\ s \in Stores /\ n \in Memory /\ n.id \notin used /\ used' = used \cup {n.id}
      /\ \A t \in Stores \ {s} : table'[t] = table[t]
      /\ \A t \in Stores : table'[t] \subseteq table[t] \cup {n}
      BY AddsRows
<1>2. \A m \in Memory : (IsRow(m)' => IsRow(m) \/ m = n) /\ (Alive(m)' => Alive(m) \/ m = n)
      BY <1>1 DEF Alive, IsRow, Holds, Writes
<1>3. \A m \in Memory : Known(m)' => Known(m) \/ m = n
  <2>1. ASSUME NEW m \in Memory, NEW q \in Procs, Seen(q, m)' PROVE Known(m) \/ m = n
    <3>1. m \in job'[q].src \/ m \in job'[q].old BY <2>1 DEF Seen
    <3> QED BY <3>1
  <2> QED BY <1>2, <2>1 DEF Known
<1>4. Memories' BY <1>1, <1>2, <1>3, AddMemories
<1>5. \A m \in Memory : Known(m) => m.id # n.id
      BY <1>1 DEF Memories, Formed, WellFormed
<1>6. \A t \in Stores : \A m \in table[t] : m.id # n.id
      BY <1>5, ReadIsMemory DEF Known, Alive, IsRow
<1>7. \A q \in Procs : \A m \in job[q].src : m.id # n.id
      BY <1>5, ReadIsMemory DEF Known, Seen
<1>8. OnePlace'
  <2>1. ASSUME NEW t \in Stores, NEW v \in Stores, NEW m \in table'[t], NEW r \in table'[v],
               m.id = r.id
        PROVE  t = v /\ (t \in Spaces => m = r)
    <3>1. CASE m = n /\ r = n
      <4>1. t = s /\ v = s BY <1>1, <1>6, <3>1
      <4> QED BY <3>1, <4>1
    <3>2. CASE m # n /\ r # n
      <4>1. m \in table[t] /\ r \in table[v] BY <1>1, <3>2
      <4> QED BY <2>1, <4>1 DEF OnePlace
    <3>3. CASE (m = n /\ r # n) \/ (m # n /\ r = n)
      BY <1>1, <1>6, <2>1, <3>3
    <3> QED BY <3>1, <3>2, <3>3
  <2>2. ASSUME NEW t \in Stores, NEW q \in Procs, NEW m \in table'[t], NEW r \in job'[q].src,
               Writes(q)', m.id = r.id
        PROVE  t = job'[q].at /\ (pc'[q] = "add" => m.id \in clashed')
    <3>1. Writes(q) /\ pc'[q] = pc[q] /\ job'[q] = job[q] BY <2>2 DEF Writes
    <3>2. m # n BY <1>7, <2>2, <3>1
    <3>3. m \in table[t] BY <1>1, <3>2
    <3> QED BY <2>2, <3>1, <3>3 DEF OnePlace
  <2>3. ASSUME NEW q \in Procs, NEW v \in Procs, NEW m \in job'[q].src, NEW r \in job'[v].src,
               Writes(q)', Writes(v)', m.id = r.id
        PROVE  /\ job'[q].at = job'[v].at
               /\ pc'[q] = "add" /\ pc'[v] = "add" /\ q # v => m.id \in clashed'
    <3>1. /\ Writes(q) /\ pc'[q] = pc[q] /\ job'[q] = job[q]
          /\ Writes(v) /\ pc'[v] = pc[v] /\ job'[v] = job[v]
          BY <2>3 DEF Writes
    <3> QED BY <2>3, <3>1 DEF OnePlace
  <2>4. \A t \in Spaces : \A m, r \in table'[t] : m.id = r.id => m = r BY <2>1, Places
  <2> QED BY <2>1, <2>2, <2>3, <2>4 DEF OnePlace
<1> QED BY <1>3, <1>4, <1>8

\* Rows that go.
LEMMA GoneMemories ==
  ASSUME TypeOK, Memories, OnePlace, used' = used, clashed \subseteq clashed',
         \A s \in Stores : table'[s] \subseteq table[s],
         \A q \in Procs : (pc'[q] = pc[q] /\ job'[q] = job[q]) \/
            (~Writes(q)' /\ job'[q].src \subseteq job[q].src /\ job'[q].old \subseteq job[q].old)
  PROVE  Memories' /\ OnePlace' /\ \A m \in Memory : Known(m)' => Known(m)
<1>1. \A q \in Procs : Writes(q)' => Writes(q) /\ job'[q] = job[q] /\ (pc'[q] = "add" => pc[q] = "add")
      BY DEF Writes
<1>2. OnePlace' BY <1>1, FewerPlaces
<1>3. \A m \in Memory : (IsRow(m)' => IsRow(m)) /\ (Alive(m)' => Alive(m))
      BY DEF Alive, IsRow, Holds, Writes
<1>4. \A m \in Memory : Known(m)' => Known(m) BY <1>3 DEF Known, Seen
<1> QED BY <1>2, <1>3, <1>4, KeepMemories

\* The first half of an edit: the row is now in the job alone.
LEMMA EditDeleteMemories ==
  ASSUME TypeOK, Fit, Memories, OnePlace, NEW p \in Procs, EditDelete(p)
  PROVE  Memories' /\ OnePlace' /\ \A m \in Memory : Known(m)' => Known(m)
<1>1. /\ used' = used /\ pc[p] = "embed" /\ Turns(p, "add", job[p]) /\ clashed \subseteq clashed'
      BY EditDeleteSays
<1>2. PICK m \in Memory :
        /\ job[p].src = {m}
        /\ table' = [table EXCEPT ![job[p].at] = {r \in @ : r.id # m.id}]
        /\ m \in table[job[p].at] \/ m.id \in clashed'
      BY EditDeleteSays
<1>3. /\ pc'[p] = "add" /\ \A q \in Procs : job'[q] = job[q]
      /\ \A q \in Procs \ {p} : pc'[q] = pc[q]
      BY <1>1, TurnsOne
<1>4. job[p].at \in Stores BY ReadIsMemory DEF Job
<1>5. /\ table'[job[p].at] = {r \in table[job[p].at] : r.id # m.id}
      /\ \A t \in Stores : table'[t] \subseteq table[t]
      BY <1>2, <1>4 DEF TypeOK
<1>6. \A q \in Procs : Writes(q)' <=> Writes(q) BY <1>1, <1>3 DEF Writes
<1>7. \A r \in Memory : IsRow(r)' => IsRow(r) BY <1>5 DEF IsRow
<1>8. \A r \in Memory : Alive(r)' => Alive(r) \/ r.id \in clashed'
  <2>1. ASSUME NEW r \in Memory, NEW q \in Procs, Holds(q, r)' PROVE Alive(r) \/ r.id \in clashed'
    <3>1. CASE q = p
      <4>1. r = m BY <1>2, <1>3, <2>1, <3>1 DEF Holds
      <4> QED BY <1>2, <1>4, <4>1 DEF Alive, IsRow
    <3>2. CASE q # p BY <2>1, <3>2, <1>3 DEF Holds, Alive
    <3> QED BY <3>1, <3>2
  <2> QED BY <1>7, <2>1 DEF Alive
<1>9. \A r \in Memory : Known(r)' => Known(r)
  <2>1. ASSUME NEW r \in Memory, NEW q \in Procs, Holds(q, r)' PROVE Known(r)
        BY <1>3, <2>1 DEF Holds, Known, Seen
  <2> QED BY <1>3, <1>7, <2>1 DEF Known, Alive, Seen
<1>10. Memories' BY <1>1, <1>7, <1>8, <1>9, KeepMemories
<1>11. OnePlace'
  <2>1. \A s, t \in Stores : \A k \in table'[s], r \in table'[t] : k.id = r.id => s = t
        BY <1>5 DEF OnePlace
  <2>2. ASSUME NEW t \in Stores, NEW q \in Procs, NEW k \in table'[t], NEW r \in job'[q].src,
               Writes(q)', k.id = r.id
        PROVE  t = job'[q].at /\ (pc'[q] = "add" => k.id \in clashed')
    <3>1. k \in table[t] /\ r \in job[q].src /\ Writes(q) BY <1>3, <1>5, <1>6, <2>2
    <3>2. t = job[q].at /\ (pc[q] = "add" => k.id \in clashed) BY <2>2, <3>1 DEF OnePlace
    <3>3. CASE q = p
      <4>1. r = m BY <1>2, <3>1, <3>3
      <4> QED BY <1>5, <2>2, <3>2, <3>3, <4>1
    <3>4. CASE q # p BY <1>1, <1>3, <3>2, <3>4
    <3> QED BY <3>3, <3>4
  <2>3. ASSUME NEW q \in Procs, pc[q] = "add", NEW k \in job[q].src, k.id = m.id
        PROVE  k.id \in clashed'
    <3>1. CASE m \in table[job[p].at]
      <4>1. Writes(q) BY <2>3 DEF Writes
      <4> QED BY <1>1, <1>4, <2>3, <3>1, <4>1 DEF OnePlace
    <3>2. CASE m.id \in clashed' BY <2>3, <3>2
    <3> QED BY <1>2, <3>1, <3>2
  <2>4. ASSUME NEW q \in Procs, NEW v \in Procs, NEW k \in job'[q].src, NEW r \in job'[v].src,
               Writes(q)', Writes(v)', k.id = r.id
        PROVE  /\ job'[q].at = job'[v].at
               /\ pc'[q] = "add" /\ pc'[v] = "add" /\ q # v => k.id \in clashed'
    <3>1. /\ Writes(q) /\ job'[q] = job[q] /\ Writes(v) /\ job'[v] = job[v] BY <1>3, <1>6, <2>4
    <3>2. /\ job[q].at = job[v].at
          /\ pc[q] = "add" /\ pc[v] = "add" /\ q # v => k.id \in clashed
          BY <2>4, <3>1 DEF OnePlace
    <3>3. ASSUME pc'[q] = "add", pc'[v] = "add", q # v PROVE k.id \in clashed'
      <4>1. CASE q = p
        <5>1. k = m /\ pc[v] = "add" /\ r \in job[v].src BY <1>2, <1>3, <2>4, <3>1, <3>3, <4>1
        <5> QED BY <2>3, <2>4, <5>1
      <4>2. CASE v = p
        <5>1. r = m /\ pc[q] = "add" /\ k \in job[q].src BY <1>2, <1>3, <2>4, <3>1, <3>3, <4>2
        <5> QED BY <2>3, <2>4, <5>1
      <4>3. CASE q # p /\ v # p BY <1>1, <1>3, <3>2, <3>3, <4>3
      <4> QED BY <4>1, <4>2, <4>3
    <3> QED BY <3>1, <3>2, <3>3
  <2>5. \A s \in Spaces : \A k, r \in table'[s] : k.id = r.id => k = r
        BY <1>5, Places DEF OnePlace
  <2> QED BY <2>1, <2>2, <2>4, <2>5 DEF OnePlace
<1> QED BY <1>9, <1>10, <1>11

\* The second half: the next version is in the place of the one that was held.
LEMMA EditAddMemories ==
  ASSUME TypeOK, Fit, Memories, OnePlace, NEW p \in Procs, EditAdd(p)
  PROVE  /\ Memories' /\ OnePlace'
         /\ \A r \in Memory : Known(r)' => Known(r) \/
              \E k \in Memory : Known(k) /\ k.id = r.id /\ k.from = r.from
<1>1. /\ used' = used /\ clashed' = clashed /\ pc[p] = "add" /\ Turns(p, "idle", NoJob)
      /\ job[p].at \in Stores /\ job[p].at \notin Spaces
      BY EditAddSays, Places
<1>2. PICK m, e \in Memory :
              /\ job[p].src = {m} /\ NextOf(e, m) /\ Retexted(e)
              /\ table' = [table EXCEPT ![job[p].at] = @ \cup {e}]
      BY EditAddSays
<1>3. /\ pc'[p] = "idle" /\ job'[p] = NoJob
      /\ \A q \in Procs \ {p} : pc'[q] = pc[q] /\ job'[q] = job[q]
      BY <1>1, TurnsOne
<1>4. /\ table'[job[p].at] = table[job[p].at] \cup {e}
      /\ \A t \in Stores \ {job[p].at} : table'[t] = table[t]
      BY <1>1, <1>2 DEF TypeOK
<1>5. Holds(p, m) /\ Alive(m) /\ Known(m) BY <1>1, <1>2 DEF Holds, Alive, Known
<1>6. e.id = m.id /\ e.from = m.from /\ Rewrites(e, m) BY <1>2 DEF NextOf, Rewrites
<1>7. Writes(p) BY <1>1 DEF Writes
<1>8. \A t \in Stores : \A r \in table[t] : r.id = m.id => t = job[p].at /\ m.id \in clashed
      BY <1>1, <1>2, <1>7 DEF OnePlace
<1>9. \A q \in Procs \ {p} : pc[q] = "add" => \A r \in job[q].src : r.id = m.id => m.id \in clashed
  <2>1. \A q \in Procs : pc[q] = "add" => Writes(q) BY DEF Writes
  <2> QED BY <1>1, <1>2, <1>7, <2>1 DEF OnePlace
<1>10. \A r \in Memory : IsRow(r)' => IsRow(r) \/ r = e
       BY <1>4 DEF IsRow
<1>11. \A r \in Memory, q \in Procs : Holds(q, r)' => q # p /\ Holds(q, r)
       BY <1>3 DEF Holds
<1>12. \A r \in Memory : Alive(r)' => Alive(r) \/ r = e BY <1>10, <1>11 DEF Alive
<1>13. ASSUME m.id \notin clashed', NEW r \in Memory, Alive(r)', r.id = m.id PROVE r = e
  <2>1. ~IsRow(r) BY <1>1, <1>8, <1>13 DEF IsRow
  <2>2. \A q \in Procs : ~Holds(q, r)' BY <1>1, <1>9, <1>11, <1>13 DEF Holds
  <2> QED BY <1>10, <1>13, <2>1, <2>2 DEF Alive
<1>14. Alive(e)' BY <1>1, <1>4 DEF Alive, IsRow
<1>15. \A r \in Memory : Known(r)' => Known(r) \/ r = e
  <2>1. ASSUME NEW r \in Memory, NEW q \in Procs, Seen(q, r)' PROVE Known(r)
        BY <2>1, <1>3, NoJobType DEF Known, Seen
  <2> QED BY <1>12, <2>1 DEF Known
<1>16. Memories'
  <2>1. \A k \in Memory : Known(k)' => Known(k) \/ (Rewrites(k, m) /\ Alive(k)')
        BY <1>6, <1>14, <1>15
  <2>2. \A k \in Memory : IsRow(k)' => IsRow(k) \/ Rewrites(k, m) BY <1>6, <1>10
  <2>3. \A k \in Memory : Alive(k)' => Alive(k) \/ Rewrites(k, m) BY <1>6, <1>12
  <2>4. m.id \notin clashed' =>
          /\ Alive(m)
          /\ \A k \in Memory : Alive(k)' /\ k.id = m.id => Rewrites(k, m)
          /\ \A k, l \in Memory : Alive(k)' /\ Alive(l)' /\ k.id = m.id /\ l.id = m.id => k = l
        BY <1>5, <1>6, <1>13
  <2> QED BY <1>1, <1>5, <2>1, <2>2, <2>3, <2>4, RewriteMemories
<1>17. \A q \in Procs : Writes(q)' => q # p /\ Writes(q) /\ pc'[q] = pc[q] /\ job'[q] = job[q]
       BY <1>3 DEF Writes
<1>18. OnePlace'
  <2>1. ASSUME NEW t \in Stores, NEW v \in Stores, NEW k \in table'[t], NEW r \in table'[v],
               k.id = r.id
        PROVE  t = v
    <3>1. k \in table[t] \/ (k = e /\ t = job[p].at) BY <1>4
    <3>2. r \in table[v] \/ (r = e /\ v = job[p].at) BY <1>4
    <3>3. CASE k \in table[t] /\ r \in table[v] BY <2>1, <3>3 DEF OnePlace
    <3> QED BY <1>6, <1>8, <2>1, <3>1, <3>2, <3>3
  <2>2. ASSUME NEW t \in Stores, NEW q \in Procs, NEW k \in table'[t], NEW r \in job'[q].src,
               Writes(q)', k.id = r.id
        PROVE  t = job'[q].at /\ (pc'[q] = "add" => k.id \in clashed')
    <3>1. q # p /\ Writes(q) /\ pc'[q] = pc[q] /\ job'[q] = job[q] BY <1>17, <2>2
    <3>2. k \in table[t] \/ (k = e /\ t = job[p].at) BY <1>4
    <3>3. CASE k \in table[t] BY <1>1, <2>2, <3>1, <3>3 DEF OnePlace
    <3>4. CASE k = e /\ t = job[p].at
      <4>1. r \in job[q].src /\ r.id = m.id BY <1>6, <2>2, <3>1, <3>4
      <4>2. job[p].at = job[q].at BY <1>2, <1>7, <3>1, <4>1 DEF OnePlace
      <4> QED BY <1>1, <1>6, <1>9, <3>1, <3>4, <4>1, <4>2
    <3> QED BY <3>2, <3>3, <3>4
  <2>3. ASSUME NEW q \in Procs, NEW v \in Procs, NEW k \in job'[q].src, NEW r \in job'[v].src,
               Writes(q)', Writes(v)', k.id = r.id
        PROVE  /\ job'[q].at = job'[v].at
               /\ pc'[q] = "add" /\ pc'[v] = "add" /\ q # v => k.id \in clashed'
        BY <1>1, <1>17, <2>3 DEF OnePlace
  <2>4. \A t \in Spaces : \A k, r \in table'[t] : k.id = r.id => k = r
        BY <1>1, <1>4, Places DEF OnePlace
  <2> QED BY <2>1, <2>2, <2>3, <2>4 DEF OnePlace
<1> QED BY <1>5, <1>6, <1>15, <1>16, <1>18

\* A write-back: the next version is in the place of every row that it is written over.
LEMMA WriteBackMemories ==
  ASSUME TypeOK, Fit, Memories, OnePlace, NEW p \in Procs, WriteBack(p)
  PROVE  /\ Memories' /\ OnePlace'
         /\ \A r \in Memory : Known(r)' => Known(r) \/
              \E k \in Memory : Known(k) /\ k.id = r.id /\ k.from = r.from
<1>1. /\ used' = used /\ clashed \subseteq clashed' /\ pc[p] = "touch" /\ Turns(p, "idle", NoJob)
      /\ job[p].at \in Stores
      BY WriteBackSays
<1>2. PICK m \in Memory :
        /\ job[p].src = {m}
        /\ \A s \in Stores \ {job[p].at} : table'[s] = table[s]
        /\ \A k \in table'[job[p].at] :
             k \in Memory /\ \E r \in table[job[p].at] : WrittenBack(k, r, m)
        /\ \A r \in table[job[p].at] : \E k \in table'[job[p].at] : WrittenBack(k, r, m)
        /\ clashed' = clashed \cup {r.id : r \in RowsWithId(job[p].at, m.id) \ {m}}
      BY WriteBackSays
<1>3. /\ pc'[p] = "idle" /\ job'[p] = NoJob
      /\ \A q \in Procs \ {p} : pc'[q] = pc[q] /\ job'[q] = job[q]
      BY <1>1, TurnsOne
<1>4. Known(m) BY <1>2 DEF Known, Seen
<1>5. ASSUME NEW k, NEW r, r \in table[job[p].at], WrittenBack(k, r, m)
      PROVE  k.id = r.id /\ (k = r \/ (k.id = m.id /\ Rewrites(k, m)))
  <2>1. r \in Memory /\ IsRow(r) BY <1>1, <1>5, ReadIsMemory DEF IsRow
  <2> QED BY <1>5, <2>1 DEF WrittenBack, Rewrites, Retained, NextOf
<1>6. \A s \in Stores : \A k \in table'[s] : \E r \in table[s] :
        k.id = r.id /\ (k = r \/ (s = job[p].at /\ Rewrites(k, m)))
      BY <1>1, <1>2, <1>5
<1>7. \A k \in Memory : IsRow(k)' => IsRow(k) \/ Rewrites(k, m) BY <1>6 DEF IsRow
<1>8. \A k \in Memory, q \in Procs : Holds(q, k)' => Holds(q, k) BY <1>3 DEF Holds
<1>9. \A k \in Memory : Alive(k)' => Alive(k) \/ Rewrites(k, m) BY <1>7, <1>8 DEF Alive
<1>10. \A k \in Memory : Known(k)' => Known(k) \/ (Rewrites(k, m) /\ Alive(k)')
  <2>1. ASSUME NEW k \in Memory, NEW q \in Procs, Seen(q, k)' PROVE Known(k)
        BY <2>1, <1>3, NoJobType DEF Known, Seen
  <2> QED BY <1>9, <2>1 DEF Known
<1>11. ASSUME NEW a \in table[job[p].at], a.id = m.id, m.id \notin clashed'
       PROVE  /\ Alive(m)
              /\ \A k \in Memory : Alive(k)' /\ k.id = m.id => Rewrites(k, m)
              /\ \A k, l \in Memory : Alive(k)' /\ Alive(l)' /\ k.id = m.id /\ l.id = m.id
                                      => k = l
  <2>2. \A b \in table[job[p].at] : b.id = m.id => b = m
    <3>1. SUFFICES ASSUME NEW b \in table[job[p].at], b.id = m.id, b # m PROVE FALSE OBVIOUS
    <3>2. b \in RowsWithId(job[p].at, m.id) BY <1>1, <3>1 DEF RowsWithId, RowsIn
    <3> QED BY <1>2, <1>11, <3>1, <3>2
  <2>3. m \in table[job[p].at] BY <1>11, <2>2
  <2>4. \A s \in Stores : \A b \in table[s] : b.id = m.id => s = job[p].at
        BY <1>1, <2>3 DEF OnePlace
  <2>5. \A q \in Procs, k \in Memory : Holds(q, k) => k.id # m.id
    <3>1. \A q \in Procs : pc[q] = "add" => Writes(q) BY DEF Writes
    <3> QED BY <1>1, <1>11, <2>3, <3>1 DEF Holds, OnePlace
  <2>6. \A k \in Memory : Alive(k)' /\ k.id = m.id => k \in table'[job[p].at]
    <3>1. \A k \in Memory : Alive(k)' /\ k.id = m.id => IsRow(k)' BY <1>8, <2>5 DEF Alive
    <3>2. \A k \in Memory : IsRow(k)' /\ k.id = m.id => k \in table'[job[p].at]
          BY <1>6, <2>4 DEF IsRow
    <3> QED BY <3>1, <3>2
  <2>7. \A k \in table'[job[p].at] : k.id = m.id => WrittenBack(k, m, m)
    <3>1. SUFFICES ASSUME NEW k \in table'[job[p].at], k.id = m.id PROVE WrittenBack(k, m, m)
          OBVIOUS
    <3>2. PICK b \in table[job[p].at] : WrittenBack(k, b, m) BY <1>2
    <3>3. b = m BY <1>5, <2>2, <3>1, <3>2
    <3> QED BY <3>2, <3>3
  <2>8. \A k \in Memory : Alive(k)' /\ k.id = m.id => WrittenBack(k, m, m) BY <2>6, <2>7
  <2>9. \A k \in Memory : WrittenBack(k, m, m) => Rewrites(k, m)
    <3>1. m \in Memory /\ IsRow(m) BY <1>1, <2>3 DEF IsRow
    <3> QED BY <3>1 DEF WrittenBack, Rewrites, Retained
  <2>10. \A k, l \in Memory : WrittenBack(k, m, m) /\ WrittenBack(l, m, m) => k = l
         BY SameMemory DEF WrittenBack, NextOf
  <2> QED BY <1>1, <2>3, <2>8, <2>9, <2>10 DEF Alive, IsRow
<1>12. ASSUME \A b \in table[job[p].at] : b.id # m.id PROVE Memories'
  <2>1. \A s \in Stores : table'[s] \subseteq table[s] BY <1>2, <1>12 DEF WrittenBack
  <2>2. \A k \in Memory : (IsRow(k)' => IsRow(k)) /\ (Alive(k)' => Alive(k))
        BY <1>8, <2>1 DEF IsRow, Alive
  <2>3. \A k \in Memory : Known(k)' => Known(k) BY <1>10, <2>2 DEF Known
  <2> QED BY <1>1, <2>2, <2>3, KeepMemories
<1>15. ASSUME NEW a \in table[job[p].at], a.id = m.id PROVE Memories'
  <2>1. m.id \notin clashed' =>
          /\ Alive(m)
          /\ \A k \in Memory : Alive(k)' /\ k.id = m.id => Rewrites(k, m)
          /\ \A k, l \in Memory : Alive(k)' /\ Alive(l)' /\ k.id = m.id /\ l.id = m.id => k = l
        BY <1>11, <1>15
  <2> QED BY <1>1, <1>4, <1>7, <1>9, <1>10, <2>1, RewriteMemories
<1>13. OnePlace'
  <2>1. \A s \in Stores : \A k \in table'[s] : \E r \in table[s] : r.id = k.id BY <1>6
  <2>2. ASSUME NEW s \in Spaces, NEW k \in table'[s], NEW l \in table'[s], k.id = l.id
        PROVE  k = l \/ (k \in table[s] /\ l \in table[s])
    <3>1. CASE s # job[p].at BY <1>2, <3>1, Places
    <3>2. CASE s = job[p].at
      <4>1. PICK r \in table[s] : WrittenBack(k, r, m) BY <1>2, <3>2
      <4>2. PICK b \in table[s] : WrittenBack(l, b, m) BY <1>2, <3>2
      <4>3. r = b BY <1>5, <2>2, <3>2, <4>1, <4>2 DEF OnePlace
      <4>4. k \in Memory /\ l \in Memory BY <1>2, <3>2
      <4> QED BY <4>1, <4>2, <4>3, <4>4, SameMemory DEF WrittenBack, NextOf
    <3> QED BY <3>1, <3>2
  <2>3. \A q \in Procs : Writes(q)' => Writes(q) /\ job'[q] = job[q] /\ (pc'[q] = "add" => pc[q] = "add")
        BY <1>3 DEF Writes
  <2> QED BY <1>1, <2>1, <2>2, <2>3, SamePlaces
<1>14. \A k \in Memory : Rewrites(k, m) => k.id = m.id /\ k.from = m.from
       BY DEF Rewrites, NextOf
<1> QED BY <1>4, <1>10, <1>12, <1>13, <1>14, <1>15

-----------------------------------------------------------------------------
(* What the requests have in hand. *)

\* A request that does nothing has in hand what it had.
LEMMA FitStays ==
  ASSUME Fit, used \subseteq used', clashed \subseteq clashed',
         NEW q \in Procs, pc'[q] = pc[q], job'[q] = job[q]
  PROVE  FitAt(q)'
<1>1. FitAt(q) BY DEF Fit
<1>2. /\ (Resharing(q)' <=> Resharing(q)) /\ (OneSource(q)' <=> OneSource(q))
      /\ (OneNew(q)' <=> OneNew(q)) /\ (Writes(q)' <=> Writes(q))
      BY DEF Resharing, OneSource, OneNew, Writes
<1>3. (OldCopy(q) => OldCopy(q)') /\ (Unsharing(q)' <=> Unsharing(q))
  <2>1. ASSUME OldCopy(q) PROVE OldCopy(q)'
    <3>1. PICK c \in Memory, o \in Origin :
            /\ job[q].old = {c} /\ c.from = {o} /\ job[q].within = o.space
            /\ \A m \in job[q].src : m.id = o.id /\ (m.id \notin clashed => m.ver >= o.ver)
          BY <2>1 DEF OldCopy
    <3>2. \A m \in job'[q].src : m.id = o.id /\ (m.id \notin clashed' => m.ver >= o.ver)
          BY <3>1
    <3>3. job'[q].old = {c} /\ job'[q].within = o.space BY <3>1
    <3> QED BY <3>1, <3>2, <3>3 DEF OldCopy
  <2> QED BY <2>1 DEF Unsharing
<1>4. Copier(q) => Copier(q)' BY <1>2, <1>3 DEF Copier
<1>5. job[q].new \subseteq used => job'[q].new \subseteq used' OBVIOUS
<1> QED BY <1>1, <1>2, <1>3, <1>4, <1>5 DEF FitAt

\* One request goes on, the others stay.
LEMMA FitTurn ==
  ASSUME TypeOK, Fit, used \subseteq used', clashed \subseteq clashed',
         NEW p \in Procs, NEW c, NEW j, Turns(p, c, j), FitAt(p)'
  PROVE  Fit'
<1>1. \A q \in Procs \ {p} : pc'[q] = pc[q] /\ job'[q] = job[q] BY TurnsOne
<1> QED BY <1>1, FitStays DEF Fit

\* A request that ends has nothing.
LEMMA FitIdle ==
  ASSUME TypeOK, Fit, used \subseteq used', clashed \subseteq clashed',
         NEW p \in Procs, Turns(p, "idle", NoJob)
  PROVE  Fit'
<1>1. pc'[p] = "idle" /\ job'[p] = NoJob BY TurnsOne
<1>2. FitAt(p)' BY <1>1, NoJobType DEF FitAt, NoJob, Writes
<1> QED BY <1>2, FitTurn

\* The steps that read.
LEMMA ShareCheckFit ==
  ASSUME TypeOK, Fit, NEW p \in Procs, ShareCheck(p)
  PROVE  Fit'
<1>1. pc[p] = "check" /\ (Reads(p, "idle", NoJob) \/ Reads(p, "vector", job[p]))
      BY ShareCheckSays
<1>2. CASE Reads(p, "idle", NoJob) BY <1>2, FitIdle DEF Reads
<1>3. CASE Reads(p, "vector", job[p])
  <2>1. /\ pc'[p] = "vector" /\ job'[p] = job[p] /\ used' = used /\ clashed' = clashed
        BY <1>3, TurnsOne DEF Reads
  <2>2. FitAt(p) BY DEF Fit
  <2>3. Copier(p) /\ OneSource(p) /\ job[p].new = {} BY <1>1, <2>2 DEF FitAt
  <2>4. Copier(p)' /\ OneSource(p)'
        BY <2>1, <2>3 DEF Copier, OneSource, Resharing, OldCopy
  <2>5. FitAt(p)' BY <2>1, <2>3, <2>4 DEF FitAt, Writes
  <2> QED BY <1>3, <2>1, <2>5, FitTurn DEF Reads
<1> QED BY <1>1, <1>2, <1>3

\* What a pull has read.
LEMMA PullStartFit ==
  ASSUME TypeOK, Fit, NEW p \in Procs, NEW u \in Users, NEW s \in Spaces, PullStart(p, u, s)
  PROVE  Fit'
<1>1. PICK m \in table[s], j \in Job :
              /\ Reads(p, "vector", j) /\ m \in Memory
              /\ j.kind = "pull" /\ j.at = u /\ j.within = s /\ j.src = {m}
              /\ j.old = {} /\ j.new = {} /\ j.vec = {}
      BY PullStartSays
<1>2. /\ pc'[p] = "vector" /\ job'[p] = j /\ used' = used /\ clashed' = clashed
      BY <1>1, TurnsOne DEF Reads
<1>3. Copier(p)' BY <1>1, <1>2 DEF Copier, Resharing
<1>4. OneSource(p)' BY <1>1, <1>2 DEF OneSource
<1>5. FitAt(p)' BY <1>1, <1>2, <1>3, <1>4 DEF FitAt, Writes
<1> QED BY <1>1, <1>2, <1>5, FitTurn DEF Reads

\* A reshare has a copy with one origin, and will look in the store it names.
LEMMA ReshareStartFit ==
  ASSUME TypeOK, Fit, Formed, NEW p \in Procs, NEW u \in Users, NEW s \in Stores, ReshareStart(p, u, s)
  PROVE  Fit'
<1>1. PICK c \in table[s] : \E o \in c.from : \E j \in Job :
              /\ Reads(p, "source", j) /\ c \in Memory /\ o \in Origin
              /\ j.kind = "reshare" /\ j.at = s /\ j.within = o.space /\ j.src = {}
              /\ j.old = {c} /\ j.new = {} /\ j.vec = {}
      BY ReshareStartSays
<1>2. PICK o \in c.from, j \in Job :
              /\ Reads(p, "source", j) /\ c \in Memory /\ o \in Origin
              /\ j.kind = "reshare" /\ j.at = s /\ j.within = o.space /\ j.src = {}
              /\ j.old = {c} /\ j.new = {} /\ j.vec = {}
      BY <1>1
<1>3. /\ pc'[p] = "source" /\ job'[p] = j /\ used' = used /\ clashed' = clashed
      BY <1>2, TurnsOne DEF Reads
<1>4. c.from = {o}
  <2>1. Known(c) BY DEF Known, Alive, IsRow
  <2> QED BY <1>2, <2>1 DEF Formed, WellFormed
<1>5. Copier(p)' BY <1>2, <1>3, <1>4 DEF Copier, Resharing, OldCopy
<1>6. FitAt(p)' BY <1>2, <1>3, <1>5 DEF FitAt, Resharing, Writes
<1> QED BY <1>2, <1>3, <1>6, FitTurn DEF Reads

\* The source is not older than the version that the old copy was made from, unless
\* two writes have clashed.
LEMMA ReshareSourceFit ==
  ASSUME TypeOK, Fit, Memories, NEW p \in Procs, ReshareSource(p)
  PROVE  Fit'
<1>1. CASE Reads(p, "idle", NoJob) BY <1>1, FitIdle DEF Reads
<1>2. ASSUME NEW m \in RowsIn(job[p].within), NEW j \in Job,
             Reads(p, "vector", j), m \in Memory,
             j.kind = job[p].kind, j.at = job[p].at, j.within = job[p].within,
             j.src = {m}, j.old = job[p].old, j.new = job[p].new,
             \A c \in job[p].old, o \in Origin : o \in c.from => m.id = o.id
      PROVE  Fit'
  <2>1. /\ pc'[p] = "vector" /\ job'[p] = j /\ used' = used /\ clashed' = clashed
        BY <1>2, TurnsOne DEF Reads
  <2>2. FitAt(p) /\ pc[p] = "source" BY ReshareSourceSays DEF Fit
  <2>3. Resharing(p) /\ Copier(p) /\ job[p].new = {} BY <2>2 DEF FitAt
  <2>4. PICK c \in Memory, o \in Origin : job[p].old = {c} /\ c.from = {o} /\ job[p].within = o.space
        BY <2>3 DEF Copier, OldCopy
  <2>5. m.id = o.id /\ (m.id \notin clashed => m.ver >= o.ver)
    <3>1. job[p].within \in SpaceIds BY ReadIsMemory DEF Job
    <3>2. Alive(m) /\ Known(c) BY <2>4, <3>1, RowsAreKnown, ReadIsKnown
    <3>3. Follows(c, m) BY <1>2, <3>2 DEF Memories, SourcesAhead
    <3>4. o \in c.from /\ c \in job[p].old BY <2>4
    <3> QED BY <1>2, <3>3, <3>4 DEF Follows
  <2>6. OldCopy(p)'
    <3>1. \A k \in job'[p].src : k.id = o.id /\ (k.id \notin clashed' => k.ver >= o.ver)
          BY <1>2, <2>1, <2>5
    <3>2. job'[p].old = {c} /\ job'[p].within = o.space BY <1>2, <2>1, <2>4
    <3> QED BY <2>4, <3>1, <3>2 DEF OldCopy
  <2>7. Copier(p)' BY <1>2, <2>1, <2>3, <2>6 DEF Copier, Resharing
  <2>8. OneSource(p)' BY <1>2, <2>1 DEF OneSource
  <2>9. FitAt(p)' BY <1>2, <2>1, <2>3, <2>7, <2>8 DEF FitAt, Writes
  <2> QED BY <1>2, <2>1, <2>9, FitTurn DEF Reads
<1> QED BY <1>1, <1>2, ReshareSourceSays

\* The embedding is not of an earlier text than the source that was read.
LEMMA ReadVectorFit ==
  ASSUME TypeOK, Fit, Memories, NEW p \in Procs, ReadVector(p)
  PROVE  Fit'
<1>1. PICK j \in Job :
              /\ Reads(p, "create", j)
              /\ j.kind = job[p].kind /\ j.at = job[p].at /\ j.within = job[p].within
              /\ j.src = job[p].src /\ j.old = job[p].old /\ j.new = job[p].new
              /\ \A v \in j.vec : \E m \in job[p].src : \E r \in RowsIn(job[p].within) :
                   r.id = m.id /\ v \in r.vec
      BY ReadVectorSays
<1>2. /\ pc'[p] = "create" /\ job'[p] = j /\ used' = used /\ clashed' = clashed
      BY <1>1, TurnsOne DEF Reads
<1>3. FitAt(p) /\ pc[p] = "vector" BY ReadVectorSays DEF Fit
<1>4. Copier(p) /\ OneSource(p) /\ job[p].new = {} BY <1>3 DEF FitAt
<1>5. PICK m \in Memory : job[p].src = {m} BY <1>4 DEF OneSource
<1>6. ASSUME NEW v \in j.vec, v.of = m.text.of, v.of \notin clashed PROVE v.at >= m.text.at
  <2>1. PICK r \in RowsIn(job[p].within) : r.id = m.id /\ v \in r.vec BY <1>1, <1>5
  <2>2. job[p].within \in SpaceIds BY ReadIsMemory DEF Job
  <2>3. r \in Memory /\ IsRow(r) BY <2>1, <2>2, ReadIsMemory DEF IsRow, RowsIn
  <2>4. m \in Memory /\ Known(m) BY <1>5, ReadIsKnown
  <2>5. Matches(m, r) BY <2>1, <2>3, <2>4 DEF Memories, VectorsAhead
  <2> QED BY <1>6, <2>1, <2>5 DEF Matches
<1>7. Copier(p)' BY <1>1, <1>2, <1>4 DEF Copier, Resharing, OldCopy
<1>8. OneSource(p)' BY <1>1, <1>2, <1>4 DEF OneSource
<1>10. \A k \in job'[p].src, v \in job'[p].vec :
         v.of = k.text.of /\ v.of \notin clashed' => v.at >= k.text.at
       BY <1>1, <1>2, <1>5, <1>6
<1>9. FitAt(p)' BY <1>1, <1>2, <1>4, <1>7, <1>8, <1>10 DEF FitAt, Writes
<1> QED BY <1>1, <1>2, <1>9, FitTurn DEF Reads

\* An unshare has a copy and the id that it is of.
LEMMA UnshareStartFit ==
  ASSUME TypeOK, Fit, Formed, NEW p \in Procs, NEW u \in Users, NEW s \in Spaces, UnshareStart(p, u, s)
  PROVE  Fit'
<1>1. PICK c \in table[s], j \in Job : \E o \in Origin :
              /\ Reads(p, "delete", j) /\ c \in Memory /\ c.from = {o}
              /\ j.kind = "unshare" /\ j.at = s /\ j.src = {} /\ j.old = {c}
              /\ j.new = {o.id} /\ o.id \in used
      BY UnshareStartSays
<1>2. PICK o \in Origin :
              /\ Reads(p, "delete", j) /\ c \in Memory /\ c.from = {o}
              /\ j.kind = "unshare" /\ j.at = s /\ j.src = {} /\ j.old = {c}
              /\ j.new = {o.id} /\ o.id \in used
      BY <1>1
<1>3. /\ pc'[p] = "delete" /\ job'[p] = j /\ used' = used /\ clashed' = clashed
      BY <1>2, TurnsOne DEF Reads
<1>4. Unsharing(p)' BY <1>2, <1>3 DEF Unsharing
<1>5. FitAt(p)' BY <1>2, <1>3, <1>4 DEF FitAt, Writes
<1> QED BY <1>2, <1>3, <1>5, FitTurn DEF Reads

\* Each request that starts to copy has one row of the personal store.
LEMMA StartSharesFit ==
  ASSUME TypeOK, Fit, NEW u \in Users, NEW s \in Spaces, NEW P, NEW f, P \subseteq IdleProcs,
         \A p \in P : f[p] \in table[u], StartShares(P, f, u, s)
  PROVE  Fit'
<1>1. /\ \A p \in P : /\ f[p] \in Memory /\ pc'[p] = "check"
                      /\ job'[p].kind = "share" /\ job'[p].at = s /\ job'[p].within = u
                      /\ job'[p].src = {f[p]} /\ job'[p].old = {} /\ job'[p].new = {}
      /\ \A q \in Procs \ P : pc'[q] = pc[q] /\ job'[q] = job[q]
      BY StartSharesSays
<1>2. used' = used /\ clashed' = clashed BY DEF StartShares
<1>3. ASSUME NEW p \in P PROVE FitAt(p)'
  <2>1. Copier(p)' BY <1>1 DEF Copier, Resharing
  <2>2. OneSource(p)' BY <1>1 DEF OneSource
  <2> QED BY <1>1, <2>1, <2>2 DEF FitAt, Writes
<1> QED BY <1>1, <1>2, <1>3, FitStays DEF Fit

\* A request that will write back has what it has read.
LEMMA ReadToWriteFit ==
  ASSUME TypeOK, Fit, NEW p \in Procs, NEW k \in WriteKinds, NEW c \in WritePhases,
         NEW s \in Stores, ReadToWrite(p, k, c, s), c = "touch" \/ s \in Users
  PROVE  Fit'
<1>0. \E m \in table[s], j \in Job :
        /\ Reads(p, c, j) /\ m \in Memory /\ m.ver < MaxVersion
        /\ j.kind = k /\ j.at = s /\ j.src = {m} /\ j.old = {} /\ j.new = {}
      BY ReadToWriteSays
<1>1. PICK m \in table[s], j \in Job :
        /\ Reads(p, c, j) /\ m \in Memory /\ m.ver < MaxVersion
        /\ j.kind = k /\ j.at = s /\ j.src = {m} /\ j.old = {} /\ j.new = {}
      BY <1>0
<1>2. pc'[p] = c /\ job'[p] = j /\ used' = used /\ clashed' = clashed
      BY <1>1, TurnsOne DEF Reads
<1>3. FitAt(p)' BY <1>1, <1>2 DEF FitAt, Writes, WriteKinds, WritePhases
<1> QED BY <1>1, <1>2, <1>3, FitTurn DEF Reads

\* The steps that write.
LEMMA CreateCopyFit ==
  ASSUME TypeOK, Fit, NEW p \in Procs, CreateCopy(p)
  PROVE  Fit'
<1>1. PICK m, n \in Memory, j \in Job :
              /\ job[p].src = {m} /\ Adds(job[p].at, n)
              /\ Turns(p, IF Resharing(p) THEN "delete" ELSE "event", j)
              /\ j.kind = job[p].kind /\ j.at = job[p].at /\ j.within = job[p].within
              /\ j.src = {m} /\ j.old = job[p].old /\ j.new = {n.id} /\ j.vec = job[p].vec
      BY CreateCopySays
<1>2. /\ pc'[p] = (IF Resharing(p) THEN "delete" ELSE "event") /\ job'[p] = j
      /\ used' = used \cup {n.id}
      BY <1>1, TurnsOne DEF Adds
<1>3. FitAt(p) /\ pc[p] = "create" /\ clashed' = clashed BY CreateCopySays DEF Fit
<1>4. Copier(p) BY <1>3 DEF FitAt
<1>5. Copier(p)' /\ OneSource(p)' /\ (Resharing(p)' <=> Resharing(p))
      BY <1>1, <1>2, <1>3, <1>4 DEF Copier, Resharing, OldCopy, OneSource
<1>7. OneNew(p)' BY <1>1, <1>2, ReadIsMemory DEF OneNew
<1>6. FitAt(p)' BY <1>1, <1>2, <1>5, <1>7 DEF FitAt, Writes
<1> QED BY <1>1, <1>2, <1>3, <1>6, FitTurn

\* After the delete a request has what it had.
LEMMA DeleteCopyFit ==
  ASSUME TypeOK, Fit, NEW p \in Procs, DeleteCopy(p)
  PROVE  Fit'
<1>1. /\ pc[p] = "delete" /\ used' = used /\ clashed' = clashed
      /\ Turns(p, "event", job[p])
      BY DeleteCopySays
<1>2. pc'[p] = "event" /\ job'[p] = job[p] BY <1>1, TurnsOne
<1>3. FitAt(p) BY DEF Fit
<1>4. (Copier(p) /\ OneSource(p)) \/ Unsharing(p) BY <1>1, <1>3 DEF FitAt
<1>5. (Copier(p) /\ OneSource(p))' \/ Unsharing(p)'
      BY <1>1, <1>2, <1>4 DEF Copier, Resharing, OldCopy, OneSource, Unsharing
<1>6. FitAt(p)' BY <1>1, <1>2, <1>3, <1>5 DEF FitAt, Writes
<1> QED BY <1>1, <1>6, FitTurn

\* The task of a new memory has that memory, whose space_id is blank.
LEMMA CreateMemoryFit ==
  ASSUME TypeOK, Fit, NEW p \in Procs, NEW u \in Users, CreateMemory(p, u)
  PROVE  Fit'
<1>1. PICK n \in Memory, j \in Job :
              /\ Adds(u, n) /\ Turns(p, "auto", j) /\ n.space = "blank"
              /\ j.kind = "auto" /\ j.src = {n} /\ j.old = {} /\ j.new = {}
      BY CreateMemorySays
<1>2. pc'[p] = "auto" /\ job'[p] = j /\ used' = used \cup {n.id} BY <1>1, TurnsOne DEF Adds
<1>3. FitAt(p)' BY <1>1, <1>2 DEF FitAt, Writes
<1>4. clashed' = clashed BY CreateMemorySays
<1> QED BY <1>1, <1>2, <1>3, <1>4, FitTurn

\* An edit goes on with what it has read.
LEMMA EditDeleteFit ==
  ASSUME TypeOK, Fit, NEW p \in Procs, EditDelete(p)
  PROVE  Fit'
<1>1. used' = used /\ pc[p] = "embed" /\ Turns(p, "add", job[p]) /\ clashed \subseteq clashed'
      BY EditDeleteSays
<1>2. pc'[p] = "add" /\ job'[p] = job[p] BY <1>1, TurnsOne
<1>3. FitAt(p) BY DEF Fit
<1>4. FitAt(p)' BY <1>1, <1>2, <1>3 DEF FitAt, Writes
<1> QED BY <1>1, <1>4, FitTurn

-----------------------------------------------------------------------------
(* What reshares have made, what is available, what is logged. *)

\* The ids of what is known are used.
LEMMA KnownIsUsed ==
  ASSUME Formed, NEW m \in Memory, Known(m)
  PROVE  m.id \in used
BY DEF Formed, WellFormed

\* What a step that makes no copy of a reshare leaves of those made: a memory is one
\* that was known, in this version or another.
KnownOf(m) == \E k \in Memory : Known(k) /\ k.id = m.id /\ k.from = m.from

LEMMA MadeKeeps ==
  ASSUME TypeOK, Fit, Made,
         \A q \in Procs : Making(q)' => Making(q) /\ job'[q] = job[q],
         \A m \in Memory : Known(m)' => KnownOf(m) \/ m.id \notin used,
         \A s \in Spaces : \A m \in table'[s] : m.id \notin used \/ \E r \in table[s] : r.id = m.id
  PROVE  Made'
<1>1. ASSUME NEW q \in Procs, Making(q)' PROVE MadeOf(q)'
  <2>1. Making(q) /\ job'[q] = job[q] BY <1>1
  <2>2. MadeOf(q) BY <2>1 DEF Made
  <2>3. job[q].new \subseteq used BY DEF Fit, FitAt
  <2>4. OldIds(q)' = OldIds(q) BY <2>1 DEF OldIds
  <2>5. ASSUME NEW c \in Memory, Known(c)', c.id \in job'[q].new
        PROVE  /\ c.id \notin OldIds(q)'
               /\ \A o \in c.from, m \in job'[q].src : o.id = m.id /\ o.ver = m.ver
    <3>1. PICK k \in Memory : Known(k) /\ k.id = c.id /\ k.from = c.from
          BY <2>1, <2>3, <2>5 DEF KnownOf
    <3> QED BY <2>1, <2>2, <2>4, <2>5, <3>1 DEF MadeOf
  <2>6. ASSUME NEW s \in Spaces, NEW c \in table'[s], c.id \in job'[q].new
        PROVE  s = job'[q].at
    <3>1. PICK r \in table[s] : r.id = c.id BY <2>1, <2>3, <2>6
    <3> QED BY <2>1, <2>2, <2>6, <3>1 DEF MadeOf
  <2> QED BY <2>5, <2>6 DEF MadeOf
<1> QED BY <1>1 DEF Made

\* A reshare's copy is of the source that it read, in the place of the old one.
LEMMA CreateCopyMade ==
  ASSUME TypeOK, Fit, Memories, OnePlace, Made, NEW p \in Procs, CreateCopy(p)
  PROVE  Made'
<1>1. PICK m, n \in Memory, j \in Job :
              /\ job[p].src = {m} /\ CopyOf(n, m) /\ Adds(job[p].at, n)
              /\ Turns(p, IF Resharing(p) THEN "delete" ELSE "event", j)
              /\ j.kind = job[p].kind /\ j.at = job[p].at /\ j.within = job[p].within
              /\ j.src = {m} /\ j.old = job[p].old /\ j.new = {n.id} /\ j.vec = job[p].vec
      BY CreateCopySays
<1>2. /\ pc'[p] = (IF Resharing(p) THEN "delete" ELSE "event") /\ job'[p] = j
      /\ \A q \in Procs \ {p} : pc'[q] = pc[q] /\ job'[q] = job[q]
      BY <1>1, TurnsOne
<1>3. pc[p] = "create" BY CreateCopySays
<1>4. /\ n.id \notin used /\ \A t \in Stores : table'[t] \subseteq table[t] \cup {n}
      /\ \A t \in Stores \ {job[p].at} : table'[t] = table[t]
      BY <1>1, AddsRows
<1>5. \A c \in Memory : Known(c)' => Known(c) \/ c = n
  <2>1. ASSUME NEW c \in Memory, NEW q \in Procs, Holds(q, c)' \/ Seen(q, c)' PROVE Known(c)
    <3>1. job'[q].src = job[q].src /\ job'[q].old = job[q].old BY <1>1, <1>2
    <3> QED BY <2>1, <3>1 DEF Known, Holds, Seen
  <2> QED BY <1>4, <2>1 DEF Known, Alive, IsRow
<1>6. \A c \in Memory : Known(c) => c.id \in used BY KnownIsUsed DEF Memories
<1>7. \A q \in Procs : job[q].new \subseteq used BY DEF Fit, FitAt
<1>8. ASSUME NEW q \in Procs, Making(q)' PROVE MadeOf(q)'
  <2>1. CASE q # p
    <3>1. Making(q) /\ job'[q] = job[q] BY <1>2, <1>8, <2>1 DEF Making, Resharing
    <3>2. MadeOf(q) BY <3>1 DEF Made
    <3>3. OldIds(q)' = OldIds(q) BY <3>1 DEF OldIds
    <3>4. ASSUME NEW c \in Memory, Known(c)', c.id \in job'[q].new
          PROVE  /\ c.id \notin OldIds(q)'
                 /\ \A o \in c.from, k \in job'[q].src : o.id = k.id /\ o.ver = k.ver
      <4>1. Known(c) BY <1>4, <1>5, <1>7, <3>1, <3>4
      <4> QED BY <3>1, <3>2, <3>3, <3>4, <4>1 DEF MadeOf
    <3>5. ASSUME NEW s \in Spaces, NEW c \in table'[s], c.id \in job'[q].new PROVE s = job'[q].at
      <4>1. c \in table[s] BY <1>4, <1>7, <3>1, <3>5, Places
      <4> QED BY <3>1, <3>2, <3>5, <4>1 DEF MadeOf
    <3> QED BY <3>4, <3>5 DEF MadeOf
  <2>2. CASE q = p
    <3>1. \A c \in job[p].old : c.id \in used
          BY ReadIsKnown, ReadIsMemory, KnownIsUsed DEF Memories
    <3>2. OldIds(p)' = OldIds(p) BY <1>1, <1>2 DEF OldIds
    <3>3. n.id \notin OldIds(p)' BY <1>4, <3>1, <3>2 DEF OldIds
    <3>4. \A c \in Memory : Known(c)' /\ c.id \in job'[p].new => c = n
          BY <1>1, <1>2, <1>4, <1>5, <1>6
    <3>5. \A o \in n.from : o.id = m.id /\ o.ver = m.ver BY <1>1 DEF CopyOf
    <3>6. \A s \in Spaces : \A c \in table'[s] : c.id \in job'[p].new => s = job'[p].at
      <4>1. SUFFICES ASSUME NEW s \in Spaces, NEW c \in table'[s], c.id = n.id, s # job[p].at
                     PROVE  FALSE
            BY <1>1, <1>2
      <4>2. c \in table[s] BY <1>4, <4>1, Places
      <4>3. Known(c) /\ c \in Memory BY <4>2, Places, ReadIsMemory DEF Known, Alive, IsRow
      <4> QED BY <1>4, <1>6, <4>1, <4>3
    <3> QED BY <1>1, <1>2, <2>2, <3>3, <3>4, <3>5, <3>6 DEF MadeOf
  <2> QED BY <2>1, <2>2
<1> QED BY <1>8 DEF Made

\* What is available stays so, unless a reshare comes to its delete, or rows of
\* a space go.
LEMMA AvailableKeeps ==
  ASSUME TypeOK, Available, shared' \subseteq shared,
         \A s \in Spaces : \A c \in table[s] : \E d \in table'[s] : d.id = c.id /\ d.from = c.from,
         \A q \in Procs : pc'[q] = "delete" /\ Resharing(q)' =>
            pc[q] = "delete" /\ job'[q] = job[q]
  PROVE  Available'
<1>1. ASSUME NEW s \in Stores, NEW c, NEW d, c.id = d.id, Threatened(s, d)'
      PROVE  Threatened(s, c)
      BY <1>1 DEF Threatened, OldIds, Resharing
<1>2. ASSUME NEW t \in shared' PROVE \E c \in CopiesOf(t[1], t[2])' : ~Threatened(t[1], c)'
  <2>1. PICK c \in CopiesOf(t[1], t[2]) : ~Threatened(t[1], c) BY DEF Available
  <2>2. t[1] \in Spaces /\ t[1] \in Stores BY Places DEF TypeOK
  <2>3. PICK d \in table'[t[1]] : d.id = c.id /\ d.from = c.from BY <2>1, <2>2 DEF CopiesOf
  <2>4. d \in CopiesOf(t[1], t[2])' BY <2>1, <2>3 DEF CopiesOf
  <2>5. ~Threatened(t[1], d)' BY <1>1, <2>1, <2>2, <2>3
  <2> QED BY <2>4, <2>5
<1> QED BY <1>2 DEF Available

\* The copy of a reshare makes up for the old one.
LEMMA CreateCopyAvailable ==
  ASSUME TypeOK, Fit, Memories, Available, NEW p \in Procs, CreateCopy(p)
  PROVE  Available'
<1>1. PICK m, n \in Memory, j \in Job :
              /\ job[p].src = {m} /\ CopyOf(n, m) /\ Adds(job[p].at, n)
              /\ Turns(p, IF Resharing(p) THEN "delete" ELSE "event", j)
              /\ j.kind = job[p].kind /\ j.at = job[p].at /\ j.within = job[p].within
              /\ j.src = {m} /\ j.old = job[p].old /\ j.new = {n.id} /\ j.vec = job[p].vec
              /\ shared' \subseteq shared \cup {<<job[p].at, m.id>>}
      BY CreateCopySays
<1>2. /\ pc'[p] = (IF Resharing(p) THEN "delete" ELSE "event") /\ job'[p] = j
      /\ \A q \in Procs \ {p} : pc'[q] = pc[q] /\ job'[q] = job[q]
      BY <1>1, TurnsOne
<1>3. FitAt(p) /\ pc[p] = "create" BY CreateCopySays DEF Fit
<1>4. /\ n.id \notin used /\ \A t \in Stores : table[t] \subseteq table'[t]
      /\ n \in table'[job[p].at] /\ job[p].at \in Stores
      BY <1>1, AddsRows
<1>5. PICK o \in Origin : n.from = {o} /\ o.id = m.id BY <1>1 DEF CopyOf
<1>9. PICK at \in Stores : at = job[p].at BY <1>4
<1>10. PICK i : i = m.id OBVIOUS
<1>6. n \in CopiesOf(at, i)' BY <1>4, <1>5, <1>9, <1>10 DEF CopiesOf
<1>7. ~Threatened(at, n)'
  <2>1. ASSUME NEW q \in Procs, n.id \in OldIds(q)' PROVE FALSE
    <3>1. n.id \in OldIds(q) BY <1>1, <1>2, <2>1 DEF OldIds
    <3>2. PICK c \in job[q].old : c.id = n.id BY <3>1 DEF OldIds
    <3>3. c.id \in used BY ReadIsKnown, ReadIsMemory, KnownIsUsed DEF Memories
    <3> QED BY <1>4, <3>2, <3>3
  <2> QED BY <2>1 DEF Threatened
<1>8. ASSUME NEW t \in shared' PROVE \E c \in CopiesOf(t[1], t[2])' : ~Threatened(t[1], c)'
  <2>1. CASE t = <<job[p].at, m.id>>
    <3>1. t[1] = at /\ t[2] = i BY <1>9, <1>10, <2>1
    <3> QED BY <1>6, <1>7, <3>1
  <2>2. CASE t # <<job[p].at, m.id>>
    <3>1. t \in shared /\ t \in Spaces \X Ids BY <1>1, <2>2 DEF TypeOK
    <3>2. PICK c \in CopiesOf(t[1], t[2]) : ~Threatened(t[1], c) BY <3>1 DEF Available
    <3>3. c \in table[t[1]] /\ t[1] \in Stores /\ c \in CopiesOf(t[1], t[2])'
          BY <1>4, <3>1, <3>2, Places DEF CopiesOf
    <3>4. ASSUME Threatened(t[1], c)' PROVE FALSE
      <4>1. PICK q \in Procs : /\ pc'[q] = "delete" /\ Resharing(q)' /\ job'[q].at = t[1]
                               /\ c.id \in OldIds(q)'
            BY <3>4 DEF Threatened
      <4>2. CASE q # p
        <5>1. Threatened(t[1], c) BY <1>2, <4>1, <4>2 DEF Threatened, OldIds, Resharing
        <5> QED BY <3>2, <5>1
      <4>3. CASE q = p
        <5>1. Resharing(p) /\ job[p].at = t[1] BY <1>1, <1>2, <4>1, <4>3 DEF Resharing
        <5>2. PICK b \in Memory, k \in Origin : job[p].old = {b} /\ b.from = {k} /\ m.id = k.id
              BY <1>1, <1>3, <5>1 DEF FitAt, Copier, OldCopy
        <5>3. c.id = b.id BY <1>1, <1>2, <4>1, <4>3, <5>2 DEF OldIds
        <5>4. Known(b) /\ Alive(c) /\ c \in Memory
              BY <3>3, <5>2, ReadIsKnown, ReadIsMemory DEF Alive, IsRow
        <5>5. c.from = b.from BY <5>3, <5>4 DEF Memories, Inherited, Known
        <5>6. \E l \in c.from : l.id = t[2] BY <3>2 DEF CopiesOf
        <5>7. t[2] = m.id BY <5>2, <5>5, <5>6
        <5>8. t = <<t[1], t[2]>> BY <3>1
        <5> QED BY <2>2, <5>1, <5>7, <5>8
      <4> QED BY <4>2, <4>3
    <3> QED BY <3>3, <3>4
  <2> QED BY <2>1, <2>2
<1> QED BY <1>8 DEF Available

\* A reshare deletes what it threatened, an unshare what it withdraws.
LEMMA DeleteCopyAvailable ==
  ASSUME TypeOK, Fit, Memories, Available, NEW p \in Procs, DeleteCopy(p)
  PROVE  Available'
<1>1. /\ pc[p] = "delete" /\ Turns(p, "event", job[p])
      /\ table' = [table EXCEPT ![job[p].at] = {m \in @ : m.id \notin OldIds(p)}]
      /\ shared' = IF job[p].kind = "unshare"
                   THEN shared \ {<<job[p].at, i>> : i \in job[p].new} ELSE shared
      BY DeleteCopySays
<1>2. /\ pc'[p] = "event" /\ job'[p] = job[p]
      /\ \A q \in Procs \ {p} : pc'[q] = pc[q] /\ job'[q] = job[q]
      BY <1>1, TurnsOne
<1>3. FitAt(p) BY DEF Fit
<1>4. ASSUME NEW s \in Stores, NEW c, Threatened(s, c)' PROVE Threatened(s, c)
      BY <1>2, <1>4 DEF Threatened, OldIds, Resharing
<1>5. ASSUME NEW t \in shared' PROVE \E c \in CopiesOf(t[1], t[2])' : ~Threatened(t[1], c)'
  <2>1. t \in shared /\ t \in Spaces \X Ids BY <1>1 DEF TypeOK
  <2>2. PICK c \in CopiesOf(t[1], t[2]) : ~Threatened(t[1], c) BY <2>1 DEF Available
  <2>3. c \in table[t[1]] /\ t[1] \in Stores BY <2>1, <2>2, Places DEF CopiesOf
  <2>4. c \in table'[t[1]]
    <3>1. CASE t[1] # job[p].at BY <1>1, <2>3, <3>1 DEF TypeOK
    <3>2. CASE t[1] = job[p].at /\ Resharing(p)
      <4>1. c.id \notin OldIds(p) BY <1>1, <2>2, <3>2 DEF Threatened
      <4> QED BY <1>1, <2>3, <3>2, <4>1 DEF TypeOK
    <3>3. CASE t[1] = job[p].at /\ ~Resharing(p)
      <4>1. Unsharing(p) BY <1>1, <1>3, <3>3 DEF FitAt
      <4>2. PICK b \in Memory, o \in Origin : job[p].old = {b} /\ b.from = {o} /\ job[p].new = {o.id}
            BY <4>1 DEF Unsharing
      <4>3. c.id # b.id
        <5>1. SUFFICES ASSUME c.id = b.id PROVE FALSE OBVIOUS
        <5>2. Known(b) /\ Alive(c) /\ c \in Memory
              BY <2>3, <4>2, ReadIsKnown, ReadIsMemory DEF Alive, IsRow
        <5>3. c.from = b.from BY <5>1, <5>2 DEF Memories, Inherited, Known
        <5>4. \E l \in c.from : l.id = t[2] BY <2>2 DEF CopiesOf
        <5>5. t[2] = o.id /\ t = <<t[1], t[2]>> BY <2>1, <4>2, <5>3, <5>4
        <5>6. shared' = shared \ {<<job[p].at, o.id>>} BY <1>1, <4>1, <4>2 DEF Unsharing
        <5> QED BY <1>5, <3>3, <5>5, <5>6
      <4>4. c.id \notin OldIds(p) BY <4>2, <4>3 DEF OldIds
      <4> QED BY <1>1, <2>3, <3>3, <4>4 DEF TypeOK
    <3> QED BY <3>1, <3>2, <3>3
  <2>5. c \in CopiesOf(t[1], t[2])' BY <2>2, <2>4 DEF CopiesOf
  <2> QED BY <1>4, <2>2, <2>3, <2>5
<1> QED BY <1>5 DEF Available

\* The sweep notes what is not shared any more.
LEMMA ForgetAvailable ==
  ASSUME TypeOK, OnePlace, Available, NEW s \in Stores, Forget(s)
  PROVE  Available'
<1>1. UNCHANGED <<pc, job>> /\ \A t \in Stores \ {s} : table'[t] = table[t] BY ForgetSays
<1>2. PICK m \in table[s] : /\ \A r \in table[s] : r.id # m.id => r \in table'[s]
                            /\ shared' = shared \ {<<s, o.id>> : o \in m.from}
      BY ForgetSays
<1>3. ASSUME NEW t \in Stores, NEW c, Threatened(t, c)' PROVE Threatened(t, c)
      BY <1>1, <1>3 DEF Threatened, OldIds, Resharing
<1>4. ASSUME NEW t \in shared' PROVE \E c \in CopiesOf(t[1], t[2])' : ~Threatened(t[1], c)'
  <2>1. t \in shared /\ t \in Spaces \X Ids BY <1>2 DEF TypeOK
  <2>2. PICK c \in CopiesOf(t[1], t[2]) : ~Threatened(t[1], c) BY <2>1 DEF Available
  <2>3. c \in table[t[1]] /\ t[1] \in Stores BY <2>1, <2>2, Places DEF CopiesOf
  <2>4. c \in table'[t[1]]
    <3>1. CASE t[1] # s BY <1>1, <2>3, <3>1
    <3>2. CASE t[1] = s
      <4>1. c.id # m.id
        <5>1. SUFFICES ASSUME c.id = m.id PROVE FALSE OBVIOUS
        <5>2. c = m BY <2>1, <2>3, <3>2, <5>1 DEF OnePlace
        <5>3. PICK o \in m.from : o.id = t[2] BY <2>2, <5>2 DEF CopiesOf
        <5>4. t = <<s, o.id>> BY <2>1, <3>2, <5>3
        <5> QED BY <1>2, <1>4, <5>4
      <4> QED BY <1>2, <2>3, <3>2, <4>1
    <3> QED BY <3>1, <3>2
  <2>5. c \in CopiesOf(t[1], t[2])' BY <2>2, <2>4 DEF CopiesOf
  <2> QED BY <1>3, <2>2, <2>3, <2>5
<1> QED BY <1>4 DEF Available

\* What is logged stays logged, if a request that ends logs what it made.
LEMMA LoggedKeeps ==
  ASSUME AllLogged, events \subseteq events', unlogged \subseteq unlogged',
         \A m \in Memory : Known(m)' => m.from = {} \/ Logged(m)' \/ KnownOf(m),
         \A q \in Procs : job[q].kind # "unshare" => \A i \in job[q].new :
            \/ job'[q].kind # "unshare" /\ i \in job'[q].new
            \/ i \in unlogged'
            \/ \E e \in events' : e.action # "unshare" /\ e.memory = i
  PROVE  AllLogged'
<1>1. ASSUME NEW m \in Memory, Known(m)', m.from # {}, ~Logged(m)' PROVE FALSE
  <2>1. PICK k \in Memory : Known(k) /\ k.id = m.id /\ k.from = m.from BY <1>1 DEF KnownOf
  <2>2. Logged(k) BY <1>1, <2>1 DEF AllLogged
  <2>3. CASE \E e \in events : e.action # "unshare" /\ e.memory = k.id
    BY <1>1, <2>1, <2>3 DEF Logged
  <2>4. CASE k.id \in unlogged BY <1>1, <2>1, <2>4 DEF Logged
  <2>5. CASE \E q \in Procs : job[q].kind # "unshare" /\ k.id \in job[q].new
    BY <1>1, <2>1, <2>5 DEF Logged
  <2> QED BY <2>2, <2>3, <2>4, <2>5 DEF Logged
<1> QED BY <1>1 DEF AllLogged

-----------------------------------------------------------------------------
(* One copy of a memory in a space. *)

CopyPhases == {"check", "source", "vector", "create", "delete"}

\* What is true of one memory in one space stays true there, as long as copies
\* only go and requests only go on.
LEMMA SingleStays ==
  ASSUME SingleCopies, NEW s \in Spaces, NEW i \in Ids, <<s, i>> \notin overlap,
         CopiesOf(s, i)' \subseteq CopiesOf(s, i), Settled(s, i)' \subseteq Settled(s, i),
         \A q \in Copying(s, i)' :
           /\ q \in Copying(s, i)
           /\ Resharing(q)' => /\ Resharing(q) /\ job'[q].old = job[q].old
                               /\ job[q].new \subseteq job'[q].new
           /\ pc'[q] \in {"vector", "create"} /\ job'[q].kind = "share" =>
                \/ pc[q] \in {"vector", "create"} /\ job[q].kind = "share"
                \/ CopiesOf(s, i) = {}
  PROVE  Single(s, i)'
<1>1. Single(s, i) BY DEF SingleCopies
<1>2. OneCopier(s, i)' BY <1>1 DEF Single, OneCopier
<1>3. OneSettled(s, i)' BY <1>1 DEF Single, OneSettled
<1>4. NoneYet(s, i)' BY <1>1 DEF Single, NoneYet
<1>5. OldOrNew(s, i)'
  <2>1. ASSUME NEW q \in Copying(s, i)', Resharing(q)', NEW c \in CopiesOf(s, i)'
        PROVE  c.id \in OldIds(q)' \cup job'[q].new
    <3>1. c.id \in OldIds(q) \cup job[q].new BY <1>1, <2>1 DEF Single, OldOrNew
    <3>2. OldIds(q)' = OldIds(q) BY <2>1 DEF OldIds
    <3> QED BY <2>1, <3>1, <3>2
  <2> QED BY <2>1 DEF OldOrNew
<1> QED BY <1>2, <1>3, <1>4, <1>5 DEF Single

\* A copy that no reshare has just made was none before, if no reshare leaves
\* its delete.
LEMMA SettledStays ==
  ASSUME NEW s \in Spaces, NEW i \in Ids, CopiesOf(s, i)' \subseteq CopiesOf(s, i),
         \A q \in Procs : pc[q] = "delete" /\ Resharing(q) =>
            pc'[q] = "delete" /\ Resharing(q)' /\ job'[q].new = job[q].new
  PROVE  Settled(s, i)' \subseteq Settled(s, i)
BY DEF Settled

\* Copies only go where rows only go.
LEMMA CopiesGo ==
  ASSUME NEW s \in Spaces, NEW i \in Ids, table'[s] \subseteq table[s]
  PROVE  CopiesOf(s, i)' \subseteq CopiesOf(s, i)
BY DEF CopiesOf

\* Requests that are not copying to a space, before or after.
LEMMA SingleLeaves ==
  ASSUME TypeOK, SingleCopies, overlap \subseteq overlap',
         \A s \in Spaces : table'[s] \subseteq table[s],
         \A q \in Procs :
           \/ pc'[q] = pc[q] /\ job'[q] = job[q]
           \/ /\ ~(pc[q] = "delete" /\ Resharing(q))
              /\ job'[q].kind \notin {"share", "reshare"} \/ pc'[q] \notin CopyPhases
  PROVE  SingleCopies'
<1>1. ASSUME NEW s \in Spaces, NEW i \in Ids, <<s, i>> \notin overlap' PROVE Single(s, i)'
  <2>1. CopiesOf(s, i)' \subseteq CopiesOf(s, i) BY CopiesGo
  <2>2. \A q \in Procs : pc[q] = "delete" /\ Resharing(q) =>
          pc'[q] = "delete" /\ Resharing(q)' /\ job'[q].new = job[q].new
        BY DEF Resharing
  <2>3. Settled(s, i)' \subseteq Settled(s, i) BY <2>1, <2>2, SettledStays
  <2>4. ASSUME NEW q \in Copying(s, i)'
        PROVE  q \in Copying(s, i) /\ pc'[q] = pc[q] /\ job'[q] = job[q]
    <3>1. q \in Procs /\ pc'[q] = pc[q] /\ job'[q] = job[q]
          BY DEF Copying, CopyPhases
    <3> QED BY <3>1 DEF Copying
  <2> QED BY <1>1, <2>1, <2>3, <2>4, SingleStays DEF Resharing
<1> QED BY <1>1 DEF SingleCopies

\* A request that goes on with a copy that it had begun.
LEMMA SingleSteps ==
  ASSUME TypeOK, SingleCopies, overlap' = overlap, table' = table, NEW p \in Procs,
         NEW c \in {"vector", "create"}, NEW j \in Job, Turns(p, c, j),
         pc[p] \in {"check", "source", "vector"},
         j.kind = job[p].kind, j.at = job[p].at, j.old = job[p].old, j.new = job[p].new,
         \A i \in Ids : (\E m \in j.src : m.id = i) =>
            \/ \E m \in job[p].src : m.id = i
            \/ \E m \in job[p].old : \E o \in m.from : o.id = i,
         job[p].kind = "share" =>
            \/ pc[p] = "vector"
            \/ job[p].old = {} /\ \A m \in job[p].src : CopiesOf(job[p].at, m.id) = {}
  PROVE  SingleCopies'
<1>0. /\ pc'[p] = c /\ job'[p] = j
      /\ \A q \in Procs \ {p} : pc'[q] = pc[q] /\ job'[q] = job[q]
      BY TurnsOne
<1>1. ASSUME NEW s \in Spaces, NEW i \in Ids, <<s, i>> \notin overlap' PROVE Single(s, i)'
  <2>1. CopiesOf(s, i)' \subseteq CopiesOf(s, i) BY CopiesGo
  <2>2. \A q \in Procs : pc[q] = "delete" /\ Resharing(q) =>
          pc'[q] = "delete" /\ Resharing(q)' /\ job'[q].new = job[q].new
        BY <1>0 DEF Resharing
  <2>3. Settled(s, i)' \subseteq Settled(s, i) BY <2>1, <2>2, SettledStays
  <2>4. ASSUME NEW q \in Copying(s, i)'
        PROVE  /\ q \in Copying(s, i)
               /\ Resharing(q)' => /\ Resharing(q) /\ job'[q].old = job[q].old
                                 /\ job[q].new \subseteq job'[q].new
               /\ pc'[q] \in {"vector", "create"} /\ job'[q].kind = "share" =>
                    \/ pc[q] \in {"vector", "create"} /\ job[q].kind = "share"
                    \/ CopiesOf(s, i) = {}
    <3>1. CASE q = p
      <4>0. /\ j.kind \in {"share", "reshare"} /\ j.at = s
            /\ \/ \E m \in j.src : m.id = i
               \/ \E m \in j.old : \E o \in m.from : o.id = i
            BY <1>0, <3>1 DEF Copying
      <4>1. q \in Copying(s, i) BY <4>0, <3>1 DEF Copying
      <4>2. Resharing(q)' => /\ Resharing(q) /\ job'[q].old = job[q].old
                             /\ job[q].new \subseteq job'[q].new
            BY <1>0, <3>1 DEF Resharing
      <4>3. ASSUME job'[q].kind = "share", pc[p] # "vector" PROVE CopiesOf(s, i) = {}
        <5>1. job[p].kind = "share" /\ job[p].old = {} /\ job[p].at = s
              BY <1>0, <3>1, <4>0, <4>3
        <5>2. PICK m \in job[p].src : m.id = i BY <4>0, <5>1
        <5>3. CopiesOf(job[p].at, m.id) = {} BY <4>3, <5>1
        <5> QED BY <5>1, <5>2, <5>3
      <4> QED BY <1>0, <3>1, <4>1, <4>2, <4>3
    <3>2. CASE q # p
      <4>1. q \in Procs /\ pc'[q] = pc[q] /\ job'[q] = job[q] BY <1>0, <3>2 DEF Copying
      <4>2. q \in Copying(s, i) BY <4>1 DEF Copying
      <4> QED BY <4>1, <4>2 DEF Resharing
    <3> QED BY <3>1, <3>2
  <2> QED BY <1>1, <2>1, <2>3, <2>4, SingleStays
<1> QED BY <1>1 DEF SingleCopies

\* The copy of a reshare that has yet to delete is in the hands of one that
\* copies its source.
LEMMA MadeByCopier ==
  ASSUME TypeOK, Fit, Made, NEW s \in Spaces, NEW i \in Ids, NEW c \in CopiesOf(s, i), NEW p \in Procs,
         pc[p] = "delete", Resharing(p), c.id \in job[p].new
  PROVE  p \in Copying(s, i) /\ \E m \in job[p].src : m.id = i
<1>1. MadeOf(p) BY DEF Made, Making
<1>2. c \in table[s] /\ \E o \in c.from : o.id = i BY DEF CopiesOf
<1>3. Known(c) /\ c \in Memory BY <1>2, Places, ReadIsMemory DEF Known, Alive, IsRow
<1>4. s = job[p].at BY <1>1, <1>2 DEF MadeOf
<1>5. FitAt(p) BY DEF Fit
<1>6. OneSource(p) BY <1>5 DEF FitAt, Resharing, Unsharing
<1>7. PICK m \in Memory : job[p].src = {m} BY <1>6 DEF OneSource
<1>8. m.id = i BY <1>1, <1>2, <1>3, <1>7 DEF MadeOf
<1> QED BY <1>4, <1>7, <1>8 DEF Copying, Resharing

\* With no copier, every copy is settled.
LEMMA AllSettled ==
  ASSUME TypeOK, Fit, Made, NEW s \in Spaces, NEW i \in Ids, Copying(s, i) = {}
  PROVE  Settled(s, i) = CopiesOf(s, i)
BY MadeByCopier DEF Settled

\* The first to copy a memory, and its like for several.
LEMMA StartSharesSingle ==
  ASSUME TypeOK, Fit, SingleCopies, NEW u \in Users, NEW s0 \in Spaces, NEW P, NEW f,
         P \subseteq IdleProcs, \A p \in P : f[p] \in table[u], StartShares(P, f, u, s0)
  PROVE  SingleCopies'
<1>1. /\ \A p \in P : /\ pc[p] = "idle" /\ f[p] \in Memory /\ pc'[p] = "check"
                      /\ job'[p].kind = "share" /\ job'[p].at = s0
                      /\ job'[p].src = {f[p]} /\ job'[p].old = {}
      /\ \A q \in Procs \ P : pc'[q] = pc[q] /\ job'[q] = job[q]
      BY StartSharesSays
<1>2. table' = table /\ overlap \subseteq overlap' BY DEF StartShares
<1>3. ASSUME NEW s \in Spaces, NEW i \in Ids, <<s, i>> \notin overlap' PROVE Single(s, i)'
  <2>1. Single(s, i) BY <1>2, <1>3 DEF SingleCopies
  <2>2. CopiesOf(s, i)' = CopiesOf(s, i) BY <1>2 DEF CopiesOf
  <2>3. \A q \in Procs : pc[q] = "delete" /\ Resharing(q) =>
          pc'[q] = "delete" /\ Resharing(q)' /\ job'[q].new = job[q].new
        BY <1>1 DEF Resharing
  <2>4. Settled(s, i)' \subseteq Settled(s, i) BY <2>2, <2>3, SettledStays
  <2>5. \A q \in Copying(s, i)' : q \in P => s = s0 /\ f[q].id = i
        BY <1>1 DEF Copying
  <2>6. \A q \in Copying(s, i)' : q \notin P =>
          q \in Procs /\ pc'[q] = pc[q] /\ job'[q] = job[q] /\ q \in Copying(s, i)
    <3>1. SUFFICES ASSUME NEW q \in Copying(s, i)', q \notin P
                   PROVE  q \in Procs /\ pc'[q] = pc[q] /\ job'[q] = job[q] /\ q \in Copying(s, i)
          OBVIOUS
    <3>2. q \in Procs /\ pc'[q] = pc[q] /\ job'[q] = job[q] BY <1>1, <3>1 DEF Copying
    <3> QED BY <3>2 DEF Copying
  <2>7. ASSUME NEW q \in P, s = s0, f[q].id = i
        PROVE  Copying(s, i) = {} /\ \A r \in P \ {q} : f[r].id # i
    <3>1. overlap' = overlap \cup
            {<<s0, f[p].id>> : p \in {r \in P : \/ Copying(s0, f[r].id) # {}
                                             \/ \E k \in P \ {r} : f[k].id = f[r].id}}
          BY DEF StartShares
    <3>2. <<s0, f[q].id>> \notin overlap' BY <1>3, <2>7
    <3>3. ~(Copying(s0, f[q].id) # {} \/ \E k \in P \ {q} : f[k].id = f[q].id)
          BY <3>1, <3>2
    <3> QED BY <2>7, <3>3
  <2>8. OneCopier(s, i)'
    <3>1. ASSUME NEW q \in Copying(s, i)', NEW r \in Copying(s, i)' PROVE q = r
      <4>1. CASE q \in P BY <2>5, <2>6, <2>7, <4>1
      <4>2. CASE r \in P BY <2>5, <2>6, <2>7, <4>2
      <4>3. CASE q \notin P /\ r \notin P BY <2>1, <2>6, <4>3 DEF Single, OneCopier
      <4> QED BY <4>1, <4>2, <4>3
    <3> QED BY <3>1 DEF OneCopier
  <2>9. OneSettled(s, i)' BY <2>1, <2>4 DEF Single, OneSettled
  <2>10. NoneYet(s, i)'
    <3>1. ASSUME NEW q \in Copying(s, i)', pc'[q] \in {"vector", "create"}, job'[q].kind = "share"
          PROVE  CopiesOf(s, i)' = {}
      <4>1. q \notin P BY <1>1, <3>1
      <4> QED BY <2>1, <2>2, <2>6, <3>1, <4>1 DEF Single, NoneYet
    <3> QED BY <3>1 DEF NoneYet
  <2>11. OldOrNew(s, i)'
    <3>1. ASSUME NEW q \in Copying(s, i)', Resharing(q)', NEW c \in CopiesOf(s, i)'
          PROVE  c.id \in OldIds(q)' \cup job'[q].new
      <4>1. q \notin P BY <1>1, <3>1 DEF Resharing
      <4>2. q \in Copying(s, i) /\ job'[q] = job[q] BY <2>6, <4>1
      <4>3. c.id \in OldIds(q) \cup job[q].new
            BY <2>1, <2>2, <3>1, <4>2 DEF Single, OldOrNew, Resharing
      <4>4. OldIds(q)' = OldIds(q) BY <4>2 DEF OldIds
      <4> QED BY <4>2, <4>3, <4>4
    <3> QED BY <3>1 DEF OldOrNew
  <2> QED BY <2>8, <2>9, <2>10, <2>11 DEF Single
<1> QED BY <1>3 DEF SingleCopies

\* The reshare of a copy.
LEMMA ReshareStartSingle ==
  ASSUME TypeOK, Fit, Memories, Made, SingleCopies, NEW p \in Procs, NEW u \in Users,
         NEW s0 \in Stores, ReshareStart(p, u, s0)
  PROVE  SingleCopies'
<1>1. PICK c \in table[s0] : \E o \in c.from : \E j \in Job :
              /\ Reads(p, "source", j) /\ c \in Memory /\ o \in Origin
              /\ j.kind = "reshare" /\ j.at = s0 /\ j.within = o.space /\ j.src = {}
              /\ j.old = {c} /\ j.new = {} /\ j.vec = {}
              /\ NoteOverlap(s0, o.id)
      BY ReshareStartSays
<1>2. PICK o \in c.from, j \in Job :
              /\ Reads(p, "source", j) /\ c \in Memory /\ o \in Origin
              /\ j.kind = "reshare" /\ j.at = s0 /\ j.src = {}
              /\ j.old = {c} /\ j.new = {}
              /\ NoteOverlap(s0, o.id)
      BY <1>1
<1>3. /\ pc[p] = "idle" /\ pc'[p] = "source" /\ job'[p] = j
      /\ \A q \in Procs \ {p} : pc'[q] = pc[q] /\ job'[q] = job[q]
      BY <1>2, TurnsOne, ReshareStartSays DEF Reads
<1>4. table' = table /\ overlap \subseteq overlap' BY <1>2 DEF Reads
<1>5. c.from = {o}
  <2>1. Known(c) BY DEF Known, Alive, IsRow
  <2> QED BY <1>2, <2>1 DEF Memories, Formed, WellFormed
<1>6. ASSUME NEW s \in Spaces, NEW i \in Ids, <<s, i>> \notin overlap' PROVE Single(s, i)'
  <2>1. Single(s, i) BY <1>4, <1>6 DEF SingleCopies
  <2>2. CopiesOf(s, i)' = CopiesOf(s, i) BY <1>4 DEF CopiesOf
  <2>3. \A q \in Procs : pc[q] = "delete" /\ Resharing(q) =>
          pc'[q] = "delete" /\ Resharing(q)' /\ job'[q].new = job[q].new
        BY <1>3 DEF Resharing
  <2>4. Settled(s, i)' \subseteq Settled(s, i) BY <2>2, <2>3, SettledStays
  <2>5. \A q \in Copying(s, i)' : q # p =>
          q \in Procs /\ pc'[q] = pc[q] /\ job'[q] = job[q] /\ q \in Copying(s, i)
    <3>1. SUFFICES ASSUME NEW q \in Copying(s, i)', q # p
                   PROVE  q \in Procs /\ pc'[q] = pc[q] /\ job'[q] = job[q] /\ q \in Copying(s, i)
          OBVIOUS
    <3>2. q \in Procs /\ pc'[q] = pc[q] /\ job'[q] = job[q] BY <1>3, <3>1 DEF Copying
    <3> QED BY <3>2 DEF Copying
  <2>6. p \in Copying(s, i)' => s = s0 /\ o.id = i
        BY <1>2, <1>3, <1>5 DEF Copying
  <2>7. p \in Copying(s, i)' => Copying(s, i) = {}
    <3>1. SUFFICES ASSUME s = s0, o.id = i, Copying(s, i) # {} PROVE FALSE BY <2>6
    <3>2. overlap' = overlap \cup {<<s, i>>} BY <1>2, <3>1 DEF NoteOverlap
    <3> QED BY <1>6, <3>2
  <2>8. OneCopier(s, i)' BY <2>1, <2>5, <2>7 DEF Single, OneCopier
  <2>9. OneSettled(s, i)' BY <2>1, <2>4 DEF Single, OneSettled
  <2>10. NoneYet(s, i)'
    <3>1. ASSUME NEW q \in Copying(s, i)', pc'[q] \in {"vector", "create"}, job'[q].kind = "share"
          PROVE  CopiesOf(s, i)' = {}
      <4>1. q # p BY <1>3, <3>1
      <4> QED BY <2>1, <2>2, <2>5, <3>1, <4>1 DEF Single, NoneYet
    <3> QED BY <3>1 DEF NoneYet
  <2>11. OldOrNew(s, i)'
    <3>1. ASSUME NEW q \in Copying(s, i)', Resharing(q)', NEW d \in CopiesOf(s, i)'
          PROVE  d.id \in OldIds(q)' \cup job'[q].new
      <4>1. CASE q # p
        <5>1. q \in Copying(s, i) /\ job'[q] = job[q] BY <2>5, <4>1
        <5>2. d.id \in OldIds(q) \cup job[q].new
              BY <2>1, <2>2, <3>1, <5>1 DEF Single, OldOrNew, Resharing
        <5>3. OldIds(q)' = OldIds(q) BY <5>1 DEF OldIds
        <5> QED BY <5>1, <5>2, <5>3
      <4>2. CASE q = p
        <5>1. s = s0 /\ o.id = i /\ Copying(s, i) = {} BY <2>6, <2>7, <4>2
        <5>2. Settled(s, i) = CopiesOf(s, i) BY <5>1, AllSettled
        <5>3. c \in CopiesOf(s, i) BY <1>2, <5>1 DEF CopiesOf
        <5>4. d = c BY <2>1, <2>2, <5>2, <5>3 DEF Single, OneSettled
        <5>5. c.id \in OldIds(p)' BY <1>2, <1>3 DEF OldIds
        <5> QED BY <4>2, <5>4, <5>5
      <4> QED BY <4>1, <4>2
    <3> QED BY <3>1 DEF OldOrNew
  <2> QED BY <2>8, <2>9, <2>10, <2>11 DEF Single
<1> QED BY <1>6 DEF SingleCopies

\* The first copy, or the one that will replace the old one.
LEMMA CreateCopySingle ==
  ASSUME TypeOK, Fit, OnePlace, SingleCopies, NEW p \in Procs, CreateCopy(p)
  PROVE  SingleCopies'
<1>1. PICK m, n \in Memory, j \in Job :
              /\ job[p].src = {m} /\ CopyOf(n, m) /\ Adds(job[p].at, n)
              /\ Turns(p, IF Resharing(p) THEN "delete" ELSE "event", j)
              /\ j.kind = job[p].kind /\ j.at = job[p].at /\ j.within = job[p].within
              /\ j.src = {m} /\ j.old = job[p].old /\ j.new = {n.id} /\ j.vec = job[p].vec
      BY CreateCopySays
<1>2. /\ pc'[p] = (IF Resharing(p) THEN "delete" ELSE "event") /\ job'[p] = j
      /\ \A q \in Procs \ {p} : pc'[q] = pc[q] /\ job'[q] = job[q]
      BY <1>1, TurnsOne
<1>3. FitAt(p) /\ pc[p] = "create" /\ overlap' = overlap BY CreateCopySays DEF Fit
<1>4. Copier(p) /\ job[p].new = {} BY <1>3 DEF FitAt
<1>5. /\ n.id \notin used /\ \A t \in Stores : table'[t] \subseteq table[t] \cup {n}
      /\ \A t \in Stores \ {job[p].at} : table'[t] = table[t]
      /\ table'[job[p].at] = table[job[p].at] \cup {n} /\ job[p].at \in Stores
      BY <1>1, AddsRows
<1>6. PICK o \in Origin : n.from = {o} /\ o.id = m.id BY <1>1 DEF CopyOf
<1>7. ASSUME NEW s \in Spaces, NEW i \in Ids, <<s, i>> \notin overlap' PROVE Single(s, i)'
  <2>1. Single(s, i) BY <1>3, <1>7 DEF SingleCopies
  <2>2. CopiesOf(s, i)' \subseteq CopiesOf(s, i) \cup {n}
        BY <1>5, Places DEF CopiesOf
  <2>3. ~(s = job[p].at /\ i = m.id) => CopiesOf(s, i)' \subseteq CopiesOf(s, i)
    <3>1. ASSUME s # job[p].at PROVE CopiesOf(s, i)' \subseteq CopiesOf(s, i)
      <4>1. table'[s] = table[s] BY <1>5, <3>1, Places
      <4> QED BY <4>1 DEF CopiesOf
    <3>2. ASSUME i # m.id PROVE CopiesOf(s, i)' \subseteq CopiesOf(s, i)
      <4>1. n \notin CopiesOf(s, i)' BY <1>6, <3>2 DEF CopiesOf
      <4> QED BY <2>2, <4>1
    <3> QED BY <3>1, <3>2
  <2>4. \A q \in Copying(s, i)' : q # p =>
          q \in Procs /\ pc'[q] = pc[q] /\ job'[q] = job[q] /\ q \in Copying(s, i)
    <3>1. SUFFICES ASSUME NEW q \in Copying(s, i)', q # p
                   PROVE  q \in Procs /\ pc'[q] = pc[q] /\ job'[q] = job[q] /\ q \in Copying(s, i)
          OBVIOUS
    <3>2. q \in Procs /\ pc'[q] = pc[q] /\ job'[q] = job[q] BY <1>2, <3>1 DEF Copying
    <3> QED BY <3>2 DEF Copying
  <2>5. p \in Copying(s, i)' =>
          Resharing(p) /\ pc'[p] = "delete" /\ s = job[p].at /\ p \in Copying(s, i)
        BY <1>1, <1>2, <1>3 DEF Copying, Resharing
  <2>6. Resharing(p) => \E b \in Memory : job[p].old = {b} /\ OldIds(p) = {b.id}
                          /\ \A k \in b.from : k.id = m.id
    <3>1. ASSUME Resharing(p)
          PROVE  \E b \in Memory : job[p].old = {b} /\ OldIds(p) = {b.id}
                          /\ \A k \in b.from : k.id = m.id
      <4>1. PICK b \in Memory, k \in Origin : job[p].old = {b} /\ b.from = {k} /\ m.id = k.id
            BY <1>1, <1>4, <3>1 DEF Copier, OldCopy
      <4>2. OldIds(p) = {b.id} BY <4>1 DEF OldIds
      <4> QED BY <4>1, <4>2
    <3> QED BY <3>1
  <2>7. \A q \in Procs : pc[q] = "delete" /\ Resharing(q) =>
          pc'[q] = "delete" /\ Resharing(q)' /\ job'[q].new = job[q].new
        BY <1>2, <1>3 DEF Resharing
  <2>8. CASE ~(s = job[p].at /\ i = m.id)
    <3>1. Settled(s, i)' \subseteq Settled(s, i) BY <2>3, <2>7, <2>8, SettledStays
    <3>2. \A q \in Copying(s, i)' :
           /\ q \in Copying(s, i)
           /\ Resharing(q)' => /\ Resharing(q) /\ job'[q].old = job[q].old
                               /\ job[q].new \subseteq job'[q].new
           /\ pc'[q] \in {"vector", "create"} /\ job'[q].kind = "share" =>
                \/ pc[q] \in {"vector", "create"} /\ job[q].kind = "share"
                \/ CopiesOf(s, i) = {}
          BY <1>1, <1>2, <1>4, <2>4, <2>5 DEF Resharing
    <3> QED BY <1>3, <1>7, <2>3, <2>8, <3>1, <3>2, SingleStays
  <2>9. CASE s = job[p].at /\ i = m.id /\ Resharing(p)
    <3>1. p \in Copying(s, i) BY <1>1, <1>3, <2>9 DEF Copying, Resharing
    <3>2. \A q \in Copying(s, i)' : q = p
          BY <2>1, <2>4, <3>1 DEF Single, OneCopier
    <3>3. PICK b \in Memory : job[p].old = {b} /\ OldIds(p) = {b.id} BY <2>6, <2>9
    <3>4. \A c \in CopiesOf(s, i) : c.id = b.id
          BY <1>4, <2>1, <2>9, <3>1, <3>3 DEF Single, OldOrNew
    <3>5. pc'[p] = "delete" /\ Resharing(p)' /\ job'[p].new = {n.id}
          BY <1>1, <1>2, <2>9 DEF Resharing
    <3>6. OneSettled(s, i)'
      <4>1. SUFFICES ASSUME NEW c \in Settled(s, i)', NEW d \in Settled(s, i)' PROVE c = d
            BY DEF OneSettled
      <4>2. c \in CopiesOf(s, i) /\ d \in CopiesOf(s, i) BY <2>2, <3>5 DEF Settled
      <4>3. c \in table[s] /\ d \in table[s] /\ c.id = d.id BY <3>4, <4>2 DEF CopiesOf
      <4> QED BY <4>3 DEF OnePlace
    <3>7. OneCopier(s, i)' BY <3>2 DEF OneCopier
    <3>8. NoneYet(s, i)' BY <3>2, <3>5 DEF NoneYet
    <3>9. OldOrNew(s, i)'
      <4>1. OldIds(p)' = {b.id} BY <1>1, <1>2, <3>3 DEF OldIds
      <4>2. \A c \in CopiesOf(s, i)' : c.id \in {b.id, n.id} BY <2>2, <3>4
      <4> QED BY <3>2, <3>5, <4>1, <4>2 DEF OldOrNew
    <3> QED BY <3>6, <3>7, <3>8, <3>9 DEF Single
  <2>10. CASE s = job[p].at /\ i = m.id /\ ~Resharing(p)
    <3>1. job[p].kind = "share"
      <4>1. s \notin Users BY Places
      <4> QED BY <1>4, <2>10, <4>1 DEF Copier, Resharing
    <3>2. p \in Copying(s, i) BY <1>1, <1>3, <2>10, <3>1 DEF Copying
    <3>3. CopiesOf(s, i) = {} BY <1>3, <2>1, <3>1, <3>2 DEF Single, NoneYet
    <3>4. Copying(s, i)' = {}
          BY <2>1, <2>4, <2>5, <2>10, <3>2 DEF Single, OneCopier
    <3>5. \A c, d \in Settled(s, i)' : c = d
      <4>1. \A c \in Settled(s, i)' : c = n BY <2>2, <3>3 DEF Settled
      <4> QED BY <4>1
    <3> QED BY <3>4, <3>5 DEF Single, OneCopier, OneSettled, NoneYet, OldOrNew
  <2> QED BY <2>8, <2>9, <2>10
<1> QED BY <1>7 DEF SingleCopies

\* The delete of a reshare leaves the copy that it made.
LEMMA DeleteCopySingle ==
  ASSUME TypeOK, Fit, OnePlace, Made, SingleCopies, NEW p \in Procs, DeleteCopy(p)
  PROVE  SingleCopies'
<1>1. /\ pc[p] = "delete" /\ Turns(p, "event", job[p]) /\ overlap' = overlap
      /\ table' = [table EXCEPT ![job[p].at] = {m \in @ : m.id \notin OldIds(p)}]
      BY DeleteCopySays
<1>2. /\ pc'[p] = "event" /\ job'[p] = job[p]
      /\ \A q \in Procs \ {p} : pc'[q] = pc[q] /\ job'[q] = job[q]
      BY <1>1, TurnsOne
<1>3. \A s \in Stores : table'[s] \subseteq table[s] BY <1>1 DEF TypeOK
<1>4. FitAt(p) BY DEF Fit
<1>5. ASSUME NEW s \in Spaces, NEW i \in Ids, <<s, i>> \notin overlap' PROVE Single(s, i)'
  <2>1. Single(s, i) BY <1>1, <1>5 DEF SingleCopies
  <2>2. CopiesOf(s, i)' \subseteq CopiesOf(s, i) BY <1>3, Places, CopiesGo
  <2>3. ASSUME NEW q \in Copying(s, i)'
        PROVE  q # p /\ q \in Copying(s, i) /\ pc'[q] = pc[q] /\ job'[q] = job[q]
    <3>1. q \in Procs /\ q # p BY <1>2 DEF Copying
    <3> QED BY <1>2, <3>1 DEF Copying
  <2>4. OneCopier(s, i)' BY <2>1, <2>3 DEF Single, OneCopier
  <2>5. NoneYet(s, i)' BY <2>1, <2>2, <2>3 DEF Single, NoneYet
  <2>6. OldOrNew(s, i)'
    <3>1. ASSUME NEW q \in Copying(s, i)', Resharing(q)', NEW d \in CopiesOf(s, i)'
          PROVE  d.id \in OldIds(q)' \cup job'[q].new
      <4>1. q \in Copying(s, i) /\ job'[q] = job[q] BY <2>3
      <4>2. d.id \in OldIds(q) \cup job[q].new
            BY <2>1, <2>2, <3>1, <4>1 DEF Single, OldOrNew, Resharing
      <4>3. OldIds(q)' = OldIds(q) BY <4>1 DEF OldIds
      <4> QED BY <4>1, <4>2, <4>3
    <3> QED BY <3>1 DEF OldOrNew
  <2>7. OneSettled(s, i)'
    <3>1. SUFFICES ASSUME NEW c \in Settled(s, i)', NEW d \in Settled(s, i)' PROVE c = d
          BY DEF OneSettled
    <3>2. c \in CopiesOf(s, i)' /\ d \in CopiesOf(s, i)' /\ c \in CopiesOf(s, i) /\ d \in CopiesOf(s, i)
          BY <2>2 DEF Settled
    <3>3. CASE Resharing(p) /\ (c.id \in job[p].new \/ d.id \in job[p].new)
      <4>1. p \in Copying(s, i) BY <1>1, <3>2, <3>3, MadeByCopier
      <4>2. s = job[p].at BY <4>1 DEF Copying
      <4>3. c.id \notin OldIds(p) /\ d.id \notin OldIds(p)
            BY <1>1, <3>2, <4>2, Places DEF CopiesOf, TypeOK
      <4>4. c.id \in job[p].new /\ d.id \in job[p].new
            BY <2>1, <3>2, <3>3, <4>1, <4>3 DEF Single, OldOrNew
      <4>5. MadeOf(p) BY <1>1, <3>3 DEF Made, Making
      <4>6. c \in table[s] /\ d \in table[s] BY <3>2 DEF CopiesOf
      <4>7. OneNew(p) BY <1>1, <1>4, <3>3 DEF FitAt, Unsharing, Resharing
      <4>8. c.id = d.id BY <4>4, <4>7 DEF OneNew
      <4> QED BY <4>6, <4>8 DEF OnePlace
    <3>4. CASE ~(Resharing(p) /\ (c.id \in job[p].new \/ d.id \in job[p].new))
      <4>1. c \in Settled(s, i) /\ d \in Settled(s, i)
        <5>1. ASSUME NEW q \in Procs, pc[q] = "delete", Resharing(q), q # p
              PROVE  c.id \notin job[q].new /\ d.id \notin job[q].new
          <6>1. pc'[q] = "delete" /\ Resharing(q)' /\ job'[q] = job[q]
                BY <1>2, <5>1 DEF Resharing
          <6> QED BY <6>1 DEF Settled
        <5> QED BY <3>2, <3>4, <5>1 DEF Settled
      <4> QED BY <2>1, <4>1 DEF Single, OneSettled
    <3> QED BY <3>3, <3>4
  <2> QED BY <2>4, <2>5, <2>6, <2>7 DEF Single
<1> QED BY <1>5 DEF SingleCopies

\* A drop between the insert and the delete of a reshare is noted.
LEMMA DropSingle ==
  ASSUME TypeOK, Fit, Made, SingleCopies, NEW p \in Procs, Drop(p)
  PROVE  SingleCopies'
<1>1. /\ Reads(p, "idle", NoJob)
      /\ pc[p] = "delete" /\ Resharing(p) /\ job[p].at \in Spaces =>
              \A m \in job[p].src : <<job[p].at, m.id>> \in overlap'
      BY DropSays
<1>2. /\ pc'[p] = "idle" /\ job'[p] = NoJob /\ table' = table /\ overlap \subseteq overlap'
      /\ \A q \in Procs \ {p} : pc'[q] = pc[q] /\ job'[q] = job[q]
      BY <1>1, TurnsOne DEF Reads
<1>3. ASSUME NEW s \in Spaces, NEW i \in Ids, <<s, i>> \notin overlap' PROVE Single(s, i)'
  <2>1. CopiesOf(s, i)' \subseteq CopiesOf(s, i) BY <1>2, CopiesGo
  <2>2. ASSUME NEW q \in Copying(s, i)'
        PROVE  q # p /\ q \in Copying(s, i) /\ pc'[q] = pc[q] /\ job'[q] = job[q]
    <3>1. q \in Procs /\ q # p BY <1>2 DEF Copying
    <3> QED BY <1>2, <3>1 DEF Copying
  <2>3. ASSUME NEW c \in Settled(s, i)' PROVE c \in Settled(s, i)
    <3>1. c \in CopiesOf(s, i) BY <2>1 DEF Settled
    <3>2. ASSUME NEW q \in Procs, pc[q] = "delete", Resharing(q), c.id \in job[q].new PROVE FALSE
      <4>1. CASE q # p
        <5>1. pc'[q] = "delete" /\ Resharing(q)' /\ job'[q] = job[q]
              BY <1>2, <3>2, <4>1 DEF Resharing
        <5> QED BY <3>2, <5>1 DEF Settled
      <4>2. CASE q = p
        <5>1. p \in Copying(s, i) /\ \E m \in job[p].src : m.id = i
              BY <3>1, <3>2, <4>2, MadeByCopier
        <5>2. job[p].at = s BY <5>1 DEF Copying
        <5> QED BY <1>1, <1>3, <3>2, <4>2, <5>1, <5>2
      <4> QED BY <4>1, <4>2
    <3> QED BY <3>1, <3>2 DEF Settled
  <2>4. <<s, i>> \notin overlap BY <1>2, <1>3
  <2> QED BY <2>1, <2>2, <2>3, <2>4, SingleStays DEF Resharing
<1> QED BY <1>3 DEF SingleCopies

\* A request that ends after it has written rows back.
LEMMA WrittenSingle ==
  ASSUME TypeOK, SingleCopies, OnePlace', overlap' = overlap, NEW p \in Procs,
         Turns(p, "idle", NoJob), job[p].kind \notin {"share", "reshare"},
         \A s \in Spaces : \A c \in table'[s] : \E b \in table[s] : b.id = c.id /\ b.from = c.from
  PROVE  SingleCopies'
<1>1. /\ pc'[p] = "idle" /\ job'[p] = NoJob
      /\ \A q \in Procs \ {p} : pc'[q] = pc[q] /\ job'[q] = job[q]
      BY TurnsOne
<1>2. ASSUME NEW s \in Spaces, NEW i \in Ids, <<s, i>> \notin overlap' PROVE Single(s, i)'
  <2>1. Single(s, i) BY <1>2 DEF SingleCopies
  <2>2. ASSUME NEW q \in Copying(s, i)'
        PROVE  q # p /\ q \in Copying(s, i) /\ pc'[q] = pc[q] /\ job'[q] = job[q]
    <3>1. q \in Procs /\ q # p BY <1>1 DEF Copying
    <3> QED BY <1>1, <3>1 DEF Copying
  <2>3. ASSUME NEW c \in CopiesOf(s, i)' PROVE \E b \in CopiesOf(s, i) : b.id = c.id
    <3>1. PICK b \in table[s] : b.id = c.id /\ b.from = c.from BY <2>3 DEF CopiesOf
    <3>2. b \in CopiesOf(s, i) BY <2>3, <3>1 DEF CopiesOf
    <3> QED BY <3>1, <3>2
  <2>4. ASSUME NEW c \in Settled(s, i)' PROVE \E b \in Settled(s, i) : b.id = c.id
    <3>1. c \in CopiesOf(s, i)' BY <2>4 DEF Settled
    <3>2. PICK b \in CopiesOf(s, i) : b.id = c.id BY <2>3, <3>1
    <3>3. ASSUME NEW q \in Procs, pc[q] = "delete", Resharing(q) PROVE b.id \notin job[q].new
      <4>1. q # p BY <3>3 DEF Resharing
      <4>2. pc'[q] = "delete" /\ Resharing(q)' /\ job'[q] = job[q]
            BY <1>1, <3>3, <4>1 DEF Resharing
      <4> QED BY <2>4, <3>2, <4>2 DEF Settled
    <3>4. b \in Settled(s, i) BY <3>2, <3>3 DEF Settled
    <3> QED BY <3>2, <3>4
  <2>5. OneCopier(s, i)' BY <2>1, <2>2 DEF Single, OneCopier
  <2>6. OneSettled(s, i)'
    <3>1. SUFFICES ASSUME NEW c \in Settled(s, i)', NEW d \in Settled(s, i)' PROVE c = d
          BY DEF OneSettled
    <3>2. c.id = d.id BY <2>1, <2>4 DEF Single, OneSettled
    <3>3. c \in table'[s] /\ d \in table'[s] BY DEF Settled, CopiesOf
    <3> QED BY <3>2, <3>3 DEF OnePlace
  <2>7. NoneYet(s, i)'
    <3>1. ASSUME NEW q \in Copying(s, i)', pc'[q] \in {"vector", "create"}, job'[q].kind = "share"
          PROVE  CopiesOf(s, i)' = {}
      <4>1. CopiesOf(s, i) = {} BY <2>1, <2>2, <3>1 DEF Single, NoneYet
      <4> QED BY <2>3, <4>1
    <3> QED BY <3>1 DEF NoneYet
  <2>8. OldOrNew(s, i)'
    <3>1. ASSUME NEW q \in Copying(s, i)', Resharing(q)', NEW d \in CopiesOf(s, i)'
          PROVE  d.id \in OldIds(q)' \cup job'[q].new
      <4>1. q \in Copying(s, i) /\ job'[q] = job[q] BY <2>2
      <4>2. PICK b \in CopiesOf(s, i) : b.id = d.id BY <2>3
      <4>3. b.id \in OldIds(q) \cup job[q].new
            BY <2>1, <3>1, <4>1, <4>2 DEF Single, OldOrNew, Resharing
      <4>4. OldIds(q)' = OldIds(q) BY <4>1 DEF OldIds
      <4> QED BY <4>1, <4>2, <4>3, <4>4
    <3> QED BY <3>1 DEF OldOrNew
  <2> QED BY <2>5, <2>6, <2>7, <2>8 DEF Single
<1> QED BY <1>2 DEF SingleCopies

-----------------------------------------------------------------------------
(* Every step keeps the invariant. *)

\* A step that reads, once what it has in hand and the one copier are known.
LEMMA ReadsKeep ==
  ASSUME SharingInv, NEW p \in Procs, NEW c, NEW j, Reads(p, c, j),
         c # "add", c \in {"embed", "touch"} => OnePlace',
         ~(j.kind = "reshare" /\ c \in {"delete", "event"}),
         \A m \in j.src \cup j.old : Known(m),
         job[p].kind # "unshare" => \A i \in job[p].new :
            i \in unlogged' \/ \E e \in events' : e.action # "unshare" /\ e.memory = i,
         Fit', SingleCopies'
  PROVE  SharingInv'
<1>1. /\ pc'[p] = c /\ job'[p] = j
      /\ \A q \in Procs \ {p} : pc'[q] = pc[q] /\ job'[q] = job[q]
      BY TurnsOne DEF Reads, SharingInv
<1>2. /\ table' = table /\ used' = used /\ shared' = shared /\ events \subseteq events'
      /\ unlogged \subseteq unlogged'
      BY DEF Reads
<1>3. TypeOK' BY ReadsType DEF SharingInv
<1>4. Memories' /\ \A m \in Memory : Known(m)' => KnownOf(m)
      BY ReadsMemories DEF SharingInv, KnownOf
<1>9. OnePlace' BY ReadsPlaces DEF SharingInv
<1>5. \A q \in Procs : Resharing(q)' /\ pc'[q] \in {"delete", "event"} =>
        pc'[q] = pc[q] /\ job'[q] = job[q]
      BY <1>1 DEF Resharing
<1>6. Made'
  <2>1. \A q \in Procs : Making(q)' => Making(q) /\ job'[q] = job[q]
        BY <1>5 DEF Making, Resharing
  <2>2. \A s \in Spaces : \A m \in table'[s] : m.id \notin used \/ \E r \in table[s] : r.id = m.id
        BY <1>2
  <2> QED BY <1>4, <2>1, <2>2, MadeKeeps DEF SharingInv
<1>7. Available'
  <2>1. \A s \in Spaces : \A k \in table[s] : \E d \in table'[s] : d.id = k.id /\ d.from = k.from
        BY <1>2
  <2> QED BY <1>2, <1>5, <2>1, AvailableKeeps DEF SharingInv
<1>8. AllLogged'
  <2>1. \A q \in Procs : job[q].kind # "unshare" => \A i \in job[q].new :
            \/ job'[q].kind # "unshare" /\ i \in job'[q].new
            \/ i \in unlogged'
            \/ \E e \in events' : e.action # "unshare" /\ e.memory = i
        BY <1>1
  <2> QED BY <1>2, <1>4, <2>1, LoggedKeeps DEF SharingInv
<1> QED BY <1>3, <1>4, <1>6, <1>7, <1>8, <1>9 DEF SharingInv

\* A request that is not copying to a space leaves the copies of spaces single.
LEMMA ReadsSingle ==
  ASSUME TypeOK, SingleCopies, NEW p \in Procs, NEW c, NEW j, Reads(p, c, j),
         ~(pc[p] = "delete" /\ Resharing(p)),
         j.kind \notin {"share", "reshare"} \/ c \notin CopyPhases
  PROVE  SingleCopies'
<1>1. /\ pc'[p] = c /\ job'[p] = j
      /\ \A q \in Procs \ {p} : pc'[q] = pc[q] /\ job'[q] = job[q]
      BY TurnsOne DEF Reads
<1>2. table' = table /\ overlap \subseteq overlap' BY DEF Reads
<1>3. \A q \in Procs :
        \/ pc'[q] = pc[q] /\ job'[q] = job[q]
        \/ /\ ~(pc[q] = "delete" /\ Resharing(q))
           /\ job'[q].kind \notin {"share", "reshare"} \/ pc'[q] \notin CopyPhases
      BY <1>1
<1> QED BY <1>2, <1>3, SingleLeaves

\* Copies that start, one or a list of them.
LEMMA StartSharesKeeps ==
  ASSUME SharingInv, NEW u \in Users, NEW s \in Spaces, NEW P, NEW f, P \subseteq IdleProcs,
         \A p \in P : f[p] \in table[u], StartShares(P, f, u, s)
  PROVE  SharingInv'
<1>1. /\ TypeOK'
      /\ \A p \in P : /\ pc[p] = "idle" /\ pc'[p] = "check"
                      /\ job'[p].kind = "share" /\ job'[p].new = {}
      /\ \A q \in Procs \ P : pc'[q] = pc[q] /\ job'[q] = job[q]
      BY StartSharesSays DEF SharingInv
<1>2. /\ table' = table /\ used' = used /\ shared' = shared /\ events' = events
      /\ unlogged' = unlogged
      BY DEF StartShares
<1>3. Memories' /\ OnePlace' /\ \A m \in Memory : Known(m)' => KnownOf(m)
      BY StartSharesMemories DEF SharingInv, KnownOf
<1>4. Fit' BY StartSharesFit DEF SharingInv
<1>5. SingleCopies' BY StartSharesSingle DEF SharingInv
<1>6. \A q \in Procs : Resharing(q)' /\ pc'[q] \in {"delete", "event"} =>
        pc'[q] = pc[q] /\ job'[q] = job[q]
      BY <1>1 DEF Resharing
<1>7. Made'
  <2>1. \A q \in Procs : Making(q)' => Making(q) /\ job'[q] = job[q]
        BY <1>6 DEF Making, Resharing
  <2>2. \A t \in Spaces : \A m \in table'[t] : m.id \notin used \/ \E r \in table[t] : r.id = m.id
        BY <1>2
  <2> QED BY <1>3, <2>1, <2>2, MadeKeeps DEF SharingInv
<1>8. Available'
  <2>1. \A t \in Spaces : \A k \in table[t] : \E d \in table'[t] : d.id = k.id /\ d.from = k.from
        BY <1>2
  <2> QED BY <1>2, <1>6, <2>1, AvailableKeeps DEF SharingInv
<1>9. AllLogged'
  <2>1. \A q \in P : job[q].new = {}
        BY <1>1, NoJobType DEF SharingInv, Fit, FitAt, IdleProcs
  <2>2. \A q \in Procs : job[q].kind # "unshare" => \A i \in job[q].new :
            \/ job'[q].kind # "unshare" /\ i \in job'[q].new
            \/ i \in unlogged'
            \/ \E e \in events' : e.action # "unshare" /\ e.memory = i
        BY <1>1, <2>1
  <2> QED BY <1>2, <1>3, <2>2, LoggedKeeps DEF SharingInv
<1> QED BY <1>1, <1>3, <1>4, <1>5, <1>7, <1>8, <1>9 DEF SharingInv

\* The look for a copy: from here a request that goes on is the one copier.
LEMMA ShareCheckKeeps ==
  ASSUME SharingInv, NEW p \in Procs, ShareCheck(p)
  PROVE  SharingInv'
<1>1. FitAt(p) /\ pc[p] = "check" BY ShareCheckSays DEF SharingInv, Fit
<1>2. job[p].kind = "share" /\ job[p].new = {} /\ job[p].old = {}
      BY <1>1 DEF FitAt, Copier, Resharing
<1>3. Fit' BY ShareCheckFit DEF SharingInv
<1>4. CASE Reads(p, "idle", NoJob)
  <2>1. SingleCopies' BY <1>1, <1>4, NoJobType, ReadsSingle DEF SharingInv, CopyPhases
  <2> QED BY <1>2, <1>3, <1>4, <2>1, NoJobType, ReadsKeep
<1>5. CASE /\ Reads(p, "vector", job[p])
           /\ \A m \in job[p].src : CopiesOf(job[p].at, m.id) = {}
  <2>1. overlap' = overlap /\ table' = table /\ Turns(p, "vector", job[p]) /\ job[p] \in Job
        BY <1>5, ShareCheckSays, ReadIsMemory DEF Reads, SharingInv
  <2>2. SingleCopies' BY <1>1, <1>2, <1>5, <2>1, SingleSteps DEF SharingInv
  <2>3. \A m \in job[p].src \cup job[p].old : Known(m) BY ReadIsKnown
  <2> QED BY <1>2, <1>3, <1>5, <2>2, <2>3, ReadsKeep
<1> QED BY <1>4, <1>5, ShareCheckSays DEF SharingInv

\* A pull, which copies to a personal store.
LEMMA PullStartKeeps ==
  ASSUME SharingInv, NEW p \in Procs, NEW u \in Users, NEW s \in Spaces, PullStart(p, u, s)
  PROVE  SharingInv'
<1>1. PICK m \in table[s], j \in Job :
              /\ Reads(p, "vector", j) /\ m \in Memory
              /\ j.kind = "pull" /\ j.src = {m} /\ j.old = {} /\ j.new = {}
      BY PullStartSays DEF SharingInv
<1>2. pc[p] = "idle" BY PullStartSays DEF SharingInv
<1>3. job[p].new = {} BY <1>2, NoJobType DEF SharingInv, Fit, FitAt
<1>4. Known(m) BY Places DEF Known, Alive, IsRow
<1>5. Fit' BY PullStartFit DEF SharingInv
<1>6. SingleCopies' BY <1>1, <1>2, ReadsSingle DEF SharingInv
<1>7. \A k \in j.src \cup j.old : Known(k) BY <1>1, <1>4
<1> QED BY <1>1, <1>3, <1>5, <1>6, <1>7, ReadsKeep

\* A reshare that finds its copy.
LEMMA ReshareStartKeeps ==
  ASSUME SharingInv, NEW p \in Procs, NEW u \in Users, NEW s \in Stores, ReshareStart(p, u, s)
  PROVE  SharingInv'
<1>1. PICK c \in table[s] : \E o \in c.from : \E j \in Job :
              /\ Reads(p, "source", j) /\ c \in Memory /\ o \in Origin
              /\ j.kind = "reshare" /\ j.at = s /\ j.within = o.space /\ j.src = {}
              /\ j.old = {c} /\ j.new = {} /\ j.vec = {}
              /\ NoteOverlap(s, o.id)
      BY ReshareStartSays DEF SharingInv
<1>2. PICK j \in Job : Reads(p, "source", j) /\ j.src = {} /\ j.old = {c} BY <1>1
<1>3. pc[p] = "idle" BY ReshareStartSays DEF SharingInv
<1>4. job[p].new = {} BY <1>3, NoJobType DEF SharingInv, Fit, FitAt
<1>5. Known(c) BY DEF Known, Alive, IsRow
<1>6. Fit' BY ReshareStartFit DEF SharingInv, Memories
<1>7. SingleCopies' BY ReshareStartSingle DEF SharingInv
<1>8. \A k \in j.src \cup j.old : Known(k) BY <1>2, <1>5
<1> QED BY <1>2, <1>4, <1>6, <1>7, <1>8, ReadsKeep

\* A reshare that reads its source: not older than when it was copied.
LEMMA ReshareSourceKeeps ==
  ASSUME SharingInv, NEW p \in Procs, ReshareSource(p)
  PROVE  SharingInv'
<1>1. FitAt(p) /\ pc[p] = "source" BY ReshareSourceSays DEF SharingInv, Fit
<1>2. Resharing(p) /\ Copier(p) /\ job[p].src = {} /\ job[p].new = {} BY <1>1 DEF FitAt
<1>3. Fit' BY ReshareSourceFit DEF SharingInv
<1>4. CASE Reads(p, "idle", NoJob)
  <2>1. SingleCopies' BY <1>1, <1>4, NoJobType, ReadsSingle DEF SharingInv, CopyPhases
  <2> QED BY <1>2, <1>3, <1>4, <2>1, NoJobType, ReadsKeep
<1>5. ASSUME NEW m \in RowsIn(job[p].within), NEW j \in Job,
             Reads(p, "vector", j), m \in Memory,
             j.kind = job[p].kind, j.at = job[p].at, j.within = job[p].within,
             j.src = {m}, j.old = job[p].old, j.new = job[p].new,
             \A c \in job[p].old, o \in Origin : o \in c.from => m.id = o.id
      PROVE  SharingInv'
  <2>1. overlap' = overlap /\ table' = table /\ Turns(p, "vector", j)
        BY <1>5, ReshareSourceSays DEF Reads, SharingInv
  <2>2. \E c \in job[p].old : \E o \in c.from : o.id = m.id
        BY <1>2, <1>5 DEF Copier, OldCopy
  <2>3. \A i \in Ids : (\E k \in j.src : k.id = i) =>
            \/ \E k \in job[p].src : k.id = i
            \/ \E k \in job[p].old : \E o \in k.from : o.id = i
        BY <1>5, <2>2
  <2>4. SingleCopies' BY <1>1, <1>2, <1>5, <2>1, <2>3, SingleSteps DEF SharingInv, Resharing
  <2>5. job[p].within \in SpaceIds BY ReadIsMemory DEF SharingInv, Job
  <2>6. \A k \in j.src \cup j.old : Known(k) BY <1>5, <2>5, RowsAreKnown, ReadIsKnown
  <2> QED BY <1>2, <1>3, <1>5, <2>4, <2>6, ReadsKeep
<1> QED BY <1>4, <1>5, ReshareSourceSays DEF SharingInv

\* The read of the embedding.
LEMMA ReadVectorKeeps ==
  ASSUME SharingInv, NEW p \in Procs, ReadVector(p)
  PROVE  SharingInv'
<1>1. PICK j \in Job :
              /\ Reads(p, "create", j)
              /\ j.kind = job[p].kind /\ j.at = job[p].at
              /\ j.src = job[p].src /\ j.old = job[p].old /\ j.new = job[p].new
      BY ReadVectorSays DEF SharingInv
<1>2. FitAt(p) /\ pc[p] = "vector" BY ReadVectorSays DEF SharingInv, Fit
<1>3. job[p].new = {} BY <1>2 DEF FitAt
<1>4. Fit' BY ReadVectorFit DEF SharingInv
<1>5. overlap' = overlap /\ table' = table /\ Turns(p, "create", j)
      BY <1>1, ReadVectorSays DEF Reads, SharingInv
<1>6. SingleCopies' BY <1>1, <1>2, <1>5, SingleSteps DEF SharingInv
<1>7. \A m \in j.src \cup j.old : Known(m) BY <1>1, ReadIsKnown
<1> QED BY <1>1, <1>3, <1>4, <1>6, <1>7, ReadsKeep

\* An unshare that picks its copy.
LEMMA UnshareStartKeeps ==
  ASSUME SharingInv, NEW p \in Procs, NEW u \in Users, NEW s \in Spaces, UnshareStart(p, u, s)
  PROVE  SharingInv'
<1>1. PICK c \in table[s], j \in Job :
              /\ Reads(p, "delete", j) /\ j.kind = "unshare" /\ j.src = {} /\ j.old = {c}
      BY UnshareStartSays DEF SharingInv, Memories
<1>2. pc[p] = "idle" BY UnshareStartSays DEF SharingInv, Memories
<1>3. job[p].new = {} BY <1>2, NoJobType DEF SharingInv, Fit, FitAt
<1>4. Known(c) BY Places DEF Known, Alive, IsRow
<1>5. Fit' BY UnshareStartFit DEF SharingInv, Memories
<1>6. SingleCopies' BY <1>1, <1>2, ReadsSingle DEF SharingInv
<1>7. \A k \in j.src \cup j.old : Known(k) BY <1>1, <1>4
<1> QED BY <1>1, <1>3, <1>5, <1>6, <1>7, ReadsKeep

\* A row that is read to be written back.
LEMMA ReadToWriteKeeps ==
  ASSUME SharingInv, NEW p \in Procs, NEW k \in WriteKinds, NEW c \in WritePhases,
         NEW s \in Stores, ReadToWrite(p, k, c, s), c = "touch" \/ s \in Users
  PROVE  SharingInv'
<1>0. \E m \in table[s], j \in Job :
        /\ Reads(p, c, j) /\ m \in Memory /\ m.ver < MaxVersion
        /\ j.kind = k /\ j.at = s /\ j.src = {m} /\ j.old = {} /\ j.new = {}
      BY ReadToWriteSays DEF SharingInv
<1>1. PICK m \in table[s], j \in Job :
        Reads(p, c, j) /\ j.kind = k /\ j.src = {m} /\ j.old = {}
      BY <1>0
<1>2. pc[p] = "idle" BY ReadToWriteSays DEF SharingInv
<1>3. job[p].new = {} BY <1>2, NoJobType DEF SharingInv, Fit, FitAt
<1>4. Known(m) BY DEF Known, Alive, IsRow
<1>5. Fit' BY ReadToWriteFit DEF SharingInv
<1>6. c # "add" /\ j.kind \notin {"share", "reshare"} BY <1>1 DEF WriteKinds, WritePhases
<1>7. SingleCopies' BY <1>1, <1>2, <1>6, ReadsSingle DEF SharingInv
<1>8. \A b \in j.src \cup j.old : Known(b) BY <1>1, <1>4
<1>9. OnePlace' BY ReadToWriteMemories DEF SharingInv
<1> QED BY <1>1, <1>3, <1>5, <1>6, <1>7, <1>8, <1>9, ReadsKeep

\* A GET, a PUT or the sweep reads a row.
LEMMA TouchReadKeeps ==
  ASSUME SharingInv, NEW p \in Procs, NEW s \in Stores, TouchRead(p, s)
  PROVE  SharingInv'
<1>1. "touch" \in WriteKinds /\ "touch" \in WritePhases BY DEF WriteKinds, WritePhases
<1>2. ReadToWrite(p, "touch", "touch", s) BY DEF TouchRead
<1> QED BY <1>1, <1>2, ReadToWriteKeeps

\* A PUT with new content does.
LEMMA EditReadKeeps ==
  ASSUME SharingInv, NEW p \in Procs, NEW u \in Users, EditRead(p, u)
  PROVE  SharingInv'
<1>1. "edit" \in WriteKinds /\ "embed" \in WritePhases BY DEF WriteKinds, WritePhases
<1>2. ReadToWrite(p, "edit", "embed", u) BY DEF EditRead
<1>3. u \in Stores BY Places
<1> QED BY <1>1, <1>2, <1>3, ReadToWriteKeeps

\* The event: the copy is in the log from here.
LEMMA RecordEventKeeps ==
  ASSUME SharingInv, NEW p \in Procs, RecordEvent(p)
  PROVE  SharingInv'
<1>1. /\ pc[p] = "event" /\ Reads(p, "idle", NoJob)
      /\ \A i \in job[p].new : \E e \in events' : e.action = job[p].kind /\ e.memory = i
      BY RecordEventSays DEF SharingInv
<1>2. Fit' BY <1>1, FitIdle DEF SharingInv, Reads
<1>3. SingleCopies' BY <1>1, ReadsSingle DEF SharingInv, CopyPhases
<1>4. job[p].kind # "unshare" => \A i \in job[p].new :
            i \in unlogged' \/ \E e \in events' : e.action # "unshare" /\ e.memory = i
      BY <1>1
<1> QED BY <1>1, <1>2, <1>3, <1>4, NoJobType, ReadsKeep

\* The auto-share task of a memory that was created directly.
LEMMA AutoShareKeeps ==
  ASSUME SharingInv, NEW p \in Procs, AutoShare(p)
  PROVE  SharingInv'
<1>1. pc[p] = "auto" /\ Reads(p, "idle", NoJob) BY AutoShareSays DEF SharingInv
<1>2. job[p].new = {} BY <1>1 DEF SharingInv, Fit, FitAt
<1>3. Fit' BY <1>1, FitIdle DEF SharingInv, Reads
<1>4. SingleCopies' BY <1>1, ReadsSingle DEF SharingInv, CopyPhases
<1> QED BY <1>1, <1>2, <1>3, <1>4, NoJobType, ReadsKeep

\* A request that is dropped: a reshare between its writes has overlapped.
LEMMA DropKeeps ==
  ASSUME SharingInv, NEW p \in Procs, Drop(p)
  PROVE  SharingInv'
<1>1. /\ Reads(p, "idle", NoJob)
      /\ job[p].kind # "unshare" => job[p].new \subseteq unlogged'
      BY DropSays DEF SharingInv
<1>2. Fit' BY <1>1, FitIdle DEF SharingInv, Reads
<1>3. SingleCopies' BY DropSingle DEF SharingInv
<1> QED BY <1>1, <1>2, <1>3, NoJobType, ReadsKeep

\* The insertion of a copy, for a reshare next to the one that it replaces.
LEMMA CreateCopyKeeps ==
  ASSUME SharingInv, NEW p \in Procs, CreateCopy(p)
  PROVE  SharingInv'
<1>1. PICK m, n \in Memory, j \in Job :
              /\ job[p].src = {m} /\ CopyOf(n, m) /\ n.vec = job[p].vec
              /\ Adds(job[p].at, n)
              /\ Turns(p, IF Resharing(p) THEN "delete" ELSE "event", j)
              /\ j.kind = job[p].kind /\ j.at = job[p].at /\ j.within = job[p].within
              /\ j.src = {m} /\ j.old = job[p].old /\ j.new = {n.id} /\ j.vec = job[p].vec
      BY CreateCopySays DEF SharingInv
<1>2. /\ pc[p] = "create" /\ events' = events /\ unlogged' = unlogged /\ clashed' = clashed
      /\ TypeOK'
      BY CreateCopySays DEF SharingInv
<1>3. /\ pc'[p] = (IF Resharing(p) THEN "delete" ELSE "event") /\ job'[p] = j
      /\ \A q \in Procs \ {p} : pc'[q] = pc[q] /\ job'[q] = job[q]
      BY <1>1, TurnsOne DEF SharingInv
<1>4. FitAt(p) BY DEF SharingInv, Fit
<1>5. /\ Copier(p) /\ job[p].new = {}
      /\ \A k \in job[p].src, v \in job[p].vec :
           v.of = k.text.of /\ v.of \notin clashed => v.at >= k.text.at
      BY <1>2, <1>4 DEF FitAt
<1>6. Memories' /\ OnePlace' /\ \A k \in Memory : Known(k)' => Known(k) \/ k = n
  <2>1. Known(m) BY <1>1, ReadIsKnown
  <2>2. \A q \in Procs : Writes(q)' => pc'[q] = pc[q] /\ job'[q] = job[q] BY <1>3 DEF Writes
  <2>3. ASSUME NEW q \in Procs, NEW k \in job'[q].src \cup job'[q].old PROVE Known(k)
    <3>1. CASE q = p
      <4>1. k \in job[p].src \cup job[p].old BY <1>1, <1>3, <2>3, <3>1
      <4> QED BY <4>1, ReadIsKnown
    <3>2. CASE q # p BY <1>3, <3>2, ReadIsKnown
    <3> QED BY <3>1, <3>2
  <2>4. \A v \in n.vec : v.of = m.text.of /\ v.of \notin clashed => v.at >= m.text.at
        BY <1>1, <1>5
  <2> QED BY <1>1, <1>2, <2>1, <2>2, <2>3, <2>4, AddsMemories DEF SharingInv
<1>7. Fit' BY CreateCopyFit DEF SharingInv
<1>8. SingleCopies' BY CreateCopySingle DEF SharingInv
<1>9. Available' BY CreateCopyAvailable DEF SharingInv
<1>10. Made' BY CreateCopyMade DEF SharingInv
<1>11. AllLogged'
  <2>1. Logged(n)'
    <3>1. job'[p].kind # "unshare" /\ n.id \in job'[p].new BY <1>1, <1>3, <1>5 DEF Copier
    <3> QED BY <3>1 DEF Logged
  <2>2. \A k \in Memory : Known(k)' => k.from = {} \/ Logged(k)' \/ KnownOf(k)
        BY <1>6, <2>1 DEF KnownOf
  <2>3. \A q \in Procs : job[q].kind # "unshare" => \A i \in job[q].new :
            \/ job'[q].kind # "unshare" /\ i \in job'[q].new
            \/ i \in unlogged'
            \/ \E e \in events' : e.action # "unshare" /\ e.memory = i
        BY <1>3, <1>5
  <2> QED BY <1>2, <2>2, <2>3, LoggedKeeps DEF SharingInv
<1> QED BY <1>2, <1>6, <1>7, <1>8, <1>9, <1>10, <1>11 DEF SharingInv

\* The delete: a reshare leaves its new copy, an unshare ends the sharing.
LEMMA DeleteCopyKeeps ==
  ASSUME SharingInv, NEW p \in Procs, DeleteCopy(p)
  PROVE  SharingInv'
<1>1. /\ pc[p] = "delete" /\ UNCHANGED <<events, overlap, unlogged, used, clashed>> /\ TypeOK'
      /\ Turns(p, "event", job[p])
      /\ table' = [table EXCEPT ![job[p].at] = {m \in @ : m.id \notin OldIds(p)}]
      BY DeleteCopySays DEF SharingInv
<1>2. /\ pc'[p] = "event" /\ job'[p] = job[p]
      /\ \A q \in Procs \ {p} : pc'[q] = pc[q] /\ job'[q] = job[q]
      BY <1>1, TurnsOne DEF SharingInv
<1>3. \A s \in Stores : table'[s] \subseteq table[s] BY <1>1 DEF TypeOK, SharingInv
<1>4. \A q \in Procs : (pc'[q] = pc[q] /\ job'[q] = job[q]) \/
        (~Writes(q)' /\ job'[q].src \subseteq job[q].src /\ job'[q].old \subseteq job[q].old)
      BY <1>2 DEF Writes
<1>5. Memories' /\ OnePlace' /\ \A m \in Memory : Known(m)' => KnownOf(m)
      BY <1>1, <1>3, <1>4, GoneMemories DEF SharingInv, KnownOf
<1>6. Fit' BY DeleteCopyFit DEF SharingInv
<1>7. SingleCopies' BY DeleteCopySingle DEF SharingInv
<1>8. Available' BY DeleteCopyAvailable DEF SharingInv
<1>9. Made'
  <2>1. \A q \in Procs : Making(q)' => Making(q) /\ job'[q] = job[q]
        BY <1>1, <1>2 DEF Making, Resharing
  <2>2. \A s \in Spaces : \A m \in table'[s] : m.id \notin used \/ \E r \in table[s] : r.id = m.id
        BY <1>3, Places
  <2> QED BY <1>5, <2>1, <2>2, MadeKeeps DEF SharingInv
<1>10. AllLogged'
  <2>1. \A q \in Procs : job'[q] = job[q] BY <1>2
  <2> QED BY <1>1, <1>5, <2>1, LoggedKeeps DEF SharingInv
<1> QED BY <1>1, <1>5, <1>6, <1>7, <1>8, <1>9, <1>10 DEF SharingInv

\* A write after which the rows of the spaces are the same memories, by a request that
\* makes no copy.
LEMMA WriteKeeps ==
  ASSUME SharingInv, TypeOK', Fit', Memories', OnePlace', SingleCopies',
         UNCHANGED <<events, shared, unlogged>>,
         \A m \in Memory : Known(m)' => KnownOf(m) \/ (m.id \notin used /\ m.from = {}),
         \A s \in Spaces : \A c \in table'[s] : \E b \in table[s] : b.id = c.id /\ b.from = c.from,
         \A s \in Spaces : \A c \in table[s] : \E d \in table'[s] : d.id = c.id /\ d.from = c.from,
         \A q \in Procs :
            \/ pc'[q] = pc[q] /\ job'[q] = job[q]
            \/ job[q].new = {} /\ ~Resharing(q)'
  PROVE  SharingInv'
<1>1. \A q \in Procs : Making(q)' => Making(q) /\ job'[q] = job[q]
      BY DEF Making, Resharing
<1>2. \A s \in Spaces : \A m \in table'[s] : m.id \notin used \/ \E r \in table[s] : r.id = m.id
      OBVIOUS
<1>3. Made' BY <1>1, <1>2, MadeKeeps DEF SharingInv
<1>4. \A q \in Procs : pc'[q] = "delete" /\ Resharing(q)' => pc[q] = "delete" /\ job'[q] = job[q]
      OBVIOUS
<1>5. Available' BY <1>4, AvailableKeeps DEF SharingInv
<1>6. \A q \in Procs : job[q].kind # "unshare" => \A i \in job[q].new :
            \/ job'[q].kind # "unshare" /\ i \in job'[q].new
            \/ i \in unlogged'
            \/ \E e \in events' : e.action # "unshare" /\ e.memory = i
      OBVIOUS
<1>7. AllLogged' BY <1>6, LoggedKeeps DEF SharingInv
<1> QED BY <1>3, <1>5, <1>7 DEF SharingInv

\* An original that is inserted in a personal store.
LEMMA OriginalKeeps ==
  ASSUME SharingInv, TypeOK', NEW u \in Users, NEW n \in Memory, Adds(u, n),
         n.from = {}, n.ver = 1, n.text = Own(n), n.vec = {n.text}, Fit',
         UNCHANGED <<events, shared, overlap, unlogged, clashed>>,
         \A q \in Procs :
            \/ pc'[q] = pc[q] /\ job'[q] = job[q]
            \/ /\ pc[q] = "idle" /\ pc'[q] = "auto" /\ job'[q].kind = "auto"
               /\ job'[q].src = {n} /\ job'[q].old = {}
  PROVE  SharingInv'
<1>1. /\ n.id \notin used /\ \A t \in Stores \ {u} : table'[t] = table[t]
      BY AddsRows DEF SharingInv
<1>2. \A s \in Spaces : table'[s] = table[s] BY <1>1, Places
<1>3. \A q \in Procs : Writes(q)' => pc'[q] = pc[q] /\ job'[q] = job[q] BY DEF Writes
<1>4. ASSUME NEW q \in Procs, NEW k \in job'[q].src \cup job'[q].old PROVE Known(k) \/ k = n
  <2>1. CASE job'[q] = job[q] BY <2>1, ReadIsKnown
  <2> QED BY <2>1
<1>5. Memories' /\ OnePlace' /\ \A m \in Memory : Known(m)' => Known(m) \/ m = n
      BY <1>3, <1>4, AddsMemories DEF SharingInv
<1>6. \A m \in Memory : Known(m)' => KnownOf(m) \/ (m.id \notin used /\ m.from = {})
      BY <1>1, <1>5 DEF KnownOf
<1>7. \A q \in Procs : pc[q] = "idle" => job[q].new = {}
      BY NoJobType DEF SharingInv, Fit, FitAt
<1>8. SingleCopies'
  <2>1. \A q \in Procs :
           \/ pc'[q] = pc[q] /\ job'[q] = job[q]
           \/ /\ ~(pc[q] = "delete" /\ Resharing(q))
              /\ job'[q].kind \notin {"share", "reshare"} \/ pc'[q] \notin CopyPhases
        BY DEF CopyPhases
  <2> QED BY <1>2, <2>1, SingleLeaves DEF SharingInv
<1>9. /\ \A s \in Spaces : \A c \in table'[s] : \E b \in table[s] : b.id = c.id /\ b.from = c.from
      /\ \A s \in Spaces : \A c \in table[s] : \E d \in table'[s] : d.id = c.id /\ d.from = c.from
      BY <1>2
<1>10. \A q \in Procs : \/ pc'[q] = pc[q] /\ job'[q] = job[q]
                        \/ job[q].new = {} /\ ~Resharing(q)'
       BY <1>7 DEF Resharing
<1> QED BY <1>5, <1>6, <1>8, <1>9, <1>10, WriteKeeps

\* A new memory and its task.
LEMMA CreateMemoryKeeps ==
  ASSUME SharingInv, NEW p \in Procs, NEW u \in Users, CreateMemory(p, u)
  PROVE  SharingInv'
<1>1. PICK n \in Memory, j \in Job :
              /\ Adds(u, n) /\ Turns(p, "auto", j)
              /\ n.from = {} /\ n.ver = 1 /\ n.text = Own(n) /\ n.vec = {n.text}
              /\ j.kind = "auto" /\ j.src = {n} /\ j.old = {} /\ j.new = {}
      BY CreateMemorySays DEF SharingInv
<1>2. /\ pc[p] = "idle" /\ UNCHANGED <<events, shared, overlap, unlogged, clashed>> /\ TypeOK'
      BY CreateMemorySays DEF SharingInv
<1>3. /\ pc'[p] = "auto" /\ job'[p] = j
      /\ \A q \in Procs \ {p} : pc'[q] = pc[q] /\ job'[q] = job[q]
      BY <1>1, TurnsOne DEF SharingInv
<1>4. Fit' BY CreateMemoryFit DEF SharingInv
<1> QED BY <1>1, <1>2, <1>3, <1>4, OriginalKeeps

\* An imported memory.
LEMMA ImportMemoryKeeps ==
  ASSUME SharingInv, NEW u \in Users, ImportMemory(u)
  PROVE  SharingInv'
<1>1. PICK n \in Memory :
        Adds(u, n) /\ n.from = {} /\ n.ver = 1 /\ n.text = Own(n) /\ n.vec = {n.text}
      BY ImportMemorySays DEF SharingInv
<1>2. UNCHANGED <<pc, job, events, shared, overlap, unlogged, clashed>> /\ TypeOK'
      BY ImportMemorySays DEF SharingInv
<1>3. used \subseteq used' BY <1>1 DEF Adds
<1>4. Fit' BY <1>2, <1>3, FitStays DEF SharingInv, Fit
<1> QED BY <1>1, <1>2, <1>4, OriginalKeeps

\* The first half of an edit: the memory still exists, in the job.
LEMMA EditDeleteKeeps ==
  ASSUME SharingInv, NEW p \in Procs, EditDelete(p)
  PROVE  SharingInv'
<1>1. /\ pc[p] = "embed" /\ UNCHANGED <<events, used, shared, overlap, unlogged>> /\ TypeOK'
      /\ Turns(p, "add", job[p]) /\ job[p].at \in Users
      /\ job[p].kind \in {"edit", "touch"} /\ job[p].new = {}
      BY EditDeleteSays DEF SharingInv
<1>2. PICK m \in Memory : table' = [table EXCEPT ![job[p].at] = {r \in @ : r.id # m.id}]
      BY EditDeleteSays DEF SharingInv
<1>3. /\ pc'[p] = "add" /\ job'[p] = job[p]
      /\ \A q \in Procs \ {p} : pc'[q] = pc[q] /\ job'[q] = job[q]
      BY <1>1, TurnsOne DEF SharingInv
<1>4. \A s \in Spaces : table'[s] = table[s] BY <1>1, <1>2, Places DEF SharingInv, TypeOK
<1>5. Memories' /\ OnePlace' /\ \A k \in Memory : Known(k)' => KnownOf(k)
      BY EditDeleteMemories DEF SharingInv, KnownOf
<1>6. Fit' BY EditDeleteFit DEF SharingInv
<1>7. SingleCopies'
  <2>1. \A q \in Procs :
           \/ pc'[q] = pc[q] /\ job'[q] = job[q]
           \/ /\ ~(pc[q] = "delete" /\ Resharing(q))
              /\ job'[q].kind \notin {"share", "reshare"} \/ pc'[q] \notin CopyPhases
        BY <1>1, <1>3 DEF CopyPhases
  <2> QED BY <1>1, <1>4, <2>1, SingleLeaves DEF SharingInv
<1>8. /\ \A s \in Spaces : \A c \in table'[s] : \E b \in table[s] : b.id = c.id /\ b.from = c.from
      /\ \A s \in Spaces : \A c \in table[s] : \E d \in table'[s] : d.id = c.id /\ d.from = c.from
      BY <1>4
<1>9. \A q \in Procs : \/ pc'[q] = pc[q] /\ job'[q] = job[q]
                       \/ job[q].new = {} /\ ~Resharing(q)'
      BY <1>1, <1>3 DEF Resharing
<1> QED BY <1>1, <1>5, <1>6, <1>7, <1>8, <1>9, WriteKeeps

\* The second half: it is a row again, at its next version.
LEMMA EditAddKeeps ==
  ASSUME SharingInv, NEW p \in Procs, EditAdd(p)
  PROVE  SharingInv'
<1>1. /\ UNCHANGED <<events, used, shared, overlap, unlogged, clashed>> /\ TypeOK'
      /\ Turns(p, "idle", NoJob) /\ job[p].at \in Users /\ job[p].new = {} /\ pc[p] = "add"
      BY EditAddSays DEF SharingInv
<1>2. PICK m, e \in Memory : table' = [table EXCEPT ![job[p].at] = @ \cup {e}]
      BY EditAddSays DEF SharingInv
<1>3. /\ pc'[p] = "idle" /\ job'[p] = NoJob
      /\ \A q \in Procs \ {p} : pc'[q] = pc[q] /\ job'[q] = job[q]
      BY <1>1, TurnsOne DEF SharingInv
<1>4. \A s \in Spaces : table'[s] = table[s] BY <1>1, <1>2, Places DEF SharingInv, TypeOK
<1>5. Memories' /\ OnePlace' /\ \A k \in Memory : Known(k)' => KnownOf(k)
      BY EditAddMemories DEF SharingInv, KnownOf
<1>6. Fit' BY <1>1, FitIdle DEF SharingInv
<1>7. /\ \A s \in Spaces : \A c \in table'[s] : \E b \in table[s] : b.id = c.id /\ b.from = c.from
      /\ \A s \in Spaces : \A c \in table[s] : \E d \in table'[s] : d.id = c.id /\ d.from = c.from
      BY <1>4
<1>8. SingleCopies'
  <2>1. \A q \in Procs :
           \/ pc'[q] = pc[q] /\ job'[q] = job[q]
           \/ /\ ~(pc[q] = "delete" /\ Resharing(q))
              /\ job'[q].kind \notin {"share", "reshare"} \/ pc'[q] \notin CopyPhases
        BY <1>1, <1>3 DEF CopyPhases
  <2> QED BY <1>1, <1>4, <2>1, SingleLeaves DEF SharingInv
<1>9. \A q \in Procs : \/ pc'[q] = pc[q] /\ job'[q] = job[q]
                       \/ job[q].new = {} /\ ~Resharing(q)'
      BY <1>1, <1>3, NoJobType DEF Resharing
<1> QED BY <1>1, <1>5, <1>6, <1>7, <1>8, <1>9, WriteKeeps

\* A write-back: the same memories are where they were.
LEMMA WriteBackKeeps ==
  ASSUME SharingInv, NEW p \in Procs, WriteBack(p)
  PROVE  SharingInv'
<1>1. /\ UNCHANGED <<events, used, shared, overlap, unlogged>> /\ TypeOK'
      /\ Turns(p, "idle", NoJob) /\ job[p].at \in Stores /\ job[p].new = {}
      /\ job[p].kind \in {"edit", "touch"} /\ clashed \subseteq clashed'
      BY WriteBackSays DEF SharingInv
<1>2. PICK m \in Memory :
        /\ job[p].src = {m}
        /\ \A s \in Stores \ {job[p].at} : table'[s] = table[s]
        /\ \A k \in table'[job[p].at] :
             k \in Memory /\ \E r \in table[job[p].at] : WrittenBack(k, r, m)
        /\ \A r \in table[job[p].at] : \E k \in table'[job[p].at] : WrittenBack(k, r, m)
      BY WriteBackSays DEF SharingInv
<1>3. /\ pc'[p] = "idle" /\ job'[p] = NoJob
      /\ \A q \in Procs \ {p} : pc'[q] = pc[q] /\ job'[q] = job[q]
      BY <1>1, TurnsOne DEF SharingInv
<1>4. Known(m) BY <1>2 DEF Known, Seen
<1>5. ASSUME NEW r \in table[job[p].at], NEW k, WrittenBack(k, r, m)
      PROVE  k.id = r.id /\ k.from = r.from
  <2>1. r \in Memory /\ Known(r) BY <1>1, ReadIsMemory DEF Known, Alive, IsRow, SharingInv
  <2>2. r.id = m.id => r.from = m.from BY <1>4, <2>1 DEF SharingInv, Memories, Inherited
  <2> QED BY <1>5, <2>2 DEF WrittenBack, NextOf
<1>6. /\ \A s \in Stores : \A c \in table'[s] : \E b \in table[s] : b.id = c.id /\ b.from = c.from
      /\ \A s \in Stores : \A c \in table[s] : \E d \in table'[s] : d.id = c.id /\ d.from = c.from
      BY <1>2, <1>5
<1>7. Memories' /\ OnePlace' /\ \A k \in Memory : Known(k)' => KnownOf(k)
      BY WriteBackMemories DEF SharingInv, KnownOf
<1>8. Fit' BY <1>1, FitIdle DEF SharingInv
<1>9. /\ \A s \in Spaces : \A c \in table'[s] : \E b \in table[s] : b.id = c.id /\ b.from = c.from
      /\ \A s \in Spaces : \A c \in table[s] : \E d \in table'[s] : d.id = c.id /\ d.from = c.from
      BY <1>6, Places
<1>10. SingleCopies' BY <1>1, <1>7, <1>9, WrittenSingle DEF SharingInv
<1>11. \A q \in Procs : \/ pc'[q] = pc[q] /\ job'[q] = job[q]
                        \/ job[q].new = {} /\ ~Resharing(q)'
       BY <1>1, <1>3, NoJobType DEF Resharing
<1> QED BY <1>1, <1>7, <1>8, <1>9, <1>10, <1>11, WriteKeeps

\* The deletion of a memory of a personal store.
LEMMA DeleteMemoryKeeps ==
  ASSUME SharingInv, NEW u \in Users, DeleteMemory(u)
  PROVE  SharingInv'
<1>1. /\ UNCHANGED <<pc, job, events, used, shared, overlap, unlogged, clashed>> /\ TypeOK'
      /\ \A s \in Stores : table'[s] \subseteq table[s]
      /\ \A s \in Spaces : table'[s] = table[s]
      BY DeleteMemorySays DEF SharingInv
<1>2. Memories' /\ OnePlace' /\ \A k \in Memory : Known(k)' => KnownOf(k)
      BY <1>1, GoneMemories DEF SharingInv, KnownOf
<1>3. Fit' BY <1>1, FitStays DEF SharingInv, Fit
<1>4. SingleCopies' BY <1>1, SingleLeaves DEF SharingInv
<1>5. /\ \A s \in Spaces : \A c \in table'[s] : \E b \in table[s] : b.id = c.id /\ b.from = c.from
      /\ \A s \in Spaces : \A c \in table[s] : \E d \in table'[s] : d.id = c.id /\ d.from = c.from
      BY <1>1
<1> QED BY <1>1, <1>2, <1>3, <1>4, <1>5, WriteKeeps

\* What the sweep deletes.
LEMMA ForgetKeeps ==
  ASSUME SharingInv, NEW s \in Stores, Forget(s)
  PROVE  SharingInv'
<1>1. /\ UNCHANGED <<pc, job, events, used, overlap, unlogged, clashed>> /\ TypeOK'
      /\ \A t \in Stores : table'[t] \subseteq table[t]
      BY ForgetSays DEF SharingInv
<1>2. Memories' /\ OnePlace' /\ \A k \in Memory : Known(k)' => KnownOf(k)
      BY <1>1, GoneMemories DEF SharingInv, KnownOf
<1>3. Fit' BY <1>1, FitStays DEF SharingInv, Fit
<1>4. SingleCopies'
  <2>1. \A t \in Spaces : table'[t] \subseteq table[t] BY <1>1, Places
  <2> QED BY <1>1, <2>1, SingleLeaves DEF SharingInv
<1>5. Available' BY ForgetAvailable DEF SharingInv
<1>6. Made'
  <2>1. \A q \in Procs : Making(q)' => Making(q) /\ job'[q] = job[q]
        BY <1>1 DEF Making, Resharing
  <2>2. \A t \in Spaces : \A m \in table'[t] : m.id \notin used \/ \E r \in table[t] : r.id = m.id
        BY <1>1, Places
  <2> QED BY <1>2, <2>1, <2>2, MadeKeeps DEF SharingInv
<1>7. AllLogged' BY <1>1, <1>2, LoggedKeeps DEF SharingInv
<1> QED BY <1>1, <1>2, <1>3, <1>4, <1>5, <1>6, <1>7 DEF SharingInv

-----------------------------------------------------------------------------
(* The theorem. *)

\* In the beginning nothing exists and nobody has read anything.
LEMMA SharingInit == Init => SharingInv
<1> SUFFICES ASSUME Init PROVE SharingInv OBVIOUS
<1>1. TypeOK BY NoJobType DEF Init, TypeOK, Phases
<1>2. Fit BY NoJobType DEF Init, Fit, FitAt, Writes
<1>3. \A m \in Memory : ~Alive(m) /\ ~Known(m) /\ ~IsRow(m)
      BY NoJobType DEF Init, Alive, Known, IsRow, Holds, Seen
<1>4. Memories BY <1>3 DEF Memories, Formed, Inherited, OnlyNewer, VectorsAhead, SourcesAhead
<1>5. OnePlace BY Places DEF Init, OnePlace, Writes
<1>6. Made BY DEF Init, Made, Making
<1>7. Available BY DEF Init, Available
<1>8. SingleCopies
  <2>1. ASSUME NEW s \in Spaces, NEW i \in Ids PROVE Single(s, i)
    <3>1. CopiesOf(s, i) = {} BY Places DEF Init, CopiesOf
    <3>2. Copying(s, i) = {} BY DEF Init, Copying
    <3>3. Settled(s, i) = {} BY <3>1 DEF Settled
    <3> QED BY <3>1, <3>2, <3>3 DEF Single, OneCopier, OneSettled, NoneYet, OldOrNew
  <2> QED BY <2>1 DEF SingleCopies
<1>9. AllLogged BY <1>3 DEF AllLogged
<1> QED BY <1>1, <1>2, <1>4, <1>5, <1>6, <1>7, <1>8, <1>9 DEF SharingInv

\* Nothing happens.
LEMMA SharingStays == ASSUME SharingInv, UNCHANGED vars PROVE SharingInv'
<1>0. /\ table' = table /\ pc' = pc /\ job' = job /\ events' = events /\ used' = used
      /\ shared' = shared /\ overlap' = overlap /\ unlogged' = unlogged /\ checked' = checked
      /\ clashed' = clashed
      BY DEF vars
<1>1. TypeOK' BY <1>0 DEF SharingInv, TypeOK
<1>2. Fit' BY <1>0, FitStays DEF SharingInv, Fit
<1>3. \A m \in Memory : (Alive(m)' => Alive(m)) /\ (Known(m)' => Known(m)) /\ (IsRow(m)' => IsRow(m))
      BY <1>0 DEF Alive, Known, IsRow, Holds, Seen
<1>4. Memories' BY <1>0, <1>3, KeepMemories DEF SharingInv
<1>5. OnePlace' BY <1>0 DEF SharingInv, OnePlace, Writes
<1>6. \A q \in Procs : Making(q)' => Making(q) /\ job'[q] = job[q]
      BY <1>0 DEF Making, Resharing
<1>7. \A m \in Memory : Known(m)' => KnownOf(m) BY <1>3 DEF KnownOf
<1>8. Made' BY <1>0, <1>6, <1>7, MadeKeeps DEF SharingInv
<1>9. Available' BY <1>0, AvailableKeeps DEF SharingInv, Resharing
<1>10. SingleCopies' BY <1>0, SingleLeaves DEF SharingInv
<1>11. AllLogged' BY <1>0, <1>7, LoggedKeeps DEF SharingInv
<1> QED BY <1>1, <1>2, <1>4, <1>5, <1>8, <1>9, <1>10, <1>11 DEF SharingInv

\* A request goes on or is dropped.
LEMMA StepKeeps ==
  ASSUME SharingInv, NEW p \in Procs, Step(p) \/ Drop(p)
  PROVE  SharingInv'
BY ShareCheckKeeps, ReshareSourceKeeps, ReadVectorKeeps, CreateCopyKeeps, DeleteCopyKeeps,
   RecordEventKeeps, AutoShareKeeps, EditDeleteKeeps, EditAddKeeps, WriteBackKeeps, DropKeeps
DEF Step

\* Copying starts, of one memory or of a list.
LEMMA SharesKeep ==
  ASSUME SharingInv, NEW u \in Users, NEW s \in Spaces,
         \/ \E p \in Procs : ShareStart(p, u, s)
         \/ BatchShare(u, s) \/ ShareAll(u, s)
  PROVE  SharingInv'
<1>1. PICK P \in SUBSET IdleProcs : \E f \in [P -> table[u]] : StartShares(P, f, u, s)
      BY SharesAre
<1>2. PICK f \in [P -> table[u]] : StartShares(P, f, u, s) BY <1>1
<1>3. P \subseteq IdleProcs /\ \A p \in P : f[p] \in table[u] BY <1>2
<1> QED BY <1>2, <1>3, StartSharesKeeps

\* Another request starts.
LEMMA StartKeeps ==
  ASSUME SharingInv, NEW p \in Procs, NEW u \in Users, Start(p, u)
  PROVE  SharingInv'
<1>1. CASE \E s \in Spaces : ShareStart(p, u, s) \/ PullStart(p, u, s) \/ UnshareStart(p, u, s)
      BY <1>1, SharesKeep, PullStartKeeps, UnshareStartKeeps
<1>2. CASE \E s \in Stores : ReshareStart(p, u, s) \/ TouchRead(p, s)
      BY <1>2, ReshareStartKeeps, TouchReadKeeps
<1>3. CASE CreateMemory(p, u) \/ EditRead(p, u) BY <1>3, CreateMemoryKeeps, EditReadKeeps
<1> QED BY <1>1, <1>2, <1>3 DEF Start

\* Every step keeps the invariant.
LEMMA SharingNext == SharingInv /\ [Next]_vars => SharingInv'
<1> SUFFICES ASSUME SharingInv, [Next]_vars PROVE SharingInv' OBVIOUS
<1>1. CASE \E p \in Procs : Step(p) \/ Drop(p) BY <1>1, StepKeeps
<1>2. CASE \E p \in Procs, u \in Users : Start(p, u) BY <1>2, StartKeeps
<1>3. CASE \E u \in Users, s \in Spaces : BatchShare(u, s) \/ ShareAll(u, s) BY <1>3, SharesKeep
<1>4. CASE \E u \in Users : ImportMemory(u) \/ DeleteMemory(u)
      BY <1>4, ImportMemoryKeeps, DeleteMemoryKeeps
<1>5. CASE \E s \in Stores : Forget(s) BY <1>5, ForgetKeeps
<1>6. CASE UNCHANGED vars BY <1>6, SharingStays
<1> QED BY <1>1, <1>2, <1>3, <1>4, <1>5, <1>6 DEF Next

\* A copy that is not stale shows its source's text: the source has not gone back.
LEMMA FreshIsCurrent == SharingInv => FreshMeansCurrent
<1> SUFFICES ASSUME SharingInv, NEW s \in Stores, NEW c \in table[s], NEW o \in c.from,
                    c.text.of # c.id, o.id \notin clashed, ~IsStale(c, o)
             PROVE  \E m \in RowsWithId(o.space, o.id) : m.text = c.text
    BY DEF FreshMeansCurrent
<1>1. c \in Memory /\ Known(c) BY DEF SharingInv, TypeOK, Known, Alive, IsRow
<1>2. o \in Origin BY <1>1 DEF Memory
<1>3. PICK m \in RowsWithId(o.space, o.id) : o.ver >= m.ver BY DEF IsStale
<1>4. m \in RowsIn(o.space) /\ m.id = o.id BY <1>3 DEF RowsWithId
<1>5. m \in Memory /\ Alive(m) BY <1>2, <1>4, RowsAreKnown, ReadIsMemory DEF SharingInv, Origin
<1>6. Follows(c, m) BY <1>1, <1>5 DEF SharingInv, Memories, SourcesAhead
<1>7. o.ver \in Nat /\ m.ver \in Nat BY <1>2, <1>5, SharingAssumption DEF Origin, Memory
<1>8. m.ver = o.ver BY <1>3, <1>4, <1>6, <1>7 DEF Follows
<1> QED BY <1>4, <1>6, <1>8, <1>3 DEF Follows

\* It implies what is claimed of the copies.
LEMMA SharingIsSafe == SharingInv => CopiesSafe
<1> SUFFICES ASSUME SharingInv PROVE CopiesSafe OBVIOUS
<1>0. \A s \in Stores : \A m \in table[s] : m \in Memory /\ Alive(m) /\ Known(m) /\ IsRow(m)
      BY DEF SharingInv, TypeOK, Alive, Known, IsRow
<1>1. SharedStaysAvailable
      BY DEF SharingInv, Available, SharedStaysAvailable
<1>2. OneCopyUnlessOverlap
  <2>1. ASSUME NEW s \in Spaces, NEW i \in Ids, <<s, i>> \notin overlap,
               NEW S, S = {c \in CopiesOf(s, i) :
                             ~\E p \in Procs : pc[p] = "delete" /\ c.id \in job[p].new}
        PROVE  Cardinality(S) <= 1
    <3>1. S \subseteq Settled(s, i) BY <2>1 DEF Settled
    <3>2. \A c, d \in S : c = d
          BY <3>1, <2>1 DEF SharingInv, SingleCopies, Single, OneSettled
    <3>3. CASE S = {} BY <3>3, FS_EmptySet
    <3>4. CASE S # {}
      <4>1. PICK c \in S : TRUE BY <3>4
      <4>2. S = {c} BY <4>1, <3>2
      <4> QED BY <4>2, FS_Singleton
    <3> QED BY <3>3, <3>4
  <2> QED BY <2>1 DEF OneCopyUnlessOverlap
<1>3. EmbeddingNotOlder
  <2>1. ASSUME NEW s \in Stores, NEW c \in table[s]
        PROVE  Matches(c, c)
        BY <1>0 DEF SharingInv, Memories, VectorsAhead
  <2> QED BY <2>1 DEF EmbeddingNotOlder, Matches
<1>4. ReshareNeverGoesBack
  <2>1. ASSUME NEW p \in Procs, pc[p] = "delete", job[p].kind = "reshare",
               NEW c \in table[job[p].at], NEW b \in job[p].old, c.id \in job[p].new,
               NEW o \in c.from, NEW o2 \in b.from, o.id \notin clashed
        PROVE  o.ver >= o2.ver
    <3>1. job[p].at \in Stores BY DEF SharingInv, TypeOK, Job
    <3>2. c \in Memory /\ Known(c) BY <1>0, <3>1
    <3>3. MadeOf(p) BY <2>1 DEF SharingInv, Made, Making, Resharing
    <3>4. \A m \in job[p].src : o.id = m.id /\ o.ver = m.ver
          BY <3>2, <3>3, <2>1 DEF MadeOf
    <3>5. OldCopy(p) /\ OneSource(p)
          BY <2>1 DEF SharingInv, Fit, FitAt, Copier, Resharing, Unsharing
    <3>6. PICK m \in Memory : job[p].src = {m} BY <3>5 DEF OneSource
    <3>7. m.ver >= o2.ver BY <2>1, <3>4, <3>5, <3>6 DEF OldCopy
    <3> QED BY <3>4, <3>6, <3>7
  <2> QED BY <2>1 DEF ReshareNeverGoesBack
<1>5. CopiesAudited
  <2>1. \A s \in Stores : \A c \in table[s] : c.from # {} => Logged(c)
        BY <1>0 DEF SharingInv, AllLogged
  <2> QED BY <2>1 DEF CopiesAudited, Logged
<1> QED BY <1>1, <1>2, <1>3, <1>4, <1>5, FreshIsCurrent DEF CopiesSafe, SharingInv

\* Whatever requests race or are dropped half-way, whatever row a write-back takes
\* back and whatever the sweep deletes (api/handlers/sharing.rs:237-860): a memory
\* that was shared, and whose copies were neither unshared nor swept, stays to be
\* found in its space, in one copy unless two requests copied it at once or a reshare
\* stopped half-way; every copy is in the log; and unless two writes of the source
\* clashed, a copy's embedding is never older than its text, no reshare goes back to
\* an earlier version, and a copy that check_stale does not flag shows its source's
\* present text.
THEOREM CopiesAreSafe == Spec => []CopiesSafe
<1>1. Spec => []SharingInv BY SharingInit, SharingNext, PTL DEF Spec
<1> QED BY <1>1, SharingIsSafe, PTL

-----------------------------------------------------------------------------
(* One request at a time. *)

\* What a request has read of its source, or to write it back, is still there, and
\* the embedding it has read is of the text it has read.
HandPhases == {"check", "vector", "create", "delete", "event"}
InHand(p) ==
  /\ pc[p] \in HandPhases =>
       \A m \in job[p].src : job[p].within \in Stores /\ m \in table[job[p].within]
  /\ pc[p] = "create" => \A m \in job[p].src : job[p].vec \subseteq {m.text}
  /\ pc[p] \in WritePhases => job[p].src \subseteq table[job[p].at]
SerialInv == SerialEmbeddingExact /\ clashed = {} /\ \A p \in Procs : InHand(p)

\* Rows that were there, or whose embedding is of their text.
LEMMA ExactRows ==
  ASSUME SerialEmbeddingExact,
         \A s \in Stores : \A m \in table'[s] : m \in table[s] \/ m.vec \subseteq {m.text}
  PROVE  SerialEmbeddingExact'
BY DEF SerialEmbeddingExact

\* The request that goes on is the only one under way.
LEMMA SerialTurn ==
  ASSUME TypeOK, OneAtATime, SerialEmbeddingExact', clashed' = {},
         NEW p \in Procs, NEW c, NEW j, Turns(p, c, j),
         c \in HandPhases => \A m \in j.src : j.within \in Stores /\ m \in table'[j.within],
         c = "create" => \A m \in j.src : j.vec \subseteq {m.text},
         c \in WritePhases => j.src \subseteq table'[j.at]
  PROVE  SerialInv'
<1>1. /\ pc'[p] = c /\ job'[p] = j
      /\ \A q \in Procs \ {p} : pc'[q] = pc[q] /\ job'[q] = job[q]
      BY TurnsOne
<1>2. \A q \in Procs \ {p} : pc[q] = "idle" BY <1>1 DEF OneAtATime
<1>3. \A q \in Procs \ {p} : InHand(q)' BY <1>1, <1>2 DEF InHand, HandPhases, WritePhases
<1>4. InHand(p)' BY <1>1 DEF InHand
<1> QED BY <1>3, <1>4 DEF SerialInv

\* The end of a request.
LEMMA SerialEnd ==
  ASSUME TypeOK, OneAtATime, SerialInv, clashed' = {}, NEW p \in Procs, Turns(p, "idle", NoJob),
         \A s \in Stores : \A m \in table'[s] : m \in table[s] \/ m.vec \subseteq {m.text}
  PROVE  SerialInv'
<1>1. SerialEmbeddingExact' BY ExactRows DEF SerialInv
<1> QED BY <1>1, SerialTurn DEF HandPhases, WritePhases

\* A read.
LEMMA SerialRead ==
  ASSUME TypeOK, OneAtATime, SerialInv, NEW p \in Procs, NEW c, NEW j, Reads(p, c, j),
         c \in HandPhases => \A m \in j.src : j.within \in Stores /\ m \in table[j.within],
         c = "create" => \A m \in j.src : j.vec \subseteq {m.text},
         c \in WritePhases => j.src \subseteq table[j.at]
  PROVE  SerialInv'
<1>1. Turns(p, c, j) /\ table' = table /\ clashed' = clashed BY DEF Reads
<1>2. SerialEmbeddingExact' /\ clashed' = {} BY <1>1, ExactRows DEF SerialInv
<1> QED BY <1>1, <1>2, SerialTurn

\* A row that is alone with its id.
LEMMA RowAlone ==
  ASSUME SharingInv, clashed = {}, NEW s \in Stores, NEW m \in table[s], NEW r \in table[s],
         m.id = r.id
  PROVE  m = r
<1>1. m \in Memory /\ r \in Memory /\ Alive(m) /\ Alive(r)
      BY ReadIsMemory DEF SharingInv, Alive, IsRow
<1> QED BY <1>1, AliveOnce DEF SharingInv, Memories

\* The embedding that is read is of the row that was read, which is the only one
\* with its id.
LEMMA ReadVectorSerial ==
  ASSUME SharingInv, OneAtATime, SerialInv, NEW p \in Procs, ReadVector(p)
  PROVE  SerialInv'
<1>1. PICK j \in Job :
              /\ Reads(p, "create", j)
              /\ j.kind = job[p].kind /\ j.at = job[p].at /\ j.within = job[p].within
              /\ j.src = job[p].src /\ j.old = job[p].old /\ j.new = job[p].new
              /\ \A v \in j.vec : \E m \in job[p].src : \E r \in RowsIn(job[p].within) :
                   r.id = m.id /\ v \in r.vec
      BY ReadVectorSays DEF SharingInv
<1>2. pc[p] = "vector" BY ReadVectorSays DEF SharingInv
<1>3. \A m \in job[p].src : job[p].within \in Stores /\ m \in table[job[p].within]
      BY <1>2 DEF SerialInv, InHand, HandPhases
<1>4. PICK m \in Memory : job[p].src = {m}
      BY <1>2 DEF SharingInv, Fit, FitAt, OneSource
<1>5. ASSUME NEW v \in j.vec PROVE v = m.text
  <2>1. PICK r \in RowsIn(job[p].within) : r.id = m.id /\ v \in r.vec BY <1>1, <1>4
  <2>2. job[p].within \in Stores /\ m \in table[job[p].within] BY <1>3, <1>4
  <2>3. r \in table[job[p].within] BY <2>1, <2>2 DEF RowsIn
  <2>4. r = m BY <2>1, <2>2, <2>3, RowAlone DEF SerialInv
  <2> QED BY <2>1, <2>2, <2>4 DEF SerialInv, SerialEmbeddingExact
<1>6. \A k \in j.src : j.vec \subseteq {k.text} BY <1>1, <1>4, <1>5
<1> QED BY <1>1, <1>3, <1>6, SerialRead DEF SharingInv, WritePhases

\* The copy has the embedding of its text.
LEMMA CreateCopySerial ==
  ASSUME SharingInv, OneAtATime, SerialInv, NEW p \in Procs, CreateCopy(p)
  PROVE  SerialInv'
<1>1. PICK m, n \in Memory, j \in Job :
              /\ job[p].src = {m} /\ CopyOf(n, m) /\ n.vec = job[p].vec
              /\ Adds(job[p].at, n)
              /\ Turns(p, IF Resharing(p) THEN "delete" ELSE "event", j)
              /\ j.within = job[p].within /\ j.src = {m}
      BY CreateCopySays DEF SharingInv
<1>2. pc[p] = "create" /\ clashed' = clashed BY CreateCopySays DEF SharingInv
<1>3. \A t \in Stores : table[t] \subseteq table'[t] /\ table'[t] \subseteq table[t] \cup {n}
      BY <1>1, AddsRows DEF SharingInv
<1>4. n.vec \subseteq {n.text} BY <1>1, <1>2 DEF SerialInv, InHand, CopyOf
<1>5. SerialEmbeddingExact' /\ clashed' = {} BY <1>2, <1>3, <1>4, ExactRows DEF SerialInv
<1>6. job[p].within \in Stores /\ m \in table[job[p].within]
      BY <1>1, <1>2 DEF SerialInv, InHand, HandPhases
<1>7. \A k \in j.src : j.within \in Stores /\ k \in table'[j.within] BY <1>1, <1>3, <1>6
<1>8. (IF Resharing(p) THEN "delete" ELSE "event") \notin {"create"} \cup WritePhases
      BY DEF WritePhases
<1> QED BY <1>1, <1>5, <1>7, <1>8, SerialTurn DEF SharingInv

\* What is deleted is a copy, not the source.
LEMMA DeleteCopySerial ==
  ASSUME SharingInv, OneAtATime, SerialInv, NEW p \in Procs, DeleteCopy(p)
  PROVE  SerialInv'
<1>1. /\ pc[p] = "delete" /\ Turns(p, "event", job[p]) /\ clashed' = clashed
      /\ table' = [table EXCEPT ![job[p].at] = {m \in @ : m.id \notin OldIds(p)}]
      BY DeleteCopySays DEF SharingInv
<1>2. \A s \in Stores : table'[s] \subseteq table[s] BY <1>1 DEF SharingInv, TypeOK
<1>3. SerialEmbeddingExact' /\ clashed' = {} BY <1>1, <1>2, ExactRows DEF SerialInv
<1>4. ASSUME NEW m \in job[p].src
      PROVE  job[p].within \in Stores /\ m \in table'[job[p].within]
  <2>1. job[p].within \in Stores /\ m \in table[job[p].within]
        BY <1>1 DEF SerialInv, InHand, HandPhases
  <2>2. OldCopy(p) BY <1>1 DEF SharingInv, Fit, FitAt, Copier, Unsharing
  <2>3. PICK c \in Memory, o \in Origin : job[p].old = {c} /\ c.from = {o} /\ m.id = o.id
        BY <2>2 DEF OldCopy
  <2>4. WellFormed(c) BY <2>3, ReadIsKnown DEF SharingInv, Memories, Formed
  <2>5. m.id \notin OldIds(p) BY <2>3, <2>4 DEF WellFormed, OldIds
  <2> QED BY <1>1, <2>1, <2>5 DEF SharingInv, TypeOK
<1> QED BY <1>1, <1>3, <1>4, SerialTurn DEF SharingInv, WritePhases

\* An edit deletes the row that it has read, which is still there.
LEMMA EditDeleteSerial ==
  ASSUME SharingInv, OneAtATime, SerialInv, NEW p \in Procs, EditDelete(p)
  PROVE  SerialInv'
<1>1. PICK m \in Memory :
        /\ job[p].src = {m} /\ pc[p] = "embed" /\ Turns(p, "add", job[p])
        /\ table' = [table EXCEPT ![job[p].at] = {r \in @ : r.id # m.id}]
      BY EditDeleteSays DEF SharingInv
<1>2. m \in table[job[p].at] BY <1>1 DEF SerialInv, InHand, WritePhases
<1>3. clashed' = {} BY <1>1, <1>2 DEF EditDelete, SerialInv
<1>4. \A t \in Stores : table'[t] \subseteq table[t] BY <1>1 DEF SharingInv, TypeOK
<1>5. SerialEmbeddingExact' BY <1>4, ExactRows DEF SerialInv
<1> QED BY <1>1, <1>3, <1>5, SerialTurn DEF SharingInv, HandPhases, WritePhases

\* A write-back writes the row that it has read, which is still there.
LEMMA WriteBackSerial ==
  ASSUME SharingInv, OneAtATime, SerialInv, NEW p \in Procs, WriteBack(p)
  PROVE  SerialInv'
<1>1. pc[p] = "touch" /\ Turns(p, "idle", NoJob) /\ job[p].at \in Stores
      BY WriteBackSays DEF SharingInv
<1>2. PICK m \in Memory :
        /\ job[p].src = {m}
        /\ \A s \in Stores \ {job[p].at} : table'[s] = table[s]
        /\ \A k \in table'[job[p].at] :
             k \in Memory /\ \E r \in table[job[p].at] : WrittenBack(k, r, m)
        /\ clashed' = clashed \cup {r.id : r \in RowsWithId(job[p].at, m.id) \ {m}}
      BY WriteBackSays DEF SharingInv
<1>3. m \in table[job[p].at] BY <1>1, <1>2 DEF SerialInv, InHand, WritePhases
<1>4. \A r \in table[job[p].at] : r.id = m.id => r = m BY <1>1, <1>3, RowAlone DEF SerialInv
<1>5. RowsWithId(job[p].at, m.id) \subseteq {m} BY <1>1, <1>4 DEF RowsWithId, RowsIn
<1>6. clashed' = {} BY <1>2, <1>5 DEF SerialInv
<1>7. m.vec \subseteq {m.text} BY <1>1, <1>3 DEF SerialInv, SerialEmbeddingExact
<1>8. \A s \in Stores : \A k \in table'[s] : k \in table[s] \/ k.vec \subseteq {k.text}
  <2>1. ASSUME NEW k \in table'[job[p].at]
        PROVE  k \in table[job[p].at] \/ k.vec \subseteq {k.text}
        BY <1>2, <1>4, <1>7 DEF WrittenBack
  <2> QED BY <1>2, <2>1
<1> QED BY <1>1, <1>6, <1>8, SerialEnd DEF SharingInv

\* A request goes on or is dropped.
LEMMA StepSerial ==
  ASSUME SharingInv, OneAtATime, SerialInv, NEW p \in Procs, Step(p) \/ Drop(p)
  PROVE  SerialInv'
<1>0. TypeOK /\ Fit BY DEF SharingInv
<1>1. ASSUME Reads(p, "idle", NoJob) PROVE SerialInv'
      BY <1>0, <1>1, SerialRead, NoJobType DEF HandPhases, WritePhases
<1>2. CASE ShareCheck(p)
  <2>1. pc[p] = "check" /\ (Reads(p, "idle", NoJob) \/ Reads(p, "vector", job[p]))
        BY <1>0, <1>2, ShareCheckSays
  <2>2. \A m \in job[p].src : job[p].within \in Stores /\ m \in table[job[p].within]
        BY <2>1 DEF SerialInv, InHand, HandPhases
  <2>3. CASE Reads(p, "vector", job[p]) BY <1>0, <2>2, <2>3, SerialRead DEF WritePhases
  <2> QED BY <1>1, <2>1, <2>3
<1>3. CASE ReshareSource(p)
  <2>1. CASE Reads(p, "idle", NoJob) BY <1>1, <2>1
  <2>2. CASE \E m \in RowsIn(job[p].within), j \in Job :
               Reads(p, "vector", j) /\ j.within = job[p].within /\ j.src = {m}
    <3>1. PICK m \in RowsIn(job[p].within), j \in Job :
               Reads(p, "vector", j) /\ j.within = job[p].within /\ j.src = {m}
          BY <2>2
    <3>2. \A k \in j.src : j.within \in Stores /\ k \in table[j.within] BY <3>1 DEF RowsIn
    <3> QED BY <1>0, <3>1, <3>2, SerialRead DEF WritePhases
  <2> QED BY <1>0, <1>3, <2>1, <2>2, ReshareSourceSays
<1>4. CASE ReadVector(p) BY <1>4, ReadVectorSerial
<1>5. CASE CreateCopy(p) BY <1>5, CreateCopySerial
<1>6. CASE DeleteCopy(p) BY <1>6, DeleteCopySerial
<1>7. CASE RecordEvent(p) BY <1>0, <1>1, <1>7, RecordEventSays
<1>8. CASE AutoShare(p) BY <1>0, <1>1, <1>8, AutoShareSays
<1>9. CASE EditAdd(p)
  <2>1. Turns(p, "idle", NoJob) /\ clashed' = {} BY <1>0, <1>9, EditAddSays DEF SerialInv
  <2>2. PICK m, e \in Memory :
              Retexted(e) /\ table' = [table EXCEPT ![job[p].at] = @ \cup {e}]
        BY <1>0, <1>9, EditAddSays
  <2>3. \A s \in Stores : \A k \in table'[s] : k \in table[s] \/ k = e
        BY <1>0, <2>2 DEF TypeOK
  <2>4. e.vec \subseteq {e.text} BY <2>2 DEF Retexted
  <2> QED BY <1>0, <2>1, <2>3, <2>4, SerialEnd
<1>10. CASE EditDelete(p) BY <1>10, EditDeleteSerial
<1>11. CASE WriteBack(p) BY <1>11, WriteBackSerial
<1>12. CASE Drop(p) BY <1>0, <1>1, <1>12, DropSays
<1> QED BY <1>2, <1>3, <1>4, <1>5, <1>6, <1>7, <1>8, <1>9, <1>10, <1>11, <1>12 DEF Step

\* Copying starts: what the requests have read is there.
LEMMA SharesSerial ==
  ASSUME SharingInv, OneAtATime, SerialInv, NEW u \in Users, NEW s \in Spaces,
         \/ \E p \in Procs : ShareStart(p, u, s)
         \/ BatchShare(u, s) \/ ShareAll(u, s)
  PROVE  SerialInv'
<1>0. TypeOK BY DEF SharingInv
<1>1. PICK P \in SUBSET IdleProcs : \E f \in [P -> table[u]] : StartShares(P, f, u, s)
      BY SharesAre
<1>2. PICK f \in [P -> table[u]] : StartShares(P, f, u, s) BY <1>1
<1>3. P \subseteq IdleProcs /\ \A p \in P : f[p] \in table[u] BY <1>2
<1>4. /\ \A p \in P : /\ f[p] \in table[u] /\ pc'[p] = "check"
                      /\ job'[p].within = u /\ job'[p].src = {f[p]}
      /\ \A q \in Procs \ P : pc'[q] = pc[q] /\ job'[q] = job[q]
      BY <1>0, <1>2, <1>3, StartSharesSays
<1>5. table' = table /\ clashed' = clashed BY <1>2 DEF StartShares
<1>6. u \in Stores BY Places
<1>7. \A q \in Procs \ P : pc'[q] = "idle" BY <1>4 DEF OneAtATime
<1>8. \A q \in Procs : InHand(q)'
  <2>1. \A q \in P : InHand(q)' BY <1>4, <1>5, <1>6 DEF InHand, WritePhases
  <2>2. \A q \in Procs \ P : InHand(q)' BY <1>7 DEF InHand, HandPhases, WritePhases
  <2> QED BY <2>1, <2>2
<1>9. SerialEmbeddingExact' /\ clashed' = {} BY <1>5, ExactRows DEF SerialInv
<1> QED BY <1>8, <1>9 DEF SerialInv

\* A row is read, to be written back.
LEMMA ReadToWriteSerial ==
  ASSUME SharingInv, OneAtATime, SerialInv, NEW p \in Procs, NEW k \in WriteKinds,
         NEW c \in WritePhases, NEW s \in Stores, ReadToWrite(p, k, c, s)
  PROVE  SerialInv'
<1>0. TypeOK BY DEF SharingInv
<1>1. PICK m \in table[s], j \in Job : Reads(p, c, j) /\ j.at = s /\ j.src = {m}
      BY <1>0, ReadToWriteSays
<1> QED BY <1>0, <1>1, SerialRead DEF HandPhases, WritePhases

\* Another request starts.
LEMMA StartSerial ==
  ASSUME SharingInv, OneAtATime, SerialInv, NEW p \in Procs, NEW u \in Users, Start(p, u)
  PROVE  SerialInv'
<1>0. TypeOK BY DEF SharingInv
<1>1. ASSUME NEW s \in Spaces, PullStart(p, u, s) PROVE SerialInv'
  <2>1. PICK m \in table[s], j \in Job :
              Reads(p, "vector", j) /\ j.within = s /\ j.src = {m}
        BY <1>0, <1>1, PullStartSays
  <2>2. s \in Stores BY Places
  <2> QED BY <1>0, <2>1, <2>2, SerialRead DEF WritePhases
<1>2. ASSUME NEW s \in Spaces, UnshareStart(p, u, s) PROVE SerialInv'
  <2>1. PICK j \in Job : Reads(p, "delete", j) /\ j.src = {}
        BY <1>2, UnshareStartSays DEF SharingInv, Memories
  <2> QED BY <1>0, <2>1, SerialRead DEF WritePhases
<1>3. ASSUME NEW s \in Stores, ReshareStart(p, u, s) PROVE SerialInv'
  <2>1. PICK j \in Job : Reads(p, "source", j) /\ j.src = {}
        BY <1>0, <1>3, ReshareStartSays
  <2> QED BY <1>0, <2>1, SerialRead DEF WritePhases
<1>4. CASE CreateMemory(p, u)
  <2>1. PICK n \in Memory, j \in Job :
              Adds(u, n) /\ Turns(p, "auto", j) /\ n.vec = {n.text}
        BY <1>0, <1>4, CreateMemorySays
  <2>2. \A t \in Stores : table'[t] \subseteq table[t] \cup {n} BY <1>0, <2>1, AddsRows
  <2>3. SerialEmbeddingExact' BY <2>1, <2>2, ExactRows DEF SerialInv
  <2>4. clashed' = {} BY <1>0, <1>4, CreateMemorySays DEF SerialInv
  <2> QED BY <1>0, <2>1, <2>3, <2>4, SerialTurn DEF HandPhases, WritePhases
<1>5. ASSUME NEW s \in Stores, TouchRead(p, s) PROVE SerialInv'
  <2>1. ReadToWrite(p, "touch", "touch", s) BY <1>5 DEF TouchRead
  <2> QED BY <2>1, ReadToWriteSerial DEF WriteKinds, WritePhases
<1>6. CASE EditRead(p, u)
  <2>1. ReadToWrite(p, "edit", "embed", u) /\ u \in Stores BY <1>6, Places DEF EditRead
  <2> QED BY <2>1, ReadToWriteSerial DEF WriteKinds, WritePhases
<1>7. ASSUME NEW s \in Spaces, ShareStart(p, u, s) PROVE SerialInv'
      BY <1>7, SharesSerial
<1> QED BY <1>1, <1>2, <1>3, <1>4, <1>5, <1>6, <1>7 DEF Start

\* What needs no request needs that none is under way.
LEMMA RowsSerial ==
  ASSUME TypeOK, OneAtATime, SerialInv, UNCHANGED <<pc, job, clashed>>,
         \A s \in Stores : \A m \in table'[s] : m \in table[s] \/ m.vec \subseteq {m.text}
  PROVE  SerialInv'
<1>1. \A q \in Procs : pc'[q] = "idle" BY DEF OneAtATime
<1>2. \A q \in Procs : InHand(q)' BY <1>1 DEF InHand, HandPhases, WritePhases
<1>3. SerialEmbeddingExact' BY ExactRows DEF SerialInv
<1> QED BY <1>2, <1>3 DEF SerialInv

\* Every step of a request that is alone keeps the embeddings exact.
LEMMA SerialNext ==
  ASSUME SharingInv, SerialInv, OneAtATime, Next
  PROVE  SerialInv'
<1>0. TypeOK BY DEF SharingInv
<1>1. CASE \E p \in Procs : Step(p) \/ Drop(p) BY <1>1, StepSerial
<1>2. CASE \E p \in Procs, u \in Users : Start(p, u) BY <1>2, StartSerial
<1>3. CASE \E u \in Users, s \in Spaces : BatchShare(u, s) \/ ShareAll(u, s) BY <1>3, SharesSerial
<1>4. ASSUME NEW u \in Users, ImportMemory(u) PROVE SerialInv'
  <2>1. UNCHANGED <<pc, job, clashed>> BY <1>0, <1>4, ImportMemorySays
  <2>2. PICK n \in Memory : Adds(u, n) /\ n.vec = {n.text} BY <1>0, <1>4, ImportMemorySays
  <2>3. \A t \in Stores : table'[t] \subseteq table[t] \cup {n} BY <1>0, <2>2, AddsRows
  <2> QED BY <1>0, <2>1, <2>2, <2>3, RowsSerial
<1>5. ASSUME NEW u \in Users, DeleteMemory(u) PROVE SerialInv'
  <2>1. /\ UNCHANGED <<pc, job, clashed>>
        /\ \A t \in Stores : table'[t] \subseteq table[t]
        BY <1>0, <1>5, DeleteMemorySays
  <2> QED BY <1>0, <2>1, RowsSerial
<1>6. ASSUME NEW s \in Stores, Forget(s) PROVE SerialInv'
  <2>1. /\ UNCHANGED <<pc, job, clashed>>
        /\ \A t \in Stores : table'[t] \subseteq table[t]
        BY <1>0, <1>6, ForgetSays
  <2> QED BY <1>0, <2>1, RowsSerial
<1> QED BY <1>1, <1>2, <1>3, <1>4, <1>5, <1>6 DEF Next

\* What is claimed when requests do not overlap.
LEMMA SerialIsExact == SharingInv /\ SerialInv => SerialCopiesExact
<1> SUFFICES ASSUME SharingInv, SerialInv PROVE SerialCopiesExact OBVIOUS
<1>1. ASSUME NEW p \in Procs, pc[p] = "event", job[p].kind = "reshare",
             NEW c \in table[job[p].at], c.id \in job[p].new, NEW o \in c.from,
             NEW m \in RowsWithId(job[p].within, o.id)
      PROVE  o.ver = m.ver
  <2>1. job[p].at \in Stores /\ c \in Memory /\ Known(c)
        BY DEF SharingInv, TypeOK, Job, Known, Alive, IsRow
  <2>2. MadeOf(p) BY <1>1 DEF SharingInv, Made, Making, Resharing
  <2>3. PICK k \in Memory : job[p].src = {k}
        BY <1>1 DEF SharingInv, Fit, FitAt, OneSource, Unsharing
  <2>4. o.id = k.id /\ o.ver = k.ver BY <1>1, <2>1, <2>2, <2>3 DEF MadeOf
  <2>5. job[p].within \in Stores /\ k \in table[job[p].within]
        BY <1>1, <2>3 DEF SerialInv, InHand, HandPhases
  <2>6. m \in table[job[p].within] /\ m.id = o.id BY <2>5 DEF RowsWithId, RowsIn
  <2>7. m = k BY <2>4, <2>5, <2>6, RowAlone DEF SerialInv
  <2> QED BY <2>4, <2>7
<1>2. ReshareRefreshes BY <1>1 DEF ReshareRefreshes
<1> QED BY <1>2 DEF SerialCopiesExact, SerialInv

\* Of the writers that race, each is a user.
LEMMA RaceIsNext == Race => Next
BY SharingAssumption DEF Race, RaceStart, Next, Start

\* The two modes together.
CopiesInv == SharingInv /\ (mode = "serial" => SerialInv)

\* One step.
LEMMA CopiesNext == CopiesInv /\ [MCNext]_<<vars, mode>> => CopiesInv'
<1> SUFFICES ASSUME CopiesInv, [MCNext]_<<vars, mode>> PROVE CopiesInv' OBVIOUS
<1>1. CASE UNCHANGED <<vars, mode>>
  <2>1. SharingInv' BY <1>1, SharingStays DEF CopiesInv
  <2>2. /\ table' = table /\ pc' = pc /\ job' = job /\ clashed' = clashed
        /\ mode' = mode
        BY <1>1 DEF vars
  <2>3. SerialInv => SerialInv'
        BY <2>2 DEF SerialInv, SerialEmbeddingExact, InHand
  <2> QED BY <2>1, <2>2, <2>3 DEF CopiesInv
<1>2. CASE MCNext /\ mode = "serial"
  <2>1. Next /\ OneAtATime /\ mode' = mode BY <1>2 DEF MCNext
  <2> QED BY <1>2, <2>1, SharingNext, SerialNext DEF CopiesInv
<1>3. CASE MCNext /\ mode # "serial"
  <2>1. Next /\ mode' = mode BY <1>3, RaceIsNext DEF MCNext
  <2> QED BY <1>3, <2>1, SharingNext DEF CopiesInv
<1> QED BY <1>1, <1>2, <1>3

\* With one request at a time, besides, a memory has the embedding of its own text
\* or none, and a reshare's copy is at the version its source has.
THEOREM CopiesAreExact == MCSpec => []CopiesExact
<1>1. MCInit => CopiesInv
  <2>1. Init => SerialInv
        BY Places DEF Init, SerialInv, SerialEmbeddingExact, InHand, HandPhases, WritePhases
  <2> QED BY <2>1, SharingInit DEF MCInit, CopiesInv
<1>2. CopiesInv => CopiesExact
      BY SharingIsSafe, SerialIsExact DEF CopiesInv, CopiesExact
<1> QED BY <1>1, <1>2, CopiesNext, PTL DEF MCSpec
=============================================================================
