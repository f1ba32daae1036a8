------------------------- MODULE MemoryTableProofs -------------------------
(***************************************************************************)
(* Proofs about MemoryTable, for any ids, processes, texts and bounds.     *)
(* TypeInv, which carries the access-count bound along, is inductive by    *)
(* itself; the later invariants are proved on top of it: what accesses and *)
(* lengths a memory shows, and then that a deleted memory does not come    *)
(* back, that a memory is not lost and that it is not duplicated; last,    *)
(* that handlers run one at a time keep every row exact.                   *)
(***************************************************************************)
EXTENDS MCMemoryTable, SequenceTheorems, TLAPS

\* Each row is filed under its own id.
Filed == \A i \in Ids : \A k \in DOMAIN rows[i] : rows[i][k].id = i

\* No copy that a handler holds shows more accesses than happened.
HeldNeverOvercounted ==
  \A p \in Procs : \A m \in todo[p] \cup pend[p] : m.access <= accesses[m.id]

RowsInv == rows \in [Ids -> Seq(Row)] /\ Filed /\ AccessNeverOvercounted

HeldInv ==
  /\ op \in [Procs -> HandlerOps \cup {"idle"}]
  /\ todo \in [Procs -> SUBSET Row]
  /\ pend \in [Procs -> SUBSET Row]
  /\ HeldNeverOvercounted

HistoryInv ==
  /\ used \subseteq Ids
  /\ accesses \in [Ids -> 0 .. MaxAccess]
  /\ deleted \subseteq Ids /\ gone \subseteq Ids
  /\ torn \subseteq Ids /\ overlapped \subseteq Ids

TypeInv == RowsInv /\ HeldInv /\ HistoryInv

LEMMA NextVersionRow ==
  ASSUME NEW m \in Row, m.version < MaxVersion
  PROVE  /\ NextVersion(m) \in Row
         /\ NextVersion(m).id = m.id
         /\ NextVersion(m).access = m.access
BY TableAssumption DEF Row, NextVersion

LEMMA NewRowType ==
  ASSUME NEW i \in Ids, NEW c \in Contents, NEW a \in NewAttrs
  PROVE  NewRow(i, c, a) \in Row /\ NewRow(i, c, a).id = i /\ NewRow(i, c, a).access = 0
BY TableAssumption DEF NewRow, Row, Attrs, Tiers

\* What a PUT asks of a row changes its tier, its state and its project, which it
\* does not take away.
LEMMA RequestedRow ==
  ASSUME NEW m \in Row, NEW w \in Requested(m)
  PROVE  /\ w \in Row /\ w.id = m.id /\ w.access = m.access /\ w.vec = m.vec
         /\ w.content = m.content /\ w.abst = m.abst /\ (m.project => w.project)
         /\ w = [m EXCEPT !.tier = w.tier, !.active = w.active, !.project = w.project]
<1>1. CASE w = m
  BY <1>1 DEF Row
<1>2. ASSUME NEW a \in Patches,
             w = [m EXCEPT !.tier = a.tier, !.active = a.active, !.project = @ \/ a.project]
      PROVE  /\ w \in Row /\ w.id = m.id /\ w.access = m.access /\ w.vec = m.vec
             /\ w.content = m.content /\ w.abst = m.abst /\ (m.project => w.project)
             /\ w = [m EXCEPT !.tier = w.tier, !.active = w.active, !.project = w.project]
  <2>1. a.tier \in Tiers /\ a.active \in BOOLEAN /\ (m.project \/ a.project) \in BOOLEAN
    BY TableAssumption DEF Patch
  <2> QED  BY <1>2, <2>1 DEF Row
<1> QED  BY <1>1, <1>2 DEF Requested

\* A sequence whose elements are replaced one by one keeps its length.
LEMMA MapSeq ==
  ASSUME NEW S, NEW T, NEW s \in Seq(S), NEW t, DOMAIN t = DOMAIN s,
         t = [k \in DOMAIN t |-> t[k]], \A k \in DOMAIN s : t[k] \in T
  PROVE  t \in Seq(T) /\ Len(t) = Len(s)
<1>1. t \in [1 .. Len(s) -> T]
  OBVIOUS
<1> QED
  BY <1>1, SeqDef, LenProperties

LEMMA RowsOfType ==
  ASSUME RowsInv, NEW i \in Ids, NEW m \in RowsOf(i)
  PROVE  m \in Row /\ m.id = i /\ Present(i) /\ m \in AllRows /\ m.access <= accesses[i]
BY ElementOfSeq DEF RowsInv, Filed, AccessNeverOvercounted, RowsOf, Present, AllRows

LEMMA AllRowsType ==
  ASSUME RowsInv, NEW m \in AllRows
  PROVE  m \in Row /\ m.id \in Ids /\ Present(m.id) /\ m.access <= accesses[m.id]
BY RowsOfType DEF AllRows

LEMMA HeldType ==
  ASSUME HeldInv, HistoryInv, NEW p \in Procs, NEW m \in todo[p] \cup pend[p]
  PROVE  /\ m \in Row /\ m.id \in Ids /\ m.access \in 0 .. MaxAccess
         /\ accesses[m.id] \in 0 .. MaxAccess /\ m.access <= accesses[m.id]
<1>1. m \in Row
  BY DEF HeldInv
<1>2. m.id \in Ids /\ m.access \in 0 .. MaxAccess
  BY <1>1 DEF Row
<1> QED
  BY <1>1, <1>2 DEF HeldInv, HeldNeverOvercounted, HistoryInv

-----------------------------------------------------------------------------
(* What each commit does to the table. *)

\* accesses only grows, so a table that was within it stays within it.
LEMMA RowsKept ==
  ASSUME RowsInv, HistoryInv, HistoryInv', UNCHANGED rows,
         \A i \in Ids : accesses[i] <= accesses'[i]
  PROVE  RowsInv'
<1>1. rows' \in [Ids -> Seq(Row)] /\ Filed'
  BY DEF RowsInv, Filed
<1>2. SUFFICES ASSUME NEW i \in Ids, NEW k \in DOMAIN rows'[i]
               PROVE  rows'[i][k].access <= accesses'[i]
  BY <1>1 DEF RowsInv, AccessNeverOvercounted
<1>3. rows[i][k] \in Row
  BY ElementOfSeq DEF RowsInv
<1>4. rows[i][k].access \in 0 .. MaxAccess /\ accesses[i] \in 0 .. MaxAccess /\ accesses'[i] \in 0 .. MaxAccess
  BY <1>3 DEF Row, HistoryInv
<1> QED
  BY <1>4 DEF RowsInv, AccessNeverOvercounted

\* A scalar update keeps the rows' ids and number, and its access count
\* is the caller's.
LEMMA ScalarUpdateRows ==
  ASSUME RowsInv, NEW m \in Row, ScalarUpdate(m)
  PROVE  /\ rows' \in [Ids -> Seq(Row)]
         /\ Filed'
         /\ \A i \in Ids : Len(rows'[i]) = Len(rows[i]) /\ DOMAIN rows'[i] = DOMAIN rows[i]
         /\ \A i \in Ids : \A k \in DOMAIN rows[i] :
              rows'[i][k] = rows[i][k] \/ (i = m.id /\ rows'[i][k].access = m.access)
<1> DEFINE upd == [k \in DOMAIN rows[m.id] |-> [NextVersion(m) EXCEPT !.vec = rows[m.id][k].vec]]
<1>0. m.id \in Ids
  BY DEF Row
<1>1. rows' = [rows EXCEPT ![m.id] = upd] /\ m.version < MaxVersion
  BY DEF ScalarUpdate
<1>2. \A k \in DOMAIN rows[m.id] : /\ upd[k] \in Row
                                   /\ upd[k].id = m.id
                                   /\ upd[k].access = m.access
  <2> SUFFICES ASSUME NEW k \in DOMAIN rows[m.id]
               PROVE  upd[k] \in Row /\ upd[k].id = m.id /\ upd[k].access = m.access
    OBVIOUS
  <2>1. rows[m.id][k] \in Row
    BY <1>0, ElementOfSeq DEF RowsInv
  <2> QED
    BY <1>1, <2>1, NextVersionRow DEF Row
<1>3. upd \in Seq(Row) /\ Len(upd) = Len(rows[m.id])
  <2>1. rows[m.id] \in Seq(Row)
    BY <1>0 DEF RowsInv
  <2> HIDE DEF upd
  <2>2. DOMAIN upd = DOMAIN rows[m.id] /\ upd = [k \in DOMAIN upd |-> upd[k]]
    BY DEF upd
  <2> QED
    BY <1>2, <2>1, <2>2, MapSeq
<1> HIDE DEF upd
<1>4. DOMAIN upd = DOMAIN rows[m.id]
  BY DEF upd
<1> QED
  BY <1>0, <1>1, <1>2, <1>3, <1>4 DEF RowsInv, Filed

LEMMA ScalarUpdateInv ==
  ASSUME RowsInv, HistoryInv, HistoryInv', NEW m \in Row, ScalarUpdate(m),
         \A i \in Ids : accesses[i] <= accesses'[i], m.access <= accesses'[m.id]
  PROVE  RowsInv'
<1>1. rows' \in [Ids -> Seq(Row)] /\ Filed'
  BY ScalarUpdateRows
<1>2. SUFFICES ASSUME NEW i \in Ids, NEW k \in DOMAIN rows'[i]
               PROVE  rows'[i][k].access <= accesses'[i]
  BY <1>1 DEF RowsInv, AccessNeverOvercounted
<1>3. k \in DOMAIN rows[i]
  BY ScalarUpdateRows
<1>4. rows[i][k] \in Row /\ rows[i][k].access <= accesses[i]
  BY <1>3, ElementOfSeq DEF RowsInv, AccessNeverOvercounted
<1>5. rows[i][k].access \in Nat /\ accesses[i] \in Nat /\ accesses'[i] \in Nat
  BY <1>4, TableAssumption DEF Row, HistoryInv
<1> QED
  BY <1>3, <1>4, <1>5, ScalarUpdateRows

LEMMA HardDeleteInv ==
  ASSUME RowsInv, HistoryInv, NEW S \in SUBSET Ids, HardDelete(S),
         UNCHANGED <<used, accesses, torn, overlapped>>
  PROVE  RowsInv' /\ HistoryInv'
<1>1. \A i \in Ids : rows'[i] = rows[i] \/ rows'[i] = <<>>
  BY DEF HardDelete
<1>2. rows' \in [Ids -> Seq(Row)]
  BY EmptySeq DEF HardDelete, RowsInv
<1>3. HistoryInv'
  BY DEF HardDelete, HistoryInv
<1>4. Filed' /\ AccessNeverOvercounted'
  BY <1>1 DEF RowsInv, Filed, AccessNeverOvercounted
<1> QED
  BY <1>2, <1>3, <1>4 DEF RowsInv

LEMMA AppendInv ==
  ASSUME RowsInv, HistoryInv, NEW m \in Row, rows' = [rows EXCEPT ![m.id] = Append(@, m)],
         m.access <= accesses[m.id], UNCHANGED accesses
  PROVE  RowsInv'
<1>0. m.id \in Ids
  BY DEF Row
<1>1. rows[m.id] \in Seq(Row)
  BY <1>0 DEF RowsInv
<1>2. /\ Append(rows[m.id], m) \in Seq(Row)
      /\ \A k \in DOMAIN Append(rows[m.id], m) :
           Append(rows[m.id], m)[k] = m \/ (/\ k \in DOMAIN rows[m.id]
                                            /\ Append(rows[m.id], m)[k] = rows[m.id][k])
  BY <1>1, AppendProperties
<1>3. rows' \in [Ids -> Seq(Row)]
  BY <1>0, <1>2 DEF RowsInv
<1>4. \A k \in DOMAIN rows'[m.id] :
        /\ rows'[m.id][k].id = m.id
        /\ rows'[m.id][k].access <= accesses'[m.id]
  <2>1. rows'[m.id] = Append(rows[m.id], m)
    BY <1>0 DEF RowsInv
  <2>2. \A k \in DOMAIN rows[m.id] :
          rows[m.id][k].id = m.id /\ rows[m.id][k].access <= accesses[m.id]
    BY <1>0 DEF RowsInv, Filed, AccessNeverOvercounted
  <2> QED
    BY <1>2, <2>1, <2>2, Zenon
<1>5. \A i \in Ids \ {m.id} : rows'[i] = rows[i]
  BY DEF RowsInv
<1>6. Filed'
  BY <1>4, <1>5, Zenon DEF RowsInv, Filed
<1>7. AccessNeverOvercounted'
  BY <1>4, <1>5, Zenon DEF RowsInv, AccessNeverOvercounted
<1> QED
  BY <1>3, <1>6, <1>7 DEF RowsInv

LEMMA RewriteDeleteInv ==
  ASSUME RowsInv, HeldInv, HistoryInv, NEW p \in Procs, NEW m \in Row, RewriteDelete(p, m),
         m.access <= accesses[m.id], UNCHANGED <<used, accesses, deleted, gone, torn>>
  PROVE  /\ RowsInv' /\ HistoryInv'
         /\ pend' \in [Procs -> SUBSET Row]
         /\ \A q \in Procs : \A n \in pend'[q] : n.access <= accesses[n.id]
<1>0. m.id \in Ids
  BY DEF Row
<1>1. \A i \in Ids : rows'[i] = rows[i] \/ rows'[i] = <<>>
  BY <1>0 DEF RewriteDelete, RowsInv
<1>2. rows' \in [Ids -> Seq(Row)]
  BY EmptySeq DEF RewriteDelete, RowsInv
<1>3. HistoryInv'
  BY <1>0 DEF RewriteDelete, HistoryInv
<1>4. Filed' /\ AccessNeverOvercounted'
  BY <1>1 DEF RowsInv, Filed, AccessNeverOvercounted
<1>5. NextVersion(m) \in Row /\ NextVersion(m).access <= accesses[NextVersion(m).id]
  BY NextVersionRow DEF RewriteDelete
<1>6. /\ pend' \in [Procs -> SUBSET Row]
      /\ \A q \in Procs : \A n \in pend'[q] : n.access <= accesses[n.id]
  BY <1>5 DEF RewriteDelete, HeldInv, HeldNeverOvercounted
<1> QED
  BY <1>2, <1>3, <1>4, <1>6 DEF RowsInv

-----------------------------------------------------------------------------
(* What each handler step does to the snapshots. *)

\* A process takes a new list of rows that are typed and within the counts.
LEMMA BecomeInv ==
  ASSUME HeldInv, NEW p \in Procs, NEW o \in HandlerOps \cup {"idle"}, NEW S \in SUBSET Row,
         \A m \in S : m.access <= accesses[m.id], Become(p, o, S), UNCHANGED <<pend, accesses>>
  PROVE  HeldInv'
BY DEF HeldInv, HeldNeverOvercounted, Become

\* Snapshots are kept or dropped while accesses grows.
LEMMA HeldKept ==
  ASSUME HeldInv, HistoryInv, HistoryInv', op' \in [Procs -> HandlerOps \cup {"idle"}],
         todo' \in [Procs -> SUBSET Row], pend' \in [Procs -> SUBSET Row],
         \A q \in Procs : todo'[q] \subseteq todo[q] /\ pend'[q] \subseteq pend[q],
         \A i \in Ids : accesses[i] <= accesses'[i]
  PROVE  HeldInv'
<1> SUFFICES ASSUME NEW q \in Procs, NEW m \in todo'[q] \cup pend'[q]
             PROVE  m.access <= accesses'[m.id]
  BY DEF HeldInv, HeldNeverOvercounted
<1>1. /\ m.id \in Ids /\ m.access \in 0 .. MaxAccess
      /\ accesses[m.id] \in 0 .. MaxAccess /\ m.access <= accesses[m.id]
  BY HeldType
<1>2. accesses'[m.id] \in 0 .. MaxAccess
  BY <1>1 DEF HistoryInv
<1> QED
  BY <1>1, <1>2

LEMMA DoneKeeps ==
  ASSUME HeldInv, NEW p \in Procs, Done(p)
  PROVE  /\ op' \in [Procs -> HandlerOps \cup {"idle"}]
         /\ todo' \in [Procs -> SUBSET Row]
         /\ \A q \in Procs : todo'[q] \subseteq todo[q]
BY DEF HeldInv, Done, Become

LEMMA DropKeeps ==
  ASSUME HeldInv, NEW p \in Procs, NEW m, Drop(p, m)
  PROVE  /\ op' \in [Procs -> HandlerOps \cup {"idle"}]
         /\ todo' \in [Procs -> SUBSET Row]
         /\ \A q \in Procs : todo'[q] \subseteq todo[q]
BY DEF HeldInv, Drop

-----------------------------------------------------------------------------
(* The step lemmas: one for each kind of step, one step for each action. *)

LEMMA InstantStepInv ==
  ASSUME TypeInv, NEW p \in Procs, InstantStep(p)
  PROVE  TypeInv'
<1>1. ASSUME NEW i \in Ids, NEW c \in Contents, NEW a \in NewAttrs, Create(p, i, c, a)
      PROVE  TypeInv'
  <2>1. HistoryInv'
    BY <1>1 DEF Create, HistoryInv, TypeInv
  <2>2. HeldInv'
    BY <1>1 DEF Create, procVars, HeldInv, HeldNeverOvercounted, TypeInv
  <2>3. /\ NewRow(i, c, a) \in Row /\ NewRow(i, c, a).id = i
        /\ NewRow(i, c, a).access <= accesses[i]
    BY NewRowType DEF TypeInv, HistoryInv
  <2>4. RowsInv'
    BY <1>1, <2>3, AppendInv DEF Create, TypeInv
  <2> QED
    BY <2>1, <2>2, <2>4 DEF TypeInv
<1>2. ASSUME NEW S \in SUBSET Ids, Bump(p, S)
      PROVE  TypeInv'
  <2> DEFINE upd(i) == [k \in DOMAIN rows[i] |-> [rows[i][k] EXCEPT !.access = @ + 1]]
  <2>1. /\ rows' = [i \in Ids |-> IF i \in S THEN upd(i) ELSE rows[i]]
        /\ accesses' = [i \in Ids |-> IF i \in S THEN accesses[i] + 1 ELSE accesses[i]]
        /\ \A i \in S : accesses[i] < MaxAccess
    BY <1>2 DEF Bump
  <2>2. HistoryInv'
    BY <1>2, <2>1, TableAssumption DEF Bump, HistoryInv, TypeInv
  <2>3. \A i \in Ids : accesses[i] <= accesses'[i]
    BY <2>1, TableAssumption DEF HistoryInv, TypeInv
  <2>4. HeldInv'
    BY <1>2, <2>2, <2>3, HeldKept DEF Bump, procVars, TypeInv, HeldInv
  <2>5. ASSUME NEW i \in S, NEW k \in DOMAIN rows[i]
        PROVE  upd(i)[k] \in Row /\ upd(i)[k].id = i /\ upd(i)[k].access <= accesses'[i]
    <3>1. rows[i][k] \in Row /\ rows[i][k].id = i /\ rows[i][k].access <= accesses[i]
      BY ElementOfSeq DEF RowsInv, TypeInv, Filed, AccessNeverOvercounted
    <3>2. accesses[i] \in 0 .. MaxAccess /\ rows[i][k].access \in 0 .. MaxAccess
      BY <3>1 DEF TypeInv, HistoryInv, Row
    <3>3. rows[i][k].access + 1 \in 0 .. MaxAccess /\ rows[i][k].access + 1 <= accesses'[i]
      BY <2>1, <3>1, <3>2, TableAssumption
    <3> QED
      BY <3>1, <3>3 DEF Row
  <2>6. ASSUME NEW i \in S
        PROVE  upd(i) \in Seq(Row) /\ DOMAIN upd(i) = DOMAIN rows[i]
    <3>1. rows[i] \in Seq(Row)
      BY DEF RowsInv, TypeInv
    <3>2. DOMAIN upd(i) = DOMAIN rows[i] /\ upd(i) = [k \in DOMAIN upd(i) |-> upd(i)[k]]
      OBVIOUS
    <3>3. \A k \in DOMAIN rows[i] : upd(i)[k] \in Row
      BY <2>5
    <3> HIDE DEF upd
    <3> QED
      BY <3>1, <3>2, <3>3, MapSeq
  <2>7. ASSUME NEW i \in Ids, NEW k \in DOMAIN rows'[i]
        PROVE  rows'[i][k].id = i /\ rows'[i][k].access <= accesses'[i]
    <3>1. CASE i \in S
      <4>1. rows'[i] = upd(i) /\ k \in DOMAIN rows[i]
        BY <2>1, <2>6, <3>1
      <4> HIDE DEF upd
      <4> QED
        BY <2>5, <3>1, <4>1
    <3>2. CASE i \notin S
      <4>1. rows'[i] = rows[i] /\ accesses'[i] = accesses[i]
        BY <2>1, <3>2
      <4> QED
        BY <4>1 DEF TypeInv, RowsInv, Filed, AccessNeverOvercounted
    <3> QED
      BY <3>1, <3>2
  <2>8. rows' \in [Ids -> Seq(Row)]
    <3> HIDE DEF upd
    <3> QED
      BY <2>1, <2>6 DEF TypeInv, RowsInv
  <2> QED
    BY <2>2, <2>4, <2>7, <2>8 DEF TypeInv, RowsInv, Filed, AccessNeverOvercounted
<1>3. ASSUME NEW S \in SUBSET Ids, Purge(p, S)
      PROVE  TypeInv'
  <2>1. RowsInv' /\ HistoryInv'
    BY <1>3, HardDeleteInv DEF Purge, TypeInv
  <2>2. HeldInv'
    BY <1>3 DEF Purge, procVars, HeldInv, HeldNeverOvercounted, TypeInv
  <2> QED
    BY <2>1, <2>2 DEF TypeInv
<1>4. CASE Backfill(p)
  <2> DEFINE row(i, k) == IF rows[i][k].private THEN rows[i][k]
                          ELSE [rows[i][k] EXCEPT !.project = TRUE]
             upd(i) == [k \in DOMAIN rows[i] |-> row(i, k)]
  <2>1. rows' = [i \in Ids |-> upd(i)]
    BY <1>4 DEF Backfill
  <2>2. HistoryInv' /\ HeldInv'
    BY <1>4 DEF Backfill, procVars, history, HistoryInv, HeldInv, HeldNeverOvercounted, TypeInv
  <2>3. ASSUME NEW i \in Ids, NEW k \in DOMAIN rows[i]
        PROVE  row(i, k) \in Row /\ row(i, k).id = i /\ row(i, k).access <= accesses[i]
    <3>1. rows[i][k] \in Row /\ rows[i][k].id = i /\ rows[i][k].access <= accesses[i]
      BY ElementOfSeq DEF RowsInv, TypeInv, Filed, AccessNeverOvercounted
    <3> QED
      BY <3>1 DEF Row
  <2> HIDE DEF row
  <2>4. ASSUME NEW i \in Ids
        PROVE  upd(i) \in Seq(Row) /\ DOMAIN upd(i) = DOMAIN rows[i]
    <3>1. rows[i] \in Seq(Row)
      BY DEF RowsInv, TypeInv
    <3>2. DOMAIN upd(i) = DOMAIN rows[i] /\ upd(i) = [k \in DOMAIN upd(i) |-> upd(i)[k]]
      OBVIOUS
    <3>3. \A k \in DOMAIN rows[i] : upd(i)[k] \in Row
      BY <2>3
    <3> HIDE DEF upd
    <3> QED
      BY <3>1, <3>2, <3>3, MapSeq
  <2>5. ASSUME NEW i \in Ids, NEW k \in DOMAIN rows'[i]
        PROVE  rows'[i][k].id = i /\ rows'[i][k].access <= accesses[i]
    BY <2>1, <2>3
  <2>6. rows' \in [Ids -> Seq(Row)]
    <3> HIDE DEF upd
    <3> QED
      BY <2>1, <2>4
  <2>7. accesses' = accesses
    BY <1>4 DEF Backfill, history
  <2> QED
    BY <2>2, <2>5, <2>6, <2>7 DEF TypeInv, RowsInv, Filed, AccessNeverOvercounted
<1> QED
  BY <1>1, <1>2, <1>3, <1>4 DEF InstantStep

LEMMA ReadStepInv ==
  ASSUME TypeInv, NEW p \in Procs, ReadStep(p)
  PROVE  TypeInv'
<1>0. ASSUME UNCHANGED <<rows, pend, history>>, HeldInv'
      PROVE  TypeInv'
  <2>1. HistoryInv' /\ \A i \in Ids : accesses[i] <= accesses'[i]
    BY <1>0, TableAssumption DEF history, TypeInv, HistoryInv
  <2> QED
    BY <1>0, <2>1, RowsKept DEF TypeInv
<1>1. ASSUME NEW o \in RequestOps \cup TaskOps, NEW m \in AllRows, ReadOne(p, o, m)
      PROVE  TypeInv'
  <2>1. /\ Become(p, o, {m}) /\ UNCHANGED <<pend, accesses>> /\ UNCHANGED <<rows, pend, history>>
        /\ o \in HandlerOps
    BY <1>1 DEF ReadOne, history, HandlerOps
  <2>2. {m} \in SUBSET Row /\ \A n \in {m} : n.access <= accesses[n.id]
    BY AllRowsType DEF TypeInv
  <2> QED
    BY <1>0, <2>1, <2>2, BecomeInv DEF TypeInv
<1>2. ASSUME NEW o \in {"hide", "publish"}, NEW S \in SUBSET Ids, ReadGiven(p, o, S)
      PROVE  TypeInv'
  <2> DEFINE R == UNION {RowsOf(i) : i \in S}
  <2>1. /\ Become(p, o, R) /\ UNCHANGED <<pend, accesses>> /\ UNCHANGED <<rows, pend, history>>
        /\ o \in HandlerOps
    BY <1>2 DEF ReadGiven, history, HandlerOps, RequestOps
  <2>2. R \in SUBSET Row /\ \A n \in R : n.access <= accesses[n.id]
    BY RowsOfType DEF TypeInv
  <2> QED
    BY <1>0, <2>1, <2>2, BecomeInv DEF TypeInv
<1>3. ASSUME NEW o \in TaskOps \cup SweepOps, ReadAll(p, o)
      PROVE  TypeInv'
  <2>1. PICK R \in SUBSET AllRows : Become(p, o, R)
    BY <1>3 DEF ReadAll
  <2>2. /\ UNCHANGED <<pend, accesses>> /\ UNCHANGED <<rows, pend, history>>
        /\ o \in HandlerOps
    BY <1>3 DEF ReadAll, history, HandlerOps
  <2>3. R \in SUBSET Row /\ \A n \in R : n.access <= accesses[n.id]
    BY AllRowsType DEF TypeInv
  <2> QED
    BY <1>0, <2>1, <2>2, <2>3, BecomeInv DEF TypeInv
<1> QED
  BY <1>1, <1>2, <1>3 DEF ReadStep

\* A scalar write of a held row, with the snapshot dropped or the handler done.
LEMMA ScalarStepInv ==
  ASSUME TypeInv, NEW p \in Procs, NEW m \in todo[p], NEW n \in Row, ScalarUpdate(n),
         n.id = m.id, n.access = m.access, Done(p) \/ Drop(p, m), UNCHANGED <<pend, history>>
  PROVE  TypeInv'
<1>1. HistoryInv' /\ accesses' = accesses
  BY DEF history, TypeInv, HistoryInv
<1>2. \A i \in Ids : accesses[i] <= accesses'[i]
  BY <1>1, TableAssumption DEF TypeInv, HistoryInv
<1>3. HeldInv'
  BY <1>1, <1>2, HeldKept, DoneKeeps, DropKeeps DEF TypeInv, HeldInv
<1>4. n.access <= accesses'[n.id]
  BY <1>1, HeldType DEF TypeInv
<1> QED
  BY <1>1, <1>2, <1>3, <1>4, ScalarUpdateInv DEF TypeInv

\* The first commit of a rewrite of a held row.
LEMMA RewriteStepInv ==
  ASSUME TypeInv, NEW p \in Procs, NEW m \in todo[p], NEW n \in Row, RewriteDelete(p, n),
         n.id = m.id, n.access = m.access, Drop(p, m),
         UNCHANGED <<used, accesses, deleted, gone, torn>>
  PROVE  TypeInv'
<1>1. n.access <= accesses[n.id]
  BY HeldType DEF TypeInv
<1>2. /\ RowsInv' /\ HistoryInv' /\ pend' \in [Procs -> SUBSET Row]
      /\ \A q \in Procs : \A r \in pend'[q] : r.access <= accesses[r.id]
  BY <1>1, RewriteDeleteInv DEF TypeInv
<1>3. HeldInv'
  BY <1>2, DropKeeps DEF TypeInv, HeldInv, HeldNeverOvercounted
<1> QED
  BY <1>2, <1>3 DEF TypeInv

\* A hard delete of a held row.
LEMMA DeleteStepInv ==
  ASSUME TypeInv, NEW p \in Procs, NEW m \in todo[p], HardDelete({m.id}), Done(p) \/ Drop(p, m),
         UNCHANGED <<pend, used, accesses, torn, overlapped>>
  PROVE  TypeInv'
<1>1. m.id \in Ids
  BY HeldType DEF TypeInv
<1>2. RowsInv' /\ HistoryInv'
  BY <1>1, HardDeleteInv DEF TypeInv
<1>3. HeldInv'
  BY <1>2, HeldKept, DoneKeeps, DropKeeps, TableAssumption DEF TypeInv, HeldInv, HistoryInv
<1> QED
  BY <1>2, <1>3 DEF TypeInv

\* A change of the snapshots alone.
LEMMA HeldStepInv ==
  ASSUME TypeInv, HeldInv', UNCHANGED <<rows, history>>
  PROVE  TypeInv'
<1>1. HistoryInv' /\ \A i \in Ids : accesses[i] <= accesses'[i]
  BY TableAssumption DEF history, TypeInv, HistoryInv
<1> QED
  BY <1>1, RowsKept DEF TypeInv

LEMMA TierOfRow ==
  ASSUME NEW m \in Row, NEW t \in EvaluateTier(m)
  PROVE  t \in Tiers
BY DEF EvaluateTier, Row, Tiers

LEMMA WriteStepInv ==
  ASSUME TypeInv, NEW p \in Procs, NEW m \in todo[p], WriteStep(p, m)
  PROVE  TypeInv'
<1>0. /\ m \in Row /\ m.id \in Ids /\ m.access \in 0 .. MaxAccess
      /\ accesses[m.id] \in 0 .. MaxAccess /\ m.access <= accesses[m.id]
  BY HeldType DEF TypeInv
<1>1. CASE GetWrite(p, m)
  <2> DEFINE counted == [m EXCEPT !.access = @ + 1]
  <2>1. accesses[m.id] < MaxAccess /\ accesses' = [accesses EXCEPT ![m.id] = @ + 1]
    BY <1>1 DEF GetWrite
  <2>2. counted \in Row /\ counted.id = m.id /\ counted.access = m.access + 1
    BY <1>0, <2>1, TableAssumption DEF Row
  <2>3. PICK t \in EvaluateTier(counted) : ScalarUpdate([counted EXCEPT !.tier = t])
    BY <1>1 DEF GetWrite
  <2> DEFINE n == [counted EXCEPT !.tier = t]
  <2>4. n \in Row /\ n.id = m.id /\ n.access = m.access + 1
    <3> HIDE DEF counted
    <3> QED
      BY <2>2, <2>3, TierOfRow DEF Row
  <2>5. HistoryInv'
    BY <1>0, <1>1, <2>1, TableAssumption DEF GetWrite, TypeInv, HistoryInv
  <2>6. (\A i \in Ids : accesses[i] <= accesses'[i]) /\ n.access <= accesses'[n.id]
    <3> HIDE DEF n
    <3> QED
      BY <1>0, <2>1, <2>4, TableAssumption DEF TypeInv, HistoryInv
  <2>7. RowsInv'
    BY <2>3, <2>4, <2>5, <2>6, ScalarUpdateInv DEF TypeInv
  <2>8. HeldInv'
    BY <1>1, <2>5, <2>6, HeldKept, DoneKeeps DEF GetWrite, TypeInv, HeldInv
  <2> QED
    BY <2>5, <2>7, <2>8 DEF TypeInv
<1>2. CASE UpdateScalar(p, m)
  <2>1. PICK n \in Requested(m) : ScalarUpdate(n)
    BY <1>2 DEF UpdateScalar
  <2>2. n \in Row /\ n.id = m.id /\ n.access = m.access
    BY <1>0, RequestedRow
  <2> QED
    BY <1>2, <2>1, <2>2, ScalarStepInv DEF UpdateScalar
<1>3. ASSUME NEW c \in Contents, UpdateRewrite(p, m, c)
      PROVE  TypeInv'
  <2>1. PICK w \in Requested(m) : RewriteDelete(p, [w EXCEPT !.content = c, !.vec = c])
    BY <1>3 DEF UpdateRewrite
  <2> DEFINE n == [w EXCEPT !.content = c, !.vec = c]
  <2>2. w \in Row /\ w.id = m.id /\ w.access = m.access
    BY <1>0, RequestedRow
  <2>3. n \in Row /\ n.id = m.id /\ n.access = m.access
    BY <2>2 DEF Row
  <2> QED
    BY <1>3, <2>1, <2>3, RewriteStepInv DEF UpdateRewrite
<1>4. CASE HistoryVector(p, m)
  <2>1. PICK o \in {"historyVector", "historyNone"}, v \in Contents :
          Become(p, o, {[m EXCEPT !.vec = v]})
    <3>1. CASE \E r \in RowsOf(m.id) : Become(p, "historyVector", {[m EXCEPT !.vec = r.vec]})
      <4>1. PICK r \in RowsOf(m.id) : Become(p, "historyVector", {[m EXCEPT !.vec = r.vec]})
        BY <3>1
      <4>2. r.vec \in Contents
        BY <1>0, RowsOfType DEF TypeInv, Row
      <4> QED
        BY <4>1, <4>2
    <3>2. CASE Become(p, "historyNone", {m})
      <4>1. m = [m EXCEPT !.vec = m.vec] /\ m.vec \in Contents
        BY <1>0 DEF Row
      <4> QED
        BY <3>2, <4>1
    <3> QED
      BY <1>4, <3>1, <3>2 DEF HistoryVector
  <2> DEFINE n == [m EXCEPT !.vec = v]
  <2>2. n \in Row /\ n.id = m.id /\ n.access = m.access
    BY <1>0 DEF Row
  <2>3. o \in HandlerOps /\ UNCHANGED <<rows, pend, history>> /\ UNCHANGED <<pend, accesses>>
    BY <1>4 DEF HistoryVector, history, HandlerOps, RequestOps, HistoryOps
  <2>4. HeldInv'
    <3> HIDE DEF n
    <3>1. {n} \in SUBSET Row /\ \A x \in {n} : x.access <= accesses[x.id]
      BY <1>0, <2>2
    <3>2. Become(p, o, {n})
      BY <2>1 DEF n
    <3> QED
      BY <2>3, <3>1, <3>2, BecomeInv DEF TypeInv
  <2> QED
    BY <2>3, <2>4, HeldStepInv
<1>5. CASE HistoryRewrite(p, m)
  BY <1>0, <1>5, RewriteStepInv DEF HistoryRewrite
<1>6. CASE HistoryScalar(p, m)
  BY <1>0, <1>6, ScalarStepInv DEF HistoryScalar
<1>7. CASE DeleteWrite(p, m)
  BY <1>7, DeleteStepInv DEF DeleteWrite
<1>8. CASE VisibilityWrite(p, m)
  <2> DEFINE n == [m EXCEPT !.private = (op[p] = "hide")]
  <2>1. n \in Row /\ n.id = m.id /\ n.access = m.access
    BY <1>0 DEF Row
  <2> QED
    BY <1>8, <2>1, ScalarStepInv DEF VisibilityWrite
<1>9. CASE ReembedRewrite(p, m)
  <2> DEFINE n == [m EXCEPT !.vec = IF m.abst # "none" THEN m.abst ELSE m.content]
  <2>1. n \in Row /\ n.id = m.id /\ n.access = m.access
    BY <1>0 DEF Row
  <2> QED
    BY <1>9, <2>1, RewriteStepInv DEF ReembedRewrite
<1>10. ASSUME NEW i \in Ids, NEW c \in Contents, NEW a \in FactAttrs,
              SupersedeCreate(p, m, i, c, a)
       PROVE  TypeInv'
  <2> DEFINE n == [m EXCEPT !.superseded = TRUE]
  <2>1. n \in Row /\ n.id = m.id /\ n.access = m.access
    BY <1>0 DEF Row
  <2>2. HistoryInv' /\ accesses' = accesses
    BY <1>10 DEF SupersedeCreate, TypeInv, HistoryInv
  <2>3. /\ NewRow(i, c, a) \in Row /\ NewRow(i, c, a).id = i
        /\ NewRow(i, c, a).access <= accesses[i]
    BY NewRowType DEF FactAttrs, TypeInv, HistoryInv
  <2>4. RowsInv'
    BY <1>10, <2>3, AppendInv DEF SupersedeCreate, TypeInv
  <2>5. HeldInv'
    <3> HIDE DEF n
    <3>1. todo' = [todo EXCEPT ![p] = {n}] /\ UNCHANGED <<op, pend, accesses>>
      BY <1>10 DEF SupersedeCreate, n
    <3> QED
      BY <1>0, <2>1, <3>1 DEF TypeInv, HeldInv, HeldNeverOvercounted
  <2> QED
    BY <2>2, <2>4, <2>5 DEF TypeInv
<1>11. CASE SupersedeMark(p, m)
  BY <1>0, <1>11, ScalarStepInv DEF SupersedeMark
<1>12. CASE TierWrite(p, m)
  <2>1. PICK t \in EvaluateTier(m) : ScalarUpdate([m EXCEPT !.tier = t])
    BY <1>12 DEF TierWrite
  <2> DEFINE n == [m EXCEPT !.tier = t]
  <2>2. n \in Row /\ n.id = m.id /\ n.access = m.access
    BY <1>0, TierOfRow DEF Row
  <2> QED
    BY <1>12, <2>1, <2>2, ScalarStepInv DEF TierWrite
<1>13. CASE Expire(p, m)
  BY <1>13, DeleteStepInv DEF Expire
<1>14. CASE ArchiveWrite(p, m)
  <2> DEFINE n == [m EXCEPT !.active = FALSE]
  <2>1. n \in Row /\ n.id = m.id /\ n.access = m.access
    BY <1>0 DEF Row
  <2> QED
    BY <1>14, <2>1, ScalarStepInv DEF ArchiveWrite
<1>15. CASE StaleDelete(p, m)
  BY <1>15, DeleteStepInv DEF StaleDelete
<1>16. CASE SweepSkip(p, m)
  <2>1. UNCHANGED <<rows, pend, history>> /\ Drop(p, m)
    BY <1>16 DEF SweepSkip
  <2>2. HeldInv'
    BY <2>1, DropKeeps DEF TypeInv, HeldInv, HeldNeverOvercounted, history
  <2> QED
    BY <2>1, <2>2, HeldStepInv
<1> QED
  BY <1>1, <1>2, <1>3, <1>4, <1>5, <1>6, <1>7, <1>8, <1>9, <1>10, <1>11, <1>12, <1>13,
     <1>14, <1>15, <1>16 DEF WriteStep

\* The steps that commit nothing: a handler ends, a sweep moves to its next
\* phase, a request is cut off, the process dies.
LEMMA QuietStepInv ==
  ASSUME TypeInv,
         \/ \E p \in Procs : Finish(p) \/ NextPhase(p) \/ StopSweep(p) \/ Abandon(p) \/ ReembedAddFails(p)
         \/ Crash
  PROVE  TypeInv'
<1>1. ASSUME NEW p \in Procs, Finish(p) \/ StopSweep(p)
      PROVE  TypeInv'
  <2>1. Done(p) /\ UNCHANGED <<rows, pend, history>>
    BY <1>1 DEF Finish, StopSweep
  <2>2. HeldInv'
    BY <2>1, DoneKeeps DEF TypeInv, HeldInv, HeldNeverOvercounted, history
  <2> QED
    BY <2>1, <2>2, HeldStepInv
<1>2. ASSUME NEW p \in Procs, NextPhase(p)
      PROVE  TypeInv'
  <2>1. /\ Become(p, After[op[p]], AllRows) /\ After[op[p]] \in HandlerOps
        /\ UNCHANGED <<rows, history>> /\ UNCHANGED <<pend, accesses>>
    BY <1>2 DEF NextPhase, After, HandlerOps, SweepOps, history
  <2>2. AllRows \in SUBSET Row /\ \A m \in AllRows : m.access <= accesses[m.id]
    BY AllRowsType DEF TypeInv
  <2> QED
    BY <2>1, <2>2, BecomeInv, HeldStepInv DEF TypeInv
<1>3. ASSUME op' \in [Procs -> HandlerOps \cup {"idle"}], todo' \in [Procs -> SUBSET Row],
             pend' \in [Procs -> SUBSET Row], torn' \subseteq Ids,
             \A q \in Procs : todo'[q] \subseteq todo[q] /\ pend'[q] \subseteq pend[q],
             UNCHANGED <<rows, used, accesses, deleted, gone, overlapped>>
      PROVE  TypeInv'
  <2>1. HistoryInv' /\ \A i \in Ids : accesses[i] <= accesses'[i]
    BY <1>3, TableAssumption DEF TypeInv, HistoryInv
  <2>2. HeldInv'
    BY <1>3, <2>1, HeldKept DEF TypeInv
  <2> QED
    BY <1>3, <2>1, <2>2, RowsKept DEF TypeInv
<1>4. \A q \in Procs : IdsOf(pend[q]) \subseteq Ids
  BY HeldType DEF TypeInv, IdsOf
<1>5. ASSUME NEW p \in Procs, Abandon(p)
      PROVE  TypeInv'
  <2>1. /\ pend' = [pend EXCEPT ![p] = {}] /\ torn' = torn \cup IdsOf(pend[p]) /\ Done(p)
        /\ UNCHANGED <<rows, used, accesses, deleted, gone, overlapped>>
    BY <1>5 DEF Abandon
  <2>2. /\ pend' \in [Procs -> SUBSET Row] /\ \A q \in Procs : pend'[q] \subseteq pend[q]
        /\ torn' \subseteq Ids
    BY <1>4, <2>1 DEF TypeInv, HeldInv, HistoryInv
  <2> QED
    BY <1>3, <2>1, <2>2, DoneKeeps DEF TypeInv
<1>6. ASSUME NEW p \in Procs, ReembedAddFails(p)
      PROVE  TypeInv'
  <2>1. /\ pend' = [pend EXCEPT ![p] = {}] /\ torn' = torn \cup IdsOf(pend[p])
        /\ UNCHANGED <<rows, op, todo, used, accesses, deleted, gone, overlapped>>
    BY <1>6 DEF ReembedAddFails
  <2>2. /\ pend' \in [Procs -> SUBSET Row] /\ \A q \in Procs : pend'[q] \subseteq pend[q]
        /\ torn' \subseteq Ids
    BY <1>4, <2>1 DEF TypeInv, HeldInv, HistoryInv
  <2> QED
    BY <1>3, <2>1, <2>2 DEF TypeInv, HeldInv
<1>7. CASE Crash
  <2>1. /\ op' = [q \in Procs |-> "idle"] /\ todo' = [q \in Procs |-> {}]
        /\ pend' = [q \in Procs |-> {}] /\ torn' = torn \cup UNION {IdsOf(pend[q]) : q \in Procs}
        /\ UNCHANGED <<rows, used, accesses, deleted, gone, overlapped>>
    BY <1>7 DEF Crash
  <2>2. torn' \subseteq Ids
    BY <1>4, <2>1 DEF TypeInv, HistoryInv
  <2> QED
    BY <1>3, <2>1, <2>2
<1> QED
  BY <1>1, <1>2, <1>5, <1>6, <1>7

LEMMA RewriteInsertInv ==
  ASSUME TypeInv, NEW p \in Procs, NEW m \in pend[p], RewriteInsert(p, m)
  PROVE  TypeInv'
<1>0. /\ m \in Row /\ m.access <= accesses[m.id]
  BY HeldType DEF TypeInv
<1>1. HistoryInv' /\ UNCHANGED accesses
  BY DEF RewriteInsert, history, TypeInv, HistoryInv
<1>2. RowsInv'
  BY <1>0, <1>1, AppendInv DEF RewriteInsert, TypeInv
<1>3. /\ op' \in [Procs -> HandlerOps \cup {"idle"}] /\ todo' \in [Procs -> SUBSET Row]
      /\ \A q \in Procs : todo'[q] \subseteq todo[q]
  BY DoneKeeps DEF RewriteInsert, TypeInv, HeldInv
<1>4. /\ pend' \in [Procs -> SUBSET Row] /\ \A q \in Procs : pend'[q] \subseteq pend[q]
  BY DEF RewriteInsert, TypeInv, HeldInv
<1>5. HeldInv'
  BY <1>1, <1>3, <1>4 DEF TypeInv, HeldInv, HeldNeverOvercounted
<1> QED
  BY <1>1, <1>2, <1>5 DEF TypeInv

-----------------------------------------------------------------------------
(* The type invariant and the access bound. *)

LEMMA InitTypeInv == Init => TypeInv
<1> SUFFICES ASSUME Init PROVE TypeInv
  OBVIOUS
<1>1. RowsInv
  BY EmptySeq DEF Init, RowsInv, Filed, AccessNeverOvercounted
<1>2. HeldInv /\ HistoryInv
  BY TableAssumption DEF Init, HeldInv, HeldNeverOvercounted, HistoryInv
<1> QED
  BY <1>1, <1>2 DEF TypeInv

LEMMA NextTypeInv == TypeInv /\ [Next]_vars => TypeInv'
<1> SUFFICES ASSUME TypeInv, [Next]_vars PROVE TypeInv'
  OBVIOUS
<1>1. CASE UNCHANGED vars
  BY <1>1 DEF vars, procVars, history, TypeInv, RowsInv, Filed, AccessNeverOvercounted,
              HeldInv, HeldNeverOvercounted, HistoryInv
<1> QED
  BY <1>1, InstantStepInv, ReadStepInv, WriteStepInv, RewriteInsertInv, QuietStepInv DEF Next

LEMMA AlwaysTypeInv == Spec => []TypeInv
<1> QED
  BY InitTypeInv, NextTypeInv, PTL DEF Spec

\* In every run the table, the snapshots and the recorded history stay within
\* their types: no handler writes back anything but a whole row of the table.
THEOREM TypeCorrect == Spec => []TypeOK
<1>1. TypeInv => TypeOK
  BY DEF TypeInv, RowsInv, HeldInv, HistoryInv, TypeOK
<1> QED
  BY <1>1, AlwaysTypeInv, PTL

\* However whole-row writes race, no stored row ever shows more accesses than
\* were made: none earns a tier or protection from forgetting unduly.
THEOREM AccessBounded == Spec => []AccessNeverOvercounted
<1>1. TypeInv => AccessNeverOvercounted
  BY DEF TypeInv, RowsInv
<1> QED
  BY <1>1, AlwaysTypeInv, PTL

-----------------------------------------------------------------------------
(* The shape of what a process holds: a row between the two commits of a    *)
(* rewrite belongs to a rewriting handler, there is one at most, and a      *)
(* handler other than the re-embedding task has used its snapshot by then.  *)

HeldShape ==
  \A p \in Procs :
    /\ pend[p] # {} => op[p] \in RewriterOps
    /\ \A m, n \in pend[p] : m = n
    /\ op[p] \in RewriterOps \ {"reembed"} =>
         /\ \A m, n \in todo[p] : m = n
         /\ todo[p] = {} \/ pend[p] = {}

\* p, with nothing pending, takes up a handler with at most one snapshot if
\* it is to rewrite it; every other process is left alone.
LEMMA ShapeBecome ==
  ASSUME TypeInv, HeldShape, NEW p \in Procs, NEW o, NEW S, Become(p, o, S), pend[p] = {},
         o \in RewriterOps \ {"reembed"} => \A m, n \in S : m = n, UNCHANGED pend
  PROVE  HeldShape'
BY DEF TypeInv, HeldInv, HeldShape, Become

LEMMA ShapeDone ==
  ASSUME TypeInv, HeldShape, NEW p \in Procs, Done(p), pend'[p] = {},
         \A q \in Procs \ {p} : pend'[q] = pend[q]
  PROVE  HeldShape'
BY DEF TypeInv, HeldInv, HeldShape, Done, Become, RewriterOps

LEMMA ShapeDrop ==
  ASSUME TypeInv, HeldShape, NEW p \in Procs, NEW m, Drop(p, m), UNCHANGED pend
  PROVE  HeldShape'
BY DEF TypeInv, HeldInv, HeldShape, Drop

LEMMA ShapeRewrite ==
  ASSUME TypeInv, HeldShape, NEW p \in Procs, NEW m \in todo[p], NEW n, RewriteDelete(p, n),
         Drop(p, m), op[p] \in RewriterOps
  PROVE  HeldShape'
<1>1. /\ pend[p] = {} /\ pend' = [pend EXCEPT ![p] = {NextVersion(n)}]
      /\ op' = op /\ todo' = [todo EXCEPT ![p] = @ \ {m}]
  BY DEF RewriteDelete, Drop
<1>2. op[p] # "reembed" => todo'[p] = {}
  BY <1>1 DEF TypeInv, HeldInv, HeldShape
<1> QED
  BY <1>1, <1>2 DEF TypeInv, HeldInv, HeldShape

\* Nothing is pending for a process that is not rewriting, or that still has
\* its one snapshot.
LEMMA NothingPending ==
  ASSUME HeldShape, NEW p \in Procs,
         \/ op[p] \notin RewriterOps
         \/ op[p] # "reembed" /\ todo[p] # {}
  PROVE  pend[p] = {}
BY DEF HeldShape

LEMMA WriteStepShape ==
  ASSUME TypeInv, HeldShape, NEW p \in Procs, NEW m \in todo[p], WriteStep(p, m)
  PROVE  HeldShape'
<1>1. CASE GetWrite(p, m)
  BY <1>1, NothingPending, ShapeDone DEF GetWrite, RewriterOps
<1>2. CASE UpdateScalar(p, m)
  BY <1>2, NothingPending, ShapeDone DEF UpdateScalar
<1>3. ASSUME NEW c \in Contents, UpdateRewrite(p, m, c)
      PROVE  HeldShape'
  BY <1>3, ShapeRewrite DEF UpdateRewrite, RewriterOps
<1>4. CASE HistoryVector(p, m)
  <2>1. pend[p] = {} /\ UNCHANGED pend
    BY <1>4, NothingPending DEF HistoryVector
  <2>2. PICK n : \E o \in {"historyVector", "historyNone"} : Become(p, o, {n})
    BY <1>4 DEF HistoryVector
  <2>3. \A x, y \in {n} : x = y
    OBVIOUS
  <2> QED
    BY <2>1, <2>2, <2>3, ShapeBecome
<1>5. CASE HistoryRewrite(p, m)
  BY <1>5, ShapeRewrite DEF HistoryRewrite, RewriterOps
<1>6. CASE HistoryScalar(p, m)
  BY <1>6, NothingPending, ShapeDone DEF HistoryScalar
<1>7. CASE DeleteWrite(p, m)
  BY <1>7, NothingPending, ShapeDone DEF DeleteWrite
<1>8. CASE VisibilityWrite(p, m)
  BY <1>8, ShapeDrop DEF VisibilityWrite
<1>9. CASE ReembedRewrite(p, m)
  BY <1>9, ShapeRewrite DEF ReembedRewrite, RewriterOps
<1>10. ASSUME NEW i \in Ids, NEW c \in Contents, NEW a \in FactAttrs,
              SupersedeCreate(p, m, i, c, a)
       PROVE  HeldShape'
  BY <1>10 DEF SupersedeCreate, TypeInv, HeldInv, HeldShape, RewriterOps
<1>11. CASE SupersedeMark(p, m)
  BY <1>11, NothingPending, ShapeDone DEF SupersedeMark
<1>12. CASE TierWrite(p, m)
  BY <1>12, ShapeDrop DEF TierWrite
<1>13. CASE Expire(p, m)
  BY <1>13, ShapeDrop DEF Expire
<1>14. CASE ArchiveWrite(p, m)
  BY <1>14, ShapeDrop DEF ArchiveWrite
<1>15. CASE StaleDelete(p, m)
  BY <1>15, ShapeDrop DEF StaleDelete
<1>16. CASE SweepSkip(p, m)
  BY <1>16, ShapeDrop DEF SweepSkip
<1> QED
  BY <1>1, <1>2, <1>3, <1>4, <1>5, <1>6, <1>7, <1>8, <1>9, <1>10, <1>11, <1>12, <1>13,
     <1>14, <1>15, <1>16 DEF WriteStep

LEMMA ReadStepShape ==
  ASSUME TypeInv, HeldShape, NEW p \in Procs, ReadStep(p)
  PROVE  HeldShape'
<1>0. Idle(p) => pend[p] = {}
  BY NothingPending DEF Idle, RewriterOps
<1>1. ASSUME NEW o \in RequestOps \cup TaskOps, NEW m \in AllRows, ReadOne(p, o, m)
      PROVE  HeldShape'
  <2>1. \A x, y \in {m} : x = y
    OBVIOUS
  <2> QED
    BY <1>0, <1>1, <2>1, ShapeBecome DEF ReadOne
<1>2. ASSUME NEW o \in {"hide", "publish"}, NEW S \in SUBSET Ids, ReadGiven(p, o, S)
      PROVE  HeldShape'
  BY <1>0, <1>2, ShapeBecome DEF ReadGiven, RewriterOps
<1>3. ASSUME NEW o \in TaskOps \cup SweepOps, ReadAll(p, o)
      PROVE  HeldShape'
  BY <1>0, <1>3, ShapeBecome DEF ReadAll, RewriterOps
<1> QED
  BY <1>1, <1>2, <1>3 DEF ReadStep

LEMMA NextHeldShape == TypeInv /\ HeldShape /\ [Next]_vars => HeldShape'
<1> SUFFICES ASSUME TypeInv, HeldShape, [Next]_vars PROVE HeldShape'
  OBVIOUS
<1>1. ASSUME UNCHANGED procVars
      PROVE  HeldShape'
  BY <1>1 DEF procVars, HeldShape
<1>2. ASSUME NEW p \in Procs, InstantStep(p)
      PROVE  HeldShape'
  BY <1>1, <1>2 DEF InstantStep, Create, Bump, Purge, Backfill
<1>3. ASSUME NEW p \in Procs, NEW m \in pend[p], RewriteInsert(p, m)
      PROVE  HeldShape'
  <2>1. CASE op[p] = "reembed"
    BY <1>3, <2>1 DEF RewriteInsert, TypeInv, HeldInv, HeldShape
  <2>2. CASE Done(p)
    BY <1>3, <2>2, ShapeDone DEF RewriteInsert, TypeInv, HeldInv
  <2> QED
    BY <1>3, <2>1, <2>2 DEF RewriteInsert
<1>4. ASSUME NEW p \in Procs, Finish(p) \/ StopSweep(p)
      PROVE  HeldShape'
  BY <1>4, NothingPending, ShapeDone DEF Finish, StopSweep, RewriterOps
<1>5. ASSUME NEW p \in Procs, NextPhase(p)
      PROVE  HeldShape'
  BY <1>5, NothingPending, ShapeBecome DEF NextPhase, After, RewriterOps
<1>6. ASSUME NEW p \in Procs, Abandon(p)
      PROVE  HeldShape'
  BY <1>6, ShapeDone DEF Abandon, TypeInv, HeldInv
<1>7. ASSUME NEW p \in Procs, ReembedAddFails(p)
      PROVE  HeldShape'
  BY <1>7 DEF ReembedAddFails, TypeInv, HeldInv, HeldShape
<1>8. CASE Crash
  BY <1>8 DEF Crash, HeldShape, RewriterOps
<1>9. CASE UNCHANGED vars
  BY <1>1, <1>9 DEF vars
<1> QED
  BY <1>2, <1>3, <1>4, <1>5, <1>6, <1>7, <1>8, <1>9, ReadStepShape, WriteStepShape DEF Next

-----------------------------------------------------------------------------
(* No resurrection, no loss, no duplicate: the invariant.                   *)

PendingIds(p) == IdsOf(pend[p])

\* Only ids that were inserted are stored, held or deleted.
KnownIds ==
  /\ \A i \in Ids : Present(i) => i \in used
  /\ \A p \in Procs : IdsOf(todo[p] \cup pend[p]) \subseteq used
  /\ gone \subseteq used

\* What makes DeletedStaysDeleted inductive: no rewrite can bring i back.
GoneSettled == \A i \in gone : ~Present(i) /\ ~Rewriting(i)

\* What makes DuplicatesNeedOverlap inductive: without overlap, an id has one
\* row, or is pending for one process and has none.
OneCopy ==
  \A i \in Ids \ overlapped :
    /\ Len(rows[i]) <= 1
    /\ \A p \in Procs : i \in PendingIds(p) =>
         ~Present(i) /\ \A q \in Procs : i \in PendingIds(q) => p = q

LifeInv == KnownIds /\ GoneSettled /\ NothingVanishes /\ OneCopy

(* Every step is one of six kinds.  In all of them a process holds       *)
(* afterwards only ids that it held or that are present, and a process     *)
(* that rewrites afterwards either rewrote the same ids or just read them. *)

Handed ==
  \A q \in Procs :
    /\ \A i \in IdsOf(todo'[q]) : i \in IdsOf(todo[q]) \/ (i \in Ids /\ Present(i))
    /\ op'[q] \in RewriterOps =>
         \A i \in IdsOf(todo'[q]) : \/ op[q] \in RewriterOps /\ i \in IdsOf(todo[q])
                                    \/ i \in Ids /\ Present(i)

SameLength(S) == \A i \in S : Len(rows'[i]) = Len(rows[i])

CalmStep ==
  /\ SameLength(Ids)
  /\ UNCHANGED <<pend, used, deleted, gone, torn, overlapped>>

BirthStep ==
  \E i \in Ids \ used :
    /\ SameLength(Ids \ {i}) /\ Len(rows'[i]) = Len(rows[i]) + 1
    /\ used' = used \cup {i}
    /\ UNCHANGED <<pend, deleted, gone, torn, overlapped>>

\* Snapshots are only given up.
Released ==
  \A q \in Procs : /\ IdsOf(todo'[q]) \subseteq IdsOf(todo[q])
                   /\ op'[q] \in RewriterOps => op[q] \in RewriterOps

DeleteStep ==
  \E S \in SUBSET Ids : HardDelete(S) /\ Released /\ UNCHANGED <<pend, used, torn, overlapped>>

LiftStep ==
  \E p \in Procs, m \in Row :
    /\ op[p] \in RewriterOps /\ op'[p] = op[p] /\ m.id \in IdsOf(todo[p])
    /\ RewriteDelete(p, m)
    /\ UNCHANGED <<used, deleted, gone, torn>>

LandStep ==
  \E p \in Procs, m \in Row :
    /\ pend[p] = {m} /\ pend' = [pend EXCEPT ![p] = {}]
    /\ SameLength(Ids \ {m.id}) /\ Len(rows'[m.id]) = Len(rows[m.id]) + 1
    /\ UNCHANGED <<used, deleted, gone, torn, overlapped>>

TearStep ==
  /\ \A p \in Procs : pend'[p] = pend[p] \/ (pend'[p] = {} /\ PendingIds(p) \subseteq torn')
  /\ torn \subseteq torn'
  /\ UNCHANGED <<rows, used, deleted, gone, overlapped>>

StepKind == CalmStep \/ BirthStep \/ DeleteStep \/ LiftStep \/ LandStep \/ TearStep

LEMMA HandedSame == ASSUME UNCHANGED <<op, todo>> PROVE Handed
BY DEF Handed

LEMMA HandedDone == ASSUME TypeInv, NEW p \in Procs, Done(p) PROVE Handed
BY DEF TypeInv, HeldInv, Handed, Done, Become, IdsOf, RewriterOps

LEMMA HandedDrop == ASSUME TypeInv, NEW p \in Procs, NEW m, Drop(p, m) PROVE Handed
BY DEF TypeInv, HeldInv, Handed, Drop, IdsOf

LEMMA ReleasedSame == ASSUME UNCHANGED <<op, todo>> PROVE Released
BY DEF Released

LEMMA ReleasedHeld ==
  ASSUME TypeInv, NEW p \in Procs, NEW m, Done(p) \/ Drop(p, m)
  PROVE  Released
BY DEF TypeInv, HeldInv, Released, Done, Become, Drop, IdsOf, RewriterOps

LEMMA HandedRead ==
  ASSUME TypeInv, NEW p \in Procs, NEW o, NEW S \in SUBSET AllRows, Become(p, o, S)
  PROVE  Handed
<1>1. \A m \in S : m.id \in Ids /\ Present(m.id)
  BY AllRowsType DEF TypeInv
<1> QED
  BY <1>1 DEF TypeInv, HeldInv, Handed, Become, IdsOf

LEMMA CalmUnchanged ==
  ASSUME UNCHANGED <<rows, pend, history>>
  PROVE  CalmStep
BY DEF CalmStep, SameLength, history

LEMMA CalmScalar ==
  ASSUME TypeInv, NEW m \in Row, ScalarUpdate(m),
         UNCHANGED <<pend, used, deleted, gone, torn, overlapped>>
  PROVE  CalmStep
BY ScalarUpdateRows DEF TypeInv, CalmStep, SameLength

LEMMA WriteStepKind ==
  ASSUME TypeInv, HeldShape, NEW p \in Procs, NEW m \in todo[p], WriteStep(p, m)
  PROVE  Handed /\ StepKind
<1>0. m \in Row /\ m.id \in Ids /\ m.id \in IdsOf(todo[p]) /\ {m.id} \in SUBSET Ids
  BY HeldType DEF TypeInv, IdsOf
<1>a. ASSUME NEW n \in Row, ScalarUpdate(n), Done(p) \/ Drop(p, m), UNCHANGED <<pend, history>>
      PROVE  Handed /\ StepKind
  BY <1>a, CalmScalar, HandedDone, HandedDrop DEF StepKind, history
<1>b. ASSUME NEW n \in Row, n.id = m.id, RewriteDelete(p, n), Drop(p, m), op[p] \in RewriterOps,
             UNCHANGED <<used, accesses, deleted, gone, torn>>
      PROVE  Handed /\ StepKind
  BY <1>0, <1>b, HandedDrop DEF StepKind, LiftStep, Drop
<1>c. ASSUME HardDelete({m.id}), Done(p) \/ Drop(p, m),
             UNCHANGED <<pend, used, accesses, torn, overlapped>>
      PROVE  Handed /\ StepKind
  BY <1>0, <1>c, HandedDone, HandedDrop, ReleasedHeld DEF StepKind, DeleteStep
<1>1. CASE GetWrite(p, m)
  <2> DEFINE counted == [m EXCEPT !.access = @ + 1]
  <2>1. accesses[m.id] < MaxAccess
    BY <1>1 DEF GetWrite
  <2>2. m.access \in 0 .. MaxAccess /\ m.access <= accesses[m.id] /\ accesses[m.id] \in 0 .. MaxAccess
    BY HeldType DEF TypeInv
  <2>3. counted \in Row
    BY <1>0, <2>1, <2>2, TableAssumption DEF Row
  <2>4. PICK t \in EvaluateTier(counted) : ScalarUpdate([counted EXCEPT !.tier = t])
    BY <1>1 DEF GetWrite
  <2> HIDE DEF counted
  <2>5. [counted EXCEPT !.tier = t] \in Row
    BY <2>3, <2>4, TierOfRow DEF Row
  <2>6. CalmStep
    BY <1>1, <2>4, <2>5, CalmScalar DEF GetWrite
  <2> QED
    BY <1>1, <2>6, HandedDone DEF GetWrite, StepKind
<1>2. CASE UpdateScalar(p, m)
  <2>1. PICK n \in Requested(m) : ScalarUpdate(n)
    BY <1>2 DEF UpdateScalar
  <2>2. n \in Row
    BY <1>0, RequestedRow
  <2> QED
    BY <1>2, <1>a, <2>1, <2>2 DEF UpdateScalar
<1>3. ASSUME NEW c \in Contents, UpdateRewrite(p, m, c)
      PROVE  Handed /\ StepKind
  <2>1. PICK w \in Requested(m) : RewriteDelete(p, [w EXCEPT !.content = c, !.vec = c])
    BY <1>3 DEF UpdateRewrite
  <2> DEFINE n == [w EXCEPT !.content = c, !.vec = c]
  <2>2. w \in Row /\ w.id = m.id
    BY <1>0, RequestedRow
  <2>3. n \in Row /\ n.id = m.id
    BY <2>2 DEF Row
  <2> QED
    BY <1>3, <1>b, <2>1, <2>3 DEF UpdateRewrite, RewriterOps
<1>4. CASE HistoryVector(p, m)
  <2>1. CalmStep
    BY <1>4, CalmUnchanged DEF HistoryVector
  <2>2. op[p] \in RewriterOps
    BY <1>4 DEF HistoryVector, RewriterOps
  <2>3. PICK o, n : Become(p, o, {n}) /\ n.id = m.id
    <3>1. \A v : [m EXCEPT !.vec = v].id = m.id
      BY <1>0 DEF Row
    <3> QED
      BY <1>4, <3>1 DEF HistoryVector
  <2>4. Handed
    BY <1>0, <2>2, <2>3 DEF TypeInv, HeldInv, Handed, Become, IdsOf
  <2> QED
    BY <2>1, <2>4 DEF StepKind
<1>5. CASE HistoryRewrite(p, m)
  BY <1>0, <1>5, <1>b DEF HistoryRewrite, RewriterOps
<1>6. CASE HistoryScalar(p, m)
  BY <1>0, <1>6, <1>a DEF HistoryScalar
<1>7. CASE DeleteWrite(p, m)
  BY <1>7, <1>c DEF DeleteWrite
<1>8. CASE VisibilityWrite(p, m)
  <2>1. [m EXCEPT !.private = (op[p] = "hide")] \in Row
    BY <1>0 DEF Row
  <2> QED
    BY <1>8, <1>a, <2>1 DEF VisibilityWrite
<1>9. CASE ReembedRewrite(p, m)
  <2> DEFINE n == [m EXCEPT !.vec = IF m.abst # "none" THEN m.abst ELSE m.content]
  <2>1. n \in Row /\ n.id = m.id
    BY <1>0 DEF Row
  <2> QED
    BY <1>9, <1>b, <2>1 DEF ReembedRewrite, RewriterOps
<1>10. ASSUME NEW i \in Ids, NEW c \in Contents, NEW a \in FactAttrs,
              SupersedeCreate(p, m, i, c, a)
       PROVE  Handed /\ StepKind
  <2>1. [m EXCEPT !.superseded = TRUE].id = m.id
    BY <1>0 DEF Row
  <2>2. Handed
    BY <1>0, <1>10, <2>1 DEF SupersedeCreate, TypeInv, HeldInv, Handed, IdsOf, RewriterOps
  <2>3. rows[i] \in Seq(Row)
    BY DEF TypeInv, RowsInv
  <2>4. Len(Append(rows[i], NewRow(i, c, a))) = Len(rows[i]) + 1
    BY <2>3, NewRowType, AppendProperties DEF FactAttrs
  <2>5. BirthStep
    BY <1>10, <2>4 DEF SupersedeCreate, BirthStep, SameLength, TypeInv, RowsInv
  <2> QED
    BY <2>2, <2>5 DEF StepKind
<1>11. CASE SupersedeMark(p, m)
  BY <1>0, <1>11, <1>a DEF SupersedeMark
<1>12. CASE TierWrite(p, m)
  <2>1. PICK t \in EvaluateTier(m) : ScalarUpdate([m EXCEPT !.tier = t])
    BY <1>12 DEF TierWrite
  <2>2. [m EXCEPT !.tier = t] \in Row
    BY <1>0, TierOfRow DEF Row
  <2> QED
    BY <1>12, <1>a, <2>1, <2>2 DEF TierWrite
<1>13. CASE Expire(p, m)
  BY <1>13, <1>c DEF Expire
<1>14. CASE ArchiveWrite(p, m)
  <2>1. [m EXCEPT !.active = FALSE] \in Row
    BY <1>0 DEF Row
  <2> QED
    BY <1>14, <1>a, <2>1 DEF ArchiveWrite
<1>15. CASE StaleDelete(p, m)
  BY <1>15, <1>c DEF StaleDelete
<1>16. CASE SweepSkip(p, m)
  BY <1>16, CalmUnchanged, HandedDrop DEF SweepSkip, StepKind
<1> QED
  BY <1>1, <1>2, <1>3, <1>4, <1>5, <1>6, <1>7, <1>8, <1>9, <1>10, <1>11, <1>12, <1>13,
     <1>14, <1>15, <1>16 DEF WriteStep

LEMMA NextStepKind ==
  ASSUME TypeInv, HeldShape, [Next]_vars
  PROVE  Handed /\ StepKind
<1>1. ASSUME NEW p \in Procs, NEW i \in Ids, NEW c \in Contents, NEW a \in NewAttrs,
             Create(p, i, c, a)
      PROVE  Handed /\ StepKind
  <2>1. rows[i] \in Seq(Row)
    BY DEF TypeInv, RowsInv
  <2>2. Len(Append(rows[i], NewRow(i, c, a))) = Len(rows[i]) + 1
    BY <2>1, NewRowType, AppendProperties
  <2>3. BirthStep
    BY <1>1, <2>2 DEF Create, procVars, BirthStep, SameLength, TypeInv, RowsInv
  <2> QED
    BY <1>1, <2>3, HandedSame DEF Create, procVars, StepKind
<1>2. ASSUME NEW p \in Procs, NEW S \in SUBSET Ids, Bump(p, S)
      PROVE  Handed /\ StepKind
  <2> DEFINE upd(i) == [k \in DOMAIN rows[i] |-> [rows[i][k] EXCEPT !.access = @ + 1]]
  <2>1. \A i \in Ids : DOMAIN upd(i) = DOMAIN rows[i] /\ upd(i) = [k \in DOMAIN upd(i) |-> upd(i)[k]]
    OBVIOUS
  <2>2. \A i \in Ids : Len(upd(i)) = Len(rows[i])
    <3> SUFFICES ASSUME NEW i \in Ids PROVE Len(upd(i)) = Len(rows[i])
      OBVIOUS
    <3>1. rows[i] \in Seq(Row) /\ DOMAIN upd(i) = 1 .. Len(rows[i]) /\ Len(rows[i]) \in Nat
      BY DEF TypeInv, RowsInv
    <3>2. \A k \in DOMAIN rows[i] : upd(i)[k] \in {upd(i)[j] : j \in DOMAIN rows[i]}
      OBVIOUS
    <3> QED
      BY <2>1, <3>1, <3>2, MapSeq
  <2> HIDE DEF upd
  <2>3. rows' = [i \in Ids |-> IF i \in S THEN upd(i) ELSE rows[i]]
    BY <1>2 DEF Bump, upd
  <2>4. CalmStep
    BY <1>2, <2>2, <2>3 DEF Bump, procVars, CalmStep, SameLength
  <2> QED
    BY <1>2, <2>4, HandedSame DEF Bump, procVars, StepKind
<1>3. ASSUME NEW p \in Procs, NEW S \in SUBSET Ids, Purge(p, S)
      PROVE  Handed /\ StepKind
  BY <1>3, HandedSame, ReleasedSame DEF Purge, procVars, StepKind, DeleteStep
<1>4. ASSUME NEW p \in Procs, Backfill(p)
      PROVE  Handed /\ StepKind
  <2> DEFINE row(i, k) == IF rows[i][k].private THEN rows[i][k]
                          ELSE [rows[i][k] EXCEPT !.project = TRUE]
             upd(i) == [k \in DOMAIN rows[i] |-> row(i, k)]
  <2>1. rows' = [i \in Ids |-> upd(i)]
    BY <1>4 DEF Backfill
  <2> HIDE DEF row
  <2>2. \A i \in Ids : DOMAIN upd(i) = DOMAIN rows[i] /\ upd(i) = [k \in DOMAIN upd(i) |-> upd(i)[k]]
    OBVIOUS
  <2>3. \A i \in Ids : Len(upd(i)) = Len(rows[i])
    <3> SUFFICES ASSUME NEW i \in Ids PROVE Len(upd(i)) = Len(rows[i])
      OBVIOUS
    <3>1. rows[i] \in Seq(Row)
      BY DEF TypeInv, RowsInv
    <3>2. \A k \in DOMAIN rows[i] : upd(i)[k] \in {upd(i)[j] : j \in DOMAIN rows[i]}
      OBVIOUS
    <3> HIDE DEF upd
    <3> QED
      BY <2>2, <3>1, <3>2, MapSeq
  <2> HIDE DEF upd
  <2>4. CalmStep
    BY <1>4, <2>1, <2>3 DEF Backfill, procVars, history, CalmStep, SameLength
  <2> QED
    BY <1>4, <2>4, HandedSame DEF Backfill, procVars, StepKind
<1>5. ASSUME NEW p \in Procs, ReadStep(p)
      PROVE  Handed /\ StepKind
  <2>1. UNCHANGED <<rows, pend, history>>
    BY <1>5 DEF ReadStep, ReadOne, ReadGiven, ReadAll
  <2>2. \E o, S : S \in SUBSET AllRows /\ Become(p, o, S)
    <3>1. \A m \in AllRows : {m} \in SUBSET AllRows
      OBVIOUS
    <3>2. \A S \in SUBSET Ids : UNION {RowsOf(i) : i \in S} \in SUBSET AllRows
      BY DEF AllRows
    <3>3. {m \in AllRows : m.active} \in SUBSET AllRows /\ AllRows \in SUBSET AllRows
      OBVIOUS
    <3> QED
      BY <1>5, <3>1, <3>2, <3>3 DEF ReadStep, ReadOne, ReadGiven, ReadAll
  <2> QED
    BY <2>1, <2>2, CalmUnchanged, HandedRead DEF StepKind
<1>6. ASSUME NEW p \in Procs, NEW m \in pend[p], RewriteInsert(p, m)
      PROVE  Handed /\ StepKind
  <2>1. m \in Row /\ m.id \in Ids
    BY HeldType DEF TypeInv
  <2>2. pend[p] = {m}
    BY DEF HeldShape
  <2>3. rows[m.id] \in Seq(Row)
    BY <2>1 DEF TypeInv, RowsInv
  <2>4. Len(Append(rows[m.id], m)) = Len(rows[m.id]) + 1
    BY <2>1, <2>3, AppendProperties
  <2>5. LandStep
    BY <1>6, <2>1, <2>2, <2>4 DEF RewriteInsert, history, LandStep, SameLength, TypeInv, RowsInv
  <2> QED
    BY <1>6, <2>5, HandedSame, HandedDone DEF RewriteInsert, StepKind
<1>7. ASSUME NEW p \in Procs, Finish(p) \/ StopSweep(p)
      PROVE  Handed /\ StepKind
  BY <1>7, CalmUnchanged, HandedDone DEF Finish, StopSweep, StepKind
<1>8. ASSUME NEW p \in Procs, NextPhase(p)
      PROVE  Handed /\ StepKind
  <2>1. AllRows \in SUBSET AllRows
    OBVIOUS
  <2> QED
    BY <1>8, <2>1, CalmUnchanged, HandedRead DEF NextPhase, StepKind
<1>9. ASSUME NEW p \in Procs, Abandon(p) \/ ReembedAddFails(p)
      PROVE  Handed /\ StepKind
  <2>1. TearStep
    BY <1>9 DEF Abandon, ReembedAddFails, TearStep, PendingIds, TypeInv, HeldInv
  <2> QED
    BY <1>9, <2>1, HandedSame, HandedDone DEF Abandon, ReembedAddFails, StepKind
<1>10. CASE Crash
  <2>1. TearStep
    BY <1>10 DEF Crash, TearStep, PendingIds
  <2>2. Handed
    BY <1>10 DEF Crash, Handed, IdsOf
  <2> QED
    BY <2>1, <2>2 DEF StepKind
<1>11. CASE UNCHANGED vars
  BY <1>11, CalmUnchanged, HandedSame DEF vars, procVars, StepKind
<1> QED
  BY <1>1, <1>2, <1>3, <1>4, <1>5, <1>6, <1>7, <1>8, <1>9, <1>10, <1>11, WriteStepKind
     DEF Next, InstantStep

-----------------------------------------------------------------------------
(* No resurrection, no loss, no duplicate: each kind of step keeps them.    *)

LEMMA PresentLen ==
  ASSUME TypeInv, NEW i \in Ids
  PROVE  Len(rows[i]) \in Nat /\ (Present(i) <=> Len(rows[i]) # 0)
BY EmptySeq DEF TypeInv, RowsInv, Present

LEMMA PresentLenNext ==
  ASSUME TypeInv', NEW i \in Ids
  PROVE  Len(rows'[i]) \in Nat /\ (Present(i)' <=> Len(rows'[i]) # 0)
BY EmptySeq DEF TypeInv, RowsInv, Present

\* An id that is neither present nor being rewritten gets no rewriter by a
\* step that makes it pending for no process.
LEMMA NoNewRewriter ==
  ASSUME HeldShape, Handed, NEW i, ~Present(i), ~Rewriting(i),
         \A p \in Procs : i \in IdsOf(pend'[p]) => i \in IdsOf(pend[p])
  PROVE  ~Rewriting(i)'
<1> SUFFICES ASSUME NEW p \in Procs, op'[p] \in RewriterOps, i \in IdsOf(todo'[p] \cup pend'[p])
             PROVE  Rewriting(i) \/ Present(i)
  BY DEF Rewriting
<1>1. CASE i \in IdsOf(todo'[p])
  <2>1. op[p] \in RewriterOps /\ i \in IdsOf(todo[p])
    BY <1>1 DEF Handed
  <2> QED
    BY <2>1 DEF Rewriting, IdsOf
<1>2. CASE i \in IdsOf(pend'[p])
  BY <1>2 DEF Rewriting, HeldShape, IdsOf
<1> QED
  BY <1>1, <1>2 DEF IdsOf

\* The ids held afterwards are known if the pending ones are.
LEMMA HandedKnown ==
  ASSUME KnownIds, Handed, used \subseteq used',
         \A p \in Procs : IdsOf(pend'[p]) \subseteq used'
  PROVE  \A p \in Procs : IdsOf(todo'[p] \cup pend'[p]) \subseteq used'
BY DEF KnownIds, Handed, IdsOf

LEMMA CalmLife ==
  ASSUME TypeInv, TypeInv', HeldShape, LifeInv, Handed, CalmStep
  PROVE  LifeInv'
<1>1. \A i \in Ids : Present(i)' <=> Present(i)
  BY PresentLen, PresentLenNext DEF CalmStep, SameLength
<1>2. KnownIds'
  <2>1. \A p \in Procs : IdsOf(todo'[p] \cup pend'[p]) \subseteq used'
    BY HandedKnown DEF LifeInv, KnownIds, CalmStep, IdsOf
  <2> QED
    BY <1>1, <2>1 DEF LifeInv, KnownIds, CalmStep
<1>3. GoneSettled'
  BY <1>1, NoNewRewriter DEF LifeInv, GoneSettled, CalmStep, TypeInv, HistoryInv
<1>4. NothingVanishes'
  BY <1>1 DEF LifeInv, NothingVanishes, CalmStep, TypeInv, HistoryInv
<1>5. OneCopy'
  BY <1>1 DEF LifeInv, OneCopy, CalmStep, SameLength, PendingIds
<1> QED
  BY <1>2, <1>3, <1>4, <1>5 DEF LifeInv

LEMMA BirthLife ==
  ASSUME TypeInv, TypeInv', HeldShape, LifeInv, Handed, BirthStep
  PROVE  LifeInv'
<1> PICK i \in Ids \ used :
      /\ SameLength(Ids \ {i}) /\ Len(rows'[i]) = Len(rows[i]) + 1
      /\ used' = used \cup {i}
      /\ UNCHANGED <<pend, deleted, gone, torn, overlapped>>
  BY DEF BirthStep
<1>1. /\ \A j \in Ids \ {i} : Present(j)' <=> Present(j)
      /\ Present(i)' /\ ~Present(i) /\ Len(rows'[i]) = 1
  BY PresentLen, PresentLenNext DEF SameLength, LifeInv, KnownIds
<1>2. KnownIds'
  <2>1. \A p \in Procs : IdsOf(todo'[p] \cup pend'[p]) \subseteq used'
    BY HandedKnown DEF LifeInv, KnownIds, IdsOf
  <2> QED
    BY <1>1, <2>1 DEF LifeInv, KnownIds
<1>3. GoneSettled'
  <2>1. i \notin gone
    BY DEF LifeInv, KnownIds
  <2> QED
    BY <1>1, <2>1, NoNewRewriter DEF LifeInv, GoneSettled, TypeInv, HistoryInv
<1>4. NothingVanishes'
  BY <1>1 DEF LifeInv, NothingVanishes, TypeInv, HistoryInv
<1>5. OneCopy'
  <2> SUFFICES ASSUME NEW j \in Ids \ overlapped
               PROVE  /\ Len(rows'[j]) <= 1
                      /\ \A p \in Procs : j \in PendingIds(p) =>
                           ~Present(j)' /\ \A q \in Procs : j \in PendingIds(q) => p = q
    BY DEF OneCopy, PendingIds
  <2>1. CASE j = i
    <3>1. \A p \in Procs : j \notin PendingIds(p)
      BY <2>1 DEF LifeInv, KnownIds, PendingIds, IdsOf
    <3>2. Len(rows'[j]) = 1
      BY <1>1, <2>1
    <3> QED
      BY <3>1, <3>2
  <2>2. CASE j # i
    BY <1>1, <2>2 DEF LifeInv, OneCopy, SameLength
  <2> QED
    BY <2>1, <2>2
<1> QED
  BY <1>2, <1>3, <1>4, <1>5 DEF LifeInv

LEMMA DeleteLife ==
  ASSUME TypeInv, TypeInv', HeldShape, LifeInv, Handed, DeleteStep
  PROVE  LifeInv'
<1> PICK S \in SUBSET Ids : HardDelete(S) /\ Released /\ UNCHANGED <<pend, used, torn, overlapped>>
  BY DEF DeleteStep
<1>1. /\ \A i \in S : ~Present(i)' /\ rows'[i] = <<>>
      /\ \A i \in Ids \ S : rows'[i] = rows[i] /\ (Present(i)' <=> Present(i))
      /\ deleted' = deleted \cup (S \cap used)
      /\ gone' = gone \cup {i \in S \cap used : ~Rewriting(i)}
  BY DEF HardDelete, Present
<1>2. KnownIds'
  <2>1. \A p \in Procs : IdsOf(todo'[p] \cup pend'[p]) \subseteq used'
    BY HandedKnown DEF LifeInv, KnownIds, IdsOf
  <2> QED
    BY <1>1, <2>1 DEF LifeInv, KnownIds
<1>3. GoneSettled'
  <2> SUFFICES ASSUME NEW i \in gone'
               PROVE  ~Present(i)' /\ ~Rewriting(i)'
    BY DEF GoneSettled
  <2>1. i \in Ids /\ ~Rewriting(i) /\ (i \in S \/ ~Present(i))
    BY <1>1 DEF LifeInv, GoneSettled, TypeInv, HistoryInv
  <2>2. ~Present(i)'
    BY <1>1, <2>1
  <2>3. ~Rewriting(i)'
    BY <2>1 DEF Released, Rewriting, IdsOf
  <2> QED
    BY <2>2, <2>3
<1>4. NothingVanishes'
  BY <1>1 DEF LifeInv, NothingVanishes, TypeInv, HistoryInv
<1>5. OneCopy'
  BY <1>1, EmptySeq DEF LifeInv, OneCopy, PendingIds
<1> QED
  BY <1>2, <1>3, <1>4, <1>5 DEF LifeInv

LEMMA LiftLife ==
  ASSUME TypeInv, TypeInv', HeldShape, LifeInv, Handed, LiftStep
  PROVE  LifeInv'
<1> PICK p \in Procs, m \in Row :
      /\ op[p] \in RewriterOps /\ op'[p] = op[p] /\ m.id \in IdsOf(todo[p])
      /\ RewriteDelete(p, m)
      /\ UNCHANGED <<used, deleted, gone, torn>>
  BY DEF LiftStep
<1>0. m.id \in Ids /\ m.id \in used /\ NextVersion(m).id = m.id /\ Rewriting(m.id)
  BY NextVersionRow DEF RewriteDelete, Row, LifeInv, KnownIds, IdsOf, Rewriting
<1>1. /\ rows' = [rows EXCEPT ![m.id] = <<>>]
      /\ pend[p] = {} /\ pend' = [pend EXCEPT ![p] = {NextVersion(m)}]
      /\ overlapped \subseteq overlapped'
      /\ (\E q \in Procs \ {p} : m.id \in IdsOf(pend[q])) => m.id \in overlapped'
  BY DEF RewriteDelete
<1>2. /\ ~Present(m.id)'
      /\ \A i \in Ids \ {m.id} : rows'[i] = rows[i] /\ (Present(i)' <=> Present(i))
  BY <1>0, <1>1 DEF Present, TypeInv, RowsInv
<1>3. /\ PendingIds(p)' = {m.id} /\ PendingIds(p) = {}
      /\ \A q \in Procs \ {p} : PendingIds(q)' = PendingIds(q)
  BY <1>0, <1>1 DEF PendingIds, IdsOf, TypeInv, HeldInv
<1>4. KnownIds'
  <2>1. \A q \in Procs : IdsOf(pend'[q]) \subseteq used'
    BY <1>0, <1>3 DEF LifeInv, KnownIds, PendingIds, IdsOf
  <2>2. \A q \in Procs : IdsOf(todo'[q] \cup pend'[q]) \subseteq used'
    BY <2>1, HandedKnown DEF LifeInv
  <2> QED
    BY <1>0, <1>2, <2>2 DEF LifeInv, KnownIds
<1>5. GoneSettled'
  <2> SUFFICES ASSUME NEW i \in gone
               PROVE  ~Present(i)' /\ ~Rewriting(i)'
    BY DEF GoneSettled
  <2>1. i \in Ids /\ i # m.id /\ ~Present(i) /\ ~Rewriting(i)
    BY <1>0 DEF LifeInv, GoneSettled, TypeInv, HistoryInv
  <2>2. \A q \in Procs : i \in IdsOf(pend'[q]) => i \in IdsOf(pend[q])
    BY <1>3, <2>1 DEF PendingIds
  <2> QED
    BY <1>2, <2>1, <2>2, NoNewRewriter
<1>6. NothingVanishes'
  <2> SUFFICES ASSUME NEW i \in used
               PROVE  \/ Present(i)'
                      \/ \E q \in Procs : i \in PendingIds(q)'
                      \/ i \in deleted \cup torn
    BY DEF NothingVanishes, PendingIds
  <2>1. CASE i = m.id
    BY <1>3, <2>1
  <2>2. CASE i # m.id
    BY <1>2, <1>3, <2>2 DEF LifeInv, NothingVanishes, TypeInv, HistoryInv, PendingIds
  <2> QED
    BY <2>1, <2>2
<1>7. OneCopy'
  <2> SUFFICES ASSUME NEW i \in Ids \ overlapped'
               PROVE  /\ Len(rows'[i]) <= 1
                      /\ \A r \in Procs : i \in PendingIds(r)' =>
                           ~Present(i)' /\ \A q \in Procs : i \in PendingIds(q)' => r = q
    BY DEF OneCopy
  <2>0. i \in Ids \ overlapped
    BY <1>1
  <2>1. CASE i = m.id
    <3>1. \A q \in Procs \ {p} : i \notin PendingIds(q)'
      BY <1>1, <1>3, <2>1 DEF PendingIds
    <3>2. Len(rows'[i]) = 0
      BY <1>1, <2>1, EmptySeq DEF TypeInv, RowsInv
    <3> QED
      BY <1>2, <2>1, <3>1, <3>2
  <2>2. CASE i # m.id
    BY <1>2, <1>3, <2>0, <2>2 DEF LifeInv, OneCopy
  <2> QED
    BY <2>1, <2>2
<1> QED
  BY <1>4, <1>5, <1>6, <1>7 DEF LifeInv

LEMMA LandLife ==
  ASSUME TypeInv, TypeInv', HeldShape, LifeInv, Handed, LandStep
  PROVE  LifeInv'
<1> PICK p \in Procs, m \in Row :
      /\ pend[p] = {m} /\ pend' = [pend EXCEPT ![p] = {}]
      /\ SameLength(Ids \ {m.id}) /\ Len(rows'[m.id]) = Len(rows[m.id]) + 1
      /\ UNCHANGED <<used, deleted, gone, torn, overlapped>>
  BY DEF LandStep
<1>0. m.id \in Ids /\ m.id \in used /\ Rewriting(m.id)
  BY DEF Row, LifeInv, KnownIds, HeldShape, IdsOf, Rewriting
<1>1. /\ Present(m.id)'
      /\ \A i \in Ids \ {m.id} : Len(rows'[i]) = Len(rows[i]) /\ (Present(i)' <=> Present(i))
  BY <1>0, PresentLen, PresentLenNext DEF SameLength
<1>2. /\ PendingIds(p)' = {} /\ PendingIds(p) = {m.id}
      /\ \A q \in Procs \ {p} : PendingIds(q)' = PendingIds(q)
  BY DEF PendingIds, IdsOf, TypeInv, HeldInv
<1>3. KnownIds'
  <2>1. \A q \in Procs : IdsOf(pend'[q]) \subseteq used'
    BY <1>2 DEF LifeInv, KnownIds, PendingIds, IdsOf
  <2>2. \A q \in Procs : IdsOf(todo'[q] \cup pend'[q]) \subseteq used'
    BY <2>1, HandedKnown DEF LifeInv
  <2> QED
    BY <1>0, <1>1, <2>2 DEF LifeInv, KnownIds
<1>4. GoneSettled'
  <2> SUFFICES ASSUME NEW i \in gone
               PROVE  ~Present(i)' /\ ~Rewriting(i)'
    BY DEF GoneSettled
  <2>1. i \in Ids /\ i # m.id /\ ~Present(i) /\ ~Rewriting(i)
    BY <1>0 DEF LifeInv, GoneSettled, TypeInv, HistoryInv
  <2>2. \A q \in Procs : i \in IdsOf(pend'[q]) => i \in IdsOf(pend[q])
    BY <1>2 DEF PendingIds
  <2> QED
    BY <1>1, <2>1, <2>2, NoNewRewriter
<1>5. NothingVanishes'
  <2> SUFFICES ASSUME NEW i \in used, i # m.id
               PROVE  \/ Present(i)'
                      \/ \E q \in Procs : i \in PendingIds(q)'
                      \/ i \in deleted \cup torn
    BY <1>1 DEF NothingVanishes, PendingIds
  <2> QED
    BY <1>1, <1>2 DEF LifeInv, NothingVanishes, TypeInv, HistoryInv, PendingIds
<1>6. OneCopy'
  <2> SUFFICES ASSUME NEW i \in Ids \ overlapped
               PROVE  /\ Len(rows'[i]) <= 1
                      /\ \A r \in Procs : i \in PendingIds(r)' =>
                           ~Present(i)' /\ \A q \in Procs : i \in PendingIds(q)' => r = q
    BY DEF OneCopy
  <2>1. CASE i = m.id
    <3>1. ~Present(i) /\ \A q \in Procs : i \in PendingIds(q) => p = q
      BY <1>2, <2>1 DEF LifeInv, OneCopy
    <3>2. Len(rows[i]) = 0
      BY <3>1, PresentLen
    <3>4. Len(rows'[i]) = 1
      BY <2>1, <3>2
    <3>3. \A q \in Procs : i \notin PendingIds(q)'
      BY <1>2, <3>1
    <3> QED
      BY <3>3, <3>4
  <2>2. CASE i # m.id
    BY <1>1, <1>2, <2>2 DEF LifeInv, OneCopy
  <2> QED
    BY <2>1, <2>2
<1> QED
  BY <1>3, <1>4, <1>5, <1>6 DEF LifeInv

LEMMA TearLife ==
  ASSUME TypeInv, TypeInv', HeldShape, LifeInv, Handed, TearStep
  PROVE  LifeInv'
<1>1. /\ \A p \in Procs : PendingIds(p)' = PendingIds(p)
                          \/ (PendingIds(p)' = {} /\ PendingIds(p) \subseteq torn')
      /\ torn \subseteq torn' /\ UNCHANGED <<rows, used, deleted, gone, overlapped>>
  BY DEF TearStep, PendingIds, IdsOf
<1>2. KnownIds'
  <2>1. \A q \in Procs : IdsOf(pend'[q]) \subseteq used'
    BY <1>1 DEF LifeInv, KnownIds, PendingIds, IdsOf
  <2>2. \A q \in Procs : IdsOf(todo'[q] \cup pend'[q]) \subseteq used'
    BY <1>1, <2>1, HandedKnown DEF LifeInv
  <2> QED
    BY <1>1, <2>2 DEF LifeInv, KnownIds, Present
<1>3. GoneSettled'
  BY <1>1, NoNewRewriter DEF LifeInv, GoneSettled, Present, PendingIds
<1>4. NothingVanishes'
  BY <1>1 DEF LifeInv, NothingVanishes, Present, PendingIds
<1>5. OneCopy'
  BY <1>1 DEF LifeInv, OneCopy, Present
<1> QED
  BY <1>2, <1>3, <1>4, <1>5 DEF LifeInv

-----------------------------------------------------------------------------
(* The theorems. *)

LEMMA InitLifeInv == Init => HeldShape /\ LifeInv
<1> SUFFICES ASSUME Init PROVE HeldShape /\ LifeInv
  OBVIOUS
<1>1. HeldShape
  BY DEF Init, HeldShape, RewriterOps
<1>2. KnownIds /\ GoneSettled /\ NothingVanishes
  BY DEF Init, KnownIds, GoneSettled, NothingVanishes, Present, IdsOf
<1>3. OneCopy
  <2>1. \A i \in Ids : Len(rows[i]) <= 1
    <3>1. Len(<<>>) <= 1
      OBVIOUS
    <3>2. \A i \in Ids : rows[i] = <<>>
      BY DEF Init
    <3> QED
      BY <3>1, <3>2
  <2>2. \A p \in Procs : PendingIds(p) = {}
    BY DEF Init, PendingIds, IdsOf
  <2> QED
    BY <2>1, <2>2 DEF OneCopy
<1> QED
  BY <1>1, <1>2, <1>3 DEF LifeInv

LEMMA NextLifeInv ==
  TypeInv /\ TypeInv' /\ HeldShape /\ LifeInv /\ [Next]_vars => LifeInv'
BY NextStepKind, CalmLife, BirthLife, DeleteLife, LiftLife, LandLife, TearLife DEF StepKind

LEMMA AlwaysLifeInv == Spec => []LifeInv
<1> QED
  BY AlwaysTypeInv, InitLifeInv, NextHeldShape, NextLifeInv, PTL DEF Spec

\* A memory that was deleted while no rewrite held a snapshot of it stays
\* deleted, whatever handlers that read it before the delete write afterwards.
THEOREM NoResurrection == Spec => []DeletedStaysDeleted
<1>1. LifeInv => DeletedStaysDeleted
  BY DEF LifeInv, GoneSettled, DeletedStaysDeleted
<1> QED
  BY <1>1, AlwaysLifeInv, PTL

\* A stored memory is in the table, or between the two commits of a rewrite
\* in progress, or was deleted, or its rewrite was cut off in between.
THEOREM NoLoss == Spec => []NothingVanishes
<1>1. LifeInv => NothingVanishes
  BY DEF LifeInv
<1> QED
  BY <1>1, AlwaysLifeInv, PTL

\* An id has two rows only if two processes had it deleted and not yet added
\* again at the same time.
THEOREM NoDuplicateWithoutOverlap == Spec => []DuplicatesNeedOverlap
<1>1. TypeInv /\ LifeInv => DuplicatesNeedOverlap
  <2> SUFFICES ASSUME TypeInv, LifeInv, NEW i \in Ids, Len(rows[i]) > 1
               PROVE  i \in overlapped
    BY DEF DuplicatesNeedOverlap
  <2>1. Len(rows[i]) \in Nat
    BY PresentLen
  <2> QED
    BY <2>1 DEF LifeInv, OneCopy
<1> QED
  BY <1>1, AlwaysTypeInv, AlwaysLifeInv, PTL

\* Together: the table is safe for every set of memories, texts and processes,
\* every bound and every choice of handlers.
THEOREM TableSafe == Spec => []RowsSafe
<1>1. TypeOK /\ DeletedStaysDeleted /\ NothingVanishes /\ DuplicatesNeedOverlap /\ AccessNeverOvercounted => RowsSafe
  BY DEF RowsSafe
<1> QED
  BY <1>1, TypeCorrect, AccessBounded, NoResurrection, NoLoss, NoDuplicateWithoutOverlap, PTL

-----------------------------------------------------------------------------
(* One handler at a time: in mode "serial" of MCMemoryTable whoever is busy *)
(* takes every step.  Nobody else then holds a copy; each copy that is held *)
(* has counted every access, and has the text of the row it will overwrite. *)

\* The access count of a copy is the number of accesses.
Exact(m) == m.access = accesses[m.id]

\* The embedding is of the copy's own content or abstract.
OwnText(m) == m.vec \in {m.content, m.abst}

\* A snapshot is as the row that is stored, in what a scalar update of it
\* leaves to the row: its text; and it has counted every access.
Faithful(m) ==
  /\ Exact(m)
  /\ \A r \in RowsOf(m.id) : r.content = m.content /\ r.abst = m.abst

\* What a process holds when it runs alone.
HeldFaithful(p) ==
  /\ Idle(p) => todo[p] = {}
  /\ \A m \in todo[p] :
       /\ Faithful(m)
       /\ op[p] = "historyVector" => OwnText(m)
       /\ \A n \in todo[p] : n.id = m.id => n = m
       /\ \A n \in pend[p] : n.id # m.id
  /\ \A m \in pend[p] : Exact(m) /\ OwnText(m)

OneBusy == \A p, q \in Procs : ~Idle(p) /\ ~Idle(q) => p = q

UnusedUncounted == \A i \in Ids \ used : accesses[i] = 0

RowsExact == \A i \in Ids : \A r \in RowsOf(i) : r.access = accesses[i] /\ OwnText(r)

SerialInv ==
  /\ OneBusy /\ overlapped = {} /\ UnusedUncounted /\ RowsExact
  /\ \A p \in Procs : HeldFaithful(p)

TableInv == TypeInv /\ HeldShape /\ LifeInv

\* p is the only process that may be busy or hold anything.
Only(p) == \A q \in Procs \ {p} : Idle(q) /\ todo[q] = {} /\ pend[q] = {}

\* The step is p's.
By(p) ==
  \A q \in Procs \ {p} : op'[q] = op[q] /\ todo'[q] = todo[q] /\ pend'[q] = pend[q]

\* A step of p alone, while a busy process must move: nobody else is busy
\* before it or after.
LEMMA OnlyStep ==
  ASSUME HeldShape, SerialInv, NEW p \in Procs, By(p), Alone
  PROVE  Only(p) /\ Only(p)'
<1>1. Only(p)
  BY NothingPending DEF By, Alone, Only, Idle, SerialInv, HeldFaithful, RewriterOps
<1> QED
  BY <1>1 DEF Only, By, Idle

\* What p holds, the rows and the counts make the invariant when nobody else
\* holds anything.
LEMMA SerialParts ==
  ASSUME NEW p \in Procs, Only(p)', HeldFaithful(p)', (overlapped = {})', UnusedUncounted', RowsExact'
  PROVE  SerialInv'
<1>1. \A q \in Procs \ {p} : HeldFaithful(q)'
  BY DEF Only, HeldFaithful
<1>2. OneBusy'
  BY DEF Only, OneBusy, Idle
<1> QED
  BY <1>1, <1>2 DEF SerialInv

-----------------------------------------------------------------------------
(* What each commit does to the rows. *)

\* An id whose rows are as before has the same rows.
LEMMA SameRowsOf ==
  ASSUME NEW i, rows'[i] = rows[i]
  PROVE  RowsOf(i)' = RowsOf(i)
BY DEF RowsOf

\* An id without rows has none.
LEMMA NoRowsOf ==
  ASSUME NEW i, rows'[i] = <<>>
  PROVE  RowsOf(i)' = {}
BY EmptySeq DEF RowsOf

\* A scalar update changes the rows of one id to the copy, all but the embedding.
LEMMA ScalarRowsOf ==
  ASSUME TypeInv, NEW n \in Row, ScalarUpdate(n)
  PROVE  /\ \A i \in Ids \ {n.id} : RowsOf(i)' = RowsOf(i)
         /\ \A r \in RowsOf(n.id)' : \E o \in RowsOf(n.id) :
              r.vec = o.vec /\ r.content = n.content /\ r.abst = n.abst /\ r.access = n.access
<1> DEFINE upd == [k \in DOMAIN rows[n.id] |-> [NextVersion(n) EXCEPT !.vec = rows[n.id][k].vec]]
<1>0. n.id \in Ids
  BY DEF Row
<1>1. rows' = [rows EXCEPT ![n.id] = upd] /\ n.version < MaxVersion
  BY DEF ScalarUpdate
<1>2. \A k \in DOMAIN rows[n.id] :
        /\ upd[k].vec = rows[n.id][k].vec /\ upd[k].content = n.content
        /\ upd[k].abst = n.abst /\ upd[k].access = n.access
  BY DEF NextVersion, Row
<1>3. DOMAIN upd = DOMAIN rows[n.id]
  OBVIOUS
<1> HIDE DEF upd
<1>4. rows'[n.id] = upd /\ \A i \in Ids \ {n.id} : rows'[i] = rows[i]
  BY <1>0, <1>1 DEF TypeInv, RowsInv
<1>5. \A r \in RowsOf(n.id)' : \E o \in RowsOf(n.id) :
              r.vec = o.vec /\ r.content = n.content /\ r.abst = n.abst /\ r.access = n.access
  BY <1>2, <1>3, <1>4 DEF RowsOf
<1> QED
  BY <1>4, <1>5, SameRowsOf

\* An insert adds one row to those of its id.
LEMMA AppendRowsOf ==
  ASSUME TypeInv, NEW m \in Row, rows' = [rows EXCEPT ![m.id] = Append(@, m)]
  PROVE  /\ \A i \in Ids \ {m.id} : RowsOf(i)' = RowsOf(i)
         /\ RowsOf(m.id)' \subseteq RowsOf(m.id) \cup {m}
<1>0. m.id \in Ids
  BY DEF Row
<1>1. rows'[m.id] = Append(rows[m.id], m) /\ \A i \in Ids \ {m.id} : rows'[i] = rows[i]
  BY <1>0 DEF TypeInv, RowsInv
<1>2. rows[m.id] \in Seq(Row)
  BY <1>0 DEF TypeInv, RowsInv
<1>3. \A k \in DOMAIN Append(rows[m.id], m) :
           Append(rows[m.id], m)[k] = m \/ (/\ k \in DOMAIN rows[m.id]
                                            /\ Append(rows[m.id], m)[k] = rows[m.id][k])
  BY <1>2, AppendProperties
<1>4. ASSUME NEW r \in RowsOf(m.id)' PROVE r \in RowsOf(m.id) \cup {m}
  <2>1. PICK k \in DOMAIN rows'[m.id] : r = rows'[m.id][k]
    BY DEF RowsOf
  <2>2. r = m \/ (k \in DOMAIN rows[m.id] /\ r = rows[m.id][k])
    BY <1>1, <1>3, <2>1
  <2> QED  BY <2>2 DEF RowsOf
<1> QED
  BY <1>1, <1>4, SameRowsOf

\* Rows of one id are one row.
LEMMA OneRow ==
  ASSUME TypeInv, LifeInv, SerialInv, NEW i \in Ids, NEW r \in RowsOf(i), NEW s \in RowsOf(i)
  PROVE  r = s
<1>1. rows[i] \in Seq(Row) /\ Len(rows[i]) <= 1
  BY DEF TypeInv, RowsInv, LifeInv, OneCopy, SerialInv
<1>2. Len(rows[i]) \in Nat /\ DOMAIN rows[i] = 1 .. Len(rows[i])
  BY <1>1
<1>3. \A j, k \in DOMAIN rows[i] : j = k
  BY <1>1, <1>2
<1> QED
  BY <1>3 DEF RowsOf

-----------------------------------------------------------------------------
(* One lemma for each kind of step of a process that runs alone. *)

\* Nothing is written, and what p holds is kept or dropped.
LEMMA KeepSerial ==
  ASSUME TableInv, SerialInv, NEW p \in Procs, Only(p)', UNCHANGED <<rows, used, accesses, overlapped>>,
         todo'[p] \subseteq todo[p], pend'[p] \subseteq pend[p],
         op'[p] = op[p] \/ todo'[p] = {}, Idle(p)' => todo'[p] = {}
  PROVE  SerialInv'
<1>1. RowsExact' /\ UnusedUncounted'
  BY DEF SerialInv, RowsExact, RowsOf, UnusedUncounted, OwnText
<1>2. HeldFaithful(p)'
  BY DEF SerialInv, HeldFaithful, Faithful, Exact, RowsOf, OwnText
<1> QED
  BY <1>1, <1>2, SerialParts DEF SerialInv

\* p takes rows of the table.
LEMMA ReadSerial ==
  ASSUME TableInv, SerialInv, NEW p \in Procs, Only(p)', UNCHANGED <<rows, pend, used, accesses, overlapped>>,
         pend[p] = {}, NEW o \in HandlerOps, o # "historyVector", NEW S \in SUBSET AllRows, Become(p, o, S)
  PROVE  SerialInv'
<1>1. RowsExact' /\ UnusedUncounted'
  BY DEF SerialInv, RowsExact, RowsOf, UnusedUncounted, OwnText
<1>2. op'[p] = o /\ todo'[p] = S /\ pend'[p] = {} /\ o # "idle"
  BY DEF Become, TableInv, TypeInv, HeldInv, HandlerOps, RequestOps, TaskOps, SweepOps, HistoryOps
<1>3. ASSUME NEW m \in S
      PROVE  Faithful(m)' /\ \A n \in S : n.id = m.id => n = m
  <2>1. PICK i \in Ids : m \in RowsOf(i)
    BY DEF AllRows
  <2>2. m.id = i
    BY <2>1, RowsOfType DEF TableInv, TypeInv
  <2>3. \A n \in RowsOf(i) : n = m
    BY <2>1, OneRow DEF TableInv
  <2>4. ASSUME NEW n \in S, n.id = m.id PROVE n = m
    <3>1. PICK j \in Ids : n \in RowsOf(j)
      BY DEF AllRows
    <3>2. n.id = j
      BY <3>1, RowsOfType DEF TableInv, TypeInv
    <3> QED  BY <2>2, <2>3, <2>4, <3>1, <3>2
  <2>5. m.access = accesses[m.id]
    BY <2>1, <2>2 DEF SerialInv, RowsExact
  <2>6. RowsOf(i)' = RowsOf(i)
    BY DEF RowsOf
  <2>7. \A r \in RowsOf(m.id)' : r.content = m.content /\ r.abst = m.abst
    BY <2>2, <2>3, <2>6
  <2> QED  BY <2>4, <2>5, <2>7 DEF Faithful, Exact
<1>4. HeldFaithful(p)'
  BY <1>2, <1>3 DEF HeldFaithful, Idle
<1> QED
  BY <1>1, <1>4, SerialParts DEF SerialInv

\* p writes all columns of n, a copy of a snapshot m that is as the row in its
\* text, and drops m.
LEMMA ScalarSerial ==
  ASSUME TableInv, SerialInv, NEW p \in Procs, Only(p)', NEW m \in todo[p], NEW n \in Row, ScalarUpdate(n),
         n.id = m.id, n.content = m.content, n.abst = m.abst, n.access = accesses'[m.id],
         Drop(p, m) \/ Done(p), UNCHANGED <<pend, used, overlapped>>,
         \/ UNCHANGED accesses
         \/ /\ \A i \in Ids \ {m.id} : accesses'[i] = accesses[i]
            /\ Done(p) /\ pend[p] = {}
  PROVE  SerialInv'
<1>0. m.id \in Ids /\ m.id \in used /\ m \in Row
  BY DEF TableInv, TypeInv, HeldInv, Row, LifeInv, KnownIds, IdsOf
<1>1. /\ \A i \in Ids \ {n.id} : RowsOf(i)' = RowsOf(i)
      /\ \A r \in RowsOf(n.id)' : \E o \in RowsOf(n.id) :
           r.vec = o.vec /\ r.content = n.content /\ r.abst = n.abst /\ r.access = n.access
  BY ScalarRowsOf DEF TableInv
<1>2. \A i \in Ids \ {m.id} : accesses'[i] = accesses[i]
  OBVIOUS
<1>3. UnusedUncounted'
  BY <1>0, <1>2 DEF UnusedUncounted, SerialInv
<1>4. \A o \in RowsOf(m.id) : o.vec \in {m.content, m.abst}
  BY <1>0 DEF SerialInv, HeldFaithful, Faithful, RowsExact, OwnText
<1>5. RowsExact'
  <2> SUFFICES ASSUME NEW i \in Ids, NEW r \in RowsOf(i)'
               PROVE  r.access = accesses'[i] /\ r.vec \in {r.content, r.abst}
    BY DEF RowsExact, OwnText
  <2>1. CASE i = m.id
    BY <1>1, <1>4, <2>1
  <2>2. CASE i # m.id
    BY <1>1, <1>2, <2>2 DEF SerialInv, RowsExact, OwnText
  <2> QED  BY <2>1, <2>2
<1>6. HeldFaithful(p)'
  <2>1. CASE Done(p)
    <3>1. todo'[p] = {} /\ pend'[p] = pend[p]
      BY <2>1 DEF Done, Become, TableInv, TypeInv, HeldInv
    <3>2. \A k \in pend[p] : Exact(k)' /\ OwnText(k)
      BY DEF SerialInv, HeldFaithful, Exact
    <3> QED  BY <3>1, <3>2 DEF HeldFaithful, OwnText
  <2>2. CASE Drop(p, m) /\ UNCHANGED accesses
    <3>1. todo'[p] = todo[p] \ {m} /\ pend'[p] = pend[p] /\ op'[p] = op[p]
      BY <2>2 DEF Drop, TableInv, TypeInv, HeldInv
    <3>2. ASSUME NEW k \in todo'[p]
          PROVE  Faithful(k)'
      <4>1. k \in todo[p] /\ k # m /\ k.id # m.id /\ Faithful(k) /\ k.id \in Ids
        BY <3>1 DEF SerialInv, HeldFaithful, TableInv, TypeInv, HeldInv, Row
      <4>2. RowsOf(k.id)' = RowsOf(k.id)
        BY <1>1, <4>1
      <4> QED  BY <2>2, <4>1, <4>2 DEF Faithful, Exact
    <3> QED  BY <2>2, <3>1, <3>2 DEF SerialInv, HeldFaithful, Exact, OwnText, Idle
  <2> QED  BY <2>1, <2>2
<1> QED
  BY <1>3, <1>5, <1>6, SerialParts DEF SerialInv

\* Rows are deleted, and p goes on with what it holds or less.
LEMMA DeleteSerial ==
  ASSUME TableInv, SerialInv, NEW p \in Procs, Only(p)', NEW S \in SUBSET Ids, HardDelete(S),
         UNCHANGED <<used, accesses, overlapped>>,
         todo'[p] \subseteq todo[p], pend'[p] \subseteq pend[p],
         op'[p] = op[p] \/ todo'[p] = {}, Idle(p)' => todo'[p] = {}
  PROVE  SerialInv'
<1>1. \A i \in Ids : RowsOf(i)' \subseteq RowsOf(i)
  <2> SUFFICES ASSUME NEW i \in Ids PROVE RowsOf(i)' \subseteq RowsOf(i)
    OBVIOUS
  <2>1. rows'[i] = <<>> \/ rows'[i] = rows[i]
    BY DEF HardDelete
  <2> QED  BY <2>1, SameRowsOf, NoRowsOf
<1>2. RowsExact' /\ UnusedUncounted'
  BY <1>1 DEF SerialInv, RowsExact, UnusedUncounted, OwnText
<1>3. \A m \in todo[p] : Faithful(m)'
  <2> SUFFICES ASSUME NEW m \in todo[p] PROVE Faithful(m)'
    OBVIOUS
  <2>1. m.id \in Ids /\ Faithful(m)
    BY DEF TableInv, TypeInv, HeldInv, Row, SerialInv, HeldFaithful
  <2> QED  BY <1>1, <2>1 DEF Faithful, Exact
<1>4. HeldFaithful(p)'
  BY <1>3 DEF SerialInv, HeldFaithful, Exact, OwnText
<1> QED
  BY <1>2, <1>4, SerialParts DEF SerialInv

\* The first commit of a rewrite of a snapshot m, to n.
LEMMA RewriteSerial ==
  ASSUME TableInv, SerialInv, NEW p \in Procs, Only(p), Only(p)', NEW m \in todo[p], NEW n \in Row,
         RewriteDelete(p, n), n.id = m.id, n.access = m.access, OwnText(n), Drop(p, m),
         UNCHANGED <<used, accesses>>
  PROVE  SerialInv'
<1>0. m.id \in Ids /\ m \in Row
  BY DEF TableInv, TypeInv, HeldInv, Row
<1>1. /\ rows' = [rows EXCEPT ![m.id] = <<>>] /\ pend' = [pend EXCEPT ![p] = {NextVersion(n)}]
      /\ ~\E q \in Procs \ {p} : n.id \in IdsOf(pend[q])
      /\ overlapped' = overlapped /\ n.version < MaxVersion
  BY DEF RewriteDelete, Only, IdsOf
<1>2. /\ NextVersion(n).id = m.id /\ NextVersion(n).access = m.access
      /\ NextVersion(n).vec = n.vec /\ NextVersion(n).content = n.content /\ NextVersion(n).abst = n.abst
  BY DEF NextVersion, Row
<1>3. \A i \in Ids : RowsOf(i)' \subseteq RowsOf(i)
  <2> SUFFICES ASSUME NEW i \in Ids PROVE RowsOf(i)' \subseteq RowsOf(i)
    OBVIOUS
  <2>1. rows'[i] = <<>> \/ rows'[i] = rows[i]
    BY <1>0, <1>1 DEF TableInv, TypeInv, RowsInv
  <2> QED  BY <2>1, SameRowsOf, NoRowsOf
<1>4. RowsExact' /\ UnusedUncounted'
  BY <1>3 DEF SerialInv, RowsExact, UnusedUncounted, OwnText
<1>5. /\ todo'[p] = todo[p] \ {m} /\ pend'[p] = {NextVersion(n)} /\ op'[p] = op[p]
  BY <1>1 DEF Drop, TableInv, TypeInv, HeldInv
<1>6. ASSUME NEW k \in todo'[p] PROVE Faithful(k)' /\ k.id # m.id
  <2>1. k \in todo[p] /\ k.id \in Ids /\ Faithful(k) /\ k.id # m.id
    BY <1>5 DEF TableInv, TypeInv, HeldInv, Row, SerialInv, HeldFaithful
  <2> QED  BY <1>3, <2>1 DEF Faithful, Exact
<1>7. Exact(NextVersion(n))' /\ OwnText(NextVersion(n))
  BY <1>2 DEF SerialInv, HeldFaithful, Faithful, Exact, OwnText
<1>8. HeldFaithful(p)'
  <2>1. \A k \in pend'[p] : Exact(k)' /\ OwnText(k) /\ k.id = m.id
    BY <1>2, <1>5, <1>7 DEF Exact
  <2> QED  BY <1>5, <1>6, <2>1 DEF SerialInv, HeldFaithful, OwnText, Idle
<1> QED
  BY <1>1, <1>4, <1>8, SerialParts DEF SerialInv

\* The second commit of a rewrite.
LEMMA InsertSerial ==
  ASSUME TableInv, SerialInv, NEW p \in Procs, Only(p)', NEW m \in pend[p], RewriteInsert(p, m)
  PROVE  SerialInv'
<1>0. m \in Row /\ m.id \in Ids /\ UNCHANGED <<used, accesses, overlapped>>
  BY DEF TableInv, TypeInv, HeldInv, Row, RewriteInsert, history
<1>1. /\ \A i \in Ids \ {m.id} : RowsOf(i)' = RowsOf(i)
      /\ RowsOf(m.id)' \subseteq RowsOf(m.id) \cup {m}
  BY <1>0, AppendRowsOf DEF RewriteInsert, TableInv
<1>2. m.access = accesses[m.id] /\ OwnText(m)
  BY DEF SerialInv, HeldFaithful, Exact
<1>3. RowsExact' /\ UnusedUncounted'
  BY <1>0, <1>1, <1>2 DEF SerialInv, RowsExact, UnusedUncounted, OwnText
<1>4. /\ pend'[p] = {}
      /\ \/ todo'[p] = todo[p] /\ op'[p] = op[p]
         \/ todo'[p] = {}
  BY DEF RewriteInsert, Done, Become, TableInv, TypeInv, HeldInv
<1>5. ASSUME NEW k \in todo'[p] PROVE Faithful(k)'
  <2>1. k \in todo[p] /\ k.id \in Ids /\ Faithful(k) /\ k.id # m.id
    BY <1>4 DEF TableInv, TypeInv, HeldInv, Row, SerialInv, HeldFaithful
  <2> QED  BY <1>0, <1>1, <2>1 DEF Faithful, Exact
<1>6. HeldFaithful(p)'
  BY <1>4, <1>5 DEF SerialInv, HeldFaithful, OwnText, Idle
<1> QED
  BY <1>0, <1>3, <1>6, SerialParts DEF SerialInv

\* A new memory is stored, and what p holds is kept, but for marks that are
\* no part of the text.
LEMMA StoreSerial ==
  ASSUME TableInv, SerialInv, NEW p \in Procs, Only(p)', NEW i \in Ids \ used, NEW c \in Contents,
         NEW a \in NewAttrs, rows' = [rows EXCEPT ![i] = Append(@, NewRow(i, c, a))],
         used' = used \cup {i}, UNCHANGED <<op, pend, accesses, overlapped>>,
         \/ UNCHANGED todo
         \/ /\ op[p] = "supersede"
            /\ \E m \in todo[p] : todo' = [todo EXCEPT ![p] = {[m EXCEPT !.superseded = TRUE]}]
  PROVE  SerialInv'
<1> DEFINE m == NewRow(i, c, a)
<1>0. /\ m \in Row /\ m.id = i /\ m.access = 0
      /\ m.vec = m.content
  BY NewRowType DEF NewRow
<1>1. /\ \A j \in Ids \ {i} : RowsOf(j)' = RowsOf(j)
      /\ RowsOf(i)' \subseteq RowsOf(i) \cup {m}
  BY <1>0, AppendRowsOf DEF TableInv
<1> HIDE DEF m
<1>2. accesses[i] = 0 /\ UnusedUncounted'
  BY DEF SerialInv, UnusedUncounted
<1>3. RowsExact'
  BY <1>0, <1>1, <1>2 DEF SerialInv, RowsExact, OwnText
<1>4. \A k \in todo[p] : k \in Row /\ k.id \in Ids \ {i} /\ Faithful(k) /\ Faithful(k)'
  <2> SUFFICES ASSUME NEW k \in todo[p]
               PROVE  k \in Row /\ k.id \in Ids \ {i} /\ Faithful(k) /\ Faithful(k)'
    OBVIOUS
  <2>1. k \in Row /\ k.id \in Ids /\ k.id \in used /\ Faithful(k)
    BY DEF TableInv, TypeInv, HeldInv, Row, LifeInv, KnownIds, IdsOf, SerialInv, HeldFaithful
  <2> QED  BY <1>1, <2>1 DEF Faithful, Exact
<1>5. HeldFaithful(p)'
  <2>1. CASE UNCHANGED todo
    BY <1>4, <2>1 DEF SerialInv, HeldFaithful, Exact, OwnText, Idle
  <2>2. ASSUME op[p] = "supersede", NEW k \in todo[p],
               todo' = [todo EXCEPT ![p] = {[k EXCEPT !.superseded = TRUE]}]
        PROVE  HeldFaithful(p)'
    <3> DEFINE n == [k EXCEPT !.superseded = TRUE]
    <3>1. /\ n.id = k.id /\ n.content = k.content /\ n.abst = k.abst /\ n.access = k.access
          /\ todo'[p] = {n} /\ op'[p] = "supersede"
      BY <1>4, <2>2 DEF Row, TableInv, TypeInv, HeldInv
    <3> HIDE DEF n
    <3>2. Faithful(n)'
      BY <1>4, <3>1 DEF Faithful, Exact
    <3>3. pend'[p] = {}
      BY <2>2, NothingPending DEF TableInv, RewriterOps
    <3> QED  BY <3>1, <3>2, <3>3 DEF HeldFaithful, Idle
  <2> QED  BY <2>1, <2>2
<1> QED
  BY <1>2, <1>3, <1>5, SerialParts DEF SerialInv

\* Accesses are counted in place while nobody holds a copy.
LEMMA BumpSerial ==
  ASSUME TableInv, SerialInv, NEW p \in Procs, Only(p)', NEW S \in SUBSET Ids, Bump(p, S)
  PROVE  SerialInv'
<1> DEFINE upd(i) == [k \in DOMAIN rows[i] |-> [rows[i][k] EXCEPT !.access = @ + 1]]
<1>1. /\ rows' = [i \in Ids |-> IF i \in S THEN upd(i) ELSE rows[i]]
      /\ accesses' = [i \in Ids |-> IF i \in S THEN accesses[i] + 1 ELSE accesses[i]]
      /\ S \subseteq used /\ Idle(p) /\ UNCHANGED <<op, todo, pend, used, overlapped>>
  BY DEF Bump, procVars
<1>2. todo'[p] = {} /\ pend'[p] = {}
  BY <1>1, NothingPending DEF SerialInv, HeldFaithful, TableInv, Idle, RewriterOps
<1>3. UnusedUncounted'
  BY <1>1 DEF SerialInv, UnusedUncounted
<1>4. ASSUME NEW i \in Ids, NEW r \in RowsOf(i)'
      PROVE  r.access = accesses'[i] /\ r.vec \in {r.content, r.abst}
  <2>1. CASE i \notin S
    <3>1. RowsOf(i)' = RowsOf(i) /\ accesses'[i] = accesses[i]
      BY <1>1, <2>1, SameRowsOf
    <3> QED  BY <3>1 DEF SerialInv, RowsExact, OwnText
  <2>2. CASE i \in S
    <3>1. rows'[i] = upd(i) /\ accesses'[i] = accesses[i] + 1
      BY <1>1, <2>2
    <3>2. PICK k \in DOMAIN rows[i] : r = [rows[i][k] EXCEPT !.access = @ + 1]
      BY <3>1 DEF RowsOf
    <3>3. rows[i][k] \in RowsOf(i) /\ rows[i][k] \in Row
      BY RowsOfType DEF RowsOf, TableInv, TypeInv
    <3>4. rows[i][k].access = accesses[i] /\ rows[i][k].vec \in {rows[i][k].content, rows[i][k].abst}
      BY <3>3 DEF SerialInv, RowsExact, OwnText
    <3> QED  BY <3>1, <3>2, <3>3, <3>4 DEF Row
  <2> QED  BY <2>1, <2>2
<1>5. RowsExact' /\ HeldFaithful(p)'
  BY <1>2, <1>4 DEF RowsExact, OwnText, HeldFaithful
<1> QED
  BY <1>1, <1>3, <1>5, SerialParts DEF SerialInv

\* A column is filled in while nobody holds a copy.
LEMMA BackfillSerial ==
  ASSUME TableInv, SerialInv, NEW p \in Procs, Only(p)', Backfill(p)
  PROVE  SerialInv'
<1>1. /\ rows' = [i \in Ids |-> [k \in DOMAIN rows[i] |->
                IF rows[i][k].private THEN rows[i][k]
                ELSE [rows[i][k] EXCEPT !.project = TRUE]]]
      /\ Idle(p) /\ UNCHANGED <<op, todo, pend, used, accesses, overlapped>>
  BY DEF Backfill, procVars, history
<1>2. todo'[p] = {} /\ pend'[p] = {}
  BY <1>1, NothingPending DEF SerialInv, HeldFaithful, TableInv, Idle, RewriterOps
<1>3. UnusedUncounted'
  BY <1>1 DEF SerialInv, UnusedUncounted
<1>4. ASSUME NEW i \in Ids, NEW r \in RowsOf(i)'
      PROVE  r.access = accesses'[i] /\ r.vec \in {r.content, r.abst}
  <2>1. PICK k \in DOMAIN rows[i] : r \in {rows[i][k], [rows[i][k] EXCEPT !.project = TRUE]}
    BY <1>1 DEF RowsOf
  <2>2. rows[i][k] \in RowsOf(i) /\ rows[i][k] \in Row
    BY RowsOfType DEF RowsOf, TableInv, TypeInv
  <2>3. rows[i][k].access = accesses[i] /\ rows[i][k].vec \in {rows[i][k].content, rows[i][k].abst}
    BY <2>2 DEF SerialInv, RowsExact, OwnText
  <2> QED  BY <1>1, <2>1, <2>2, <2>3 DEF Row
<1>5. RowsExact' /\ HeldFaithful(p)'
  BY <1>2, <1>4 DEF RowsExact, OwnText, HeldFaithful
<1> QED
  BY <1>1, <1>3, <1>5, SerialParts DEF SerialInv

\* The second query of a rewrite of the history: the embedding is of the row.
LEMMA HistorySerial ==
  ASSUME TableInv, SerialInv, NEW p \in Procs, Only(p)', NEW m \in todo[p], HistoryVector(p, m)
  PROVE  SerialInv'
<1>0. /\ m \in Row /\ m.id \in Ids /\ Faithful(m)
      /\ UNCHANGED <<rows, pend, used, accesses, overlapped>> /\ op[p] = "history"
  BY DEF HistoryVector, history, TableInv, TypeInv, HeldInv, Row, SerialInv, HeldFaithful
<1>1. RowsExact' /\ UnusedUncounted'
  BY <1>0 DEF SerialInv, RowsExact, RowsOf, UnusedUncounted, OwnText
<1>2. pend'[p] = {}
  BY <1>0, NothingPending DEF TableInv, RewriterOps
<1>3. HeldFaithful(p)'
  <2>1. ASSUME NEW r \in RowsOf(m.id), Become(p, "historyVector", {[m EXCEPT !.vec = r.vec]})
        PROVE  HeldFaithful(p)'
    <3> DEFINE n == [m EXCEPT !.vec = r.vec]
    <3>1. /\ n.id = m.id /\ n.content = m.content /\ n.abst = m.abst /\ n.access = m.access
          /\ n.vec = r.vec /\ todo'[p] = {n} /\ op'[p] = "historyVector"
      BY <1>0, <2>1 DEF Row, Become, TableInv, TypeInv, HeldInv
    <3> HIDE DEF n
    <3>2. OwnText(n)
      BY <1>0, <2>1, <3>1 DEF OwnText, SerialInv, RowsExact, Faithful
    <3>3. Faithful(n)'
      BY <1>0, <3>1 DEF Faithful, Exact, RowsOf
    <3> QED  BY <1>2, <3>1, <3>2, <3>3 DEF HeldFaithful, Idle, OwnText
  <2>2. CASE Become(p, "historyNone", {m})
    <3>1. todo'[p] = {m} /\ op'[p] = "historyNone"
      BY <2>2 DEF Become, TableInv, TypeInv, HeldInv
    <3>2. Faithful(m)'
      BY <1>0 DEF Faithful, Exact, RowsOf
    <3> QED  BY <1>2, <3>1, <3>2 DEF HeldFaithful, Idle
  <2> QED  BY <2>1, <2>2 DEF HistoryVector
<1> QED
  BY <1>0, <1>1, <1>3, SerialParts DEF SerialInv

-----------------------------------------------------------------------------
(* Every step. *)

\* Reads keep the invariant.
LEMMA ReadStepSerial ==
  ASSUME TableInv, SerialInv, NEW p \in Procs, ReadStep(p), Alone
  PROVE  SerialInv'
<1>0. By(p) /\ Idle(p) /\ UNCHANGED <<rows, pend, used, accesses, overlapped>>
  BY DEF ReadStep, ReadOne, ReadGiven, ReadAll, By, Become, history, TableInv, TypeInv, HeldInv
<1>1. pend[p] = {} /\ Only(p)'
  BY <1>0, OnlyStep, NothingPending DEF TableInv, Idle, RewriterOps
<1>2. ASSUME NEW o \in RequestOps \cup TaskOps, NEW m \in AllRows, ReadOne(p, o, m)
      PROVE  SerialInv'
  <2>1. o \in HandlerOps /\ o # "historyVector" /\ {m} \subseteq AllRows /\ Become(p, o, {m})
    BY <1>2 DEF ReadOne, HandlerOps
  <2> QED  BY <1>0, <1>1, <2>1, ReadSerial
<1>3. ASSUME NEW o \in {"hide", "publish"}, NEW S \in SUBSET Ids, ReadGiven(p, o, S)
      PROVE  SerialInv'
  <2> DEFINE R == UNION {RowsOf(i) : i \in S}
  <2>1. o \in HandlerOps /\ o # "historyVector" /\ R \subseteq AllRows /\ Become(p, o, R)
    BY <1>3 DEF ReadGiven, HandlerOps, RequestOps, AllRows
  <2> HIDE DEF R
  <2> QED  BY <1>0, <1>1, <2>1, ReadSerial
<1>4. ASSUME NEW o \in TaskOps \cup SweepOps, ReadAll(p, o)
      PROVE  SerialInv'
  <2>1. PICK R \in SUBSET AllRows : Become(p, o, R)
    BY <1>4 DEF ReadAll
  <2>2. o \in HandlerOps /\ o # "historyVector"
    BY DEF HandlerOps, TaskOps, SweepOps
  <2> QED  BY <1>0, <1>1, <2>1, <2>2, ReadSerial
<1> QED
  BY <1>2, <1>3, <1>4 DEF ReadStep

\* So do the handlers of a single commit,
LEMMA InstantStepSerial ==
  ASSUME TableInv, SerialInv, NEW p \in Procs, InstantStep(p), Alone
  PROVE  SerialInv'
<1>0. By(p) /\ Idle(p) /\ UNCHANGED <<op, todo, pend, overlapped>>
  BY DEF InstantStep, Create, Bump, Purge, Backfill, By, procVars, history
<1>1. Only(p)' /\ todo[p] = {}
  BY <1>0, OnlyStep DEF TableInv, SerialInv, HeldFaithful
<1>2. ASSUME NEW i \in Ids, NEW c \in Contents, NEW a \in NewAttrs, Create(p, i, c, a)
      PROVE  SerialInv'
  BY <1>0, <1>1, <1>2, StoreSerial DEF Create
<1>3. ASSUME NEW S \in SUBSET Ids, Purge(p, S)
      PROVE  SerialInv'
  BY <1>0, <1>1, <1>3, DeleteSerial DEF Purge
<1> QED
  BY <1>1, <1>2, <1>3, BumpSerial, BackfillSerial DEF InstantStep

\* A write after a read is one process's step.
LEMMA WriteStepBy ==
  ASSUME TableInv, NEW p \in Procs, NEW m \in todo[p], WriteStep(p, m)
  PROVE  By(p)
BY DEF WriteStep, GetWrite, UpdateScalar, UpdateRewrite, HistoryVector, HistoryRewrite, HistoryScalar,
   DeleteWrite, VisibilityWrite, ReembedRewrite, SupersedeCreate, SupersedeMark, TierWrite, Expire,
   ArchiveWrite, StaleDelete, SweepSkip, By, Done, Become, Drop, RewriteDelete, TableInv, TypeInv, HeldInv

\* So do the writes after a read,
LEMMA WriteStepSerial ==
  ASSUME TableInv, SerialInv, NEW p \in Procs, NEW m \in todo[p], WriteStep(p, m), Alone
  PROVE  SerialInv'
<1>1. Only(p) /\ Only(p)'
  BY WriteStepBy, OnlyStep DEF TableInv
<1>2. /\ m \in Row /\ m.id \in Ids /\ m.access = accesses[m.id] /\ accesses[m.id] \in 0 .. MaxAccess
      /\ op[p] = "historyVector" => OwnText(m)
  BY HeldType DEF TableInv, TypeInv, SerialInv, HeldFaithful, Faithful, Exact
\* A scalar write that counts nothing.
<1>3. ASSUME NEW n \in Row, ScalarUpdate(n), n.id = m.id, n.content = m.content, n.abst = m.abst,
             n.access = m.access, Drop(p, m) \/ Done(p), UNCHANGED <<pend, history>>
      PROVE  SerialInv'
  <2>1. n.access = accesses'[m.id] /\ UNCHANGED <<pend, used, accesses, overlapped>>
    BY <1>2, <1>3 DEF history
  <2> QED  BY <1>1, <1>3, <2>1, ScalarSerial
\* A hard delete of the snapshot's id.
<1>4. ASSUME HardDelete({m.id}), Drop(p, m) \/ Done(p), UNCHANGED <<pend, used, accesses, torn, overlapped>>
      PROVE  SerialInv'
  <2>1. /\ todo'[p] \subseteq todo[p] /\ pend'[p] \subseteq pend[p]
        /\ op'[p] = op[p] \/ todo'[p] = {}
        /\ Idle(p)' => todo'[p] = {}
    BY <1>4 DEF Drop, Done, Become, Idle, SerialInv, HeldFaithful, TableInv, TypeInv, HeldInv
  <2>2. {m.id} \in SUBSET Ids
    BY <1>2
  <2> QED  BY <1>1, <1>4, <2>1, <2>2, DeleteSerial
\* The first commit of a rewrite.
<1>5. ASSUME NEW n \in Row, RewriteDelete(p, n), n.id = m.id, n.access = m.access, OwnText(n), Drop(p, m),
             UNCHANGED <<used, accesses, deleted, gone, torn>>
      PROVE  SerialInv'
  BY <1>1, <1>5, RewriteSerial
<1>6. CASE GetWrite(p, m)
  <2>1. PICK t \in EvaluateTier([m EXCEPT !.access = @ + 1]) :
          ScalarUpdate([[m EXCEPT !.access = @ + 1] EXCEPT !.tier = t])
    BY <1>6 DEF GetWrite
  <2> DEFINE counted == [m EXCEPT !.access = @ + 1]
             n == [counted EXCEPT !.tier = t]
  <2>2. accesses[m.id] < MaxAccess /\ accesses' = [accesses EXCEPT ![m.id] = @ + 1]
        /\ Done(p) /\ UNCHANGED <<pend, used, overlapped>> /\ op[p] = "get"
    BY <1>6 DEF GetWrite
  <2>3. counted \in Row
    BY <1>2, <2>2, TableAssumption DEF Row
  <2>4. t \in Tiers
    BY <2>3, TierOfRow
  <2>5. n \in Row /\ n.id = m.id /\ n.content = m.content /\ n.abst = m.abst /\ n.access = m.access + 1
    BY <1>2, <2>3, <2>4 DEF Row
  <2>6. ScalarUpdate(n)
    BY <2>1
  <2> HIDE DEF n
  <2>7. accesses'[m.id] = accesses[m.id] + 1 /\ \A i \in Ids \ {m.id} : accesses'[i] = accesses[i]
    BY <1>2, <2>2 DEF TableInv, TypeInv, HistoryInv
  <2>8. pend[p] = {}
    BY <2>2, NothingPending DEF TableInv, RewriterOps
  <2>9. n.access = accesses'[m.id]
    BY <1>2, <2>5, <2>7
  <2> QED  BY <1>1, <2>2, <2>5, <2>6, <2>7, <2>8, <2>9, ScalarSerial
<1>7. CASE UpdateScalar(p, m)
  <2>1. PICK n \in Requested(m) : ScalarUpdate(n)
    BY <1>7 DEF UpdateScalar
  <2>2. n \in Row /\ n.id = m.id /\ n.content = m.content /\ n.abst = m.abst /\ n.access = m.access
    BY <1>2, RequestedRow
  <2> QED  BY <1>3, <1>7, <2>1, <2>2 DEF UpdateScalar
<1>8. ASSUME NEW c \in Contents, UpdateRewrite(p, m, c)
      PROVE  SerialInv'
  <2>1. PICK w \in Requested(m) : RewriteDelete(p, [w EXCEPT !.content = c, !.vec = c])
    BY <1>8 DEF UpdateRewrite
  <2> DEFINE n == [w EXCEPT !.content = c, !.vec = c]
  <2>2. w \in Row /\ w.id = m.id /\ w.access = m.access
    BY <1>2, RequestedRow
  <2>3. n \in Row /\ n.id = m.id /\ n.access = m.access /\ OwnText(n)
    BY <2>2 DEF Row, OwnText
  <2>4. RewriteDelete(p, n) /\ Drop(p, m) /\ UNCHANGED <<used, accesses, deleted, gone, torn>>
    BY <1>8, <2>1 DEF UpdateRewrite
  <2> HIDE DEF n
  <2> QED  BY <1>5, <2>3, <2>4
<1>9. CASE HistoryRewrite(p, m)
  BY <1>2, <1>5, <1>9 DEF HistoryRewrite
<1>10. CASE HistoryScalar(p, m)
  BY <1>2, <1>3, <1>10 DEF HistoryScalar
<1>11. CASE DeleteWrite(p, m)
  BY <1>4, <1>11 DEF DeleteWrite
<1>12. CASE VisibilityWrite(p, m)
  <2> DEFINE n == [m EXCEPT !.private = (op[p] = "hide")]
  <2>1. n \in Row /\ n.id = m.id /\ n.content = m.content /\ n.abst = m.abst /\ n.access = m.access
    BY <1>2 DEF Row
  <2>2. ScalarUpdate(n) /\ Drop(p, m) /\ UNCHANGED <<pend, history>>
    BY <1>12 DEF VisibilityWrite
  <2> HIDE DEF n
  <2> QED  BY <1>3, <2>1, <2>2
<1>13. CASE ReembedRewrite(p, m)
  <2> DEFINE n == [m EXCEPT !.vec = IF m.abst # "none" THEN m.abst ELSE m.content]
  <2>1. n \in Row /\ n.id = m.id /\ n.access = m.access /\ OwnText(n)
    BY <1>2 DEF Row, OwnText
  <2>2. RewriteDelete(p, n) /\ Drop(p, m) /\ UNCHANGED <<used, accesses, deleted, gone, torn>>
    BY <1>13 DEF ReembedRewrite
  <2> HIDE DEF n
  <2> QED  BY <1>5, <2>1, <2>2
<1>14. ASSUME NEW i \in Ids, NEW c \in Contents, NEW a \in FactAttrs, SupersedeCreate(p, m, i, c, a)
       PROVE  SerialInv'
  BY <1>1, <1>14, StoreSerial DEF SupersedeCreate, FactAttrs
<1>15. CASE SupersedeMark(p, m)
  BY <1>2, <1>3, <1>15 DEF SupersedeMark
<1>16. CASE TierWrite(p, m)
  <2>1. PICK t \in EvaluateTier(m) : ScalarUpdate([m EXCEPT !.tier = t])
    BY <1>16 DEF TierWrite
  <2> DEFINE n == [m EXCEPT !.tier = t]
  <2>2. n \in Row /\ n.id = m.id /\ n.content = m.content /\ n.abst = m.abst /\ n.access = m.access
    BY <1>2, TierOfRow DEF Row
  <2>3. ScalarUpdate(n) /\ Drop(p, m) /\ UNCHANGED <<pend, history>>
    BY <1>16, <2>1 DEF TierWrite
  <2> HIDE DEF n
  <2> QED  BY <1>3, <2>2, <2>3
<1>17. CASE Expire(p, m)
  BY <1>4, <1>17 DEF Expire
<1>18. CASE ArchiveWrite(p, m)
  <2> DEFINE n == [m EXCEPT !.active = FALSE]
  <2>1. n \in Row /\ n.id = m.id /\ n.content = m.content /\ n.abst = m.abst /\ n.access = m.access
    BY <1>2 DEF Row
  <2>2. ScalarUpdate(n) /\ Drop(p, m) /\ UNCHANGED <<pend, history>>
    BY <1>18 DEF ArchiveWrite
  <2> HIDE DEF n
  <2> QED  BY <1>3, <2>1, <2>2
<1>19. CASE StaleDelete(p, m)
  BY <1>4, <1>19 DEF StaleDelete
<1>20. CASE SweepSkip(p, m)
  <2>1. /\ todo'[p] \subseteq todo[p] /\ op'[p] = op[p] /\ op[p] # "idle" /\ pend' = pend
        /\ UNCHANGED <<rows, used, accesses, overlapped>>
    BY <1>20 DEF SweepSkip, Drop, SweepOps, history, TableInv, TypeInv, HeldInv
  <2> QED  BY <1>1, <2>1, KeepSerial DEF Idle
<1> QED
  BY <1>1, <1>6, <1>7, <1>8, <1>9, <1>10, <1>11, <1>12, <1>13, <1>14, <1>15, <1>16, <1>17, <1>18,
     <1>19, <1>20, HistorySerial DEF WriteStep

\* and every step.
LEMMA NextSerial ==
  ASSUME TableInv, SerialInv, Next, Alone
  PROVE  SerialInv'
<1>1. ASSUME NEW p \in Procs, Finish(p) \/ StopSweep(p) \/ Abandon(p) \/ ReembedAddFails(p)
      PROVE  SerialInv'
  <2>1. /\ By(p) /\ todo'[p] \subseteq todo[p] /\ pend'[p] \subseteq pend[p]
        /\ op'[p] = op[p] \/ todo'[p] = {}
        /\ Idle(p)' => todo'[p] = {}
        /\ UNCHANGED <<rows, used, accesses, overlapped>>
    BY <1>1 DEF Finish, StopSweep, Abandon, ReembedAddFails, Done, Become, By, Idle, history,
       TableInv, TypeInv, HeldInv
  <2> QED  BY <2>1, OnlyStep, KeepSerial DEF TableInv
<1>2. ASSUME NEW p \in Procs, NextPhase(p)
      PROVE  SerialInv'
  <2>1. /\ By(p) /\ UNCHANGED <<rows, pend, used, accesses, overlapped>>
        /\ Become(p, After[op[p]], AllRows)
        /\ After[op[p]] \in {"expire", "archive", "stale"} /\ op[p] \notin RewriterOps
    BY <1>2 DEF NextPhase, After, Become, By, RewriterOps, history, TableInv, TypeInv, HeldInv
  <2>2. After[op[p]] \in HandlerOps /\ After[op[p]] # "historyVector" /\ pend[p] = {}
    BY <2>1, NothingPending DEF HandlerOps, SweepOps, TableInv
  <2>3. Only(p)' /\ AllRows \subseteq AllRows
    BY <2>1, OnlyStep DEF TableInv
  <2> QED  BY <2>1, <2>2, <2>3, ReadSerial
<1>3. ASSUME NEW p \in Procs, NEW m \in pend[p], RewriteInsert(p, m)
      PROVE  SerialInv'
  <2>1. By(p)
    BY <1>3 DEF RewriteInsert, By, Done, Become, TableInv, TypeInv, HeldInv
  <2> QED  BY <1>3, <2>1, OnlyStep, InsertSerial DEF TableInv
<1>4. CASE Crash
  <2>1. /\ \A p \in Procs : op'[p] = "idle" /\ todo'[p] = {} /\ pend'[p] = {}
        /\ UNCHANGED <<rows, used, accesses, overlapped>>
    BY <1>4 DEF Crash
  <2>2. RowsExact' /\ UnusedUncounted'
    BY <2>1 DEF SerialInv, RowsExact, RowsOf, UnusedUncounted, OwnText
  <2> QED  BY <2>1, <2>2 DEF SerialInv, OneBusy, HeldFaithful, Idle
<1> QED
  BY <1>1, <1>2, <1>3, <1>4, ReadStepSerial, InstantStepSerial, WriteStepSerial DEF Next

\* In the beginning nothing is stored, counted or held.
LEMMA NoStart == Init => \A i \in Ids : RowsOf(i) = {}
<1> SUFFICES ASSUME Init, NEW i \in Ids PROVE RowsOf(i) = {}
  OBVIOUS
<1>1. rows[i] = <<>>
  BY DEF Init
<1>2. DOMAIN <<>> = {}
  OBVIOUS
<1> QED  BY <1>1, <1>2 DEF RowsOf

LEMMA SerialStart == MCInit => TableInv /\ SerialInv
<1> SUFFICES ASSUME MCInit PROVE TableInv /\ SerialInv
  OBVIOUS
<1>1. TableInv
  BY InitTypeInv, InitLifeInv DEF MCInit, TableInv
<1>2. SerialInv
  BY NoStart DEF MCInit, Init, SerialInv, OneBusy, UnusedUncounted, RowsExact, HeldFaithful, Idle
<1> QED  BY <1>1, <1>2

\* When handlers run one at a time, in whatever order and wherever one is cut
\* off, a row counts every access of its memory, and its embedding is of its
\* own content or abstract.
THEOREM SerialIsExact == ModeSpec => []SerialExact
<1> DEFINE Inv == TableInv /\ (mode = "serial" => SerialInv)
<1>1. MCInit => Inv
  BY SerialStart
<1>2. Inv /\ [ModeNext]_<<vars, mode>> => Inv'
  <2> SUFFICES ASSUME Inv, [ModeNext]_<<vars, mode>> PROVE Inv'
    OBVIOUS
  <2>1. [Next]_vars /\ mode' = mode
    BY DEF ModeNext
  <2>2. TableInv'
    BY <2>1, NextTypeInv, NextHeldShape, NextLifeInv DEF TableInv
  <2>3. ASSUME mode = "serial" PROVE SerialInv'
    <3>1. CASE ModeNext
      BY <2>3, <3>1, NextSerial DEF ModeNext
    <3>2. CASE UNCHANGED <<vars, mode>>
      BY <2>3, <3>2 DEF vars, procVars, history, SerialInv, OneBusy, UnusedUncounted, RowsExact, RowsOf,
         OwnText, HeldFaithful, Faithful, Exact, Idle
    <3> QED  BY <3>1, <3>2
  <2> QED  BY <2>1, <2>2, <2>3
<1>3. Inv => SerialExact
  <2> SUFFICES ASSUME Inv, mode = "serial", NEW i \in Ids, NEW k \in DOMAIN rows[i]
               PROVE  rows[i][k].access = accesses[i] /\ rows[i][k].vec \in {rows[i][k].content, rows[i][k].abst}
    BY DEF SerialExact, SerialRowsExact
  <2> QED  BY DEF SerialInv, RowsExact, RowsOf, OwnText
<1> QED
  BY <1>1, <1>2, <1>3, PTL DEF ModeSpec

-----------------------------------------------------------------------------
(* The table implements a register for each memory while handlers run one  *)
(* at a time (MCMemoryTable, Register).                                    *)

\* A copy is the row that is stored; handle_supersede marks its own.
Current(p) ==
  \A m \in todo[p] : \E r \in RowsOf(m.id) :
    r = m \/ (op[p] = "supersede" /\ r = [m EXCEPT !.superseded = FALSE])

\* The memory i becomes w, and no other memory changes.
Becomes(i, w) == Cell(i)' = {w} /\ \A j \in Ids \ {i} : Cell(j)' = Cell(j)

AbstractNext == Register!Next
AbstractSame == UNCHANGED <<Memory, Born, Asked>>

Serial == mode = "serial" /\ mode' = mode

\* Nothing pending: the memories are the rows.
LEMMA CellRows ==
  ASSUME NEW p \in Procs, Only(p), pend[p] = {}
  PROVE  \A i : Cell(i) = RowsOf(i)
BY DEF Cell, Pending, Only

LEMMA CellRowsNext ==
  ASSUME NEW p \in Procs, Only(p)', pend'[p] = {}
  PROVE  \A i : Cell(i)' = RowsOf(i)'
BY DEF Cell, Pending, Only

\* One row is pending: it is the memory of its id, or one of two.
LEMMA CellPending ==
  ASSUME NEW p \in Procs, Only(p), NEW m, pend[p] = {m}
  PROVE  /\ Cell(m.id) = RowsOf(m.id) \cup {m}
         /\ \A i : i # m.id => Cell(i) = RowsOf(i)
BY DEF Cell, Pending, Only

LEMMA CellPendingNext ==
  ASSUME NEW p \in Procs, Only(p)', NEW m, pend'[p] = {m}
  PROVE  /\ Cell(m.id)' = RowsOf(m.id)' \cup {m}
         /\ \A i : i # m.id => Cell(i)' = RowsOf(i)'
BY DEF Cell, Pending, Only

\* What p keeps is current if its rows are as before.
LEMMA CurrentKept ==
  ASSUME NEW p \in Procs, Current(p), todo'[p] \subseteq todo[p],
         op'[p] = op[p] \/ todo'[p] = {},
         \A k \in todo'[p] : RowsOf(k.id)' = RowsOf(k.id)
  PROVE  Current(p)'
BY DEF Current

\* What p has just read is current.
LEMMA CurrentRead ==
  ASSUME TableInv, NEW p \in Procs, UNCHANGED rows, NEW o, NEW S \in SUBSET AllRows, Become(p, o, S)
  PROVE  Current(p)'
<1>1. todo'[p] = S
  BY DEF Become, TableInv, TypeInv, HeldInv
<1>2. \A m \in S : m \in RowsOf(m.id)
  BY RowsOfType DEF AllRows, TableInv, TypeInv
<1>3. \A i : RowsOf(i)' = RowsOf(i)
  BY DEF RowsOf
<1> QED  BY <1>1, <1>2, <1>3 DEF Current

\* The row of a copy that is current, but for the copy of a supersession.
LEMMA CurrentRow ==
  ASSUME NEW p \in Procs, Current(p), op[p] # "supersede", NEW m \in todo[p]
  PROVE  m \in RowsOf(m.id)
BY DEF Current

\* Other copies are of other memories.
LEMMA OtherCopies ==
  ASSUME TableInv, SerialInv, NEW p \in Procs, NEW m \in todo[p], NEW k \in todo[p] \ {m}
  PROVE  k.id # m.id /\ k.id \in Ids
BY DEF SerialInv, HeldFaithful, TableInv, TypeInv, HeldInv, Row

-----------------------------------------------------------------------------
(* What each commit does to the memories. *)

\* The only row of an id.
LEMMA TheRow ==
  ASSUME TableInv, SerialInv, NEW i \in Ids, NEW v \in RowsOf(i)
  PROVE  rows[i] = <<v>> /\ RowsOf(i) = {v}
<1>1. rows[i] \in Seq(Row) /\ Len(rows[i]) <= 1
  BY DEF TableInv, TypeInv, RowsInv, LifeInv, OneCopy, SerialInv
<1>2. PICK k \in DOMAIN rows[i] : v = rows[i][k]
  BY DEF RowsOf
<1>3. Len(rows[i]) = 1 /\ k = 1
  <2> DEFINE n == Len(rows[i])
  <2>1. DOMAIN rows[i] = 1 .. n /\ n \in Nat /\ n <= 1
    BY <1>1
  <2> HIDE DEF n
  <2>2. k \in 1 .. n
    BY <2>1
  <2>3. n = 1 /\ k = 1
    BY <2>1, <2>2
  <2> QED  BY <2>3 DEF n
<1>4. rows[i] = <<v>>
  BY <1>1, <1>2, <1>3
<1>5. RowsOf(i) = {v}
  BY OneRow DEF TableInv
<1> QED  BY <1>4, <1>5

\* A scalar update of the memory as it is changes it to the copy.
LEMMA ScalarMemory ==
  ASSUME TableInv, SerialInv, NEW p \in Procs, Only(p), Only(p)', Current(p), NEW m \in todo[p],
         NEW v \in RowsOf(m.id), NEW n \in Row, n.id = m.id, n.vec = v.vec, ScalarUpdate(n),
         Drop(p, m) \/ Done(p), pend[p] = {}, UNCHANGED pend
  PROVE  Current(p)' /\ Becomes(m.id, NextVersion(n))
<1>0. m.id \in Ids
  BY DEF TableInv, TypeInv, HeldInv, Row
<1>1. rows[m.id] = <<v>>
  BY <1>0, TheRow
<1>2. n.version < MaxVersion /\ rows' = [rows EXCEPT ![m.id] =
        [k \in DOMAIN rows[m.id] |-> [NextVersion(n) EXCEPT !.vec = rows[m.id][k].vec]]]
  BY DEF ScalarUpdate
<1>3. \A i \in Ids \ {m.id} : rows'[i] = rows[i]
  BY <1>0, <1>2 DEF TableInv, TypeInv, RowsInv
<1>4. [NextVersion(n) EXCEPT !.vec = v.vec] = NextVersion(n)
  BY DEF NextVersion, Row
<1>5. rows'[m.id] = [k \in DOMAIN <<v>> |-> NextVersion(n)]
  BY <1>0, <1>1, <1>2, <1>4 DEF TableInv, TypeInv, RowsInv
<1>6. DOMAIN rows'[m.id] = {1} /\ rows'[m.id][1] = NextVersion(n)
  BY <1>5
<1>7. RowsOf(m.id)' = {NextVersion(n)}
  BY <1>6 DEF RowsOf
<1>8. \A i \in Ids \ {m.id} : RowsOf(i)' = RowsOf(i)
  BY <1>3, SameRowsOf
<1>9. Becomes(m.id, NextVersion(n))
  BY <1>7, <1>8, CellRows, CellRowsNext DEF Becomes
<1>10. /\ todo'[p] \subseteq todo[p] \ {m}
       /\ op'[p] = op[p] \/ todo'[p] = {}
  BY DEF Drop, Done, Become, TableInv, TypeInv, HeldInv
<1>11. \A k \in todo'[p] : RowsOf(k.id)' = RowsOf(k.id)
  BY <1>8, <1>10, OtherCopies
<1> QED  BY <1>9, <1>10, <1>11, CurrentKept

\* The first commit of a rewrite changes the memory already.
LEMMA RewriteMemory ==
  ASSUME TableInv, SerialInv, NEW p \in Procs, Only(p), Only(p)', Current(p), NEW m \in todo[p],
         NEW n \in Row, n.id = m.id, RewriteDelete(p, n), Drop(p, m)
  PROVE  Current(p)' /\ Becomes(m.id, NextVersion(n))
<1>0. m.id \in Ids /\ NextVersion(n).id = m.id
  BY DEF TableInv, TypeInv, HeldInv, Row, NextVersion
<1>1. /\ rows' = [rows EXCEPT ![m.id] = <<>>] /\ pend[p] = {}
      /\ pend' = [pend EXCEPT ![p] = {NextVersion(n)}]
  BY DEF RewriteDelete
<1>2. rows'[m.id] = <<>> /\ \A i \in Ids \ {m.id} : rows'[i] = rows[i]
  BY <1>0, <1>1 DEF TableInv, TypeInv, RowsInv
<1>3. RowsOf(m.id)' = {} /\ \A i \in Ids \ {m.id} : RowsOf(i)' = RowsOf(i)
  BY <1>2, NoRowsOf, SameRowsOf
<1>4. pend'[p] = {NextVersion(n)}
  BY <1>1 DEF TableInv, TypeInv, HeldInv
<1>5. Becomes(m.id, NextVersion(n))
  BY <1>0, <1>1, <1>3, <1>4, CellRows, CellPendingNext DEF Becomes
<1>6. todo'[p] \subseteq todo[p] \ {m} /\ op'[p] = op[p]
  BY DEF Drop, TableInv, TypeInv, HeldInv
<1>7. \A k \in todo'[p] : RowsOf(k.id)' = RowsOf(k.id)
  BY <1>3, <1>6, OtherCopies
<1> QED  BY <1>5, <1>6, <1>7, CurrentKept

\* The second one changes nothing.
LEMMA InsertMemory ==
  ASSUME TableInv, SerialInv, NEW p \in Procs, Only(p), Only(p)', Current(p), NEW m \in pend[p],
         RewriteInsert(p, m)
  PROVE  Current(p)' /\ \A i \in Ids : Cell(i)' = Cell(i)
<1>0. m \in Row /\ m.id \in Ids /\ pend[p] = {m}
  BY DEF TableInv, TypeInv, HeldInv, Row, HeldShape
<1>1. rows[m.id] = <<>>
  BY <1>0 DEF TableInv, LifeInv, OneCopy, SerialInv, PendingIds, IdsOf, Present
<1>2. rows' = [rows EXCEPT ![m.id] = Append(rows[m.id], m)] /\ pend' = [pend EXCEPT ![p] = {}]
  BY DEF RewriteInsert
<1>3. rows'[m.id] = <<m>> /\ \A i \in Ids \ {m.id} : rows'[i] = rows[i]
  BY <1>0, <1>1, <1>2 DEF TableInv, TypeInv, RowsInv
<1>4. RowsOf(m.id)' = {m}
  <2>1. DOMAIN rows'[m.id] = {1} /\ rows'[m.id][1] = m
    BY <1>3
  <2> QED  BY <2>1 DEF RowsOf
<1>5. RowsOf(m.id) = {}
  <2>1. DOMAIN rows[m.id] = {}
    BY <1>1
  <2> QED  BY <2>1 DEF RowsOf
<1>6. \A i \in Ids \ {m.id} : RowsOf(i)' = RowsOf(i)
  BY <1>3, SameRowsOf
<1>7. pend'[p] = {}
  BY <1>2 DEF TableInv, TypeInv, HeldInv
<1>8. \A i \in Ids : Cell(i)' = Cell(i)
  BY <1>0, <1>4, <1>5, <1>6, <1>7, CellPending, CellRowsNext
<1>9. todo'[p] \subseteq todo[p] /\ (op'[p] = op[p] \/ todo'[p] = {})
  BY DEF RewriteInsert, Done, Become, TableInv, TypeInv, HeldInv
<1>10. \A k \in todo'[p] : RowsOf(k.id)' = RowsOf(k.id)
  <2> SUFFICES ASSUME NEW k \in todo'[p]  PROVE RowsOf(k.id)' = RowsOf(k.id)
    OBVIOUS
  <2>1. k.id \in Ids /\ k.id # m.id
    BY <1>9 DEF SerialInv, HeldFaithful, TableInv, TypeInv, HeldInv, Row
  <2> QED  BY <1>6, <2>1
<1> QED  BY <1>8, <1>9, <1>10, CurrentKept

\* A hard delete removes the memories.
LEMMA DeleteMemory ==
  ASSUME TableInv, SerialInv, NEW p \in Procs, Only(p), Only(p)', Current(p), NEW S \in SUBSET Ids,
         HardDelete(S), pend[p] = {}, UNCHANGED pend, todo'[p] \subseteq {k \in todo[p] : k.id \notin S},
         op'[p] = op[p] \/ todo'[p] = {}
  PROVE  Current(p)' /\ \A i \in Ids : Cell(i)' = IF i \in S THEN {} ELSE Cell(i)
<1>1. \A i \in Ids : rows'[i] = IF i \in S THEN <<>> ELSE rows[i]
  BY DEF HardDelete
<1>2. \A i \in Ids : RowsOf(i)' = IF i \in S THEN {} ELSE RowsOf(i)
  BY <1>1, NoRowsOf, SameRowsOf
<1>3. \A i \in Ids : Cell(i)' = IF i \in S THEN {} ELSE Cell(i)
  BY <1>2, CellRows, CellRowsNext
<1>4. \A k \in todo'[p] : RowsOf(k.id)' = RowsOf(k.id)
  BY <1>2 DEF TableInv, TypeInv, HeldInv, Row
<1> QED  BY <1>3, <1>4, CurrentKept

\* A new memory.
LEMMA StoreMemory ==
  ASSUME TableInv, SerialInv, NEW p \in Procs, Only(p), Only(p)', NEW i \in Ids \ used, NEW w,
         rows' = [rows EXCEPT ![i] = Append(@, w)], pend[p] = {}, UNCHANGED pend
  PROVE  Becomes(i, w) /\ \A j \in Ids \ {i} : RowsOf(j)' = RowsOf(j)
<1>1. rows[i] = <<>>
  BY DEF TableInv, LifeInv, KnownIds, Present
<1>2. rows'[i] = <<w>> /\ \A j \in Ids \ {i} : rows'[j] = rows[j]
  BY <1>1 DEF TableInv, TypeInv, RowsInv
<1>3. RowsOf(i)' = {w}
  <2>1. DOMAIN rows'[i] = {1} /\ rows'[i][1] = w
    BY <1>2
  <2> QED  BY <2>1 DEF RowsOf
<1>4. \A j \in Ids \ {i} : RowsOf(j)' = RowsOf(j)
  BY <1>2, SameRowsOf
<1> QED  BY <1>3, <1>4, CellRows, CellRowsNext DEF Becomes

-----------------------------------------------------------------------------
(* Each of these changes is a step of the register. *)

LEMMA SerialView ==
  ASSUME Serial
  PROVE  /\ Memory = [i \in Ids |-> Cell(i)] /\ Born = used /\ Asked = accesses
         /\ Memory' = [i \in Ids |-> Cell(i)'] /\ Born' = used' /\ Asked' = accesses'
BY DEF Serial, Memory, Born, Asked, Serially

LEMMA SameIsStutter ==
  ASSUME Serial, \A i \in Ids : Cell(i)' = Cell(i), UNCHANGED <<used, accesses>>
  PROVE  AbstractSame
BY SerialView DEF AbstractSame

LEMMA ChangeIsStep ==
  ASSUME Serial, NEW i \in Ids, NEW v \in Cell(i), NEW w, Becomes(i, w), UNCHANGED <<used, accesses>>,
         \/ Register!Edited(v, w) \/ Register!Embedded(v, w) \/ Register!Patched(v, w)
         \/ Register!Shown(v, w) \/ Register!Retired(v, w)
  PROVE  AbstractNext
<1>1. Memory' = [Memory EXCEPT ![i] = {w}] /\ v \in Memory[i] /\ w \in Memory'[i]
  BY SerialView DEF Becomes
<1>2. Register!Change(i)
  BY <1>1, SerialView DEF Register!Change, Register!Put
<1> QED  BY <1>2 DEF AbstractNext, Register!Next

LEMMA GetIsStep ==
  ASSUME Serial, NEW i \in Ids, NEW v \in Cell(i), NEW w, Becomes(i, w), UNCHANGED used,
         accesses' = [accesses EXCEPT ![i] = @ + 1], Register!Got(v, w)
  PROVE  AbstractNext
<1>1. Memory' = [Memory EXCEPT ![i] = {w}] /\ v \in Memory[i] /\ w \in Memory'[i]
  BY SerialView DEF Becomes
<1>2. Register!Get(i)
  BY <1>1, SerialView DEF Register!Get, Register!Put
<1> QED  BY <1>2 DEF AbstractNext, Register!Next

LEMMA StoreIsStep ==
  ASSUME Serial, TableInv, SerialInv, NEW i \in Ids \ used, NEW c \in Contents, NEW a \in NewAttrs,
         Becomes(i, NewRow(i, c, a)), used' = used \cup {i}, UNCHANGED accesses
  PROVE  AbstractNext
<1> DEFINE w == NewRow(i, c, a)
<1>1. Memory' = [Memory EXCEPT ![i] = {w}] /\ w \in Memory'[i]
  BY SerialView DEF Becomes
<1>2. accesses[i] = 0
  BY DEF SerialInv, UnusedUncounted
<1>3. /\ w.id = i /\ w.version = 1 /\ w.access = 0 /\ w.vec = w.content /\ w.active /\ ~w.superseded
      /\ w.private => ~w.project
  BY DEF NewRow
<1> HIDE DEF w
<1>4. Register!Create(i)
  BY <1>1, <1>2, <1>3, SerialView DEF Register!Create, Register!Put
<1> QED  BY <1>4 DEF AbstractNext, Register!Next

LEMMA RemoveIsStep ==
  ASSUME Serial, NEW S \in SUBSET Ids, \A i \in Ids : Cell(i)' = IF i \in S THEN {} ELSE Cell(i),
         UNCHANGED <<used, accesses>>
  PROVE  AbstractNext
<1>1. Register!Remove(S)
  BY SerialView DEF Register!Remove
<1> QED  BY <1>1 DEF AbstractNext, Register!Next

-----------------------------------------------------------------------------
(* What a handler does to its copy, as a change of the memory. *)

LEMMA PatchedCopy ==
  ASSUME NEW m \in Row, NEW n \in Row, m.project => n.project,
         n = [m EXCEPT !.tier = n.tier, !.active = n.active, !.project = n.project]
  PROVE  Register!Patched(m, NextVersion(n))
BY DEF Register!Patched, Register!Updated, Register!Written, NextVersion, Row

LEMMA ShownCopy ==
  ASSUME NEW m \in Row, NEW b \in BOOLEAN
  PROVE  Register!Shown(m, NextVersion([m EXCEPT !.private = b]))
BY DEF Register!Shown, Register!Written, NextVersion, Row

LEMMA RetiredCopy ==
  ASSUME NEW m \in Row, m.superseded, NEW r \in Row, r = m \/ r = [m EXCEPT !.superseded = FALSE]
  PROVE  Register!Retired(r, NextVersion(m)) /\ m.vec = r.vec
BY DEF Register!Retired, Register!Written, NextVersion, Row

LEMMA EditedCopy ==
  ASSUME NEW m \in Row, NEW w \in Requested(m), NEW c \in Contents
  PROVE  Register!Edited(m, NextVersion([w EXCEPT !.content = c, !.vec = c]))
<1> DEFINE n == NextVersion([w EXCEPT !.content = c, !.vec = c])
<1>1. /\ w \in Row /\ w = [m EXCEPT !.tier = w.tier, !.active = w.active, !.project = w.project]
      /\ m.project => w.project
  BY RequestedRow
<1>2. /\ n.tier = w.tier /\ n.active = w.active /\ n.project = w.project
      /\ n.content = c /\ n.vec = c
  BY <1>1 DEF NextVersion, Row
<1>3. n = [Register!Written(m) EXCEPT !.tier = n.tier, !.active = n.active,
             !.project = n.project, !.content = n.content, !.vec = n.vec]
  BY <1>1, <1>2 DEF Register!Written, NextVersion, Row
<1> QED  BY <1>1, <1>2, <1>3 DEF Register!Edited, Register!Updated

LEMMA EmbeddedCopy ==
  ASSUME NEW m \in Row, NEW c \in {m.content, m.abst}, c \in Contents
  PROVE  Register!Embedded(m, NextVersion([m EXCEPT !.vec = c]))
BY DEF Register!Embedded, Register!Written, NextVersion, Row

LEMMA GotCopy ==
  ASSUME NEW m \in Row, NEW t \in Tiers,
         NEW w, w = NextVersion([[m EXCEPT !.access = @ + 1] EXCEPT !.tier = t])
  PROVE  Register!Got(m, w)
BY DEF Register!Got, Register!Written, NextVersion, Row

-----------------------------------------------------------------------------
(* Every step of a process that runs alone is a step of the register or    *)
(* none, and leaves what is held current.                                  *)

Simulated == AbstractNext \/ AbstractSame

LEMMA ScalarRegister ==
  ASSUME TableInv, SerialInv, Serial, NEW p \in Procs, Only(p), Only(p)', Current(p), NEW m \in todo[p],
         op[p] # "supersede", op[p] \notin RewriterOps \/ op[p] = "update", NEW n \in Row, n.id = m.id, n.vec = m.vec,
         ScalarUpdate(n), Drop(p, m) \/ Done(p), UNCHANGED <<pend, history>>,
         Register!Patched(m, NextVersion(n)) \/ Register!Shown(m, NextVersion(n))
  PROVE  Current(p)' /\ AbstractNext
<1>1. m \in RowsOf(m.id) /\ m \in Cell(m.id) /\ m.id \in Ids
  BY CurrentRow DEF Cell, TableInv, TypeInv, HeldInv, Row
<1>2. pend[p] = {} /\ UNCHANGED <<pend, used, accesses>>
  BY NothingPending DEF TableInv, history
<1>3. Current(p)' /\ Becomes(m.id, NextVersion(n))
  BY <1>1, <1>2, ScalarMemory
<1> QED  BY <1>1, <1>2, <1>3, ChangeIsStep

LEMMA RewriteRegister ==
  ASSUME TableInv, SerialInv, Serial, NEW p \in Procs, Only(p), Only(p)', Current(p), NEW m \in todo[p],
         op[p] # "supersede", NEW n \in Row, n.id = m.id, RewriteDelete(p, n), Drop(p, m),
         UNCHANGED <<used, accesses>>,
         \/ Register!Patched(m, NextVersion(n)) \/ Register!Edited(m, NextVersion(n))
         \/ Register!Embedded(m, NextVersion(n))
  PROVE  Current(p)' /\ AbstractNext
<1>1. m \in RowsOf(m.id) /\ m \in Cell(m.id) /\ m.id \in Ids
  BY CurrentRow DEF Cell, TableInv, TypeInv, HeldInv, Row
<1>2. Current(p)' /\ Becomes(m.id, NextVersion(n))
  BY RewriteMemory
<1> QED  BY <1>1, <1>2, ChangeIsStep

LEMMA DeleteRegister ==
  ASSUME TableInv, SerialInv, Serial, NEW p \in Procs, Only(p), Only(p)', Current(p), NEW m \in todo[p],
         op[p] \notin RewriterOps, HardDelete({m.id}), Drop(p, m) \/ Done(p),
         UNCHANGED <<pend, used, accesses>>
  PROVE  Current(p)' /\ AbstractNext
<1>1. pend[p] = {} /\ {m.id} \in SUBSET Ids
  BY NothingPending DEF TableInv, TypeInv, HeldInv, Row
<1>2. todo'[p] \subseteq todo[p] \ {m} /\ (op'[p] = op[p] \/ todo'[p] = {})
  BY DEF Drop, Done, Become, TableInv, TypeInv, HeldInv
<1>3. todo'[p] \subseteq {k \in todo[p] : k.id \notin {m.id}}
  BY <1>2, OtherCopies
<1>4. Current(p)' /\ \A i \in Ids : Cell(i)' = IF i \in {m.id} THEN {} ELSE Cell(i)
  BY <1>1, <1>2, <1>3, DeleteMemory
<1> QED  BY <1>1, <1>4, RemoveIsStep

LEMMA StillRegister ==
  ASSUME Serial, UNCHANGED <<rows, pend, history>>
  PROVE  AbstractSame
<1>1. \A i \in Ids : Cell(i)' = Cell(i)
  BY DEF Cell, RowsOf, Pending
<1> QED  BY <1>1, SameIsStutter DEF history

LEMMA GetRegister ==
  ASSUME TableInv, SerialInv, Serial, NEW p \in Procs, Only(p), Only(p)', Current(p), NEW m \in todo[p],
         GetWrite(p, m)
  PROVE  Current(p)' /\ AbstractNext
<1>1. m \in Row /\ m.id \in Ids /\ m.access = accesses[m.id] /\ accesses[m.id] \in 0 .. MaxAccess
  BY HeldType DEF TableInv, TypeInv, SerialInv, HeldFaithful, Faithful, Exact
<1>2. /\ op[p] = "get" /\ accesses[m.id] < MaxAccess /\ Done(p) /\ UNCHANGED <<pend, used>>
      /\ accesses' = [accesses EXCEPT ![m.id] = @ + 1]
  BY DEF GetWrite
<1>3. PICK t \in EvaluateTier([m EXCEPT !.access = @ + 1]) :
        ScalarUpdate([[m EXCEPT !.access = @ + 1] EXCEPT !.tier = t])
  BY DEF GetWrite
<1> DEFINE counted == [m EXCEPT !.access = @ + 1]
           n == [counted EXCEPT !.tier = t]
<1>4. counted \in Row
  BY <1>1, <1>2, TableAssumption DEF Row
<1>5. t \in Tiers
  BY <1>4, TierOfRow
<1>6. n \in Row /\ n.id = m.id /\ n.vec = m.vec
  BY <1>1, <1>4, <1>5 DEF Row
<1>7. Register!Got(m, NextVersion(n))
  BY <1>1, <1>5, GotCopy
<1>8. ScalarUpdate(n)
  BY <1>3
<1> HIDE DEF n
<1>9. m \in RowsOf(m.id) /\ m \in Cell(m.id) /\ pend[p] = {}
  BY <1>2, CurrentRow, NothingPending DEF Cell, TableInv, RewriterOps
<1>10. Current(p)' /\ Becomes(m.id, NextVersion(n))
  BY <1>2, <1>6, <1>8, <1>9, ScalarMemory
<1> QED  BY <1>1, <1>2, <1>7, <1>9, <1>10, GetIsStep

LEMMA HistoryRegister ==
  ASSUME TableInv, SerialInv, Serial, NEW p \in Procs, Current(p), NEW m \in todo[p], HistoryVector(p, m)
  PROVE  Current(p)' /\ AbstractSame
<1>1. op[p] = "history" /\ UNCHANGED <<rows, pend, history>>
  BY DEF HistoryVector
<1>2. m \in RowsOf(m.id) /\ m.id \in Ids /\ m \in Row
  BY <1>1, CurrentRow DEF TableInv, TypeInv, HeldInv, Row
<1>3. Present(m.id)
  BY <1>2, EmptySeq DEF Present, RowsOf
<1>4. PICK r \in RowsOf(m.id) : Become(p, "historyVector", {[m EXCEPT !.vec = r.vec]})
  BY <1>3 DEF HistoryVector
<1>5. [m EXCEPT !.vec = r.vec] = m
  BY <1>2, <1>4, OneRow DEF TableInv, Row
<1>6. todo'[p] = {m}
  BY <1>4, <1>5 DEF Become, TableInv, TypeInv, HeldInv
<1>7. RowsOf(m.id)' = RowsOf(m.id)
  BY <1>1 DEF RowsOf
<1> QED  BY <1>1, <1>2, <1>6, <1>7, StillRegister DEF Current

LEMMA SupersedeRegister ==
  ASSUME TableInv, SerialInv, Serial, NEW p \in Procs, Only(p), Only(p)', Current(p), NEW m \in todo[p],
         NEW i \in Ids, NEW c \in Contents, NEW a \in FactAttrs, SupersedeCreate(p, m, i, c, a)
  PROVE  Current(p)' /\ AbstractNext
<1>1. /\ op[p] = "supersede" /\ op' = op /\ ~m.superseded /\ i \notin used /\ used' = used \cup {i}
      /\ rows' = [rows EXCEPT ![i] = Append(@, NewRow(i, c, a))]
      /\ todo' = [todo EXCEPT ![p] = {[m EXCEPT !.superseded = TRUE]}]
      /\ UNCHANGED <<pend, accesses>>
  BY DEF SupersedeCreate
<1>2. m \in Row /\ m.id \in Ids /\ m.id \in used /\ a \in NewAttrs
  BY DEF TableInv, TypeInv, HeldInv, Row, LifeInv, KnownIds, IdsOf, FactAttrs
<1>3. pend[p] = {}
  BY <1>1, NothingPending DEF TableInv, RewriterOps
<1>4. Becomes(i, NewRow(i, c, a)) /\ RowsOf(m.id)' = RowsOf(m.id)
  BY <1>1, <1>2, <1>3, StoreMemory
<1>5. m \in RowsOf(m.id)
  <2>1. [m EXCEPT !.superseded = FALSE] = m
    BY <1>1, <1>2 DEF Row
  <2> QED  BY <2>1 DEF Current
<1> DEFINE n == [m EXCEPT !.superseded = TRUE]
<1>6. n.id = m.id /\ m = [n EXCEPT !.superseded = FALSE]
  BY <1>1, <1>2 DEF Row
<1>7. todo'[p] = {n} /\ op'[p] = "supersede"
  BY <1>1 DEF TableInv, TypeInv, HeldInv
<1> HIDE DEF n
<1>8. Current(p)'
  BY <1>4, <1>5, <1>6, <1>7 DEF Current
<1> QED  BY <1>1, <1>2, <1>4, <1>8, StoreIsStep

LEMMA MarkRegister ==
  ASSUME TableInv, SerialInv, Serial, NEW p \in Procs, Only(p), Only(p)', Current(p), NEW m \in todo[p],
         SupersedeMark(p, m)
  PROVE  Current(p)' /\ AbstractNext
<1>1. /\ op[p] = "supersede" /\ m.superseded /\ ScalarUpdate(m) /\ Done(p)
      /\ UNCHANGED <<pend, used, accesses>>
  BY DEF SupersedeMark, history
<1>2. m \in Row /\ m.id \in Ids
  BY DEF TableInv, TypeInv, HeldInv, Row
<1>3. PICK r \in RowsOf(m.id) : r = m \/ r = [m EXCEPT !.superseded = FALSE]
  BY DEF Current
<1>4. r \in Row /\ pend[p] = {} /\ r \in Cell(m.id)
  BY <1>1, <1>2, RowsOfType, NothingPending DEF TableInv, TypeInv, RewriterOps, Cell
<1>5. Register!Retired(r, NextVersion(m)) /\ m.vec = r.vec
  BY <1>1, <1>2, <1>3, <1>4, RetiredCopy
<1>6. Current(p)' /\ Becomes(m.id, NextVersion(m))
  BY <1>1, <1>2, <1>4, <1>5, ScalarMemory
<1> QED  BY <1>1, <1>2, <1>4, <1>5, <1>6, ChangeIsStep

\* A handler of a single commit,
LEMMA InstantRegister ==
  ASSUME TableInv, SerialInv, Serial, NEW p \in Procs, Only(p), Only(p)', InstantStep(p)
  PROVE  Current(p)' /\ AbstractNext
<1>0. Idle(p) /\ UNCHANGED <<op, todo, pend>> /\ todo[p] = {} /\ pend[p] = {}
  BY NothingPending DEF InstantStep, Create, Bump, Purge, Backfill, procVars, Idle, RewriterOps,
     SerialInv, HeldFaithful, TableInv
<1>1. Current(p) /\ Current(p)'
  BY <1>0 DEF Current
<1>2. \A i \in Ids : Cell(i) = RowsOf(i) /\ Cell(i)' = RowsOf(i)'
  BY <1>0, CellRows, CellRowsNext
<1>3. ASSUME NEW i \in Ids, NEW c \in Contents, NEW a \in NewAttrs, Create(p, i, c, a)
      PROVE  AbstractNext
  <2>1. /\ i \notin used /\ used' = used \cup {i} /\ UNCHANGED accesses
        /\ rows' = [rows EXCEPT ![i] = Append(@, NewRow(i, c, a))]
    BY <1>3 DEF Create
  <2> QED  BY <1>0, <2>1, StoreMemory, StoreIsStep
<1>4. ASSUME NEW S \in SUBSET Ids, Purge(p, S)
      PROVE  AbstractNext
  <2>1. HardDelete(S) /\ UNCHANGED <<used, accesses>>
    BY <1>4 DEF Purge
  <2>2. \A i \in Ids : Cell(i)' = IF i \in S THEN {} ELSE Cell(i)
    BY <1>0, <1>1, <2>1, DeleteMemory
  <2> QED  BY <2>1, <2>2, RemoveIsStep
<1>5. ASSUME NEW S \in SUBSET Ids, Bump(p, S)
      PROVE  AbstractNext
  <2>1. /\ rows' = [i \in Ids |-> IF i \in S
                      THEN [k \in DOMAIN rows[i] |-> [rows[i][k] EXCEPT !.access = @ + 1]]
                      ELSE rows[i]]
        /\ S \subseteq used /\ UNCHANGED used
        /\ accesses' = [i \in Ids |-> IF i \in S THEN accesses[i] + 1 ELSE accesses[i]]
    BY <1>5 DEF Bump
  <2>2. ASSUME NEW i \in Ids, i \in S
        PROVE  RowsOf(i)' = {[v EXCEPT !.access = @ + 1] : v \in RowsOf(i)}
    <3>1. rows'[i] = [k \in DOMAIN rows[i] |-> [rows[i][k] EXCEPT !.access = @ + 1]]
      BY <2>1, <2>2
    <3> QED  BY <3>1 DEF RowsOf
  <2>3. \A i \in Ids \ S : RowsOf(i)' = RowsOf(i)
    BY <2>1 DEF RowsOf
  <2>4. Memory' = [i \in Ids |-> IF i \in S THEN {[v EXCEPT !.access = @ + 1] : v \in Memory[i]}
                                 ELSE Memory[i]]
    BY <1>2, <2>2, <2>3, SerialView
  <2>5. Register!Search(S)
    BY <2>1, <2>4, SerialView DEF Register!Search
  <2> QED  BY <2>5 DEF AbstractNext, Register!Next
<1>6. ASSUME Backfill(p)
      PROVE  AbstractNext
  <2>1. /\ rows' = [i \in Ids |-> [k \in DOMAIN rows[i] |->
              IF rows[i][k].private THEN rows[i][k] ELSE [rows[i][k] EXCEPT !.project = TRUE]]]
        /\ UNCHANGED <<used, accesses>>
    BY <1>6 DEF Backfill, history
  <2>2. ASSUME NEW i \in Ids
        PROVE  RowsOf(i)' = {IF v.private THEN v ELSE [v EXCEPT !.project = TRUE] : v \in RowsOf(i)}
    <3>1. rows'[i] = [k \in DOMAIN rows[i] |->
              IF rows[i][k].private THEN rows[i][k] ELSE [rows[i][k] EXCEPT !.project = TRUE]]
      BY <2>1
    <3> QED  BY <3>1 DEF RowsOf
  <2>3. Memory' = [i \in Ids |-> {IF v.private THEN v ELSE [v EXCEPT !.project = TRUE] : v \in Memory[i]}]
    BY <1>2, <2>2, SerialView
  <2>4. Register!Bind
    BY <2>1, <2>3, SerialView DEF Register!Bind
  <2> QED  BY <2>4 DEF AbstractNext, Register!Next
<1> QED
  BY <1>1, <1>3, <1>4, <1>5, <1>6 DEF InstantStep

\* a read,
LEMMA ReadRegister ==
  ASSUME TableInv, Serial, NEW p \in Procs, ReadStep(p)
  PROVE  Current(p)' /\ AbstractSame
<1>1. UNCHANGED <<rows, pend, history>>
  BY DEF ReadStep, ReadOne, ReadGiven, ReadAll
<1>2. ASSUME NEW o \in RequestOps \cup TaskOps, NEW m \in AllRows, ReadOne(p, o, m)
      PROVE  Current(p)'
  BY <1>1, <1>2, CurrentRead DEF ReadOne
<1>3. ASSUME NEW o \in {"hide", "publish"}, NEW S \in SUBSET Ids, ReadGiven(p, o, S)
      PROVE  Current(p)'
  <2> DEFINE R == UNION {RowsOf(i) : i \in S}
  <2>1. R \subseteq AllRows /\ Become(p, o, R)
    BY <1>3 DEF ReadGiven, AllRows
  <2> HIDE DEF R
  <2> QED  BY <1>1, <2>1, CurrentRead
<1>4. ASSUME NEW o \in TaskOps \cup SweepOps, ReadAll(p, o)
      PROVE  Current(p)'
  <2>1. PICK R \in SUBSET AllRows : Become(p, o, R)
    BY <1>4 DEF ReadAll
  <2> QED  BY <1>1, <2>1, CurrentRead
<1> QED
  BY <1>1, <1>2, <1>3, <1>4, StillRegister DEF ReadStep

\* the write after a read,
LEMMA WriteRegister ==
  ASSUME TableInv, SerialInv, Serial, NEW p \in Procs, Only(p), Only(p)', Current(p),
         NEW m \in todo[p], WriteStep(p, m)
  PROVE  Current(p)' /\ Simulated
<1>1. m \in Row /\ m.id \in Ids
  BY DEF TableInv, TypeInv, HeldInv, Row
\* The copy with other columns, written over the row.
<1>2. ASSUME NEW n \in Row, n = [m EXCEPT !.tier = n.tier, !.active = n.active, !.project = n.project],
             m.project => n.project, op[p] \in {"update", "historyNone", "tiers", "archive"},
             ScalarUpdate(n), Drop(p, m) \/ Done(p), UNCHANGED <<pend, history>>
      PROVE  Current(p)' /\ AbstractNext
  <2>1. Register!Patched(m, NextVersion(n))
    BY <1>1, <1>2, PatchedCopy
  <2>2. n.id = m.id /\ n.vec = m.vec
    BY <1>1, <1>2 DEF Row
  <2>3. op[p] # "supersede" /\ (op[p] \notin RewriterOps \/ op[p] = "update")
    BY <1>2 DEF RewriterOps
  <2> QED  BY <1>2, <2>1, <2>2, <2>3, ScalarRegister
<1>3. CASE GetWrite(p, m)
  BY <1>3, GetRegister DEF Simulated
<1>4. CASE UpdateScalar(p, m)
  <2>1. PICK n \in Requested(m) : ScalarUpdate(n)
    BY <1>4 DEF UpdateScalar
  <2>2. /\ n \in Row /\ n = [m EXCEPT !.tier = n.tier, !.active = n.active, !.project = n.project]
        /\ m.project => n.project
    BY <1>1, RequestedRow
  <2>3. op[p] = "update" /\ Done(p) /\ UNCHANGED <<pend, history>>
    BY <1>4 DEF UpdateScalar
  <2> QED  BY <1>2, <2>1, <2>2, <2>3 DEF Simulated
<1>5. ASSUME NEW c \in Contents, UpdateRewrite(p, m, c)
      PROVE  Current(p)' /\ AbstractNext
  <2>1. PICK w \in Requested(m) : RewriteDelete(p, [w EXCEPT !.content = c, !.vec = c])
    BY <1>5 DEF UpdateRewrite
  <2> DEFINE n == [w EXCEPT !.content = c, !.vec = c]
  <2>2. w \in Row /\ w.id = m.id
    BY <1>1, RequestedRow
  <2>3. n \in Row /\ n.id = m.id
    BY <2>2 DEF Row
  <2>4. Register!Edited(m, NextVersion(n))
    BY <1>1, EditedCopy
  <2>5. RewriteDelete(p, n) /\ Drop(p, m) /\ UNCHANGED <<used, accesses>> /\ op[p] = "update"
    BY <1>5, <2>1 DEF UpdateRewrite
  <2> HIDE DEF n
  <2> QED  BY <2>3, <2>4, <2>5, RewriteRegister
<1>6. CASE HistoryVector(p, m)
  BY <1>6, HistoryRegister DEF Simulated
<1>7. CASE HistoryRewrite(p, m)
  <2>1. m = [m EXCEPT !.tier = m.tier, !.active = m.active, !.project = m.project]
    BY <1>1 DEF Row
  <2>2. Register!Patched(m, NextVersion(m))
    BY <1>1, <2>1, PatchedCopy
  <2>3. RewriteDelete(p, m) /\ Drop(p, m) /\ UNCHANGED <<used, accesses>> /\ op[p] = "historyVector"
    BY <1>7 DEF HistoryRewrite
  <2> QED  BY <1>1, <2>2, <2>3, RewriteRegister DEF Simulated
<1>8. CASE HistoryScalar(p, m)
  <2>1. m = [m EXCEPT !.tier = m.tier, !.active = m.active, !.project = m.project]
    BY <1>1 DEF Row
  <2> QED  BY <1>1, <1>2, <1>8, <2>1 DEF HistoryScalar, Simulated
<1>9. CASE DeleteWrite(p, m) \/ Expire(p, m) \/ StaleDelete(p, m)
  <2>1. /\ op[p] \in {"delete", "expire", "stale"} /\ HardDelete({m.id}) /\ (Drop(p, m) \/ Done(p))
        /\ UNCHANGED <<pend, used, accesses>>
    BY <1>9 DEF DeleteWrite, Expire, StaleDelete
  <2>2. op[p] \notin RewriterOps
    BY <2>1 DEF RewriterOps
  <2> QED  BY <2>1, <2>2, DeleteRegister DEF Simulated
<1>10. CASE VisibilityWrite(p, m)
  <2> DEFINE b == op[p] = "hide"
             n == [m EXCEPT !.private = b]
  <2>1. b \in BOOLEAN
    OBVIOUS
  <2>2. /\ op[p] \in {"hide", "publish"} /\ ScalarUpdate(n) /\ Drop(p, m)
        /\ UNCHANGED <<pend, history>>
    BY <1>10 DEF VisibilityWrite
  <2> HIDE DEF b
  <2>3. n \in Row /\ n.id = m.id /\ n.vec = m.vec
    BY <1>1, <2>1 DEF Row
  <2>4. Register!Shown(m, NextVersion(n))
    BY <1>1, <2>1, ShownCopy
  <2>5. op[p] # "supersede" /\ op[p] \notin RewriterOps
    BY <2>2 DEF RewriterOps
  <2> HIDE DEF n
  <2> QED  BY <2>2, <2>3, <2>4, <2>5, ScalarRegister DEF Simulated
<1>11. CASE ReembedRewrite(p, m)
  <2> DEFINE c == IF m.abst # "none" THEN m.abst ELSE m.content
             n == [m EXCEPT !.vec = c]
  <2>1. c \in {m.content, m.abst} /\ c \in Contents
    BY <1>1 DEF Row
  <2>2. RewriteDelete(p, n) /\ Drop(p, m) /\ UNCHANGED <<used, accesses>> /\ op[p] = "reembed"
    BY <1>11 DEF ReembedRewrite
  <2> HIDE DEF c
  <2>3. n \in Row /\ n.id = m.id
    BY <1>1, <2>1 DEF Row
  <2>4. Register!Embedded(m, NextVersion(n))
    BY <1>1, <2>1, EmbeddedCopy
  <2> HIDE DEF n
  <2> QED  BY <2>2, <2>3, <2>4, RewriteRegister DEF Simulated
<1>12. ASSUME NEW i \in Ids, NEW c \in Contents, NEW a \in FactAttrs, SupersedeCreate(p, m, i, c, a)
       PROVE  Current(p)' /\ AbstractNext
  BY <1>12, SupersedeRegister
<1>13. CASE SupersedeMark(p, m)
  BY <1>13, MarkRegister DEF Simulated
<1>14. CASE TierWrite(p, m)
  <2>1. PICK t \in EvaluateTier(m) : ScalarUpdate([m EXCEPT !.tier = t])
    BY <1>14 DEF TierWrite
  <2> DEFINE n == [m EXCEPT !.tier = t]
  <2>2. /\ n \in Row /\ n = [m EXCEPT !.tier = n.tier, !.active = n.active, !.project = n.project]
        /\ n.project = m.project
    BY <1>1, TierOfRow DEF Row
  <2>3. ScalarUpdate(n) /\ op[p] = "tiers" /\ Drop(p, m) /\ UNCHANGED <<pend, history>>
    BY <1>14, <2>1 DEF TierWrite
  <2> HIDE DEF n
  <2> QED  BY <1>2, <2>2, <2>3 DEF Simulated
<1>15. CASE ArchiveWrite(p, m)
  <2> DEFINE n == [m EXCEPT !.active = FALSE]
  <2>1. /\ n \in Row /\ n = [m EXCEPT !.tier = n.tier, !.active = n.active, !.project = n.project]
        /\ n.project = m.project
    BY <1>1 DEF Row
  <2>2. ScalarUpdate(n) /\ op[p] = "archive" /\ Drop(p, m) /\ UNCHANGED <<pend, history>>
    BY <1>15 DEF ArchiveWrite
  <2> HIDE DEF n
  <2> QED  BY <1>2, <2>1, <2>2 DEF Simulated
<1>16. CASE SweepSkip(p, m)
  <2>1. UNCHANGED <<rows, pend, history>> /\ op'[p] = op[p] /\ todo'[p] \subseteq todo[p]
    BY <1>16 DEF SweepSkip, Drop, TableInv, TypeInv, HeldInv
  <2>2. \A i : RowsOf(i)' = RowsOf(i)
    BY <2>1 DEF RowsOf
  <2> QED  BY <2>1, <2>2, CurrentKept, StillRegister DEF Simulated
<1> QED
  BY <1>3, <1>4, <1>5, <1>6, <1>7, <1>8, <1>9, <1>10, <1>11, <1>12, <1>13, <1>14, <1>15, <1>16
     DEF WriteStep, Simulated

\* the second commit of a rewrite, and the end of a handler or of a phase,
LEMMA QuietRegister ==
  ASSUME TableInv, SerialInv, Serial, NEW p \in Procs, Only(p), Only(p)', Current(p),
         (\E m \in pend[p] : RewriteInsert(p, m)) \/ Finish(p) \/ StopSweep(p) \/ NextPhase(p)
  PROVE  Current(p)' /\ AbstractSame
<1>1. ASSUME NEW m \in pend[p], RewriteInsert(p, m)
      PROVE  Current(p)' /\ AbstractSame
  BY <1>1, InsertMemory, SameIsStutter DEF RewriteInsert, history
<1>2. CASE Finish(p) \/ StopSweep(p)
  <2>1. UNCHANGED <<rows, pend, history>> /\ todo'[p] = {}
    BY <1>2 DEF Finish, StopSweep, Done, Become, TableInv, TypeInv, HeldInv
  <2> QED  BY <2>1, StillRegister DEF Current
<1>3. CASE NextPhase(p)
  <2>1. UNCHANGED <<rows, pend, history>> /\ Become(p, After[op[p]], AllRows)
    BY <1>3 DEF NextPhase
  <2>2. AllRows \in SUBSET AllRows
    OBVIOUS
  <2> QED  BY <2>1, <2>2, CurrentRead, StillRegister
<1> QED  BY <1>1, <1>2, <1>3

\* What is pending when everything pending is lost is removed.
LEMMA TornRegister ==
  ASSUME TableInv, SerialInv, Serial, UNCHANGED <<rows, used, accesses>>, \A q \in Procs : pend'[q] = {}
  PROVE  AbstractNext
<1> DEFINE S == {i \in Ids : \E q \in Procs : i \in PendingIds(q)}
<1>1. \A i : RowsOf(i)' = RowsOf(i) /\ Cell(i)' = RowsOf(i)'
  BY DEF Cell, Pending, RowsOf
<1>2. ASSUME NEW i \in S PROVE RowsOf(i) = {}
  <2>1. rows[i] = <<>>
    BY DEF TableInv, LifeInv, OneCopy, SerialInv, Present
  <2>2. DOMAIN rows[i] = {}
    BY <2>1
  <2> QED  BY <2>2 DEF RowsOf
<1>3. ASSUME NEW i \in Ids \ S PROVE Cell(i) = RowsOf(i)
  BY <1>3 DEF Cell, Pending, PendingIds, IdsOf
<1>4. \A i \in Ids : Cell(i)' = IF i \in S THEN {} ELSE Cell(i)
  BY <1>1, <1>2, <1>3
<1>5. S \in SUBSET Ids
  OBVIOUS
<1> HIDE DEF S
<1> QED  BY <1>4, <1>5, RemoveIsStep

\* and every step.
LEMMA NextRegister ==
  ASSUME TableInv, SerialInv, Serial, \A p \in Procs : Current(p), Next, Alone
  PROVE  (\A p \in Procs : Current(p)') /\ Simulated
<1>0. ASSUME NEW p \in Procs, Only(p)', Current(p)'
      PROVE  \A q \in Procs : Current(q)'
  BY <1>0 DEF Only, Current
<1>1. ASSUME NEW p \in Procs, By(p)
      PROVE  Only(p) /\ Only(p)'
  BY <1>1, OnlyStep DEF TableInv
<1>2. ASSUME NEW p \in Procs, InstantStep(p)
      PROVE  (\A q \in Procs : Current(q)') /\ Simulated
  <2>1. By(p)
    BY <1>2 DEF InstantStep, Create, Bump, Purge, Backfill, By, procVars
  <2> QED  BY <1>0, <1>1, <1>2, <2>1, InstantRegister DEF Simulated
<1>3. ASSUME NEW p \in Procs, ReadStep(p)
      PROVE  (\A q \in Procs : Current(q)') /\ Simulated
  <2>1. By(p)
    BY <1>3 DEF ReadStep, ReadOne, ReadGiven, ReadAll, By, Become, TableInv, TypeInv, HeldInv
  <2> QED  BY <1>0, <1>1, <1>3, <2>1, ReadRegister DEF Simulated
<1>4. ASSUME NEW p \in Procs, NEW m \in todo[p], WriteStep(p, m)
      PROVE  (\A q \in Procs : Current(q)') /\ Simulated
  <2>1. By(p)
    BY <1>4, WriteStepBy
  <2> QED  BY <1>0, <1>1, <1>4, <2>1, WriteRegister
<1>5. ASSUME NEW p \in Procs, (\E m \in pend[p] : RewriteInsert(p, m)) \/ Finish(p) \/ StopSweep(p) \/ NextPhase(p)
      PROVE  (\A q \in Procs : Current(q)') /\ Simulated
  <2>1. By(p)
    BY <1>5 DEF RewriteInsert, Finish, StopSweep, NextPhase, By, Done, Become, TableInv, TypeInv, HeldInv
  <2> QED  BY <1>0, <1>1, <1>5, <2>1, QuietRegister DEF Simulated
<1>6. ASSUME NEW p \in Procs, Abandon(p) \/ ReembedAddFails(p)
      PROVE  (\A q \in Procs : Current(q)') /\ Simulated
  <2>1. /\ By(p) /\ UNCHANGED <<rows, used, accesses>> /\ pend'[p] = {}
        /\ todo'[p] = {} \/ (todo'[p] = todo[p] /\ op'[p] = op[p])
    BY <1>6 DEF Abandon, ReembedAddFails, By, Done, Become, TableInv, TypeInv, HeldInv
  <2>2. \A q \in Procs : pend'[q] = {}
    BY <1>1, <2>1 DEF Only
  <2>3. \A i : RowsOf(i)' = RowsOf(i)
    BY <2>1 DEF RowsOf
  <2>4. Current(p)'
    BY <2>1, <2>3, CurrentKept
  <2> QED  BY <1>0, <1>1, <2>1, <2>2, <2>4, TornRegister DEF Simulated
<1>7. CASE Crash
  <2>1. /\ \A q \in Procs : todo'[q] = {} /\ pend'[q] = {}
        /\ UNCHANGED <<rows, used, accesses>>
    BY <1>7 DEF Crash
  <2> QED  BY <2>1, TornRegister DEF Current, Simulated
<1> QED
  BY <1>2, <1>3, <1>4, <1>5, <1>6, <1>7 DEF Next

\* While handlers run one at a time, the table is a register for each memory:
\* a handler changes its own columns of the memory as it is, an access is
\* counted, and nothing that is cut off writes a copy that is no longer true;
\* a rewrite cut off between its commits removes its memory (IsRegister).
THEOREM SerialIsRegister == ModeSpec => IsRegister
<1> DEFINE Inv == TableInv /\ (mode = "serial" => SerialInv /\ \A p \in Procs : Current(p))
<1>1. MCInit => Inv /\ Register!Init
  <2> SUFFICES ASSUME MCInit PROVE Inv /\ Register!Init
    OBVIOUS
  <2>1. TableInv /\ SerialInv
    BY SerialStart DEF TableInv
  <2>2. \A i \in Ids : Cell(i) = {}
    <3>1. ASSUME NEW i \in Ids PROVE RowsOf(i) = {}
      BY NoStart DEF MCInit
    <3> QED  BY <3>1 DEF Cell, Pending, MCInit, Init
  <2>3. Memory = [i \in Ids |-> {}] /\ Born = {} /\ Asked = [i \in Ids |-> 0]
    BY <2>2 DEF Memory, Born, Asked, Serially, MCInit, Init
  <2>4. \A p \in Procs : Current(p)
    BY DEF Current, MCInit, Init
  <2> QED  BY <2>1, <2>3, <2>4 DEF Register!Init
<1>2. Inv /\ [ModeNext]_<<vars, mode>> => Inv' /\ [Register!Next]_<<Memory, Born, Asked>>
  <2> SUFFICES ASSUME Inv, [ModeNext]_<<vars, mode>> PROVE Inv' /\ Simulated
    BY DEF Simulated, AbstractNext, AbstractSame
  <2>1. [Next]_vars /\ mode' = mode
    BY DEF ModeNext
  <2>2. TableInv'
    BY <2>1, NextTypeInv, NextHeldShape, NextLifeInv DEF TableInv
  <2>3. ASSUME mode = "serial" PROVE Inv' /\ Simulated
    <3>1. Serial
      BY <2>1, <2>3 DEF Serial
    <3>2. CASE ModeNext
      BY <2>2, <2>3, <3>1, <3>2, NextSerial, NextRegister DEF ModeNext
    <3>3. CASE UNCHANGED <<vars, mode>>
      <4>1. UNCHANGED <<rows, op, todo, pend, history>>
        BY <3>3 DEF vars, procVars
      <4>2. SerialInv'
        BY <2>3, <3>3 DEF vars, procVars, history, SerialInv, OneBusy, UnusedUncounted, RowsExact, RowsOf,
           OwnText, HeldFaithful, Faithful, Exact, Idle
      <4>3. \A p \in Procs : Current(p)'
        BY <2>3, <4>1 DEF Current, RowsOf
      <4> QED  BY <2>2, <3>1, <4>1, <4>2, <4>3, StillRegister DEF Simulated
    <3> QED  BY <3>2, <3>3
  <2>4. ASSUME mode # "serial" PROVE Inv' /\ Simulated
    BY <2>1, <2>2, <2>4 DEF Simulated, AbstractSame, Memory, Born, Asked, Serially
  <2> QED  BY <2>3, <2>4
<1> QED  BY <1>1, <1>2, PTL DEF ModeSpec, IsRegister, Register!Spec
=============================================================================
