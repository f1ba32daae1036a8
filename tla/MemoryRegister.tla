---------------------------- MODULE MemoryRegister ----------------------------
(***************************************************************************)
(* What the `memories` table is for whoever uses it alone: a register for  *)
(* each memory.  A handler changes its own columns of the present memory,  *)
(* and nothing else, in one step; an access is counted in the memory; what *)
(* was removed does not return.  The specification that MemoryTable        *)
(* implements while no two handlers are under way at once                  *)
(* (store/lancedb.rs, api/handlers/memory.rs).                             *)
(***************************************************************************)
EXTENDS Naturals

CONSTANTS Ids

VARIABLES
  memory,   \* memory[i]: the memory with this id, if there is one
  born,     \* ids that were ever given to a memory
  asked     \* asked[i]: how often i was got or found

Init ==
  /\ memory = [i \in Ids |-> {}]
  /\ born = {} /\ asked = [i \in Ids |-> 0]

Put(i, w) == memory' = [memory EXCEPT ![i] = {w}]

Create(i) ==
  /\ i \notin born /\ born' = born \cup {i}
  /\ \E w \in memory'[i] :
       /\ Put(i, w)
       /\ w.id = i /\ w.version = 1 /\ w.access = asked[i]
       /\ w.vec = w.content /\ w.active /\ ~w.superseded /\ (w.private => ~w.project)
  /\ UNCHANGED asked

\* Each of the changes is of the present memory v, and of its own columns.
Written(v) == [v EXCEPT !.version = @ + 1]

Updated(v, w) ==
  /\ v.project => w.project
  /\ w = [Written(v) EXCEPT !.tier = w.tier, !.active = w.active, !.project = w.project,
                           !.content = w.content, !.vec = w.vec]
Edited(v, w)   == Updated(v, w) /\ w.vec = w.content
Patched(v, w)  == Updated(v, w) /\ w.content = v.content /\ w.vec = v.vec
Embedded(v, w) == w.vec \in {v.content, v.abst} /\ w = [Written(v) EXCEPT !.vec = w.vec]
Shown(v, w)    == w = [Written(v) EXCEPT !.private = w.private]
Retired(v, w)  == w = [Written(v) EXCEPT !.superseded = TRUE]
Got(v, w)      == w = [Written(v) EXCEPT !.access = @ + 1, !.tier = w.tier]

Change(i) ==
  /\ \E v \in memory[i], w \in memory'[i] :
       /\ Put(i, w)
       /\ Edited(v, w) \/ Embedded(v, w) \/ Patched(v, w) \/ Shown(v, w) \/ Retired(v, w)
  /\ UNCHANGED <<born, asked>>

\* A memory is got: the access is counted, and may move it to another tier.
Get(i) ==
  /\ \E v \in memory[i], w \in memory'[i] : Put(i, w) /\ Got(v, w)
  /\ asked' = [asked EXCEPT ![i] = @ + 1]
  /\ UNCHANGED born

\* A search finds what is there of S.
Search(S) ==
  /\ S \subseteq born
  /\ memory' = [i \in Ids |-> IF i \in S THEN {[v EXCEPT !.access = @ + 1] : v \in memory[i]}
                                         ELSE memory[i]]
  /\ asked' = [i \in Ids |-> IF i \in S THEN asked[i] + 1 ELSE asked[i]]
  /\ UNCHANGED born

\* All that is not private gets a project.
Bind ==
  /\ memory' = [i \in Ids |-> {IF v.private THEN v ELSE [v EXCEPT !.project = TRUE] : v \in memory[i]}]
  /\ UNCHANGED <<born, asked>>

Remove(S) ==
  /\ memory' = [i \in Ids |-> IF i \in S THEN {} ELSE memory[i]]
  /\ UNCHANGED <<born, asked>>

Next ==
  \/ \E i \in Ids : Create(i) \/ Change(i) \/ Get(i)
  \/ \E S \in SUBSET Ids : Search(S) \/ Remove(S)
  \/ Bind

Spec == Init /\ [][Next]_<<memory, born, asked>>
=============================================================================
