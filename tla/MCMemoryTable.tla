--------------------------- MODULE MCMemoryTable ---------------------------
(***************************************************************************)
(* Instances of MemoryTable for TLC.  In mode "serial" no two handlers are *)
(* under way at once, and everything may happen; in mode "race" two are,   *)
(* over one ordinary memory, with one handler of each kind of snapshot and *)
(* write.                                                                  *)
(***************************************************************************)
EXTENDS MemoryTable, TLC

CONSTANTS p1, p2, i1
VARIABLE mode

MCProcs == {p1, p2}
ProcSymmetry == Permutations(MCProcs)
MCOps == HandlerOps \cup InstantOps

\* Every combination of attributes that a request can send.
MCAttrs   == {[tier |-> t, pinned |-> pin, private |-> priv, project |-> TRUE] :
                t \in {"Peripheral", "Core"}, pin, priv \in BOOLEAN}
MCPatches == {[tier |-> t, active |-> TRUE, project |-> proj] :
                t \in {"Peripheral", "Core"}, proj \in BOOLEAN}
             \cup {[tier |-> "Peripheral", active |-> FALSE, project |-> FALSE]}

\* A handler that is under way takes every step until it is done.
Alone ==
  \A p \in Procs : op[p] # "idle" => <<op'[p], todo'[p], pend'[p]>> # <<op[p], todo[p], pend[p]>>

\* The bounds of a serial run: two versions and one access of each memory; the
\* first may be any, the second one is an ordinary fact.
OneAtATime ==
  /\ Alone
  /\ used' \in {{}, {i1}, Ids}
  /\ used' = Ids /\ used # Ids =>
       \A m \in AllRows' : m.id # i1 => m.tier = "Peripheral" /\ ~m.pinned
  /\ \A m \in AllRows' \cup UNION {pend'[p] : p \in Procs} : m.version <= 2
  /\ \A i \in Ids : accesses'[i] <= 1

\* The bounds of a race: one memory, an ordinary fact with one text, which only
\* its accesses make Core.
OneFact ==
  /\ \A p \in Procs : op'[p] \notin {"supersede", "publish", "history"}
  /\ used' \subseteq {i1}
  /\ \A m \in AllRows' \cup UNION {pend'[p] : p \in Procs} :
       /\ m.content = "today" /\ m.project
       /\ m.tier = "Core" => m.access >= CoreAt
  /\ used' # used => \A m \in AllRows' : m.tier = "Peripheral" /\ ~m.pinned /\ ~m.private

MCInit == Init /\ mode \in {"race", "serial"}
MCNext == /\ Next /\ UNCHANGED mode
          /\ IF mode = "serial" THEN OneAtATime ELSE OneFact
MCSpec == MCInit /\ [][MCNext]_<<vars, mode>>

\* The two modes without these bounds, which MCSpec implements.
ModeNext == Next /\ UNCHANGED mode /\ (mode = "serial" => Alone)
ModeSpec == MCInit /\ [][ModeNext]_<<vars, mode>>

\* Without overlap no access is lost, and each embedding is of its own text.
SerialExact == mode = "serial" => SerialRowsExact

-----------------------------------------------------------------------------
(* While no two handlers are under way, the table is a register for each   *)
(* memory: a write is of the memory as it is.  A row that a rewrite has    *)
(* deleted and not yet added is still the memory.                          *)

Pending == UNION {pend[p] : p \in Procs}
Cell(i) == RowsOf(i) \cup {m \in Pending : m.id = i}

Serially(x, otherwise) == IF mode = "serial" THEN x ELSE otherwise

Memory == Serially([i \in Ids |-> Cell(i)], [i \in Ids |-> {}])
Born   == Serially(used, {})
Asked  == Serially(accesses, [i \in Ids |-> 0])

Register == INSTANCE MemoryRegister WITH memory <- Memory, born <- Born, asked <- Asked

\* Handlers that run one at a time write their own columns of the memory as it
\* is, and nothing that is cut off does more than that, but for a rewrite: it
\* removes the memory it was writing (store/lancedb.rs:1719-1790).
IsRegister == Register!Spec
=============================================================================
