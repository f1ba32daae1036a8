----------------------------- MODULE MCImports -----------------------------
(***************************************************************************)
(* Instances of Imports for TLC.  The check of liveness takes no symmetry; *)
(* instead ids are given out in order, and a request takes the first of    *)
(* the processes that are idle: idle ones, and unused ids, do not differ.  *)
(***************************************************************************)
EXTENDS Imports, TLC

CONSTANTS First, Second  \* the two processes, and
CONSTANTS Old, New       \* the two ids

InOrder ==
  /\ New \in made' => Old \in made'
  /\ requests' > requests => pc[Second] = pc'[Second] \/ pc[First] # "idle"

MCSpec == Init /\ [][Next /\ InOrder]_vars /\ Fairness
=============================================================================
