----------------------------- MODULE MCProfile -----------------------------
(* Instances of Profile: ids, values and processes are interchangeable. *)
EXTENDS Profile, TLC

Symmetry == Permutations(Ids) \cup Permutations(Values) \cup Permutations(Procs)
=============================================================================
