---------------------------- MODULE MCClaudeHooks ----------------------------
\* An instance of ClaudeHooks for TLC: two windows' sessions, two processes.
EXTENDS ClaudeHooks, TLC
Symmetry == Permutations(Procs)
Lengths == [s \in {"s1", "s2"} |-> IF s = "s1" THEN 3 ELSE 1]
=============================================================================
