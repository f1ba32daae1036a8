------------------------------ MODULE MCOpenCode ------------------------------
\* An instance of OpenCode for TLC: a main session and a sub-agent's session,
\* an agent that may write and one that has no access.
EXTENDS OpenCode, TLC
Symmetry == Permutations(Timers) \cup Permutations(Chats)
Access == [a \in {"build", "guest"} |-> IF a = "build" THEN "readwrite" ELSE "none"]
Lengths == [s \in {"s1", "s2"} |-> IF s = "s1" THEN 2 ELSE 1]
Bounds == [compact |-> 1, restart |-> 1, fault |-> 1, toggle |-> 1, switch |-> 2]
=============================================================================
