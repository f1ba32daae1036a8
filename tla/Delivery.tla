------------------------------- MODULE Delivery -------------------------------
(***************************************************************************)
(* What a hook that archives a transcript promises: every message long     *)
(* enough to keep reaches the server at least once, and the mark that says *)
(* how far it got never runs ahead of what the server has.                 *)
(*                                                                         *)
(* The specification that flushSessionIngest of the Claude Code plugin     *)
(* implements (module ClaudeHooks); ZCode's Stop hook is written to the    *)
(* same contract (plugins/zcode/hooks/stop.js:10-16).                      *)
(***************************************************************************)
EXTENDS Naturals

CONSTANTS
  Sessions,
  Short       \* numbers of the messages that are too short to be kept

VARIABLES
  said,       \* said[s]: messages of the transcript of s
  got,        \* got[s]: those that the server has
  mark        \* mark[s]: how far the hook thinks it got

Init ==
  /\ said = [s \in Sessions |-> 0]
  /\ got = [s \in Sessions |-> {}]
  /\ mark = [s \in Sessions |-> 0]

Kept(s, k) == k \in Short \/ k \in got[s]

\* The transcript grows.
Say(s) ==
  /\ said' = [said EXCEPT ![s] = @ + 1]
  /\ UNCHANGED <<got, mark>>

\* Messages of the transcript arrive, perhaps again.
Deliver(s) ==
  /\ \E batch \in SUBSET (1 .. said[s]) : got' = [got EXCEPT ![s] = @ \cup batch]
  /\ UNCHANGED <<said, mark>>

\* The mark moves, forth or back, to a place before which nothing is missing.
Mark(s) ==
  /\ \E k \in 0 .. said[s] :
       /\ \A i \in 1 .. k : Kept(s, i)
       /\ mark' = [mark EXCEPT ![s] = k]
  /\ UNCHANGED <<said, got>>

Next == \E s \in Sessions : Say(s) \/ Deliver(s) \/ Mark(s)

Spec == Init /\ [][Next]_<<said, got, mark>>

\* Nothing before the mark is missing at the server: flushSessionIngest sends
\* only what comes after the mark, so a message it skips is never sent.
NothingSkipped == \A s \in Sessions : \A i \in 1 .. mark[s] : Kept(s, i)
=============================================================================
