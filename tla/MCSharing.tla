----------------------------- MODULE MCSharing -----------------------------
(***************************************************************************)
(* Small instances of Sharing.  In mode "serial" requests are served one   *)
(* at a time, of every kind and by two users.  In the other modes two are  *)
(* under way, of one user with one original: in "race" and "sweep" one of  *)
(* them at most is writing a row back, in "clash" both may.  Four ids let  *)
(* two reshares of one copy finish side by side; in "sweep" and "clash"    *)
(* the lifecycle sweep deletes what it finds between any two steps.  Ids   *)
(* and requests are interchangeable.                                       *)
(***************************************************************************)
EXTENDS Sharing, TLC

VARIABLE mode

Symmetry == Permutations(Ids) \cup Permutations(Procs)

OneAtATime == \A p \in Procs : pc[p] # "idle" => pc'[p] # pc[p]

\* The ids that an instance uses.
Enough ==
  Cardinality(used') <= CASE mode = "race" -> 4 [] mode = "clash" -> 2 [] OTHER -> 3

\* A row may be read to be written back.
MayWrite ==
  mode = "clash" \/ \A p \in Procs : pc[p] \notin {"embed", "add", "touch"}

RaceStart(p, u) ==
  \/ \E s \in Spaces : ShareStart(p, u, s) \/ UnshareStart(p, u, s)
  \/ \E s \in Stores : ReshareStart(p, u, s)
  \/ MayWrite /\ EditRead(p, u)
  \/ MayWrite /\ \E s \in Stores : TouchRead(p, s)

Race ==
  \/ \E p \in Procs : Step(p) \/ Drop(p)
  \/ \E u \in Writers :
       \/ \E p \in Procs : RaceStart(p, u)
       \/ \E s \in Spaces : BatchShare(u, s) \/ ShareAll(u, s)
       \/ used = {} /\ ImportMemory(u)
  \/ mode # "race" /\ \E s \in Stores : Forget(s)

MCInit == Init /\ mode \in {"race", "sweep", "clash", "serial"}
MCNext ==
  /\ UNCHANGED mode
  /\ IF mode = "serial" THEN Next /\ OneAtATime ELSE Race
  /\ Enough
MCSpec == MCInit /\ [][MCNext]_<<vars, mode>>

\* Copies are safe whatever overlaps, and besides exact and refreshed by a reshare
\* when requests do not (api/handlers/sharing.rs:297-860).
CopiesExact == CopiesSafe /\ (mode = "serial" => SerialCopiesExact)
=============================================================================
