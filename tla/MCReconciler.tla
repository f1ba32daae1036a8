---------------------------- MODULE MCReconciler ----------------------------
(***************************************************************************)
(* A small instance of Reconciler.  f1 and f2 are facts of one             *)
(* conversation (t1, without headings), f1 the more important; f3 and f4   *)
(* are from others, f3 similar to f1, f4 nearly the same as f2 and of      *)
(* category "project".                                                     *)
(***************************************************************************)
EXTENDS Reconciler, TLC

CONSTANTS f1, f2, f3, f4, t1, t2, t3, s1

MCSource == (f1 :> t1) @@ (f2 :> t1) @@ (f3 :> t2) @@ (f4 :> t3)
MCWeight == (f1 :> 2) @@ (f2 :> 1) @@ (f3 :> 2) @@ (f4 :> 2)
MCKin    == {<<f2, f4>>, <<f4, f2>>}
MCNear   == MCKin \cup {<<f1, f3>>, <<f3, f1>>}

MCRequests ==
  {[facts |-> <<f1, f2>>, session |-> s1], [facts |-> <<f3>>, session |-> s1],
   [facts |-> <<f4>>, session |-> "none"]}

Symmetry == Permutations(Ids) \cup Permutations(Procs)
=============================================================================
