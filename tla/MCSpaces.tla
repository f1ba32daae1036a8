------------------------------ MODULE MCSpaces ------------------------------
(***************************************************************************)
(* Small instances of Spaces.  The member lists a space is created with    *)
(* are: nobody, one other user, and one other user listed twice;           *)
(* bob is the one whose entries change.                                    *)
(***************************************************************************)
EXTENDS Spaces, TLC

CONSTANTS alice, bob

MCExtras ==
  {<<>>, <<[user |-> bob, role |-> "reader"]>>,
   <<[user |-> bob, role |-> "admin"], [user |-> bob, role |-> "reader"]>>}

MCChanges ==
  {[what |-> "rename"],
   [what |-> "add", user |-> bob, role |-> "reader"],
   [what |-> "role", user |-> bob, role |-> "admin"],
   [what |-> "role", user |-> alice, role |-> "reader"],
   [what |-> "remove", user |-> alice], [what |-> "remove", user |-> bob],
   [what |-> "rule", rule |-> "r1"], [what |-> "unrule", rule |-> "r1"]}

Symmetry == Permutations(Handlers)
=============================================================================
