------------------------------- MODULE MCGroups -------------------------------
(***************************************************************************)
(* Groups on small instances: two users, a few calls.                      *)
(***************************************************************************)
EXTENDS Groups, TLC

Symmetry == Permutations(Users) \cup Permutations(Calls) \cup Permutations(GroupIDs)
==============================================================================
