------------------------------- MODULE MCFriends -------------------------------
(***************************************************************************)
(* Friends on small instances: two users, a few calls.                     *)
(***************************************************************************)
EXTENDS Friends, TLC

Symmetry == Permutations(Users) \cup Permutations(Calls)
==============================================================================
