------------------------------ MODULE MCAccounts ------------------------------
(***************************************************************************)
(* Accounts on small instances: three accounts, two names and one email.   *)
(***************************************************************************)
EXTENDS Accounts, TLC

Symmetry == Permutations(Ids) \cup Permutations(Names) \cup Permutations(Calls)
==============================================================================
