------------------------------ MODULE MCSessions ------------------------------
(***************************************************************************)
(* Sessions on small instances: two servers, two tokens, a cache of one.   *)
(***************************************************************************)
EXTENDS Sessions, TLC

Symmetry == Permutations(Servers) \cup Permutations(Tokens) \cup Permutations(Calls)
==============================================================================
