------------------------------- MODULE MCLimits -------------------------------
(***************************************************************************)
(* Limits on small instances: two clients that share the second of two     *)
(* shards.                                                                 *)
(***************************************************************************)
EXTENDS Limits

MCShardOf == [k \in Clients |-> 2]
==============================================================================
