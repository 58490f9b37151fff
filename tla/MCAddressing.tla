----------------------------- MODULE MCAddressing -----------------------------
(***************************************************************************)
(* Addressing on the instances of MCMessaging, over public ids of one or   *)
(* two characters of three: the underscore, one before it and one after it.*)
(***************************************************************************)
EXTENDS Addressing, MCMessaging
==============================================================================
