----------------------------- MODULE MCPartitions -----------------------------
(***************************************************************************)
(* Partitions on a small calendar: weeks of two days, days of two parts.   *)
(***************************************************************************)
EXTENDS Partitions
==============================================================================
