------------------------------- MODULE MCIdGen -------------------------------
(***************************************************************************)
(* IdGen on a small instance: an id has 2 node numbers and 1 sequence      *)
(* number, so a millisecond spans 2 ids, and a segment of                  *)
(* SegmentDurationMs = 1 holds 3 ids of two milliseconds.                  *)
(***************************************************************************)
EXTENDS IdGen, TLC

CONSTANTS n1, n2, c1, c2

TwoNodes == {n1, n2}
TwoCallers == {c1, c2}
TwoNodeIDs == n1 :> 0 @@ n2 :> 1

\* What the messages table holds before the first start: a message sent at
\* time 1 by node 1, ahead of the row a fresh database would get at time 0.
Stored == {MkID(1, 1, 0)}
==============================================================================
