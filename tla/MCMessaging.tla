----------------------------- MODULE MCMessaging -----------------------------
(***************************************************************************)
(* Messaging on small instances: two users, one client_msg_id each, a few  *)
(* requests.  There are as many identifiers as requests, so GenerateID     *)
(* always has one to give, and may give a smaller one later.               *)
(***************************************************************************)
EXTENDS Polling, TLC

CONSTANTS u1, u2, s1, s2, s3, r1, p1

TwoUsers == {u1, u2}
TwoSends == {s1, s2}
ThreeSends == {s1, s2, s3}
NoRecall == {}
OneRecall == {r1}
NoFollower == {}
OneFollower == {u1}
NoPager == {}
OnePager == {p1}

Symmetry ==
    Permutations(Sends) \cup Permutations(Recalls)
        \cup (IF Followers = {} THEN Permutations(Users) ELSE {})
==============================================================================
