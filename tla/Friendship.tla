------------------------------ MODULE Friendship ------------------------------
(***************************************************************************)
(* What friend.go promises about friend requests, as if each call ran by   *)
(* itself: a request is asked once, answered at most once, and may vanish  *)
(* when it is withdrawn or an account of it is deleted.                    *)
(***************************************************************************)
CONSTANT Users

VARIABLE requests  \* the friend_requests rows, by id

Pending(u, v) ==
    {i \in DOMAIN requests :
        requests[i].from = u /\ requests[i].to = v /\ requests[i].status = "pending"}

\* At most one request is open from u to v.
Ask(u, v, id) ==
    /\ u # v /\ Pending(u, v) = {} /\ id \notin DOMAIN requests
    /\ requests' = [i \in DOMAIN requests \cup {id} |->
                        IF i = id THEN [from |-> u, to |-> v, status |-> "pending"]
                                  ELSE requests[i]]

Settle(id, status) ==
    /\ id \in DOMAIN requests /\ requests[id].status = "pending"
    /\ requests' = [i \in DOMAIN requests |->
                        IF i = id THEN [from |-> requests[i].from, to |-> requests[i].to,
                                        status |-> status]
                                  ELSE requests[i]]

Remove(ids) == requests' = [i \in DOMAIN requests \ ids |-> requests[i]]

Withdraw(id) == id \in DOMAIN requests /\ requests[id].status = "pending" /\ Remove({id})

Forget(u, ids) ==
    /\ \A i \in ids : i \in DOMAIN requests /\ u \in {requests[i].from, requests[i].to}
    /\ Remove(ids)

Init == requests = [i \in {} |-> {}]

Next ==
    \/ \E u, v \in Users, id \in DOMAIN requests' \ DOMAIN requests : Ask(u, v, id)
    \/ \E id \in DOMAIN requests :
          Settle(id, "accepted") \/ Settle(id, "rejected") \/ Withdraw(id)
    \/ \E u \in Users, ids \in SUBSET DOMAIN requests : Forget(u, ids)

Spec == Init /\ [][Next]_requests
==============================================================================
