------------------------------ MODULE Addressing ------------------------------
(***************************************************************************)
(* Messaging and its readers between two users of any public ids: a send   *)
(* names the conversation by its id, and SendMessage finds the other user  *)
(* in it (messaging.go:351).  Public ids are drawn when the users register,*)
(* are unique (migration.go:42) and never change (store.go:269).           *)
(***************************************************************************)
EXTENDS Polling, ConvIds

VARIABLE publicID   \* of each user

avars == <<pvars, publicID>>

AInit ==
    /\ PInit
    /\ publicID \in [Users -> PublicIDs]
    /\ \A u, v \in Users : u # v => publicID[u] # publicID[v]

ConvID == LET u == CHOOSE v \in Users : TRUE IN PrivateConvID(publicID[u], publicID[Other(u)])

\* GetOtherPublicID and GetUserByPublicID, after GenerateID and before the
\* transaction: no third user has what they look for.
Finds(r) ==
    GetOtherPublicID(ConvID, publicID[req[r].user]) = publicID[Other(req[r].user)]

\* A send goes on, or is refused for another reason, only if it finds the other.
Serves ==
    /\ PNext
    /\ \A r \in Sends :
           req[r].pc = "permission" /\ req'[r] # req[r] => Finds(r) \/ req'[r].answer = "error"
    /\ UNCHANGED publicID

InvalidTarget(r) ==
    /\ req[r].pc = "permission" /\ ~ Finds(r)
    /\ Ends(r, "invalid")
    /\ UNCHANGED <<table, used, bounds, readers, publicID>>

ANext == Serves \/ \E r \in Sends : InvalidTarget(r)

ASpec == AInit /\ [][ANext]_avars

-----------------------------------------------------------------------------
\* No send between the two users is refused for want of the other: the id of their
\* conversation leads either of them to the other (conversation.go:39, :73), and
\* a message to a friend is sent (service_test.go:159).
OthersFound == \A r \in Sends : req[r].answer # "invalid"

HasUnderscore(id) == \E i \in DOMAIN id : id[i] = Underscore

LargerID ==
    LET ids == {publicID[u] : u \in Users}
    IN  CHOOSE id \in ids : \A other \in ids \ {id} : Less(other, id)

\* Who passes for a user of the conversation (conversation.go:64) is one.
OnlyTheirs ==
    \A id \in PublicIDs :
        CanAccessPrivateConv(ConvID, id) => \E u \in Users : publicID[u] = id
==============================================================================
