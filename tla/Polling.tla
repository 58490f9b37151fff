------------------------------- MODULE Polling -------------------------------
(***************************************************************************)
(* The clients that read the conversation of Messaging, while requests are *)
(* served: followers, who ask /check whether a message has an id above     *)
(* their cursor and fetch the messages above it page by page               *)
(* (GetMessages with lastMsgId), and pagers, who go back from the newest   *)
(* message by page number (GetMessages with page).  A page is one query    *)
(* and sees what has committed; ids are not given out in commit order.     *)
(*                                                                         *)
(* What a client keeps between its calls is its own: it never moves its    *)
(* cursor on an empty page, whose last_msg_id is 0 (messaging.go:247).     *)
(***************************************************************************)
EXTENDS Messaging, FiniteSetsExt

CONSTANTS
    Followers,  \* the users that follow the conversation
    Pagers,     \* the clients that page through it, once each
    PageSize,   \* page_size, or what the configuration makes of it
    Times       \* the milliseconds in which messages are made

ASSUME PollingAssumption ==
    /\ Followers \subseteq Users /\ PageSize \in Nat \ {0} /\ 1 \notin Ids
    /\ Times \subseteq Nat

VARIABLES
    follower, pager,
    ts          \* of each stored message

readers == <<follower, pager, ts>>
pvars == <<vars, readers>>

Stored == DOMAIN messages

\* 1 is the least lastMsgId that GetMessages accepts, and no message's id.
FirstCursor == 1

NewFollower ==
    [pc |-> "check", cursor |-> FirstCursor,
     held |-> {},         \* the messages it was given
     passed |-> {},       \* history: those stored behind its cursor
     caughtUp |-> FALSE]  \* history: nothing came since it was told "no more"

NewPager ==
    [page |-> 1, held |-> {}, done |-> FALSE,
     owed |-> {}]  \* history: what was stored when it read its first page

PInit ==
    /\ Init
    /\ follower = [f \in Followers |-> NewFollower]
    /\ pager = [p \in Pagers |-> NewPager]
    /\ ts = [i \in {} |-> 0]

-----------------------------------------------------------------------------
(***************************************************************************)
(* A step of the servers: what it stores is behind some cursors.  The ts   *)
(* is read from the clock after the id is drawn and before the transaction *)
(* begins: it follows neither the ids nor the commits, and may be another  *)
(* message's, too.                                                         *)
(***************************************************************************)
Serve ==
    /\ Next
    /\ follower' = [f \in Followers |->
           IF DOMAIN messages' = Stored THEN follower[f]
           ELSE [pc |-> follower[f].pc, cursor |-> follower[f].cursor, held |-> follower[f].held,
                 passed |-> follower[f].passed
                     \cup {i \in DOMAIN messages' \ Stored : i <= follower[f].cursor},
                 caughtUp |-> FALSE]]
    /\ \E t \in Times :
           ts' = [i \in DOMAIN messages' |-> IF i \in Stored THEN ts[i] ELSE t]
    /\ UNCHANGED pager

(***************************************************************************)
(* CheckNewMessages: is the conversation among those of the user's rows    *)
(* that have a message above lastMsgId?  The other bit of the status tells *)
(* of friend requests, and does not bear on messages.                      *)
(***************************************************************************)
Updated(f) == f \in participants /\ \E i \in Stored : i > follower[f].cursor

Check(f) ==
    /\ follower[f].pc = "check" /\ Updated(f)
    /\ follower' = [follower EXCEPT ![f].pc = "fetch"]
    /\ UNCHANGED <<vars, pager, ts>>

(***************************************************************************)
(* GetMessagesAfter(lastMsgID, limit): the page of the smallest ids above  *)
(* the cursor, cut to limit - 1; has_more if there was one to cut.         *)
(***************************************************************************)
Above(cursor) == {i \in Stored : i > cursor}
FirstOf(n, S) == {i \in S : Cardinality({j \in S : j <= i}) <= n}
LastId(S) == Max(S)

RowsAfter(cursor, limit) == FirstOf(limit, Above(cursor))

\* (Slips for Page: last_msg_id is that of the row that was cut; has_more is
\* len(messages) > limit.)
PageUncut(cursor, limit) ==
    LET rows == RowsAfter(cursor, limit)
        page == FirstOf(limit - 1, rows)
    IN  [messages |-> page, hasMore |-> Cardinality(rows) > limit - 1,
         lastId |-> IF page = {} THEN 0 ELSE LastId(rows)]

PageNoMore(cursor, limit) ==
    LET rows == RowsAfter(cursor, limit)
        page == FirstOf(limit - 1, rows)
    IN  [messages |-> page, hasMore |-> Cardinality(rows) > limit,
         lastId |-> IF page = {} THEN 0 ELSE LastId(page)]

Page(cursor, limit) ==
    LET rows == RowsAfter(cursor, limit)
        page == FirstOf(limit - 1, rows)
    IN  [messages |-> page, hasMore |-> Cardinality(rows) > limit - 1,
         lastId |-> IF page = {} THEN 0 ELSE LastId(page)]

Fetch(f) ==
    /\ follower[f].pc = "fetch"
    /\ LET page == Page(follower[f].cursor, PageSize + 1)
       IN  follower' = [follower EXCEPT ![f] =
               [pc |-> IF page.hasMore THEN "fetch" ELSE "check",
                held |-> @.held \cup page.messages,
                cursor |-> IF page.lastId = 0 THEN @.cursor ELSE page.lastId,
                passed |-> @.passed, caughtUp |-> ~ page.hasMore]]
    /\ UNCHANGED <<vars, pager, ts>>

(***************************************************************************)
(* GetConversationMessages(limit, offset): ORDER BY ts DESC and nothing    *)
(* else, so that each query may order the messages of one ts in a way of   *)
(* its own.  An order gives each message the number of those before it.    *)
(***************************************************************************)
Orders ==
    {order \in Bijection(Stored, 0 .. Cardinality(Stored) - 1) :
        \A i, j \in Stored : ts[i] > ts[j] => order[i] < order[j]}

RowsAt(order, limit, offset) ==
    {i \in Stored : offset <= order[i] /\ order[i] < offset + limit}

Reads(p, messagesRead, hasMore) ==
    /\ ~ pager[p].done
    /\ pager' = [pager EXCEPT ![p] =
           [page |-> @.page + 1, held |-> @.held \cup messagesRead, done |-> ~ hasMore,
            owed |-> IF @.page = 1 THEN Stored ELSE @.owed]]
    /\ UNCHANGED <<vars, follower, ts>>

\* (A slip for ReadPage: the offset counts the extra row.)
ReadPageSkipping(p) ==
    \E order \in Orders :
        LET offset == (pager[p].page - 1) * (PageSize + 1)
        IN  Reads(p, RowsAt(order, PageSize, offset),
                  Cardinality(RowsAt(order, PageSize + 1, offset)) > PageSize)

\* Of the rows of the query, one more than the page, the first are shown.
ReadPage(p) ==
    \E order \in Orders :
        LET offset == (pager[p].page - 1) * PageSize
        IN  Reads(p, RowsAt(order, PageSize, offset),
                  Cardinality(RowsAt(order, PageSize + 1, offset)) > PageSize)

PNext ==
    \/ Serve
    \/ \E f \in Followers : Check(f) \/ Fetch(f)
    \/ \E p \in Pagers : ReadPage(p)

PSpec == PInit /\ [][PNext]_pvars

\* Besides the requests' steps (Messaging), a follower goes on asking.
PFairSpec ==
    PSpec /\ Fairness /\ \A f \in Followers : WF_pvars(Check(f) \/ Fetch(f))

-----------------------------------------------------------------------------
\* A follower's cursor never passes a stored message that it was not given:
\* the only messages it lacks behind its cursor are those that a request with
\* a smaller id stored later (store.go:496), and it holds none of those.
OnlyLateAreMissed ==
    \A f \in Followers :
        {i \in Stored : i <= follower[f].cursor} \ follower[f].held = follower[f].passed

\* A follower that was told "has_more": false holds every message, recall
\* notices among them, that was not stored behind its cursor, until one comes.
CaughtUp ==
    \A f \in Followers :
        follower[f].caughtUp => Stored = follower[f].held \cup follower[f].passed

\* What a follower has is what it ought to have (messaging.go:171).
FollowersHold == OnlyLateAreMissed /\ CaughtUp

\* Another message has the same millisecond.
Tied(i) == \E j \in Stored \ {i} : ts[j] = ts[i]

\* A client that pages back to the end is given every message that was stored
\* when it began and shares its ts with no other, whatever is stored between its
\* pages (messaging.go:182): messages of one ts may change places between two
\* queries (store.go:361), and only they can be lost.
PagingLosesTiesOnly ==
    \A p \in Pagers : pager[p].done => \A i \in pager[p].owed \ pager[p].held : Tied(i)

\* A message stored ahead of a follower's cursor reaches it, page by page, as
\* long as the follower keeps its account.
Delivered ==
    \A f \in Followers, i \in Ids :
        i \in Stored /\ i \notin follower[f].passed
            ~> i \in follower[f].held \/ f \in deleted
==============================================================================
