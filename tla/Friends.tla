------------------------------- MODULE Friends -------------------------------
(***************************************************************************)
(* Friend requests: the service functions of friend.go and DeleteUser of   *)
(* account.go as concurrent calls, on any number of servers, over one      *)
(* Postgres at READ COMMITTED.                                             *)
(*                                                                         *)
(* One step is one SQL statement.  An open transaction holds the rows it   *)
(* has inserted, updated or deleted (call[p].rows); the table changes when *)
(* it commits, and a statement of another call that wants one of the rows  *)
(* waits and then looks at the row again.  Notifications are stored by a   *)
(* goroutine after the commit, or lost.                                    *)
(***************************************************************************)
EXTENDS Integers, FiniteSets

CONSTANTS
    Users,        \* the accounts at the start
    Calls,        \* the calls that may be made
    MaxFailures   \* bound: statements, COMMITs and notifications that fail

ASSUME FriendsAssumption == MaxFailures \in Nat

VARIABLES
    accounts,   \* the users table
    requests,   \* the friend_requests table, by id
    nextID,     \* its BIGSERIAL
    call,       \* the calls: where each stands and what it holds
    outbox,     \* notifications that goSafe goroutines have yet to store
    notices,    \* notifications stored in system_<uid> conversations
    failures

vars == <<accounts, requests, nextID, call, outbox, notices, failures>>

NoUser == "nobody"

NewCall ==
    [step |-> "idle", kind |-> "none", user |-> NoUser, other |-> NoUser, id |-> 0,
     does |-> "none",      \* what its transaction has written
     rows |-> {},          \* to which rows
     answer |-> "none",
     seen |-> {}]          \* history: the requests stored when it began

Init ==
    /\ accounts = Users /\ requests = [i \in {} |-> {}] /\ nextID = 1
    /\ call = [p \in Calls |-> NewCall]
    /\ outbox = {} /\ notices = {} /\ failures = 0

-----------------------------------------------------------------------------
Abstract == INSTANCE Friendship WITH Users <- Users, requests <- requests
Pending(u, v) == Abstract!Pending(u, v)

Holds(p) == call[p].step = "commit"
InFlight(p) == call[p].step \notin {"idle", "done"}

\* Nobody else's open transaction holds one of the rows.
Free(p, ids) == \A q \in Calls \ {p} : Holds(q) => call[q].rows \cap ids = {}

\* An insert meets the unique index idx_friend_requests_pending_unique: it waits
\* for open transactions that insert or change a row with its key.
KeyFree(p, u, v) ==
    /\ Free(p, Pending(u, v))
    /\ \A q \in Calls \ {p} :
          Holds(q) /\ call[q].does = "insert" => <<call[q].user, call[q].other>> # <<u, v>>

Begins(p, kind, u, v, id, step) ==
    /\ call[p].step = "idle"
    /\ call' = [call EXCEPT ![p] =
          [step |-> step, kind |-> kind, user |-> u, other |-> v, id |-> id, does |-> "none",
           rows |-> {}, answer |-> "none", seen |-> DOMAIN requests]]
    /\ UNCHANGED <<accounts, requests, nextID, outbox, notices, failures>>

Becomes(p, step, does, rows, answer) ==
    call' = [call EXCEPT ![p] =
        [step |-> step, kind |-> call[p].kind, user |-> call[p].user,
         other |-> call[p].other, id |-> call[p].id, does |-> does, rows |-> rows,
         answer |-> answer, seen |-> call[p].seen]]

Goes(p, step) == Becomes(p, step, "none", {}, "none")

Writes(p, effect, ids) == Becomes(p, "commit", effect, ids, "none")

\* The end of a call that has changed nothing, or whose changes are rolled back.
EndsWith(p, answer) == Becomes(p, "done", "none", {}, answer)

-----------------------------------------------------------------------------
(***************************************************************************)
(* SendFriendRequest.  The receiver must exist when it begins; the sender  *)
(* is whoever the token names.                                             *)
(***************************************************************************)
BeginSend(p, u, v) == u # v /\ v \in accounts /\ Begins(p, "send", u, v, 0, "reverse")

\* What AcceptPendingTx makes of the open requests it has found.
AcceptsOrGoesOn(p, found) ==
    /\ call[p].step = "reverse"
    /\ IF found = {} THEN Goes(p, "insert") ELSE Writes(p, "accepted", found)
    /\ UNCHANGED <<accounts, requests, nextID, outbox, notices, failures>>

\* (Slips for AcceptReverse: a locked request is passed over; the key's
\* columns are swapped.)
AcceptReverseSkipLocked(p) ==
    AcceptsOrGoesOn(p, {i \in Pending(call[p].other, call[p].user) : Free(p, {i})})

AcceptReverseOwn(p) ==
    LET found == Pending(call[p].user, call[p].other) IN
    Free(p, found) /\ AcceptsOrGoesOn(p, found)

\* AcceptPendingTx: a request of the other user's that is open is accepted.
AcceptReverse(p) ==
    LET found == Pending(call[p].other, call[p].user) IN
    Free(p, found) /\ AcceptsOrGoesOn(p, found)

Inserts(p) ==
    /\ call[p].step = "insert"
    /\ IF Pending(call[p].user, call[p].other) # {}
       THEN EndsWith(p, "conflict")
       ELSE Writes(p, "insert", {nextID})
    /\ nextID' = nextID + 1
    /\ UNCHANGED <<accounts, requests, outbox, notices, failures>>

\* (A slip for InsertRequest: no unique index, only a look.)
InsertUnguarded(p) == Inserts(p)

\* The sequence moves on, whether the insert meets a duplicate or not.
InsertRequest(p) == KeyFree(p, call[p].user, call[p].other) /\ Inserts(p)

(***************************************************************************)
(* AcceptFriendRequest, RejectFriendRequest, CancelFriendRequest of any    *)
(* user, with an id that was given out once.                               *)
(***************************************************************************)
BeginAnswer(p, kind, u, id) ==
    Begins(p, kind, u, u, id, IF kind = "accept" THEN "exists" ELSE "answer")

CheckExists(p) ==
    /\ call[p].step = "exists"
    /\ IF call[p].id \in DOMAIN requests THEN Goes(p, "answer") ELSE EndsWith(p, "notfound")
    /\ UNCHANGED <<accounts, requests, nextID, outbox, notices, failures>>

\* (A slip for Answerable: the status is not asked for.)
AnswerableAgain(kind, u) ==
    {i \in DOMAIN requests :
        u = IF kind = "cancel" THEN requests[i].from ELSE requests[i].to}

Answerable(kind, u) ==
    {i \in DOMAIN requests :
        /\ requests[i].status = "pending"
        /\ u = IF kind = "cancel" THEN requests[i].from ELSE requests[i].to}

Effect(kind) ==
    CASE kind = "accept" -> "accepted"
      [] kind = "reject" -> "rejected"
      [] OTHER -> "delete"

Answers(p, found) ==
    /\ call[p].step = "answer"
    /\ IF found = {}
       THEN EndsWith(p, IF call[p].kind = "accept" THEN "forbidden" ELSE "notfound")
       ELSE Writes(p, Effect(call[p].kind), found)
    /\ UNCHANGED <<accounts, requests, nextID, outbox, notices, failures>>

\* (A slip for Answer: what was read before the wait decides.)
AnswerStale(p) ==
    Answers(p, {call[p].id} \cap Answerable(call[p].kind, call[p].user))

\* AcceptByIDTx, RejectTx, CancelTx: one statement finds and changes the row.
Answer(p) ==
    LET found == {call[p].id} \cap Answerable(call[p].kind, call[p].user) IN
    Free(p, found) /\ Answers(p, found)

(***************************************************************************)
(* DeleteUser, as far as it touches friend requests: DeleteByUser deletes  *)
(* the rows it sees, the account goes with the commit.                     *)
(***************************************************************************)
BeginForget(p, u) == u \in accounts /\ Begins(p, "forget", u, u, 0, "forget")

ForgetRequests(p) ==
    LET found == {i \in DOMAIN requests :
                     call[p].user \in {requests[i].from, requests[i].to}} IN
    /\ call[p].step = "forget" /\ Free(p, found)
    /\ Writes(p, "delete", found)
    /\ UNCHANGED <<accounts, requests, nextID, outbox, notices, failures>>

-----------------------------------------------------------------------------
(***************************************************************************)
(* Ends of transactions.                                                   *)
(***************************************************************************)
\* What p's transaction makes of the table.
Changed(p) ==
    CASE call[p].does = "insert" ->
            [i \in DOMAIN requests \cup call[p].rows |->
                IF i \in call[p].rows
                THEN [from |-> call[p].user, to |-> call[p].other, status |-> "pending"]
                ELSE requests[i]]
      [] call[p].does = "delete" -> [i \in DOMAIN requests \ call[p].rows |-> requests[i]]
      [] OTHER ->
            [i \in DOMAIN requests |->
                IF i \in call[p].rows
                THEN [from |-> requests[i].from, to |-> requests[i].to,
                      status |-> call[p].does]
                ELSE requests[i]]

Notice(u, id, action) == [to |-> u, about |-> id, action |-> action]

\* After an acceptance by Send it is the caller who is told, not the user whose
\* request was accepted.
Announced(p) ==
    CASE call[p].kind = "send" /\ call[p].does = "insert" ->
            {Notice(call[p].other, i, "received") : i \in call[p].rows}
      [] call[p].kind = "send" /\ call[p].does = "accepted" ->
            {Notice(call[p].user, i, "accepted") : i \in call[p].rows}
      [] call[p].kind = "accept" ->
            {Notice(requests[i].from, i, "accepted") : i \in call[p].rows}
      [] OTHER -> {}

Commits(p, answer) ==
    /\ call[p].step = "commit"
    /\ requests' = Changed(p)
    /\ accounts' = IF call[p].kind = "forget" THEN accounts \ {call[p].user} ELSE accounts
    /\ Becomes(p, "done", call[p].does, call[p].rows, answer)

Commit(p) ==
    /\ Commits(p, "ok")
    /\ outbox' = outbox \cup Announced(p)
    /\ UNCHANGED <<nextID, notices, failures>>

\* The COMMIT takes effect, but the caller gets an error and tells nobody.
CommitUnheard(p) ==
    /\ failures < MaxFailures /\ failures' = failures + 1
    /\ Commits(p, "error")
    /\ UNCHANGED <<nextID, outbox, notices>>

\* (A slip for Fail: the notification goes out although nothing is committed.)
FailAnnouncing(p) ==
    /\ InFlight(p) /\ failures < MaxFailures /\ failures' = failures + 1
    /\ EndsWith(p, "error")
    /\ outbox' = outbox \cup (IF Holds(p) THEN Announced(p) ELSE {})
    /\ UNCHANGED <<accounts, requests, nextID, notices>>

\* A statement or the COMMIT fails, or the server dies: Postgres rolls back.
Fail(p) ==
    /\ InFlight(p) /\ failures < MaxFailures /\ failures' = failures + 1
    /\ EndsWith(p, "error")
    /\ UNCHANGED <<accounts, requests, nextID, outbox, notices>>

StoreNotice(n) ==
    /\ outbox' = outbox \ {n} /\ notices' = notices \cup {n}
    /\ UNCHANGED <<accounts, requests, nextID, call, failures>>

\* GenerateID or the insert fails, five seconds pass, or the server dies.
LoseNotice(n) ==
    /\ failures < MaxFailures /\ failures' = failures + 1
    /\ outbox' = outbox \ {n}
    /\ UNCHANGED <<accounts, requests, nextID, call, notices>>

Begin(p) ==
    \/ \E u, v \in Users : BeginSend(p, u, v)
    \/ \E kind \in {"accept", "reject", "cancel"}, u \in Users, id \in 1 .. nextID - 1 :
          BeginAnswer(p, kind, u, id)
    \/ \E u \in Users : BeginForget(p, u)

Proceed(p) ==
    \/ AcceptReverse(p) \/ InsertRequest(p) \/ CheckExists(p) \/ Answer(p)
    \/ ForgetRequests(p) \/ Commit(p)

Next ==
    \/ \E p \in Calls : Begin(p) \/ Proceed(p) \/ CommitUnheard(p) \/ Fail(p)
    \/ \E n \in outbox : StoreNotice(n) \/ LoseNotice(n)

Spec == Init /\ [][Next]_vars

-----------------------------------------------------------------------------
(***************************************************************************)
(* Properties.                                                             *)
(***************************************************************************)
Status == {"pending", "accepted", "rejected"}
Requests == [from : Users, to : Users, status : Status]
IDs == 1 .. nextID - 1

CallType ==
    [step : {"idle", "reverse", "insert", "exists", "answer", "forget", "commit", "done"},
     kind : {"none", "send", "accept", "reject", "cancel", "forget"},
     user : Users \cup {NoUser}, other : Users \cup {NoUser}, id : Nat,
     does : {"none", "insert", "accepted", "rejected", "delete"}, rows : SUBSET Nat,
     answer : {"none", "ok", "conflict", "notfound", "forbidden", "error"},
     seen : SUBSET Nat]

NoticeType == [to : Users, about : Nat, action : {"received", "accepted"}]

TypeOK ==
    /\ accounts \subseteq Users
    /\ nextID \in Nat \ {0} /\ failures \in 0 .. MaxFailures
    /\ DOMAIN requests \subseteq IDs
    /\ requests \in [DOMAIN requests -> Requests]
    /\ call \in [Calls -> CallType]
    /\ \A p \in Calls :
          /\ call[p].rows \subseteq IDs /\ call[p].seen \subseteq IDs
          /\ call[p].step # "idle" => call[p].user \in Users /\ call[p].other \in Users
    /\ outbox \subseteq NoticeType /\ notices \subseteq NoticeType
    /\ \A n \in outbox \cup notices : n.about \in IDs

\* However calls interleave, at most one request is open from one user to another
\* (the partial unique index of migration.go:95).
OnePending == \A u, v \in Users : \A i, j \in Pending(u, v) : i = j

\* A caller who was told that a request was accepted, rejected or withdrawn was
\* told the truth, and nobody else was told anything else of it: the row still
\* says so, unless an account deletion has removed it.
AnswersHold ==
    \A p \in Calls : call[p].answer = "ok" /\ call[p].kind # "forget" =>
        /\ call[p].does \in {"accepted", "rejected"} =>
              \A i \in call[p].rows \cap DOMAIN requests : requests[i].status = call[p].does
        /\ call[p].does = "delete" => call[p].rows \cap DOMAIN requests = {}
        /\ \A q \in Calls \ {p} :
              call[q].answer = "ok" /\ call[q].kind # "forget" /\ call[q].rows \cap call[p].rows # {}
              => "insert" \in {call[p].does, call[q].does}

\* Whoever asks while the other's request is open makes them friends: two
\* requests that cross are both open only if the later was begun before the
\* earlier was stored.
CrossingAccepted ==
    \A p \in Calls : call[p].does = "insert" =>
        \A j \in call[p].rows \cap Pending(call[p].user, call[p].other) :
            Pending(call[p].other, call[p].user) \cap call[p].seen = {}

\* Two users are friends only if both wanted to be: one asked, and it was the
\* other who accepted that request or asked as well.
BothWanted ==
    \A i \in DOMAIN requests : requests[i].status = "accepted" =>
        /\ \E p \in Calls : /\ call[p].does = "insert" /\ i \in call[p].rows
                           /\ call[p].user = requests[i].from
        /\ \E p \in Calls : /\ call[p].does = "accepted" /\ i \in call[p].rows
                           /\ call[p].user = requests[i].to

\* A notification, stored or on its way, tells of what is committed, and only to
\* the users of the request.
NoticesTrue ==
    \A n \in outbox \cup notices : n.about \in DOMAIN requests =>
        /\ n.action = "accepted" => requests[n.about].status = "accepted"
        /\ n.to \in {requests[n.about].from, requests[n.about].to}

\* The calls together behave as if each ran by itself.
Serialised == Abstract!Spec
-----------------------------------------------------------------------------
(***************************************************************************)
(* The inductive invariant: what the row locks and the unique index keep.  *)
(***************************************************************************)
\* Only an open or ended transaction has written anything.
OnlyHeld ==
    \A p \in Calls :
        /\ call[p].answer # "none" => call[p].step = "done"
        /\ call[p].step \notin {"commit", "done"} => call[p].does = "none"
        /\ call[p].step = "commit" => call[p].does # "none"
        /\ call[p].does = "none" => call[p].rows = {}
        /\ call[p].step # "idle" /\ call[p].kind = "send" => call[p].user # call[p].other
        /\ call[p].step \in {"reverse", "insert"} => call[p].kind = "send"
        /\ call[p].step \in {"exists", "answer"} => call[p].kind \in {"accept", "reject", "cancel"}
        /\ call[p].step = "forget" => call[p].kind = "forget"

\* A row that an open transaction holds is as the transaction found it.
HeldRows ==
    \A p \in Calls : Holds(p) =>
        LET does == call[p].does
            u == call[p].user
        IN
        IF does = "insert"
        THEN /\ call[p].kind = "send" /\ Pending(u, call[p].other) = {}
             /\ \E i \in IDs : call[p].rows = {i} /\ i \notin DOMAIN requests
        ELSE IF call[p].kind = "forget"
        THEN /\ does = "delete"
             /\ \A i \in call[p].rows :
                   i \in DOMAIN requests /\ u \in {requests[i].from, requests[i].to}
        ELSE \E i \in DOMAIN requests :
                /\ call[p].rows = {i} /\ requests[i].status = "pending"
                /\ does = "accepted" => requests[i].to = u
                /\ call[p].kind = "accept" => does = "accepted"

HeldApart ==
    \A p, q \in Calls : p # q /\ Holds(p) /\ Holds(q) => call[p].rows \cap call[q].rows = {}

InsertsApart ==
    \A p, q \in Calls :
        p # q /\ Holds(p) /\ Holds(q) /\ call[p].does = "insert" /\ call[q].does = "insert"
        => <<call[p].user, call[p].other>> # <<call[q].user, call[q].other>>

\* Nobody knows of a request before it is committed.
Unknown ==
    \A p \in Calls : Holds(p) /\ call[p].does = "insert" =>
        /\ \A q \in Calls : /\ call[p].rows \cap call[q].seen = {}
                            /\ q # p => call[p].rows \cap call[q].rows = {}
        /\ \A n \in outbox \cup notices : n.about \notin call[p].rows

\* A stored request was inserted by a call of its sender.
AskedBy ==
    \A i \in DOMAIN requests : \E p \in Calls :
        /\ call[p].does = "insert" /\ i \in call[p].rows
        /\ call[p].user = requests[i].from /\ call[p].other = requests[i].to

\* A call that is to insert, or has, found no request of the other's.
PassedBy ==
    \A p \in Calls : call[p].step = "insert" \/ call[p].does = "insert" =>
        Pending(call[p].other, call[p].user) \cap call[p].seen = {}

IInv ==
    /\ TypeOK /\ OnlyHeld /\ HeldRows /\ HeldApart /\ InsertsApart /\ Unknown
    /\ AskedBy /\ PassedBy /\ BothWanted /\ OnePending /\ AnswersHold /\ NoticesTrue
==============================================================================
