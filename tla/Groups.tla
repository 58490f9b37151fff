-------------------------------- MODULE Groups --------------------------------
(***************************************************************************)
(* Groups and their members: the service functions of groups.go with their *)
(* handlers, and DeleteUser of account.go, which deletes the groups an     *)
(* account owns in a transaction each before the one that deletes the      *)
(* account.  Concurrent calls, on any number of servers, over one Postgres *)
(* at READ COMMITTED.                                                      *)
(*                                                                         *)
(* One step is one SQL statement.  An open transaction holds the member    *)
(* rows it has inserted or deleted (call[p].rows), and before its commit   *)
(* the group or the account it has changed (HoldsGroup, HoldsUser); the    *)
(* tables change when it commits.  A statement that wants a held row waits.*)
(***************************************************************************)
EXTENDS Integers, FiniteSets

CONSTANTS
    Users,        \* the accounts at the start
    GroupIDs,     \* what GenerateGroupID may return: bounds the groups
    Names,        \* names of groups
    Calls,        \* the calls that may be made
    MaxFailures   \* bound: statements, COMMITs and notifications that fail

NoUser == "nobody"
NoGroup == "nogroup"

ASSUME GroupsAssumption ==
    /\ MaxFailures \in Nat
    /\ NoGroup \notin GroupIDs

VARIABLES
    accounts,   \* the users table
    groups,     \* the groups table, by group_id
    members,    \* the group_members table, by id
    nextID,     \* its BIGSERIAL
    call,       \* the calls: where each stands and what it holds
    outbox,     \* invitations that goSafe goroutines have yet to store
    notices,    \* messages stored in system_<uid> and group conversations
    failures

tables == <<accounts, groups, members, nextID>>
vars == <<tables, call, outbox, notices, failures>>

NewCall ==
    [step |-> "idle", kind |-> "none", user |-> NoUser, other |-> NoUser,
     key |-> NoGroup,                \* the id or name in the request
     group |-> NoGroup,              \* the group that was found or made for it
     todo |-> {}, rows |-> {}, answer |-> "none",
     saw |-> [rows |-> {}, gone |-> {}, owned |-> {}]]   \* see History

Init ==
    /\ accounts = Users /\ groups = [g \in {} |-> {}] /\ members = [i \in {} |-> {}]
    /\ nextID = 1 /\ call = [p \in Calls |-> NewCall]
    /\ outbox = {} /\ notices = {} /\ failures = 0

-----------------------------------------------------------------------------
Live == {g \in DOMAIN groups : ~groups[g].deleted}     \* is_deleted = 0
Owned(u) == {g \in Live : groups[g].owner = u}
RowsOf(g, u) == {i \in DOMAIN members : members[i].group = g /\ members[i].user = u}
InGroup(g) == {i \in DOMAIN members : members[i].group = g}
OfUser(u) == {i \in DOMAIN members : members[i].user = u}

InFlight(p) == call[p].step \notin {"idle", "done"}
Free(p, ids) == \A q \in Calls \ {p} : call[q].rows \cap ids = {}

\* The transaction that deletes u has only to commit: nobody may refer to u.
HoldsUser(p, u) == call[p].step = "commit" /\ call[p].kind = "forget"
                   /\ call[p].group = NoGroup /\ call[p].user = u

\* A new member row of u that is not committed keeps u's row (FOR KEY SHARE).
RefersTo(p, u) == call[p].step = "commit" /\ call[p].kind = "create" /\ call[p].user = u

\* What DeleteGroup is called with: the handler passes the request's id on.
Target(p) == IF call[p].kind = "delete" THEN call[p].key ELSE call[p].group

HoldsGroup(p, g) == call[p].step = "commit" /\ call[p].kind \in {"delete", "forget"}
                    /\ Target(p) = g

\* The foreign key of group_members: a row for u waits until u is there or gone.
UserSettled(p, u) == \A q \in Calls \ {p} : ~HoldsUser(q, u)

\* What was there when a call began, as far as its answer is about it.
History(kind, u) ==
    [rows |-> IF kind \in {"leave", "kick"} THEN DOMAIN members ELSE {},
     gone |-> IF kind = "join" THEN DOMAIN groups \ Live ELSE {},
     owned |-> IF kind = "forget" THEN Owned(u) ELSE {}]

Begins(p, kind, u, v, key, step) ==
    /\ call[p].step = "idle"
    /\ call' = [call EXCEPT ![p] =
          [step |-> step, kind |-> kind, user |-> u, other |-> v, key |-> key,
           group |-> NoGroup, todo |-> {}, rows |-> {}, answer |-> "none",
           saw |-> History(kind, u)]]
    /\ UNCHANGED <<tables, outbox, notices, failures>>

Becomes(p, step, group, todo, rows, answer) ==
    call' = [call EXCEPT ![p] =
        [step |-> step, kind |-> call[p].kind, user |-> call[p].user,
         other |-> call[p].other, key |-> call[p].key, group |-> group, todo |-> todo,
         rows |-> rows, answer |-> answer, saw |-> call[p].saw]]

Goes(p, step, group, rows) == Becomes(p, step, group, call[p].todo, rows, "none")

EndsWith(p, answer) == Becomes(p, "done", call[p].group, {}, {}, answer)

Reads == UNCHANGED <<tables, outbox, notices, failures>>

-----------------------------------------------------------------------------
(***************************************************************************)
(* CreateGroup: the group, then its owner as a member, in one transaction. *)
(***************************************************************************)
BeginCreate(p, u, name) == Begins(p, "create", u, u, name, "group")

\* A random id that nobody has.
InsertGroup(p, g) ==
    /\ call[p].step = "group"
    /\ g \notin DOMAIN groups /\ \A q \in Calls : call[q].group # g
    /\ Goes(p, "owner", g, {})
    /\ Reads

\* Nobody but p knows of the group: no member row of it can be in the way.
InsertOwner(p) ==
    /\ call[p].step = "owner" /\ UserSettled(p, call[p].user)
    /\ IF call[p].user \in accounts
       THEN Goes(p, "commit", call[p].group, {nextID}) /\ nextID' = nextID + 1
       ELSE EndsWith(p, "error") /\ UNCHANGED nextID
    /\ UNCHANGED <<accounts, groups, members, outbox, notices, failures>>

(***************************************************************************)
(* UpdateGroup and DeleteGroup begin with GetGroupByID, which takes an id  *)
(* or else a name, and the look at the owner.  UpdateGroup writes back the *)
(* group it found; DeleteGroup goes on with what the request named.        *)
(***************************************************************************)
BeginOwners(p, kind, u, key) ==
    kind \in {"update", "delete"} /\ Begins(p, kind, u, u, key, "find")

Found(key) == IF key \in Live THEN {key} ELSE {g \in Live : groups[g].name = key}

FindGroup(p) ==
    /\ call[p].step = "find"
    /\ \/ Found(call[p].key) = {} /\ EndsWith(p, "notfound")
       \/ \E g \in Found(call[p].key) :
             IF groups[g].owner # call[p].user THEN EndsWith(p, "forbidden")
             ELSE Goes(p, IF call[p].kind = "update" THEN "update" ELSE "members", g, {})
    /\ Reads

Renames(p, name, deleted) ==
    LET g == call[p].group IN
    /\ call[p].step = "update"
    /\ \A q \in Calls \ {p} : ~HoldsGroup(q, g)
    /\ groups' = [groups EXCEPT ![g] =
                    [name |-> name, owner |-> groups[g].owner, deleted |-> deleted]]
    /\ EndsWith(p, "ok")
    /\ UNCHANGED <<accounts, members, nextID, outbox, notices, failures>>

\* (A slip for WriteName: the flag is written back too, as it was read.)
WriteWholeGroup(p, name) == Renames(p, name, FALSE)

WriteName(p, name) == Renames(p, name, call[p].group \notin Live)

-----------------------------------------------------------------------------
(***************************************************************************)
(* DeleteGroup, for its handler and for DeleteUser: the members that are   *)
(* there, then the mark.                                                   *)
(***************************************************************************)
DeleteMembers(p) ==
    LET rows == InGroup(Target(p)) IN
    /\ call[p].step = "members" /\ Free(p, rows)
    /\ Goes(p, "mark", call[p].group, rows)
    /\ Reads

MarkDeleted(p) ==
    /\ call[p].step = "mark" /\ \A q \in Calls \ {p} : ~HoldsGroup(q, Target(p))
    /\ Goes(p, "commit", call[p].group, call[p].rows)
    /\ Reads

-----------------------------------------------------------------------------
(***************************************************************************)
(* AddMember for JoinGroup: a look at the group, an insert by itself, an   *)
(* invitation in a goroutine.                                              *)
(***************************************************************************)
BeginJoin(p, u, key) == Begins(p, "join", u, u, key, "exists")

\* (A slip for Exists: the mark is not looked at.)
ExistsMarked(key) == key \in DOMAIN groups

Exists(key) == key \in Live

CheckGroup(p) ==
    /\ call[p].step = "exists"
    /\ IF Exists(call[p].key) THEN Goes(p, "insert", call[p].key, {})
       ELSE EndsWith(p, "notfound")
    /\ Reads

Invitation(p) == [to |-> call[p].user, group |-> call[p].group, what |-> "invited"]

Joins(p) ==
    LET g == call[p].group
        u == call[p].user
    IN
    /\ call[p].step = "insert" /\ Free(p, RowsOf(g, u))
    /\ nextID' = nextID + 1
    /\ IF u \in accounts /\ RowsOf(g, u) = {}
       THEN /\ members' = [i \in DOMAIN members \cup {nextID} |->
                             IF i = nextID THEN [group |-> g, user |-> u, role |-> "member"]
                                           ELSE members[i]]
            /\ \/ EndsWith(p, "ok") /\ outbox' = outbox \cup {Invitation(p)}
                  /\ UNCHANGED failures
               \/ EndsWith(p, "error") /\ UNCHANGED outbox
                  /\ failures < MaxFailures /\ failures' = failures + 1
       ELSE /\ EndsWith(p, IF u \in accounts THEN "conflict" ELSE "error")
            /\ UNCHANGED <<members, outbox, failures>>
    /\ UNCHANGED <<accounts, groups, notices>>

\* ON CONFLICT DO NOTHING; an insert that took effect may be answered by an error.
InsertMember(p) == UserSettled(p, call[p].user) /\ Joins(p)

(***************************************************************************)
(* RemoveMember for LeaveGroup, and KickMember: a look at the row and its  *)
(* deletion in one transaction, which do not lock in between.              *)
(***************************************************************************)
BeginLeave(p, u, key) == Begins(p, "leave", u, u, key, "member")

BeginKick(p, u, v, key) == Begins(p, "kick", u, v, key, "rights")

\* KickMember's looks at the group and at both users.
CheckRights(p) ==
    /\ call[p].step = "rights"
    /\ IF call[p].key \notin Live THEN EndsWith(p, "notfound")
       ELSE IF groups[call[p].key].owner # call[p].user \/ call[p].other = call[p].user
       THEN EndsWith(p, "forbidden")
       ELSE IF call[p].other \notin accounts THEN EndsWith(p, "notfound")
       ELSE Goes(p, "member", call[p].key, {})
    /\ Reads

\* (A slip for MayGo: RemoveMember does not look at the role.)
AnyMayGo(p, i) == TRUE

MayGo(p, i) == call[p].kind = "kick" \/ members[i].role # "owner"

CheckMember(p) ==
    LET rows == RowsOf(call[p].key, call[p].other) IN
    /\ call[p].step = "member"
    /\ IF rows = {} THEN EndsWith(p, "notmember")
       ELSE IF \A i \in rows : MayGo(p, i) THEN Goes(p, "remove", call[p].key, {})
       ELSE EndsWith(p, "forbidden")
    /\ Reads

RemovesRows(p, rows) ==
    /\ call[p].step = "remove" /\ Free(p, rows)
    /\ Goes(p, "commit", call[p].key, rows)
    /\ Reads

\* (A slip for DeleteMember: the row of the caller, not of the member.)
DeleteCaller(p) == RemovesRows(p, RowsOf(call[p].key, call[p].user))

DeleteMember(p) == RemovesRows(p, RowsOf(call[p].key, call[p].other))

-----------------------------------------------------------------------------
(***************************************************************************)
(* DeleteUser: the groups it owns, each in a transaction, then its member  *)
(* rows and the account.  (Friend requests: module Friends.)               *)
(***************************************************************************)
BeginForget(p, u) == u \in accounts /\ Begins(p, "forget", u, u, NoGroup, "owned")

GetGroupsByOwner(p) ==
    /\ call[p].step = "owned"
    /\ Becomes(p, "next", NoGroup, Owned(call[p].user), {}, "none")
    /\ Reads

\* In any order; the code takes the newest first.
NextGroup(p, g) ==
    /\ call[p].step = "next" /\ g \in call[p].todo
    /\ Becomes(p, "members", g, call[p].todo \ {g}, {}, "none")
    /\ Reads

DeleteMemberships(p) ==
    LET rows == OfUser(call[p].user) IN
    /\ call[p].step = "next" /\ call[p].todo = {} /\ Free(p, rows)
    /\ Goes(p, "account", NoGroup, rows)
    /\ Reads

\* The rows that came since are deleted in cascade.
DeleteAccount(p) ==
    LET u == call[p].user IN
    /\ call[p].step = "account"
    /\ \A q \in Calls \ {p} : ~HoldsUser(q, u) /\ ~RefersTo(q, u)
    /\ Free(p, OfUser(u))
    /\ Goes(p, "commit", NoGroup, OfUser(u))
    /\ Reads

-----------------------------------------------------------------------------
(***************************************************************************)
(* Ends of transactions.                                                   *)
(***************************************************************************)
Made(p) == IF call[p].kind = "create" THEN {call[p].group} ELSE {}

Marked(p) ==
    IF call[p].kind \in {"delete", "forget"} THEN {Target(p)} \cap DOMAIN groups ELSE {}

Kicked(p) == IF call[p].kind = "kick"
             THEN {[to |-> call[p].other, group |-> call[p].group, what |-> "kicked"]} ELSE {}

\* What p's transaction makes of the tables; a kick stores its message with it.
TakesEffect(p) ==
    /\ call[p].step = "commit"
    /\ accounts' = IF call[p].kind = "forget" /\ call[p].group = NoGroup
                   THEN accounts \ {call[p].user} ELSE accounts
    /\ groups' = [g \in DOMAIN groups \cup Made(p) |->
                    IF g \in Made(p)
                    THEN [name |-> call[p].key, owner |-> call[p].user, deleted |-> FALSE]
                    ELSE [name |-> groups[g].name, owner |-> groups[g].owner,
                          deleted |-> groups[g].deleted \/ g \in Marked(p)]]
    /\ members' = IF call[p].kind = "create"
                  THEN [i \in DOMAIN members \cup call[p].rows |->
                          IF i \in DOMAIN members THEN members[i]
                          ELSE [group |-> call[p].group, user |-> call[p].user,
                                role |-> "owner"]]
                  ELSE [i \in DOMAIN members \ call[p].rows |-> members[i]]
    /\ notices' = notices \cup Kicked(p)
    /\ UNCHANGED <<nextID, outbox>>

\* DeleteUser goes on after a group; a call ends with its transaction.
Commit(p) ==
    /\ TakesEffect(p)
    /\ IF call[p].kind = "forget" /\ call[p].group # NoGroup
       THEN Goes(p, "next", NoGroup, {}) ELSE EndsWith(p, "ok")
    /\ UNCHANGED failures

CommitUnheard(p) ==
    /\ failures < MaxFailures /\ failures' = failures + 1
    /\ TakesEffect(p) /\ EndsWith(p, "error")

\* (Slips for Fail: DeleteUser goes on although a group could not be deleted;
\* the message of a kick is stored outside of its transaction.)
FailGoesOn(p) ==
    /\ InFlight(p) /\ failures < MaxFailures /\ failures' = failures + 1
    /\ IF call[p].kind = "forget" /\ call[p].group # NoGroup
       THEN Goes(p, "next", NoGroup, {}) ELSE EndsWith(p, "error")
    /\ UNCHANGED <<tables, outbox, notices>>

FailAnnouncing(p) ==
    /\ InFlight(p) /\ failures < MaxFailures /\ failures' = failures + 1
    /\ EndsWith(p, "error")
    /\ notices' = notices \cup (IF call[p].step = "commit" THEN Kicked(p) ELSE {})
    /\ UNCHANGED <<tables, outbox>>

\* A statement, the message or the COMMIT fails, or the server dies.
Fail(p) ==
    /\ InFlight(p) /\ failures < MaxFailures /\ failures' = failures + 1
    /\ EndsWith(p, "error")
    /\ UNCHANGED <<tables, outbox, notices>>

StoreNotice(n) ==
    /\ outbox' = outbox \ {n} /\ notices' = notices \cup {n}
    /\ UNCHANGED <<tables, call, failures>>

LoseNotice(n) ==
    /\ failures < MaxFailures /\ failures' = failures + 1
    /\ outbox' = outbox \ {n}
    /\ UNCHANGED <<tables, call, notices>>

Begin(p) ==
    \E u \in Users :
       \/ \E name \in Names : BeginCreate(p, u, name)
       \/ \E kind \in {"update", "delete"}, key \in DOMAIN groups \cup Names :
             BeginOwners(p, kind, u, key)
       \/ \E g \in DOMAIN groups : BeginJoin(p, u, g) \/ BeginLeave(p, u, g)
       \/ \E g \in DOMAIN groups, v \in Users : BeginKick(p, u, v, g)
       \/ BeginForget(p, u)

Proceed(p) ==
    \/ \E g \in GroupIDs : InsertGroup(p, g) \/ NextGroup(p, g)
    \/ \E name \in Names : WriteName(p, name)
    \/ InsertOwner(p) \/ FindGroup(p) \/ DeleteMembers(p) \/ MarkDeleted(p)
    \/ CheckGroup(p) \/ InsertMember(p) \/ CheckRights(p) \/ CheckMember(p)
    \/ DeleteMember(p) \/ GetGroupsByOwner(p) \/ DeleteMemberships(p) \/ DeleteAccount(p)
    \/ Commit(p)

Next ==
    \/ \E p \in Calls : Begin(p) \/ Proceed(p) \/ CommitUnheard(p) \/ Fail(p)
    \/ \E n \in outbox : StoreNotice(n) \/ LoseNotice(n)

Spec == Init /\ [][Next]_vars

-----------------------------------------------------------------------------
(***************************************************************************)
(* Properties.                                                             *)
(***************************************************************************)
Groups == [name : Names, owner : Users, deleted : BOOLEAN]
Members == [group : GroupIDs, user : Users, role : {"owner", "member"}]
IDs == 1 .. nextID - 1

Steps ==
    {"idle", "group", "owner", "find", "update", "members", "mark", "exists", "insert",
     "rights", "member", "remove", "owned", "next", "account", "commit", "done"}

Answers == {"none", "ok", "conflict", "notfound", "notmember", "forbidden", "error"}

CallType ==
    [step : Steps,
     kind : {"none", "create", "update", "delete", "join", "leave", "kick", "forget"},
     user : Users \cup {NoUser}, other : Users \cup {NoUser},
     key : GroupIDs \cup Names \cup {NoGroup}, group : GroupIDs \cup {NoGroup},
     todo : SUBSET GroupIDs, rows : SUBSET Nat,
     answer : Answers,
     saw : [rows : SUBSET Nat, gone : SUBSET GroupIDs, owned : SUBSET GroupIDs]]

NoticeType == [to : Users, group : GroupIDs, what : {"invited", "kicked"}]

TypeOK ==
    /\ accounts \subseteq Users
    /\ DOMAIN groups \subseteq GroupIDs /\ groups \in [DOMAIN groups -> Groups]
    /\ nextID \in Nat \ {0} /\ failures \in 0 .. MaxFailures
    /\ DOMAIN members \subseteq IDs /\ members \in [DOMAIN members -> Members]
    /\ call \in [Calls -> CallType]
    /\ \A p \in Calls : call[p].rows \subseteq IDs /\ call[p].saw.rows \subseteq IDs
    /\ outbox \subseteq NoticeType /\ notices \subseteq NoticeType

\* A group always has its owner as a member, as long as both are there: no leave,
\* kick or deletion, in whatever order they commit, leaves a group that nobody
\* inside of it may manage.
OwnerIsMember ==
    \A g \in Live : groups[g].owner \in accounts =>
        \E i \in RowsOf(g, groups[g].owner) : members[i].role = "owner"

\* Nobody is a member of a group twice, and no member row outlives its account,
\* though DeleteUser deletes the rows it sees before it deletes the account.
MembersAreAccounts ==
    /\ \A i, j \in DOMAIN members :
          i # j => members[i].group # members[j].group \/ members[i].user # members[j].user
    /\ \A i \in DOMAIN members : members[i].user \in accounts

\* The tables have their types and belong together (migration.go:52).
Inv == TypeOK /\ OwnerIsMember /\ MembersAreAccounts

\* Whoever was told that a membership has ended was told the truth: every
\* membership that was there when the call began is gone, although the look at
\* the row and its deletion are two statements without a lock.
RemovalsTake ==
    \A p \in Calls : call[p].kind \in {"leave", "kick"} /\ call[p].answer = "ok" =>
        RowsOf(call[p].key, call[p].other) \cap call[p].saw.rows = {}

\* A deleted group is joined only by a call that was on its way when the group
\* was deleted (AddMember looks at the group before it inserts).
JoinsFound ==
    \A p \in Calls : call[p].kind = "join" /\ call[p].answer = "ok" =>
        call[p].group \notin call[p].saw.gone

\* When DeleteUser succeeds, every group the account owned when it began is
\* deleted, and the account is gone, whatever failed or was retried before.
OwnedGone ==
    \A p \in Calls : call[p].kind = "forget" /\ call[p].answer = "ok" =>
        call[p].saw.owned \cap Live = {} /\ call[p].user \notin accounts

\* A group's conversation tells of a kick only if the kick took effect.
KicksAnnounced ==
    \A n \in notices : n.what = "kicked" =>
        \E p \in Calls :
            /\ call[p].kind = "kick" /\ call[p].key = n.group /\ call[p].other = n.to
            /\ call[p].step = "done" /\ RowsOf(n.group, n.to) \cap call[p].saw.rows = {}

\* A deleted group never comes back, and no group changes its owner, though
\* UpdateGroup writes what it read before.
StaysDeleted ==
    [][\A g \in DOMAIN groups :
          /\ g \in DOMAIN groups' /\ groups'[g].owner = groups[g].owner
          /\ groups[g].deleted => groups'[g].deleted]_vars
==============================================================================
