----------------------------- MODULE GroupsProofs -----------------------------
(***************************************************************************)
(* Proofs about Groups, for any number of accounts, groups and calls and   *)
(* any failures.                                                           *)
(*                                                                         *)
(* The invariant is a conjunction of what holds of the tables, of each     *)
(* call by itself and of pairs of calls.  A step of one call keeps what    *)
(* holds of another because it changes the tables only in ways that the    *)
(* other can rely on (Rely).                                               *)
(***************************************************************************)
EXTENDS Groups, TLAPS

\* What else holds of the tables: a member row belongs to a group that is there.
TablesFit ==
    /\ \A i \in DOMAIN members : members[i].group \in DOMAIN groups
    /\ \A n \in outbox : n.what = "invited"

\* The statement a call is at fits what the call does.
KindFits(p) ==
    /\ call[p].step = "idle" => call[p].kind = "none"
    /\ call[p].step \in {"group", "owner"} => call[p].kind = "create"
    /\ call[p].step = "find" => call[p].kind \in {"update", "delete"}
    /\ call[p].step = "update" => call[p].kind = "update"
    /\ call[p].step \in {"members", "mark"} => call[p].kind \in {"delete", "forget"}
    /\ call[p].step \in {"exists", "insert"} => call[p].kind = "join"
    /\ call[p].step = "rights" => call[p].kind = "kick"
    /\ call[p].step \in {"member", "remove"} => call[p].kind \in {"leave", "kick"}
    /\ call[p].step \in {"owned", "next", "account"} => call[p].kind = "forget"
    /\ call[p].step = "commit" =>
          call[p].kind \in {"create", "delete", "leave", "kick", "forget"}
    /\ call[p].step \notin {"mark", "account", "commit"} => call[p].rows = {}
    /\ call[p].step # "done" => call[p].answer = "none"
    /\ call[p].kind # "none" => call[p].user \in Users /\ call[p].other \in Users

\* CreateGroup: the group is not there yet, and before the commit the account is.
CreateFits(p) ==
    call[p].kind = "create" =>
        /\ call[p].key \in Names
        /\ call[p].step \in {"owner", "commit"} => call[p].group \in GroupIDs \ DOMAIN groups
        /\ call[p].step = "commit" =>
              /\ call[p].user \in accounts
              /\ \E i \in IDs \ DOMAIN members : call[p].rows = {i}

\* UpdateGroup has found a group that is there; DeleteGroup holds rows of no
\* other group than its own.
OwnersFit(p) ==
    /\ call[p].step = "update" => call[p].group \in DOMAIN groups
    /\ call[p].kind = "delete" => call[p].key \in DOMAIN groups \cup Names
    /\ call[p].kind = "delete" \/ (call[p].kind = "forget" /\ call[p].group # NoGroup) =>
          \A i \in call[p].rows : i \in DOMAIN members => members[i].group = Target(p)

\* Exists has seen a group that was not deleted when the call began.
JoinFits(p) ==
    call[p].kind = "join" =>
        /\ call[p].saw.gone \subseteq DOMAIN groups /\ call[p].saw.gone \cap Live = {}
        /\ call[p].step = "insert" => call[p].group \in DOMAIN groups \ call[p].saw.gone

\* A removal never takes the row of the owner of a group that is not deleted, and
\* at its commit holds what it must remove.
RemoveFits(p) ==
    call[p].kind \in {"leave", "kick"} =>
        /\ call[p].key \in DOMAIN groups
        /\ call[p].step \in {"remove", "commit"} /\ call[p].key \in Live =>
              groups[call[p].key].owner # call[p].other
        /\ call[p].kind = "kick" /\ call[p].step = "member" =>
              groups[call[p].key].owner # call[p].other
        /\ call[p].kind = "leave" => call[p].other = call[p].user
        /\ call[p].step = "commit" =>
              /\ call[p].group = call[p].key
              /\ \A i \in call[p].rows : i \in DOMAIN members =>
                    members[i].group = call[p].key /\ members[i].user = call[p].other
              /\ RowsOf(call[p].key, call[p].other) \cap call[p].saw.rows \subseteq call[p].rows

\* DeleteUser has deleted, or has still to do, each group the account owned.
ForgetFits(p) ==
    call[p].kind = "forget" =>
        /\ call[p].todo \subseteq GroupIDs
        /\ \A g \in call[p].saw.owned : g \in DOMAIN groups /\ groups[g].owner = call[p].user
        /\ call[p].step = "next" => call[p].group = NoGroup
        /\ call[p].step \in {"next", "members", "mark", "commit"} =>
              call[p].saw.owned \cap Live \subseteq call[p].todo \cup {call[p].group}
        /\ call[p].step = "account" \/ (call[p].step = "commit" /\ call[p].group = NoGroup) =>
              call[p].saw.owned \cap Live = {}
        /\ call[p].step \in {"members", "mark"} => call[p].group # NoGroup
        /\ call[p].step = "commit" /\ call[p].group = NoGroup =>
              OfUser(call[p].user) = call[p].rows \cap DOMAIN members

\* All of it, of one call.
CallFits(p) ==
    /\ KindFits(p) /\ CreateFits(p) /\ OwnersFit(p)
    /\ JoinFits(p) /\ RemoveFits(p) /\ ForgetFits(p)

\* Two calls of CreateGroup make two groups; a row that is to be inserted is held
\* by nobody else, and its account by no DeleteUser.
Apart(p, q) ==
    /\ /\ call[p].kind = "create" /\ call[p].step \in {"owner", "commit"}
       /\ call[q].kind = "create" /\ call[q].step \in {"owner", "commit"}
       => call[p].group # call[q].group
    /\ call[p].kind = "create" /\ call[p].step = "commit" =>
          call[p].rows \cap call[q].rows = {} /\ ~HoldsUser(q, call[p].user)

\* What a call that is done has been told is true (RemovalsTake, JoinsFound,
\* OwnedGone).
ToldFits(p) ==
    call[p].answer = "ok" =>
        /\ call[p].kind \in {"leave", "kick"} =>
              RowsOf(call[p].key, call[p].other) \cap call[p].saw.rows = {}
        /\ call[p].kind = "join" => call[p].group \notin call[p].saw.gone
        /\ call[p].kind = "forget" =>
              call[p].saw.owned \cap Live = {} /\ call[p].user \notin accounts

\* What holds of the tables between any two steps.
TablesInv == OwnerIsMember /\ MembersAreAccounts /\ TablesFit

\* The inductive invariant.
IInv ==
    /\ TypeOK /\ TablesInv /\ KicksAnnounced
    /\ \A p \in Calls : CallFits(p) /\ ToldFits(p)
    /\ \A p, q \in Calls : p # q => Apart(p, q)

USE GroupsAssumption

\* It holds at first.
LEMMA InitInv == Init => IInv
<1> SUFFICES ASSUME Init PROVE IInv
  OBVIOUS
<1>1. TypeOK
  BY DEF Init, NewCall, TypeOK, CallType, Steps, Answers
<1>2. TablesInv /\ KicksAnnounced
  BY DEF Init, TablesInv, OwnerIsMember, MembersAreAccounts, TablesFit, Live,
     KicksAnnounced
<1>3. ASSUME NEW p \in Calls
      PROVE  CallFits(p) /\ ToldFits(p)
  BY DEF Init, NewCall, CallFits, KindFits, CreateFits, OwnersFit, JoinFits,
     RemoveFits, ForgetFits, ToldFits
<1>4. ASSUME NEW p \in Calls, NEW q \in Calls
      PROVE  Apart(p, q)
  BY DEF Init, NewCall, Apart
<1>. QED
  BY <1>1, <1>2, <1>3, <1>4 DEF IInv

-----------------------------------------------------------------------------
(***************************************************************************)
(* What a call can rely on while others make a step.                       *)
(***************************************************************************)
\* A group stays, with its owner, and stays deleted.
GroupsKept ==
    \A g \in DOMAIN groups :
        /\ g \in DOMAIN groups' /\ groups'[g].owner = groups[g].owner
        /\ groups[g].deleted => groups'[g].deleted

\* What a step of another call, or of nobody, does to the tables: rows only go, but for a
\* new group's and a new member's, which no rows that q holds are in the way of.
Rely(q) ==
    /\ accounts' \subseteq accounts
    /\ nextID' \in Nat /\ nextID <= nextID'
    /\ GroupsKept
    /\ \A i \in DOMAIN members' :
          /\ i \in DOMAIN members => members'[i] = members[i]
          /\ i \notin DOMAIN members =>
                /\ i \notin call[q].rows
                /\ i \notin IDs \/ members'[i].group \notin DOMAIN groups
                /\ HoldsUser(q, call[q].user) => members'[i].user # call[q].user
    /\ call[q].kind = "create" =>
          /\ call[q].step \in {"owner", "commit"} => call[q].group \notin DOMAIN groups'
          /\ call[q].step = "commit" => call[q].user \in accounts'

\* That is enough for a call that does not move itself.
LEMMA RelyKeeps ==
  ASSUME IInv, NEW q \in Calls, Rely(q), call'[q] = call[q]
  PROVE  CallFits(q)' /\ ToldFits(q)'
<1>1. TypeOK /\ CallFits(q) /\ ToldFits(q)
  BY DEF IInv
<1>2. call[q] \in CallType /\ call[q].rows \subseteq IDs /\ call[q].saw.rows \subseteq IDs
  BY <1>1 DEF TypeOK
<1>3. KindFits(q)'
  BY <1>1 DEF CallFits, KindFits
<1>4. CreateFits(q)'
  BY <1>1 DEF CallFits, CreateFits, Rely, IDs, TypeOK
<1>5. OwnersFit(q)'
  BY <1>1 DEF CallFits, OwnersFit, Rely, GroupsKept, Target
<1>6. \A g \in DOMAIN groups : g \in Live' => g \in Live
  BY DEF Rely, GroupsKept, Live
<1>7. JoinFits(q)'
  BY <1>1, <1>6 DEF CallFits, JoinFits, Rely, GroupsKept
<1>8. call[q].kind \in {"leave", "kick"} =>
         RowsOf(call[q].key, call[q].other)' \cap call[q].saw.rows
            \subseteq RowsOf(call[q].key, call[q].other)
  BY <1>1, <1>2 DEF CallFits, RemoveFits, RowsOf, Rely
<1>9. RemoveFits(q)'
  BY <1>1, <1>6, <1>8 DEF CallFits, RemoveFits, Rely, GroupsKept
<1>10. ForgetFits(q)'
  BY <1>1, <1>6 DEF CallFits, ForgetFits, Rely, GroupsKept, OfUser, HoldsUser
<1>11. ToldFits(q)'
  BY <1>1, <1>6, <1>8 DEF CallFits, ForgetFits, ToldFits, Rely
<1>. QED
  BY <1>3, <1>4, <1>5, <1>7, <1>9, <1>10, <1>11 DEF CallFits

\* A kick that took effect keeps its effect, so what was announced stays true.
LEMMA AnnouncedStays ==
  ASSUME IInv, \A q \in Calls : call[q].step = "done" => Rely(q) /\ call'[q] = call[q],
         NEW n \in notices, n.what = "kicked"
  PROVE  \E q \in Calls :
            /\ call'[q].kind = "kick" /\ call'[q].key = n.group
            /\ call'[q].other = n.to /\ call'[q].step = "done"
            /\ RowsOf(n.group, n.to)' \cap call'[q].saw.rows = {}
<1>1. PICK q \in Calls :
         /\ call[q].kind = "kick" /\ call[q].key = n.group /\ call[q].other = n.to
         /\ call[q].step = "done" /\ RowsOf(n.group, n.to) \cap call[q].saw.rows = {}
  BY DEF IInv, KicksAnnounced
<1>3. call[q].saw.rows \subseteq IDs /\ call[q].key \in DOMAIN groups
  BY <1>1 DEF IInv, TypeOK, CallFits, RemoveFits
<1>4. RowsOf(n.group, n.to)' \cap call[q].saw.rows = {}
  BY <1>1, <1>3 DEF Rely, RowsOf
<1>. QED
  BY <1>1, <1>4

-----------------------------------------------------------------------------
(***************************************************************************)
(* Steps of one call.                                                      *)
(***************************************************************************)
\* A step of p keeps IInv if the others can rely on it and p fits afterwards.
LEMMA StepKeeps ==
  ASSUME IInv, NEW p \in Calls,
         \A q \in Calls \ {p} :
            /\ Rely(q) /\ call'[q] = call[q]
            /\ Apart(p, q)' /\ Apart(q, p)',
         TypeOK', TablesInv', KicksAnnounced', CallFits(p)', ToldFits(p)'
  PROVE  IInv'
<1>1. \A q \in Calls : CallFits(q)' /\ ToldFits(q)'
  BY RelyKeeps
<1>2. ASSUME NEW q \in Calls, NEW r \in Calls, q # r
      PROVE  Apart(q, r)'
  BY <1>2 DEF IInv, Apart, HoldsUser
<1>. QED
  BY <1>1, <1>2 DEF IInv

\* A step that leaves the tables alone.
LEMMA QuietStep ==
  ASSUME IInv, NEW p \in Calls, call[p].step # "done",
         accounts' = accounts, groups' = groups, members' = members,
         nextID' \in Nat, nextID <= nextID',
         outbox' = outbox, notices' = notices, failures' \in 0 .. MaxFailures,
         call' \in [Calls -> CallType], call'[p].answer # "ok",
         \A i \in call'[p].rows \cup call'[p].saw.rows : i \in Nat /\ 0 < i /\ i < nextID',
         \A q \in Calls \ {p} : call'[q] = call[q] /\ Apart(p, q)' /\ Apart(q, p)',
         CallFits(p)'
  PROVE  IInv'
<1>1. TypeOK
  BY DEF IInv
<1>2. TypeOK'
  BY <1>1 DEF TypeOK, IDs
<1>3. \A q \in Calls : Rely(q)
  BY DEF Rely, GroupsKept, IInv, CallFits, CreateFits
<1>4. TablesInv' /\ ToldFits(p)'
  BY DEF IInv, TablesInv, OwnerIsMember, MembersAreAccounts, TablesFit, Live, RowsOf,
     ToldFits
<1>5. KicksAnnounced'
  BY <1>3, AnnouncedStays DEF KicksAnnounced
<1>. QED
  BY <1>2, <1>3, <1>4, <1>5, StepKeeps

\* Most of them only look, or lock rows that are there.
LEMMA QuietKeeps ==
  ASSUME IInv, NEW p \in Calls, InFlight(p),
         accounts' = accounts, groups' = groups, members' = members, nextID' = nextID,
         outbox' = outbox, notices' = notices, failures' \in 0 .. MaxFailures,
         call' \in [Calls -> CallType], \A q \in Calls \ {p} : call'[q] = call[q],
         call'[p].kind = call[p].kind, call'[p].saw = call[p].saw, call'[p].answer # "ok",
         call'[p].rows \subseteq DOMAIN members \/ call'[p].rows = call[p].rows,
         call'[p].step \in {"owner", "commit"} => call[p].kind # "create",
         call'[p].step = "commit" /\ call[p].kind = "forget" => call'[p].group # NoGroup,
         CallFits(p)'
  PROVE  IInv'
<1>1. TypeOK
  BY DEF IInv
<1>2. ASSUME NEW q \in Calls \ {p}
      PROVE  Apart(p, q)' /\ Apart(q, p)'
  <2>1. Apart(q, p) /\ CreateFits(q) /\ call'[q] = call[q]
    BY DEF IInv, CallFits
  <2>2. Apart(p, q)'
    BY DEF Apart
  <2>3. Apart(q, p)'
    BY <2>1 DEF Apart, HoldsUser, CreateFits
  <2>. QED
    BY <2>2, <2>3
<1>3. \A i \in call'[p].rows \cup call'[p].saw.rows : i \in Nat /\ 0 < i /\ i < nextID'
  BY <1>1 DEF TypeOK, IDs
<1>4. nextID' \in Nat /\ nextID <= nextID' /\ call[p].step # "done"
  BY <1>1 DEF TypeOK, InFlight
<1>. QED
  BY <1>2, <1>3, <1>4, QuietStep

\* A call that ends forgets what it was at.
LEMMA EndedFits ==
  ASSUME IInv, NEW p \in Calls, NEW answer \in Answers, EndsWith(p, answer),
         InFlight(p), GroupsKept
  PROVE  /\ call' \in [Calls -> CallType] /\ \A q \in Calls \ {p} : call'[q] = call[q]
         /\ call'[p].kind = call[p].kind /\ call'[p].user = call[p].user
         /\ call'[p].other = call[p].other /\ call'[p].key = call[p].key
         /\ call'[p].saw = call[p].saw /\ call'[p].step = "done"
         /\ call'[p].group = call[p].group
         /\ call'[p].todo = {} /\ call'[p].rows = {} /\ call'[p].answer = answer
         /\ CallFits(p)'
<1>1. TypeOK /\ CallFits(p) /\ KindFits(p) /\ call[p] \in CallType
  BY DEF IInv, TypeOK, CallFits
<1>2. /\ call' \in [Calls -> CallType] /\ \A q \in Calls \ {p} : call'[q] = call[q]
  BY <1>1 DEF EndsWith, Becomes, TypeOK, CallType, Steps
<1>3. /\ call'[p].kind = call[p].kind /\ call'[p].user = call[p].user
      /\ call'[p].other = call[p].other /\ call'[p].key = call[p].key
      /\ call'[p].saw = call[p].saw /\ call'[p].step = "done"
      /\ call'[p].group = call[p].group
      /\ call'[p].todo = {} /\ call'[p].rows = {} /\ call'[p].answer = answer
  BY <1>1 DEF EndsWith, Becomes, TypeOK
<1>4. CallFits(p)'
  <2>1. KindFits(p)'
    BY <1>1, <1>3 DEF KindFits
  <2>2. CreateFits(p)'
    BY <1>1, <1>3 DEF CallFits, CreateFits
  <2>3. OwnersFit(p)'
    BY <1>1, <1>3 DEF CallFits, OwnersFit, GroupsKept
  <2>4. JoinFits(p)'
    BY <1>1, <1>3 DEF CallFits, JoinFits, Live, GroupsKept
  <2>5. RemoveFits(p)'
    BY <1>1, <1>3 DEF CallFits, RemoveFits, GroupsKept
  <2>6. ForgetFits(p)'
    BY <1>1, <1>3 DEF CallFits, ForgetFits, GroupsKept
  <2>. QED
    BY <2>1, <2>2, <2>3, <2>4, <2>5, <2>6 DEF CallFits
<1>. QED
  BY <1>2, <1>3, <1>4

\* A call that ends without success claims nothing.
LEMMA EndsKeeps ==
  ASSUME IInv, NEW p \in Calls, NEW answer \in Answers \ {"ok"}, EndsWith(p, answer),
         UNCHANGED <<tables, outbox, notices>>, failures' \in 0 .. MaxFailures, InFlight(p)
  PROVE  IInv'
<1>1. accounts' = accounts /\ groups' = groups /\ members' = members /\ nextID' = nextID
  BY DEF tables
<1>2. GroupsKept
  BY <1>1 DEF GroupsKept
<1>. QED
  BY <1>1, <1>2, EndedFits, QuietKeeps

\* DeleteGroup deletes the rows of the group.
LEMMA DeleteMembersKeeps ==
  ASSUME IInv, NEW p \in Calls, DeleteMembers(p)
  PROVE  IInv'
<1>1. /\ TypeOK /\ CallFits(p) /\ KindFits(p) /\ call[p].step = "members" /\ InFlight(p)
      /\ call[p] \in CallType
      /\ Becomes(p, "mark", call[p].group, call[p].todo, InGroup(Target(p)), "none")
      /\ accounts' = accounts /\ groups' = groups /\ members' = members /\ nextID' = nextID
      /\ outbox' = outbox /\ notices' = notices /\ failures' \in 0 .. MaxFailures
  BY DEF IInv, CallFits, TypeOK, DeleteMembers, Goes, Reads, tables, InFlight
<1>2. /\ call[p].kind \in {"delete", "forget"} /\ call[p].user \in Users
      /\ call[p].other \in Users
      /\ call[p].group \in GroupIDs \cup {NoGroup} /\ call[p].todo \subseteq GroupIDs
      /\ InGroup(Target(p)) \subseteq Nat
  BY <1>1 DEF CallType, KindFits, TypeOK, InGroup, IDs
<1>3. /\ call'[p].kind = call[p].kind /\ call'[p].user = call[p].user
      /\ call'[p].other = call[p].other /\ call'[p].key = call[p].key
      /\ call'[p].saw = call[p].saw /\ call'[p].step = "mark"
      /\ call'[p].group = call[p].group
      /\ call'[p].todo = call[p].todo /\ call'[p].rows = InGroup(Target(p))
      /\ call'[p].answer = "none"
  BY <1>1 DEF Becomes, TypeOK
<1>4. /\ call' \in [Calls -> CallType] /\ \A q \in Calls \ {p} : call'[q] = call[q]
  BY <1>1, <1>2 DEF Becomes, TypeOK, CallType, Steps, Answers
<1>5. CallFits(p)'
  <2>1. KindFits(p)'
    BY <1>2, <1>3 DEF KindFits
  <2>2. CreateFits(p)' /\ JoinFits(p)' /\ RemoveFits(p)'
    BY <1>2, <1>3 DEF CreateFits, JoinFits, RemoveFits
  <2>3. OwnersFit(p)'
    BY <1>1, <1>3 DEF CallFits, OwnersFit, InGroup, Target
  <2>4. ForgetFits(p)'
    BY <1>1, <1>3 DEF CallFits, ForgetFits, Live
  <2>. QED
    BY <2>1, <2>2, <2>3, <2>4 DEF CallFits
<1>6. call'[p].rows \subseteq DOMAIN members \/ call'[p].rows = call[p].rows
  BY <1>3 DEF InGroup
<1>. QED
  BY <1>1, <1>3, <1>4, <1>5, <1>6, QuietKeeps

\* DeleteGroup marks the group.
LEMMA MarkDeletedKeeps ==
  ASSUME IInv, NEW p \in Calls, MarkDeleted(p)
  PROVE  IInv'
<1>1. /\ TypeOK /\ CallFits(p) /\ KindFits(p) /\ call[p].step = "mark" /\ InFlight(p)
      /\ call[p] \in CallType
      /\ Becomes(p, "commit", call[p].group, call[p].todo, call[p].rows, "none")
      /\ accounts' = accounts /\ groups' = groups /\ members' = members /\ nextID' = nextID
      /\ outbox' = outbox /\ notices' = notices /\ failures' \in 0 .. MaxFailures
  BY DEF IInv, CallFits, TypeOK, MarkDeleted, Goes, Reads, tables, InFlight
<1>2. /\ call[p].kind \in {"delete", "forget"} /\ call[p].user \in Users
      /\ call[p].other \in Users
      /\ call[p].group \in GroupIDs \cup {NoGroup} /\ call[p].todo \subseteq GroupIDs
      /\ call[p].rows \subseteq Nat
  BY <1>1 DEF CallType, KindFits
<1>3. /\ call'[p].kind = call[p].kind /\ call'[p].user = call[p].user
      /\ call'[p].other = call[p].other /\ call'[p].key = call[p].key
      /\ call'[p].saw = call[p].saw /\ call'[p].step = "commit"
      /\ call'[p].group = call[p].group
      /\ call'[p].todo = call[p].todo /\ call'[p].rows = call[p].rows
      /\ call'[p].answer = "none"
  BY <1>1 DEF Becomes, TypeOK
<1>4. /\ call' \in [Calls -> CallType] /\ \A q \in Calls \ {p} : call'[q] = call[q]
  BY <1>1 DEF Becomes, TypeOK, CallType, Steps, Answers
<1>5. CallFits(p)'
  <2>1. KindFits(p)'
    BY <1>2, <1>3 DEF KindFits
  <2>2. CreateFits(p)' /\ JoinFits(p)' /\ RemoveFits(p)'
    BY <1>2, <1>3 DEF CreateFits, JoinFits, RemoveFits
  <2>3. OwnersFit(p)'
    BY <1>1, <1>3 DEF CallFits, OwnersFit, Target
  <2>4. ForgetFits(p)'
    BY <1>1, <1>3 DEF CallFits, ForgetFits, Live
  <2>. QED
    BY <2>1, <2>2, <2>3, <2>4 DEF CallFits
<1>. QED
  BY <1>1, <1>2, <1>3, <1>4, <1>5, QuietKeeps DEF CallFits, ForgetFits

\* RemoveMember and KickMember delete the row that is there now.
LEMMA DeleteMemberKeeps ==
  ASSUME IInv, NEW p \in Calls, DeleteMember(p)
  PROVE  IInv'
<1>1. /\ TypeOK /\ CallFits(p) /\ KindFits(p) /\ call[p].step = "remove" /\ InFlight(p)
      /\ call[p] \in CallType
      /\ Becomes(p, "commit", call[p].key, call[p].todo,
                 RowsOf(call[p].key, call[p].other), "none")
      /\ accounts' = accounts /\ groups' = groups /\ members' = members /\ nextID' = nextID
      /\ outbox' = outbox /\ notices' = notices /\ failures' \in 0 .. MaxFailures
  BY DEF IInv, CallFits, TypeOK, DeleteMember, RemovesRows, Goes, Reads, tables,
     InFlight
<1>2. /\ call[p].kind \in {"leave", "kick"} /\ call[p].user \in Users
      /\ call[p].other \in Users
      /\ call[p].key \in GroupIDs \cup {NoGroup} /\ call[p].todo \subseteq GroupIDs
      /\ RowsOf(call[p].key, call[p].other) \subseteq Nat
  BY <1>1 DEF CallType, KindFits, TypeOK, RowsOf, IDs, CallFits, RemoveFits
<1>3. /\ call'[p].kind = call[p].kind /\ call'[p].user = call[p].user
      /\ call'[p].other = call[p].other /\ call'[p].key = call[p].key
      /\ call'[p].saw = call[p].saw /\ call'[p].step = "commit"
      /\ call'[p].group = call[p].key
      /\ call'[p].todo = call[p].todo /\ call'[p].rows = RowsOf(call[p].key, call[p].other)
      /\ call'[p].answer = "none"
  BY <1>1 DEF Becomes, TypeOK
<1>4. /\ call' \in [Calls -> CallType] /\ \A q \in Calls \ {p} : call'[q] = call[q]
  BY <1>1, <1>2 DEF Becomes, TypeOK, CallType, Steps, Answers
<1>5. CallFits(p)'
  <2>1. KindFits(p)'
    BY <1>2, <1>3 DEF KindFits
  <2>2. CreateFits(p)' /\ OwnersFit(p)' /\ JoinFits(p)' /\ ForgetFits(p)'
    BY <1>2, <1>3 DEF CreateFits, OwnersFit, JoinFits, ForgetFits
  <2>3. RemoveFits(p)'
    BY <1>1, <1>3 DEF CallFits, RemoveFits, Live, RowsOf
  <2>. QED
    BY <2>1, <2>2, <2>3 DEF CallFits
<1>6. call'[p].rows \subseteq DOMAIN members \/ call'[p].rows = call[p].rows
  BY <1>3 DEF RowsOf
<1>. QED
  BY <1>1, <1>2, <1>3, <1>4, <1>5, <1>6, QuietKeeps

\* DeleteUser goes on to the next group.
LEMMA NextGroupKeeps ==
  ASSUME IInv, NEW p \in Calls, NEW g \in GroupIDs, NextGroup(p, g)
  PROVE  IInv'
<1>1. /\ TypeOK /\ CallFits(p) /\ KindFits(p) /\ call[p].step = "next" /\ InFlight(p)
      /\ call[p] \in CallType /\ Becomes(p, "members", g, call[p].todo \ {g}, {}, "none")
      /\ accounts' = accounts /\ groups' = groups /\ members' = members /\ nextID' = nextID
      /\ outbox' = outbox /\ notices' = notices /\ failures' \in 0 .. MaxFailures
  BY DEF IInv, CallFits, TypeOK, NextGroup, Reads, tables, InFlight
<1>2. /\ call[p].kind \in {"forget"} /\ call[p].user \in Users /\ call[p].other \in Users
      /\ g \in GroupIDs \cup {NoGroup} /\ call[p].todo \ {g} \subseteq GroupIDs
      /\ {} \subseteq Nat
  BY <1>1 DEF CallType, KindFits
<1>3. /\ call'[p].kind = call[p].kind /\ call'[p].user = call[p].user
      /\ call'[p].other = call[p].other /\ call'[p].key = call[p].key
      /\ call'[p].saw = call[p].saw /\ call'[p].step = "members" /\ call'[p].group = g
      /\ call'[p].todo = call[p].todo \ {g} /\ call'[p].rows = {}
      /\ call'[p].answer = "none"
  BY <1>1 DEF Becomes, TypeOK
<1>4. /\ call' \in [Calls -> CallType] /\ \A q \in Calls \ {p} : call'[q] = call[q]
  BY <1>1 DEF Becomes, TypeOK, CallType, Steps, Answers
<1>5. CallFits(p)'
  <2>1. KindFits(p)'
    BY <1>2, <1>3 DEF KindFits
  <2>2. CreateFits(p)' /\ JoinFits(p)' /\ RemoveFits(p)'
    BY <1>2, <1>3 DEF CreateFits, JoinFits, RemoveFits
  <2>3. OwnersFit(p)'
    BY <1>2, <1>3 DEF OwnersFit
  <2>4. ForgetFits(p)'
    BY <1>1, <1>3 DEF CallFits, ForgetFits, Live, TypeOK
  <2>. QED
    BY <2>1, <2>2, <2>3, <2>4 DEF CallFits
<1>. QED
  BY <1>1, <1>3, <1>4, <1>5, QuietKeeps

\* DeleteUser reads what the account owns: all that it owned before and is not deleted.
LEMMA GetGroupsByOwnerKeeps ==
  ASSUME IInv, NEW p \in Calls, GetGroupsByOwner(p)
  PROVE  IInv'
<1>1. /\ TypeOK /\ CallFits(p) /\ KindFits(p) /\ call[p].step = "owned" /\ InFlight(p)
      /\ call[p] \in CallType
      /\ Becomes(p, "next", NoGroup, Owned(call[p].user), {}, "none")
      /\ accounts' = accounts /\ groups' = groups /\ members' = members /\ nextID' = nextID
      /\ outbox' = outbox /\ notices' = notices /\ failures' \in 0 .. MaxFailures
  BY DEF IInv, CallFits, TypeOK, GetGroupsByOwner, Reads, tables, InFlight
<1>2. /\ call[p].kind \in {"forget"} /\ call[p].user \in Users /\ call[p].other \in Users
      /\ NoGroup \in GroupIDs \cup {NoGroup} /\ Owned(call[p].user) \subseteq GroupIDs
      /\ {} \subseteq Nat
  BY <1>1 DEF KindFits, TypeOK, Owned, Live
<1>3. /\ call'[p].kind = call[p].kind /\ call'[p].user = call[p].user
      /\ call'[p].other = call[p].other /\ call'[p].key = call[p].key
      /\ call'[p].saw = call[p].saw /\ call'[p].step = "next" /\ call'[p].group = NoGroup
      /\ call'[p].todo = Owned(call[p].user) /\ call'[p].rows = {}
      /\ call'[p].answer = "none"
  BY <1>1 DEF Becomes, TypeOK
<1>4. /\ call' \in [Calls -> CallType] /\ \A q \in Calls \ {p} : call'[q] = call[q]
  BY <1>1, <1>2 DEF Becomes, TypeOK, CallType, Steps, Answers
<1>5. CallFits(p)'
  <2>1. KindFits(p)'
    BY <1>2, <1>3 DEF KindFits
  <2>2. CreateFits(p)' /\ JoinFits(p)' /\ RemoveFits(p)'
    BY <1>2, <1>3 DEF CreateFits, JoinFits, RemoveFits
  <2>3. OwnersFit(p)'
    BY <1>2, <1>3 DEF OwnersFit
  <2>4. ForgetFits(p)'
    BY <1>1, <1>2, <1>3 DEF CallFits, ForgetFits, Live, Owned
  <2>. QED
    BY <2>1, <2>2, <2>3, <2>4 DEF CallFits
<1>. QED
  BY <1>1, <1>3, <1>4, <1>5, QuietKeeps

\* DeleteUser deletes the member rows of the account.
LEMMA DeleteMembershipsKeeps ==
  ASSUME IInv, NEW p \in Calls, DeleteMemberships(p)
  PROVE  IInv'
<1>1. /\ TypeOK /\ CallFits(p) /\ KindFits(p) /\ call[p].step = "next" /\ InFlight(p)
      /\ call[p].todo = {}
      /\ call[p] \in CallType
      /\ Becomes(p, "account", NoGroup, call[p].todo, OfUser(call[p].user), "none")
      /\ accounts' = accounts /\ groups' = groups /\ members' = members /\ nextID' = nextID
      /\ outbox' = outbox /\ notices' = notices /\ failures' \in 0 .. MaxFailures
  BY DEF IInv, CallFits, TypeOK, DeleteMemberships, Goes, Reads, tables, InFlight
<1>2. /\ call[p].kind \in {"forget"} /\ call[p].user \in Users /\ call[p].other \in Users
      /\ NoGroup \in GroupIDs \cup {NoGroup} /\ call[p].todo \subseteq GroupIDs
      /\ OfUser(call[p].user) \subseteq Nat
  BY <1>1 DEF KindFits, TypeOK, OfUser, IDs
<1>3. /\ call'[p].kind = call[p].kind /\ call'[p].user = call[p].user
      /\ call'[p].other = call[p].other /\ call'[p].key = call[p].key
      /\ call'[p].saw = call[p].saw /\ call'[p].step = "account" /\ call'[p].group = NoGroup
      /\ call'[p].todo = call[p].todo /\ call'[p].rows = OfUser(call[p].user)
      /\ call'[p].answer = "none"
  BY <1>1 DEF Becomes, TypeOK
<1>4. /\ call' \in [Calls -> CallType] /\ \A q \in Calls \ {p} : call'[q] = call[q]
  BY <1>1, <1>2 DEF Becomes, TypeOK, CallType, Steps, Answers
<1>5. CallFits(p)'
  <2>1. KindFits(p)'
    BY <1>2, <1>3 DEF KindFits
  <2>2. CreateFits(p)' /\ JoinFits(p)' /\ RemoveFits(p)'
    BY <1>2, <1>3 DEF CreateFits, JoinFits, RemoveFits
  <2>3. OwnersFit(p)'
    BY <1>2, <1>3 DEF OwnersFit
  <2>4. ForgetFits(p)'
    BY <1>1, <1>3 DEF CallFits, ForgetFits, Live, TypeOK
  <2>. QED
    BY <2>1, <2>2, <2>3, <2>4 DEF CallFits
<1>6. call'[p].rows \subseteq DOMAIN members \/ call'[p].rows = call[p].rows
  BY <1>3 DEF OfUser
<1>. QED
  BY <1>1, <1>3, <1>4, <1>5, <1>6, QuietKeeps

\* UpdateGroup and DeleteGroup find the group and look at its owner.
LEMMA FindGroupKeeps ==
  ASSUME IInv, NEW p \in Calls, FindGroup(p)
  PROVE  IInv'
<1>1. /\ TypeOK /\ CallFits(p) /\ KindFits(p) /\ call[p].step = "find" /\ InFlight(p)
      /\ call[p] \in CallType
      /\ accounts' = accounts /\ groups' = groups /\ members' = members /\ nextID' = nextID
      /\ outbox' = outbox /\ notices' = notices /\ failures' \in 0 .. MaxFailures
  BY DEF IInv, CallFits, TypeOK, FindGroup, Reads, tables, InFlight
<1>2. call[p].kind \in {"update", "delete"} /\ call[p].user \in Users /\ call[p].other \in Users
  BY <1>1 DEF KindFits
<1>3. ASSUME NEW answer \in Answers \ {"ok"}, EndsWith(p, answer)
      PROVE  IInv'
  BY <1>1, <1>3, EndsKeeps DEF tables
<1>4. ASSUME NEW g \in Found(call[p].key),
             Goes(p, IF call[p].kind = "update" THEN "update" ELSE "members", g, {})
      PROVE  IInv'
  <2>1. g \in GroupIDs /\ g \in DOMAIN groups
    BY <1>1 DEF Found, Live, TypeOK
  <2>2. /\ call'[p].kind = call[p].kind /\ call'[p].user = call[p].user
        /\ call'[p].other = call[p].other /\ call'[p].key = call[p].key
        /\ call'[p].saw = call[p].saw
        /\ call'[p].step = (IF call[p].kind = "update" THEN "update" ELSE "members")
        /\ call'[p].group = g
        /\ call'[p].todo = call[p].todo /\ call'[p].rows = {}
        /\ call'[p].answer = "none"
    BY <1>1, <1>4 DEF Goes, Becomes, TypeOK
  <2>3. Goes(p, (IF call[p].kind = "update" THEN "update" ELSE "members"), g, {})
    BY <1>4
  <2>4. /\ call' \in [Calls -> CallType] /\ \A q \in Calls \ {p} : call'[q] = call[q]
    BY <1>1, <2>1, <2>3 DEF Goes, Becomes, TypeOK, CallType, Steps, Answers
  <2>5. CallFits(p)'
    <3>1. KindFits(p)'
      BY <1>2, <2>2 DEF KindFits
    <3>2. CreateFits(p)' /\ JoinFits(p)' /\ RemoveFits(p)' /\ ForgetFits(p)'
      BY <1>2, <2>2 DEF CreateFits, JoinFits, RemoveFits, ForgetFits
    <3>3. OwnersFit(p)'
      BY <1>1, <2>1, <2>2 DEF CallFits, OwnersFit
    <3>. QED
      BY <3>1, <3>2, <3>3 DEF CallFits
  <2>. QED
    BY <1>1, <2>2, <2>4, <2>5, QuietKeeps
<1>. QED
  BY <1>3, <1>4 DEF FindGroup, Answers

\* JoinGroup looks whether the group is there.
LEMMA CheckGroupKeeps ==
  ASSUME IInv, NEW p \in Calls, CheckGroup(p)
  PROVE  IInv'
<1>1. /\ TypeOK /\ CallFits(p) /\ KindFits(p) /\ call[p].step = "exists" /\ InFlight(p)
      /\ call[p] \in CallType
      /\ accounts' = accounts /\ groups' = groups /\ members' = members /\ nextID' = nextID
      /\ outbox' = outbox /\ notices' = notices /\ failures' \in 0 .. MaxFailures
  BY DEF IInv, CallFits, TypeOK, CheckGroup, Reads, tables, InFlight
<1>2. call[p].kind \in {"join"} /\ call[p].user \in Users /\ call[p].other \in Users
  BY <1>1 DEF KindFits
<1>3. ASSUME NEW answer \in Answers \ {"ok"}, EndsWith(p, answer)
      PROVE  IInv'
  BY <1>1, <1>3, EndsKeeps DEF tables
<1>4. ASSUME Exists(call[p].key), Goes(p, "insert", call[p].key, {})
      PROVE  IInv'
  <2>1. call[p].key \in GroupIDs /\ call[p].key \in Live
    BY <1>1, <1>4 DEF Exists, Live, TypeOK
  <2>2. /\ call'[p].kind = call[p].kind /\ call'[p].user = call[p].user
        /\ call'[p].other = call[p].other /\ call'[p].key = call[p].key
        /\ call'[p].saw = call[p].saw /\ call'[p].step = "insert"
        /\ call'[p].group = call[p].key
        /\ call'[p].todo = call[p].todo /\ call'[p].rows = {}
        /\ call'[p].answer = "none"
    BY <1>1, <1>4 DEF Goes, Becomes, TypeOK
  <2>3. Goes(p, "insert", call[p].key, {})
    BY <1>4
  <2>4. /\ call' \in [Calls -> CallType] /\ \A q \in Calls \ {p} : call'[q] = call[q]
    BY <1>1, <2>1, <2>3 DEF Goes, Becomes, TypeOK, CallType, Steps, Answers
  <2>5. CallFits(p)'
    <3>1. KindFits(p)'
      BY <1>2, <2>2 DEF KindFits
    <3>2. CreateFits(p)' /\ OwnersFit(p)' /\ RemoveFits(p)' /\ ForgetFits(p)'
      BY <1>2, <2>2 DEF CreateFits, OwnersFit, RemoveFits, ForgetFits
    <3>3. JoinFits(p)'
      BY <1>1, <2>1, <2>2 DEF CallFits, JoinFits, Live
    <3>. QED
      BY <3>1, <3>2, <3>3 DEF CallFits
  <2>. QED
    BY <1>1, <2>2, <2>4, <2>5, QuietKeeps
<1>. QED
  BY <1>3, <1>4 DEF CheckGroup, Answers

\* KickMember looks at the owner: whom it kicks is not the owner.
LEMMA CheckRightsKeeps ==
  ASSUME IInv, NEW p \in Calls, CheckRights(p)
  PROVE  IInv'
<1>1. /\ TypeOK /\ CallFits(p) /\ KindFits(p) /\ call[p].step = "rights" /\ InFlight(p)
      /\ call[p] \in CallType
      /\ accounts' = accounts /\ groups' = groups /\ members' = members /\ nextID' = nextID
      /\ outbox' = outbox /\ notices' = notices /\ failures' \in 0 .. MaxFailures
  BY DEF IInv, CallFits, TypeOK, CheckRights, Reads, tables, InFlight
<1>2. call[p].kind \in {"kick"} /\ call[p].user \in Users /\ call[p].other \in Users
  BY <1>1 DEF KindFits
<1>3. ASSUME NEW answer \in Answers \ {"ok"}, EndsWith(p, answer)
      PROVE  IInv'
  BY <1>1, <1>3, EndsKeeps DEF tables
<1>4. ASSUME call[p].key \in Live, groups[call[p].key].owner = call[p].user,
             call[p].other # call[p].user, Goes(p, "member", call[p].key, {})
      PROVE  IInv'
  <2>1. call[p].key \in GroupIDs
    BY <1>1, <1>4 DEF Live, TypeOK
  <2>2. /\ call'[p].kind = call[p].kind /\ call'[p].user = call[p].user
        /\ call'[p].other = call[p].other /\ call'[p].key = call[p].key
        /\ call'[p].saw = call[p].saw /\ call'[p].step = "member"
        /\ call'[p].group = call[p].key
        /\ call'[p].todo = call[p].todo /\ call'[p].rows = {}
        /\ call'[p].answer = "none"
    BY <1>1, <1>4 DEF Goes, Becomes, TypeOK
  <2>3. Goes(p, "member", call[p].key, {})
    BY <1>4
  <2>4. /\ call' \in [Calls -> CallType] /\ \A q \in Calls \ {p} : call'[q] = call[q]
    BY <1>1, <2>1, <2>3 DEF Goes, Becomes, TypeOK, CallType, Steps, Answers
  <2>5. CallFits(p)'
    <3>1. KindFits(p)'
      BY <1>2, <2>2 DEF KindFits
    <3>2. CreateFits(p)' /\ OwnersFit(p)' /\ JoinFits(p)' /\ ForgetFits(p)'
      BY <1>2, <2>2 DEF CreateFits, OwnersFit, JoinFits, ForgetFits
    <3>3. RemoveFits(p)'
      BY <1>1, <1>2, <1>4, <2>2 DEF RemoveFits, Live
    <3>. QED
      BY <3>1, <3>2, <3>3 DEF CallFits
  <2>. QED
    BY <1>1, <2>2, <2>4, <2>5, QuietKeeps
<1>. QED
  BY <1>3, <1>4 DEF CheckRights, Answers

\* RemoveMember and KickMember look at the row: it is not the owner's.
LEMMA CheckMemberKeeps ==
  ASSUME IInv, NEW p \in Calls, CheckMember(p)
  PROVE  IInv'
<1>1. /\ TypeOK /\ CallFits(p) /\ KindFits(p) /\ call[p].step = "member" /\ InFlight(p)
      /\ call[p] \in CallType
      /\ accounts' = accounts /\ groups' = groups /\ members' = members /\ nextID' = nextID
      /\ outbox' = outbox /\ notices' = notices /\ failures' \in 0 .. MaxFailures
  BY DEF IInv, CallFits, TypeOK, CheckMember, Reads, tables, InFlight
<1>2. call[p].kind \in {"leave", "kick"} /\ call[p].user \in Users /\ call[p].other \in Users
  BY <1>1 DEF KindFits
<1>3. ASSUME NEW answer \in Answers \ {"ok"}, EndsWith(p, answer)
      PROVE  IInv'
  BY <1>1, <1>3, EndsKeeps DEF tables
<1>4. ASSUME RowsOf(call[p].key, call[p].other) # {},
             \A i \in RowsOf(call[p].key, call[p].other) : MayGo(p, i),
             Goes(p, "remove", call[p].key, {})
      PROVE  IInv'
  <2>1. call[p].key \in GroupIDs
    BY <1>1, <1>2 DEF CallFits, RemoveFits, TypeOK
  <2>2. ASSUME call[p].key \in Live, groups[call[p].key].owner = call[p].other
        PROVE  FALSE
    <3>1. PICK i \in RowsOf(call[p].key, call[p].other) : TRUE
      BY <1>4
    <3>2. call[p].other \in accounts
      BY DEF IInv, TablesInv, MembersAreAccounts, RowsOf
    <3>3. PICK j \in RowsOf(call[p].key, call[p].other) : members[j].role = "owner"
      BY <2>2, <3>2 DEF IInv, TablesInv, OwnerIsMember
    <3>4. call[p].kind = "kick"
      BY <1>4, <3>3 DEF MayGo
    <3>. QED
      BY <1>1, <2>2, <3>4 DEF CallFits, RemoveFits
  <2>3. /\ call'[p].kind = call[p].kind /\ call'[p].user = call[p].user
        /\ call'[p].other = call[p].other /\ call'[p].key = call[p].key
        /\ call'[p].saw = call[p].saw /\ call'[p].step = "remove"
        /\ call'[p].group = call[p].key
        /\ call'[p].todo = call[p].todo /\ call'[p].rows = {}
        /\ call'[p].answer = "none"
    BY <1>1, <1>4 DEF Goes, Becomes, TypeOK
  <2>4. Goes(p, "remove", call[p].key, {})
    BY <1>4
  <2>5. /\ call' \in [Calls -> CallType] /\ \A q \in Calls \ {p} : call'[q] = call[q]
    BY <1>1, <2>1, <2>4 DEF Goes, Becomes, TypeOK, CallType, Steps, Answers
  <2>6. CallFits(p)'
    <3>1. KindFits(p)'
      BY <1>2, <2>3 DEF KindFits
    <3>2. CreateFits(p)' /\ OwnersFit(p)' /\ JoinFits(p)' /\ ForgetFits(p)'
      BY <1>2, <2>3 DEF CreateFits, OwnersFit, JoinFits, ForgetFits
    <3>3. RemoveFits(p)'
      BY <1>1, <2>3, <2>2 DEF CallFits, RemoveFits, Live
    <3>. QED
      BY <3>1, <3>2, <3>3 DEF CallFits
  <2>. QED
    BY <1>1, <2>3, <2>5, <2>6, QuietKeeps
<1>. QED
  BY <1>3, <1>4 DEF CheckMember, Answers

\* A call begins with what is there now.
LEMMA BeginsKeeps ==
  ASSUME IInv, NEW p \in Calls, NEW kind, NEW u \in Users, NEW v \in Users,
         NEW key, NEW step, Begins(p, kind, u, v, key, step),
         \/ kind = "create" /\ step = "group" /\ key \in Names
         \/ kind \in {"update", "delete"} /\ step = "find" /\ key \in DOMAIN groups \cup Names
         \/ kind = "join" /\ step = "exists" /\ key \in DOMAIN groups
         \/ kind = "leave" /\ step = "member" /\ key \in DOMAIN groups /\ u = v
         \/ kind = "kick" /\ step = "rights" /\ key \in DOMAIN groups
         \/ kind = "forget" /\ step = "owned" /\ key = NoGroup
  PROVE  IInv'
<1> DEFINE h == History(kind, u)
<1>1. /\ TypeOK /\ call[p].step # "done"
      /\ accounts' = accounts /\ groups' = groups /\ members' = members /\ nextID' = nextID
      /\ outbox' = outbox /\ notices' = notices /\ failures' \in 0 .. MaxFailures
      /\ nextID \in Nat
  BY DEF IInv, TypeOK, Begins, tables
<1>2. /\ h = [rows |-> h.rows, gone |-> h.gone, owned |-> h.owned]
      /\ h.rows \subseteq IDs /\ h.rows \subseteq Nat
      /\ h.gone \subseteq DOMAIN groups /\ h.gone \subseteq GroupIDs /\ h.gone \cap Live = {}
      /\ h.owned \subseteq GroupIDs /\ h.owned \subseteq Owned(u)
  BY <1>1 DEF TypeOK, IDs, History, Owned, Live
<1>4. call' = [call EXCEPT ![p] =
          [step |-> step, kind |-> kind, user |-> u, other |-> v, key |-> key,
           group |-> NoGroup, todo |-> {}, rows |-> {}, answer |-> "none",
           saw |-> h]]
  BY DEF Begins
<1> HIDE DEF h
<1>5. /\ call'[p].kind = kind /\ call'[p].user = u /\ call'[p].other = v
      /\ call'[p].key = key /\ call'[p].saw = h /\ call'[p].step = step
      /\ call'[p].group = NoGroup /\ call'[p].todo = {} /\ call'[p].rows = {}
      /\ call'[p].answer = "none" /\ \A q \in Calls \ {p} : call'[q] = call[q]
  BY <1>1, <1>4 DEF TypeOK
<1>6. call' \in [Calls -> CallType]
  BY <1>1, <1>2, <1>4 DEF TypeOK, CallType, Steps, Answers
<1>7. \A i \in call'[p].rows \cup call'[p].saw.rows : i \in Nat /\ 0 < i /\ i < nextID'
  BY <1>1, <1>2, <1>5 DEF IDs
<1>8. ASSUME NEW q \in Calls \ {p}
      PROVE  Apart(p, q)' /\ Apart(q, p)'
  BY <1>5 DEF Apart, HoldsUser
<1>9. CallFits(p)'
  <2>1. KindFits(p)'
    BY <1>5 DEF KindFits
  <2>2. CreateFits(p)' /\ OwnersFit(p)'
    BY <1>1, <1>5 DEF CreateFits, OwnersFit
  <2>3. JoinFits(p)'
    BY <1>1, <1>2, <1>5 DEF JoinFits, Live
  <2>4. RemoveFits(p)'
    BY <1>1, <1>5 DEF RemoveFits
  <2>5. ForgetFits(p)'
    BY <1>1, <1>2, <1>5 DEF ForgetFits, Owned, Live
  <2>. QED
    BY <2>1, <2>2, <2>3, <2>4, <2>5 DEF CallFits
<1>. QED
  BY <1>1, <1>5, <1>6, <1>7, <1>8, <1>9, QuietStep

\* The handlers.
LEMMA BeginKeeps ==
  ASSUME IInv, NEW p \in Calls, Begin(p)
  PROVE  IInv'
<1>1. PICK u \in Users :
       \/ \E name \in Names : BeginCreate(p, u, name)
       \/ \E kind \in {"update", "delete"}, key \in DOMAIN groups \cup Names :
             BeginOwners(p, kind, u, key)
       \/ \E g \in DOMAIN groups : BeginJoin(p, u, g) \/ BeginLeave(p, u, g)
       \/ \E g \in DOMAIN groups, v \in Users : BeginKick(p, u, v, g)
       \/ BeginForget(p, u)
  BY DEF Begin
<1>2. CASE \E name \in Names : BeginCreate(p, u, name)
  BY <1>2, BeginsKeeps DEF BeginCreate
<1>3. CASE \E kind \in {"update", "delete"}, key \in DOMAIN groups \cup Names :
              BeginOwners(p, kind, u, key)
  BY <1>3, BeginsKeeps DEF BeginOwners
<1>4. CASE \E g \in DOMAIN groups : BeginJoin(p, u, g)
  BY <1>4, BeginsKeeps DEF BeginJoin
<1>5. CASE \E g \in DOMAIN groups : BeginLeave(p, u, g)
  BY <1>5, BeginsKeeps DEF BeginLeave
<1>6. CASE \E g \in DOMAIN groups, v \in Users : BeginKick(p, u, v, g)
  BY <1>6, BeginsKeeps DEF BeginKick
<1>7. CASE BeginForget(p, u)
  BY <1>7, BeginsKeeps DEF BeginForget
<1>. QED
  BY <1>1, <1>2, <1>3, <1>4, <1>5, <1>6, <1>7

\* CreateGroup takes an id that no group and no other call has.
LEMMA InsertGroupKeeps ==
  ASSUME IInv, NEW p \in Calls, NEW g \in GroupIDs, InsertGroup(p, g)
  PROVE  IInv'
<1>1. /\ TypeOK /\ CallFits(p) /\ KindFits(p) /\ call[p].step = "group" /\ call[p] \in CallType
      /\ accounts' = accounts /\ groups' = groups /\ members' = members /\ nextID' = nextID
      /\ outbox' = outbox /\ notices' = notices /\ failures' \in 0 .. MaxFailures
      /\ nextID \in Nat /\ call[p].kind = "create"
      /\ Becomes(p, "owner", g, call[p].todo, {}, "none")
  BY DEF IInv, TypeOK, CallFits, KindFits, InsertGroup, Goes, Reads, tables
<1>2. /\ call'[p].kind = call[p].kind /\ call'[p].user = call[p].user
      /\ call'[p].other = call[p].other /\ call'[p].key = call[p].key
      /\ call'[p].saw = call[p].saw /\ call'[p].step = "owner" /\ call'[p].group = g
      /\ call'[p].todo = call[p].todo /\ call'[p].rows = {} /\ call'[p].answer = "none"
  BY <1>1 DEF Becomes, TypeOK
<1>3. /\ call' \in [Calls -> CallType] /\ \A q \in Calls \ {p} : call'[q] = call[q]
  BY <1>1 DEF Becomes, TypeOK, CallType, Steps, Answers
<1>4. \A i \in call'[p].rows \cup call'[p].saw.rows : i \in Nat /\ 0 < i /\ i < nextID'
  BY <1>1, <1>2 DEF TypeOK, IDs
<1>5. ASSUME NEW q \in Calls \ {p}
      PROVE  Apart(p, q)' /\ Apart(q, p)'
  BY <1>2, <1>3 DEF InsertGroup, Apart, HoldsUser
<1>6. CallFits(p)'
  <2>1. KindFits(p)'
    BY <1>1, <1>2 DEF KindFits
  <2>2. OwnersFit(p)' /\ JoinFits(p)' /\ RemoveFits(p)' /\ ForgetFits(p)'
    BY <1>1, <1>2 DEF OwnersFit, JoinFits, RemoveFits, ForgetFits
  <2>3. CreateFits(p)'
    BY <1>1, <1>2 DEF CallFits, CreateFits, InsertGroup
  <2>. QED
    BY <2>1, <2>2, <2>3 DEF CallFits
<1>. QED
  BY <1>1, <1>2, <1>3, <1>4, <1>5, <1>6, QuietStep

\* CreateGroup inserts the owner's row: no DeleteUser is about to commit.
LEMMA InsertOwnerKeeps ==
  ASSUME IInv, NEW p \in Calls, InsertOwner(p)
  PROVE  IInv'
<1>1. /\ TypeOK /\ CallFits(p) /\ KindFits(p) /\ call[p].step = "owner" /\ call[p] \in CallType
      /\ accounts' = accounts /\ groups' = groups /\ members' = members
      /\ outbox' = outbox /\ notices' = notices /\ failures' = failures
      /\ failures' \in 0 .. MaxFailures
      /\ nextID \in Nat \ {0} /\ call[p].kind = "create" /\ InFlight(p)
  BY DEF IInv, TypeOK, CallFits, KindFits, InsertOwner, InFlight
<1>2. ASSUME EndsWith(p, "error"), nextID' = nextID
      PROVE  IInv'
  BY <1>1, <1>2, EndsKeeps DEF tables, Answers
<1>3. ASSUME call[p].user \in accounts, Goes(p, "commit", call[p].group, {nextID}),
             nextID' = nextID + 1
      PROVE  IInv'
  <2>1. Becomes(p, "commit", call[p].group, call[p].todo, {nextID}, "none")
    BY <1>3 DEF Goes
  <2>2. /\ call'[p].kind = call[p].kind /\ call'[p].user = call[p].user
        /\ call'[p].other = call[p].other /\ call'[p].key = call[p].key
        /\ call'[p].saw = call[p].saw /\ call'[p].step = "commit"
        /\ call'[p].group = call[p].group
        /\ call'[p].todo = call[p].todo /\ call'[p].rows = {nextID}
        /\ call'[p].answer = "none"
    BY <1>1, <2>1 DEF Becomes, TypeOK
  <2>3. /\ call' \in [Calls -> CallType] /\ \A q \in Calls \ {p} : call'[q] = call[q]
    BY <1>1, <2>1 DEF Becomes, TypeOK, CallType, Steps, Answers
  <2>4. \A i \in call'[p].rows \cup call'[p].saw.rows : i \in Nat /\ 0 < i /\ i < nextID'
    BY <1>1, <1>3, <2>2 DEF TypeOK, IDs
  <2>5. ASSUME NEW q \in Calls \ {p}
        PROVE  Apart(p, q)' /\ Apart(q, p)'
    <3>1. nextID \notin call[q].rows /\ call'[q] = call[q] /\ ~ HoldsUser(q, call[p].user)
      BY <1>1, <2>3 DEF TypeOK, IDs, InsertOwner, UserSettled
    <3>2. Apart(p, q) /\ Apart(q, p)
      BY DEF IInv
    <3>. QED
      BY <1>1, <2>2, <3>1, <3>2 DEF Apart, HoldsUser
  <2>6. CallFits(p)'
    <3>1. KindFits(p)'
      BY <1>1, <2>2 DEF KindFits
    <3>2. OwnersFit(p)' /\ JoinFits(p)' /\ RemoveFits(p)' /\ ForgetFits(p)'
      BY <1>1, <2>2 DEF OwnersFit, JoinFits, RemoveFits, ForgetFits
    <3>3. nextID \in IDs' \ DOMAIN members'
      BY <1>1, <1>3 DEF TypeOK, IDs
    <3>4. CreateFits(p)'
      BY <1>1, <1>3, <2>2, <3>3 DEF CallFits, CreateFits
    <3>. QED
      BY <3>1, <3>2, <3>4 DEF CallFits
  <2>7. nextID' \in Nat /\ nextID <= nextID' /\ call[p].step # "done"
    BY <1>1, <1>3
  <2>. QED
    BY <1>1, <2>2, <2>3, <2>4, <2>5, <2>6, <2>7, QuietStep
<1>. QED
  BY <1>2, <1>3 DEF InsertOwner

\* DeleteUser deletes the account when no new member row refers to it; the rows
\* that came since go with it.
LEMMA DeleteAccountKeeps ==
  ASSUME IInv, NEW p \in Calls, DeleteAccount(p)
  PROVE  IInv'
<1>1. /\ TypeOK /\ CallFits(p) /\ KindFits(p) /\ call[p].step = "account"
      /\ call[p] \in CallType /\ call[p].kind = "forget"
      /\ accounts' = accounts /\ groups' = groups /\ members' = members /\ nextID' = nextID
      /\ outbox' = outbox /\ notices' = notices /\ failures' \in 0 .. MaxFailures
      /\ nextID \in Nat
      /\ Becomes(p, "commit", NoGroup, call[p].todo, OfUser(call[p].user), "none")
  BY DEF IInv, TypeOK, CallFits, KindFits, DeleteAccount, Goes, Reads, tables
<1>2. OfUser(call[p].user) \subseteq DOMAIN members /\ OfUser(call[p].user) \subseteq IDs
      /\ OfUser(call[p].user) \subseteq Nat
  BY <1>1 DEF OfUser, TypeOK, IDs
<1>3. /\ call'[p].kind = call[p].kind /\ call'[p].user = call[p].user
      /\ call'[p].other = call[p].other /\ call'[p].key = call[p].key
      /\ call'[p].saw = call[p].saw /\ call'[p].step = "commit" /\ call'[p].group = NoGroup
      /\ call'[p].todo = call[p].todo /\ call'[p].rows = OfUser(call[p].user)
      /\ call'[p].answer = "none"
  BY <1>1 DEF Becomes, TypeOK
<1>4. /\ call' \in [Calls -> CallType] /\ \A q \in Calls \ {p} : call'[q] = call[q]
  BY <1>1, <1>2 DEF Becomes, TypeOK, CallType, Steps, Answers
<1>5. \A i \in call'[p].rows \cup call'[p].saw.rows : i \in Nat /\ 0 < i /\ i < nextID'
  BY <1>1, <1>2, <1>3 DEF TypeOK, IDs
<1>6. ASSUME NEW q \in Calls \ {p}
      PROVE  Apart(p, q)' /\ Apart(q, p)'
  <2>1. Apart(q, p) /\ CreateFits(q) /\ call'[q] = call[q] /\ ~ RefersTo(q, call[p].user)
    BY <1>4 DEF IInv, CallFits, DeleteAccount
  <2>2. Apart(p, q)'
    BY <1>1, <1>3 DEF Apart
  <2>3. Apart(q, p)'
    BY <1>2, <1>3, <2>1 DEF Apart, HoldsUser, RefersTo, CreateFits
  <2>. QED
    BY <2>2, <2>3
<1>7. CallFits(p)'
  <2>1. KindFits(p)'
    BY <1>1, <1>3 DEF KindFits
  <2>2. CreateFits(p)' /\ OwnersFit(p)' /\ JoinFits(p)' /\ RemoveFits(p)'
    BY <1>1, <1>3 DEF CreateFits, OwnersFit, JoinFits, RemoveFits
  <2>3. ForgetFits(p)'
    BY <1>1, <1>3 DEF CallFits, ForgetFits, Live, OfUser
  <2>. QED
    BY <2>1, <2>2, <2>3 DEF CallFits
<1>. QED
  BY <1>1, <1>3, <1>4, <1>5, <1>6, <1>7, QuietStep

-----------------------------------------------------------------------------
(***************************************************************************)
(* Statements and commits that change the tables.                          *)
(***************************************************************************)
TablesType ==
    /\ accounts \subseteq Users
    /\ DOMAIN groups \subseteq GroupIDs /\ groups \in [DOMAIN groups -> Groups]
    /\ nextID \in Nat \ {0}
    /\ DOMAIN members \subseteq IDs /\ members \in [DOMAIN members -> Members]
    /\ outbox \subseteq NoticeType /\ notices \subseteq NoticeType

\* No row that the removal p saw is left.
RemovalTakes(p) ==
    \A i \in DOMAIN members' :
        members'[i].group = call[p].key /\ members'[i].user = call[p].other =>
            i \notin call[p].saw.rows

\* A call that changes the tables as the others rely on, ends, and has done what it
\* says it has.
LEMMA WritesKeep ==
  ASSUME IInv, NEW p \in Calls, NEW answer \in Answers, EndsWith(p, answer), InFlight(p),
         TablesType', TablesInv', GroupsKept, nextID <= nextID',
         failures' \in 0 .. MaxFailures,
         \A q \in Calls \ {p} : Rely(q),
         \A n \in notices' \ notices : n.what = "kicked" =>
            /\ call[p].kind = "kick" /\ call[p].key = n.group /\ call[p].other = n.to
            /\ RowsOf(n.group, n.to)' \cap call[p].saw.rows = {},
         answer = "ok" =>
            /\ call[p].kind \in {"leave", "kick"} => RemovalTakes(p)
            /\ call[p].kind = "join" => call[p].group \notin call[p].saw.gone
            /\ call[p].kind = "forget" =>
                  call[p].saw.owned \cap Live' = {} /\ call[p].user \notin accounts'
  PROVE  IInv'
<1>1. /\ call' \in [Calls -> CallType] /\ \A q \in Calls \ {p} : call'[q] = call[q]
      /\ call'[p].kind = call[p].kind /\ call'[p].user = call[p].user
      /\ call'[p].other = call[p].other /\ call'[p].key = call[p].key
      /\ call'[p].saw = call[p].saw /\ call'[p].step = "done"
      /\ call'[p].group = call[p].group
      /\ call'[p].rows = {} /\ call'[p].answer = answer
      /\ CallFits(p)'
  BY EndedFits
<1>2. TypeOK'
  <2>1. \A q \in Calls : call'[q].rows \subseteq IDs' /\ call'[q].saw.rows \subseteq IDs'
    BY <1>1 DEF IInv, TypeOK, IDs, TablesType
  <2>. QED
    BY <1>1, <2>1 DEF TypeOK, TablesType
<1>3. KicksAnnounced'
  <2> SUFFICES ASSUME NEW n \in notices', n.what = "kicked"
               PROVE  \E q \in Calls :
                         /\ call'[q].kind = "kick" /\ call'[q].key = n.group
                         /\ call'[q].other = n.to /\ call'[q].step = "done"
                         /\ RowsOf(n.group, n.to)' \cap call'[q].saw.rows = {}
    BY DEF KicksAnnounced
  <2>1. CASE n \in notices
    BY <1>1, AnnouncedStays DEF InFlight
  <2>2. CASE n \notin notices
    BY <1>1, <2>2
  <2>. QED
    BY <2>1, <2>2
<1>4. ToldFits(p)'
  BY <1>1 DEF ToldFits, RemovalTakes, RowsOf
<1>5. ASSUME NEW q \in Calls \ {p}
      PROVE  Apart(p, q)' /\ Apart(q, p)'
  BY <1>1 DEF Apart, HoldsUser
<1>. QED
  BY <1>1, <1>2, <1>3, <1>4, <1>5, StepKeeps

\* UpdateGroup writes a name and what it has read of the mark.
LEMMA WriteNameKeeps ==
  ASSUME IInv, NEW p \in Calls, NEW name \in Names, WriteName(p, name)
  PROVE  IInv'
<1> DEFINE g == call[p].group
<1>1. /\ TypeOK /\ KindFits(p) /\ call[p].step = "update" /\ call[p].kind = "update"
      /\ InFlight(p) /\ EndsWith(p, "ok") /\ g \in DOMAIN groups
      /\ accounts' = accounts /\ members' = members /\ nextID' = nextID
      /\ outbox' = outbox /\ notices' = notices /\ failures' \in 0 .. MaxFailures
  BY DEF IInv, TypeOK, CallFits, KindFits, OwnersFit, WriteName, Renames, InFlight
<1>2. groups' = [groups EXCEPT ![g] = [name |-> name, owner |-> groups[g].owner,
                                       deleted |-> groups[g].deleted]]
  <2>1. (g \notin Live) = groups[g].deleted
    BY <1>1 DEF Live, TypeOK, Groups
  <2>. QED
    BY <2>1 DEF WriteName, Renames
<1> HIDE DEF g
<1>3. /\ DOMAIN groups' = DOMAIN groups
      /\ \A h \in DOMAIN groups :
            groups'[h].owner = groups[h].owner /\ groups'[h].deleted = groups[h].deleted
  BY <1>2
<1>4. Live' = Live /\ GroupsKept
  BY <1>3 DEF Live, GroupsKept
<1>5. TablesType'
  <2>1. groups' \in [DOMAIN groups' -> Groups]
    BY <1>1, <1>2 DEF TypeOK, Groups
  <2>. QED
    BY <1>1, <1>3, <2>1 DEF TablesType, TypeOK, IDs
<1>6. TablesInv'
  BY <1>1, <1>3 DEF IInv, TablesInv, OwnerIsMember, MembersAreAccounts, TablesFit,
     Live, RowsOf
<1>7. \A q \in Calls : Rely(q)
  BY <1>1, <1>3, <1>4 DEF Rely, TypeOK, IInv, CallFits, CreateFits
<1>8. nextID <= nextID' /\ "ok" \in Answers
  BY <1>1 DEF TypeOK, Answers
<1>. QED
  BY <1>1, <1>4, <1>5, <1>6, <1>7, <1>8, WritesKeep

\* AddMember inserts a row for an account that nobody is deleting.
LEMMA InsertMemberKeeps ==
  ASSUME IInv, NEW p \in Calls, InsertMember(p)
  PROVE  IInv'
<1> DEFINE g == call[p].group
           u == call[p].user
<1>1. /\ TypeOK /\ JoinFits(p) /\ call[p].step = "insert" /\ call[p].kind = "join"
      /\ InFlight(p) /\ g \in DOMAIN groups \ call[p].saw.gone /\ u \in Users
      /\ accounts' = accounts /\ groups' = groups /\ notices' = notices
      /\ nextID \in Nat \ {0} /\ nextID' = nextID + 1
  BY DEF IInv, TypeOK, CallFits, KindFits, JoinFits, InsertMember, Joins, InFlight
<1>2. GroupsKept
  BY <1>1 DEF GroupsKept
<1>3. CASE ~ (u \in accounts /\ RowsOf(g, u) = {})
  <2>1. members' = members /\ outbox' = outbox /\ failures' \in 0 .. MaxFailures
    BY <1>1, <1>3 DEF InsertMember, Joins, TypeOK
  <2>2. PICK answer \in Answers \ {"ok"} : EndsWith(p, answer)
    BY <1>3 DEF InsertMember, Joins, Answers
  <2>3. TablesType'
    BY <1>1, <2>1 DEF TablesType, TypeOK, IDs
  <2>4. TablesInv'
    BY <1>1, <2>1 DEF IInv, TablesInv, OwnerIsMember, MembersAreAccounts, TablesFit,
       Live, RowsOf
  <2>5. \A q \in Calls : Rely(q)
    BY <1>1, <1>2, <2>1 DEF Rely, IInv, CallFits, CreateFits
  <2>. QED
    BY <1>1, <1>2, <2>1, <2>2, <2>3, <2>4, <2>5, WritesKeep
<1>4. CASE u \in accounts /\ RowsOf(g, u) = {}
  <2>1. members' = [i \in DOMAIN members \cup {nextID} |->
                      IF i = nextID THEN [group |-> g, user |-> u, role |-> "member"]
                                    ELSE members[i]]
    BY <1>4 DEF InsertMember, Joins
  <2>2. /\ outbox' \in {outbox, outbox \cup {Invitation(p)}}
        /\ failures' \in 0 .. MaxFailures
    BY <1>1 DEF InsertMember, Joins, TypeOK
  <2>3. PICK answer \in Answers : EndsWith(p, answer)
    BY DEF InsertMember, Joins, Answers
  <2>4. /\ DOMAIN members' = DOMAIN members \cup {nextID} /\ nextID \notin DOMAIN members
        /\ \A i \in DOMAIN members : members'[i] = members[i]
        /\ members'[nextID].group = g /\ members'[nextID].user = u
        /\ members'[nextID] \in Members
    BY <1>1, <2>1 DEF TypeOK, IDs, Members
  <2>5. TablesType'
    <3>1. members' \in [DOMAIN members' -> Members]
      BY <1>1, <2>1, <2>4 DEF TypeOK
    <3>2. DOMAIN members' \subseteq IDs'
      BY <1>1, <2>4 DEF TypeOK, IDs
    <3>3. outbox' \subseteq NoticeType
      BY <1>1, <2>2 DEF TypeOK, NoticeType, Invitation
    <3>. QED
      BY <1>1, <3>1, <3>2, <3>3 DEF TablesType, TypeOK
  <2>6. TablesInv'
    <3>1. OwnerIsMember'
      BY <1>1, <2>4 DEF IInv, TablesInv, OwnerIsMember, Live, RowsOf
    <3>2. MembersAreAccounts'
      BY <1>1, <1>4, <2>4 DEF IInv, TablesInv, MembersAreAccounts, RowsOf
    <3>3. TablesFit'
      BY <1>1, <2>2, <2>4 DEF IInv, TablesInv, TablesFit, Invitation
    <3>. QED
      BY <3>1, <3>2, <3>3 DEF TablesInv
  <2>7. ASSUME NEW q \in Calls \ {p}
        PROVE  Rely(q)
    <3>1. nextID \notin call[q].rows /\ nextID \notin IDs /\ ~ HoldsUser(q, u)
      BY <1>1 DEF TypeOK, IDs, InsertMember, UserSettled
    <3>2. CreateFits(q)
      BY DEF IInv, CallFits
    <3>. QED
      BY <1>1, <1>2, <2>4, <3>1, <3>2 DEF Rely, CreateFits
  <2>. QED
    BY <1>1, <1>2, <2>2, <2>3, <2>5, <2>6, <2>7, WritesKeep
<1>. QED
  BY <1>3, <1>4

-----------------------------------------------------------------------------
(***************************************************************************)
(* Commits.                                                                *)
(***************************************************************************)
\* What a commit makes of the tables, whatever comes after it.
Committed(p) ==
    /\ TablesType' /\ TablesInv' /\ GroupsKept /\ nextID' = nextID
    /\ \A q \in Calls \ {p} : Rely(q)

\* The groups after a transaction that makes none.
LEMMA CommitMarks ==
  ASSUME IInv, NEW p \in Calls, TakesEffect(p), call[p].kind # "create"
  PROVE  /\ DOMAIN groups' = DOMAIN groups
         /\ \A g \in DOMAIN groups :
               /\ groups'[g] \in Groups /\ groups'[g].owner = groups[g].owner
               /\ groups'[g].deleted = (groups[g].deleted \/ g \in Marked(p))
         /\ GroupsKept /\ Live' = Live \ Marked(p)
         /\ members' = [i \in DOMAIN members \ call[p].rows |-> members[i]]
         /\ nextID' = nextID /\ outbox' = outbox
<1>1. groups' = [g \in DOMAIN groups |->
                   [name |-> groups[g].name, owner |-> groups[g].owner,
                    deleted |-> groups[g].deleted \/ g \in Marked(p)]]
  BY DEF TakesEffect, Made
<1>2. DOMAIN groups' = DOMAIN groups
  BY <1>1
<1>3. ASSUME NEW g \in DOMAIN groups
      PROVE  /\ groups'[g] \in Groups /\ groups'[g].owner = groups[g].owner
             /\ groups'[g].deleted = (groups[g].deleted \/ g \in Marked(p))
  <2>1. groups[g] \in Groups
    BY DEF IInv, TypeOK
  <2>. QED
    BY <1>1, <2>1 DEF Groups
<1>4. GroupsKept
  BY <1>2, <1>3 DEF GroupsKept
<1>5. Live' = Live \ Marked(p)
  BY <1>2, <1>3 DEF Live
<1>. QED
  BY <1>2, <1>3, <1>4, <1>5 DEF TakesEffect

\* A transaction that makes no group takes member rows away: none of them is the
\* row of the owner of a group that stays, unless the owner goes too.
LEMMA CommitRemoves ==
  ASSUME IInv, NEW p \in Calls, TakesEffect(p), call[p].kind # "create",
         accounts' \subseteq accounts,
         \A i \in DOMAIN members \ call[p].rows : members[i].user \in accounts',
         \A i \in call[p].rows : i \in DOMAIN members =>
            LET g == members[i].group
            IN  \/ g \notin Live' \/ groups[g].owner # members[i].user
                \/ members[i].user \notin accounts',
         \A q \in Calls \ {p} : call[q].kind = "create" /\ call[q].step = "commit" =>
            call[q].user \in accounts',
         notices' \subseteq NoticeType
  PROVE  Committed(p)
<1>1. /\ TypeOK /\ DOMAIN groups' = DOMAIN groups
      /\ \A g \in DOMAIN groups :
            /\ groups'[g] \in Groups /\ groups'[g].owner = groups[g].owner
      /\ GroupsKept /\ Live' \subseteq Live
      /\ members' = [i \in DOMAIN members \ call[p].rows |-> members[i]]
      /\ nextID' = nextID /\ outbox' = outbox
  BY CommitMarks DEF IInv
<1>2. /\ DOMAIN members' = DOMAIN members \ call[p].rows
      /\ \A i \in DOMAIN members' : members'[i] = members[i]
  BY <1>1
<1>3. TablesType'
  <2>1. groups' \in [DOMAIN groups' -> Groups]
    <3>1. groups' = [g \in DOMAIN groups' |-> groups'[g]]
      BY DEF TakesEffect
    <3>. QED
      BY <1>1, <3>1
  <2>3. DOMAIN members' \subseteq IDs' /\ accounts' \subseteq Users
    BY <1>1 DEF TypeOK, IDs
  <2>. QED
    BY <1>1, <2>1, <2>3 DEF TablesType, TypeOK
<1>4. TablesInv'
  <2>1. OwnerIsMember'
    <3> SUFFICES ASSUME NEW g \in Live', groups'[g].owner \in accounts'
                 PROVE  \E i \in DOMAIN members' :
                           /\ members'[i].group = g /\ members'[i].user = groups'[g].owner
                           /\ members'[i].role = "owner"
      BY DEF OwnerIsMember, RowsOf
    <3>1. g \in Live /\ groups'[g].owner = groups[g].owner
      BY <1>1 DEF Live
    <3>2. PICK i \in RowsOf(g, groups[g].owner) : members[i].role = "owner"
      BY <3>1 DEF IInv, TablesInv, OwnerIsMember
    <3>3. i \in DOMAIN members /\ members[i].group = g /\ members[i].user = groups[g].owner
      BY DEF RowsOf
    <3>. QED
      BY <1>2, <3>1, <3>2, <3>3
  <2>2. MembersAreAccounts'
    BY <1>2 DEF IInv, TablesInv, MembersAreAccounts
  <2>3. TablesFit'
    BY <1>1 DEF IInv, TablesInv, TablesFit
  <2>. QED
    BY <2>1, <2>2, <2>3 DEF TablesInv
<1>5. ASSUME NEW q \in Calls \ {p}
      PROVE  Rely(q)
  <2>1. CreateFits(q)
    BY DEF IInv, CallFits
  <2>. QED
    BY <1>1, <2>1 DEF Rely, CreateFits, TypeOK
<1>. QED
  BY <1>1, <1>3, <1>4, <1>5 DEF Committed

\* CreateGroup's commit: a group that nobody knew, with its owner in it.
LEMMA CommitCreates ==
  ASSUME IInv, NEW p \in Calls, TakesEffect(p), call[p].kind = "create"
  PROVE  Committed(p) /\ notices' = notices
<1> DEFINE g == call[p].group
           u == call[p].user
<1>1. /\ TypeOK /\ call[p].step = "commit" /\ g \in GroupIDs \ DOMAIN groups
      /\ u \in accounts /\ u \in Users /\ call[p].key \in Names
      /\ accounts' = accounts /\ nextID' = nextID /\ outbox' = outbox /\ notices' = notices
  BY DEF IInv, CallFits, CreateFits, KindFits, TakesEffect, Kicked
<1>2. PICK k \in IDs \ DOMAIN members : call[p].rows = {k}
  BY <1>1 DEF IInv, CallFits, CreateFits
<1>3. groups' = [h \in DOMAIN groups \cup {g} |->
                   IF h = g THEN [name |-> call[p].key, owner |-> u, deleted |-> FALSE]
                   ELSE [name |-> groups[h].name, owner |-> groups[h].owner,
                         deleted |-> groups[h].deleted]]
  <2>1. Made(p) = {g} /\ Marked(p) = {}
    BY DEF Made, Marked
  <2>2. \A h \in DOMAIN groups : groups[h].deleted \in BOOLEAN
    BY <1>1 DEF TypeOK, Groups
  <2>. QED
    BY <2>1, <2>2 DEF TakesEffect
<1>4. members' = [i \in DOMAIN members \cup {k} |->
                    IF i \in DOMAIN members THEN members[i]
                    ELSE [group |-> g, user |-> u, role |-> "owner"]]
  BY <1>2 DEF TakesEffect
<1> HIDE DEF g, u
<1>5. /\ DOMAIN groups' = DOMAIN groups \cup {g}
      /\ groups'[g] = [name |-> call[p].key, owner |-> u, deleted |-> FALSE]
      /\ \A h \in DOMAIN groups :
            /\ groups'[h] \in Groups /\ groups'[h].owner = groups[h].owner
            /\ groups'[h].deleted = groups[h].deleted
  <2>1. \A h \in DOMAIN groups : groups[h] \in Groups
    BY <1>1 DEF TypeOK
  <2>. QED
    BY <1>1, <1>3, <2>1 DEF Groups
<1>6. /\ DOMAIN members' = DOMAIN members \cup {k}
      /\ \A i \in DOMAIN members : members'[i] = members[i]
      /\ members'[k] = [group |-> g, user |-> u, role |-> "owner"]
  BY <1>4
<1>7. GroupsKept /\ Live' = Live \cup {g}
  BY <1>5 DEF GroupsKept, Live
<1>8. TablesType'
  <2>1. groups' \in [DOMAIN groups' -> Groups]
    BY <1>1, <1>3, <1>5 DEF Groups
  <2>2. members' \in [DOMAIN members' -> Members]
    BY <1>1, <1>4 DEF TypeOK, Members
  <2>3. DOMAIN members' \subseteq IDs' /\ DOMAIN groups' \subseteq GroupIDs
    BY <1>1, <1>5, <1>6 DEF TypeOK, IDs
  <2>. QED
    BY <1>1, <2>1, <2>2, <2>3 DEF TablesType, TypeOK
<1>9. TablesInv'
  <2>1. OwnerIsMember'
    <3> SUFFICES ASSUME NEW h \in Live', groups'[h].owner \in accounts'
                 PROVE  \E i \in DOMAIN members' :
                           /\ members'[i].group = h /\ members'[i].user = groups'[h].owner
                           /\ members'[i].role = "owner"
      BY DEF OwnerIsMember, RowsOf
    <3>1. CASE h = g
      BY <1>5, <1>6, <3>1
    <3>2. CASE h # g
      BY <1>1, <1>5, <1>6 DEF IInv, TablesInv, OwnerIsMember, RowsOf, Live
    <3>. QED
      BY <3>1, <3>2
  <2>2. MembersAreAccounts'
    BY <1>1, <1>6 DEF IInv, TablesInv, MembersAreAccounts, TablesFit
  <2>3. TablesFit'
    BY <1>1, <1>5, <1>6 DEF IInv, TablesInv, TablesFit
  <2>. QED
    BY <2>1, <2>2, <2>3 DEF TablesInv
<1>10. ASSUME NEW q \in Calls \ {p}
       PROVE  Rely(q)
  <2>1. Apart(p, q) /\ CreateFits(q)
    BY DEF IInv, CallFits
  <2>2. k \notin call[q].rows /\ ~ HoldsUser(q, u)
    BY <1>1, <1>2, <2>1 DEF Apart, u
  <2>3. call[q].kind = "create" /\ call[q].step \in {"owner", "commit"} => call[q].group # g
    BY <1>1, <2>1 DEF Apart, g
  <2>4. ASSUME NEW i \in DOMAIN members'
        PROVE  /\ i \in DOMAIN members => members'[i] = members[i]
               /\ i \notin DOMAIN members =>
                     /\ i \notin call[q].rows
                     /\ i \notin IDs \/ members'[i].group \notin DOMAIN groups
                     /\ HoldsUser(q, call[q].user) => members'[i].user # call[q].user
    BY <1>1, <1>6, <2>2
  <2>. QED
    BY <1>1, <1>5, <1>7, <2>1, <2>3, <2>4 DEF Rely, CreateFits, TypeOK
<1>. QED
  BY <1>1, <1>7, <1>8, <1>9, <1>10 DEF Committed

\* The commits that take away.
LEMMA CommitDeletes ==
  ASSUME IInv, NEW p \in Calls, TakesEffect(p),
         call[p].kind = "delete" \/ (call[p].kind = "forget" /\ call[p].group # NoGroup)
  PROVE  Committed(p) /\ notices' = notices /\ Target(p) \notin Live'
<1>1. /\ TypeOK /\ OwnersFit(p) /\ accounts' = accounts /\ notices' = notices
      /\ Marked(p) = {Target(p)} \cap DOMAIN groups
  BY DEF IInv, CallFits, TakesEffect, Kicked, Marked
<1>2. Target(p) \notin Live'
  BY <1>1, CommitMarks DEF Live
<1>3. \A i \in DOMAIN members \ call[p].rows : members[i].user \in accounts'
  BY <1>1 DEF IInv, TablesInv, MembersAreAccounts
<1>4. \A i \in call[p].rows : i \in DOMAIN members => members[i].group \notin Live'
  BY <1>1, <1>2 DEF OwnersFit
<1>5. \A q \in Calls \ {p} : call[q].kind = "create" /\ call[q].step = "commit" =>
            call[q].user \in accounts'
  BY <1>1 DEF IInv, CallFits, CreateFits
<1>6. notices' \subseteq NoticeType /\ accounts' \subseteq accounts /\ call[p].kind # "create"
  BY <1>1 DEF TypeOK
<1>7. Committed(p)
  BY <1>3, <1>4, <1>5, <1>6, CommitRemoves
<1>. QED
  BY <1>1, <1>2, <1>7

\* LeaveGroup and RemoveMember take effect: the rows are gone, and the kick announced.
LEMMA CommitLeaves ==
  ASSUME IInv, NEW p \in Calls, TakesEffect(p), call[p].kind \in {"leave", "kick"}
  PROVE  /\ Committed(p) /\ RemovalTakes(p)
         /\ notices' = notices \cup Kicked(p) /\ call[p].group = call[p].key
<1>1. /\ TypeOK /\ RemoveFits(p) /\ accounts' = accounts /\ call[p].step = "commit"
      /\ notices' = notices \cup Kicked(p) /\ call[p].group = call[p].key
      /\ call[p].key \in GroupIDs /\ call[p].other \in Users
  BY DEF IInv, TypeOK, CallFits, KindFits, TakesEffect, RemoveFits
<1>2. /\ Live' \subseteq Live
      /\ members' = [i \in DOMAIN members \ call[p].rows |-> members[i]]
  BY CommitMarks
<1>3. \A i \in DOMAIN members \ call[p].rows : members[i].user \in accounts'
  BY <1>1 DEF IInv, TablesInv, MembersAreAccounts
<1>4. \A i \in call[p].rows : i \in DOMAIN members =>
         members[i].group \notin Live' \/ groups[members[i].group].owner # members[i].user
  BY <1>1, <1>2 DEF RemoveFits
<1>5. \A q \in Calls \ {p} : call[q].kind = "create" /\ call[q].step = "commit" =>
            call[q].user \in accounts'
  BY <1>1 DEF IInv, CallFits, CreateFits
<1>6. notices' \subseteq NoticeType /\ accounts' \subseteq accounts /\ call[p].kind # "create"
  BY <1>1 DEF TypeOK, Kicked, NoticeType
<1>7. Committed(p)
  BY <1>3, <1>4, <1>5, <1>6, CommitRemoves
<1>8. RemovalTakes(p)
  BY <1>1, <1>2 DEF RowsOf, RemoveFits, RemovalTakes
<1>. QED
  BY <1>1, <1>7, <1>8

\* The last commit of DeleteUser takes the account, and all of its rows.
LEMMA CommitForgets ==
  ASSUME IInv, NEW p \in Calls, TakesEffect(p), call[p].kind = "forget",
         call[p].group = NoGroup
  PROVE  /\ Committed(p) /\ notices' = notices
         /\ call[p].saw.owned \cap Live' = {} /\ call[p].user \notin accounts'
<1>1. /\ TypeOK /\ ForgetFits(p) /\ accounts' = accounts \ {call[p].user}
      /\ notices' = notices /\ call[p].step = "commit"
  BY DEF IInv, CallFits, TakesEffect, Kicked
<1>2. OfUser(call[p].user) = call[p].rows \cap DOMAIN members
      /\ call[p].saw.owned \cap Live = {}
  BY <1>1 DEF ForgetFits
<1>3. Live' \subseteq Live
  BY CommitMarks
<1>4. \A i \in DOMAIN members \ call[p].rows : members[i].user \in accounts'
  BY <1>1, <1>2 DEF IInv, TablesInv, MembersAreAccounts, OfUser
<1>5. \A i \in call[p].rows : i \in DOMAIN members => members[i].user \notin accounts'
  BY <1>1, <1>2 DEF OfUser
<1>6. ASSUME NEW q \in Calls \ {p}, call[q].kind = "create", call[q].step = "commit"
      PROVE  call[q].user \in accounts'
  <2>1. Apart(q, p) /\ call[q].user \in accounts
    BY <1>6 DEF IInv, CallFits, CreateFits
  <2>. QED
    BY <1>1, <1>6, <2>1 DEF Apart, HoldsUser
<1>7. notices' \subseteq NoticeType /\ accounts' \subseteq accounts /\ call[p].kind # "create"
  BY <1>1 DEF TypeOK
<1>8. Committed(p)
  BY <1>4, <1>5, <1>6, <1>7, CommitRemoves
<1>. QED
  BY <1>1, <1>2, <1>3, <1>8

\* A call that ends with its commit, heard of or not.
LEMMA LastCommitKeeps ==
  ASSUME IInv, NEW p \in Calls, TakesEffect(p), NEW answer \in {"ok", "error"},
         EndsWith(p, answer), failures' \in 0 .. MaxFailures,
         answer = "ok" => ~ (call[p].kind = "forget" /\ call[p].group # NoGroup)
  PROVE  IInv'
<1>1. /\ TypeOK /\ call[p].step = "commit" /\ InFlight(p) /\ answer \in Answers
      /\ call[p].kind \in {"create", "delete", "leave", "kick", "forget"}
  BY DEF IInv, CallFits, KindFits, TakesEffect, InFlight, Answers
<1>2. ASSUME Committed(p), notices' = notices,
             answer = "ok" /\ call[p].kind = "forget" =>
                call[p].saw.owned \cap Live' = {} /\ call[p].user \notin accounts',
             call[p].kind \notin {"leave", "kick"}
      PROVE  IInv'
  <2>1. call[p].kind # "join" /\ nextID <= nextID'
    BY <1>1, <1>2 DEF Committed, TypeOK
  <2>. QED
    BY <1>1, <1>2, <2>1, WritesKeep DEF Committed
<1>3. CASE call[p].kind = "create"
  BY <1>2, <1>3, CommitCreates
<1>4. CASE call[p].kind = "delete" \/ (call[p].kind = "forget" /\ call[p].group # NoGroup)
  BY <1>2, <1>4, CommitDeletes
<1>5. CASE call[p].kind = "forget" /\ call[p].group = NoGroup
  BY <1>2, <1>5, CommitForgets
<1>6. CASE call[p].kind \in {"leave", "kick"}
  <2>1. /\ Committed(p) /\ RemovalTakes(p)
        /\ notices' = notices \cup Kicked(p) /\ call[p].group = call[p].key
    BY <1>6, CommitLeaves
  <2>2. \A n \in notices' \ notices : n.what = "kicked" =>
            /\ call[p].kind = "kick" /\ call[p].key = n.group /\ call[p].other = n.to
            /\ RowsOf(n.group, n.to)' \cap call[p].saw.rows = {}
    BY <2>1 DEF Kicked, RemovalTakes, RowsOf
  <2>3. nextID <= nextID'
    BY <1>1, <2>1 DEF Committed, TypeOK
  <2>. QED
    BY <1>1, <1>6, <2>1, <2>2, <2>3, WritesKeep DEF Committed
<1>. QED
  BY <1>1, <1>3, <1>4, <1>5, <1>6

\* DeleteUser goes on to the next group when one is deleted.
LEMMA GoesOnKeeps ==
  ASSUME IInv, NEW p \in Calls, TakesEffect(p), call[p].kind = "forget",
         call[p].group # NoGroup, Goes(p, "next", NoGroup, {}), failures' = failures
  PROVE  IInv'
<1>1. /\ TypeOK /\ CallFits(p) /\ KindFits(p) /\ call[p].step = "commit"
      /\ call[p] \in CallType
      /\ Becomes(p, "next", NoGroup, call[p].todo, {}, "none")
  BY DEF IInv, TypeOK, CallFits, TakesEffect, Goes
<1>2. Committed(p) /\ notices' = notices /\ call[p].group \notin Live' /\ Live' \subseteq Live
  BY CommitDeletes, CommitMarks DEF Target
<1>3. /\ call'[p].kind = call[p].kind /\ call'[p].user = call[p].user
      /\ call'[p].other = call[p].other /\ call'[p].key = call[p].key
      /\ call'[p].saw = call[p].saw /\ call'[p].step = "next" /\ call'[p].group = NoGroup
      /\ call'[p].todo = call[p].todo /\ call'[p].rows = {} /\ call'[p].answer = "none"
  BY <1>1 DEF Becomes, TypeOK
<1>4. /\ call' \in [Calls -> CallType] /\ \A q \in Calls \ {p} : call'[q] = call[q]
  BY <1>1 DEF Becomes, TypeOK, CallType, Steps, Answers
<1>5. TypeOK'
  <2>1. \A q \in Calls : call'[q].rows \subseteq IDs' /\ call'[q].saw.rows \subseteq IDs'
    BY <1>1, <1>2, <1>3, <1>4 DEF TypeOK, IDs, Committed
  <2>. QED
    BY <1>1, <1>2, <1>4, <2>1 DEF TypeOK, TablesType, Committed
<1>6. KicksAnnounced'
  BY <1>1, <1>2, <1>4, AnnouncedStays DEF KicksAnnounced, Committed
<1>7. CallFits(p)'
  <2>1. KindFits(p)'
    BY <1>1, <1>3 DEF KindFits
  <2>2. CreateFits(p)' /\ OwnersFit(p)' /\ JoinFits(p)' /\ RemoveFits(p)'
    BY <1>3 DEF CreateFits, OwnersFit, JoinFits, RemoveFits
  <2>3. ForgetFits(p)'
    BY <1>1, <1>2, <1>3 DEF CallFits, ForgetFits, Committed, GroupsKept
  <2>. QED
    BY <2>1, <2>2, <2>3 DEF CallFits
<1>8. ASSUME NEW q \in Calls \ {p}
      PROVE  Apart(p, q)' /\ Apart(q, p)'
  BY <1>3 DEF Apart, HoldsUser
<1>9. ToldFits(p)'
  BY <1>3 DEF ToldFits
<1>. QED
  BY <1>2, <1>4, <1>5, <1>6, <1>7, <1>8, <1>9, StepKeeps DEF Committed

\* A commit, heard of or not.
LEMMA CommitKeeps ==
  ASSUME IInv, NEW p \in Calls, Commit(p) \/ CommitUnheard(p)
  PROVE  IInv'
<1>1. failures' \in 0 .. MaxFailures /\ TakesEffect(p)
  BY DEF IInv, TypeOK, Commit, CommitUnheard
<1>2. CASE Commit(p) /\ call[p].kind = "forget" /\ call[p].group # NoGroup
  BY <1>2, GoesOnKeeps DEF Commit
<1>3. CASE Commit(p) /\ ~ (call[p].kind = "forget" /\ call[p].group # NoGroup)
  BY <1>1, <1>3, LastCommitKeeps DEF Commit
<1>4. CASE CommitUnheard(p)
  BY <1>1, <1>4, LastCommitKeeps DEF CommitUnheard
<1>. QED
  BY <1>2, <1>3, <1>4

-----------------------------------------------------------------------------
(***************************************************************************)
(* Failures, invitations, and every step.                                  *)
(***************************************************************************)
LEMMA FailKeeps ==
  ASSUME IInv, NEW p \in Calls, Fail(p)
  PROVE  IInv'
<1>1. failures' \in 0 .. MaxFailures /\ "error" \in Answers \ {"ok"}
  BY DEF IInv, TypeOK, Fail, Answers
<1>. QED
  BY <1>1, EndsKeeps DEF Fail

\* An invitation is stored some time, or lost.
LEMMA NoticeKeeps ==
  ASSUME IInv, NEW n \in outbox, StoreNotice(n) \/ LoseNotice(n)
  PROVE  IInv'
<1>1. /\ TypeOK /\ accounts' = accounts /\ groups' = groups /\ members' = members
      /\ nextID' = nextID /\ call' = call /\ outbox' \subseteq outbox
      /\ notices \subseteq notices' /\ notices' \subseteq notices \cup {n}
      /\ failures' \in 0 .. MaxFailures /\ n.what = "invited"
  BY DEF IInv, TablesInv, TablesFit, TypeOK, StoreNotice, LoseNotice, tables
<1>2. TypeOK'
  BY <1>1 DEF TypeOK, IDs
<1>3. TablesInv'
  BY <1>1 DEF IInv, TablesInv, OwnerIsMember, MembersAreAccounts, TablesFit, Live,
     RowsOf
<1>4. KicksAnnounced'
  BY <1>1 DEF IInv, KicksAnnounced, RowsOf
<1>5. ASSUME NEW p \in Calls
      PROVE  CallFits(p)' /\ ToldFits(p)'
  <2>1. CallFits(p) /\ ToldFits(p)
    BY DEF IInv
  <2>. QED
    BY <1>1, <2>1 DEF CallFits, KindFits, CreateFits, OwnersFit, JoinFits,
       RemoveFits, ForgetFits, ToldFits, Live, RowsOf, OfUser, Target, IDs
<1>6. ASSUME NEW p \in Calls, NEW q \in Calls, p # q
      PROVE  Apart(p, q)'
  BY <1>1, <1>6 DEF IInv, Apart, HoldsUser
<1>. QED
  BY <1>2, <1>3, <1>4, <1>5, <1>6 DEF IInv

\* Nothing happens.
LEMMA StutterKeeps ==
  ASSUME IInv, UNCHANGED vars
  PROVE  IInv'
<1>1. /\ accounts' = accounts /\ groups' = groups /\ members' = members
      /\ nextID' = nextID /\ call' = call /\ outbox' = outbox /\ notices' = notices
      /\ failures' = failures
  BY DEF vars, tables
<1>2. TypeOK'
  BY <1>1 DEF IInv, TypeOK, IDs
<1>3. TablesInv' /\ KicksAnnounced'
  BY <1>1 DEF IInv, TablesInv, OwnerIsMember, MembersAreAccounts, TablesFit, Live,
     RowsOf, KicksAnnounced
<1>4. ASSUME NEW p \in Calls
      PROVE  CallFits(p)' /\ ToldFits(p)'
  <2>1. CallFits(p) /\ ToldFits(p)
    BY DEF IInv
  <2>. QED
    BY <1>1, <2>1 DEF CallFits, KindFits, CreateFits, OwnersFit, JoinFits, RemoveFits,
       ForgetFits, ToldFits, Live, RowsOf, OfUser, Target, IDs
<1>5. ASSUME NEW p \in Calls, NEW q \in Calls, p # q
      PROVE  Apart(p, q)'
  BY <1>1, <1>5 DEF IInv, Apart, HoldsUser
<1>. QED
  BY <1>2, <1>3, <1>4, <1>5 DEF IInv

\* Every step keeps the invariant.
LEMMA NextKeeps ==
  ASSUME IInv, [Next]_vars
  PROVE  IInv'
<1>1. ASSUME NEW p \in Calls, Proceed(p)
      PROVE  IInv'
  BY <1>1, InsertGroupKeeps, NextGroupKeeps, WriteNameKeeps, InsertOwnerKeeps,
     FindGroupKeeps, DeleteMembersKeeps, MarkDeletedKeeps, CheckGroupKeeps,
     InsertMemberKeeps, CheckRightsKeeps, CheckMemberKeeps, DeleteMemberKeeps,
     GetGroupsByOwnerKeeps, DeleteMembershipsKeeps, DeleteAccountKeeps, CommitKeeps
     DEF Proceed
<1>. QED
  BY <1>1, BeginKeeps, CommitKeeps, FailKeeps, NoticeKeeps, StutterKeeps DEF Next

\* Every step keeps the groups: CreateGroup adds one, UpdateGroup names one, DeleteGroup and
\* DeleteUser mark one.
LEMMA NextKeepsGroups ==
  ASSUME IInv, [Next]_vars
  PROVE  GroupsKept
<1>1. ASSUME groups' = groups
      PROVE  GroupsKept
  BY <1>1 DEF GroupsKept
<1>2. ASSUME NEW p \in Calls, TakesEffect(p)
      PROVE  GroupsKept
  BY <1>2, CommitMarks, CommitCreates DEF Committed
<1>3. ASSUME NEW p \in Calls, NEW name \in Names, WriteName(p, name)
      PROVE  GroupsKept
  <2> DEFINE g == call[p].group
             mark == g \notin Live
  <2>1. groups[g].deleted => mark
    BY DEF Live
  <2>2. groups' = [groups EXCEPT ![g] = [name |-> name, owner |-> groups[g].owner,
                                         deleted |-> mark]]
    BY <1>3 DEF WriteName, Renames
  <2> HIDE DEF g, mark
  <2>3. \A h \in DOMAIN groups : h \in DOMAIN groups' /\ groups'[h].owner = groups[h].owner
    BY <2>2
  <2>4. \A h \in DOMAIN groups : groups[h].deleted => groups'[h].deleted
    BY <2>1, <2>2
  <2>. QED
    BY <2>3, <2>4 DEF GroupsKept
<1>4. ASSUME NEW p \in Calls, Begin(p)
      PROVE  groups' = groups
  BY <1>4 DEF Begin, BeginCreate, BeginOwners, BeginJoin, BeginLeave, BeginKick,
     BeginForget, Begins, tables
<1>5. ASSUME NEW p \in Calls, Proceed(p), ~ TakesEffect(p),
             \A name \in Names : ~ WriteName(p, name)
      PROVE  groups' = groups
  BY <1>5 DEF Proceed, InsertGroup, NextGroup, InsertOwner, FindGroup, DeleteMembers,
     MarkDeleted, CheckGroup, InsertMember, Joins, CheckRights, CheckMember,
     DeleteMember, RemovesRows, GetGroupsByOwner, DeleteMemberships, DeleteAccount,
     Commit, Reads, tables
<1>6. ASSUME NEW p \in Calls, Fail(p)
      PROVE  groups' = groups
  BY <1>6 DEF Fail, tables
<1>7. ASSUME NEW n \in outbox, StoreNotice(n) \/ LoseNotice(n)
      PROVE  groups' = groups
  BY <1>7 DEF StoreNotice, LoseNotice, tables
<1>8. ASSUME UNCHANGED vars
      PROVE  groups' = groups
  BY <1>8 DEF vars, tables
<1>. QED
  BY <1>1, <1>2, <1>3, <1>4, <1>5, <1>6, <1>7, <1>8 DEF Next, CommitUnheard

-----------------------------------------------------------------------------
\* The invariant holds always.
THEOREM Invariance == Spec => []IInv
  BY InitInv, NextKeeps, PTL DEF Spec

\* The tables have their types and belong together: a group that is not deleted has its owner
\* as a member, and members have accounts.
THEOREM InvHolds == Spec => []Inv
<1>1. IInv => Inv
  BY DEF IInv, TablesInv, Inv
<1>. QED
  BY <1>1, Invariance, PTL

\* Whoever was told that a member left, or was removed, finds none of the rows that were
\* there when the call began.
THEOREM Removals == Spec => []RemovalsTake
<1>1. IInv => RemovalsTake
  BY DEF IInv, ToldFits, RemovalsTake
<1>. QED
  BY <1>1, Invariance, PTL

\* No join of a group that was deleted before it began is answered "ok".
THEOREM JoinsAreFound == Spec => []JoinsFound
<1>1. IInv => JoinsFound
  BY DEF IInv, ToldFits, JoinsFound
<1>. QED
  BY <1>1, Invariance, PTL

\* When DeleteUser is answered "ok", every group the account owned when it began is
\* deleted, and the account is gone.
THEOREM OwnedAreGone == Spec => []OwnedGone
<1>1. IInv => OwnedGone
  BY DEF IInv, ToldFits, OwnedGone
<1>. QED
  BY <1>1, Invariance, PTL

\* A notification of a removal is sent only for one that took effect.
THEOREM KicksAreAnnounced == Spec => []KicksAnnounced
<1>1. IInv => KicksAnnounced
  BY DEF IInv
<1>. QED
  BY <1>1, Invariance, PTL

\* A deleted group stays deleted, and no group changes hands, by any step of any call.
THEOREM DeletedStays == Spec => StaysDeleted
<1>1. IInv /\ [Next]_vars =>
         [\A g \in DOMAIN groups :
            /\ g \in DOMAIN groups' /\ groups'[g].owner = groups[g].owner
            /\ groups[g].deleted => groups'[g].deleted]_vars
  BY NextKeepsGroups DEF GroupsKept
<1>. QED
  BY <1>1, Invariance, PTL DEF Spec, StaysDeleted
==============================================================================
