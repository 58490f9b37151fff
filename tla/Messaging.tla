------------------------------ MODULE Messaging ------------------------------
(***************************************************************************)
(* SendMessage and RecallMessage of messaging.go on a private conversation *)
(* of two users, with the stores they write (store.go): concurrent         *)
(* requests, on any number of servers, over one Postgres at READ           *)
(* COMMITTED.                                                              *)
(*                                                                         *)
(* One step is one SQL statement.  What a transaction wrote is in its      *)
(* request's record until it commits; a row it wrote is locked until then, *)
(* and a statement of another request that wants to write the row waits.   *)
(* A request may fail at any statement, or die with its server, and is     *)
(* rolled back; a COMMIT may fail, or take effect and lose its answer.     *)
(***************************************************************************)
EXTENDS Integers, FiniteSets

CONSTANTS
    Users,            \* the two users of the conversation
    Keys, NoKey,      \* the client_msg_id values a user may send, and none
    Sends, Recalls,   \* the requests that may be made
    Ids,              \* what idGen.GenerateID may answer
    Joined0,          \* have the users written to each other before, in
                      \* messages that are outside of the model?
    MaxCommitErrors,  \* bound: COMMITs whose caller gets an error
    MaxExpired,       \* bound: idempotency records the worker deletes
    MaxToggles        \* bound: block, unblock and delete-account calls

ASSUME MessagingAssumption ==
    /\ \E u, v \in Users : u # v /\ Users = {u, v}
    /\ Sends \cap Recalls = {} /\ NoKey \notin Keys
    /\ IsFiniteSet(Ids) /\ Ids \subseteq Nat \ {0} /\ Joined0 \in BOOLEAN
    /\ {MaxCommitErrors, MaxExpired, MaxToggles} \subseteq Nat

Requests == Sends \cup Recalls

VARIABLES
    messages,      \* the messages table
    cache,         \* last_msg_* of the conversation_participants rows
    participants,  \* the users that have a conversation_participants row
    blocked,       \* those whose row says is_blocked = 1
    deleted,       \* the users that have deleted their accounts
    idem,          \* message_idempotency: msg_id of a (user, client_msg_id)
    used,          \* the identifiers GenerateID has handed out
    req,           \* the requests: where each stands and what it carries
    commitErrors, expired, toggles

table == <<messages, cache, participants, blocked, deleted, idem>>
bounds == <<commitErrors, expired, toggles>>
vars == <<table, used, req, bounds>>

Conv == INSTANCE Conversation WITH Users <- Users, messages <- messages, cache <- cache
Nothing == Conv!Nothing

Absent == -1                \* no idempotency record
Other(u) == CHOOSE v \in Users : v # u

NewRequest ==
    [pc |-> "idle", user |-> Nothing, key |-> Nothing, target |-> Nothing,
     id |-> Nothing, answer |-> "none",
     joins |-> {},          \* participant rows its transaction has inserted
     record |-> FALSE,      \* its transaction has updated the idempotency record
     shown |-> FALSE,       \* its recall has updated the cached last message
     late |-> FALSE]        \* history: its key was answered before it began

Init ==
    /\ messages = [i \in {} |-> Nothing] /\ cache = Conv!Blank
    /\ participants = (IF Joined0 THEN Users ELSE {})
    /\ blocked = {} /\ deleted = {}
    /\ idem = [uk \in Users \X Keys |-> Absent]
    /\ used = {} /\ req = [r \in Requests |-> NewRequest]
    /\ commitErrors = 0 /\ expired = 0 /\ toggles = 0

-----------------------------------------------------------------------------
InFlight(r) == req[r].pc \notin {"idle", "done"}
Key(r) == <<req[r].user, req[r].key>>
Keyed(r) == r \in Sends /\ req[r].key \in Keys
Sent(r) == r \in Sends /\ req[r].id \in DOMAIN messages
Answered(r) == req[r].answer \in {"sent", "duplicate"}

\* The request r begins.
Begins(r, pc, user, key, target, late) ==
    req' = [req EXCEPT ![r] =
        [pc |-> pc, user |-> user, key |-> key, target |-> target, id |-> Nothing,
         answer |-> "none", joins |-> {}, record |-> FALSE, shown |-> FALSE, late |-> late]]

\* It goes on, or ends, with what its transaction has done by then.
Becomes(r, pc, id, answer, joins, record, shown) ==
    req' = [req EXCEPT ![r] =
        [pc |-> pc, user |-> req[r].user, key |-> req[r].key, target |-> req[r].target,
         id |-> id, answer |-> answer, joins |-> joins, record |-> record, shown |-> shown,
         late |-> req[r].late]]

Step(r, from, to) ==
    req[r].pc = from
        /\ Becomes(r, to, req[r].id, "none", req[r].joins, req[r].record, req[r].shown)

\* (A slip for Ends: a request that fails is not rolled back.)
EndsUnrolled(r, answer) ==
    IF answer = "error"
    THEN Becomes(r, "done", req[r].id, answer, req[r].joins, req[r].record, req[r].shown)
    ELSE Becomes(r, "done", req[r].id, answer, {}, FALSE, FALSE)

\* The end of a request; an open transaction is rolled back.
Ends(r, answer) == Becomes(r, "done", req[r].id, answer, {}, FALSE, FALSE)

(***************************************************************************)
(* Row locks: which transaction holds the row r's next statement writes.   *)
(***************************************************************************)
RecordHeld(uk) == {s \in Sends : req[s].record /\ Key(s) = uk}
RowHeld(u) == {s \in Sends : u \in req[s].joins}
CacheHeld ==
    {s \in Sends : req[s].pc = "commit"} \cup {s \in Recalls : req[s].shown}
MessageHeld(m) ==
    {s \in Recalls : req[s].target = m /\ req[s].pc \in {"notice", "show", "commit"}}

WaitsFor(r) ==
    CASE req[r].pc \in {"check", "idem", "reset"} -> RecordHeld(Key(r))
      [] req[r].pc = "join" -> RowHeld(req[r].user)
      [] req[r].pc = "joinOther" -> RowHeld(Other(req[r].user))
      [] req[r].pc = "cache" -> CacheHeld
      [] req[r].pc = "blank" -> MessageHeld(req[r].target)
      [] req[r].pc = "show" /\ cache.id = req[r].target -> CacheHeld
      [] OTHER -> {}

Free(r) == WaitsFor(r) \ {r} = {}

-----------------------------------------------------------------------------
(***************************************************************************)
(* SendMessage.                                                            *)
(***************************************************************************)
BeginSend(r, u, k) ==
    /\ req[r].pc = "idle"
    /\ Begins(r, IF k = NoKey THEN "generate" ELSE "check", u, k, Nothing,
              \E s \in Sends : Key(s) = <<u, k>> /\ Answered(s))
    /\ UNCHANGED <<table, used, bounds>>

\* CheckAndInsert: the record is reserved with msg_id 0, or found; only one
\* that names a message makes the request a duplicate.
CheckDuplicate(r) ==
    /\ req[r].pc = "check" /\ Free(r) /\ idem[Key(r)] > 0
    /\ Becomes(r, "done", idem[Key(r)], "duplicate", {}, FALSE, FALSE)
    /\ UNCHANGED <<table, used, bounds>>

CheckNew(r) ==
    /\ Step(r, "check", "generate")
    /\ Free(r) /\ idem[Key(r)] <= 0
    /\ idem' = [idem EXCEPT ![Key(r)] = 0]
    /\ UNCHANGED <<messages, cache, participants, blocked, deleted, used, bounds>>

\* GenerateID: an identifier nobody got before, not always the largest.
Generate(r, from, to) ==
    /\ req[r].pc = from
    /\ \E id \in Ids \ used :
          /\ used' = used \cup {id}
          /\ Becomes(r, to, id, "none", {}, FALSE, FALSE)
    /\ UNCHANGED <<table, bounds>>

GenerateForSend(r) == Generate(r, "generate", "permission")

\* The two are friends, until one of them has no account.
AreFriends == deleted = {}

\* ensureSessionPermissionTx: both reads go to the database outside of the
\* transaction.
ReadBlocked(r) ==
    /\ blocked = {}
    /\ Step(r, "permission", "friends")
    /\ UNCHANGED <<table, used, bounds>>

ReadFriends(r) ==
    /\ AreFriends
    /\ Step(r, "friends", "exists")
    /\ UNCHANGED <<table, used, bounds>>

Refuse(r) ==
    /\ \/ req[r].pc = "permission" /\ blocked # {}
       \/ req[r].pc = "friends" /\ ~ AreFriends
    /\ Ends(r, "refused")
    /\ UNCHANGED <<table, used, bounds>>

\* Exists, in the transaction; without a row, InsertBatchTx inserts the
\* sender's, then the other's, ON CONFLICT DO NOTHING.  A row refers to its
\* user (migration.go:105): the users row must exist, and cannot be deleted
\* before the transaction ends.
ReadExists(r) ==
    /\ Step(r, "exists", IF req[r].user \in participants THEN "idem" ELSE "join")
    /\ UNCHANGED <<table, used, bounds>>

InsertRow(r, u, from, to) ==
    /\ req[r].pc = from /\ Free(r)
    /\ IF u \in deleted
       THEN Ends(r, "error")
       ELSE Becomes(r, to, req[r].id, "none",
                    IF u \in participants THEN req[r].joins ELSE req[r].joins \cup {u},
                    FALSE, FALSE)
    /\ UNCHANGED <<table, used, bounds>>

\* (A slip for InsertRows: the other user is left out.)
InsertOneRow(r) == InsertRow(r, req[r].user, "join", "idem")

InsertRows(r) ==
    \/ InsertRow(r, req[r].user, "join", "joinOther")
    \/ InsertRow(r, Other(req[r].user), "joinOther", "idem")

\* (Slips for UpdateRecord: the record is never updated; it is updated outside
\* of the transaction.)
LeaveRecord(r) ==
    /\ Step(r, "idem", "cache") /\ Free(r)
    /\ UNCHANGED <<table, used, bounds>>

UpdateRecordAtOnce(r) ==
    /\ Step(r, "idem", "cache") /\ Free(r)
    /\ idem' = IF Keyed(r) /\ idem[Key(r)] # Absent
               THEN [idem EXCEPT ![Key(r)] = req[r].id] ELSE idem
    /\ UNCHANGED <<messages, cache, participants, blocked, deleted, used, bounds>>

\* InsertMessage, which no other request can see or stop, and UpdateMsgID: no
\* row to update if the worker has deleted it.
UpdateRecord(r) ==
    /\ req[r].pc = "idem" /\ Free(r)
    /\ Becomes(r, "cache", req[r].id, "none", req[r].joins,
               Keyed(r) /\ idem[Key(r)] # Absent, FALSE)
    /\ UNCHANGED <<table, used, bounds>>

UpdateLastMsgCache(r) ==
    /\ r \in Sends /\ Free(r)
    /\ Step(r, "cache", "commit")
    /\ UNCHANGED <<table, used, bounds>>

\* What the transaction of a send leaves in the tables.
WriteSend(r) ==
    /\ messages' = Conv!With(req[r].id, Conv!Posted(req[r].user))
    /\ cache' = [id |-> req[r].id, recalled |-> FALSE]
    /\ participants' = participants \cup req[r].joins
    /\ idem' = IF req[r].record THEN [idem EXCEPT ![Key(r)] = req[r].id] ELSE idem
    /\ UNCHANGED <<blocked, deleted>>

CommitSend(r) ==
    /\ r \in Sends /\ req[r].pc = "commit"
    /\ WriteSend(r)
    /\ Ends(r, "sent")
    /\ UNCHANGED <<used, bounds>>

\* COMMIT returns an error, whether or not it took effect...
CommitSendError(r) ==
    /\ r \in Sends /\ req[r].pc = "commit" /\ commitErrors < MaxCommitErrors
    /\ WriteSend(r) \/ UNCHANGED table
    /\ IF Keyed(r)
       THEN Becomes(r, "reset", req[r].id, "none", {}, FALSE, FALSE)
       ELSE Ends(r, "error")
    /\ commitErrors' = commitErrors + 1
    /\ UNCHANGED <<used, expired, toggles>>

\* ... and the record is set back to 0, on a connection of its own.
ResetRecord(r) ==
    /\ req[r].pc = "reset" /\ Free(r)
    /\ idem' = [idem EXCEPT ![Key(r)] = IF @ = Absent THEN Absent ELSE 0]
    /\ Ends(r, "error")
    /\ UNCHANGED <<messages, cache, participants, blocked, deleted, used, bounds>>

-----------------------------------------------------------------------------
(***************************************************************************)
(* RecallMessage.                                                          *)
(***************************************************************************)
\* GetMessage and the checks on it, before the transaction.  (A notice is
\* recalled itself.)
BeginRecall(r, u, m) ==
    /\ req[r].pc = "idle"
    /\ ~ messages[m].recalled /\ messages[m].from = u
    /\ Begins(r, "blank", u, Nothing, m, FALSE)
    /\ UNCHANGED <<table, used, bounds>>

\* UpdateMessage: content and is_recalled, with no look at what is there now.
BlankMessage(r) ==
    /\ Free(r)
    /\ Step(r, "blank", "notice")
    /\ UNCHANGED <<table, used, bounds>>

\* GenerateID and InsertMessage of the notice.
InsertNotice(r) == Generate(r, "notice", "show")

\* (A slip for ShowRecall: AND last_msg_id = ... is missing.)
ShowRecallAlways(r) ==
    /\ req[r].pc = "show" /\ CacheHeld \ {r} = {}
    /\ Becomes(r, "commit", req[r].id, "none", {}, FALSE, TRUE)
    /\ UNCHANGED <<table, used, bounds>>

\* UpdateLastMsgCacheOnRecall: only rows that show the message.
ShowRecall(r) ==
    /\ req[r].pc = "show" /\ Free(r)
    /\ Becomes(r, "commit", req[r].id, "none", {}, FALSE, cache.id = req[r].target)
    /\ UNCHANGED <<table, used, bounds>>

WriteRecall(r) ==
    /\ messages' = [Conv!With(req[r].id, Conv!Notice(req[r].user, req[r].target))
                       EXCEPT ![req[r].target].recalled = TRUE]
    /\ cache' = IF req[r].shown THEN [cache EXCEPT !.recalled = TRUE] ELSE cache
    /\ UNCHANGED <<participants, blocked, deleted, idem>>

CommitRecall(r) ==
    /\ r \in Recalls /\ req[r].pc = "commit"
    /\ WriteRecall(r)
    /\ Ends(r, "recalled")
    /\ UNCHANGED <<used, bounds>>

CommitRecallError(r) ==
    /\ r \in Recalls /\ req[r].pc = "commit" /\ commitErrors < MaxCommitErrors
    /\ WriteRecall(r) \/ UNCHANGED table
    /\ Ends(r, "error")
    /\ commitErrors' = commitErrors + 1
    /\ UNCHANGED <<used, expired, toggles>>

-----------------------------------------------------------------------------
(***************************************************************************)
(* Failures, and the rest of the system.                                   *)
(***************************************************************************)
\* A statement fails, the client goes away (ctx), or the server dies.
Fail(r) ==
    /\ InFlight(r)
    /\ Ends(r, "error")
    /\ UNCHANGED <<table, used, bounds>>

\* Postgres aborts a transaction of a cycle.
AbortDeadlock(r) ==
    /\ InFlight(r) /\ \E s \in WaitsFor(r) \ {r} : r \in WaitsFor(s)
    /\ Ends(r, "error")
    /\ UNCHANGED <<table, used, bounds>>

\* BlockUser, UnblockUser (SetBlocked): an UPDATE of the row, if there is one.
SetBlocked(u) ==
    /\ toggles < MaxToggles /\ CacheHeld = {}
    /\ blocked' \in {blocked \cup ({u} \cap participants), blocked \ {u}}
    /\ toggles' = toggles + 1
    /\ UNCHANGED <<messages, cache, participants, deleted, idem, used, req, commitErrors, expired>>

\* DeleteUser (account.go), which deletes the user's participant row, the
\* friend requests with the user and the account in one transaction.
DeleteUser(u) ==
    /\ u \notin deleted /\ toggles < MaxToggles /\ CacheHeld = {} /\ RowHeld(u) = {}
    /\ deleted' = deleted \cup {u}
    /\ participants' = participants \ {u} /\ blocked' = blocked \ {u}
    /\ toggles' = toggles + 1
    /\ UNCHANGED <<messages, cache, idem, used, req, commitErrors, expired>>

\* cleanupIdempotency deletes a record, which a transaction may lock.
ExpireRecord(uk) ==
    /\ idem[uk] # Absent /\ RecordHeld(uk) = {} /\ expired < MaxExpired
    /\ idem' = [idem EXCEPT ![uk] = Absent] /\ expired' = expired + 1
    /\ UNCHANGED <<messages, cache, participants, blocked, deleted, used, req, commitErrors, toggles>>

SendStep(r) ==
    \/ CheckDuplicate(r) \/ CheckNew(r) \/ GenerateForSend(r)
    \/ ReadBlocked(r) \/ ReadFriends(r) \/ Refuse(r) \/ ReadExists(r) \/ InsertRows(r)
    \/ UpdateRecord(r) \/ UpdateLastMsgCache(r)
    \/ CommitSend(r) \/ CommitSendError(r) \/ ResetRecord(r)

RecallStep(r) ==
    \/ BlankMessage(r) \/ InsertNotice(r) \/ ShowRecall(r)
    \/ CommitRecall(r) \/ CommitRecallError(r)

Next ==
    \/ \E r \in Sends : SendStep(r) \/ \E u \in Users, k \in Keys \cup {NoKey} : BeginSend(r, u, k)
    \/ \E r \in Recalls :
          \/ RecallStep(r)
          \/ \E u \in Users, m \in DOMAIN messages : BeginRecall(r, u, m)
    \/ \E r \in Requests : Fail(r) \/ AbortDeadlock(r)
    \/ \E u \in Users : SetBlocked(u) \/ DeleteUser(u)
    \/ \E uk \in Users \X Keys : ExpireRecord(uk)

Spec == Init /\ [][Next]_vars

\* Statements end: the scheduler runs every request's goroutine, and Postgres
\* answers it, grants its lock or breaks the cycle it waits in.
Fairness ==
    /\ \A r \in Sends : WF_vars(SendStep(r) \/ AbortDeadlock(r))
    /\ \A r \in Recalls : WF_vars(RecallStep(r) \/ AbortDeadlock(r))

-----------------------------------------------------------------------------
Labels == {"idle", "check", "generate", "permission", "friends", "exists", "join",
           "joinOther", "idem", "cache", "commit", "reset", "blank", "notice", "show", "done"}
\* ("invalid" is of Addressing.)
Answers == {"none", "sent", "duplicate", "invalid", "refused", "recalled", "error"}

Message == [from : Users, recalled : BOOLEAN, of : Ids \cup {Nothing}]
Request ==
    [pc : Labels, user : Users \cup {Nothing}, key : Keys \cup {NoKey, Nothing},
     target : Ids \cup {Nothing}, id : Ids \cup {Nothing}, answer : Answers,
     joins : SUBSET Users, record : BOOLEAN, shown : BOOLEAN,
     late : BOOLEAN]

TypeOK ==
    /\ DOMAIN messages \subseteq used /\ messages \in [DOMAIN messages -> Message]
    /\ cache \in [id : Ids \cup {Nothing}, recalled : BOOLEAN]
    /\ participants \in SUBSET Users /\ blocked \in SUBSET participants
    /\ deleted \subseteq Users
    /\ idem \in [Users \X Keys -> Ids \cup {Absent, 0}]
    /\ used \subseteq Ids
    /\ req \in [Requests -> Request]

\* A client that is told "sent" or "duplicate" is told the id of a stored
\* message of its own, which carries its client_msg_id (messaging.go:322, 410).
AnswersNameMessages ==
    \A r \in Sends : Answered(r) =>
        /\ req[r].id \in DOMAIN messages
        /\ messages[req[r].id].from = req[r].user
        /\ \E s \in Sends : /\ req[s].id = req[r].id /\ Key(s) = Key(r)
                           /\ req[s].answer # "duplicate"

\* The rows of a private conversation come together and go with the accounts:
\* a message is stored with both participants, and no row is there for a
\* deleted user, however first messages race with one another and with
\* DeleteUser.
JoinTogether ==
    /\ participants \in {{}, Users \ deleted}
    /\ DOMAIN messages # {} => participants = Users \ deleted

\* The tables have their types and belong together (messaging.go:582).
Inv == TypeOK /\ JoinTogether

\* A request that begins after its client_msg_id was answered stores nothing
\* (service_test.go:294), whatever other requests with it are still running,
\* as long as no COMMIT has failed and the worker has deleted no record.
NoMessageAfterAnswer ==
    commitErrors = 0 /\ expired = 0 =>
    \A r \in Sends : Keyed(r) /\ req[r].late /\ Sent(r) => req[r].answer = "duplicate"

\* Sends and recalls take effect one at a time, as in Conversation, whatever
\* fails in between: a message is blanked and its notice is stored together
\* (messaging.go:498), and the cached last message of the participants' rows
\* comes with its message and is shown as recalled as soon as that is.
Serialised == Conv!Spec

\* Every request is answered: no wait for a row is for ever, even when the two
\* users send their first messages at once, each inserting its own row first.
RequestsEnd == \A r \in Requests : InFlight(r) ~> ~ InFlight(r)
==============================================================================
