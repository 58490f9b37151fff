# vortex, specified

TLA+ models of the vortex chat server (a Go program over Postgres), the TLC runs
that check them on small instances, and TLAPS proofs of what matters most for
every instance.

Several server processes may share one database. The server keeps almost no
state of its own: the segments of the id generator, the rate limiter's maps and
the cache of revoked tokens. Everything else is in Postgres, at READ COMMITTED,
written by request handlers that run concurrently. So the models are about
statements and transactions that interleave, commits whose answer is lost,
goroutines that finish late, and processes that die.

## 1. Inventory

| component | state | operations | who it talks to | what makes it correct |
|---|---|---|---|---|
| Id generator (`idgen.go`) | `segments` under `g.mu`, the slot of `prefetchCh`; table `id_generator_state` | `Init`, `GenerateID`, synchronous fetch, prefetch | called by every write of a message | an id is never handed out twice, by any server, across restarts; calls return; the prefetch slot comes back |
| Private messages (`messaging.go`, `store.go`) | tables `messages`, `conversation_participants` (with a cached last message) | `SendMessage`, `RecallMessage`, `BlockUser`, `UnblockUser`, lists | id generator, friends, idempotency, S3 | all writes of a send or a recall take effect together; the cached last message and the table agree; an answered client key stores nothing more |
| Idempotency records (`store.go:281`, `worker.go:222`) | table `message_idempotency` | `CheckAndInsert`, `UpdateMsgID`, cleanup | messages, worker | an answered key stores nothing more; a duplicate is answered with the id of the stored message |
| Polling (`messaging.go:116`, `:292`) | the client's cursor or page | `GetMessages`, `CheckNewMessages` | messages, friends | a reader misses only what is stored behind its cursor; paging loses at most messages that share their millisecond |
| Conversation ids (`conversation.go`) | none | build and parse | messages | either user finds the other in the id, and nobody else passes for one of them |
| Friend requests (`friend.go`) | table `friend_requests` with a partial unique index | send, accept, reject, cancel | notifications | at most one pending request in a direction; answered once; crossing requests make friends |
| Groups (`groups.go`) | tables `groups`, `group_members` | create, update, delete, add, remove, kick | notifications, messages, accounts | a group has its owner as a member; no members without a group |
| Accounts (`account.go`) | table `users` | register, login, update, delete | groups, friends, tokens | emails are unique, names are looked at; overlapping updates lose only to each other; deletion leaves nothing behind |
| Rate limiter (`ratelimit.go`) | sharded maps of times and failure counts | allow, record failure, reset, cleanup | login and other routes | a client is refused exactly within its interval, whatever the cleanup forgets; idle clients are forgotten; a good login is let in |
| Tokens (`jwt.go`) | `blacklistCache`, table `jwt_blacklist` | issue, blacklist, check, cleanup | every authenticated route | a token that was logged out is refused until it expires |
| Worker (`worker.go`) | three loops, the partitions of `messages` | create partitions, drop expired ones, clean records | messages | a message finds its partition but in a known hole; only expired days are dropped, and all of them are; `Stop` waits, shutdown ends |
| Notifications (`shared.go:224`) | rows in `messages` | send in a `goSafe` goroutine | friends, groups | sent after the commit they tell of |
| S3 (`s3.go`) | objects | presign, delete | recall | a recalled file is deleted |
| Startup, shutdown (`main.go`) | the process | | all | requests are served after `Init`; shutdown ends |
| Migrations, config, errors, metrics, health, API docs | | | | no behaviour that a model would add to |

Hard behaviours: several callers and a prefetch that fetch segments at once;
servers that start together; crossing transactions with checks made outside of
them; commits whose outcome the caller does not learn; the same client key sent
twice; deadlocks of inserts; records deleted under a running request; retries.
`PROJECT.json` lists each at its line under `hazards`.

## 2. Plan

1. **Id generator** (done): `IdService` (abstract), `IdGen`, `MCIdGen`,
   `IdGenProofs`. Everything else rests on unique ids.
2. **Private messages** (done): `Conversation` (abstract), `Messaging`,
   `MCMessaging`; **polling** (done): `Polling`, composed with `Messaging`;
   **conversation ids** (done): `ConvIds`, composed with both in `Addressing`,
   `MCAddressing`. `MessagingProofs` has the proofs about all of them.
3. **Friend requests** (done): `Friendship` (abstract), `Friends`, `MCFriends`,
   `FriendsProofs`.
4. **Groups and account deletion** (done): `Groups`, `MCGroups`, `GroupsProofs`.
5. **Accounts** (done): `Accounts`, `MCAccounts`, `AccountsProofs`. **Rate limiter
   and login** (done): `Limits`, `MCLimits`, `LimitsProofs`. **Tokens** (done):
   `Sessions`, `MCSessions`, `SessionsProofs`.
6. **Worker, partitions, start and stop** (done): `Partitions`, `MCPartitions`,
   `PartitionsProofs`.

Every safety property of a passing run is a theorem; liveness stays with TLC (§5).
Where a doc, a comment or a test promises what the code does not keep, a run
shows the violation, or the text names it (§4).

Runs are few, one per question; instances that ask nothing new are merged.
Modules to be proved about declare no RECURSIVE operator; constants carry the
assumptions of their declaring module. In each module `Inv` is its type
invariant together with what its tables owe one another.

## 3. Modules

### IdService, IdGen

`IdService` is what callers may rely on: `Issue` adds one identifier to
`issued` that was not there. `IdGen` is the code:

| IdGen | code |
|---|---|
| `rows`, `nextRow` | `id_generator_state`: id -> last_ts, and its BIGSERIAL |
| `segments[n]` | `g.segments` of server `n`: current and EndID |
| `th[n][t]` | where goroutine `t` stands, the row and start it read, the segment it reserved |
| `issued`, `handed` | history |
| `FoundState`, `InsertState`, `CommitInsert` | `initFromDB` |
| `NoSegment`, `PopExhausted`, `HandOut` | `tryGenerateFromCurrent`, one critical section of `g.mu`; `HandOut` may start the prefetch |
| `CheckEmpty`, `AppendSync` | the two looks of `fetchNewSegmentSync` at the list |
| `SelectForUpdate`, `CommitFetch`, `FailFetch` | `fetchNewSegmentFromDB` |
| `AppendPrefetch`, `ReleaseSlot` | the prefetch goroutine and its deferred release |
| `Crash` | the process dies and restarts |

Identifiers are numbers with the code's layout; only the widths are constants
(`NumNodeIDs`, `NumSequences`), so the carry from the sequence into the node bits
and the timestamp is there: a segment spans milliseconds, and the node bits of an
identifier do not name the server that handed it out. The overflow of 41 bits is
not. `Initialisers` are the servers that may be started before the table has its row.
The branch of `fetchNewSegmentFromDB` for a table without a row cannot be
reached after `Init`, which inserts one, and is left out.

### Conversation, Messaging

`Conversation` is what a conversation promises: `Post` and `Recall` change
messages and the cached last message together. `Messaging` has one step per SQL
statement. A request's record `req[r]` holds what its open transaction wrote
(`joins`, `record`, `shown`); the tables change at the commit. The operators
`RecordHeld`, `RowHeld`, `CacheHeld` and `MessageHeld` say who holds a row lock,
`WaitsFor` what the next statement waits for. Permission checks read committed
data outside of the transaction, as the code does. `migration.go:105` declares
that a participant row refers to a user: so a row cannot be inserted for a
deleted account, and an account cannot be deleted while a transaction that
inserted its row is open.

One private conversation of two users is modelled: requests on different
conversations share no rows. Contents are left out but for whether a message is
recalled and, for a notice, which message it tells of. The recall window is the
freedom not to begin a recall. The cached last message is one value, though
stored in the rows of both users: every statement writes it to all rows.

### Friendship, Friends

`Friendship` is what friend requests promise: a request is asked once per
direction, settled or withdrawn once, and forgotten only with an account of it.
`Friends` has one step per SQL statement:

| Friends | code |
|---|---|
| `accounts`, `requests`, `nextID` | the tables `users` and `friend_requests`, its BIGSERIAL |
| `call[p]` | where a handler stands; `rows`, which its open transaction holds while `step = "commit"`, and what it `does` to them |
| `KeyFree` | the partial unique index (`migration.go:95`): an insert waits for an open transaction with its key |
| `BeginSend`, `AcceptReverse`, `InsertRequest` | `SendFriendRequest` |
| `BeginAnswer`, `CheckExists`, `Answer` | accepting, rejecting, cancelling |
| `BeginForget`, `ForgetRequests` | `DeleteUser`, as far as it touches friend requests |
| `Commit`, `CommitUnheard`, `Fail` | `withTx`: commit, a commit whose answer is an error, rollback |
| `outbox`, `StoreNotice`, `LoseNotice` | the `goSafe` goroutines that notify |

A statement that meets a held row waits, and then decides by what the row has
become: the guard `Free` of the statement, with its condition evaluated in the
same step. The sequence moves on even when an insert meets a duplicate, so ids
have holes. A request that the reverse request answers notifies the caller, as
the code does, not the user who asked first. `DELETE` takes all its rows in one
step; two deletions that would deadlock over them are covered by `Fail`, which is
what Postgres does to one of them. Refusals that change nothing (oneself, an
unknown receiver) are left out. No liveness is claimed: a call holds rows only
while it commits, and nothing after that waits.

### Groups

The tables `groups` and `group_members` under the calls of `groups.go` and the
whole of `DeleteUser`, again with one step per statement:

| Groups | code |
|---|---|
| `call[p].rows` | member rows its open transaction has inserted or deleted |
| `HoldsGroup`, `HoldsUser`, `RefersTo` | the row locks on a group or account that is being deleted; the share lock a new member row takes on its account |
| `InsertGroup`, `InsertOwner` | `CreateGroup` |
| `FindGroup`, `WriteName` | `UpdateGroup`: by id or name, the owner, then the write of what was read |
| `FindGroup`, `DeleteMembers`, `MarkDeleted` | the handler of `DeleteGroup`; `Target` is what it deletes |
| `CheckGroup`, `InsertMember` | `AddMember`, an insert by itself, then the invitation |
| `CheckRights`, `CheckMember`, `DeleteMember` | `KickMember`, whose message is stored with its transaction; `RemoveMember` without the first |
| `GetGroupsByOwner`, `NextGroup`, `DeleteMemberships`, `DeleteAccount` | `DeleteUser`: each owned group in a transaction, then the account, with the cascade of `migration.go:72` |
| `Commit`, `CommitUnheard`, `Fail` | `withTx`; `DeleteUser` stops at the first group that fails |

A group id is random and never comes back. The looks of `KickMember` at the
group and at the member are one step, since they only refuse. A kick of somebody
who leaves at the same time deletes no row and is announced all the same; the
code makes no promise about that, and `KicksAnnounced` asks that the membership
the kick was about is gone. Members of a deleted group can remain, from a join
that was on its way; `JoinsFound` bounds that. A group made while its owner is
deleted may be left without an owner; `OwnerIsMember` and `OwnedGone` say what
holds nonetheless. `call[p].saw` is history.

### Polling

Clients that read the conversation of `Messaging` while requests are served, in
the runs of `Messaging`. A follower asks `/check` (`Updated`, `Check`) and
fetches the messages above its cursor page by page (`Fetch`), each page one query
with a row more than it shows (`Page`); a pager goes back from the newest message
by page number (`ReadPage`). Ids are not given out in commit order, within a
server for requests that overlap and between servers at all, so a message may be
stored behind a cursor: the code then never shows it to that client, and
`FollowersHold` says that nothing else is missed. `Serve` is a step of
`Messaging`; `passed`, `caughtUp` and `owed` are history.

What the client does between its calls is its own, and modelled as a careful
client would: the last_msg_id of an empty page is 0 (`messaging.go:247`), which it
does not take for its cursor, and it begins with `lastMsgId=1`, the least that is
accepted.

A pager's order is `ts DESC` and nothing else (`store.go:361`). The `ts` is a
millisecond of the clock, read after the id is drawn and outside of the transaction, so
it follows neither the ids nor the commits, and two messages may have the same:
`Serve` gives each message any time of `Times`. `Orders` has every order the database
may answer in, and each query takes one of its own (`ReadPage`), so that messages of one
`ts` may change places between two pages and one of them be lost. `PagingLosesTiesOnly`
says that nothing else is.

### ConvIds, Addressing

`ConvIds` has the string operators of `conversation.go` over all public ids of a
bounded length, the characters being numbers in byte order. `Messaging` takes it
that a send finds the other user; `Addressing` composes it (and `Polling`) with two
users of any two public ids, and a send in which `GetOtherPublicID` finds nobody
ends in `InvalidTarget`. `OthersFound` says that no send does, and is violated: an id
is taken apart at its last underscore, which is the wrong one if the larger public id
has an underscore. `GenerateNanoID` draws 21 characters of 64, one of them the
underscore, so for 28% of all pairs it has one, and then no private message can be
sent between them (`messaging.go:356`). `OthersAreFound` proves that this is the only
case, and that nobody else ever passes for one of the two (§5).

### Sessions

Tokens, the blacklist table and one cache per server, with one clock. A call is
one request with a token: the middleware's look (`IsBlacklisted`), then the
handler; `Logout`, `InsertRow` and `Remember` are the three steps of
`BlacklistToken`, the purge of a full cache included. A server starts by reading
the table (`QueryBlacklist`, `FillCache`), sweeps its cache (`Collect`, `Sweep`)
and starts DELETEs of rows (`DeleteRows`), which run beside everything else.
`told` and `late` are history: the tokens a server has been told were logged out.
A logout that another server carried out after this one's start is not among
them, for the code has no channel for it. `InsertFails` is what `Logout` answers
200 to. The clock is read twice on a request's way, so a token that expires in
between may pass, and `LoggedOutRefused` says so.

### Limits

`cache` is the limiter's map of times, in shards; `Request` is
`AllowRequestWithInterval`; `Collect`, `Delete` and `NextShard` are a cleanup: at
most `BatchSize` stale entries under the read lock, their deletion with a second
look under the lock. `failCounts` are the failures of names, in the same shards under
the same keys: a login may carry any text for a name, somebody's public id too
(`account.go:24`), so that `Names` and `Clients` may overlap, a cleanup of a client's
entry deletes the failures of a name that equals its id (`ratelimit.go:112`), and the
client's requests count as recent for that name's logins. A login comes through
main.go's middleware, which reads the body (`LimitLogin`), or straight to the handler
as in `handler_test.go:190` (`ReachLogin`); `Wirings` says which. In main's wiring the
handler's bind always fails, so no failure is ever counted and 429 never answered; in
the tests' wiring nothing reads the counts.

`passed` is history: when each client was last let through, to any route. A route is
named by its interval. `RefusedIffRecent` is what the limiter itself keeps: one time per
client, which no cleanup forgets too early. It is not what the README of the program
promises of each route and of failed logins; see the divergences below.

### Accounts

The table `users` under `CreateUser`, `UpdateUser` and `DeleteUser`, one step per
statement. `name` stands for every field without a key (name, bio), `email` for the
one with a unique index, which counts the empty string too. The `marks` of a request
are history: `"free"` if its name has been free at some moment of it, `"spoilt"` if
its name or email has been in use or a statement failed, `"late"` if others wrote
the row since it read it. What `DeleteUser` does to groups, friends and participants
is in `Groups`, `Friends` and `Messaging`.

### Partitions

A clock in ticks, days and weeks; the partitions of `messages` by day; main's
phases, the worker's three loops, and the goroutine that stops them. A start
creates today's partition up to Sunday's, with retries, or exits
(`CreateFirst`, `Retry`); a loop waits for its delay, then ticks (`DelayOver`,
`Fire`), and the table loop creates the week after its own (`CreateNext`), the
maintenance loop drops what has expired (`Drop`). Any statement may fail, and
`missed` remembers the days whose creation did. The ticker and `stopCh` may be
ready together: `select` takes either. `Signal`, `WorkerStopped`,
`TokensStopped`, `CleanupDone`, `CleanupTimeout` and `Drained` are main.go's way
out; `Kill` is a second signal or a crash. `run` is history: the last day of the
start, the first of the table loop, and since when the server is up.

`runLoop` waits for the first Monday and a whole interval more before it first
creates partitions, and then creates those of the week after: the days between
have none. `Covered` says that every day up to the first Sunday has its partition,
since a start that fails to create one tries again and exits rather than go on; that
later days may lie in that hole; and that after it a day is missing only if the table
loop failed to create it, which it does not try again (`worker.go:98`). `HoleBound`
bounds the hole: two weeks, or three if a Sunday ends while the server starts. A DROP
that failed is tried again by the next round of maintenance (`OldOnesGo`).

One server is modelled. Several may share the database; then each creates and drops the
same days with `IF NOT EXISTS` and `IF EXISTS`, what one creates the others find, and a
creation that loses a race with another may fail as any statement may.

`MCIdGen`, `MCMessaging`, `MCAddressing`, `MCFriends`, `MCGroups`, `MCSessions`, `MCLimits`,
`MCAccounts` and `MCPartitions` give the constants their values.

Definitions marked as slips are single deviations from the definition they stand
before (a dropped lock, a missing check). No behaviour uses them; they document,
for each property, a change of the code that it notices.

## 4. Runs

| cfg | instance | shows |
|---|---|---|
| `IdGen` | 2 servers with 2 callers, 5 calls, 1 crash, an empty database that one of them initialises | `Unique`, `CoveredByState`, `ReservedAbove`, the refinement of `IdService`; under fairness `CallsReturn`, `SlotComesBack` |
| `MessagesFirstContact` | 2 sends, no rows yet, 2 blocks or deletions, a follower | `Inv` (`TypeOK`, `JoinTogether`); under fairness `RequestsEnd`, `Delivered` |
| `MessagesRecall` | 2 sends, 1 recall, 2 times, a follower and a pager with pages of 1 | `FollowersHold`, `PagingLosesTiesOnly`, the refinement of `Conversation` |
| `MessagesAnswers` | 3 sends, 1 uncertain commit, 1 record deleted; public ids of 1 character of 3 | `AnswersNameMessages`, `NoMessageAfterAnswer` |
| `MessagesUnderscore` | 2 sends; public ids of 2 characters of 3 | `OthersFound` is violated |
| `FriendsRaces` | 2 users, 4 calls, 1 failure | `OnePending`, `AnswersHold`, `CrossingAccepted`, `BothWanted`, `NoticesTrue`, the refinement of `Friendship` |
| `GroupsRaces` | 2 users, 2 groups, 4 calls, 1 failure | `Inv` (`TypeOK`, `OwnerIsMember`, `MembersAreAccounts`), `RemovalsTake`, `JoinsFound`, `OwnedGone`, `KicksAnnounced`, `StaysDeleted` |
| `Accounts` | 3 accounts, 2 names, 1 email, 3 requests at a time, 5 in all, 1 failure | `Inv` (`TypeOK`, `UniqueEmails`), `RegistersWhatIsFree`, `NamesChecked`, `OthersFieldsStay`, `DeletedStays` |
| `Sessions` | 2 servers, 2 tokens, 2 requests at a time, cache and batch of 1, 1 failure | `Inv` (`TypeOK`, `CacheHasRows`), `LoggedOutRefused` |
| `Limits` | 2 clients of one shard of 2, intervals 1 and 2, batch of 1, both wirings, 2 logins with a client's id or another name | `Inv` (`TypeOK`, `RefusedIffRecent`); under fairness `Forgotten` |
| `LimitsMainLogin` | main's wiring | `BadRequestsOnly` is violated |
| `Partitions` | weeks of 2 days, 17 ticks, 2 starts, 2 failures | `Inv` (`TypeOK`, `Covered`, `HoleBound`, `QuietAfterStop`), `KeptForRetention`, `OldOnesGo`; under fairness `ShutdownEnds` |

Bounds. A segment of the instance holds three identifiers and spans milliseconds, so five calls
exhaust segments, pop them, fetch synchronously in both callers and prefetch; a
third segment would be needed to exceed the list's two. Two servers are enough for
every conflict over the one row, since a transaction conflicts with one other. Two
requests conflict over each row of a conversation, a third is there where an
answered request, a running one and a new one meet. Two users have both directions
of a request; four calls are two that cross, one that answers or deletes between
them and one that asks again. In `Groups` four calls are a creation, a join and two
that race to end the membership, the group or the account; two groups let
`DeleteUser` stop between its transactions. In `MessagesRecall` no client key is
used, since keys do not meet recalls; three ids are three pages of one, each boundary
one between two messages, full with nothing behind it and with something behind it; two
times let messages be apart, tied, or against the order of their ids and of their
commits. A second recall of one message, and a COMMIT that fails and takes
effect (which `MessagesAnswers` has), are left to the proof of the refinement. Elsewhere nobody pages
and one time is enough.
Public ids of one of three characters have the underscore in the smaller id, in the
larger or in neither. In `Accounts` three requests are two that race and one that
frees or takes what they want. In `Sessions` a cache of one entry is full at the
second token, and a batch of one leaves a sweep unfinished. In `Limits` the clock
passes the time to live of an entry, so that both clients' entries expire together, and
a client comes back while its own is being swept. In `Partitions` a day of two ticks has a
midnight and a time after it, the retention is as long as a week, the table loop
ticks once a week, and the clock passes four weeks: the second start meets every
weekday, and the hole of the first ends within the clock. Deadlock is not checked:
calls and requests are bounded and the system may then stop.

Fairness. Every goroutine that can move does so in the end (the Go scheduler),
statements return, and Postgres grants a row lock that is free and breaks a
cycle of waits. Nothing forces a request to be made, a statement to fail, a
process to die, a user to be blocked. A follower goes on asking (`PFairSpec`), or
nothing could be said of what reaches it. In `Limits` only the cleanup's ticker is
fair, in `Partitions` only main's own timers: statements of the worker have no
timeout and may hang. In `IdGen` fairness is weak and by goroutine,
which is enough, since the row lock's holder moves on by itself.

### What the violations say

* `MessagesUnderscore`: `ParsePrivateConv` "returns the two public ids"
  (`conversation.go:39`) and `GetOtherPublicID` the other's (`:73`), and
  `service_test.go:159` sends between two users with random ids. If the larger id has
  an underscore the last one is not the separator (`conversation.go:50`): neither user
  is found in the id, and the send is refused.
* `LimitsMainLogin`: main.go's login route runs `loginRateLimitMiddleware`, whose
  `ShouldBindJSON` reads the request's body to the end (`main.go:364`); `Login` binds
  again, gets EOF and answers 400 to a right name and password. The tests register
  the handler without the middleware.

### Divergences found while modelling

What the code does is what the models do; these are points where that is not
what a doc, a comment or a test would have one expect. The properties are stated
so as to hold of the code, and name the exception.

* Two servers that start on an empty database each insert a state row
  (`idgen.go:125`, no unique key). The generator reads the row with the lowest id,
  which may appear after the other was used: ids are handed out twice. TLC shows
  it as a violation of `Unique` with `FreshDB = TRUE` and two `Initialisers`; the theorems
  assume `SingleInitialiser`.
* A late prefetch puts a lower segment behind a higher one (`idgen.go:222`): the
  identifiers of one server may go down, against the comment at `idgen.go:49`.
* Two requests with one client key that overlap both store a message
  (`messaging.go:321`: the record says 0 until the commit); so does a retry after
  a commit that took effect but returned an error (`messaging.go:402`).
  `NoMessageAfterAnswer` is what is left of "should be idempotent"
  (`service_test.go:294`).
* Paging back by number may lose one of two messages of one millisecond between two
  pages, and show the other twice: `ORDER BY ts DESC` has no second key
  (`store.go:361`, `PagingLosesTiesOnly`).
* `README.md:115` and `:116` of the program give `/api/messages/send` and `/api/check` a
  limit each. They share one time per client (`main.go:273`, `:276`,
  `ratelimit.go:76`): a send makes the next poll answer 429.
* `README.md:114` promises a limit of 5 failed logins in 15 minutes and `account.go:149`
  the answer 429. No failure is counted on main.go's route, since the handler does not
  get as far (see above); and were they counted, the limiter would refuse only a name
  that has a recent time in `cache` (`ratelimit.go:146`), which no login writes.
  `ratelimit_test.go:113` writes one by calling `AllowRequest` with the name.
* A recall blanks the content before it looks for the file in it
  (`messaging.go:492`, `:532`): the S3 object is never deleted. Two recalls of one
  message may both succeed, with two notices.
* The cached last message is that of the last commit; the list reads the
  messages instead (`store.go:996`), and nothing reads the cache.
* Deleting a group by its name answers 204 and deletes nothing: the handler finds
  the group by id or name (`groups.go:202`), then deletes by what the request named
  (`groups.go:213`).
* Of two accounts without an email the second is refused with 500: the unique
  index counts the empty string (`account.go:389`, `migration.go:41`).
* `Logout` answers 200 when its INSERT fails (`account.go:342`), and other servers
  that are up are not told of a logout.
* With `WORKER_TABLE_CREATE_INTERVAL_HOURS` above 168 the worker skips weeks
  (`worker.go:85`), as `AtMostWeekly` says.
* A partition that the weekly loop failed to create is not tried again until the server
  restarts (`worker.go:98`, `Covered`).
* The days after the first Sunday of a start have no partition (`worker.go:120`,
  `HoleBound`), and a message may go up to a day before it is as old as the
  retention (`worker.go:193`, `KeptForRetention`).

## 5. Proofs

`IdGenProofs` proves, for any number of servers, goroutines, calls, crashes, any
widths and segment sizes, under `ConstantsAssumption` and `SingleInitialiser`
(the table has its row, or at most one server may be started before it has):

* `Invariance`: `Spec => []IInv`;
* from it `TypeCorrect`, `Uniqueness`, `Covered`, `ReservesAbove`,
  `TwoSegments` and `Refinement` (`IdGen` implements `IdService`).

`Unique` is not inductive. `IInv` says why it holds: there is one state row
(`OneRow`); a transaction that read it is the only one that did and the row is
as it read it (`RowLock`); the stocks `(cur, end]` of all segments, in lists or
in the hands of goroutines, are apart from one another (`StocksApart`) and from
what was handed out (`StocksClear`); and all of it lies at or below `last_ts`
(`BelowState`), where the next segment starts. `HandOut` takes from one stock
what no other has; `CommitFetch` makes a stock above everything. The lemmas
`FirstIDGrows`, `WithinMillisecond` and `SegmentSpan` carry the arithmetic of
the layout. `TypeOK` and `AtMostTwoSegments` are proved and need no run.

`FriendsProofs` proves, for any users, calls and number of failures, under
`FriendsAssumption` alone: `Invariance` (`Spec => []IInv`), and from it
`TypeCorrect`, `OneOpenRequest`, `AnswersStand`, `FriendsByConsent`,
`NoticesAreTrue`, `NoCrossingMissed` and `Refinement` (`Friends` implements
`Friendship`). The argument is about row locks: what a call holds is still as it
found it (`HeldRows`), no two calls hold one row (`HeldApart`) or insert one key
(`InsertsApart`), and nobody knows of a row that is not committed (`Unknown`), so
a commit takes effect as if its statements had run at that moment. `AskedBy` ties
a stored request to the call of its sender, and `PassedBy` remembers what the
look for a reverse request did not find.

`SessionsProofs` proves, for any servers, tokens, requests, lifetimes, batch and
cache sizes, under `SessionsAssumption`: `InvHolds` (what a server refuses has its
row) and `LoggedOut` (who comes after its server was told of the logout is
refused). Neither is inductive. A cache is what was told, minus what expired
(`ToldCached`), which survives a cleanup since it removes expired tokens only
(`SweptExpired`), and a restart since what the query returned was in the table
(`LoadedKnown`); a row is written before the cache is filled (`RememberHasRow`); and
a request that came after the logout still meets a server that was told
(`LateTold`).

`AccountsProofs` proves, under `AccountsAssumption`: `InvHolds` (emails differ),
`Registers`, `Checked`, `Stays` and `Deleted`. `SpoiltSeen` ties the marks of a
registration to the table: as long as it is not spoilt, nobody has its name or
email, so that no check and no unique index refuses it. `ReadStill` says that the
row that an update is about to merge into is the one that it read, is gone, or
was written by somebody else. The module needs `NoId \notin Ids`: a request with no
account in hand must not be taken for one of an account.

`GroupsProofs` proves, for any users, groups, calls and failures, under
`GroupsAssumption`: `InvHolds`, `Removals`, `JoinsAreFound`, `OwnedAreGone`,
`KicksAreAnnounced` and `DeletedStays`. `CallFits` says, for each kind of call, what
an open transaction has looked at and still needs: a creator's group does not exist
and its account does (the lock that the foreign key takes keeps `DeleteUser` away);
a removal is never of the owner; a `DeleteUser` has each group it saw deleted or
still to do. `Apart` says what two transactions cannot both hold. Each step is
proved to change the tables only in ways that every other call can rely on (`Rely`):
groups stay, with their owner, and stay deleted; no account comes back; rows do not
change, and a new one is none that the other call holds. So there is a lemma for
each statement and one that `Rely` is enough (`RelyKeeps`), not one for each pair.
`ToldFits` carries the answers to the end.

`MessagingProofs` proves, for any numbers of requests, keys, identifiers and
failures, under `MessagingAssumption` (a conversation has two users): `InvHolds`,
`AnswersAreTrue`, `AnsweredOnce` and `Refinement` (`Messaging` implements
`Conversation`). `PcsFit` says what each request carries at each statement and
`IdsDiffer` that identifiers not yet committed are held by one request each, so that
a commit adds a message and never replaces one. `JoinsFit` says that a send inserts
exactly the participant rows that are missing and holds their accounts: hence
`JoinTogether`. `ListFits` says that the list entry is held by one transaction at a
time, and `RecallsFit` that a recall finds there what it saw: hence the refinement,
where a post or a recall and its entry in the list change at once, at the commit.
`RecordsName` says that a completed record names a stored message of a send with
that key: hence the answers. `KeysFit` is about the time before any COMMIT failed and
any record expired (`Undisturbed`), when a reserved record stays until it is
completed. After that the code may store a second message (§4).

The same module proves of the readers (`Polling`), under `PollingAssumption`, for
pages of any size and any interleaving with sends and recalls: `ReadersOnlyRead`, that
the composition implements `Messaging`, so that its theorems hold in it.
`NothingIsSkipped`: `FollowerFits` says that all stored messages at or behind the
cursor are held or were stored late; the step needs that a page of the oldest
messages after the cursor has everything up to its last row (`FirstClosed`), and that a
short page has everything there is (`FirstShort`). `PagesCover` (`PagingLosesTiesOnly`):
in whatever order a query answers, a message that shares its `ts` with no other stands
behind just the newer ones (`PlaceIsFixed`, which rests on `Numbered`: an order numbers
any stretch of its messages without a gap). `PagerFits` counts these (`Newer`): new
messages only push it to later pages, or tie with it, so that a pager that has passed
`(page - 1) * PageSize` places holds each message it is owed among them that is not
tied; and a query without a row to cut has come to the last place (`RowsEnd`).

And of public ids (`Addressing`), under `ConvIdsAssumption`, of any length and
alphabet: `OthersAreFound`, that `OnlyTheirs` holds (whoever passes for a user of the
conversation is one) and so does `OthersFound` unless the larger id has an underscore.
`LessIsTotal` says that of two ids one is the smaller, so
that both users build one conversation (`LargerUser`); `RestIs` says which character is
where in its id, and `MarksFit` that the last underscore is the one between the two ids
exactly if the larger has none. Then it is taken apart into the two (`ParsedBack`), and
otherwise into parts of other lengths than a public id's (`ParsedWrong`), for which
nobody passes (`WhoPasses`). This is not inductive: `AddressFits` adds that in
the second case no send is past the permission check, no recall has begun and nothing
is stored. What is proved of answers holds here, too (`AnswersWhenAddressed`), since the
refusal `InvalidTarget` keeps the invariant of `Messaging` and of its readers.

`PartitionsProofs` proves, for days and weeks of any length, any intervals, retention,
failures and restarts, under `PartitionsAssumption`: `StopIsQuiet`, `OldMessagesGo`,
`MessagesKept` and, if the table loop comes round at least weekly, `DaysCovered` (the
whole of `Inv`). None of them is inductive. `TimersFit` says that no timer is overdue
and that a round takes no time, `LoopsFit` which of main's phases the loops run in. For
`OldMessagesGo`, `MaintenanceFits` says what the last round of maintenance left and the
current one has still to drop: all but that lies within the retention, or else more
statements have failed than rounds have passed (`GoneBy`, `Slack`). For `DaysCovered`,
`CoverInv` follows the days from the start, which creates its own or does not end
(`StartFits`, `StartCreated`), to the end of the
week that the table loop will find when its timer goes (`TableFits`). Its hypothesis
`AtMostWeekly` is true of the default interval, 168 hours (`.env.example:47`); with a
longer one, which the configuration accepts, the loop skips whole weeks, and TLC finds
`Inv` violated. The lemmas on the calendar (`Quotient`, `QuotientIs`, `DayOfIs`
and those after them) carry the division of ticks into days and weeks.

`LimitsProofs` proves, under `LimitsAssumption`: `InvHolds` (a client is refused exactly
if it was let through, to whatever route, less than its interval ago, whatever a cleanup
deleted). `EntriesAgree` is the reason: the entry of a client is the time of its last
request that was let through, what a cleanup deleted is older than `TTL`, and no
interval is longer. `FailuresCounted` bounds the failures of a name by the logins begun,
which the type of the counters needs; a cleanup only lowers them.

Each of these theorems assumes the named ASSUME of its module and nothing else,
but for `SingleInitialiser` and `AtMostWeekly`, which are stated in the theorems.

Model-checked only are the liveness properties (`CallsReturn`, `SlotComesBack`,
`RequestsEnd`, `Delivered`, `Forgotten`, `ShutdownEnds`): the prover reasons neither
about fairness nor about ENABLED. `BadRequestsOnly` and `OthersFound`
are refuted (§4).

## 6. Not modelled

* Group messages and the recall window in `Messaging` (one more single read, one
  more guard); contents, formats and times in answers.
* The conversation list: one query over what `Messaging` keeps.
* S3: presigned addresses are computed by the library; the one call that changes
  an object is never reached.
* Signing and parsing of tokens, password hashes: the libraries'. Passwords are
  right or wrong.
* Configuration, error mapping, metrics, health, the generated API documents: no
  state that a model would add to. `docs/docs.go` is generated.
* Migrations: DDL that may run again; the keys and references it declares are in
  the modules that rely on them.
* Functions the program does not call: `GetConversationMessagesByRange`,
  `AllowRequest`, `ResetFailure`, `GetFailureCount`, `MessageTableNameByTs`.
