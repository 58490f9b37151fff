-------------------------------- MODULE Limits --------------------------------
(***************************************************************************)
(* The rate limiter of one server (ratelimit.go), the middlewares that ask *)
(* it (main.go) and the Login handler (account.go).                        *)
(*                                                                         *)
(* A step is one critical section of a shard's mutex; the clock does not   *)
(* go back.  Requests are limited by public id and logins by the name they *)
(* carry, which may be any text, somebody's public id too.                 *)
(***************************************************************************)
EXTENDS Integers, FiniteSets, Functions

CONSTANTS
    Clients,       \* by public id
    Names,         \* that logins carry
    Logins,        \* login requests in progress
    NumShards, ShardOf,
    Intervals,     \* the limited routes, /send and /check, by their intervals
    LoginInterval,
    LoginFailures, \* maxFailures
    TTL,           \* of an entry, for the cleanup
    BatchSize,     \* entries of a shard that one cleanup deletes: 100
    Wirings,       \* the routes to Login: "main" of main.go, "handler" of the tests
    MaxTime,       \* bound: the clock
    MaxLogins      \* bound: login requests

ASSUME LimitsAssumption ==
    /\ {NumShards, LoginInterval, LoginFailures, TTL, BatchSize} \subseteq Nat \ {0}
    /\ Intervals \subseteq 1 .. TTL
    /\ ShardOf \in [Clients -> 1 .. NumShards]
    /\ Wirings \subseteq {"main", "handler"}
    /\ {MaxTime, MaxLogins} \subseteq Nat

VARIABLES
    now,
    cache,       \* when a key was last allowed
    failCounts,
    sweep,       \* CleanupExpired
    login,       \* the login requests
    wiring,
    passed,      \* history: when a client was last let through
    logins       \* logins so far

vars == <<now, cache, failCounts, sweep, login, wiring, passed, logins>>

NoName == "noname"
Idle == [phase |-> "idle", since |-> 0, shard |-> 0, items |-> {}]
NewLogin == [step |-> "none", name |-> NoName, body |-> "none", answer |-> 0]

Init ==
    /\ now = 0 /\ cache = [k \in {} |-> 0] /\ passed = [k \in {} |-> 0]
    /\ failCounts = [n \in Names |-> 0]
    /\ sweep = Idle /\ login = [c \in Logins |-> NewLogin]
    /\ wiring \in Wirings /\ logins = 0

Tick ==
    /\ now < MaxTime /\ now' = now + 1
    /\ UNCHANGED <<cache, failCounts, sweep, login, wiring, passed, logins>>

Recent(times, k, i) == k \in DOMAIN times /\ now - times[k] < i
At(times, k) == [l \in DOMAIN times \cup {k} |-> IF l = k THEN now ELSE times[l]]

-----------------------------------------------------------------------------
(***************************************************************************)
(* rateLimitMiddleware: all limited routes of a client share one entry.    *)
(***************************************************************************)
Allow(k) == cache' = At(cache, k) /\ passed' = At(passed, k)

\* AllowRequestWithInterval
Request(k, i) ==
    /\ ~Recent(cache, k, i) /\ Allow(k)
    /\ UNCHANGED <<now, failCounts, sweep, login, wiring, logins>>

-----------------------------------------------------------------------------
(***************************************************************************)
(* CleanupExpired: the shards one by one, each collected and then swept    *)
(* under the lock, with the time at which the cleanup began.  With an      *)
(* entry go the failures of the same key.                                  *)
(***************************************************************************)
Stale(k) == sweep.since - cache[k] > TTL

Sweeps(phase, since, shard, items) ==
    sweep' = [phase |-> phase, since |-> since, shard |-> shard, items |-> items]

StartSweep ==
    /\ sweep.phase = "idle" /\ Sweeps("collect", now, 1, {})
    /\ UNCHANGED <<now, cache, failCounts, login, wiring, passed, logins>>

\* (A slip for NextShard: the last shard is left out.)
NextShardButLast ==
    IF sweep.shard + 1 >= NumShards THEN sweep' = Idle
    ELSE Sweeps("collect", sweep.since, sweep.shard + 1, {})

NextShard ==
    IF sweep.shard = NumShards THEN sweep' = Idle
    ELSE Sweeps("collect", sweep.since, sweep.shard + 1, {})

Collect ==
    /\ sweep.phase = "collect"
    /\ LET stale == {k \in DOMAIN cache : ShardOf[k] = sweep.shard /\ Stale(k)}
       IN \/ stale = {} /\ NextShard
          \/ \E items \in SUBSET stale \ {{}} :   \* in the order of a Go map, until full
                /\ \/ Cardinality(items) = BatchSize
                   \/ Cardinality(items) < BatchSize /\ items = stale
                /\ Sweeps("delete", sweep.since, sweep.shard, items)
    /\ UNCHANGED <<now, cache, failCounts, login, wiring, passed, logins>>

Deletes(items) ==
    /\ sweep.phase = "delete"
    /\ cache' = Restrict(cache, DOMAIN cache \ items)
    /\ failCounts' = [n \in Names |-> IF n \in items THEN 0 ELSE failCounts[n]]
    /\ NextShard
    /\ UNCHANGED <<now, login, wiring, passed, logins>>

\* (A slip for Delete: what was stale is deleted without a second look.)
DeleteUnchecked == Deletes(sweep.items)

Delete == Deletes({k \in sweep.items \cap DOMAIN cache : Stale(k)})

Sweep == StartSweep \/ Collect \/ Delete

-----------------------------------------------------------------------------
(***************************************************************************)
(* A login.  On main.go's route loginRateLimitMiddleware comes first and   *)
(* reads the request's body, so that the handler finds it empty.  A body   *)
(* is bad, or has the right or a wrong password.                           *)
(***************************************************************************)
Goes(c, step, name, body, answer) ==
    login' = [login EXCEPT ![c] =
        [step |-> step, name |-> name, body |-> body, answer |-> answer]]

Answers(c, answer) == Goes(c, "done", login[c].name, login[c].body, answer)

NewRequest(c) ==
    /\ login[c].step \in {"none", "done"} /\ logins < MaxLogins /\ logins' = logins + 1
    /\ UNCHANGED <<now, cache, sweep, wiring, passed>>

\* loginRateLimitMiddleware; AllowRequestWithMaxFailures refuses a name that has
\* failed often and has a recent entry, and else starts to count anew.
LimitLogin(c, n, body) ==
    /\ wiring = "main" /\ NewRequest(c)
    /\ IF body = "bad" THEN Goes(c, "bind", n, body, 0) /\ UNCHANGED failCounts
       ELSE IF failCounts[n] >= LoginFailures /\ Recent(cache, n, LoginInterval)
       THEN Goes(c, "done", n, body, 429) /\ UNCHANGED failCounts
       ELSE /\ Goes(c, "bind", n, body, 0)
            /\ failCounts' = [failCounts EXCEPT ![n] = IF @ >= LoginFailures THEN 0 ELSE @]

ReachLogin(c, n, body) ==
    /\ wiring = "handler" /\ NewRequest(c)
    /\ Goes(c, "bind", n, body, 0)
    /\ UNCHANGED failCounts

\* Login: ShouldBindJSON.
Bind(c) ==
    /\ login[c].step = "bind"
    /\ IF login[c].body = "bad" \/ wiring = "main" THEN Answers(c, 400)
       ELSE Goes(c, "find", login[c].name, login[c].body, 0)
    /\ UNCHANGED <<now, cache, failCounts, sweep, wiring, passed, logins>>

Accept(c) ==
    /\ login[c].step = "find" /\ login[c].body = "right"
    /\ Answers(c, 200)
    /\ UNCHANGED <<now, cache, failCounts, sweep, wiring, passed, logins>>

\* The password is wrong, the user is not found or the database fails: all
\* count as a failure of the name.
RecordFailure(c) ==
    /\ login[c].step = "find" /\ Answers(c, 401)
    /\ failCounts' = [failCounts EXCEPT ![login[c].name] = @ + 1]
    /\ UNCHANGED <<now, cache, sweep, wiring, passed, logins>>

-----------------------------------------------------------------------------
Next ==
    \/ Tick \/ Sweep
    \/ \E k \in Clients, i \in Intervals : Request(k, i)
    \/ \E c \in Logins :
          \/ \E n \in Names, body \in {"bad", "wrong", "right"} :
                LimitLogin(c, n, body) \/ ReachLogin(c, n, body)
          \/ Bind(c) \/ Accept(c) \/ RecordFailure(c)

Spec == Init /\ [][Next]_vars

\* StartCleanup's ticker keeps ticking while the server is up (ratelimit.go:50),
\* and a cleanup, once begun, goes on.
FairSpec == Spec /\ WF_vars(Sweep)

-----------------------------------------------------------------------------
\* Only requests of clients make entries; a name may have the failures of its logins.
TypeOK ==
    /\ now \in 0 .. MaxTime /\ logins \in 0 .. MaxLogins /\ wiring \in Wirings
    /\ DOMAIN cache \subseteq Clients /\ DOMAIN passed \subseteq Clients
    /\ Range(cache) \cup Range(passed) \subseteq 0 .. now
    /\ failCounts \in [Names -> 0 .. MaxLogins]
    /\ sweep \in [phase : {"idle", "collect", "delete"}, since : 0 .. now,
                  shard : 0 .. NumShards, items : SUBSET Clients]
    /\ login \in [Logins -> [step : {"none", "bind", "find", "done"}, name : Names \cup {NoName},
                             body : {"none", "bad", "wrong", "right"},
                             answer : {0, 200, 400, 401, 429}]]

\* The limiter refuses a client that asks with an interval if and only if it let the
\* client through, to whatever route, within that interval (ratelimit.go:73): a
\* cleanup that runs between or beside the requests forgets nothing that counts
\* (ratelimit.go:103), and requests that are refused do not hold up the next
\* (ratelimit.go:75).
RefusedIffRecent ==
    \A k \in Clients, i \in Intervals :
        Recent(cache, k, i) <=> Recent(passed, k, i)

\* The entries have their types, and tell who has been let through.
Inv == TypeOK /\ RefusedIffRecent

\* What a client that went away has left is forgotten in the end, however many
\* entries expire together (ratelimit.go:93).
Forgotten ==
    \A k \in Clients, t \in 0 .. MaxTime :
        (k \in DOMAIN cache /\ cache[k] = t /\ now - t > TTL)
            ~> ~(k \in DOMAIN cache /\ cache[k] = t)

\* Login answers 400 to a bad request only (account.go:146), and 200 to a right
\* name and password (handler_test.go:213).
BadRequestsOnly == \A c \in Logins : login[c].answer = 400 => login[c].body = "bad"
===============================================================================
