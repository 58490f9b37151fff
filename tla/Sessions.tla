------------------------------- MODULE Sessions -------------------------------
(***************************************************************************)
(* Tokens and their blacklist: JwtService of jwt.go with the middleware    *)
(* that asks it (main.go) and the Logout handler (account.go), on several  *)
(* servers over one table jwt_blacklist.                                   *)
(*                                                                         *)
(* Each server keeps the blacklist in memory, fills it from the table when *)
(* it starts and never looks at the table again.  A step is one critical   *)
(* section of blacklistMu, one statement or one look at the clock; all     *)
(* servers read one clock, and a token is valid while now < expires_at.    *)
(***************************************************************************)
EXTENDS Integers, FiniteSets

CONSTANTS
    Servers,
    Tokens,        \* by their jti
    Calls,         \* requests in progress; a slot is used again and again
    Lifetime,      \* expiresInMinutes
    MaxCacheSize,  \* maxBlacklistCacheSize
    BatchSize,     \* expired items that one cleanup collects: 1000
    MaxTime,       \* bound: the clock
    MaxFailures    \* bound: statements that fail

ASSUME SessionsAssumption ==
    /\ {Lifetime, MaxCacheSize, BatchSize} \subseteq Nat \ {0}
    /\ {MaxTime, MaxFailures} \subseteq Nat

VARIABLES
    now,       \* the clock
    expiry,    \* expires_at of the tokens that have been issued
    table,     \* jwt_blacklist, by jti
    server,    \* the servers
    call,      \* the requests
    deletes,   \* DELETEs of cleanups that are under way: <<server, items>>
    failures

vars == <<now, expiry, table, server, call, deletes, failures>>

NoServer == "noserver"
NoToken == "notoken"

Issued == DOMAIN expiry
Expired(t) == expiry[t] <= now

\* A server: phase, blacklistCache, what its query or cleanup has collected, and
\* (history) the logouts it has been told of.
Down == [phase |-> "down", cache |-> {}, items |-> {}, told |-> {}]

Becomes(s, phase, cache, items, told) ==
    server' = [server EXCEPT ![s] =
        [phase |-> phase, cache |-> cache, items |-> items, told |-> told]]

NewCall ==
    [step |-> "none", server |-> NoServer, token |-> NoToken, wants |-> "none", late |-> FALSE]

Init ==
    /\ now = 0 /\ expiry = [t \in {} |-> 0] /\ table = {}
    /\ server = [s \in Servers |-> Down] /\ call = [c \in Calls |-> NewCall]
    /\ deletes = {} /\ failures = 0

Serves(s) == server[s].phase \in {"up", "sweeping"}
Running(c) == call[c].step \in {"check", "logout", "insert", "remember"}
Fails == failures < MaxFailures /\ failures' = failures + 1

Tick ==
    /\ now < MaxTime /\ now' = now + 1
    /\ UNCHANGED <<expiry, table, server, call, deletes, failures>>

\* GenerateToken: a fresh jti; all servers sign with one secret.
GenerateToken(t) ==
    /\ t \notin Issued
    /\ \E s \in Servers : Serves(s)
    /\ expiry' = [u \in Issued \cup {t} |-> IF u = t THEN now + Lifetime ELSE expiry[u]]
    /\ UNCHANGED <<now, table, server, call, deletes, failures>>

-----------------------------------------------------------------------------
(***************************************************************************)
(* NewJwtService.  The query sees the rows of one moment; they go into the *)
(* cache later.  An error of the query leaves the cache empty, one among   *)
(* its rows leaves out some: the server serves all the same.               *)
(***************************************************************************)
Loads(s, read, told) ==
    /\ server[s].phase = "down"
    /\ Becomes(s, "loading", {}, read, told)
    /\ UNCHANGED <<now, expiry, table, call, deletes>>

QueryBlacklist(s) == Loads(s, table, table) /\ UNCHANGED failures
QueryFails(s) == \E read \in SUBSET table : Fails /\ Loads(s, read, {})

FillCache(s) ==
    /\ server[s].phase = "loading"
    /\ Becomes(s, "up", {t \in server[s].items : ~Expired(t)}, {}, server[s].told)
    /\ UNCHANGED <<now, expiry, table, call, deletes, failures>>

\* Shutdown, which waits for the DELETEs of cleanups but not for long (main.go
\* gives them 10 of their 30 seconds), or a crash.  Memory is lost, requests and
\* DELETEs are cut off.
Exit(s) ==
    /\ server[s].phase # "down"
    /\ server' = [server EXCEPT ![s] = Down]
    /\ deletes' = {d \in deletes : d[1] # s}
    /\ call' = [c \in Calls |-> IF Running(c) /\ call[c].server = s THEN NewCall ELSE call[c]]
    /\ UNCHANGED <<now, expiry, table, failures>>

-----------------------------------------------------------------------------
(***************************************************************************)
(* A request with a token: the middleware, then the handler.  late says    *)
(* that this server had been told of the token's logout when the request   *)
(* came.                                                                   *)
(***************************************************************************)
CallBecomes(c, step, s, t, wants, late) ==
    call' = [call EXCEPT ![c] =
        [step |-> step, server |-> s, token |-> t, wants |-> wants, late |-> late]]

Goes(c, step) ==
    CallBecomes(c, step, call[c].server, call[c].token, call[c].wants, call[c].late)

Ends(c, answer) == CallBecomes(c, answer, NoServer, NoToken, "none", FALSE)

\* jwtMiddleware: ValidateToken.
Request(c, s, t, wants) ==
    /\ ~Running(c) /\ Serves(s) /\ t \in Issued
    /\ IF Expired(t) THEN Ends(c, "none")
       ELSE CallBecomes(c, "check", s, t, wants, t \in server[s].told)
    /\ UNCHANGED <<now, expiry, table, server, deletes, failures>>

\* jwtMiddleware: IsBlacklisted.  An entry that has expired by now is deleted
\* and counts for nothing.
IsBlacklisted(c) ==
    /\ call[c].step = "check"
    /\ LET s == call[c].server
           t == call[c].token
           found == t \in server[s].cache /\ ~Expired(t)
       IN /\ \/ found /\ Ends(c, "none")
             \/ ~found /\ call[c].wants = "use" /\ Ends(c, "accepted")
             \/ ~found /\ call[c].wants = "logout" /\ Goes(c, "logout")
          /\ Becomes(s, server[s].phase, IF found THEN server[s].cache ELSE server[s].cache \ {t},
                     server[s].items, server[s].told)
    /\ UNCHANGED <<now, expiry, table, deletes, failures>>

\* Logout: ValidateToken once more; a token that has expired needs no logout.
Logout(c) ==
    /\ call[c].step = "logout"
    /\ IF Expired(call[c].token) THEN Ends(c, "none") ELSE Goes(c, "insert")
    /\ UNCHANGED <<now, expiry, table, server, deletes, failures>>

\* (A slip for InsertRow: the row is written by a goroutine, which may fail.)
InsertRowLater(c) ==
    /\ call[c].step = "insert" /\ Goes(c, "remember")
    /\ \/ table' = table \cup {call[c].token} /\ UNCHANGED failures
       \/ UNCHANGED table /\ Fails
    /\ UNCHANGED <<now, expiry, server, deletes>>

\* BlacklistToken: INSERT ... ON CONFLICT DO NOTHING.
InsertRow(c) ==
    /\ call[c].step = "insert" /\ Goes(c, "remember")
    /\ table' = table \cup {call[c].token}
    /\ UNCHANGED <<now, expiry, server, deletes, failures>>

\* The INSERT fails, or takes effect and its answer is lost: Logout drops the
\* error and answers 200 as ever.
InsertFails(c) ==
    /\ call[c].step = "insert" /\ Fails /\ Ends(c, "none")
    /\ table' \in {table, table \cup {call[c].token}}
    /\ UNCHANGED <<now, expiry, server, deletes>>

Remembers(c, kept) ==
    LET s == call[c].server
        t == call[c].token
    IN /\ call[c].step = "remember" /\ Ends(c, "none")
       /\ Becomes(s, server[s].phase, kept \cup {t}, server[s].items, server[s].told \cup {t})
       /\ UNCHANGED <<now, expiry, table, deletes, failures>>

\* (A slip for Remember: a full cache is emptied.)
RememberLast(c) ==
    LET cache == server[call[c].server].cache
    IN Remembers(c, IF Cardinality(cache) >= MaxCacheSize THEN {} ELSE cache)

\* BlacklistToken: a full cache first loses what has expired, and grows if
\* nothing has.
Remember(c) ==
    LET cache == server[call[c].server].cache
    IN Remembers(c, IF Cardinality(cache) >= MaxCacheSize
                    THEN {t \in cache : ~Expired(t)} ELSE cache)

-----------------------------------------------------------------------------
(***************************************************************************)
(* CleanupBlacklist: collect under the read lock, delete under the write   *)
(* lock, and have a goroutine delete the rows.                             *)
(***************************************************************************)
Collect(s) ==
    /\ server[s].phase = "up"
    /\ LET expired == {t \in server[s].cache : expiry[t] < now}
       IN \E items \in SUBSET expired \ {{}} :   \* in the order of a Go map, until full
             /\ \/ Cardinality(items) = BatchSize
                \/ Cardinality(items) < BatchSize /\ items = expired
             /\ Becomes(s, "sweeping", server[s].cache, items, server[s].told)
    /\ UNCHANGED <<now, expiry, table, call, deletes, failures>>

\* expires_at of a jti never changes, so the second look finds what the first did.
Sweep(s) ==
    /\ server[s].phase = "sweeping"
    /\ Becomes(s, "up", server[s].cache \ server[s].items, {}, server[s].told)
    /\ deletes' = deletes \cup {<<s, server[s].items>>}
    /\ UNCHANGED <<now, expiry, table, call, failures>>

DeleteRows(d) ==
    /\ d \in deletes
    /\ table' = table \ d[2]
    /\ deletes' = deletes \ {d}
    /\ UNCHANGED <<now, expiry, server, call, failures>>

\* It fails or runs into its timeout: the error is dropped, the rows stay.
DeleteFails(d) ==
    /\ d \in deletes /\ Fails
    /\ deletes' = deletes \ {d}
    /\ UNCHANGED <<now, expiry, table, server, call>>

-----------------------------------------------------------------------------
Cleanup(s) == Collect(s) \/ Sweep(s)

Answer(c) == IsBlacklisted(c) \/ Logout(c) \/ InsertRow(c) \/ InsertFails(c) \/ Remember(c)

Next ==
    \/ Tick
    \/ \E t \in Tokens : GenerateToken(t)
    \/ \E s \in Servers :
          QueryBlacklist(s) \/ QueryFails(s) \/ FillCache(s) \/ Exit(s) \/ Cleanup(s)
    \/ \E c \in Calls :
          \/ \E s \in Servers, t \in Tokens, w \in {"use", "logout"} : Request(c, s, t, w)
          \/ Answer(c)
    \/ \E d \in deletes : DeleteRows(d) \/ DeleteFails(d)

Spec == Init /\ [][Next]_vars

-----------------------------------------------------------------------------
Phases == {"down", "loading", "up", "sweeping"}
Steps == {"none", "check", "logout", "insert", "remember", "accepted"}

Server ==
    [phase : Phases, cache : SUBSET Tokens, items : SUBSET Tokens,
     told : SUBSET Tokens]

Call ==
    [step : Steps, server : Servers \cup {NoServer}, token : Tokens \cup {NoToken},
     wants : {"none", "use", "logout"}, late : BOOLEAN]

TypeOK ==
    /\ now \in Nat /\ failures \in Nat
    /\ Issued \subseteq Tokens /\ \A t \in Issued : expiry[t] \in Nat
    /\ table \subseteq Issued
    /\ server \in [Servers -> Server]
    /\ \A s \in Servers : server[s].cache \cup server[s].items \cup server[s].told \subseteq Issued
    /\ call \in [Calls -> Call]
    /\ \A c \in Calls :
          Running(c) => /\ call[c].server \in Servers /\ Serves(call[c].server)
                        /\ call[c].token \in Issued /\ call[c].wants # "none"
    /\ deletes \subseteq Servers \X SUBSET Issued

\* A token that is logged out is out (account.go:329): a request that comes to
\* a server after this server has carried out the logout, or has started and read
\* the table after any server did, is never accepted while the token could
\* still be used, whatever purge, cleanup, restart or other server's DELETE comes
\* in between.  (Validation and the look at the blacklist each read the clock,
\* so the middleware may let a request through that came just before the
\* token expired.)
LoggedOutRefused ==
    [][\A c \in Calls :
          call[c].step = "check" /\ call'[c].step \in {"accepted", "logout"} /\ call[c].late
              => Expired(call[c].token)]_vars

\* What a server refuses it refuses after a restart too: an entry of its cache
\* whose token is still of use has its row (jwt.go:51, jwt_test.go:162).
CacheHasRows ==
    \A s \in Servers : Serves(s) => \A t \in server[s].cache : Expired(t) \/ t \in table

\* The caches and the table have their types and belong together (jwt.go:45).
Inv == TypeOK /\ CacheHasRows
==============================================================================
