---------------------------- MODULE SessionsProofs ----------------------------
(***************************************************************************)
(* Proofs about Sessions, for any number of servers, tokens and requests,  *)
(* any sizes of cache and batch, any failures.                             *)
(***************************************************************************)
EXTENDS Sessions, TLAPS

\* What a query has read is in the table, or has expired since; if the query
\* was complete, it includes all that its server counts as told.
LoadedKnown ==
    \A s \in Servers : server[s].phase = "loading" =>
        /\ \A t \in server[s].items : t \in table \/ Expired(t)
        /\ server[s].told \subseteq server[s].items

\* What a cleanup removes has expired, in the cache and in the table.
SweptExpired ==
    /\ \A s \in Servers :
          server[s].phase = "sweeping" => \A t \in server[s].items : Expired(t)
    /\ \A d \in deletes : \A t \in d[2] : Expired(t)

\* A server that serves remembers the logouts it was told of.
ToldCached ==
    \A s \in Servers : Serves(s) =>
        \A t \in server[s].told : t \in server[s].cache \/ Expired(t)

\* A logout that is about to fill the cache has its row.
RememberHasRow ==
    \A c \in Calls :
        call[c].step = "remember" => call[c].token \in table \/ Expired(call[c].token)

\* A request that came after the logout still meets a server that was told.
LateTold ==
    \A c \in Calls : call[c].step = "check" /\ call[c].late =>
        call[c].token \in server[call[c].server].told

IInv ==
    /\ TypeOK /\ CacheHasRows
    /\ LoadedKnown /\ SweptExpired /\ ToldCached /\ RememberHasRow /\ LateTold

USE SessionsAssumption

\* Initially nobody runs and nothing is cached (jwt.go:37).
LEMMA InitInv == Init => IInv
  BY DEF Issued, Down, NewCall, Init, Running, Phases, Steps, Server, Call, TypeOK,
     CacheHasRows, LoadedKnown, SweptExpired, ToldCached, RememberHasRow, LateTold,
     IInv

\* A request that ends is the only one that changes.
LEMMA EndsCall ==
  ASSUME TypeOK, NEW c \in Calls, NEW answer \in {"none", "accepted"}, Ends(c, answer)
  PROVE  /\ call' \in [Calls -> Call]
         /\ call'[c].step = answer
         /\ \A d \in Calls \ {c} : call'[d] = call[d]
  BY DEF TypeOK, Ends, CallBecomes, Call, Steps

\* The clock goes on: what has expired stays expired.
LEMMA TickKeeps ==
  ASSUME IInv, Tick
  PROVE  IInv'
<1>1. TypeOK'
  BY DEF IInv, Issued, Serves, Running, Tick, TypeOK
<1>2. CacheHasRows'
  BY DEF IInv, Expired, Serves, Tick, TypeOK, CacheHasRows
<1>3. LoadedKnown'
  BY DEF IInv, Expired, Tick, TypeOK, LoadedKnown
<1>4. SweptExpired'
  BY DEF IInv, Expired, Tick, TypeOK, SweptExpired
<1>5. ToldCached'
  BY DEF IInv, Expired, Serves, Tick, TypeOK, ToldCached
<1>6. RememberHasRow'
  BY DEF IInv, Expired, Running, Tick, TypeOK, RememberHasRow
<1>7. LateTold'
  BY DEF IInv, Tick, LateTold
<1>. QED
  BY <1>1, <1>2, <1>3, <1>4, <1>5, <1>6, <1>7 DEF IInv

\* A fresh jti: nothing is known of it yet (GenerateToken).
LEMMA GenerateTokenKeeps ==
  ASSUME IInv, NEW t \in Tokens, GenerateToken(t)
  PROVE  IInv'
<1>1. TypeOK'
  BY DEF IInv, Issued, Serves, Running, GenerateToken, TypeOK
<1>2. CacheHasRows'
  BY DEF IInv, Expired, Serves, GenerateToken, TypeOK, CacheHasRows
<1>3. LoadedKnown'
  BY DEF IInv, Expired, GenerateToken, TypeOK, LoadedKnown
<1>4. SweptExpired'
  BY DEF IInv, Expired, GenerateToken, TypeOK, SweptExpired
<1>5. ToldCached'
  BY DEF IInv, Expired, Serves, GenerateToken, TypeOK, ToldCached
<1>6. RememberHasRow'
  BY DEF IInv, Expired, Running, GenerateToken, TypeOK, RememberHasRow
<1>7. LateTold'
  BY DEF IInv, GenerateToken, LateTold
<1>. QED
  BY <1>1, <1>2, <1>3, <1>4, <1>5, <1>6, <1>7 DEF IInv

\* NewJwtService reads the table: what it has read is in it, and told is no more than that.
LEMMA QueryBlacklistKeeps ==
  ASSUME IInv, NEW s \in Servers, QueryBlacklist(s)
  PROVE  IInv'
<1>1. TypeOK'
  BY DEF IInv, Issued, Becomes, Serves, Running, Loads, QueryBlacklist, Phases,
     Server, TypeOK
<1>2. CacheHasRows'
  BY DEF IInv, Expired, Becomes, Serves, Loads, QueryBlacklist, CacheHasRows
<1>3. LoadedKnown'
  BY DEF IInv, Expired, Becomes, Loads, QueryBlacklist, LoadedKnown
<1>4. SweptExpired'
  BY DEF IInv, Expired, Becomes, Loads, QueryBlacklist, SweptExpired
<1>5. ToldCached'
  BY DEF IInv, Expired, Becomes, Serves, Loads, QueryBlacklist, ToldCached
<1>6. LateTold'
  BY DEF IInv, Becomes, Serves, Running, Loads, QueryBlacklist, TypeOK, LateTold
<1>7. RememberHasRow'
  BY DEF IInv, QueryBlacklist, Loads, Expired, RememberHasRow
<1>. QED
  BY <1>1, <1>2, <1>3, <1>4, <1>5, <1>6, <1>7 DEF IInv

\* NewJwtService reads part of the table or nothing: the server has been told of nothing.
LEMMA QueryFailsKeeps ==
  ASSUME IInv, NEW s \in Servers, QueryFails(s)
  PROVE  IInv'
<1>1. TypeOK'
  BY DEF IInv, Issued, Becomes, Serves, Running, Fails, Loads, QueryFails, Phases,
     Server, TypeOK
<1>2. CacheHasRows'
  BY DEF IInv, Expired, Becomes, Serves, Loads, QueryFails, CacheHasRows
<1>3. LoadedKnown'
  BY DEF IInv, Expired, Becomes, Loads, QueryFails, LoadedKnown
<1>4. SweptExpired'
  BY DEF IInv, Expired, Becomes, Loads, QueryFails, SweptExpired
<1>5. ToldCached'
  BY DEF IInv, Expired, Becomes, Serves, Loads, QueryFails, ToldCached
<1>6. LateTold'
  BY DEF IInv, Becomes, Serves, Running, Loads, QueryFails, TypeOK, LateTold
<1>7. RememberHasRow'
  BY DEF IInv, QueryFails, Loads, Expired, RememberHasRow
<1>. QED
  BY <1>1, <1>2, <1>3, <1>4, <1>5, <1>6, <1>7 DEF IInv

\* NewJwtService fills the cache: what it leaves out has expired, what it takes has its row.
LEMMA FillCacheKeeps ==
  ASSUME IInv, NEW s \in Servers, FillCache(s)
  PROVE  IInv'
<1>1. TypeOK'
  BY DEF IInv, Issued, Becomes, Serves, Running, FillCache, Phases, Server, TypeOK
<1>2. CacheHasRows'
  BY DEF IInv, Expired, Becomes, Serves, FillCache, CacheHasRows, LoadedKnown
<1>3. LoadedKnown'
  BY DEF IInv, Expired, Becomes, FillCache, LoadedKnown
<1>4. SweptExpired'
  BY DEF IInv, Expired, Becomes, FillCache, SweptExpired
<1>5. ToldCached'
  BY DEF IInv, Expired, Becomes, Serves, FillCache, LoadedKnown, ToldCached
<1>6. LateTold'
  BY DEF IInv, Becomes, FillCache, LateTold
<1>7. RememberHasRow'
  BY DEF IInv, FillCache, Expired, RememberHasRow
<1>. QED
  BY <1>1, <1>2, <1>3, <1>4, <1>5, <1>6, <1>7 DEF IInv

\* A server goes down with its requests and DELETEs: what it had been told goes too.
LEMMA ExitKeeps ==
  ASSUME IInv, NEW s \in Servers, Exit(s)
  PROVE  IInv'
<1>1. TypeOK'
  BY DEF IInv, Issued, Down, NewCall, Serves, Running, Exit, Phases, Steps, Server,
     Call, TypeOK
<1>2. CacheHasRows'
  BY DEF IInv, Expired, Down, Serves, Exit, CacheHasRows
<1>3. LoadedKnown'
  BY DEF IInv, Expired, Down, Exit, LoadedKnown
<1>4. SweptExpired'
  BY DEF IInv, Expired, Down, Exit, SweptExpired
<1>5. ToldCached'
  BY DEF IInv, Expired, Down, Serves, Exit, ToldCached
<1>6. RememberHasRow'
  BY DEF IInv, Expired, NewCall, Exit, RememberHasRow
<1>7. LateTold'
  BY DEF IInv, NewCall, Running, Exit, LateTold
<1>. QED
  BY <1>1, <1>2, <1>3, <1>4, <1>5, <1>6, <1>7 DEF IInv

\* The middleware validates a token; late says whether the server was told of its logout.
LEMMA RequestKeeps ==
  ASSUME IInv, NEW c \in Calls, NEW s \in Servers, NEW t \in Tokens,
         NEW wants \in {"use", "logout"}, Request(c, s, t, wants)
  PROVE  IInv'
<1>1. TypeOK'
  <2>1. CASE Expired(t)
    <3>1. Ends(c, "none")
      BY <2>1 DEF Request
    <3>2. /\ call' \in [Calls -> Call] /\ call'[c].step = "none"
          /\ \A d \in Calls \ {c} : call'[d] = call[d]
      BY <3>1, EndsCall DEF IInv
    <3>. QED
      BY <3>2 DEF IInv, TypeOK, Request, Running, Serves, Issued
  <2>2. CASE ~ Expired(t)
    <3>1. CallBecomes(c, "check", s, t, wants, t \in server[s].told) /\ TypeOK
      BY <2>2 DEF Request, IInv
    <3>2. /\ call' \in [Calls -> Call] /\ call'[c].server = s /\ call'[c].token = t
          /\ call'[c].wants = wants /\ \A d \in Calls \ {c} : call'[d] = call[d]
      BY <3>1 DEF TypeOK, CallBecomes, Call, Steps
    <3>. QED
      BY <3>2 DEF IInv, TypeOK, Request, Running, Serves, Issued
  <2>. QED
    BY <2>1, <2>2
<1>2. RememberHasRow'
  <2>1. \A d \in Calls : call'[d].step = "remember" => call'[d] = call[d]
    BY <1>1 DEF TypeOK, Request, Ends, CallBecomes
  <2>2. UNCHANGED <<now, expiry, table>>
    BY DEF Request
  <2>. QED
    BY <2>1, <2>2 DEF IInv, RememberHasRow, Expired
<1>3. LateTold'
  <2> SUFFICES ASSUME NEW d \in Calls, call'[d].step = "check", call'[d].late
               PROVE  call'[d].token \in server[call'[d].server].told
    BY DEF Request, LateTold
  <2>1. CASE Expired(t) \/ d # c
    <3>1. call'[d] = call[d]
      BY <2>1 DEF IInv, TypeOK, Request, Ends, CallBecomes
    <3>. QED
      BY <3>1 DEF IInv, LateTold
  <2>2. CASE ~ Expired(t) /\ d = c
    <3>1. /\ call'[c].server = s /\ call'[c].token = t
          /\ call'[c].late = (t \in server[s].told)
      BY <2>2 DEF IInv, TypeOK, Request, CallBecomes
    <3>. QED
      BY <2>2, <3>1
  <2>. QED
    BY <2>1, <2>2
<1>4. CacheHasRows' /\ LoadedKnown' /\ SweptExpired' /\ ToldCached'
  BY DEF IInv, Request, Expired, Serves, CacheHasRows, LoadedKnown, SweptExpired,
     ToldCached
<1>. QED
  BY <1>1, <1>2, <1>3, <1>4 DEF IInv

\* IsBlacklisted drops from the cache only what has expired.
LEMMA IsBlacklistedKeeps ==
  ASSUME IInv, NEW c \in Calls, IsBlacklisted(c)
  PROVE  IInv'
<1>1. TypeOK'
  <2>1. CASE Ends(c, "none")
    BY <2>1 DEF IInv, Issued, Becomes, Serves, Running, CallBecomes, Ends,
       IsBlacklisted, Steps, Server, Call, TypeOK
  <2>2. CASE Ends(c, "accepted")
    BY <2>2 DEF IInv, Issued, Becomes, Serves, Running, CallBecomes, Ends,
       IsBlacklisted, Steps, Server, Call, TypeOK
  <2>3. CASE Goes(c, "logout")
    BY <2>3 DEF IInv, Issued, Becomes, Serves, Running, CallBecomes, Goes, IsBlacklisted,
       Phases, Steps, Server, Call, TypeOK
  <2>. QED
    BY <2>1, <2>2, <2>3 DEF IsBlacklisted
<1>2. CacheHasRows'
  BY DEF IInv, Expired, Becomes, Serves, IsBlacklisted, CacheHasRows
<1>3. LoadedKnown'
  BY DEF IInv, Expired, Becomes, IsBlacklisted, LoadedKnown
<1>4. SweptExpired'
  BY DEF IInv, Expired, Becomes, IsBlacklisted, SweptExpired
<1>5. ToldCached'
  BY DEF IInv, Expired, Becomes, Serves, IsBlacklisted, ToldCached
<1>6. RememberHasRow'
  BY DEF IInv, Expired, Becomes, CallBecomes, Goes, Ends, IsBlacklisted, TypeOK,
     RememberHasRow
<1>7. LateTold'
  <2>1. \A d \in Calls : call'[d].step = "check" => call'[d] = call[d]
    BY DEF IInv, TypeOK, IsBlacklisted, Goes, Ends, CallBecomes
  <2>2. \A s \in Servers : server'[s].told = server[s].told
    BY DEF IInv, TypeOK, IsBlacklisted, Becomes
  <2>3. \A d \in Calls : call[d].step = "check" => call[d].server \in Servers
    BY DEF IInv, TypeOK, Running
  <2>. QED
    BY <2>1, <2>2, <2>3 DEF IInv, LateTold
<1>. QED
  BY <1>1, <1>2, <1>3, <1>4, <1>5, <1>6, <1>7 DEF IInv

\* Logout validates the token once more and changes nothing else.
LEMMA LogoutKeeps ==
  ASSUME IInv, NEW c \in Calls, Logout(c)
  PROVE  IInv'
<1>1. TypeOK'
  <2>1. CASE Expired(call[c].token)
    <3>1. Ends(c, "none")
      BY <2>1 DEF Logout
    <3>2. /\ call' \in [Calls -> Call] /\ call'[c].step = "none"
          /\ \A d \in Calls \ {c} : call'[d] = call[d]
      BY <3>1, EndsCall DEF IInv
    <3>. QED
      BY <3>2 DEF IInv, TypeOK, Logout, Running, Serves, Issued
  <2>2. CASE ~ Expired(call[c].token)
    <3>1. /\ TypeOK
          /\ CallBecomes(c, "insert", call[c].server, call[c].token, call[c].wants,
                         call[c].late)
      BY <2>2 DEF Logout, Goes, IInv
    <3>2. /\ call' \in [Calls -> Call] /\ call'[c].server = call[c].server
          /\ call'[c].token = call[c].token /\ call'[c].wants = call[c].wants
          /\ \A d \in Calls \ {c} : call'[d] = call[d]
      BY <3>1 DEF TypeOK, CallBecomes, Call, Steps
    <3>. QED
      BY <3>2 DEF IInv, TypeOK, Logout, Running, Serves, Issued
  <2>. QED
    BY <2>1, <2>2
<1>2. RememberHasRow'
  BY DEF IInv, Expired, CallBecomes, Goes, Ends, Logout, TypeOK, RememberHasRow
<1>3. LateTold'
  BY DEF IInv, Serves, CallBecomes, Goes, Ends, Logout, TypeOK, LateTold
<1>4. CacheHasRows' /\ LoadedKnown' /\ SweptExpired' /\ ToldCached'
  BY DEF IInv, Logout, Expired, Serves, CacheHasRows, LoadedKnown, SweptExpired,
     ToldCached
<1>. QED
  BY <1>1, <1>2, <1>3, <1>4 DEF IInv

\* BlacklistToken writes the row before the cache.
LEMMA InsertRowKeeps ==
  ASSUME IInv, NEW c \in Calls, InsertRow(c)
  PROVE  IInv'
<1>1. TypeOK'
  BY DEF IInv, Issued, Serves, Running, CallBecomes, Goes, InsertRow, Steps, Call,
     TypeOK
<1>2. CacheHasRows'
  BY DEF IInv, Expired, Serves, InsertRow, CacheHasRows
<1>3. LoadedKnown'
  BY DEF IInv, Expired, InsertRow, LoadedKnown
<1>4. RememberHasRow'
  BY DEF IInv, Expired, CallBecomes, Goes, InsertRow, RememberHasRow
<1>5. LateTold'
  BY DEF IInv, CallBecomes, Goes, InsertRow, LateTold
<1>6. SweptExpired' /\ ToldCached'
  BY DEF IInv, InsertRow, Expired, Serves, SweptExpired, ToldCached
<1>. QED
  BY <1>1, <1>2, <1>3, <1>4, <1>5, <1>6 DEF IInv

\* The row may be there or not; the cache has no entry for it.
LEMMA InsertFailsKeeps ==
  ASSUME IInv, NEW c \in Calls, InsertFails(c)
  PROVE  IInv'
<1>1. TypeOK'
  BY DEF IInv, Issued, Serves, Running, Fails, CallBecomes, Ends, InsertFails, Steps,
     Call, TypeOK
<1>2. CacheHasRows'
  BY DEF IInv, Expired, Serves, InsertFails, CacheHasRows
<1>3. LoadedKnown'
  BY DEF IInv, Expired, InsertFails, LoadedKnown
<1>4. RememberHasRow'
  BY DEF IInv, Expired, CallBecomes, Ends, InsertFails, RememberHasRow
<1>5. LateTold'
  BY DEF IInv, CallBecomes, Ends, InsertFails, LateTold
<1>6. SweptExpired' /\ ToldCached'
  BY DEF IInv, InsertFails, Expired, Serves, SweptExpired, ToldCached
<1>. QED
  BY <1>1, <1>2, <1>3, <1>4, <1>5, <1>6 DEF IInv

\* BlacklistToken fills the cache: the row is there, and the purge takes what has expired.
LEMMA RememberKeeps ==
  ASSUME IInv, NEW c \in Calls, Remember(c)
  PROVE  IInv'
<1>1. TypeOK'
  BY DEF IInv, Issued, Becomes, Serves, Running, CallBecomes, Ends, Remembers,
     Remember, Steps, Server, Call, TypeOK
<1>2. CacheHasRows'
  BY DEF IInv, Expired, Becomes, Serves, Remembers, Remember, CacheHasRows,
     RememberHasRow
<1>3. LoadedKnown'
  BY DEF IInv, Expired, Becomes, Serves, Running, Remembers, Remember, TypeOK,
     LoadedKnown
<1>4. SweptExpired'
  BY DEF IInv, Expired, Becomes, Remembers, Remember, SweptExpired
<1>5. ToldCached'
  BY DEF IInv, Expired, Becomes, Serves, Remembers, Remember, ToldCached
<1>6. RememberHasRow'
  BY DEF IInv, Expired, CallBecomes, Ends, Remembers, Remember, RememberHasRow
<1>7. LateTold'
  BY DEF IInv, Becomes, CallBecomes, Ends, Remembers, Remember, TypeOK, LateTold
<1>. QED
  BY <1>1, <1>2, <1>3, <1>4, <1>5, <1>6, <1>7 DEF IInv

\* CleanupBlacklist collects only what has expired.
LEMMA CollectKeeps ==
  ASSUME IInv, NEW s \in Servers, Collect(s)
  PROVE  IInv'
<1>1. TypeOK'
  BY DEF IInv, Issued, Becomes, Serves, Running, Collect, Phases, Server, TypeOK
<1>2. CacheHasRows'
  BY DEF IInv, Expired, Becomes, Serves, Collect, CacheHasRows
<1>3. LoadedKnown'
  BY DEF IInv, Expired, Becomes, Collect, LoadedKnown
<1>4. SweptExpired'
  BY DEF IInv, Expired, Becomes, Collect, TypeOK, SweptExpired
<1>5. ToldCached'
  BY DEF IInv, Expired, Becomes, Serves, Collect, ToldCached
<1>6. LateTold'
  BY DEF IInv, Becomes, Collect, LateTold
<1>7. RememberHasRow'
  BY DEF IInv, Collect, Expired, RememberHasRow
<1>. QED
  BY <1>1, <1>2, <1>3, <1>4, <1>5, <1>6, <1>7 DEF IInv

\* CleanupBlacklist removes what it has collected, which has expired still.
LEMMA SweepKeeps ==
  ASSUME IInv, NEW s \in Servers, Sweep(s)
  PROVE  IInv'
<1>1. TypeOK'
  BY DEF IInv, Issued, Becomes, Serves, Running, Sweep, Phases, Server, TypeOK
<1>2. CacheHasRows'
  BY DEF IInv, Expired, Becomes, Serves, Sweep, CacheHasRows
<1>3. LoadedKnown'
  BY DEF IInv, Expired, Becomes, Sweep, LoadedKnown
<1>4. SweptExpired'
  BY DEF IInv, Expired, Becomes, Sweep, SweptExpired
<1>5. ToldCached'
  BY DEF IInv, Expired, Becomes, Serves, Sweep, SweptExpired, ToldCached
<1>6. LateTold'
  BY DEF IInv, Becomes, Sweep, LateTold
<1>7. RememberHasRow'
  BY DEF IInv, Sweep, Expired, RememberHasRow
<1>. QED
  BY <1>1, <1>2, <1>3, <1>4, <1>5, <1>6, <1>7 DEF IInv

\* The DELETE of a cleanup takes only rows that no server needs any more.
LEMMA DeleteRowsKeeps ==
  ASSUME IInv, NEW d \in deletes, DeleteRows(d)
  PROVE  IInv'
<1>1. TypeOK'
  BY DEF IInv, Issued, Serves, Running, DeleteRows, TypeOK
<1>2. CacheHasRows'
  BY DEF IInv, Expired, Serves, DeleteRows, CacheHasRows, SweptExpired
<1>3. LoadedKnown'
  BY DEF IInv, Expired, DeleteRows, LoadedKnown, SweptExpired
<1>4. SweptExpired'
  BY DEF IInv, Expired, DeleteRows, SweptExpired
<1>5. RememberHasRow'
  BY DEF IInv, Expired, DeleteRows, SweptExpired, RememberHasRow
<1>6. ToldCached' /\ LateTold'
  BY DEF IInv, DeleteRows, Expired, Serves, ToldCached, LateTold
<1>. QED
  BY <1>1, <1>2, <1>3, <1>4, <1>5, <1>6 DEF IInv

\* A DELETE that fails leaves everything as it was.
LEMMA DeleteFailsKeeps ==
  ASSUME IInv, NEW d \in deletes, DeleteFails(d)
  PROVE  IInv'
<1>1. TypeOK'
  BY DEF IInv, Issued, Serves, Running, Fails, DeleteFails, TypeOK
<1>2. SweptExpired'
  BY DEF IInv, Expired, DeleteFails, SweptExpired
<1>3. CacheHasRows' /\ LoadedKnown' /\ ToldCached' /\ RememberHasRow' /\ LateTold'
  BY DEF IInv, DeleteFails, Expired, Serves, CacheHasRows, LoadedKnown, ToldCached,
     RememberHasRow, LateTold
<1>. QED
  BY <1>1, <1>2, <1>3 DEF IInv

-----------------------------------------------------------------------------
\* IInv is an invariant of Sessions, whatever the sizes and the numbers.
THEOREM Invariance == Spec => []IInv
<1>1. IInv /\ [Next]_vars => IInv'
  <2> SUFFICES ASSUME IInv, [Next]_vars PROVE IInv'
    OBVIOUS
  <2>1. CASE UNCHANGED vars
    BY <2>1 DEF IInv, vars, Issued, Expired, Serves, Running, TypeOK, CacheHasRows,
       LoadedKnown, SweptExpired, ToldCached, RememberHasRow, LateTold
  <2>2. ASSUME NEW s \in Servers,
               QueryBlacklist(s) \/ QueryFails(s) \/ FillCache(s) \/ Exit(s) \/ Cleanup(s)
        PROVE  IInv'
    BY <2>2, QueryBlacklistKeeps, QueryFailsKeeps, FillCacheKeeps, ExitKeeps,
       CollectKeeps, SweepKeeps DEF Cleanup
  <2>3. ASSUME NEW c \in Calls, Answer(c)
        PROVE  IInv'
    BY <2>3, IsBlacklistedKeeps, LogoutKeeps, InsertRowKeeps, InsertFailsKeeps,
       RememberKeeps DEF Answer
  <2>. QED
    BY <2>1, <2>2, <2>3, TickKeeps, GenerateTokenKeeps, RequestKeeps,
       DeleteRowsKeeps, DeleteFailsKeeps DEF Next
<1>. QED
  BY <1>1, InitInv, PTL DEF Spec

\* Caches and table belong together always: an entry of a cache whose token is still of
\* use has its row, so that a restart does not let the token in again (jwt.go:51).
THEOREM InvHolds == Spec => []Inv
<1>1. IInv => Inv
  BY DEF IInv, Inv
<1>. QED
  BY <1>1, Invariance, PTL

\* A request that comes to a server after that server was told of the logout is not
\* accepted while the token could be used (account.go:329): by LateTold its server was
\* told, by ToldCached the cache still has the entry, unless the token has expired.
THEOREM LoggedOut == Spec => LoggedOutRefused
<1> DEFINE Refused ==
        \A c \in Calls :
            call[c].step = "check" /\ call'[c].step \in {"accepted", "logout"} /\ call[c].late
                => Expired(call[c].token)
<1>1. IInv /\ [Next]_vars => [Refused]_vars
  <2> SUFFICES ASSUME IInv, Next, NEW c \in Calls,
                      call[c].step = "check", call'[c].step \in {"accepted", "logout"},
                      call[c].late
               PROVE  Expired(call[c].token)
    OBVIOUS
  <2>1. call[c].token \in server[call[c].server].cache \/ Expired(call[c].token)
    BY DEF IInv, TypeOK, LateTold, ToldCached, Running
  <2>2. call'[c].step # call[c].step /\ call \in [Calls -> Call]
    BY DEF IInv, TypeOK
  <2>3. ~ \E s \in Servers : Exit(s)
    BY DEF Exit, NewCall
  <2>4. ASSUME NEW d \in Calls, NEW s \in Servers, NEW t \in Tokens, NEW wants,
               Request(d, s, t, wants)
        PROVE  FALSE
    <3>. QED
      BY <2>2, <2>4 DEF Request, Ends, CallBecomes
  <2>5. ASSUME NEW d \in Calls, Answer(d)
        PROVE  d = c /\ IsBlacklisted(c)
    BY <2>2, <2>5 DEF Answer, IsBlacklisted, Logout, InsertRow, InsertFails, Remember,
       Remembers, Goes, Ends, CallBecomes
  <2>6. IsBlacklisted(c)
    BY <2>3, <2>4, <2>5 DEF Next, Tick, GenerateToken, QueryBlacklist, QueryFails,
       Loads, FillCache, Cleanup, Collect, Sweep, DeleteRows, DeleteFails
  <2>. QED
    BY <2>1, <2>2, <2>6 DEF IsBlacklisted, Ends, CallBecomes
<1>. QED
  BY <1>1, Invariance, PTL DEF Spec, LoggedOutRefused
==============================================================================
