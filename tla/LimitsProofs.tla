------------------------------ MODULE LimitsProofs ------------------------------
(***************************************************************************)
(* Proofs about Limits, for any number of clients, names, logins, shards   *)
(* and any intervals.                                                      *)
(***************************************************************************)
EXTENDS Limits, FiniteSetTheorems, TLAPS

\* What the limiter still knows of a client is when it was last let through; whom it
\* does not know any more was let through too long ago to matter.
EntriesAgree ==
    /\ \A k \in DOMAIN cache : k \in DOMAIN passed /\ passed[k] = cache[k]
    /\ \A k \in DOMAIN passed : k \in DOMAIN cache \/ now - passed[k] > TTL

\* A cleanup is at one of the shards.
SweepFits == sweep.phase # "idle" => sweep.shard \in 1 .. NumShards

\* The logins that may still fail.
InProgress == {c \in Logins : login[c].step \in {"bind", "find"}}

\* No name has more failures than there were logins, less those still in progress;
\* each of these is for a name.
FailuresCounted ==
    /\ IsFiniteSet(InProgress)
    /\ \A n \in Names : failCounts[n] + Cardinality(InProgress) <= logins
    /\ \A c \in InProgress : login[c].name \in Names

\* The parts of the type invariant.
TimesOK ==
    /\ now \in 0 .. MaxTime
    /\ DOMAIN cache \subseteq Clients /\ DOMAIN passed \subseteq Clients
    /\ \A k \in DOMAIN cache : cache[k] \in 0 .. now
    /\ \A k \in DOMAIN passed : passed[k] \in 0 .. now

\* What the cleanup carries.
SweepOK ==
    sweep \in [phase : {"idle", "collect", "delete"}, since : 0 .. now,
               shard : 0 .. NumShards, items : SUBSET Clients]

\* What a request for a login carries.
LoginType ==
    [step : {"none", "bind", "find", "done"}, name : Names \cup {NoName},
     body : {"none", "bad", "wrong", "right"}, answer : {0, 200, 400, 401, 429}]

\* Logins and failures.
LoginsOK ==
    /\ logins \in 0 .. MaxLogins /\ wiring \in Wirings
    /\ failCounts \in [Names -> 0 .. MaxLogins]
    /\ login \in [Logins -> LoginType]

\* The inductive invariant: one half about the limiter, one about the logins.
LimiterInv == TimesOK /\ SweepOK /\ EntriesAgree /\ SweepFits

\* The half about the logins.
LoginInv == LoginsOK /\ FailuresCounted

\* Both halves.
IInv == LimiterInv /\ LoginInv

-----------------------------------------------------------------------------
\* The parts give the type invariant of Limits.
LEMMA TypeParts ==
    ASSUME TimesOK, SweepOK, LoginsOK
    PROVE  TypeOK
<1>1. \A c \in Logins : login[c] \in
          [step : {"none", "bind", "find", "done"}, name : Names \cup {NoName},
           body : {"none", "bad", "wrong", "right"}, answer : {0, 200, 400, 401, 429}]
   BY DEF LoginsOK, LoginType
<1>2. QED
   BY <1>1 DEF TimesOK, SweepOK, LoginsOK, TypeOK, Range

\* The constants are natural numbers, and there is a shard.
LEMMA Positive ==
    NumShards \in Nat /\ NumShards >= 1 /\ {TTL, MaxTime, MaxLogins} \subseteq Nat
BY LimitsAssumption

\* Who asks the limiter, or sweeps it, does not touch the logins; a cleanup may forget
\* failures.
LEMMA LoginsAlone ==
    ASSUME LoginInv,
           failCounts' = failCounts
               \/ \E items : failCounts' = [n \in Names |-> IF n \in items THEN 0 ELSE failCounts[n]],
           UNCHANGED <<login, wiring, logins>>
    PROVE  LoginInv'
<1>1. /\ failCounts \in [Names -> 0 .. MaxLogins] /\ login \in [Logins -> LoginType]
   BY DEF LoginInv, LoginsOK
<1>2. /\ failCounts' \in [Names -> 0 .. MaxLogins]
      /\ \A n \in Names : failCounts'[n] <= failCounts[n]
   BY <1>1, Positive
<1>3. LoginsOK'
   BY <1>1, <1>2 DEF LoginInv, LoginsOK
<1>4. InProgress' = InProgress /\ Cardinality(InProgress) \in Nat
   BY FS_CardinalityType DEF InProgress, LoginInv, FailuresCounted
<1>5. \A n \in Names : failCounts'[n] + Cardinality(InProgress') <= logins'
   BY <1>1, <1>2, <1>4 DEF LoginInv, LoginsOK, FailuresCounted
<1>6. QED
   BY <1>3, <1>4, <1>5 DEF LoginInv, FailuresCounted

\* A login does not touch the limiter.
LEMMA LimiterAlone ==
    ASSUME LimiterInv, UNCHANGED <<now, cache, sweep, passed>>
    PROVE  LimiterInv'
BY DEF LimiterInv, TimesOK, SweepOK, EntriesAgree, SweepFits

-----------------------------------------------------------------------------
(***************************************************************************)
(* The limiter.                                                            *)
(***************************************************************************)
\* Time passes: who is forgotten was let through even longer ago.
LEMMA TickKeeps ==
    ASSUME LimiterInv, Tick
    PROVE  LimiterInv'
<1>1. now \in Nat /\ now < MaxTime /\ now' = now + 1 /\ UNCHANGED <<cache, sweep, passed>>
   BY DEF Tick, LimiterInv, TimesOK
<1>2. TimesOK'
   BY <1>1, Positive DEF LimiterInv, TimesOK
<1>3. SweepOK'
   BY <1>1 DEF LimiterInv, SweepOK
<1>4. EntriesAgree'
   BY <1>1, Positive DEF LimiterInv, TimesOK, EntriesAgree
<1>5. SweepFits'
   BY <1>1 DEF LimiterInv, SweepFits
<1>6. QED
   BY <1>2, <1>3, <1>4, <1>5 DEF LimiterInv

\* AllowRequest lets a client through and writes the time, or refuses and writes nothing.
LEMMA RequestKeeps ==
    ASSUME LimiterInv, NEW k \in Clients, NEW i \in Intervals, Request(k, i)
    PROVE  LimiterInv'
<1>1. /\ now \in 0 .. MaxTime /\ UNCHANGED <<now, sweep>>
      /\ cache' = [l \in DOMAIN cache \cup {k} |-> IF l = k THEN now ELSE cache[l]]
      /\ passed' = [l \in DOMAIN passed \cup {k} |-> IF l = k THEN now ELSE passed[l]]
   BY DEF Request, Allow, At, LimiterInv, TimesOK
<1>2. TimesOK'
   BY <1>1 DEF LimiterInv, TimesOK
<1>3. SweepOK' /\ SweepFits'
   BY <1>1 DEF LimiterInv, SweepOK, SweepFits
<1>4. EntriesAgree'
   BY <1>1 DEF LimiterInv, EntriesAgree
<1>5. QED
   BY <1>2, <1>3, <1>4 DEF LimiterInv

\* The cleanup goes on to the next shard, or ends at the last one.
LEMMA SweepGoesOn ==
    ASSUME SweepOK, SweepFits, now \in Nat, UNCHANGED now, NextShard, sweep.phase # "idle"
    PROVE  SweepOK' /\ SweepFits'
<1>1. CASE sweep.shard = NumShards
   BY <1>1 DEF NextShard, SweepOK, SweepFits, Idle
<1>2. CASE sweep.shard # NumShards
   <2>1. sweep' = [phase |-> "collect", since |-> sweep.since, shard |-> sweep.shard + 1,
                   items |-> {}]
      BY <1>2 DEF NextShard, Sweeps
   <2>2. sweep.shard \in 1 .. NumShards /\ sweep.shard + 1 \in 1 .. NumShards
      BY <1>2, Positive DEF SweepFits
   <2>3. QED
      BY <2>1, <2>2 DEF SweepOK, SweepFits
<1>3. QED
   BY <1>1, <1>2

\* The cleanup collects and deletes one shard after the other. It looks again before it
\* deletes, with the time the cleanup began: whom it deletes is too old now, too.
LEMMA SweepKeeps ==
    ASSUME LimiterInv, Sweep
    PROVE  LimiterInv'
<1>0. now \in Nat
   BY DEF LimiterInv, TimesOK
<1>1. CASE StartSweep
   <2>1. UNCHANGED <<now, cache, passed>>
      BY <1>1 DEF StartSweep
   <2>2. sweep' = [phase |-> "collect", since |-> now, shard |-> 1, items |-> {}]
      BY <1>1 DEF StartSweep, Sweeps
   <2>3. SweepOK' /\ SweepFits'
      BY <1>0, <2>1, <2>2, Positive DEF SweepOK, SweepFits
   <2>4. QED
      BY <2>1, <2>3 DEF LimiterInv, TimesOK, EntriesAgree
<1>2. CASE Collect
   <2>1. UNCHANGED <<now, cache, passed>> /\ sweep.phase = "collect"
      BY <1>2 DEF Collect
   <2>2. \/ NextShard
         \/ \E items \in SUBSET DOMAIN cache : Sweeps("delete", sweep.since, sweep.shard, items)
      BY <1>2 DEF Collect
   <2>3. ASSUME NEW items \in SUBSET DOMAIN cache, Sweeps("delete", sweep.since, sweep.shard, items)
         PROVE  SweepOK' /\ SweepFits'
      BY <2>1, <2>3 DEF Sweeps, SweepOK, SweepFits, LimiterInv, TimesOK
   <2>4. SweepOK' /\ SweepFits'
      BY <1>0, <2>1, <2>2, <2>3, SweepGoesOn DEF LimiterInv
   <2>5. QED
      BY <2>1, <2>4 DEF LimiterInv, TimesOK, EntriesAgree
<1>3. CASE Delete
   <2>1. /\ UNCHANGED <<now, passed>> /\ sweep.phase = "delete" /\ NextShard
         /\ cache' = [k \in DOMAIN cache \ {j \in sweep.items \cap DOMAIN cache : Stale(j)}
                         |-> cache[k]]
      BY <1>3 DEF Delete, Deletes, Restrict
   <2>2. SweepOK' /\ SweepFits'
      BY <1>0, <2>1, SweepGoesOn DEF LimiterInv
   <2>3. TimesOK'
      BY <2>1 DEF LimiterInv, TimesOK
   <2>4. ASSUME NEW k \in DOMAIN passed, k \notin DOMAIN cache'
         PROVE  now - passed[k] > TTL
      <3>1. CASE k \notin DOMAIN cache
         BY <2>4, <3>1 DEF LimiterInv, EntriesAgree
      <3>2. CASE k \in DOMAIN cache
         <4>1. sweep.since - cache[k] > TTL
            BY <2>1, <2>4, <3>2 DEF Stale
         <4>2. /\ sweep.since \in 0 .. now /\ cache[k] \in 0 .. now
               /\ passed[k] = cache[k]
            BY <2>4, <3>2 DEF LimiterInv, SweepOK, TimesOK, EntriesAgree
         <4>3. QED
            BY <1>0, <4>1, <4>2, Positive
      <3>3. QED
         BY <3>1, <3>2
   <2>5. EntriesAgree'
      BY <2>1, <2>4 DEF LimiterInv, EntriesAgree
   <2>6. QED
      BY <2>2, <2>3, <2>5 DEF LimiterInv
<1>4. QED
   BY <1>1, <1>2, <1>3 DEF Sweep

-----------------------------------------------------------------------------
(***************************************************************************)
(* The logins.                                                             *)
(***************************************************************************)
\* The number of logins in progress, after a request has gone on.
LEMMA Counting ==
    ASSUME IsFiniteSet(InProgress), NEW c \in Logins, login \in [Logins -> LoginType],
           NEW q \in LoginType, login' = [login EXCEPT ![c] = q]
    PROVE  /\ login' \in [Logins -> LoginType] /\ IsFiniteSet(InProgress')
           /\ Cardinality(InProgress) \in Nat
           /\ c \in InProgress => Cardinality(InProgress) >= 1
           /\ q.step \in {"bind", "find"} =>
                 Cardinality(InProgress') = IF c \in InProgress THEN Cardinality(InProgress)
                                            ELSE Cardinality(InProgress) + 1
           /\ q.step \notin {"bind", "find"} =>
                 Cardinality(InProgress') = IF c \in InProgress THEN Cardinality(InProgress) - 1
                                            ELSE Cardinality(InProgress)
<1>1. InProgress' = IF q.step \in {"bind", "find"} THEN InProgress \cup {c} ELSE InProgress \ {c}
   BY DEF InProgress
<1>2. Cardinality(InProgress) \in Nat
   BY FS_CardinalityType
<1>3. c \in InProgress => Cardinality(InProgress) # 0
   BY FS_EmptySet
<1>4. login' \in [Logins -> LoginType]
   OBVIOUS
<1>5. CASE q.step \in {"bind", "find"}
   BY <1>1, <1>2, <1>3, <1>4, <1>5, FS_AddElement
<1>6. CASE q.step \notin {"bind", "find"}
   BY <1>1, <1>2, <1>3, <1>6, FS_RemoveElement
<1>7. QED
   BY <1>5, <1>6

\* A new login is counted, and may be refused or reset the failures of its name.
LEMMA NewLoginKeeps ==
    ASSUME LoginInv, NEW c \in Logins, NEW n \in Names,
           NEW body \in {"bad", "wrong", "right"},
           LimitLogin(c, n, body) \/ ReachLogin(c, n, body)
    PROVE  LoginInv'
<1>1. /\ login[c].step \notin {"bind", "find"} /\ logins < MaxLogins /\ logins' = logins + 1
      /\ wiring' = wiring
   BY DEF LimitLogin, ReachLogin, NewRequest
<1>2. PICK q \in LoginType : login' = [login EXCEPT ![c] = q] /\ q.name = n
   <2>1. PICK s \in {"bind", "done"}, a \in {0, 429} : Goes(c, s, n, body, a)
      BY DEF LimitLogin, ReachLogin
   <2>2. [step |-> s, name |-> n, body |-> body, answer |-> a] \in LoginType
      BY DEF LoginType
   <2>3. QED
      BY <2>1, <2>2 DEF Goes
<1>3. /\ failCounts' \in [Names -> 0 .. MaxLogins]
      /\ \A m \in Names : failCounts'[m] <= failCounts[m]
   <2>1. failCounts' = failCounts \/ failCounts' = [failCounts EXCEPT ![n] = 0]
                                  \/ failCounts' = [failCounts EXCEPT ![n] = failCounts[n]]
      BY DEF LimitLogin, ReachLogin
   <2>2. failCounts \in [Names -> 0 .. MaxLogins]
      BY DEF LoginInv, LoginsOK
   <2>3. QED
      BY <2>1, <2>2, Positive
<1>4. /\ login \in [Logins -> LoginType] /\ IsFiniteSet(InProgress) /\ logins \in 0 .. MaxLogins
      /\ failCounts \in [Names -> 0 .. MaxLogins] /\ wiring \in Wirings
      /\ \A m \in Names : failCounts[m] + Cardinality(InProgress) <= logins
   BY DEF LoginInv, LoginsOK, FailuresCounted
<1>5. /\ login' \in [Logins -> LoginType] /\ IsFiniteSet(InProgress')
      /\ Cardinality(InProgress) \in Nat
      /\ Cardinality(InProgress') \in {Cardinality(InProgress), Cardinality(InProgress) + 1}
   BY <1>1, <1>2, <1>4, Counting DEF InProgress
<1>6. LoginsOK'
   BY <1>1, <1>3, <1>4, <1>5, Positive DEF LoginsOK
<1>7. \A m \in Names : failCounts'[m] + Cardinality(InProgress') <= logins'
   BY <1>1, <1>3, <1>4, <1>5
<1>8. \A d \in InProgress' : login'[d].name \in Names
   BY <1>2 DEF InProgress, LoginInv, FailuresCounted
<1>9. QED
   BY <1>5, <1>6, <1>7, <1>8 DEF LoginInv, FailuresCounted

\* A login that ends with a failure is not in progress any more: the sum of its name stays.
LEMMA LoginGoesOn ==
    ASSUME LoginInv, NEW c \in Logins, Bind(c) \/ Accept(c) \/ RecordFailure(c)
    PROVE  LoginInv'
<1>1. /\ login[c].step \in {"bind", "find"} /\ c \in InProgress
      /\ UNCHANGED <<logins, wiring>>
   BY DEF Bind, Accept, RecordFailure, InProgress
<1>2. /\ login \in [Logins -> LoginType] /\ IsFiniteSet(InProgress) /\ logins \in 0 .. MaxLogins
      /\ failCounts \in [Names -> 0 .. MaxLogins] /\ wiring \in Wirings
      /\ \A m \in Names : failCounts[m] + Cardinality(InProgress) <= logins
      /\ login[c].name \in Names
   BY <1>1 DEF LoginInv, LoginsOK, FailuresCounted
<1>3. PICK n \in Names : n = login[c].name
   BY <1>2
<1>4. PICK q \in LoginType : /\ login' = [login EXCEPT ![c] = q] /\ q.name = n
                             /\ q.step = "done" \/ (q.step = "find" /\ failCounts' = failCounts)
   <2>1. PICK body \in {"none", "bad", "wrong", "right"} : body = login[c].body
      BY <1>2 DEF LoginType
   <2>2. PICK s \in {"find", "done"}, a \in {0, 200, 400, 401} :
            Goes(c, s, n, body, a) /\ (s = "done" \/ failCounts' = failCounts)
      BY <1>3, <2>1 DEF Bind, Accept, RecordFailure, Answers
   <2>3. [step |-> s, name |-> n, body |-> body, answer |-> a] \in LoginType
      BY DEF LoginType
   <2>4. QED
      BY <2>2, <2>3 DEF Goes
<1>5. /\ login' \in [Logins -> LoginType] /\ IsFiniteSet(InProgress')
      /\ Cardinality(InProgress) \in Nat /\ Cardinality(InProgress) >= 1
      /\ q.step = "done" => Cardinality(InProgress') = Cardinality(InProgress) - 1
      /\ q.step = "find" => Cardinality(InProgress') = Cardinality(InProgress)
   BY <1>1, <1>2, <1>4, Counting
<1>6. \/ failCounts' = failCounts
      \/ q.step = "done" /\ failCounts' = [failCounts EXCEPT ![n] = failCounts[n] + 1]
   BY <1>3, <1>4 DEF Bind, Accept, RecordFailure
<1>7. /\ failCounts' \in [Names -> 0 .. MaxLogins]
      /\ \A m \in Names : failCounts'[m] + Cardinality(InProgress') <= logins'
   <2>1. CASE failCounts' = failCounts
      BY <1>1, <1>2, <1>4, <1>5, <2>1
   <2>2. CASE q.step = "done" /\ failCounts' = [failCounts EXCEPT ![n] = failCounts[n] + 1]
      <3>1. failCounts[n] \in Nat /\ failCounts[n] + 1 <= logins
         BY <1>2, <1>5
      <3>3. failCounts[n] + 1 \in 0 .. MaxLogins
         BY <1>2, <3>1, Positive
      <3>4. failCounts' \in [Names -> 0 .. MaxLogins]
         BY <1>2, <2>2, <3>3
      <3>5. \A m \in Names : failCounts'[m] + Cardinality(InProgress') <= logins'
         BY <1>1, <1>2, <1>5, <2>2
      <3>6. QED
         BY <3>4, <3>5
   <2>3. QED
      BY <1>6, <2>1, <2>2
<1>8. \A d \in InProgress' : login'[d].name \in Names
   BY <1>4 DEF InProgress, LoginInv, FailuresCounted
<1>9. QED
   BY <1>1, <1>5, <1>7, <1>8 DEF LoginInv, LoginsOK, FailuresCounted

-----------------------------------------------------------------------------
\* The invariant holds at first.
LEMMA InitInv == Init => IInv
<1> SUFFICES ASSUME Init
             PROVE  IInv
   OBVIOUS
<1>1. TimesOK /\ EntriesAgree
   BY Positive DEF Init, TimesOK, EntriesAgree
<1>2. SweepOK /\ SweepFits
   BY Positive DEF Init, SweepOK, SweepFits, Idle
<1>3. LoginsOK
   BY Positive DEF Init, LoginsOK, NewLogin, LoginType
<1>4. InProgress = {}
   BY DEF Init, InProgress, NewLogin
<1>5. FailuresCounted
   BY <1>4, FS_EmptySet DEF Init, FailuresCounted
<1>6. QED
   BY <1>1, <1>2, <1>3, <1>5 DEF IInv, LimiterInv, LoginInv

\* Every step keeps it.
LEMMA StepInv == IInv /\ [Next]_vars => IInv'
<1> SUFFICES ASSUME IInv, [Next]_vars
             PROVE  IInv'
   OBVIOUS
<1>0. now \in Nat
   BY DEF IInv, LimiterInv, TimesOK
<1>2. CASE Tick
   <2>1. now \in Nat /\ now' = now + 1 /\ UNCHANGED <<failCounts, login, wiring, logins>>
      BY <1>0, <1>2 DEF Tick
   <2>2. LoginInv'
      BY <2>1, LoginsAlone DEF IInv
   <2>3. QED
      BY <1>2, <2>2, TickKeeps DEF IInv
<1>3. CASE Sweep
   <2>1. UNCHANGED <<now, login, wiring, logins>>
      BY <1>3 DEF Sweep, StartSweep, Collect, Delete, Deletes
   <2>2. \/ failCounts' = failCounts
         \/ \E items : failCounts' = [n \in Names |-> IF n \in items THEN 0 ELSE failCounts[n]]
      BY <1>3 DEF Sweep, StartSweep, Collect, Delete, Deletes
   <2>3. LoginInv'
      BY <1>0, <2>1, <2>2, LoginsAlone DEF IInv
   <2>4. QED
      BY <1>3, <2>3, SweepKeeps DEF IInv
<1>4. ASSUME NEW k \in Clients, NEW i \in Intervals, Request(k, i)
      PROVE  IInv'
   BY <1>0, <1>4, RequestKeeps, LoginsAlone DEF Request, IInv
<1>5. ASSUME NEW c \in Logins, NEW n \in Names, NEW body \in {"bad", "wrong", "right"},
             LimitLogin(c, n, body) \/ ReachLogin(c, n, body)
      PROVE  IInv'
   <2>1. UNCHANGED <<now, cache, sweep, passed>>
      BY <1>5 DEF LimitLogin, ReachLogin, NewRequest
   <2>2. QED
      BY <1>0, <1>5, <2>1, NewLoginKeeps, LimiterAlone DEF IInv
<1>6. ASSUME NEW c \in Logins, Bind(c) \/ Accept(c) \/ RecordFailure(c)
      PROVE  IInv'
   <2>1. UNCHANGED <<now, cache, sweep, passed>>
      BY <1>6 DEF Bind, Accept, RecordFailure
   <2>2. QED
      BY <1>0, <1>6, <2>1, LoginGoesOn, LimiterAlone DEF IInv
<1>7. CASE UNCHANGED vars
   BY <1>0, <1>7, LoginsAlone, LimiterAlone DEF vars, IInv
<1>8. QED
   BY <1>2, <1>3, <1>4, <1>5, <1>6, <1>7 DEF Next

\* The inductive invariant holds in every reachable state.
THEOREM Invariance == Spec => []IInv
BY InitInv, StepInv, PTL DEF Spec

\* A request is refused exactly if its client was let through, to whatever route, less than
\* the interval ago, whatever the cleanup has deleted meanwhile, and the types are kept.
THEOREM InvHolds == Spec => []Inv
<1>1. IInv => TypeOK
   BY TypeParts DEF IInv, LimiterInv, LoginInv
<1>2. IInv => RefusedIffRecent
   <2>1. SUFFICES ASSUME IInv, NEW k \in Clients, NEW i \in Intervals
                  PROVE  k \in DOMAIN cache /\ now - cache[k] < i
                            <=> k \in DOMAIN passed /\ now - passed[k] < i
      BY DEF RefusedIffRecent, Recent
   <2>2. i \in Nat /\ i <= TTL /\ now \in Nat
      BY <2>1, LimitsAssumption DEF IInv, LimiterInv, TimesOK
   <2>3. k \in DOMAIN passed => passed[k] \in 0 .. now
      BY <2>1 DEF IInv, LimiterInv, TimesOK
   <2>4. /\ k \in DOMAIN cache => k \in DOMAIN passed /\ passed[k] = cache[k]
         /\ k \in DOMAIN passed => k \in DOMAIN cache \/ now - passed[k] > TTL
      BY <2>1 DEF IInv, LimiterInv, EntriesAgree
   <2>5. QED
      BY <2>2, <2>3, <2>4, Positive
<1>3. QED
   BY <1>1, <1>2, Invariance, PTL DEF Inv
==============================================================================
