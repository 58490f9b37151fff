------------------------------ MODULE Partitions ------------------------------
(***************************************************************************)
(* The daily partitions of the table messages: the worker that creates and *)
(* drops them (worker.go, store.go), its start and stop, and main's start  *)
(* and shutdown around it (main.go).  Nothing catches a message on a day   *)
(* that has no partition: storing it fails.                                *)
(*                                                                         *)
(* Time is counted in parts of a day, and a week has DaysPerWeek days, the *)
(* first a Monday.  A job of the worker takes less than one such part; the *)
(* start, which tries and sleeps, may see midnight pass.                   *)
(***************************************************************************)
EXTENDS Integers, FiniteSetsExt

CONSTANTS
    TicksPerDay, DaysPerWeek,
    Retention,            \* MessageRetentionDays
    TableInterval,        \* WorkerTableCreateIntervalHours: a week
    MaintenanceDelay, MaintenanceInterval,
    Attempts,             \* to create the first partitions: 3
    MaxTime,              \* bound: the clock
    MaxRuns,              \* bound: starts of the server
    MaxFailures           \* bound: statements that fail

ASSUME PartitionsAssumption ==
    /\ {TicksPerDay, DaysPerWeek, Retention, TableInterval, MaintenanceInterval, Attempts}
          \subseteq Nat \ {0}
    /\ {MaintenanceDelay, MaxTime, MaxRuns, MaxFailures} \subseteq Nat

VARIABLES
    now,
    parts,     \* the days that have a partition
    main,      \* main(): its phase, and the start's attempt and what it has to create
    loop,      \* the worker's three goroutines
    stopper,   \* the goroutine that stops the background work
    runs, failures,
    missed,    \* history: days whose partition could not be created
    run        \* history: the present run of the server

vars == <<now, parts, main, loop, stopper, runs, failures, missed, run>>

DayOf(t) == t \div TicksPerDay
Midnight(d) == d * TicksPerDay
Today == DayOf(now)
NextMonday(d) == (d \div DaysPerWeek + 1) * DaysPerWeek
Week(monday) == monday .. monday + DaysPerWeek - 1

Loops == {"table", "maintenance", "idempotency"}
NoLoop == [phase |-> "off", due |-> 0, todo |-> {}]
Down == [phase |-> "down", attempt |-> 0, todo |-> {}, failed |-> FALSE]

\* A run: the last day of which it creates a partition at its start, the first of
\* which the table loop does, and when it, and then its worker, started.
NoRun == [last |-> 0, first |-> 0, since |-> 0]

Init ==
    /\ now \in 0 .. MaxTime /\ now < Midnight(DaysPerWeek) /\ parts = {} /\ missed = {}
    /\ main = Down /\ loop = [l \in Loops |-> NoLoop] /\ stopper = "none"
    /\ runs = 0 /\ failures = 0 /\ run = NoRun

Fails == failures < MaxFailures /\ failures' = failures + 1

MainBecomes(phase, attempt, todo, failed) ==
    main' = [phase |-> phase, attempt |-> attempt, todo |-> todo, failed |-> failed]

LoopBecomes(l, phase, due, todo) ==
    loop' = [loop EXCEPT ![l] = [phase |-> phase, due |-> due, todo |-> todo]]

Due(l) == loop[l].phase \in {"delay", "wait"} /\ now >= loop[l].due

\* Timers fire in time, and jobs and the start are short.
Tick ==
    /\ now < MaxTime /\ now' = now + 1
    /\ \/ main.phase \in {"down", "up"}
       \/ main.phase = "creating" /\ now = run.since
    /\ \A l \in Loops : ~Due(l) /\ loop[l].phase # "work"
    /\ UNCHANGED <<parts, main, loop, stopper, runs, failures, missed, run>>

-----------------------------------------------------------------------------
(***************************************************************************)
(* EnsurePartition: CREATE TABLE IF NOT EXISTS and two indexes.  It may    *)
(* fail after the table has been created.                                  *)
(***************************************************************************)
Created(d) == parts' = parts \cup {d} /\ missed' = missed \ {d} /\ UNCHANGED failures

CreationFails(d) ==
    /\ Fails
    /\ parts' \in {parts, parts \cup {d}}
    /\ missed' = (missed \cup {d}) \ parts'

-----------------------------------------------------------------------------
(***************************************************************************)
(* main: the partitions from today to Sunday, in three attempts, and then  *)
(* the worker.                                                             *)
(***************************************************************************)
TodayToSunday == Today .. NextMonday(Today) - 1

Attempt(n, since) ==
    /\ MainBecomes("creating", n, TodayToSunday, FALSE)
    /\ run' = [last |-> Max(TodayToSunday), first |-> 0, since |-> since]

StartServer ==
    /\ main.phase = "down" /\ runs < MaxRuns /\ runs' = runs + 1
    /\ Attempt(1, now)
    /\ UNCHANGED <<now, parts, loop, stopper, failures, missed>>

CreateFirst ==
    /\ main.phase = "creating" /\ main.todo # {}
    /\ LET d == Min(main.todo)
           Goes(failed) == MainBecomes("creating", main.attempt, main.todo \ {d}, failed)
       IN \/ Created(d) /\ Goes(main.failed)
          \/ CreationFails(d) /\ Goes(TRUE)
    /\ UNCHANGED <<now, loop, stopper, runs, run>>

Retry ==
    /\ main.phase = "creating" /\ main.todo = {} /\ main.failed
    /\ \/ main.attempt < Attempts /\ Attempt(main.attempt + 1, run.since)
       \/ main.attempt = Attempts /\ main' = Down /\ run' = NoRun
    /\ UNCHANGED <<now, parts, loop, stopper, runs, failures, missed>>

FirstDue(l) ==
    IF l = "table" THEN Midnight(NextMonday(Today)) ELSE now + MaintenanceDelay

\* (A slip for Interval: the tables are created every other week.)
IntervalTwice(l) == IF l = "table" THEN 2 * TableInterval ELSE MaintenanceInterval

Interval(l) == IF l = "table" THEN TableInterval ELSE MaintenanceInterval

\* Worker.Start; the server listens from now on.
StartWorker ==
    /\ main.phase = "creating" /\ main.todo = {} /\ ~main.failed
    /\ MainBecomes("up", 0, {}, FALSE)
    /\ loop' = [l \in Loops |-> [phase |-> "delay", due |-> FirstDue(l), todo |-> {}]]
    /\ run' = [run EXCEPT !.first = NextMonday(DayOf(FirstDue("table") + TableInterval)),
                          !.since = now]
    /\ UNCHANGED <<now, parts, stopper, runs, failures, missed>>

-----------------------------------------------------------------------------
(***************************************************************************)
(* runLoop: the delay, then a ticker.  A select with the ticker and stopCh *)
(* both ready takes either.                                                *)
(***************************************************************************)
DelayOver(l) ==
    /\ loop[l].phase = "delay" /\ Due(l)
    /\ LoopBecomes(l, "wait", now + Interval(l), {})
    /\ UNCHANGED <<now, parts, main, stopper, runs, failures, missed, run>>

\* (A slip for Expired: one partition at a time.)
ExpiredOne ==
    LET old == {d \in parts : Midnight(d) < now - Retention * TicksPerDay}
    IN IF old = {} THEN {} ELSE {Min(old)}

\* (A slip for Expired: by the end of the day rather than its start, and a day off.)
ExpiredEarly == {d \in parts : Midnight(d) < now - (Retention - 1) * TicksPerDay}

\* dropExpiredPartitions: what begins before the cutoff is dropped, though it
\* goes on for a day.
Expired == {d \in parts : Midnight(d) < now - Retention * TicksPerDay}

\* createWeekTables, runMaintenance and cleanupIdempotency (its DELETE is
\* ExpireRecord of Messaging) begin.
Fire(l) ==
    /\ loop[l].phase = "wait" /\ Due(l)
    /\ LET begins(todo) == LoopBecomes(l, "work", loop[l].due + Interval(l), todo)
       IN CASE l = "table" -> begins(Week(NextMonday(Today))) /\ UNCHANGED failures
            [] l = "maintenance" -> \/ begins(Expired) /\ UNCHANGED failures
                                    \/ begins({}) /\ Fails
            [] OTHER -> begins({}) /\ UNCHANGED failures
    /\ UNCHANGED <<now, parts, main, stopper, runs, missed, run>>

Left(l, d) == LoopBecomes(l, "work", loop[l].due, loop[l].todo \ {d})

CreateNext ==
    /\ loop["table"].phase = "work" /\ loop["table"].todo # {}
    /\ LET d == Min(loop["table"].todo)
       IN Left("table", d) /\ (Created(d) \/ CreationFails(d))
    /\ UNCHANGED <<now, main, stopper, runs, run>>

Drop(d) ==
    /\ loop["maintenance"].phase = "work" /\ d \in loop["maintenance"].todo
    /\ Left("maintenance", d)
    /\ \/ parts' = parts \ {d} /\ UNCHANGED failures
       \/ UNCHANGED parts /\ Fails
    /\ UNCHANGED <<now, main, stopper, runs, missed, run>>

WorkDone(l) ==
    /\ loop[l].phase = "work" /\ loop[l].todo = {}
    /\ LoopBecomes(l, "wait", loop[l].due, {})
    /\ UNCHANGED <<now, parts, main, stopper, runs, failures, missed, run>>

\* stopCh is closed.
EndLoop(l) ==
    /\ stopper # "none" /\ loop[l].phase \in {"delay", "wait"}
    /\ LoopBecomes(l, "ended", 0, {})
    /\ UNCHANGED <<now, parts, main, stopper, runs, failures, missed, run>>

-----------------------------------------------------------------------------
(***************************************************************************)
(* Shutdown.                                                               *)
(***************************************************************************)
MainGoes(phase) == MainBecomes(phase, 0, {}, FALSE)

Signal ==
    /\ main.phase = "up"
    /\ MainGoes("cleanup") /\ stopper' = "worker"
    /\ UNCHANGED <<now, parts, loop, runs, failures, missed, run>>

\* Worker.Stop: its WaitGroup has the three loops.
WorkerStopped ==
    /\ stopper = "worker" /\ \A l \in Loops : loop[l].phase = "ended"
    /\ stopper' = "tokens"
    /\ UNCHANGED <<now, parts, main, loop, runs, failures, missed, run>>

\* RateLimiter.Stop waits for nothing, JwtService.Stop for the DELETEs of
\* cleanups.
TokensStopped ==
    /\ stopper = "tokens" /\ stopper' = "done"
    /\ UNCHANGED <<now, parts, main, loop, runs, failures, missed, run>>

CleanupDone ==
    /\ main.phase = "cleanup" /\ stopper = "done" /\ MainGoes("drain")
    /\ UNCHANGED <<now, parts, loop, stopper, runs, failures, missed, run>>

\* (A slip for CleanupTimeout: no timer beside cleanupDone.)
CleanupTimeoutNever ==
    /\ main.phase = "cleanup" /\ stopper = "done" /\ MainGoes("drain")
    /\ UNCHANGED <<now, parts, loop, stopper, runs, failures, missed, run>>

\* After 10 seconds.
CleanupTimeout ==
    /\ main.phase = "cleanup" /\ MainGoes("drain")
    /\ UNCHANGED <<now, parts, loop, stopper, runs, failures, missed, run>>

Stops ==
    /\ main' = Down /\ loop' = [l \in Loops |-> NoLoop] /\ stopper' = "none" /\ run' = NoRun
    /\ UNCHANGED <<now, parts, runs, failures, missed>>

\* srv.Shutdown returns, after 30 seconds at the latest, and main ends.
Drained == main.phase = "drain" /\ Stops

\* A second signal or a crash.
Kill == main.phase # "down" /\ Stops

-----------------------------------------------------------------------------
Next ==
    \/ Tick \/ StartServer \/ CreateFirst \/ Retry \/ StartWorker
    \/ \E l \in Loops : DelayOver(l) \/ Fire(l) \/ WorkDone(l) \/ EndLoop(l)
    \/ CreateNext \/ \E d \in parts : Drop(d)
    \/ Signal \/ WorkerStopped \/ TokensStopped \/ CleanupDone \/ CleanupTimeout
    \/ Drained \/ Kill

Spec == Init /\ [][Next]_vars

\* Only main's own timers are sure to fire (main.go:205): statements of the worker
\* have no timeout and may hang.
FairSpec == Spec /\ WF_vars(CleanupTimeout) /\ WF_vars(Drained)

-----------------------------------------------------------------------------
Days == 0 .. DayOf(MaxTime) + 3 * DaysPerWeek

TypeOK ==
    /\ now \in 0 .. MaxTime /\ parts \subseteq Days /\ missed \subseteq Days \ parts
    /\ main \in [phase : {"down", "creating", "up", "cleanup", "drain"},
                 attempt : 0 .. Attempts, todo : SUBSET Days, failed : BOOLEAN]
    /\ loop \in [Loops -> [phase : {"off", "delay", "wait", "work", "ended"}, due : Nat,
                           todo : SUBSET Days]]
    /\ stopper \in {"none", "worker", "tokens", "done"}
    /\ runs \in 0 .. MaxRuns /\ failures \in 0 .. MaxFailures
    /\ run \in [last : Nat, first : Nat, since : Nat]

\* While the server is up, messages of today can be stored (main.go:156): up to the
\* first Sunday always, for a start that could not create a partition tries again
\* and does not go on without it (main.go:158, :169); then but for a hole until the
\* table loop has caught up, and but for days whose creation by it failed, which it
\* does not try again (worker.go:98).
Covered ==
    main.phase \in {"up", "cleanup", "drain"} =>
        \/ Today \in parts
        \/ run.last < Today /\ (Today < run.first \/ Today \in missed)

\* The hole is at most two weeks long, or three if a Sunday ends while the server
\* starts (worker.go:56, :120).
HoleBound ==
    main.phase = "up" =>
        run.first - run.last - 1 <=
            (IF DayOf(run.since) <= run.last THEN 2 ELSE 3) * DaysPerWeek

\* The table loop comes round at least once a week, as it does by default
\* (WORKER_TABLE_CREATE_INTERVAL_HOURS is 168, config.go); otherwise it skips weeks.
AtMostWeekly == TableInterval <= Midnight(DaysPerWeek)

\* When the background work counts as stopped, no loop creates or drops any more
\* (worker.go:50, main.go:190).
QuietAfterStop ==
    stopper \in {"tokens", "done"} => \A l \in Loops : loop[l].phase = "ended"

\* The state has its types, and keeps to the calendar and to the stop.
Inv == TypeOK /\ Covered /\ HoleBound /\ QuietAfterStop

\* No message goes before it is Retention days old, less the one day that its
\* partition spans (worker.go:187).
KeptForRetention ==
    [][\A d \in parts \ parts' : Midnight(d + 1) <= now - (Retention - 1) * TicksPerDay]_vars

\* While the server is up, no message outlives Retention by more than a round of
\* maintenance and one more for every statement that failed (worker.go:193).
OldOnesGo ==
    LET rounds == (1 + failures) * MaintenanceInterval
    IN main.phase = "up" /\ now >= run.since + MaintenanceDelay + rounds
          /\ loop["maintenance"].phase = "wait" /\ ~Due("maintenance")
       => \A d \in parts : Midnight(d) >= now - Retention * TicksPerDay - rounds

\* A server that was told to stop is gone in the end, though the worker hangs in
\* a statement (main.go:207).
ShutdownEnds == main.phase = "cleanup" ~> main.phase = "down"
==============================================================================
