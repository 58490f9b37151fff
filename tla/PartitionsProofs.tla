--------------------------- MODULE PartitionsProofs ---------------------------
(***************************************************************************)
(* Proofs about Partitions, for days and weeks of any length, any          *)
(* intervals, starts, failures and crashes.                                *)
(***************************************************************************)
EXTENDS Partitions, FiniteSetTheorems, TLAPS

Running == main.phase \in {"up", "cleanup", "drain"}

\* The days that have a partition, or had their chance.
Tried == parts \cup missed

\* A timer is not overdue; a job takes no time.
TimersFit ==
    \A l \in Loops :
        /\ loop[l].phase \in {"delay", "wait"} => now <= loop[l].due
        /\ loop[l].phase = "work" => loop[l].due = now + Interval(l)

\* The loops run as long as the server does, and are stopped only in its shutdown.
LoopsFit ==
    /\ ~ Running => \A l \in Loops : loop[l].phase = "off"
    /\ Running => \A l \in Loops : loop[l].phase # "off"
    /\ main.phase = "up" => \A l \in Loops : loop[l].phase # "ended"
    /\ main.phase \in {"down", "creating", "up"} => stopper = "none"

\* An attempt of the start creates the days from today to Sunday, if nothing fails;
\* midnight may pass once meanwhile.
StartFits ==
    main.phase = "creating" =>
        /\ \E t \in run.since .. now : run.last = NextMonday(DayOf(t)) - 1
        /\ now <= run.since + 1
        /\ ~ main.failed => \A d \in Today .. run.last : d \in parts \cup main.todo

\* The start has created its days, and those to come are still there.
StartCreated == Running => \A d \in Today .. run.last : d \in parts

\* How far ahead the table loop is: when its timer goes it has tried the days to the
\* end of the week that its next round finds.
TableFits ==
    Running =>
        LET table == loop["table"]
            ahead == {d \in run.first .. NextMonday(DayOf(table.due)) - 1 : Today <= d}
        IN  /\ table.phase = "delay" => run.first = NextMonday(DayOf(table.due + TableInterval))
            /\ table.phase = "wait" => ahead \subseteq Tried
            /\ table.phase = "work" => ahead \subseteq Tried \cup table.todo

\* What the table loop has still to create is ahead.
AheadOfToday == loop["table"].phase = "work" => \A d \in loop["table"].todo : d > Today

\* What failed statements may delay.
Slack(n) == n * MaintenanceInterval

\* By the round of maintenance at t all but Ds that begins Retention before it is gone,
\* or else too many statements have failed since the worker started.
GoneBy(t, Ds) ==
    \/ t - Slack(failures) <= run.since + MaintenanceDelay
    \/ \A d \in parts \ Ds : Midnight(d) >= t - Retention * TicksPerDay - Slack(failures)

\* What a round of maintenance drops is old; each round sees what the one before left.
MaintenanceFits ==
    Running =>
        LET job == loop["maintenance"]
        IN  /\ job.phase = "delay" => job.due = run.since + MaintenanceDelay
            /\ job.phase = "wait" =>
                  /\ job.due - MaintenanceInterval <= now
                  /\ GoneBy(job.due - MaintenanceInterval, {})
            /\ job.phase = "work" =>
                  /\ GoneBy(now - MaintenanceInterval, {}) /\ GoneBy(now, job.todo)
                  /\ \A d \in job.todo : Midnight(d) < now - Retention * TicksPerDay

\* The inductive invariant, and what is added to it if the table loop comes round weekly.
IInv ==
    /\ TypeOK /\ TimersFit /\ LoopsFit /\ QuietAfterStop
    /\ AheadOfToday /\ MaintenanceFits

CoverInv == StartFits /\ StartCreated /\ TableFits /\ Covered /\ HoleBound

-----------------------------------------------------------------------------
(***************************************************************************)
(* The calendar.                                                           *)
(***************************************************************************)
\* Division by a positive number.
LEMMA Quotient ==
    ASSUME NEW n \in Nat, NEW k \in Nat \ {0}
    PROVE  n \div k \in Nat /\ (n \div k) * k <= n /\ n < (n \div k) * k + k
BY SMT

\* Multiplication by a natural number is monotone; a greater factor adds k at least.
LEMMA ProductGrows ==
    ASSUME NEW a \in Nat, NEW b \in Nat, NEW k \in Nat, a < b
    PROVE  a * k \in Nat /\ b * k \in Nat /\ a * k + k <= b * k
<1>1. PICK d \in Nat : b = a + d + 1
  BY SMT
<1>2. b * k = a * k + d * k + k /\ a * k \in Nat /\ d * k \in Nat
  BY <1>1, SMT
<1>. QED
  BY <1>2, SMT

\* Only one multiple of k is the last at or below n.
LEMMA QuotientIs ==
    ASSUME NEW n \in Nat, NEW k \in Nat \ {0}, NEW q \in Nat, q * k <= n, n < q * k + k
    PROVE  n \div k = q
<1>1. /\ n \div k \in Nat /\ q * k \in Nat /\ (n \div k) * k \in Nat
      /\ (n \div k) * k <= n /\ n < (n \div k) * k + k
  BY Quotient, SMT
<1>2. ~ (n \div k < q)
  BY <1>1, ProductGrows
<1>3. ~ (q < n \div k)
  BY <1>1, ProductGrows
<1>. QED
  BY <1>1, <1>2, <1>3

\* Midnights are apart by whole days.
LEMMA MidnightGrows ==
    ASSUME NEW a \in Nat, NEW b \in Nat
    PROVE  /\ Midnight(a) \in Nat /\ Midnight(b) \in Nat
           /\ a <= b => Midnight(a) <= Midnight(b)
           /\ a < b => Midnight(a) + TicksPerDay <= Midnight(b)
           /\ Midnight(a + 1) = Midnight(a) + TicksPerDay
<1>1. TicksPerDay \in Nat \ {0}
  BY PartitionsAssumption
<1>2. a * TicksPerDay \in Nat /\ b * TicksPerDay \in Nat
  BY <1>1, SMT
<1>3. a < b => a * TicksPerDay + TicksPerDay <= b * TicksPerDay
  BY <1>1, ProductGrows
<1>4. (a + 1) * TicksPerDay = a * TicksPerDay + TicksPerDay
  BY <1>1, SMT
<1>. QED
  BY <1>1, <1>2, <1>3, <1>4 DEF Midnight

\* Midnights add up.
LEMMA MidnightAdds ==
    ASSUME NEW a \in Nat, NEW b \in Nat
    PROVE  Midnight(a + b) = Midnight(a) + Midnight(b)
<1>1. TicksPerDay \in Nat
  BY PartitionsAssumption
<1>. QED
  BY <1>1, SMT DEF Midnight

\* The day of a moment is the one between whose midnights it lies.
LEMMA DayOfIs ==
    ASSUME NEW t \in Nat
    PROVE  /\ DayOf(t) \in Nat /\ Midnight(DayOf(t)) \in Nat
           /\ Midnight(DayOf(t)) <= t /\ t < Midnight(DayOf(t)) + TicksPerDay
<1>1. TicksPerDay \in Nat \ {0}
  BY PartitionsAssumption
<1>. QED
  BY <1>1, Quotient, MidnightGrows DEF DayOf, Midnight

\* A moment is before a day just if it is before its midnight.
LEMMA BeforeMidnight ==
    ASSUME NEW t \in Nat, NEW d \in Nat
    PROVE  DayOf(t) < d <=> t < Midnight(d)
<1>1. TicksPerDay \in Nat
  BY PartitionsAssumption
<1>2. /\ DayOf(t) < d => Midnight(DayOf(t)) + TicksPerDay <= Midnight(d)
      /\ d <= DayOf(t) => Midnight(d) <= Midnight(DayOf(t))
      /\ Midnight(d) \in Nat
  BY DayOfIs, MidnightGrows
<1>. QED
  BY <1>1, <1>2, DayOfIs

\* Days follow one another.
LEMMA DayOfGrows ==
    ASSUME NEW s \in Nat, NEW t \in Nat, s <= t
    PROVE  /\ DayOf(s) <= DayOf(t)
           /\ t <= s + 1 => DayOf(t) <= DayOf(s) + 1
           /\ \A n \in Nat : t <= s + Midnight(n) => DayOf(t) <= DayOf(s) + n
<1>1. TicksPerDay \in Nat \ {0}
  BY PartitionsAssumption
<1>2. DayOf(s) \in Nat /\ DayOf(t) \in Nat /\ Midnight(DayOf(s)) \in Nat
      /\ Midnight(DayOf(s)) <= s /\ s < Midnight(DayOf(s)) + TicksPerDay
  BY DayOfIs
<1>3. DayOf(s) <= DayOf(t)
  BY <1>2, BeforeMidnight
<1>4. ASSUME NEW n \in Nat, t <= s + Midnight(n)
      PROVE  DayOf(t) <= DayOf(s) + n
  <2>0. Midnight(DayOf(s) + n) = Midnight(DayOf(s)) + Midnight(n)
    BY <1>2, MidnightAdds, Zenon
  <2> DEFINE last == DayOf(s) + n
  <2>1. last \in Nat /\ Midnight(last) = Midnight(DayOf(s)) + Midnight(n) /\ Midnight(n) \in Nat
    BY <1>2, <2>0, MidnightGrows
  <2> HIDE DEF last
  <2>2. Midnight(last + 1) = Midnight(last) + TicksPerDay
    BY <2>1, MidnightGrows
  <2>3. t < Midnight(last + 1)
    BY <1>1, <1>2, <1>4, <2>1, <2>2
  <2>4. DayOf(t) < last + 1
    BY <1>2, <2>1, <2>3, BeforeMidnight
  <2>. QED
    BY <1>2, <2>1, <2>4 DEF last
<1>5. 1 <= Midnight(1)
  <2>1. Midnight(1) = TicksPerDay
    BY <1>1 DEF Midnight
  <2>. QED
    BY <1>1, <2>1
<1>6. t <= s + 1 => DayOf(t) <= DayOf(s) + 1
  <2>1. Midnight(1) \in Nat
    BY MidnightGrows
  <2>. QED
    BY <1>4, <1>5, <2>1
<1>. QED
  BY <1>3, <1>4, <1>6

\* A day is that of its midnight.
LEMMA DayOfMidnight ==
    ASSUME NEW d \in Nat
    PROVE  DayOf(Midnight(d)) = d
<1>1. TicksPerDay \in Nat \ {0} /\ Midnight(d) \in Nat /\ DayOf(Midnight(d)) \in Nat
  BY PartitionsAssumption, MidnightGrows, DayOfIs
<1>2. ~ (DayOf(Midnight(d)) < d)
  BY <1>1, BeforeMidnight
<1>3. Midnight(d) < Midnight(d + 1)
  BY <1>1, MidnightGrows
<1>4. DayOf(Midnight(d)) < d + 1
  BY <1>1, <1>3, BeforeMidnight
<1>. QED
  BY <1>1, <1>2, <1>4

\* The next Monday is in a week at the latest; till then it stays the next; it is a
\* week to the one after.
LEMMA NextMondayIs ==
    ASSUME NEW d \in Nat
    PROVE  /\ NextMonday(d) \in Nat /\ d < NextMonday(d) /\ NextMonday(d) <= d + DaysPerWeek
           /\ \A e \in d .. NextMonday(d) - 1 : NextMonday(e) = NextMonday(d)
           /\ NextMonday(NextMonday(d)) = NextMonday(d) + DaysPerWeek
<1>1. DaysPerWeek \in Nat \ {0}
  BY PartitionsAssumption
<1> DEFINE w == d \div DaysPerWeek
<1>2. w \in Nat /\ w * DaysPerWeek \in Nat /\ w * DaysPerWeek <= d
      /\ d < w * DaysPerWeek + DaysPerWeek
  BY <1>1, Quotient, SMT
<1> HIDE DEF w
<1>3. (w + 1) * DaysPerWeek = w * DaysPerWeek + DaysPerWeek
      /\ ((w + 1) + 1) * DaysPerWeek = (w * DaysPerWeek + DaysPerWeek) + DaysPerWeek
  BY <1>1, <1>2, SMT
<1>4. NextMonday(d) = w * DaysPerWeek + DaysPerWeek
  BY <1>3 DEF NextMonday, w
<1>5. ASSUME NEW e \in d .. NextMonday(d) - 1
      PROVE  NextMonday(e) = NextMonday(d)
  <2>1. e \in Nat /\ w * DaysPerWeek <= e /\ e < w * DaysPerWeek + DaysPerWeek
    BY <1>1, <1>2, <1>4, <1>5
  <2>2. e \div DaysPerWeek = w
    BY <1>1, <1>2, <2>1, QuotientIs
  <2>. QED
    BY <2>2, <1>3, <1>4 DEF NextMonday
<1>6. NextMonday(NextMonday(d)) = NextMonday(d) + DaysPerWeek
  <2> DEFINE m == NextMonday(d)
  <2>1. m \in Nat /\ m = (w + 1) * DaysPerWeek
    BY <1>1, <1>2, <1>3, <1>4
  <2> HIDE DEF m
  <2>2. m \div DaysPerWeek = w + 1
    BY <1>1, <1>2, <2>1, QuotientIs
  <2>3. NextMonday(m) = ((w + 1) + 1) * DaysPerWeek
    BY <2>2 DEF NextMonday
  <2>. QED
    BY <1>3, <1>4, <2>3 DEF m
<1>. QED
  BY <1>1, <1>2, <1>4, <1>5, <1>6

\* Next Mondays follow one another; a week at most later, a week at most later.
LEMMA NextMondayGrows ==
    ASSUME NEW a \in Nat, NEW b \in Nat, a <= b
    PROVE  /\ NextMonday(a) <= NextMonday(b)
           /\ b <= a + DaysPerWeek => NextMonday(b) <= NextMonday(a) + DaysPerWeek
<1>1. DaysPerWeek \in Nat \ {0}
  BY PartitionsAssumption
<1> DEFINE m == NextMonday(a)
<1>2. /\ m \in Nat /\ a < m /\ m <= a + DaysPerWeek
      /\ \A e \in a .. m - 1 : NextMonday(e) = m
      /\ NextMonday(m) = m + DaysPerWeek
  BY NextMondayIs
<1>3. NextMonday(b) \in Nat /\ b < NextMonday(b)
  BY NextMondayIs
<1>4. \A e \in m .. NextMonday(m) - 1 : NextMonday(e) = NextMonday(m)
  BY <1>2, NextMondayIs
<1> HIDE DEF m
<1>5. CASE b < m
  BY <1>1, <1>2, <1>3, <1>5 DEF m
<1>6. CASE m <= b
  <2>1. m <= NextMonday(b)
    BY <1>2, <1>3, <1>6
  <2>2. b <= a + DaysPerWeek => b \in m .. NextMonday(m) - 1
    BY <1>1, <1>2, <1>6
  <2>. QED
    BY <1>1, <1>2, <1>4, <2>1, <2>2 DEF m
<1>. QED
  BY <1>2, <1>5, <1>6

-----------------------------------------------------------------------------
(***************************************************************************)
(* Days, and what the operators of the model return.                       *)
(***************************************************************************)
\* The parameters.
LEMMA Parameters ==
    /\ {TicksPerDay, DaysPerWeek, Retention, TableInterval, MaintenanceInterval, Attempts}
          \subseteq Nat \ {0}
    /\ {MaintenanceDelay, MaxTime, MaxRuns, MaxFailures} \subseteq Nat
    /\ Retention * TicksPerDay \in Nat
<1>1. Retention \in Nat /\ TicksPerDay \in Nat
  BY PartitionsAssumption
<1>. QED
  BY <1>1, PartitionsAssumption, SMT

\* A failure more is a round of maintenance more.
LEMMA SlackGrows ==
    ASSUME NEW n \in Nat, NEW m \in Nat
    PROVE  /\ Slack(n) \in Nat /\ Slack(n + 1) = Slack(n) + MaintenanceInterval
           /\ n <= m => Slack(n) <= Slack(m)
<1>1. MaintenanceInterval \in Nat
  BY PartitionsAssumption
<1>2. n < m => Slack(n) <= Slack(m)
  BY <1>1, ProductGrows, SMT DEF Slack
<1>3. Slack(n) \in Nat /\ Slack(n + 1) = Slack(n) + MaintenanceInterval
  BY <1>1, SMT DEF Slack
<1>. QED
  BY <1>2, <1>3

\* The days to be created and those that may be stored are days of the model, a finite
\* set of numbers.
LEMMA DaysFit ==
    ASSUME now \in 0 .. MaxTime
    PROVE  /\ Today \in Nat /\ NextMonday(Today) \in Nat /\ Today < NextMonday(Today)
           /\ TodayToSunday \subseteq Days /\ Week(NextMonday(Today)) \subseteq Days
           /\ Max(TodayToSunday) = NextMonday(Today) - 1
           /\ Days \subseteq Nat /\ IsFiniteSet(Days)
<1>1. DaysPerWeek \in Nat \ {0} /\ MaxTime \in Nat /\ now \in Nat /\ now <= MaxTime
  BY PartitionsAssumption
<1>2. Today \in Nat /\ DayOf(MaxTime) \in Nat /\ Today <= DayOf(MaxTime)
  BY <1>1, DayOfIs, DayOfGrows DEF Today
<1>3. /\ NextMonday(Today) \in Nat /\ Today < NextMonday(Today)
      /\ NextMonday(Today) <= Today + DaysPerWeek
  BY <1>2, NextMondayIs
<1>4. 3 * DaysPerWeek \in Nat /\ 3 * DaysPerWeek = DaysPerWeek + DaysPerWeek + DaysPerWeek
  BY <1>1
<1>5. TodayToSunday \subseteq Days /\ Week(NextMonday(Today)) \subseteq Days
  BY <1>1, <1>2, <1>3, <1>4 DEF TodayToSunday, Week, Days
<1>6. Max(TodayToSunday) = NextMonday(Today) - 1
  BY <1>2, <1>3 DEF Max, TodayToSunday
<1>7. Days \subseteq Nat /\ IsFiniteSet(Days)
  <2>1. PICK n \in Int : n = DayOf(MaxTime) + 3 * DaysPerWeek
    BY <1>2, <1>4
  <2>2. Days = 0 .. n
    BY <2>1 DEF Days
  <2>3. 0 \in Int
    OBVIOUS
  <2>. QED
    BY <2>2, <2>3, FS_Interval
<1>. QED
  BY <1>2, <1>3, <1>5, <1>6, <1>7

\* The first of some days is one of them.
LEMMA FirstDay ==
    ASSUME NEW S \in SUBSET Days, S # {}, now \in 0 .. MaxTime
    PROVE  Min(S) \in S
<1>1. S \in SUBSET Nat /\ IsFiniteSet(S)
  BY DaysFit, FS_Subset
<1> DEFINE Before(i) == {j \in S : j < i}
           T == {Before(i) : i \in S}
<1>2. IsWellFoundedOn(StrictSubsetOrdering(S), FiniteSubsetsOf(S))
  BY <1>1, FS_StrictSubsetOrderingWellFounded
<1>3. T \subseteq FiniteSubsetsOf(S) /\ T # {}
  <2>1. T \subseteq SUBSET S /\ T # {}
    OBVIOUS
  <2>. QED
    BY <1>1, <2>1, FS_FiniteSubsetsOfFinite
<1>4. PICK U \in T : \A V \in T : ~ (<<V, U>> \in StrictSubsetOrdering(S))
  <2> HIDE DEF T
  <2>. QED
    BY <1>2, <1>3, WFMin
<1>5. PICK m \in S : U = Before(m)
  OBVIOUS
<1>6. ASSUME NEW i \in S, i < m
      PROVE  FALSE
  <2>1. Before(i) \subseteq Before(m) /\ i \in Before(m) /\ i \notin Before(i)
    <3>1. i < m /\ ~ (i < i) /\ \A j \in S : j < i => j < m
      BY <1>1, <1>6
    <3> HIDE DEF T
    <3>. QED
      BY <3>1
  <2>2. Before(i) \in SUBSET S /\ Before(m) \in SUBSET S
    OBVIOUS
  <2>3. <<Before(i), Before(m)>> \in StrictSubsetOrdering(S)
    <3> HIDE DEF Before, T
    <3>. QED
      BY <2>1, <2>2 DEF StrictSubsetOrdering
  <2>. QED
    BY <1>4, <1>5, <2>3
<1>7. m \in S /\ \A i \in S : m <= i
  BY <1>1, <1>6
<1>. QED
  BY <1>7 DEF Min

\* The loops as TypeOK has them.
LoopType == [phase : {"off", "delay", "wait", "work", "ended"}, due : Nat, todo : SUBSET Days]

\* main and the run as TypeOK has them.
MainType ==
    [phase : {"down", "creating", "up", "cleanup", "drain"}, attempt : 0 .. Attempts,
     todo : SUBSET Days, failed : BOOLEAN]
RunType == [last : Nat, first : Nat, since : Nat]

\* A server that is down.
LEMMA DownFits == Down \in MainType /\ NoRun \in RunType /\ NoLoop \in LoopType
BY Parameters DEF Down, NoRun, NoLoop, MainType, RunType, LoopType

\* One loop moves.
LEMMA LoopAfter ==
    ASSUME TypeOK, NEW l \in Loops, NEW phase \in {"off", "delay", "wait", "work", "ended"},
           NEW due \in Nat, NEW todo \in SUBSET Days, LoopBecomes(l, phase, due, todo)
    PROVE  /\ loop' \in [Loops -> LoopType]
           /\ loop'[l].phase = phase /\ loop'[l].due = due /\ loop'[l].todo = todo
           /\ \A k \in Loops \ {l} : loop'[k] = loop[k]
BY DEF TypeOK, LoopBecomes, LoopType

-----------------------------------------------------------------------------
(***************************************************************************)
(* What a step keeps of the inductive invariant.                           *)
(***************************************************************************)
\* A round of maintenance stays done, while days are created that are not old.
LEMMA GoneByKeeps ==
    ASSUME TypeOK, failures' \in Nat, failures <= failures', run' = run,
           parts' \subseteq Nat, NEW t \in Int, NEW Ds,
           \A d \in parts' \ parts : Midnight(d) >= t, GoneBy(t, Ds)
    PROVE  GoneBy(t, Ds)'
<1>1. /\ Slack(failures) \in Nat /\ Slack(failures') \in Nat
      /\ Slack(failures) <= Slack(failures')
  BY SlackGrows DEF TypeOK
<1>2. \A d \in parts' : Midnight(d) \in Nat
  BY MidnightGrows
<1>3. Retention * TicksPerDay \in Nat /\ MaintenanceDelay \in Nat /\ run.since \in Nat
  BY Parameters DEF TypeOK
<1>. QED
  BY <1>1, <1>2, <1>3 DEF GoneBy

\* Maintenance is not disturbed by a step that leaves its loop alone, and creates only
\* days that are ahead.
LEMMA MaintenanceKeeps ==
    ASSUME IInv, TypeOK', now' = now, run' = run, Running' => Running,
           loop'["maintenance"] = loop["maintenance"], failures <= failures',
           \A d \in parts' \ parts : d > Today
    PROVE  MaintenanceFits'
<1> DEFINE job == loop["maintenance"]
<1>1. /\ now \in Nat /\ Today \in Nat /\ failures' \in Nat /\ parts' \subseteq Nat
      /\ job.due \in Int /\ MaintenanceInterval \in Nat
  BY DaysFit, Parameters DEF IInv, TypeOK, Loops, Today
<1>2. \A d \in parts' \ parts : Midnight(d) \in Nat /\ Midnight(d) > now
  BY <1>1, BeforeMidnight, MidnightGrows DEF Today
<1>3. ASSUME NEW t \in Int, NEW Ds, t <= now, GoneBy(t, Ds)
      PROVE  GoneBy(t, Ds)'
  <2>1. \A d \in parts' \ parts : Midnight(d) >= t
    BY <1>1, <1>2, <1>3
  <2>. QED
    BY <1>1, <1>3, <2>1, GoneByKeeps DEF IInv
<1>4. SUFFICES ASSUME Running'
               PROVE  MaintenanceFits'
  BY DEF MaintenanceFits
<1>5. Running /\ MaintenanceFits /\ TimersFit
  BY <1>4 DEF IInv
<1>6. CASE job.phase = "wait"
  <2>1. job.due - MaintenanceInterval <= now /\ GoneBy(job.due - MaintenanceInterval, {})
    BY <1>5, <1>6 DEF MaintenanceFits
  <2>2. job.due - MaintenanceInterval \in Int
    BY <1>1
  <2> DEFINE t == job.due - MaintenanceInterval
  <2>3. t \in Int /\ t <= now /\ GoneBy(t, {})
    BY <2>1, <2>2
  <2>4. PICK u \in Int : u = t
    BY <2>2
  <2>5. GoneBy(u, {})'
    BY <1>3, <2>3, <2>4
  <2>. QED
    BY <1>6, <2>1, <2>4, <2>5 DEF MaintenanceFits, GoneBy
<1>7. CASE job.phase = "work"
  <2>1. /\ GoneBy(now - MaintenanceInterval, {}) /\ GoneBy(now, job.todo)
        /\ \A d \in job.todo : Midnight(d) < now - Retention * TicksPerDay
    BY <1>5, <1>7 DEF MaintenanceFits
  <2>2. PICK t \in Int, u \in Int, Ds \in {job.todo} :
           t = now - MaintenanceInterval /\ u = now /\ Ds = job.todo
    BY <1>1
  <2>3. t <= now /\ u <= now
    BY <1>1, <2>2
  <2>4. GoneBy(t, {})' /\ GoneBy(u, Ds)'
    BY <1>3, <2>1, <2>2, <2>3
  <2>. QED
    BY <1>7, <2>1, <2>2, <2>4 DEF MaintenanceFits, GoneBy
<1>8. CASE job.phase \notin {"wait", "work"}
  BY <1>5, <1>8 DEF MaintenanceFits
<1>. QED
  BY <1>6, <1>7, <1>8

-----------------------------------------------------------------------------
(***************************************************************************)
(* The steps.                                                              *)
(***************************************************************************)
\* The first state.
LEMMA InitInv == Init => IInv
<1> SUFFICES ASSUME Init PROVE IInv
  OBVIOUS
<1>1. TypeOK
  BY Parameters DEF Init, TypeOK, Down, NoLoop, NoRun
<1>2. TimersFit /\ LoopsFit /\ QuietAfterStop
  BY DEF Init, TimersFit, LoopsFit, QuietAfterStop, Down, NoLoop, Running
<1>3. AheadOfToday /\ MaintenanceFits
  BY DEF Init, AheadOfToday, MaintenanceFits, Down, NoLoop, Running, Loops
<1>. QED
  BY <1>1, <1>2, <1>3 DEF IInv

\* The clock goes on only while no job is at work and no timer has run off.
LEMMA TickKeeps ==
    ASSUME IInv, Tick
    PROVE  IInv'
<1>1. /\ now' = now + 1 /\ now' \in 0 .. MaxTime
      /\ \A l \in Loops : ~ Due(l) /\ loop[l].phase # "work"
      /\ parts' = parts /\ main' = main /\ loop' = loop /\ stopper' = stopper
      /\ runs' = runs /\ failures' = failures /\ missed' = missed /\ run' = run
  BY Parameters DEF Tick, IInv, TypeOK
<1>2. TypeOK'
  BY <1>1 DEF IInv, TypeOK
<1>3. TimersFit'
  BY <1>1 DEF IInv, TypeOK, TimersFit, Due
<1>4. LoopsFit' /\ QuietAfterStop'
  BY <1>1 DEF IInv, LoopsFit, QuietAfterStop, Running
<1>5. AheadOfToday'
  BY <1>1 DEF AheadOfToday, Loops
<1>6. MaintenanceFits'
  BY <1>1, Parameters DEF IInv, TypeOK, MaintenanceFits, Running, GoneBy, Slack, Loops
<1>. QED
  BY <1>2, <1>3, <1>4, <1>5, <1>6 DEF IInv

\* A step of the start.
LEMMA StartKeeps ==
    ASSUME IInv, StartServer \/ CreateFirst \/ Retry
    PROVE  IInv'
<1>1. /\ now \in 0 .. MaxTime /\ UNCHANGED <<now, loop, stopper>>
      /\ ~ Running /\ ~ Running' /\ main'.phase \in {"down", "creating"}
      /\ main.phase \in {"down", "creating"}
  BY DEF IInv, TypeOK, StartServer, CreateFirst, Retry, Attempt, MainBecomes, Down, Running
<1>2. TypeOK'
  <2>1. CASE StartServer
    <3>1. TodayToSunday \in SUBSET Days /\ Max(TodayToSunday) \in Nat
      BY <1>1, DaysFit
    <3>2. main' = [phase |-> "creating", attempt |-> 1, todo |-> TodayToSunday, failed |-> FALSE]
          /\ run' = [last |-> Max(TodayToSunday), first |-> 0, since |-> now]
      BY <2>1 DEF StartServer, Attempt, MainBecomes
    <3>3. runs' \in 0 .. MaxRuns
      BY <2>1, Parameters DEF StartServer, IInv, TypeOK
    <3>. QED
      BY <1>1, <2>1, <3>1, <3>2, <3>3, Parameters DEF StartServer, IInv, TypeOK, Days
  <2>2. CASE CreateFirst
    <3>1. Min(main.todo) \in main.todo /\ main.todo \in SUBSET Days
      BY <1>1, <2>2, FirstDay DEF CreateFirst, IInv, TypeOK
    <3>2. PICK d \in Days, failed \in BOOLEAN :
             /\ main' = [phase |-> "creating", attempt |-> main.attempt, todo |-> main.todo \ {d},
                         failed |-> failed]
             /\ Created(d) \/ CreationFails(d)
             /\ UNCHANGED <<now, loop, stopper, runs, run>>
      BY <2>2, <3>1 DEF CreateFirst, MainBecomes, IInv, TypeOK
    <3>3. /\ parts' \subseteq Days /\ missed' \subseteq Days \ parts'
          /\ failures' \in 0 .. MaxFailures
      BY <3>2, Parameters DEF Created, CreationFails, Fails, IInv, TypeOK
    <3>. QED
      BY <1>1, <3>1, <3>2, <3>3 DEF IInv, TypeOK, Days
  <2>3. CASE Retry
    <3>1. TodayToSunday \in SUBSET Days /\ Max(TodayToSunday) \in Nat
      BY <1>1, DaysFit
    <3>2. \/ /\ main' = [phase |-> "creating", attempt |-> main.attempt + 1,
                         todo |-> TodayToSunday, failed |-> FALSE]
             /\ main.attempt + 1 \in 0 .. Attempts
             /\ run' = [last |-> Max(TodayToSunday), first |-> 0, since |-> run.since]
          \/ main' = Down /\ run' = NoRun
      BY <2>3, Parameters DEF Retry, Attempt, MainBecomes, IInv, TypeOK
    <3>3. main' \in MainType /\ run' \in RunType
      <4>1. run.since \in Nat
        BY DEF IInv, TypeOK
      <4>2. CASE main' = Down /\ run' = NoRun
        BY <4>2, DownFits
      <4>3. CASE ~ (main' = Down /\ run' = NoRun)
        <5>1. PICK n \in 0 .. Attempts, todo \in SUBSET Days, last \in Nat, since \in Nat :
                 /\ main' = [phase |-> "creating", attempt |-> n, todo |-> todo, failed |-> FALSE]
                 /\ run' = [last |-> last, first |-> 0, since |-> since]
          BY <3>1, <3>2, <4>1, <4>3, Zenon
        <5>. QED
          BY <5>1 DEF MainType, RunType
      <4>. QED
        BY <4>2, <4>3
    <3>4. /\ parts' = parts /\ missed' = missed /\ runs' = runs /\ failures' = failures
      BY <2>3 DEF Retry
    <3>. QED
      BY <1>1, <3>3, <3>4 DEF IInv, TypeOK, MainType, RunType
  <2>. QED
    BY <2>1, <2>2, <2>3
<1>3. TimersFit' /\ LoopsFit' /\ QuietAfterStop' /\ AheadOfToday'
  BY <1>1 DEF IInv, TimersFit, LoopsFit, QuietAfterStop, AheadOfToday, Loops, Interval, Running
<1>4. MaintenanceFits'
  BY <1>1 DEF MaintenanceFits
<1>. QED
  BY <1>2, <1>3, <1>4 DEF IInv

\* The worker starts with three timers that run.
LEMMA StartWorkerKeeps ==
    ASSUME IInv, StartWorker
    PROVE  IInv'
<1>1. /\ now \in 0 .. MaxTime /\ now \in Nat /\ Today \in Nat /\ NextMonday(Today) \in Nat
      /\ Today < NextMonday(Today) /\ {TableInterval, MaintenanceDelay} \subseteq Nat
  BY DaysFit, Parameters DEF IInv, TypeOK
<1>2. /\ Midnight(NextMonday(Today)) \in Nat /\ now < Midnight(NextMonday(Today))
  BY <1>1, MidnightGrows, BeforeMidnight DEF Today
<1>3. \A l \in Loops : FirstDue(l) \in Nat /\ FirstDue(l) >= now
  BY <1>1, <1>2 DEF FirstDue
<1>4. NextMonday(DayOf(FirstDue("table") + TableInterval)) \in Nat
  <2>1. FirstDue("table") + TableInterval \in Nat
    BY <1>1, <1>3 DEF Loops
  <2>2. DayOf(FirstDue("table") + TableInterval) \in Nat
    BY <2>1, DayOfIs
  <2>. QED
    BY <2>2, NextMondayIs
<1>5. /\ main' = [phase |-> "up", attempt |-> 0, todo |-> {}, failed |-> FALSE]
      /\ loop' = [l \in Loops |-> [phase |-> "delay", due |-> FirstDue(l), todo |-> {}]]
      /\ run'.since = now /\ run' \in RunType
      /\ now' = now /\ parts' = parts /\ stopper' = stopper /\ runs' = runs
      /\ failures' = failures /\ missed' = missed /\ stopper = "none"
  BY <1>1, <1>4 DEF StartWorker, MainBecomes, RunType, IInv, TypeOK, LoopsFit
<1>6. TypeOK'
  <2>1. main' \in MainType
    BY <1>5, Parameters DEF MainType
  <2>2. loop' \in [Loops -> LoopType]
    BY <1>3, <1>5 DEF LoopType
  <2>. QED
    BY <1>5, <2>1, <2>2 DEF IInv, TypeOK, MainType, LoopType, RunType
<1>7. TimersFit' /\ LoopsFit' /\ QuietAfterStop' /\ AheadOfToday'
  BY <1>3, <1>5 DEF TimersFit, LoopsFit, QuietAfterStop, AheadOfToday, Loops, Running
<1>8. MaintenanceFits'
  BY <1>5 DEF MaintenanceFits, FirstDue, Loops
<1>. QED
  BY <1>6, <1>7, <1>8 DEF IInv

\* Ends of steps that move one loop and nothing else.
LEMMA OneLoopKeeps ==
    ASSUME IInv, NEW l \in Loops, NEW phase \in {"wait", "work", "ended"},
           NEW due \in Nat, NEW todo \in SUBSET Days, LoopBecomes(l, phase, due, todo),
           loop[l].phase # "off", UNCHANGED <<now, main, stopper, run, runs>>,
           parts' \subseteq Days, missed' \subseteq Days \ parts',
           failures' \in 0 .. MaxFailures,
           phase = "wait" => now <= due, phase = "work" => due = now + Interval(l),
           phase = "ended" => main.phase # "up",
           loop[l].phase = "ended" => phase = "ended",
           phase = "work" /\ l = "table" => \A d \in todo : d > Today
    PROVE  TypeOK' /\ TimersFit' /\ LoopsFit' /\ QuietAfterStop' /\ AheadOfToday'
<1>1. /\ loop' \in [Loops -> LoopType]
      /\ loop'[l].phase = phase /\ loop'[l].due = due /\ loop'[l].todo = todo
      /\ \A k \in Loops \ {l} : loop'[k] = loop[k]
  BY LoopAfter DEF IInv
<1>2. /\ now' = now /\ main' = main /\ stopper' = stopper /\ run' = run /\ runs' = runs
  OBVIOUS
<1>3. TypeOK'
  BY <1>1, <1>2 DEF IInv, TypeOK, LoopType
<1>4. TimersFit'
  BY <1>1, <1>2 DEF IInv, TimersFit, Interval
<1>5. LoopsFit' /\ QuietAfterStop'
  BY <1>1, <1>2 DEF IInv, LoopsFit, QuietAfterStop, Running
<1>6. AheadOfToday'
  BY <1>1, <1>2 DEF IInv, AheadOfToday, Loops, Today
<1>. QED
  BY <1>3, <1>4, <1>5, <1>6

\* MaintenanceFits speaks of the loop of maintenance alone.
LEMMA DelayOverKeeps ==
    ASSUME IInv, NEW l \in Loops, DelayOver(l)
    PROVE  IInv'
<1>1. /\ loop[l].phase = "delay" /\ now >= loop[l].due /\ now <= loop[l].due
      /\ now \in Nat /\ Interval(l) \in Nat /\ loop[l].due \in Nat
      /\ LoopBecomes(l, "wait", now + Interval(l), {})
      /\ UNCHANGED <<now, parts, main, stopper, runs, failures, missed, run>>
  BY Parameters DEF DelayOver, Due, IInv, TypeOK, TimersFit, Interval
<1>2. TypeOK' /\ TimersFit' /\ LoopsFit' /\ QuietAfterStop' /\ AheadOfToday'
  <2>1. now + Interval(l) \in Nat /\ now <= now + Interval(l) /\ {} \in SUBSET Days
    BY <1>1
  <2>. QED
    BY <1>1, <2>1, OneLoopKeeps DEF IInv, TypeOK
<1>3. MaintenanceFits'
  <2>1. CASE l # "maintenance"
    <3>1. loop'["maintenance"] = loop["maintenance"]
      BY <1>1, <2>1 DEF LoopBecomes, Loops, IInv, TypeOK
    <3>. QED
      BY <1>1, <1>2, <3>1, MaintenanceKeeps DEF Running, IInv, TypeOK
  <2>2. CASE l = "maintenance"
    <3>1. loop'["maintenance"].phase = "wait"
          /\ loop'["maintenance"].due = now + MaintenanceInterval
      BY <1>1, <2>2 DEF LoopBecomes, IInv, TypeOK, Interval
    <3>2. Running => now = run.since + MaintenanceDelay
      BY <1>1, <2>2 DEF IInv, MaintenanceFits
    <3>3. Slack(failures) \in Nat /\ MaintenanceInterval \in Nat
      BY SlackGrows, Parameters DEF IInv, TypeOK
    <3>4. now' = now /\ main' = main /\ failures' = failures /\ run' = run /\ parts' = parts
      BY <1>1
    <3>. QED
      BY <1>1, <3>1, <3>2, <3>3, <3>4 DEF MaintenanceFits, GoneBy, Running
  <2>. QED
    BY <2>1, <2>2
<1>. QED
  BY <1>2, <1>3 DEF IInv

\* A round begins, of any loop.
LEMMA FireKeeps ==
    ASSUME IInv, NEW l \in Loops, Fire(l)
    PROVE  IInv'
<1>0. /\ loop[l].phase = "wait" /\ now >= loop[l].due
      /\ UNCHANGED <<now, parts, main, stopper, runs, missed, run>>
  BY DEF Fire, Due
<1>1. /\ loop[l].phase = "wait" /\ now = loop[l].due
      /\ now \in Nat /\ Interval(l) \in Nat /\ loop[l].due \in Nat /\ now \in 0 .. MaxTime
      /\ UNCHANGED <<now, parts, main, stopper, runs, missed, run>>
  <2>1. now \in 0 .. MaxTime /\ loop[l].due \in Nat /\ now <= loop[l].due
    BY <1>0 DEF IInv, TypeOK, TimersFit
  <2>2. Interval(l) \in Nat
    BY Parameters DEF Interval
  <2>. QED
    BY <1>0, <2>1, <2>2, Parameters
<1>2. PICK todo \in SUBSET Days :
         /\ LoopBecomes(l, "work", now + Interval(l), todo)
         /\ l = "table" => todo = Week(NextMonday(Today))
         /\ l = "maintenance" =>
               \/ todo = Expired /\ failures' = failures
               \/ todo = {} /\ failures' = failures + 1
         /\ failures' \in 0 .. MaxFailures /\ failures' \in {failures, failures + 1}
  <2>1. Expired \in SUBSET Days /\ Week(NextMonday(Today)) \in SUBSET Days
    BY <1>1, DaysFit DEF Expired, IInv, TypeOK
  <2>2. failures \in 0 .. MaxFailures /\ (Fails => failures' \in 0 .. MaxFailures)
    BY Parameters DEF Fails, IInv, TypeOK
  <2>3. CASE l = "table"
    BY <1>1, <2>1, <2>2, <2>3 DEF Fire
  <2>4. CASE l = "maintenance"
    BY <1>1, <2>1, <2>2, <2>4 DEF Fire, Fails
  <2>5. CASE l = "idempotency"
    BY <1>1, <2>1, <2>2, <2>5 DEF Fire
  <2>. QED
    BY <2>3, <2>4, <2>5 DEF Loops
<1>3. TypeOK' /\ TimersFit' /\ LoopsFit' /\ QuietAfterStop' /\ AheadOfToday'
  <2>1. now + Interval(l) \in Nat
    BY <1>1
  <2>2. l = "table" => \A d \in todo : d > Today
    BY <1>1, <1>2, DaysFit DEF Week
  <2>. QED
    BY <1>1, <1>2, <2>1, <2>2, OneLoopKeeps DEF IInv, TypeOK
<1>4. MaintenanceFits'
  <2>1. CASE l # "maintenance"
    <3>1. loop'["maintenance"] = loop["maintenance"]
      BY <1>2, <2>1 DEF LoopBecomes, Loops, IInv, TypeOK
    <3>. QED
      BY <1>1, <1>2, <1>3, <3>1, MaintenanceKeeps DEF Running, IInv, TypeOK
  <2>2. CASE l = "maintenance"
    <3>1. loop'["maintenance"].phase = "work" /\ loop'["maintenance"].todo = todo
      BY <1>2, <2>2 DEF LoopBecomes, IInv, TypeOK
    <3>2. SUFFICES ASSUME Running'
                   PROVE  MaintenanceFits'
      BY DEF MaintenanceFits
    <3>3. GoneBy(now - MaintenanceInterval, {})
      BY <1>1, <2>2, <3>2 DEF IInv, MaintenanceFits, Running
    <3>4. /\ failures \in Nat /\ MaintenanceInterval \in Nat /\ Retention * TicksPerDay \in Nat
          /\ Slack(failures) \in Nat /\ Slack(failures + 1) = Slack(failures) + MaintenanceInterval
          /\ run.since + MaintenanceDelay \in Nat
      BY SlackGrows, Parameters DEF IInv, TypeOK
    <3>5. \A d \in parts : Midnight(d) \in Nat
      BY <1>1, DaysFit, MidnightGrows DEF IInv, TypeOK
    <3>6. \A d \in todo : Midnight(d) < now - Retention * TicksPerDay
      BY <1>2, <2>2 DEF Expired
    <3>7. GoneBy(now, todo)'
      <4>1. CASE todo = Expired
        BY <1>1, <1>2, <3>4, <3>5, <4>1, SlackGrows DEF GoneBy, Expired
      <4>2. CASE failures' = failures + 1
        BY <1>1, <3>3, <3>4, <3>5, <4>2 DEF GoneBy
      <4>. QED
        BY <1>2, <2>2, <4>1, <4>2
    <3>8. GoneBy(now - MaintenanceInterval, {})'
      BY <1>1, <1>2, <3>3, <3>4, <3>5 DEF GoneBy
    <3>. QED
      BY <1>1, <3>1, <3>6, <3>7, <3>8 DEF MaintenanceFits, GoneBy
  <2>. QED
    BY <2>1, <2>2
<1>. QED
  BY <1>3, <1>4 DEF IInv

\* A round ends, or a loop sees the stop: neither creates or drops.
LEMMA WorkDoneKeeps ==
    ASSUME IInv, NEW l \in Loops, WorkDone(l)
    PROVE  IInv'
<1>1. /\ loop[l].phase = "work" /\ loop[l].todo = {}
      /\ LoopBecomes(l, "wait", loop[l].due, {})
      /\ UNCHANGED <<now, parts, main, stopper, runs, failures, missed, run>>
  BY DEF WorkDone
<1>2. /\ loop[l].due = now + Interval(l) /\ now \in Nat /\ Interval(l) \in Nat
      /\ loop[l].due \in Nat /\ now <= loop[l].due
  BY <1>1, Parameters DEF IInv, TypeOK, TimersFit, Interval
<1>3. TypeOK' /\ TimersFit' /\ LoopsFit' /\ QuietAfterStop' /\ AheadOfToday'
  <2>1. {} \in SUBSET Days
    OBVIOUS
  <2>. QED
    BY <1>1, <1>2, <2>1, OneLoopKeeps DEF IInv, TypeOK
<1>4. MaintenanceFits'
  <2>1. CASE l # "maintenance"
    <3>1. loop'["maintenance"] = loop["maintenance"]
      BY <1>1, <2>1 DEF LoopBecomes, Loops, IInv, TypeOK
    <3>. QED
      BY <1>1, <1>3, <3>1, MaintenanceKeeps DEF Running, IInv, TypeOK
  <2>2. CASE l = "maintenance"
    <3>1. /\ loop'["maintenance"].phase = "wait"
          /\ loop'["maintenance"].due = now + MaintenanceInterval
      BY <1>1, <1>2, <2>2 DEF LoopBecomes, IInv, TypeOK, Interval
    <3>3. Running => GoneBy(now, {})
      BY <1>1, <2>2 DEF IInv, MaintenanceFits
    <3>4. now' = now /\ (Running' => Running)
      BY <1>1 DEF Running
    <3>5. Running => GoneBy(now, {})'
      BY <1>1, <3>3 DEF GoneBy
    <3> DEFINE due == loop["maintenance"].due
    <3>6. due' - MaintenanceInterval = now
      BY <1>2, <3>1, Parameters
    <3>7. Running => GoneBy(due - MaintenanceInterval, {})'
      BY <3>4, <3>5, <3>6 DEF GoneBy
    <3>8. due' - MaintenanceInterval <= now'
      BY <1>2, <3>4, <3>6
    <3>. QED
      BY <3>1, <3>4, <3>7, <3>8 DEF MaintenanceFits
  <2>. QED
    BY <2>1, <2>2
<1>. QED
  BY <1>3, <1>4 DEF IInv

\* A loop sees the stop.
LEMMA EndLoopKeeps ==
    ASSUME IInv, NEW l \in Loops, EndLoop(l)
    PROVE  IInv'
<1>1. /\ loop[l].phase \in {"delay", "wait"} /\ stopper # "none"
      /\ LoopBecomes(l, "ended", 0, {})
      /\ UNCHANGED <<now, parts, main, stopper, runs, failures, missed, run>>
  BY DEF EndLoop
<1>2. main.phase # "up"
  BY <1>1 DEF IInv, LoopsFit
<1>3. TypeOK' /\ TimersFit' /\ LoopsFit' /\ QuietAfterStop' /\ AheadOfToday'
  <2>1. {} \in SUBSET Days /\ 0 \in Nat
    OBVIOUS
  <2>. QED
    BY <1>1, <1>2, <2>1, OneLoopKeeps DEF IInv, TypeOK
<1>4. MaintenanceFits'
  <2>1. CASE l # "maintenance"
    <3>1. loop'["maintenance"] = loop["maintenance"]
      BY <1>1, <2>1 DEF LoopBecomes, Loops, IInv, TypeOK
    <3>. QED
      BY <1>1, <1>3, <3>1, MaintenanceKeeps DEF Running, IInv, TypeOK
  <2>2. CASE l = "maintenance"
    <3>1. loop'["maintenance"].phase = "ended"
      BY <1>1, <2>2 DEF LoopBecomes, IInv, TypeOK
    <3>. QED
      BY <3>1 DEF MaintenanceFits
  <2>. QED
    BY <2>1, <2>2
<1>. QED
  BY <1>3, <1>4 DEF IInv

\* The table loop creates days that are ahead.
LEMMA CreateNextKeeps ==
    ASSUME IInv, CreateNext
    PROVE  IInv'
<1> DEFINE table == loop["table"]
           d == Min(table.todo)
<1>1. /\ table.phase = "work" /\ table.todo # {} /\ "table" \in Loops
      /\ LoopBecomes("table", "work", table.due, table.todo \ {d})
      /\ Created(d) \/ CreationFails(d)
      /\ UNCHANGED <<now, main, stopper, runs, run>>
  BY DEF CreateNext, Left, Loops
<1>2. /\ table.todo \in SUBSET Days /\ table.due \in Nat /\ now \in 0 .. MaxTime
      /\ table.due = now + Interval("table")
  BY <1>1 DEF IInv, TypeOK, TimersFit
<1>3. d \in table.todo /\ d \in Days /\ d > Today
  BY <1>1, <1>2, FirstDay DEF IInv, AheadOfToday
<1> HIDE DEF d
<1>4. /\ parts' \subseteq Days /\ missed' \subseteq Days \ parts' /\ parts' \subseteq parts \cup {d}
      /\ failures' \in 0 .. MaxFailures /\ failures <= failures'
  BY <1>1, <1>3, Parameters DEF Created, CreationFails, Fails, IInv, TypeOK
<1>5. TypeOK' /\ TimersFit' /\ LoopsFit' /\ QuietAfterStop' /\ AheadOfToday'
  <2>1. table.todo \ {d} \in SUBSET Days /\ \A e \in table.todo \ {d} : e > Today
    BY <1>1, <1>2 DEF IInv, AheadOfToday
  <2>. QED
    BY <1>1, <1>2, <1>4, <2>1, OneLoopKeeps
<1>6. MaintenanceFits'
  <2>1. loop'["maintenance"] = loop["maintenance"]
    BY <1>1 DEF LoopBecomes, Loops, IInv, TypeOK
  <2>2. \A e \in parts' \ parts : e > Today
    BY <1>3, <1>4
  <2>3. now' = now /\ run' = run /\ (Running' => Running)
    BY <1>1 DEF Running
  <2>. QED
    BY <1>4, <1>5, <2>1, <2>2, <2>3, MaintenanceKeeps
<1>. QED
  BY <1>5, <1>6 DEF IInv

\* Maintenance drops a day, or fails to, and then has a round more to do it.
LEMMA DropKeeps ==
    ASSUME IInv, NEW d \in parts, Drop(d)
    PROVE  IInv'
<1> DEFINE job == loop["maintenance"]
<1>1. /\ job.phase = "work" /\ d \in job.todo /\ "maintenance" \in Loops
      /\ LoopBecomes("maintenance", "work", job.due, job.todo \ {d})
      /\ \/ parts' = parts \ {d} /\ failures' = failures
         \/ parts' = parts /\ failures' = failures + 1 /\ failures < MaxFailures
      /\ UNCHANGED <<now, main, stopper, runs, missed, run>>
  BY DEF Drop, Left, Loops, Fails
<1>2. /\ job.todo \in SUBSET Days /\ job.due \in Nat /\ now \in Nat
      /\ job.due = now + Interval("maintenance") /\ failures \in Nat
  BY <1>1 DEF IInv, TypeOK, TimersFit
<1>3. TypeOK' /\ TimersFit' /\ LoopsFit' /\ QuietAfterStop' /\ AheadOfToday'
  <2>1. /\ parts' \subseteq Days /\ missed' \subseteq Days \ parts' /\ failures' \in 0 .. MaxFailures
        /\ job.todo \ {d} \in SUBSET Days
    BY <1>1, <1>2, Parameters DEF IInv, TypeOK
  <2>. QED
    BY <1>1, <1>2, <2>1, OneLoopKeeps
<1>4. SUFFICES ASSUME Running'
               PROVE  MaintenanceFits'
  BY <1>3 DEF IInv, MaintenanceFits
<1>5. /\ GoneBy(now - MaintenanceInterval, {}) /\ GoneBy(now, job.todo)
      /\ \A e \in job.todo : Midnight(e) < now - Retention * TicksPerDay
  BY <1>1, <1>4 DEF IInv, MaintenanceFits, Running
<1>6. /\ Slack(failures) \in Nat /\ Slack(failures + 1) = Slack(failures) + MaintenanceInterval
      /\ MaintenanceInterval \in Nat /\ Retention * TicksPerDay \in Nat
      /\ run.since + MaintenanceDelay \in Nat /\ \A e \in parts : Midnight(e) \in Nat
  <2>1. parts \subseteq Nat /\ run.since \in Nat
    BY DaysFit DEF IInv, TypeOK
  <2>2. MaintenanceInterval \in Nat /\ Retention * TicksPerDay \in Nat /\ MaintenanceDelay \in Nat
    BY Parameters
  <2>3. \A e \in parts : Midnight(e) \in Nat
    BY <2>1, MidnightGrows
  <2>4. /\ Slack(failures) \in Nat
        /\ Slack(failures + 1) = Slack(failures) + MaintenanceInterval
    BY <1>2, SlackGrows
  <2>. QED
    BY <2>1, <2>2, <2>3, <2>4
<1>7. loop'["maintenance"].phase = "work" /\ loop'["maintenance"].todo = job.todo \ {d}
  BY <1>1 DEF LoopBecomes, IInv, TypeOK
<1>8. GoneBy(now - MaintenanceInterval, {})'
  BY <1>1, <1>2, <1>5, <1>6 DEF GoneBy
<1> DEFINE left == job.todo
<1>9. GoneBy(now, left)'
  <2>1. CASE parts' = parts \ {d} /\ failures' = failures
    <3>1. parts' \ left' \subseteq parts \ job.todo
      BY <1>1, <1>7, <2>1
    <3>. QED
      BY <1>1, <1>5, <2>1, <3>1 DEF GoneBy
  <2>2. CASE parts' = parts /\ failures' = failures + 1
    BY <1>1, <1>2, <1>5, <1>6, <2>2 DEF GoneBy
  <2>. QED
    BY <1>1, <2>1, <2>2
<1>. QED
  BY <1>1, <1>5, <1>7, <1>8, <1>9 DEF MaintenanceFits

\* The shutdown begins, and main leaves its wait for the stop of the worker.
LEMMA MainGoesKeeps ==
    ASSUME IInv, Signal \/ CleanupDone \/ CleanupTimeout
    PROVE  IInv'
<1>1. /\ UNCHANGED <<now, parts, loop, runs, failures, missed, run>>
      /\ Running /\ stopper' \in {"worker", stopper}
      /\ stopper' = "worker" \/ main.phase # "up"
  BY DEF Signal, CleanupDone, CleanupTimeout, Running
<1>2. PICK phase \in {"cleanup", "drain"} :
         main' = [phase |-> phase, attempt |-> 0, todo |-> {}, failed |-> FALSE]
  BY DEF Signal, CleanupDone, CleanupTimeout, MainGoes, MainBecomes
<1>3. TypeOK'
  <2>1. main' \in MainType
    BY <1>2, Parameters DEF MainType
  <2>. QED
    BY <1>1, <2>1 DEF IInv, TypeOK, MainType
<1>4. TimersFit' /\ LoopsFit' /\ QuietAfterStop' /\ AheadOfToday'
  BY <1>1, <1>2
     DEF IInv, TimersFit, LoopsFit, QuietAfterStop, AheadOfToday, Running, Interval, Today
<1>5. MaintenanceFits'
  BY <1>1, <1>2 DEF IInv, MaintenanceFits, Running, GoneBy
<1>. QED
  BY <1>3, <1>4, <1>5 DEF IInv

\* The worker has stopped, and then the rest.
LEMMA StoppedKeeps ==
    ASSUME IInv, WorkerStopped \/ TokensStopped
    PROVE  IInv'
<1>1. /\ UNCHANGED <<now, parts, main, loop, runs, failures, missed, run>>
      /\ stopper # "none" /\ stopper' \in {"tokens", "done"}
      /\ \A l \in Loops : loop[l].phase = "ended"
  BY DEF WorkerStopped, TokensStopped, IInv, QuietAfterStop
<1>2. TypeOK'
  BY <1>1 DEF IInv, TypeOK
<1>3. TimersFit' /\ LoopsFit' /\ QuietAfterStop' /\ AheadOfToday'
  BY <1>1 DEF IInv, TimersFit, LoopsFit, QuietAfterStop, AheadOfToday, Running, Interval, Today
<1>4. MaintenanceFits'
  BY <1>1 DEF IInv, MaintenanceFits, Running, GoneBy
<1>. QED
  BY <1>2, <1>3, <1>4 DEF IInv

\* The server stops, or is killed.
LEMMA StopsKeeps ==
    ASSUME IInv, Stops
    PROVE  IInv'
<1>1. /\ main' = Down /\ loop' = [l \in Loops |-> NoLoop] /\ stopper' = "none" /\ run' = NoRun
      /\ UNCHANGED <<now, parts, runs, failures, missed>>
  BY DEF Stops
<1>2. TypeOK'
  <2>1. main' \in MainType /\ run' \in RunType /\ loop' \in [Loops -> LoopType]
    BY <1>1, DownFits
  <2>. QED
    BY <1>1, <2>1 DEF IInv, TypeOK, MainType, RunType, LoopType
<1>3. TimersFit' /\ LoopsFit' /\ QuietAfterStop' /\ AheadOfToday' /\ MaintenanceFits'
  BY <1>1 DEF TimersFit, LoopsFit, QuietAfterStop, AheadOfToday, MaintenanceFits,
              Running, Down, NoLoop, Loops
<1>. QED
  BY <1>2, <1>3 DEF IInv

-----------------------------------------------------------------------------
(***************************************************************************)
(* The theorems that hold whatever the intervals of the worker are.        *)
(***************************************************************************)
\* Every step keeps the inductive invariant.
LEMMA NextKeeps == IInv /\ [Next]_vars => IInv'
<1> SUFFICES ASSUME IInv, [Next]_vars
             PROVE  IInv'
  OBVIOUS
<1>1. CASE Next
  <2>1. CASE Tick
    BY <2>1, TickKeeps
  <2>2. CASE StartServer \/ CreateFirst \/ Retry
    BY <2>2, StartKeeps
  <2>3. CASE StartWorker
    BY <2>3, StartWorkerKeeps
  <2>4. CASE \E l \in Loops : DelayOver(l) \/ Fire(l) \/ WorkDone(l) \/ EndLoop(l)
    BY <2>4, DelayOverKeeps, FireKeeps, WorkDoneKeeps, EndLoopKeeps
  <2>5. CASE CreateNext
    BY <2>5, CreateNextKeeps
  <2>6. CASE \E d \in parts : Drop(d)
    BY <2>6, DropKeeps
  <2>7. CASE Signal \/ CleanupDone \/ CleanupTimeout
    BY <2>7, MainGoesKeeps
  <2>8. CASE WorkerStopped \/ TokensStopped
    BY <2>8, StoppedKeeps
  <2>9. CASE Drained \/ Kill
    BY <2>9, StopsKeeps DEF Drained, Kill
  <2>. QED
    BY <1>1, <2>1, <2>2, <2>3, <2>4, <2>5, <2>6, <2>7, <2>8, <2>9 DEF Next
<1>2. CASE UNCHANGED vars
  <2>1. /\ now' = now /\ parts' = parts /\ main' = main /\ loop' = loop /\ stopper' = stopper
        /\ runs' = runs /\ failures' = failures /\ missed' = missed /\ run' = run
    BY <1>2 DEF vars
  <2>2. TypeOK'
    BY <2>1 DEF IInv, TypeOK
  <2>3. TimersFit' /\ LoopsFit' /\ QuietAfterStop' /\ AheadOfToday'
    BY <2>1 DEF IInv, TimersFit, LoopsFit, QuietAfterStop, AheadOfToday, Running, Interval, Today
  <2>4. MaintenanceFits'
    BY <2>1 DEF IInv, MaintenanceFits, Running, GoneBy
  <2>. QED
    BY <2>2, <2>3, <2>4 DEF IInv
<1>. QED
  BY <1>1, <1>2

\* In every state timers are not overdue, loops run just while the server does, and
\* maintenance is as far as its rounds have brought it (worker.go:50, :193).
THEOREM Invariance == Spec => []IInv
BY InitInv, NextKeeps, PTL DEF Spec

\* When the background work counts as stopped, no loop creates or drops any more
\* (worker.go:50, main.go:190).
THEOREM StopIsQuiet == Spec => []QuietAfterStop
<1>1. IInv => QuietAfterStop
  BY DEF IInv
<1>. QED
  BY <1>1, Invariance, PTL

\* While the server is up, no message outlives Retention by more than a round of
\* maintenance and one more for every statement that failed, whatever fails when
\* (worker.go:193).
THEOREM OldMessagesGo == Spec => []OldOnesGo
<1>1. ASSUME IInv
      PROVE  OldOnesGo
  <2> DEFINE rounds == (1 + failures) * MaintenanceInterval
             job == loop["maintenance"]
             t == job.due - MaintenanceInterval
  <2>1. SUFFICES ASSUME main.phase = "up", now >= run.since + MaintenanceDelay + rounds,
                        job.phase = "wait", ~ Due("maintenance")
                 PROVE  \A d \in parts : Midnight(d) >= now - Retention * TicksPerDay - rounds
    BY DEF OldOnesGo
  <2>2. /\ now \in Nat /\ job.due \in Nat /\ failures \in Nat /\ parts \subseteq Nat
        /\ run.since \in Nat /\ "maintenance" \in Loops
    BY <1>1, DaysFit DEF IInv, TypeOK, Loops
  <2>3. now < job.due
    BY <2>1, <2>2 DEF Due
  <2>4. /\ MaintenanceInterval \in Nat /\ MaintenanceDelay \in Nat
        /\ Retention * TicksPerDay \in Nat
    BY Parameters
  <2>5. Slack(failures) \in Nat /\ rounds = Slack(failures) + MaintenanceInterval
    BY <2>2, SlackGrows DEF Slack
  <2>6. GoneBy(t, {})
    BY <1>1, <2>1 DEF IInv, MaintenanceFits, Running
  <2>7. ~ (t - Slack(failures) <= run.since + MaintenanceDelay)
    BY <2>1, <2>2, <2>3, <2>4, <2>5
  <2>8. \A d \in parts : Midnight(d) >= t - Retention * TicksPerDay - Slack(failures)
    BY <2>6, <2>7 DEF GoneBy
  <2>9. \A d \in parts : Midnight(d) \in Nat
    BY <2>2, MidnightGrows
  <2> HIDE DEF rounds
  <2>. QED
    BY <2>2, <2>3, <2>4, <2>5, <2>8, <2>9
<1>. QED
  BY <1>1, Invariance, PTL

\* Only maintenance drops a day, and only one that began longer than Retention ago, so
\* that its messages are older than Retention less the day it spans (worker.go:187).
THEOREM MessagesKept == Spec => KeptForRetention
<1>1. ASSUME IInv, [Next]_vars
      PROVE  \A d \in parts \ parts' :
                Midnight(d + 1) <= now - (Retention - 1) * TicksPerDay
  <2>1. SUFFICES ASSUME NEW d \in parts, d \notin parts'
                 PROVE  Midnight(d + 1) <= now - (Retention - 1) * TicksPerDay
    OBVIOUS
  <2>2. \E e \in parts : Drop(e) /\ parts' = parts \ {e}
    <3>1. ~ (parts \subseteq parts')
      BY <2>1
    <3>. QED
      BY <1>1, <3>1
         DEF Next, vars, Tick, StartServer, CreateFirst, Retry, StartWorker, DelayOver, Fire,
             WorkDone, EndLoop, CreateNext, Drop, Signal, WorkerStopped, TokensStopped,
             CleanupDone, CleanupTimeout, Drained, Kill, Stops, Created, CreationFails
  <2>3. Midnight(d) < now - Retention * TicksPerDay
    <3>1. Drop(d)
      BY <2>1, <2>2
    <3>2. Running
      BY <1>1, <3>1 DEF Drop, IInv, LoopsFit, Loops
    <3>. QED
      BY <1>1, <3>1, <3>2 DEF Drop, IInv, MaintenanceFits
  <2>4. /\ Midnight(d) \in Nat /\ Midnight(d + 1) = Midnight(d) + TicksPerDay
        /\ now \in Nat
    BY <1>1, <2>1, MidnightGrows, DaysFit DEF IInv, TypeOK
  <2>5. (Retention - 1) * TicksPerDay = Retention * TicksPerDay - TicksPerDay
    BY Parameters
  <2>. QED
    BY <2>3, <2>4, <2>5, Parameters
<1>. QED
  BY <1>1, Invariance, PTL DEF Spec, KeptForRetention

-----------------------------------------------------------------------------
(***************************************************************************)
(* The days that have a partition, if the table loop comes round weekly.   *)
(***************************************************************************)
\* What is tried stays tried, but for days that are over.
LEMMA TriedGrows ==
    ASSUME NEW d, Created(d) \/ CreationFails(d)
    PROVE  Tried' = Tried \cup {d}
BY DEF Created, CreationFails, Tried

\* While the server is up, today is covered: the table loop was there, or is still to
\* come after the hole.
LEMMA UpIsCovered ==
    ASSUME IInv, StartCreated, TableFits, main.phase = "up"
    PROVE  Covered
<1> DEFINE table == loop["table"]
<1>1. /\ table.phase \in {"delay", "wait", "work"} /\ table.due \in Nat /\ now \in Nat
      /\ Today \in Nat /\ run.last \in Nat /\ run.first \in Nat
      /\ "table" \in Loops /\ Interval("table") \in Nat /\ TableInterval \in Nat
  BY Parameters, DaysFit DEF IInv, TypeOK, LoopsFit, Running, Loops, Interval
<1>2. now <= table.due
  BY <1>1 DEF IInv, TimersFit
<1>3. DayOf(table.due) \in Nat /\ Today <= DayOf(table.due)
  BY <1>1, <1>2, DayOfIs, DayOfGrows DEF Today
<1>4. NextMonday(DayOf(table.due)) \in Nat /\ Today < NextMonday(DayOf(table.due))
  BY <1>1, <1>3, NextMondayIs
<1>5. CASE Today <= run.last
  BY <1>1, <1>5 DEF StartCreated, Running, Covered
<1>6. CASE run.last < Today /\ Today < run.first
  BY <1>1, <1>6 DEF Covered
<1>7. CASE run.last < Today /\ run.first <= Today /\ table.phase = "delay"
  <2>1. /\ table.due + TableInterval \in Nat
        /\ DayOf(table.due + TableInterval) \in Nat
        /\ DayOf(table.due) <= DayOf(table.due + TableInterval)
    <3>1. PICK s \in Nat, t \in Nat : s = table.due /\ t = table.due + TableInterval /\ s <= t
      BY <1>1
    <3>. QED
      BY <3>1, DayOfIs, DayOfGrows
  <2>2. Today < run.first
    BY <1>1, <1>3, <1>7, <2>1, NextMondayIs DEF TableFits, Running
  <2>. QED
    BY <1>1, <1>7, <2>2
<1>8. CASE run.last < Today /\ run.first <= Today /\ table.phase # "delay"
  <2>1. Today \in run.first .. NextMonday(DayOf(table.due)) - 1 /\ Today <= Today
    BY <1>1, <1>4, <1>8
  <2>2. Today \notin table.todo \/ table.phase # "work"
    BY <1>1 DEF IInv, AheadOfToday
  <2>3. Today \in Tried
    BY <1>1, <1>8, <2>1, <2>2 DEF TableFits, Running
  <2>. QED
    BY <1>8, <2>3 DEF Covered, Tried
<1>. QED
  BY <1>1, <1>5, <1>6, <1>7, <1>8

\* A step within a day of a server that runs, that drops only days that are over.
LEMMA CoverKeeps ==
    ASSUME IInv, CoverInv, now' = now, run' = run, Running, Running',
           main'.phase = "up" => main.phase = "up",
           \A d \in Tried : Today <= d => d \in Tried',
           \A d \in parts : Today <= d => d \in parts'
    PROVE  /\ StartFits' /\ StartCreated' /\ Covered' /\ HoleBound'
           /\ loop'["table"] = loop["table"] => TableFits'
<1>1. Today' = Today /\ Today \in Nat
  BY DaysFit DEF Today, IInv, TypeOK
<1>2. StartFits' /\ HoleBound'
  BY DEF CoverInv, StartFits, HoleBound, Running
<1>3. StartCreated'
  BY <1>1 DEF CoverInv, StartCreated
<1>4. Covered'
  <2>1. Tried = parts \cup missed /\ Tried' = parts' \cup missed'
    BY DEF Tried
  <2>. QED
    BY <1>1, <2>1 DEF CoverInv, Covered, Running, Today
<1>5. ASSUME loop'["table"] = loop["table"]
      PROVE  TableFits'
  BY <1>1, <1>5 DEF CoverInv, TableFits
<1>. QED
  BY <1>2, <1>3, <1>4, <1>5

\* The clock goes on while the server is up, or once while it starts.
LEMMA TickCovers ==
    ASSUME IInv, CoverInv, Tick
    PROVE  CoverInv'
<1>1. /\ now' = now + 1 /\ now \in Nat /\ now' \in Nat
      /\ main.phase \in {"down", "creating", "up"}
      /\ main.phase = "creating" => now = run.since
      /\ loop["table"].phase # "work"
      /\ parts' = parts /\ main' = main /\ loop' = loop /\ missed' = missed /\ run' = run
  <2>1. now \in Nat
    BY Parameters DEF IInv, TypeOK
  <2>. QED
    BY <2>1 DEF Tick, Loops
<1>2. Today \in Nat /\ Today' \in Nat /\ Today <= Today' /\ Tried' = Tried
  <2>1. PICK n \in Nat : n = now' /\ now <= n
    BY <1>1
  <2>2. DayOf(now) \in Nat /\ DayOf(n) \in Nat /\ DayOf(now) <= DayOf(n)
    BY <1>1, <2>1, DayOfIs, DayOfGrows
  <2>. QED
    BY <1>1, <2>1, <2>2 DEF Today, Tried
<1>3. StartFits'
  BY <1>1, <1>2 DEF CoverInv, StartFits, IInv, TypeOK
<1>4. StartCreated'
  BY <1>1, <1>2 DEF CoverInv, StartCreated, Running, IInv, TypeOK
<1>5. TableFits'
  BY <1>1, <1>2 DEF CoverInv, TableFits, Running, IInv, TypeOK
<1>6. HoleBound'
  BY <1>1 DEF CoverInv, HoleBound
<1>7. Covered'
  <2>1. IInv'
    BY TickKeeps
  <2>2. CASE main.phase = "up"
    <3>1. (main.phase = "up")'
      BY <1>1, <2>2
    <3>. QED
      BY <1>4, <1>5, <2>1, <3>1, UpIsCovered, PTL
  <2>3. CASE main.phase # "up"
    BY <1>1, <2>3 DEF Covered
  <2>. QED
    BY <2>2, <2>3
<1>. QED
  BY <1>3, <1>4, <1>5, <1>6, <1>7 DEF CoverInv

\* The start tries the days from that of its attempt on.
LEMMA StartCovers ==
    ASSUME IInv, CoverInv, StartServer \/ CreateFirst \/ Retry
    PROVE  CoverInv'
<1>1. /\ now' = now /\ now \in Nat /\ now \in 0 .. MaxTime /\ run.since \in Nat
      /\ ~ Running' /\ main'.phase \in {"down", "creating"}
  BY Parameters DEF IInv, TypeOK, StartServer, CreateFirst, Retry, Attempt, MainBecomes, Down,
                    Running
<1>2. Today' = Today /\ TodayToSunday = Today .. NextMonday(Today) - 1
      /\ Max(TodayToSunday) = NextMonday(Today) - 1
  BY <1>1, DaysFit DEF Today, TodayToSunday
<1>3. ASSUME NEW since \in Nat, since <= now, now <= since + 1,
             main'.todo = TodayToSunday, run'.since = since, run'.last = Max(TodayToSunday)
      PROVE  StartFits'
  <2>1. now \in since .. now /\ run'.last = NextMonday(DayOf(now)) - 1
    BY <1>1, <1>2, <1>3 DEF Today
  <2>2. \A d \in (Today .. run.last)' : d \in main'.todo
    BY <1>2, <1>3
  <2>. QED
    BY <1>1, <1>3, <2>1, <2>2 DEF StartFits
<1>4. StartFits'
  <2>1. CASE StartServer
    <3>1. main'.todo = TodayToSunday /\ run'.since = now /\ run'.last = Max(TodayToSunday)
      BY <2>1 DEF StartServer, Attempt, MainBecomes
    <3>. QED
      BY <1>1, <1>3, <3>1
  <2>2. CASE Retry /\ main'.phase = "creating"
    <3>1. main'.todo = TodayToSunday /\ run'.since = run.since /\ run'.last = Max(TodayToSunday)
      BY <2>2 DEF Retry, Attempt, MainBecomes, Down
    <3>2. run.since <= now /\ now <= run.since + 1
      BY <1>1, <2>2 DEF Retry, CoverInv, StartFits
    <3>. QED
      BY <1>1, <1>3, <3>1, <3>2
  <2>3. CASE CreateFirst
    <3>1. PICK d : /\ main'.todo = main.todo \ {d} /\ run' = run /\ main.phase = "creating"
                   /\ \/ Created(d) /\ main'.failed = main.failed
                      \/ main'.failed
      BY <2>3 DEF CreateFirst, MainBecomes
    <3>2. ~ main'.failed => parts' = parts \cup {d} /\ ~ main.failed
      BY <3>1 DEF Created
    <3>. QED
      BY <1>1, <1>2, <3>1, <3>2 DEF CoverInv, StartFits
  <2>. QED
    BY <1>1, <2>1, <2>2, <2>3 DEF StartFits
<1>5. StartCreated' /\ TableFits' /\ Covered' /\ HoleBound'
  BY <1>1 DEF StartCreated, TableFits, Covered, HoleBound, Running
<1>. QED
  BY <1>4, <1>5 DEF CoverInv

\* The worker starts when the days of the start are tried; its table loop comes round
\* on Monday, sets its ticker, and creates at the tick after.
LEMMA StartWorkerCovers ==
    ASSUME IInv, CoverInv, StartWorker, AtMostWeekly
    PROVE  CoverInv'
<1>1. /\ now' = now /\ now \in Nat /\ now \in 0 .. MaxTime /\ Tried' = Tried
      /\ main.phase = "creating" /\ main.todo = {} /\ ~ main.failed /\ main'.phase = "up"
      /\ parts' = parts
      /\ run \in RunType
      /\ run' = [run EXCEPT !.first = NextMonday(DayOf(FirstDue("table") + TableInterval)),
                            !.since = now]
      /\ loop'["table"].phase = "delay" /\ loop'["table"].due = FirstDue("table")
  BY Parameters DEF StartWorker, MainBecomes, IInv, TypeOK, RunType, Loops, Tried
<1>2. /\ Today' = Today /\ Today \in Nat /\ NextMonday(Today) \in Nat
      /\ DaysPerWeek \in Nat \ {0} /\ TableInterval \in Nat /\ Today < NextMonday(Today)
  BY <1>1, DaysFit, Parameters DEF Today
<1>3. /\ run'.last = run.last /\ run'.since = now /\ run.since \in Nat
      /\ run'.first = NextMonday(DayOf(Midnight(NextMonday(Today)) + TableInterval))
  BY <1>1 DEF RunType, FirstDue
<1>4. StartFits' /\ StartCreated'
  BY <1>1, <1>2, <1>3 DEF CoverInv, StartFits, StartCreated
<1>5. TableFits'
  BY <1>1, <1>3 DEF TableFits, FirstDue
<1>6. HoleBound'
  <2>1. PICK t \in run.since .. now : run.last = NextMonday(DayOf(t)) - 1
    BY <1>1 DEF CoverInv, StartFits
  <2>2. t \in Nat /\ t <= now /\ now <= t + 1
    BY <1>1, <1>3, <2>1 DEF CoverInv, StartFits
  <2> DEFINE monday == NextMonday(Today)
             round == Midnight(monday) + TableInterval
             first == DayOf(t)
  <2>3. first \in Nat /\ first <= Today /\ Today <= first + 1
    BY <1>1, <1>2, <2>2, DayOfIs, DayOfGrows DEF Today
  <2>4. /\ NextMonday(first) \in Nat /\ first < NextMonday(first)
        /\ \A e \in first .. NextMonday(first) - 1 : NextMonday(e) = NextMonday(first)
        /\ monday <= NextMonday(first) + DaysPerWeek
    <3>1. Today <= first + DaysPerWeek
      BY <1>2, <2>3
    <3> HIDE DEF first
    <3>2. monday <= NextMonday(first) + DaysPerWeek
      BY <1>2, <2>3, <3>1, NextMondayGrows
    <3>. QED
      BY <2>3, <3>2, NextMondayIs
  <2>5. DayOf(round) \in Nat /\ DayOf(round) <= monday + DaysPerWeek
    <3>1. monday \in Nat /\ Midnight(monday) \in Nat
      BY <1>2, MidnightGrows
    <3>2. PICK s \in Nat, n \in Nat : s = Midnight(monday) /\ n = round /\ s <= n
      BY <1>2, <3>1
    <3>3. n <= s + Midnight(DaysPerWeek)
      BY <1>2, <3>1, <3>2, MidnightGrows DEF AtMostWeekly
    <3>4. DayOf(n) \in Nat /\ DayOf(n) <= DayOf(s) + DaysPerWeek
      BY <1>2, <3>2, <3>3, DayOfIs, DayOfGrows
    <3>5. DayOf(s) = monday
      BY <3>1, <3>2, DayOfMidnight
    <3>. QED
      BY <3>2, <3>4, <3>5
  <2>6. monday \in Nat /\ NextMonday(monday) = monday + DaysPerWeek
    BY <1>2, NextMondayIs
  <2>7. NextMonday(DayOf(round)) \in Nat /\ NextMonday(DayOf(round)) <= monday + 2 * DaysPerWeek
    <3>1. PICK m \in Nat : m = DayOf(round) /\ m <= monday + DaysPerWeek
      BY <2>5
    <3>2. NextMonday(m) \in Nat /\ NextMonday(m) <= m + DaysPerWeek
      BY <3>1, NextMondayIs
    <3>3. NextMonday(m) <= NextMonday(monday) + DaysPerWeek
      <4>1. CASE m <= monday
        BY <1>2, <2>6, <3>1, <3>2, <4>1
      <4>2. CASE monday <= m
        BY <1>2, <2>6, <3>1, <4>2, NextMondayGrows
      <4>. QED
        BY <2>6, <3>1, <4>1, <4>2
    <3>. QED
      BY <1>2, <2>6, <3>1, <3>2, <3>3
  <2>8. DayOf(run'.since) = Today
    BY <1>3 DEF Today
  <2>9. CASE Today <= run.last
    <3>1. monday = NextMonday(first)
      BY <1>2, <2>1, <2>3, <2>4, <2>9
    <3>. QED
      BY <1>2, <1>3, <2>1, <2>4, <2>6, <2>7, <2>8, <2>9, <3>1 DEF HoleBound
  <2>10. CASE ~ (Today <= run.last)
    BY <1>2, <1>3, <2>1, <2>4, <2>6, <2>7, <2>8, <2>10 DEF HoleBound
  <2>. QED
    BY <2>9, <2>10
<1>7. Covered'
  <2>1. IInv'
    BY StartWorkerKeeps
  <2>2. (main.phase = "up")'
    BY <1>1
  <2>. QED
    BY <1>4, <1>5, <2>1, <2>2, UpIsCovered, PTL
<1>. QED
  BY <1>4, <1>5, <1>6, <1>7 DEF CoverInv

\* A step of one loop that creates and drops nothing: what it does to the table loop.
LEMMA LoopCovers ==
    ASSUME IInv, CoverInv, AtMostWeekly, NEW l \in Loops,
           DelayOver(l) \/ Fire(l) \/ WorkDone(l) \/ EndLoop(l)
    PROVE  CoverInv'
<1> DEFINE table == loop["table"]
           due == table.due
<1>1. /\ now' = now /\ run' = run /\ main' = main /\ parts' = parts /\ missed' = missed
      /\ loop[l].phase \in {"delay", "wait", "work"}
  BY DEF DelayOver, Fire, WorkDone, EndLoop
<1>2. Running /\ Running' /\ Tried' = Tried
  BY <1>1 DEF IInv, LoopsFit, Running, Tried
<1>3. /\ StartFits' /\ StartCreated' /\ Covered' /\ HoleBound'
      /\ loop'["table"] = loop["table"] => TableFits'
  BY <1>1, <1>2, CoverKeeps
<1>4. CASE l # "table"
  <2>1. loop'["table"] = loop["table"]
    <3>1. \E phase, d, todo : LoopBecomes(l, phase, d, todo)
      BY <1>4 DEF DelayOver, Fire, WorkDone, EndLoop
    <3>. QED
      BY <1>4, <3>1 DEF LoopBecomes, IInv, TypeOK, Loops
  <2>. QED
    BY <1>3, <2>1 DEF CoverInv
<1>5. CASE l = "table"
  <2>1. /\ due \in Nat /\ now \in Nat /\ now \in 0 .. MaxTime /\ TableInterval \in Nat
        /\ Interval(l) = TableInterval
    BY <1>5, Parameters DEF IInv, TypeOK, Interval
  <2>2. table.phase \in {"delay", "wait"} => now <= due
    BY <1>5 DEF IInv, TimersFit
  <2>3. Today' = Today /\ Today \in Nat
    BY <1>1, <2>1, DaysFit DEF Today
  <2>5. CASE DelayOver(l)
    <3>1. /\ table.phase = "delay" /\ now = due
          /\ LoopBecomes(l, "wait", now + TableInterval, {})
      BY <1>5, <2>1, <2>2, <2>5 DEF DelayOver, Due
    <3>2. loop'["table"].phase = "wait" /\ loop'["table"].due = now + TableInterval
      BY <1>5, <3>1 DEF LoopBecomes, IInv, TypeOK
    <3>3. run.first = NextMonday(DayOf(now + TableInterval))
      BY <1>2, <3>1 DEF CoverInv, TableFits
    <3>4. run.first \in Nat
      BY DEF IInv, TypeOK
    <3>5. run.first .. NextMonday(DayOf(now + TableInterval)) - 1 = {}
      BY <3>3, <3>4
    <3>. QED
      BY <1>1, <1>3, <3>2, <3>5 DEF CoverInv, TableFits
  <2>6. CASE Fire(l)
    <3>1. /\ table.phase = "wait" /\ now = due
          /\ LoopBecomes(l, "work", due + TableInterval, Week(NextMonday(Today)))
      BY <1>5, <2>1, <2>2, <2>6 DEF Fire, Due
    <3>2. /\ loop'["table"].phase = "work" /\ loop'["table"].due = now + TableInterval
          /\ loop'["table"].todo = Week(NextMonday(Today))
      BY <1>5, <3>1 DEF LoopBecomes, IInv, TypeOK
    <3>3. \A d \in run.first .. NextMonday(Today) - 1 : Today <= d => d \in Tried
      BY <1>2, <3>1 DEF CoverInv, TableFits, Today
    <3>4. NextMonday(DayOf(now + TableInterval)) <= NextMonday(Today) + DaysPerWeek
          /\ NextMonday(DayOf(now + TableInterval)) \in Nat
      <4>1. PICK n \in Nat : n = now + TableInterval /\ now <= n
        BY <2>1
      <4>2. DaysPerWeek \in Nat /\ Midnight(DaysPerWeek) \in Nat
        BY Parameters, MidnightGrows
      <4>3. n <= now + Midnight(DaysPerWeek)
        BY <2>1, <4>1, <4>2 DEF AtMostWeekly
      <4>4. DayOf(n) \in Nat /\ DayOf(now) <= DayOf(n) /\ DayOf(n) <= DayOf(now) + DaysPerWeek
        BY <2>1, <4>1, <4>2, <4>3, DayOfIs, DayOfGrows
      <4>. QED
        BY <2>3, <4>1, <4>4, NextMondayIs, NextMondayGrows DEF Today
    <3>5. \A d \in run.first .. NextMonday(DayOf(now + TableInterval)) - 1 :
             Today <= d => d \in Tried \cup Week(NextMonday(Today))
      <4>1. NextMonday(Today) \in Nat /\ run.first \in Nat /\ DaysPerWeek \in Nat
        BY <2>1, DaysFit, Parameters DEF IInv, TypeOK
      <4>. QED
        BY <3>3, <3>4, <4>1 DEF Week
    <3>. QED
      BY <1>1, <1>2, <1>3, <2>3, <3>2, <3>5 DEF CoverInv, TableFits
  <2>7. CASE WorkDone(l)
    <3>1. /\ table.phase = "work" /\ table.todo = {} /\ LoopBecomes(l, "wait", due, {})
      BY <1>5, <2>7 DEF WorkDone
    <3>2. loop'["table"].phase = "wait" /\ loop'["table"].due = due
      BY <1>5, <3>1 DEF LoopBecomes, IInv, TypeOK
    <3>. QED
      BY <1>1, <1>2, <1>3, <2>3, <3>1, <3>2 DEF CoverInv, TableFits
  <2>8. CASE EndLoop(l)
    <3>1. loop'["table"].phase = "ended"
      BY <1>5, <2>8 DEF EndLoop, LoopBecomes, IInv, TypeOK
    <3>. QED
      BY <1>3, <3>1 DEF CoverInv, TableFits
  <2>. QED
    BY <2>5, <2>6, <2>7, <2>8
<1>. QED
  BY <1>4, <1>5

\* The table loop creates a day of its round.
LEMMA CreateNextCovers ==
    ASSUME IInv, CoverInv, CreateNext
    PROVE  CoverInv'
<1> DEFINE table == loop["table"]
<1>1. PICK d : /\ table.phase = "work" /\ (Created(d) \/ CreationFails(d))
               /\ LoopBecomes("table", "work", table.due, table.todo \ {d})
               /\ now' = now /\ run' = run /\ main' = main
  BY DEF CreateNext, Left
<1>2. Running /\ Running'
  BY <1>1 DEF IInv, LoopsFit, Running, Loops
<1>3. Tried' = Tried \cup {d} /\ parts \subseteq parts'
  BY <1>1, TriedGrows DEF Created, CreationFails
<1>4. StartFits' /\ StartCreated' /\ Covered' /\ HoleBound'
  BY <1>1, <1>2, <1>3, CoverKeeps
<1>5. /\ loop'["table"].phase = "work" /\ loop'["table"].due = table.due
      /\ loop'["table"].todo = table.todo \ {d}
  BY <1>1 DEF LoopBecomes, IInv, TypeOK, Loops
<1>6. TableFits'
  <2>1. Today' = Today
    BY <1>1 DEF Today
  <2>. QED
    BY <1>1, <1>2, <1>3, <1>5, <2>1 DEF CoverInv, TableFits
<1>. QED
  BY <1>4, <1>6 DEF CoverInv

\* Maintenance drops days that are over.
LEMMA DropCovers ==
    ASSUME IInv, CoverInv, NEW d \in parts, Drop(d)
    PROVE  CoverInv'
<1>1. /\ now' = now /\ run' = run /\ main' = main /\ missed' = missed
      /\ parts \ {d} \subseteq parts' /\ loop["maintenance"].phase = "work"
      /\ d \in loop["maintenance"].todo /\ loop'["table"] = loop["table"]
  BY DEF Drop, Left, LoopBecomes, IInv, TypeOK, Loops
<1>2. Running /\ Running'
  BY <1>1 DEF IInv, LoopsFit, Running, Loops
<1>3. ~ (Today <= d)
  <2>1. Midnight(d) < now - Retention * TicksPerDay
    BY <1>1, <1>2 DEF IInv, MaintenanceFits
  <2>2. /\ d \in Nat /\ now \in Nat /\ Midnight(d) \in Nat /\ Midnight(d + 1) \in Nat
        /\ Midnight(d + 1) = Midnight(d) + TicksPerDay /\ Today \in Nat
    BY DaysFit, MidnightGrows DEF IInv, TypeOK
  <2>3. TicksPerDay <= Retention * TicksPerDay /\ Retention * TicksPerDay \in Nat
        /\ TicksPerDay \in Nat
    <3>1. 0 \in Nat /\ Retention \in Nat /\ TicksPerDay \in Nat /\ 0 < Retention
      BY Parameters
    <3>2. 0 * TicksPerDay = 0
      BY <3>1
    <3>. QED
      BY <3>1, <3>2, ProductGrows
  <2>4. Midnight(d + 1) <= now /\ d + 1 \in Nat
    BY <2>1, <2>2, <2>3
  <2>5. ~ (DayOf(now) < d + 1)
    BY <2>2, <2>4, BeforeMidnight
  <2>. QED
    BY <2>2, <2>5 DEF Today
<1>4. /\ \A e \in Tried : Today <= e => e \in Tried'
      /\ \A e \in parts : Today <= e => e \in parts'
  BY <1>1, <1>3 DEF Tried
<1>. QED
  BY <1>1, <1>2, <1>4, CoverKeeps DEF CoverInv

\* The shutdown, and the end.
LEMMA ShutdownCovers ==
    ASSUME IInv, CoverInv,
           \/ Signal \/ CleanupDone \/ CleanupTimeout
           \/ WorkerStopped \/ TokensStopped \/ Drained \/ Kill
    PROVE  CoverInv'
<1>1. CASE Signal \/ CleanupDone \/ CleanupTimeout
  <2>1. /\ now' = now /\ run' = run /\ loop' = loop /\ parts' = parts /\ missed' = missed
        /\ Running /\ Running' /\ main'.phase # "up"
    BY <1>1 DEF Signal, CleanupDone, CleanupTimeout, MainGoes, MainBecomes, Running
  <2>2. Tried' = Tried
    BY <2>1 DEF Tried
  <2>. QED
    BY <2>1, <2>2, CoverKeeps DEF CoverInv
<1>2. CASE WorkerStopped \/ TokensStopped
  <2>1. /\ now' = now /\ run' = run /\ loop' = loop /\ parts' = parts /\ missed' = missed
        /\ main' = main
    BY <1>2 DEF WorkerStopped, TokensStopped
  <2>. QED
    BY <2>1 DEF CoverInv, StartFits, StartCreated, TableFits, Covered, HoleBound, Running, Today,
                Tried
<1>3. CASE Drained \/ Kill
  <2>1. main' = Down
    BY <1>3 DEF Drained, Kill, Stops
  <2>. QED
    BY <2>1 DEF CoverInv, StartFits, StartCreated, TableFits, Covered, HoleBound, Running, Down
<1>. QED
  BY <1>1, <1>2, <1>3

\* While the server is up messages of today can be stored, but for the one hole of at
\* most three weeks and for days the table loop failed to create, if that loop comes
\* round once a week at least, as by default (main.go:156, :169, worker.go:56, :120).
THEOREM DaysCovered ==
    ASSUME AtMostWeekly
    PROVE  Spec => []Inv
<1>1. Init => CoverInv
  BY DEF Init, CoverInv, StartFits, StartCreated, TableFits, Covered, HoleBound, Running, Down
<1>2. ASSUME IInv, CoverInv, [Next]_vars
      PROVE  CoverInv'
  <2>1. CASE Tick
    BY <1>2, <2>1, TickCovers
  <2>2. CASE StartServer \/ CreateFirst \/ Retry
    BY <1>2, <2>2, StartCovers
  <2>3. CASE StartWorker
    BY <1>2, <2>3, StartWorkerCovers
  <2>4. CASE \E l \in Loops : DelayOver(l) \/ Fire(l) \/ WorkDone(l) \/ EndLoop(l)
    BY <1>2, <2>4, LoopCovers
  <2>5. CASE CreateNext
    BY <1>2, <2>5, CreateNextCovers
  <2>6. CASE \E d \in parts : Drop(d)
    BY <1>2, <2>6, DropCovers
  <2>7. CASE \/ Signal \/ CleanupDone \/ CleanupTimeout
             \/ WorkerStopped \/ TokensStopped \/ Drained \/ Kill
    BY <1>2, <2>7, ShutdownCovers
  <2>8. CASE UNCHANGED vars
    <3>1. /\ now' = now /\ run' = run /\ loop' = loop /\ parts' = parts /\ missed' = missed
          /\ main' = main
      BY <2>8 DEF vars
    <3>. QED
      BY <1>2, <3>1 DEF CoverInv, StartFits, StartCreated, TableFits, Covered, HoleBound, Running,
                        Today, Tried
  <2>. QED
    BY <1>2, <2>1, <2>2, <2>3, <2>4, <2>5, <2>6, <2>7, <2>8 DEF Next
<1>3. IInv /\ CoverInv => Inv
  BY DEF IInv, CoverInv, Inv
<1>. QED
  BY <1>1, <1>2, <1>3, Invariance, PTL DEF Spec

===============================================================================
