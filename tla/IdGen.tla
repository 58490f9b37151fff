-------------------------------- MODULE IdGen --------------------------------
(***************************************************************************)
(* The segment-based identifier generator of idgen.go, on several servers  *)
(* that share the id_generator_state table (store.go, IdGeneratorState-    *)
(* Store).  A server reserves a segment of identifiers in a transaction    *)
(* that locks the first row of the table and moves its last_ts forward,    *)
(* then hands the segment out from memory, under g.mu, one identifier at a *)
(* time.  When the segment runs low a goroutine prefetches the next one;   *)
(* when it has run out the callers fetch synchronously, several of them at *)
(* once if they find the list empty together.                              *)
(*                                                                         *)
(* One step is one critical section of g.mu or one statement on the        *)
(* database.  Transactions fail, commit without the caller learning of it, *)
(* and die with their server.                                              *)
(***************************************************************************)
EXTENDS Integers, Sequences, FiniteSets

CONSTANTS
    Nodes,              \* the server processes
    Callers,            \* the request goroutines of each that call GenerateID
    Main, Prefetch,     \* the goroutine of main(), and the one of a prefetch
    NodeID,             \* cfg.NodeID of each server
    NumNodeIDs,         \* vfMaxNodeID + 1   (2^5 in the code)
    NumSequences,       \* vfMaxSequence + 1 (2^17 in the code)
    SegmentDurationMs,  \* cfg.SegmentDurationMs
    SegmentSize,        \* cfg.SegmentSize
    FreshDB,            \* does the first server meet an empty state table?
    Initialisers,       \* the servers that may be started before it has a row;
                        \* the others are started when it has one
    LastTs0,            \* last_ts of the row it finds otherwise
    Legacy,             \* ids of the messages stored before the first start
    MaxMessageID,       \* the largest of them, 0 if there is none
    Clock,              \* what time.Now().UnixMilli() may answer
    MaxCalls,           \* bound: calls of GenerateID in a behaviour
    MaxCrashes          \* bound: process deaths in a behaviour

Threads == Callers \cup {Main, Prefetch}

(***************************************************************************)
(* The layout of an identifier: ts << 22 | node << 17 | seq.               *)
(***************************************************************************)
MkID(ts, node, seq) == (ts * NumNodeIDs + node) * NumSequences + seq
FirstID(ts) == MkID(ts, 0, 0)
ExtractTimestamp(id) == id \div (NumNodeIDs * NumSequences)

ASSUME ConstantsAssumption ==
    /\ Main # Prefetch /\ Main \notin Callers /\ Prefetch \notin Callers
    /\ NumNodeIDs \in Nat \ {0} /\ NumSequences \in Nat \ {0}
    /\ NodeID \in [Nodes -> 0 .. NumNodeIDs - 1]
    /\ SegmentDurationMs \in Nat /\ SegmentSize \in Nat
    /\ Initialisers \subseteq Nodes
    /\ FreshDB \in BOOLEAN /\ LastTs0 \in Nat /\ Clock \subseteq Nat
    /\ IsFiniteSet(Legacy) /\ Legacy \subseteq 1 .. FirstID(LastTs0 + 1) - 1
    /\ IF Legacy = {} THEN MaxMessageID = 0
       ELSE MaxMessageID \in Legacy /\ \A id \in Legacy : id <= MaxMessageID
    /\ MaxCalls \in Nat /\ MaxCrashes \in Nat

VARIABLES
    rows,      \* committed rows of id_generator_state: their id -> last_ts
    nextRow,   \* the BIGSERIAL behind the ids of those rows
    segments,  \* g.segments of each server
    th,        \* each goroutine: where it stands, and what it carries
    issued,    \* history: the identifiers handed out
    handed,    \* history: how many times one was handed out
    calls, crashes

vars == <<rows, nextRow, segments, th, issued, handed, calls, crashes>>
history == <<issued, handed>>

\* A segment in memory: current (the last id taken) and EndID.
NoSeg == [cur |-> 0, end |-> 0]

\* A goroutine at a place in the code, carrying nothing, a row it read or is
\* inserting, or a segment it reserved.
Carry(label, row, ts, seg) == [pc |-> label, row |-> row, ts |-> ts, seg |-> seg]
At(label) == Carry(label, 0, 0, NoSeg)

NewSegment(n, startTs) ==
    [cur |-> MkID(startTs, NodeID[n], 0) - 1,
     end |-> MkID(startTs + SegmentDurationMs, NodeID[n], NumSequences - 1)]

Ready(n) == th[n][Main].pc = "done"          \* initDone is closed

Goto(n, t, label) == th' = [th EXCEPT ![n][t] = At(label)]

Init ==
    /\ rows = [r \in (IF FreshDB THEN {} ELSE {1}) |-> LastTs0]
    /\ nextRow = IF FreshDB THEN 1 ELSE 2
    /\ segments = [n \in Nodes |-> <<>>]
    /\ th = [n \in Nodes |-> [t \in Threads |->
                At(IF t = Main THEN "boot" ELSE "idle")]]
    /\ issued = Legacy /\ handed = 0
    /\ calls = 0 /\ crashes = 0

-----------------------------------------------------------------------------
(***************************************************************************)
(* Init: initFromDB, then the first segment.  Every failure is os.Exit(1), *)
(* the Crash below.                                                        *)
(***************************************************************************)
\* ORDER BY id LIMIT 1
FirstRow == CHOOSE r \in DOMAIN rows : \A s \in DOMAIN rows : r <= s

FoundState(n) ==
    /\ th[n][Main].pc = "boot" /\ DOMAIN rows # {}
    /\ Goto(n, Main, "begin")
    /\ UNCHANGED <<rows, nextRow, segments, history, calls, crashes>>

\* startTs: now, or one above the timestamp of the newest stored message.
StartTs(now) ==
    LET existing == ExtractTimestamp(MaxMessageID) + 1
    IN  IF MaxMessageID > 0 /\ existing > now THEN existing ELSE now

\* No row: the INSERT takes its id from the sequence...  (A server that is not
\* of Initialisers is not up yet.)
InsertState(n, now) ==
    /\ n \in Initialisers
    /\ th[n][Main].pc = "boot" /\ DOMAIN rows = {}
    /\ th' = [th EXCEPT ![n][Main] =
                Carry("insert", nextRow, StartTs(now) + SegmentDurationMs, NoSeg)]
    /\ nextRow' = nextRow + 1
    /\ UNCHANGED <<rows, segments, history, calls, crashes>>

\* ... and is visible to the others when it commits, in whatever order.
CommitInsert(n) ==
    LET me == th[n][Main] IN
    /\ me.pc = "insert"
    /\ rows' = [r \in DOMAIN rows \cup {me.row} |->
                    IF r = me.row THEN me.ts ELSE rows[r]]
    /\ Goto(n, Main, "begin")
    /\ UNCHANGED <<nextRow, segments, history, calls, crashes>>

-----------------------------------------------------------------------------
(***************************************************************************)
(* GenerateID: tryGenerateFromCurrent, one critical section of g.mu, until *)
(* it answers; fetchNewSegmentSync in between.                             *)
(***************************************************************************)
Call(n, c) ==
    /\ Ready(n) /\ th[n][c].pc = "idle" /\ calls < MaxCalls
    /\ Goto(n, c, "try")
    /\ calls' = calls + 1
    /\ UNCHANGED <<rows, nextRow, segments, history, crashes>>

NoSegment(n, c) ==
    /\ th[n][c].pc = "try" /\ segments[n] = <<>>
    /\ Goto(n, c, "check")
    /\ UNCHANGED <<rows, nextRow, segments, history, calls, crashes>>

\* (A slip for PopExhausted: the exhausted segment stays at the head.)
PopNothing(n, c) ==
    /\ th[n][c].pc = "try" /\ segments[n] # <<>>
    /\ Head(segments[n]).cur >= Head(segments[n]).end
    /\ Goto(n, c, "check")
    /\ UNCHANGED <<rows, nextRow, segments, history, calls, crashes>>

PopExhausted(n, c) ==
    /\ th[n][c].pc = "try" /\ segments[n] # <<>>
    /\ Head(segments[n]).cur >= Head(segments[n]).end
    /\ segments' = [segments EXCEPT ![n] = Tail(@)]
    /\ Goto(n, c, "check")
    /\ UNCHANGED <<rows, nextRow, history, calls, crashes>>

\* The segment is low, the list has room and prefetchCh has a free slot: the
\* slot is taken until the prefetch goroutine returns.
StartsPrefetch(n, left) ==
    /\ left <= SegmentSize \div 4
    /\ Len(segments[n]) < 2
    /\ th[n][Prefetch].pc = "idle"

\* (A slip for HandOut: current is not advanced.)
HandOutAgain(n, c) ==
    LET id == Head(segments[n]).cur + 1
    IN  /\ th[n][c].pc = "try" /\ segments[n] # <<>>
        /\ id <= Head(segments[n]).end
        /\ Goto(n, c, "idle")
        /\ issued' = issued \cup {id} /\ handed' = handed + 1
        /\ UNCHANGED <<rows, nextRow, segments, calls, crashes>>

HandOut(n, c) ==
    LET seg == Head(segments[n])
        id == seg.cur + 1
    IN  /\ th[n][c].pc = "try" /\ segments[n] # <<>>
        /\ id <= seg.end
        /\ segments' = [segments EXCEPT ![n][1] = [cur |-> id, end |-> seg.end]]
        /\ th' = IF StartsPrefetch(n, seg.end - id)
                 THEN [th EXCEPT ![n][c] = At("idle"), ![n][Prefetch] = At("begin")]
                 ELSE [th EXCEPT ![n][c] = At("idle")]
        /\ issued' = issued \cup {id}
        /\ handed' = handed + 1
        /\ UNCHANGED <<rows, nextRow, calls, crashes>>

\* The first check of fetchNewSegmentSync.
CheckEmpty(n, c) ==
    /\ th[n][c].pc = "check"
    /\ Goto(n, c, IF Len(segments[n]) >= 1 THEN "try" ELSE "begin")
    /\ UNCHANGED <<rows, nextRow, segments, history, calls, crashes>>

-----------------------------------------------------------------------------
(***************************************************************************)
(* fetchNewSegmentFromDB, for Main, a caller or the prefetch.              *)
(***************************************************************************)
Locked(r) == \E n \in Nodes, t \in Threads : th[n][t].pc = "tx" /\ th[n][t].row = r

\* (Slips for SelectForUpdate: no FOR UPDATE; a segment that starts at last_ts.)
SelectUnlocked(n, t) ==
    /\ th[n][t].pc = "begin"
    /\ th' = [th EXCEPT ![n][t] = Carry("tx", FirstRow, rows[FirstRow] + 1, NoSeg)]
    /\ UNCHANGED <<rows, nextRow, segments, history, calls, crashes>>

SelectSameTs(n, t) ==
    /\ th[n][t].pc = "begin"
    /\ ~ Locked(FirstRow)
    /\ th' = [th EXCEPT ![n][t] = Carry("tx", FirstRow, rows[FirstRow], NoSeg)]
    /\ UNCHANGED <<rows, nextRow, segments, history, calls, crashes>>

\* BEGIN; SELECT ... FOR UPDATE.  The row stays locked while a thread is "tx".
SelectForUpdate(n, t) ==
    /\ th[n][t].pc = "begin"
    /\ ~ Locked(FirstRow)
    /\ th' = [th EXCEPT ![n][t] = Carry("tx", FirstRow, rows[FirstRow] + 1, NoSeg)]
    /\ UNCHANGED <<rows, nextRow, segments, history, calls, crashes>>

\* (A slip for Persist: the start of the segment is stored, not its end.)
PersistStart(me) == rows' = [rows EXCEPT ![me.row] = me.ts]

Persist(me) == rows' = [rows EXCEPT ![me.row] = me.ts + SegmentDurationMs]

CommitFetch(n, t) ==
    /\ th[n][t].pc = "tx"
    /\ Persist(th[n][t])
    /\ th' = [th EXCEPT ![n][t] = Carry("have", 0, 0, NewSegment(n, th[n][t].ts))]
    /\ UNCHANGED <<nextRow, segments, history, calls, crashes>>

\* (A slip for FailFetch: a prefetch that fails keeps its slot.)
FailFetchKeepsSlot(n, t) ==
    /\ t # Main
    /\ \/ th[n][t].pc \in {"begin", "tx"} /\ UNCHANGED rows
       \/ th[n][t].pc = "tx" /\ Persist(th[n][t])
    /\ Goto(n, t, IF t = Prefetch THEN "done" ELSE "idle")
    /\ UNCHANGED <<nextRow, segments, history, calls, crashes>>

\* A statement fails and the transaction is rolled back, or it commits and the
\* answer is lost: the caller gets an error, the prefetch gives up.
FailFetch(n, t) ==
    /\ t # Main
    /\ \/ th[n][t].pc \in {"begin", "tx"} /\ UNCHANGED rows
       \/ th[n][t].pc = "tx" /\ Persist(th[n][t])
    /\ Goto(n, t, IF t = Prefetch THEN "release" ELSE "idle")
    /\ UNCHANGED <<nextRow, segments, history, calls, crashes>>

\* The second check of fetchNewSegmentSync: only an empty list takes the
\* segment, otherwise it is dropped.
AppendSync(n, t) ==
    /\ t # Prefetch /\ th[n][t].pc = "have"
    /\ segments' = IF Len(segments[n]) = 0
                   THEN [segments EXCEPT ![n] = Append(@, th[n][t].seg)]
                   ELSE segments
    /\ Goto(n, t, IF t = Main THEN "done" ELSE "try")
    /\ UNCHANGED <<rows, nextRow, history, calls, crashes>>

AppendPrefetch(n) ==
    /\ th[n][Prefetch].pc = "have"
    /\ segments' = IF Len(segments[n]) < 2
                   THEN [segments EXCEPT ![n] = Append(@, th[n][Prefetch].seg)]
                   ELSE segments
    /\ Goto(n, Prefetch, "release")
    /\ UNCHANGED <<rows, nextRow, history, calls, crashes>>

\* The deferred <-g.prefetchCh.
ReleaseSlot(n) ==
    /\ th[n][Prefetch].pc = "release"
    /\ Goto(n, Prefetch, "idle")
    /\ UNCHANGED <<rows, nextRow, segments, history, calls, crashes>>

-----------------------------------------------------------------------------
(***************************************************************************)
(* The process dies and is started again: memory is lost, open             *)
(* transactions are rolled back, their row locks released.  (A death right *)
(* after the COMMIT reached the database is CommitFetch, then Crash.)      *)
(***************************************************************************)
Crash(n) ==
    /\ crashes < MaxCrashes
    /\ crashes' = crashes + 1
    /\ segments' = [segments EXCEPT ![n] = <<>>]
    /\ th' = [th EXCEPT ![n] = [t \in Threads |->
                At(IF t = Main THEN "boot" ELSE "idle")]]
    /\ UNCHANGED <<rows, nextRow, history, calls>>

Boot(n) == FoundState(n) \/ (\E now \in Clock : InsertState(n, now)) \/ CommitInsert(n)

Generate(n, c) ==
    NoSegment(n, c) \/ PopExhausted(n, c) \/ HandOut(n, c) \/ CheckEmpty(n, c)

Fetch(n, t) ==
    SelectForUpdate(n, t) \/ CommitFetch(n, t) \/ FailFetch(n, t) \/ AppendSync(n, t)

Next ==
    \E n \in Nodes :
        \/ Boot(n) \/ AppendPrefetch(n) \/ ReleaseSlot(n) \/ Crash(n)
        \/ \E c \in Callers : Call(n, c) \/ Generate(n, c)
        \/ \E t \in Threads : Fetch(n, t)

Spec == Init /\ [][Next]_vars

\* The Go scheduler runs every goroutine and the database answers; nothing
\* forces a call to be made or a server to die.
Fairness ==
    \A n \in Nodes :
        /\ WF_vars(Boot(n) \/ Fetch(n, Main))
        /\ WF_vars(Fetch(n, Prefetch) \/ AppendPrefetch(n) \/ ReleaseSlot(n))
        /\ \A c \in Callers : WF_vars(Generate(n, c) \/ Fetch(n, c))

FairSpec == Spec /\ Fairness

-----------------------------------------------------------------------------
Segment == [cur : Nat \cup {-1}, end : Nat]
Labels == {"idle", "boot", "insert", "begin", "tx", "have", "release", "done", "try", "check"}
Goroutine == [pc : Labels, row : Nat, ts : Nat, seg : Segment]

TypeOK ==
    /\ nextRow \in Nat \ {0}
    /\ DOMAIN rows \subseteq 1 .. nextRow - 1
    /\ rows \in [DOMAIN rows -> Nat]
    /\ segments \in [Nodes -> Seq(Segment)]
    /\ th \in [Nodes -> [Threads -> Goroutine]]
    /\ issued \subseteq Nat /\ IsFiniteSet(issued) /\ handed \in Nat
    /\ calls \in 0 .. MaxCalls /\ crashes \in 0 .. MaxCrashes

\* idgen.go:49, "it guarantees that ids are unique": across the servers, their
\* goroutines, late prefetches, lost commits and restarts, no identifier is
\* handed out twice, nor is one that a stored message already had.
Unique == Cardinality(issued) = Cardinality(Legacy) + handed

\* An identifier is handed out only when last_ts in the database is at least
\* its timestamp: whatever is in memory may be lost at any time.
CoveredByState ==
    \A id \in issued \ Legacy : \E r \in DOMAIN rows : id < FirstID(rows[r] + 1)

\* A segment a transaction has just reserved lies wholly above every identifier
\* handed out before, by any server, also before a restart (idgen.go:257).
ReservedAbove ==
    [][\A n \in Nodes, t \in Threads :
          (th[n][t].pc = "tx" /\ th'[n][t].pc = "have")
             => \A id \in issued : id <= th'[n][t].seg.cur]_vars

\* idgen.go:220, "only keep at most 2 segments", whichever way they came.
AtMostTwoSegments == \A n \in Nodes : Len(segments[n]) <= 2

\* The prefetch slot is given back, and every call returns an identifier or an
\* error: no goroutine waits for ever for another's row lock or segment, of
\* whatever server.  (Always idle again: not idle leads to idle.)
CallsReturn == \A n \in Nodes, c \in Callers : []<>(th[n][c].pc = "idle")
SlotComesBack == \A n \in Nodes : []<>(th[n][Prefetch].pc = "idle")

-----------------------------------------------------------------------------
(***************************************************************************)
(* Why identifiers are unique.  Call the range (cur, end] of a segment its *)
(* stock.  The stocks in memory, in the lists and in the hands of the      *)
(* goroutines, are apart from one another and from what was handed out,    *)
(* and all of it lies at or below last_ts, where the next segment starts.  *)
(***************************************************************************)
\* Only one server may ever find the state table empty.
SingleInitialiser == ~FreshDB \/ \A n, m \in Initialisers : n = m

Has(n, t) == th[n][t].pc = "have"
InTx(n, t) == th[n][t].pc = "tx"
Places(n) == 1 .. Len(segments[n])

Apart(s, u) == s.end <= u.cur \/ u.end <= s.cur
Clear(s) == \A id \in issued : id <= s.cur \/ s.end < id

\* There is one row; before there is, nothing was reserved and one server at
\* most may be inserting.
OneRow ==
    /\ \A r, s \in DOMAIN rows : r = s
    /\ DOMAIN rows = {} =>
          /\ issued = Legacy
          /\ \A n, m \in Initialisers : n = m
          /\ \A n \in Nodes : segments[n] = <<>>
          /\ \A n \in Nodes, t \in Threads :
                th[n][t].pc \in IF t = Main THEN {"boot", "insert"} ELSE {"idle"}
    /\ \A n \in Nodes, t \in Threads :
          th[n][t].pc = "insert" =>
             /\ t = Main /\ n \in Initialisers /\ DOMAIN rows = {}
             /\ th[n][t].row \in 1 .. nextRow - 1
             /\ \A id \in issued : id < FirstID(th[n][t].ts + 1)

\* A transaction holds the row as it read it, and is the only one to.
RowLock ==
    /\ \A n \in Nodes, t \in Threads :
          InTx(n, t) => /\ th[n][t].row \in DOMAIN rows
                        /\ th[n][t].ts = rows[th[n][t].row] + 1
    /\ \A n, m \in Nodes, t, u \in Threads :
          InTx(n, t) /\ InTx(m, u) => n = m /\ t = u

\* Nothing reserved or handed out lies above last_ts.
BelowState ==
    \A r \in DOMAIN rows :
       /\ \A id \in issued : id < FirstID(rows[r] + 1)
       /\ \A n \in Nodes : \A i \in Places(n) : segments[n][i].end < FirstID(rows[r] + 1)
       /\ \A n \in Nodes, t \in Threads :
             Has(n, t) => th[n][t].seg.end < FirstID(rows[r] + 1)

StocksApart ==
    /\ \A n, m \in Nodes : \A i \in Places(n), j \in Places(m) :
          <<n, i>> # <<m, j>> => Apart(segments[n][i], segments[m][j])
    /\ \A n, m \in Nodes : \A i \in Places(n), t \in Threads :
          Has(m, t) => Apart(segments[n][i], th[m][t].seg)
    /\ \A n, m \in Nodes : \A t, u \in Threads :
          Has(n, t) /\ Has(m, u) /\ <<n, t>> # <<m, u>> => Apart(th[n][t].seg, th[m][u].seg)

StocksClear ==
    /\ \A n \in Nodes : \A i \in Places(n) : Clear(segments[n][i])
    /\ \A n \in Nodes, t \in Threads : Has(n, t) => Clear(th[n][t].seg)

IInv == TypeOK /\ OneRow /\ RowLock /\ BelowState /\ StocksApart /\ StocksClear /\ Unique

\* What the callers may rely on, and no more: IdService.
Service == INSTANCE IdService WITH Legacy <- Legacy, issued <- issued, handed <- handed
Implements == Service!Spec
==============================================================================
